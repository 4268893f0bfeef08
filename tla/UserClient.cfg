CONSTANTS
  Tools <- MCTools
  NumCodecs = 3
  CommandLines <- MCCommandLines
  Upper <- MCUpper
  Responses <- MCResponses
SPECIFICATION FairSpec
INVARIANT TypeOK
INVARIANT VerbAsAsked
INVARIANT OnlyAllowedCodecs
INVARIANT IndexPicksCodec
PROPERTY ToolEnds
CHECK_DEADLOCK FALSE
