CONSTANTS
  Codecs <- MCBoth
  CodecId <- MCCodecId
  AppleLayouts <- MCAnyLayouts
  AnalogCodec = 5
  AnalogLayout = 18
  ConfigLists <- MCLists
  Routings <- MCAnyHooks
  EarlyDrivers <- MCEarly
SPECIFICATION FairSpec
INVARIANT TypeOK
INVARIANT ArmedWithOwnList
INVARIANT ConfiguredWhenAwake
INVARIANT BootVerbsSent
INVARIANT NoNullTrampoline
PROPERTY ForcedOnlyWhenLost
PROPERTY ImplementsWakeVerbs
PROPERTY VerbsReturn
