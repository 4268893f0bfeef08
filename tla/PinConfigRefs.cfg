CONSTANTS
  Codecs <- MCCodecs
  Personality = "personality"
SPECIFICATION Spec
INVARIANT TypeOK
INVARIANT CountsMatch
INVARIANT OvertakenOnly
CHECK_DEADLOCK FALSE
