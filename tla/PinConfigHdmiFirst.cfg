CONSTANTS
  Codecs <- MCBoth
  CodecId <- MCCodecId
  AppleLayouts <- MCShared
  AnalogCodec = 5
  AnalogLayout = 18
  ConfigLists <- MCLists
  Routings <- MCHooked
  EarlyDrivers <- MCNone
SPECIFICATION Spec
INVARIANT WakeReinitArmed
