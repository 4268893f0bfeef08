CONSTANTS
  Machines <- MCMachines
  NvidiaIds <- MCNvidiaIds
  ControllerMod <- MCControllerMod
  CodecMod <- MCCodecMod
  BruteMax = 2
SPECIFICATION FairAlcSpec
INVARIANT AlcTypeOK
INVARIANT NvidiaIdsExclusive
INVARIANT ControllerPatchesExact
INVARIANT CodecPatchesInAppleHDA
INVARIANT CodecsSuitable
INVARIANT ResourceFits
PROPERTY SearchExhaustive
PROPERTY ImplementsKextPatching
PROPERTY ProcessingEnds
