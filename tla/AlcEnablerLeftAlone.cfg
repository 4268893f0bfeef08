CONSTANTS
  Machines <- MCFewMachines
  NvidiaIds <- MCNvidiaIds
  ControllerMod <- MCControllerMod
  CodecMod <- MCCodecMod
  BruteMax = 2
SPECIFICATION AlcSpec
INVARIANT LeftAlone
