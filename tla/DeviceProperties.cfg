CONSTANTS
  Machines <- MCMachines
  NvidiaIds <- MCNvidiaIds
SPECIFICATION Spec
INVARIANT PropTypeOK
INVARIANT OnboardDistinct
INVARIANT OneBuiltinCarrier
INVARIANT IdsReserved
INVARIANT AlcLayoutProvenance
CHECK_DEADLOCK FALSE
