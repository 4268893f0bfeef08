CONSTANTS
  Machines <- MCMachines
  NvidiaIds <- MCNvidiaIds
SPECIFICATION Spec
INVARIANT AlcLayoutPrecedence
CHECK_DEADLOCK FALSE
