CONSTANTS
  Trees <- MCTrees
  Bytes <- MCBytes
  HeaderIds <- MCHeaderIds
SPECIFICATION Spec
INVARIANT TypeOK
INVARIANT DeclaredBeforeUse
INVARIANT TablesFaithful
INVARIANT NothingTwice
CHECK_DEADLOCK FALSE
