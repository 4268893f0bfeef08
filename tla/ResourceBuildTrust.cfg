CONSTANTS
  Xmls <- MCXmls
  Plists <- MCPlists
  MaxEdits = 2
  MaxTroubles = 2
SPECIFICATION Spec
INVARIANT TrustedIsWhole
