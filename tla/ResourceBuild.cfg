CONSTANTS
  Xmls <- MCXmls
  Plists <- MCPlists
  MaxEdits = 2
  MaxTroubles = 2
SPECIFICATION FairSpec
INVARIANT TypeOK
INVARIANT TrustEarned
INVARIANT RecordsSettle
PROPERTY Recovers
