SPECIFICATION FairSpec
CONSTANTS
  Names <- MCNames
  Churn <- MCChurn
  Walks <- MCWalks
  DefaultMax = 2
  BatchSize = 2
INVARIANTS IndInv ListsEachOnce ListsNothingElse PagesFull PurgesExactly
PROPERTIES WalkEnds
CHECK_DEADLOCK FALSE
