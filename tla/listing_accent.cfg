SPECIFICATION Spec
CONSTANTS
  Names <- MCNames
  Churn = {}
  Walks <- AccentWalks
  DefaultMax = 2
  BatchSize = 2
INVARIANTS PurgesOnlyPrefix
CHECK_DEADLOCK FALSE
