SPECIFICATION Spec
CONSTANTS
  Requests = {p1, p2}
  Names = {a, b}
  ValidNames = {a, b}
  Contents = {x, y}
  Clock = {1}
  CondSet <- MCConds
  Ops = {"put", "delete", "get", "copy"}
  Faults = {"io", "crash"}
  MaxGen = 3
  Nil = Nil
SYMMETRY Symmetry
INVARIANTS RefcountsExact LiveBlobsPresent IndInv
PROPERTIES GenerationGrows ReadFailsOnlyIfChanged ImplementsObjectMap
