SPECIFICATION Spec
CONSTANTS
  Requests = {p1, p2, p3}
  Ops = {"create", "put", "delete"}
  Faults = {}
  Nil = Nil
SYMMETRY Symmetry
PROPERTIES DeletesOnlyEmpty
CHECK_DEADLOCK FALSE
