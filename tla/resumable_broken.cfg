SPECIFICATION Spec
CONSTANTS
  Requests = {r1, r2, r3}
  N = 3
  Kinds = {"chunk", "probe"}
  Checksums = {FALSE}
  Breaking = {FALSE}
  Nil = Nil
SYMMETRY Symmetry
INVARIANTS Integrity
CHECK_DEADLOCK FALSE
