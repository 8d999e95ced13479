SPECIFICATION FairSpec
CONSTANTS
  Requests = {p1, p2}
  Names = {a, b, bad}
  ValidNames = {a, b}
  Contents = {x, y}
  Clock = {1}
  CondSet <- Unconditional
  Ops = {"put", "delete", "get", "copy"}
  Faults = {}
  MaxGen = 2
  Nil = Nil
INVARIANTS NoGarbage
PROPERTIES MutationsAnswered
