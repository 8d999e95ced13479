SPECIFICATION FairSpec
CONSTANTS
  Requests = {p1, p2, p3}
  Ops = {"create", "get", "list", "put", "delete"}
  Faults = {"crash"}
  Nil = Nil
INVARIANTS IndInv SingleHandle CreateOnce AckedInPlace OrderlyNameUsable ListSucceeds
PROPERTIES OrderlyDeletes RequestsAnswered
CHECK_DEADLOCK FALSE
