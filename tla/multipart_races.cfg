SPECIFICATION FairSpec
CONSTANTS
  Requests = {r1, r2, r3}
  Numbers = {1, 2}
  MaxListed = 2
  Nil = Nil
INVARIANTS IndInv AckedPartsUsable NoStagedFileLeft CompleteHonoursETags
PROPERTIES DoneIsFinal RequestsAnswered
CHECK_DEADLOCK FALSE
