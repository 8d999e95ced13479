SPECIFICATION Spec
CONSTANTS
  Requests = {r1, r2, r3, r4}
  N = 2
  Kinds = {"chunk", "probe", "whole", "malformed"}
  Checksums = {TRUE, FALSE}
  Breaking = {TRUE}
  Nil = Nil
SYMMETRY Symmetry
INVARIANTS IndInv Integrity OffsetIsStored AnswersTrue NoTempFileLeft
CHECK_DEADLOCK FALSE
