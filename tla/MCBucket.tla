------------------------------ MODULE MCBucket ------------------------------
(***************************************************************************)
(* Small instances of Bucket for TLC.                                      *)
(***************************************************************************)
EXTENDS Bucket, TLC

Unconditional == {NoConditions}

\* The create-only condition of both APIs (ifGenerationMatch=0 and
\* If-None-Match: *), and an update of an object that has moved on.
MCConds ==
  {NoConditions,
   [NoConditions EXCEPT !.generationMatch = 0, !.metagenerationNotMatch = 1],
   [NoConditions EXCEPT !.generationNotMatch = 1, !.metagenerationMatch = 1]}

\* Requests and contents are interchangeable.
Symmetry == Permutations(Requests) \cup Permutations(Contents)

=============================================================================
