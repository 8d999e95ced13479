---------------------------- MODULE MCResumable ----------------------------
(***************************************************************************)
(* Small instances of Resumable for TLC.                                   *)
(***************************************************************************)
EXTENDS Resumable, TLC

\* Requests are interchangeable.
Symmetry == Permutations(Requests)

=============================================================================
