------------------------------ MODULE MCStore ------------------------------
(***************************************************************************)
(* Small instances of Store for TLC.                                       *)
(***************************************************************************)
EXTENDS Store, TLC

\* Requests are interchangeable.
Symmetry == Permutations(Requests)

=============================================================================
