---------------------------- MODULE MCMultipart ----------------------------
(***************************************************************************)
(* Small instances of Multipart for TLC.                                   *)
(***************************************************************************)
EXTENDS Multipart, TLC

\* Requests are interchangeable.
Symmetry == Permutations(Requests)

=============================================================================
