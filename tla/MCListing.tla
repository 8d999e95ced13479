----------------------------- MODULE MCListing -----------------------------
(***************************************************************************)
(* Small instances of Listing for TLC: names over the bytes of "/", "0",   *)
(* "a" and "b", and the two-byte letters e acute and e circumflex.         *)
(***************************************************************************)
EXTENDS Listing

Slash == <<47>>
A == <<97>>
ADir == <<97, 47>>
EAcute == <<195, 169>>

MCNames == {A, ADir, <<97, 47, 98>>, <<97, 47, 98, 47, 98>>, <<97, 48>>,
            EAcute, <<195, 170>>}
MCChurn == {ADir, <<97, 47, 98>>}

Plain == [NoWalk EXCEPT !.max = 1]

\* The three APIs with and without prefix and delimiter, in pages of one and of
\* the default size; walks that start after a name; walks that delete.
MCWalks ==
  {[Plain EXCEPT !.api = a, !.prefix = p, !.delimiter = d, !.max = m] :
     a \in {"gcs", "v1"}, p \in {<<>>, ADir}, d \in {<<>>, Slash},
     m \in {0, 1}}
  \cup {[Plain EXCEPT !.api = a, !.delimiter = d, !.after = ADir \o <<98>>] :
          a \in {"v1", "v2"}, d \in {<<>>, Slash}}
  \cup {[Plain EXCEPT !.api = "v2", !.purge = TRUE, !.prefix = p, !.max = 2] :
          p \in {<<>>, A}}
  \cup {[Plain EXCEPT !.prefix = EAcute], [Plain EXCEPT !.delimiter = EAcute]}

\* A recursive delete of what starts with e acute.
AccentWalks == {[Plain EXCEPT !.api = "v2", !.prefix = EAcute, !.purge = TRUE]}

=============================================================================
