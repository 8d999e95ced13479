----------------------------- MODULE MCFrontend -----------------------------
(***************************************************************************)
(* A small instance of Frontend for TLC: a bucket whose name is also a     *)
(* word of the GCS paths, and names with "/" at the start, inside and at   *)
(* the end.                                                                *)
(***************************************************************************)
EXTENDS Frontend

MCWords ==
  {"/", "%2F", "storage", "v1", "b", "o", "upload", "download", "bkt", "k"}
MCBuckets == {<<"bkt">>, <<"storage">>}
MCKeys == {<<"k">>, <<"k", "/">>, <<"/", "k">>, <<"v1", "/", "b">>}
MCContents == {<<"x", "y">>}

=============================================================================
