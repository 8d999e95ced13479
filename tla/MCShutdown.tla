----------------------------- MODULE MCShutdown -----------------------------
(***************************************************************************)
(* A small instance of Shutdown for TLC: both servers, with two requests   *)
(* to the first one and two to the second.                                 *)
(***************************************************************************)
EXTENDS Shutdown

MCServers == <<"gcs", "s3">>
MCRequests == 1..4
MCServerOf == [r \in MCRequests |-> IF r <= 2 THEN 1 ELSE 2]

=============================================================================
