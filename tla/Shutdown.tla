------------------------------ MODULE Shutdown ------------------------------
(***************************************************************************)
(* The life of the process (cmd/objectstorage/main.go): the servers start, *)
(* a signal has them shut down one after the other under one deadline, and *)
(* main returns when every ListenAndServe has, closing the store on its    *)
(* way out, while requests are being served.                               *)
(*                                                                         *)
(* Of a request the model keeps the handle it has got from the store and   *)
(* whether its transaction is done.  Requests use one bucket.              *)
(***************************************************************************)
EXTENDS Naturals, Sequences

CONSTANTS
  Servers,   \* the servers in the order main lists them
  Requests,
  ServerOf   \* Requests -> the index of the server a request is sent to

ASSUME ShutdownAssumption ==
  /\ Servers \in Seq({"gcs", "s3"}) /\ Servers # <<>>
  /\ ServerOf \in [Requests -> 1..Len(Servers)]

VARIABLES
  main,      \* "serving", "returning", "closed" or "exited"
  listener,  \* server -> "new", "open", "closed" or "failed"
  returned,  \* servers whose ListenAndServe goroutine is done
  shutting,  \* server whose Shutdown runs, 0 before the signal
  deadline,  \* "unset", "set" or "expired"
  stage      \* request -> how far it has got

vars == <<main, listener, returned, shutting, deadline, stage>>

Index == 1..Len(Servers)

\* Stages of a request whose connection the server counts as in use.
InUse == {"accepted", "active", "holding", "stale", "committed", "failed"}

Init ==
  /\ main = "serving"
  /\ listener = [s \in Index |-> "new"]
  /\ returned = {}
  /\ shutting = 0
  /\ deadline = "unset"
  /\ stage = [r \in Requests |-> "none"]

Alive == main # "exited"

\* The process is gone, and with it every connection.
Exit ==
  /\ main' = "exited"
  /\ stage' = [r \in Requests |-> IF stage[r] \in InUse THEN "cut" ELSE stage[r]]

-----------------------------------------------------------------------------
(***************************************************************************)
(* The goroutines of main.                                                 *)
(***************************************************************************)

\* ListenAndServe: not after Shutdown; log.Fatal when the address is taken.
Listen(s) ==
  /\ Alive
  /\ listener[s] = "new"
  /\ \/ /\ listener' = [listener EXCEPT ![s] = "open"]
        /\ UNCHANGED <<main, stage>>
     \/ /\ listener' = [listener EXCEPT ![s] = "failed"]
        /\ Exit
  /\ UNCHANGED <<returned, shutting, deadline>>

\* It returns as soon as its listener is closed, and wg.Done is called.
Return(s) ==
  /\ Alive
  /\ listener[s] = "closed"
  /\ s \notin returned
  /\ returned' = returned \cup {s}
  /\ UNCHANGED <<main, listener, shutting, deadline, stage>>

\* Faulty variant: the servers are shut down at the same time.
BeginShutdownAtOnce(s) ==
  /\ Alive
  /\ shutting = s - 1
  /\ shutting' = s
  /\ listener' = [listener EXCEPT ![s] = "closed"]
  /\ deadline' = IF deadline = "unset" THEN "set" ELSE deadline
  /\ UNCHANGED <<main, returned, stage>>

\* The signal arrives, or Shutdown of the server before has returned: its
\* connections are idle, or the context has expired.
BeginShutdown(s) ==
  /\ Alive
  /\ shutting = s - 1
  /\ s > 1 => \/ \A r \in Requests : ServerOf[r] = s - 1 => stage[r] \notin InUse
              \/ deadline = "expired"
  /\ shutting' = s
  /\ listener' = [listener EXCEPT ![s] = "closed"]
  /\ deadline' = IF deadline = "unset" THEN "set" ELSE deadline
  /\ UNCHANGED <<main, returned, stage>>

\* Ten seconds have passed since the signal.
Expire ==
  /\ Alive
  /\ deadline = "set"
  /\ deadline' = "expired"
  /\ UNCHANGED <<main, listener, returned, shutting, stage>>

\* Faulty variants: main does not wait for all the servers; it waits for the
\* clients too.
WaitFirst ==
  /\ main = "serving"
  /\ returned # {}
  /\ main' = "returning"
  /\ UNCHANGED <<listener, returned, shutting, deadline, stage>>

WaitForClients ==
  /\ main = "serving"
  /\ returned = Index
  /\ \A r \in Requests : stage[r] \notin InUse
  /\ main' = "returning"
  /\ UNCHANGED <<listener, returned, shutting, deadline, stage>>

\* wg.Wait returns.
Wait ==
  /\ main = "serving"
  /\ returned = Index
  /\ main' = "returning"
  /\ UNCHANGED <<listener, returned, shutting, deadline, stage>>

\* The deferred Close closes the handles and takes them out of s.buckets.
Close ==
  /\ main = "returning"
  /\ main' = "closed"
  /\ stage' = [r \in Requests |-> IF stage[r] = "holding" THEN "stale" ELSE stage[r]]
  /\ UNCHANGED <<listener, returned, shutting, deadline>>

MainReturns ==
  /\ main = "closed"
  /\ Exit
  /\ UNCHANGED <<listener, returned, shutting, deadline>>

-----------------------------------------------------------------------------
(***************************************************************************)
(* Requests.                                                               *)
(***************************************************************************)

Move(r, from, next) ==
  /\ Alive
  /\ stage[r] \in from
  /\ stage' = [stage EXCEPT ![r] = next]
  /\ UNCHANGED <<main, listener, returned, shutting, deadline>>

Accept(r) == listener[ServerOf[r]] = "open" /\ Move(r, {"none"}, "accepted")

\* The request arrives on the connection.
Arrive(r) == Move(r, {"accepted"}, "active")

\* Shutdown closes connections without a request.
CloseIdle(r) ==
  listener[ServerOf[r]] = "closed" /\ Move(r, {"accepted"}, "closed")

\* bucket() finds the handle, or opens it anew after Close.
GetHandle(r) == Move(r, {"active"}, "holding")

Commit(r) == Move(r, {"holding"}, "committed")

\* sql: database is closed.
CommitFails(r) == Move(r, {"stale"}, "failed")

Answered(r) == Move(r, {"committed", "failed"}, "answered")

Process ==
  \/ \E s \in Index : Listen(s) \/ Return(s)
  \/ \E s \in Index \ {1} : BeginShutdown(s)
  \/ Expire \/ Wait \/ Close \/ MainReturns

Signal == BeginShutdown(1)

Client(r) ==
  \/ Accept(r) \/ Arrive(r) \/ CloseIdle(r)
  \/ GetHandle(r) \/ Commit(r) \/ CommitFails(r) \/ Answered(r)

Next == Process \/ Signal \/ \E r \in Requests : Client(r)

Spec == Init /\ [][Next]_vars

\* The goroutines of main run and time passes; clients may stall for ever.
FairSpec == Spec /\ WF_vars(Process)

-----------------------------------------------------------------------------
(***************************************************************************)
(* Properties.                                                             *)
(***************************************************************************)

\* Every variable has its type.
TypeOK ==
  /\ main \in {"serving", "returning", "closed", "exited"}
  /\ listener \in [Index -> {"new", "open", "closed", "failed"}]
  /\ returned \subseteq Index
  /\ shutting \in 0..Len(Servers)
  /\ deadline \in {"unset", "set", "expired"}
  /\ stage \in [Requests -> InUse \cup {"none", "closed", "answered", "cut"}]

ListenFailed == \E s \in Index : listener[s] = "failed"

\* Requests of every server but the last one are finished before the store is
\* closed and the process exits, unless they take longer than the deadline.
\* The last server has no such grace: main returns once its listener is
\* closed.
EarlierServersDrain ==
  \A r \in Requests :
    ServerOf[r] < Len(Servers) /\ stage[r] \in {"stale", "failed", "cut"}
      => deadline = "expired" \/ ListenFailed

\* The store is closed, and the process gone, only when no server accepts
\* connections any more: no listener outlives the store.
StoreOutlivesListeners ==
  main \in {"closed", "exited"} /\ ~ListenFailed =>
    \A s \in Index : listener[s] = "closed"

\* After the signal the process exits, whatever its clients do.
ExitsAfterSignal == shutting > 0 ~> main = "exited"

(***************************************************************************)
(* Why the two invariants hold: the servers are shut down in order, each   *)
(* only when those before it are idle or out of time, a goroutine is done  *)
(* only when its listener is closed, and main goes on only when all are.   *)
(***************************************************************************)
OrderInv ==
  /\ \A s \in Index : listener[s] = "closed" <=> s <= shutting
  /\ \A s \in returned : listener[s] = "closed"
  /\ main # "serving" => returned = Index \/ ListenFailed
  /\ ListenFailed => main = "exited"

DrainInv ==
  \A r \in Requests :
    ServerOf[r] < shutting /\ stage[r] \in InUse => deadline = "expired"

\* The inductive invariant behind both.
IndInv == TypeOK /\ OrderInv /\ DrainInv /\ EarlierServersDrain

=============================================================================
