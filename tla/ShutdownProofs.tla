--------------------------- MODULE ShutdownProofs ---------------------------
(***************************************************************************)
(* Proofs about Shutdown, for any number of servers and requests and any   *)
(* assignment of requests to servers.                                      *)
(***************************************************************************)
EXTENDS Shutdown, TLAPS

\* Servers are numbered from 1 and every request goes to one of them.
LEMMA Numbering ==
  /\ Len(Servers) \in Nat
  /\ Index \subseteq Nat \ {0}
  /\ \A r \in Requests : ServerOf[r] \in Index
BY ShutdownAssumption DEF Index

\* Once main is past its wait and no listener has failed, every server has
\* been told to shut down.
LEMMA AllShutDown ==
  ASSUME IndInv, main \in {"returning", "closed"}, NEW r \in Requests
  PROVE  ~ListenFailed /\ shutting = Len(Servers)
<1>1. ~ListenFailed /\ returned = Index
  BY DEF IndInv, OrderInv
<1>2. Len(Servers) \in Index
  BY Numbering DEF Index
<1>3. Len(Servers) <= shutting
  BY <1>1, <1>2 DEF IndInv, OrderInv
<1> QED
  BY <1>1, <1>3, Numbering DEF IndInv, TypeOK

\* A request that moves on keeps the invariant, as long as it does not come
\* to life on a server that is shutting down, and loses its handle or its
\* connection only where Close or the exit of the process has taken it.
LEMMA MoveInvariant ==
  ASSUME IndInv, NEW r \in Requests, NEW from, NEW next,
         next \in InUse \cup {"closed", "answered"},
         Move(r, from, next),
         next \in InUse => from \subseteq InUse \/ ServerOf[r] > shutting,
         next \in {"stale", "failed"} => from = {"stale"}
  PROVE  IndInv'
<1> USE DEF IndInv
<1>1. stage' \in [Requests -> InUse \cup {"none", "closed", "answered", "cut"}]
  BY DEF Move, TypeOK
<1>2. TypeOK'
  BY <1>1 DEF Move, TypeOK
<1>3. OrderInv'
  BY DEF Move, OrderInv, ListenFailed
<1>4. DrainInv'
  BY Numbering DEF Move, DrainInv, TypeOK, Index
<1>5. EarlierServersDrain'
  BY DEF Move, EarlierServersDrain, TypeOK, ListenFailed, InUse
<1> QED
  BY <1>2, <1>3, <1>4, <1>5

\* What a client or a handler does.
LEMMA ClientInvariant ==
  ASSUME IndInv, NEW r \in Requests, Client(r)
  PROVE  IndInv'
<1>1. CASE Accept(r)
  <2>1. ServerOf[r] \in Index /\ ServerOf[r] \in Nat /\ shutting \in Nat
    BY Numbering DEF IndInv, TypeOK
  <2>2. ~(ServerOf[r] <= shutting)
    BY <1>1, <2>1 DEF Accept, IndInv, OrderInv
  <2>3. ServerOf[r] > shutting
    BY <2>1, <2>2
  <2> QED
    BY <1>1, <2>3, MoveInvariant DEF Accept, InUse
<1>2. CASE Arrive(r)
  BY <1>2, MoveInvariant DEF Arrive, InUse
<1>3. CASE CloseIdle(r)
  BY <1>3, MoveInvariant DEF CloseIdle, InUse
<1>4. CASE GetHandle(r)
  BY <1>4, MoveInvariant DEF GetHandle, InUse
<1>5. CASE Commit(r)
  BY <1>5, MoveInvariant DEF Commit, InUse
<1>6. CASE CommitFails(r)
  BY <1>6, MoveInvariant DEF CommitFails, InUse
<1>7. CASE Answered(r)
  BY <1>7, MoveInvariant DEF Answered, InUse
<1> QED
  BY <1>1, <1>2, <1>3, <1>4, <1>5, <1>6, <1>7 DEF Client

\* A server starts to listen, or the process ends because it cannot.
LEMMA ListenInvariant ==
  ASSUME IndInv, NEW s \in Index, Listen(s)
  PROVE  IndInv'
<1> USE DEF IndInv
<1>1. CASE listener' = [listener EXCEPT ![s] = "open"] /\ UNCHANGED <<main, stage>>
  <2>1. TypeOK' /\ OrderInv'
    BY <1>1 DEF Listen, TypeOK, OrderInv, ListenFailed, Alive
  <2>2. DrainInv' /\ EarlierServersDrain'
    BY <1>1 DEF Listen, DrainInv, EarlierServersDrain, TypeOK, OrderInv,
                ListenFailed, Alive
  <2> QED
    BY <2>1, <2>2
<1>2. CASE listener' = [listener EXCEPT ![s] = "failed"] /\ Exit
  <2>1. ListenFailed'
    BY <1>2 DEF ListenFailed, TypeOK
  <2>2. TypeOK' /\ OrderInv'
    BY <1>2, <2>1 DEF Listen, Exit, TypeOK, OrderInv, Alive
  <2>3. DrainInv'
    BY <1>2 DEF Listen, Exit, DrainInv, TypeOK, InUse
  <2> QED
    BY <2>1, <2>2, <2>3 DEF EarlierServersDrain
<1> QED
  BY <1>1, <1>2 DEF Listen

\* Shutdown of the next server begins: the one before it has drained.
LEMMA BeginShutdownInvariant ==
  ASSUME IndInv, NEW s \in Index, BeginShutdown(s)
  PROVE  IndInv'
<1> USE DEF IndInv
<1>1. s \in Nat \ {0} /\ shutting = s - 1 /\ shutting' = s
  BY Numbering DEF BeginShutdown
<1>2. TypeOK'
  BY <1>1, Numbering DEF BeginShutdown, TypeOK, Index
<1>3. ~ListenFailed /\ ~ListenFailed'
  BY DEF BeginShutdown, OrderInv, ListenFailed, Alive, TypeOK
<1>4. OrderInv'
  <2>1. \A t \in Index : listener'[t] = "closed" <=> t <= shutting'
    BY <1>1, Numbering DEF BeginShutdown, OrderInv, TypeOK, Index
  <2> QED
    BY <1>3, <2>1 DEF BeginShutdown, OrderInv, TypeOK
<1>5. DrainInv'
  <2> SUFFICES ASSUME NEW r \in Requests,
                      ServerOf[r] < s, stage[r] \in InUse
               PROVE  deadline' = "expired"
    BY <1>1 DEF DrainInv, BeginShutdown
  <2>1. ServerOf[r] \in Nat \ {0}
    BY Numbering
  <2>2. CASE ServerOf[r] < s - 1
    BY <1>1, <2>2 DEF DrainInv, BeginShutdown
  <2>3. CASE ServerOf[r] = s - 1
    BY <1>1, <2>1, <2>3 DEF BeginShutdown
  <2> QED
    BY <1>1, <2>1, <2>2, <2>3
<1>6. EarlierServersDrain'
  BY <1>3 DEF BeginShutdown, EarlierServersDrain
<1> QED
  BY <1>2, <1>4, <1>5, <1>6

\* st.Close takes the handles of the requests still running away.
LEMMA CloseInvariant ==
  ASSUME IndInv, Close
  PROVE  IndInv'
<1> USE DEF IndInv
<1>1. TypeOK' /\ OrderInv'
  BY DEF Close, TypeOK, OrderInv, ListenFailed, InUse
<1>2. DrainInv'
  BY DEF Close, DrainInv, TypeOK, InUse
<1>3. EarlierServersDrain'
  <2> SUFFICES ASSUME NEW r \in Requests, ServerOf[r] < Len(Servers),
                      stage'[r] \in {"stale", "failed", "cut"}
               PROVE  deadline = "expired" \/ ListenFailed
    BY DEF EarlierServersDrain, Close, ListenFailed
  <2>1. shutting = Len(Servers)
    BY AllShutDown DEF Close
  <2> QED
    BY <2>1 DEF Close, DrainInv, EarlierServersDrain, InUse, TypeOK
<1> QED
  BY <1>1, <1>2, <1>3

\* main returns and cuts the connections that are left.
LEMMA MainReturnsInvariant ==
  ASSUME IndInv, MainReturns
  PROVE  IndInv'
<1> USE DEF IndInv
<1>1. TypeOK' /\ OrderInv'
  BY DEF MainReturns, Exit, TypeOK, OrderInv, ListenFailed, InUse
<1>2. DrainInv'
  BY DEF MainReturns, Exit, DrainInv, TypeOK, InUse
<1>3. EarlierServersDrain'
  <2> SUFFICES ASSUME NEW r \in Requests, ServerOf[r] < Len(Servers),
                      stage'[r] \in {"stale", "failed", "cut"}
               PROVE  deadline = "expired" \/ ListenFailed
    BY DEF EarlierServersDrain, MainReturns, ListenFailed
  <2>1. shutting = Len(Servers)
    BY AllShutDown DEF MainReturns
  <2> QED
    BY <2>1 DEF MainReturns, Exit, DrainInv, EarlierServersDrain, TypeOK
<1> QED
  BY <1>1, <1>2, <1>3

\* No server runs at the start.
LEMMA InitInvariant == Init => IndInv
BY Numbering
DEF Init, IndInv, TypeOK, OrderInv, DrainInv, EarlierServersDrain, ListenFailed,
    InUse

\* Every step of main, of its goroutines and of requests.
LEMMA NextInvariant == IndInv /\ [Next]_vars => IndInv'
<1> SUFFICES ASSUME IndInv, [Next]_vars PROVE IndInv'
  OBVIOUS
<1> USE DEF IndInv
<1>1. ASSUME NEW s \in Index, Return(s)
      PROVE  IndInv'
  BY <1>1 DEF Return, TypeOK, OrderInv, DrainInv, EarlierServersDrain,
              ListenFailed, Alive
<1>2. CASE Expire
  BY <1>2 DEF Expire, TypeOK, OrderInv, DrainInv, EarlierServersDrain,
              ListenFailed
<1>3. CASE Wait
  BY <1>3 DEF Wait, TypeOK, OrderInv, DrainInv, EarlierServersDrain,
              ListenFailed
<1>4. CASE UNCHANGED vars
  BY <1>4 DEF vars, TypeOK, OrderInv, DrainInv, EarlierServersDrain,
              ListenFailed
<1>5. CASE Signal
  <2>1. Len(Servers) >= 1
    BY ShutdownAssumption
  <2> QED
    BY <1>5, <2>1, Numbering, BeginShutdownInvariant DEF Signal, Index
<1> QED
  BY <1>1, <1>2, <1>3, <1>4, <1>5, ListenInvariant, BeginShutdownInvariant,
     CloseInvariant, MainReturnsInvariant, ClientInvariant
  DEF Next, Process

\* The inductive invariant holds in every reachable state.
THEOREM ShutdownInvariant == Spec => []IndInv
BY InitInvariant, NextInvariant, PTL DEF Spec

\* With any number of servers, only requests of the one that main lists last,
\* and requests that outlast the deadline, can lose the store or their
\* connection.
THEOREM EarlierServersAlwaysDrain == Spec => []EarlierServersDrain
<1>1. IndInv => EarlierServersDrain
  BY DEF IndInv
<1> QED
  BY <1>1, ShutdownInvariant, PTL

\* The store is closed only after the last listener.
THEOREM StoreAlwaysOutlivesListeners == Spec => []StoreOutlivesListeners
<1>1. IndInv => StoreOutlivesListeners
  BY DEF IndInv, OrderInv, StoreOutlivesListeners, TypeOK
<1> QED
  BY <1>1, ShutdownInvariant, PTL

=============================================================================
