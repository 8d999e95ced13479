-------------------------- MODULE BucketRefinement --------------------------
(***************************************************************************)
(* Bucket implements ObjectMap, for every set of requests, names and       *)
(* contents and every clock: blobs, reference counts, files and commitMu   *)
(* are invisible to clients.  Each step of Bucket is matched with the step *)
(* of the abstract map it stands for, or leaves the map as it is.          *)
(***************************************************************************)
EXTENDS BucketProofs

USE ConstantsAssumption, NilAssumption

-----------------------------------------------------------------------------
(***************************************************************************)
(* The code's two evaluations of preconditions agree with the abstract one.*)
(***************************************************************************)

\* Conditions.check, with its separate treatment of a missing object, accepts
\* exactly what Permits does.
LEMMA CheckIsPermits ==
  ASSUME NEW k \in CondSet, NEW v \in NilOr(Row)
  PROVE  Check(k, v) <=> Abstract!Permits(k, v)
<1>1. k \in Conditions
  BY DEF ConstantsAssumption
<1>2. Nil \notin Nat
  BY DEF NilAssumption
<1>3. CASE v = Nil
  BY <1>1, <1>2, <1>3
  DEF Check, Conditions, NilOr, Abstract!Permits, Abstract!Gen, Abstract!Metagen
<1>4. CASE v \in Row /\ v # Nil
  <2>1. v.generation \in Nat /\ v.metageneration \in Nat
    BY <1>4 DEF Row
  <2> QED
    BY <1>1, <1>2, <1>4, <2>1
    DEF Check, Conditions, NilOr, Abstract!Permits, Abstract!Gen,
        Abstract!Metagen
<1> QED
  BY <1>3, <1>4 DEF NilOr

\* checkReadConditions, which runs on a row that exists, does too.
LEMMA CheckReadIsPermits ==
  ASSUME NEW k \in CondSet, NEW v \in Row
  PROVE  CheckReadConditions(k, v) <=> Abstract!Permits(k, v)
<1>1. k \in Conditions
  BY DEF ConstantsAssumption
<1>2. v # Nil /\ Nil \notin Nat
  BY DEF NilAssumption
<1>3. v.generation \in Nat /\ v.metageneration \in Nat
  BY DEF Row
<1> QED
  BY <1>1, <1>2, <1>3
  DEF CheckReadConditions, Conditions, NilOr, Abstract!Permits, Abstract!Gen,
      Abstract!Metagen

\* A new version has a larger generation than the one it replaces.
LEMMA NextGenerationGrows ==
  ASSUME NEW old \in NilOr(Row), NEW now \in Clock
  PROVE  NextGeneration(old, now) > Abstract!Gen(old)
<1>1. now \in Nat \ {0}
  BY DEF ConstantsAssumption
<1>2. old # Nil => old.generation \in Nat \ {0}
  BY DEF Row, NilOr
<1> QED
  BY <1>1, <1>2 DEF NextGeneration, Abstract!Gen

-----------------------------------------------------------------------------
(***************************************************************************)
(* The step simulation.                                                    *)
(***************************************************************************)

\* What clients can see of the bucket.
Visible == <<objects, req, row, reply>>

\* A request that is neither idle nor answered is a pending call.
LEMMA UnansweredIsPending ==
  ASSUME IndInv, NEW p \in Requests,
         pc[p] \notin {"idle", "remove", "unlock", "done"}
  PROVE  Abstract!Pending(p) /\ req[p] \in Request
BY DEF IndInv, TypeOK, StageInv, AnswerInv, NilOr, Abstract!Pending

\* A request that arrives is a call.
LEMMA ArriveIsCall ==
  ASSUME IndInv, NEW p \in Requests, Arrive(p)
  PROVE  Abstract!Call(p)
<1> DEFINE Called(r) == /\ pc[p] = "idle"
                        /\ req' = [req EXCEPT ![p] = r]
                        /\ UNCHANGED <<objects, row, reply>>
<1>1. ASSUME NEW n \in Names, NEW c \in Contents, NEW k \in CondSet,
             BeginPut(p, n, c, k)
      PROVE  \E r \in Abstract!Calls : Called(r)
  <2> DEFINE r == [op |-> "put", src |-> n, name |-> n, content |-> c,
                   conds |-> k]
  <2>1. r \in Abstract!Calls /\ Called(r)
    BY <1>1 DEF BeginPut, Begin, Store, Abstract!Calls
  <2> QED
    BY <2>1
<1>2. ASSUME NEW n \in Names, NEW k \in CondSet, BeginDelete(p, n, k)
      PROVE  \E r \in Abstract!Calls : Called(r)
  <2> DEFINE r == [op |-> "delete", src |-> n, name |-> n, content |-> Nil,
                   conds |-> k]
  <2>1. r \in Abstract!Calls /\ Called(r)
    BY <1>2 DEF BeginDelete, Begin, Store, Abstract!Calls
  <2> QED
    BY <2>1
<1>3. ASSUME NEW n \in Names, NEW k \in CondSet, BeginGet(p, n, k)
      PROVE  \E r \in Abstract!Calls : Called(r)
  <2> DEFINE r == [op |-> "get", src |-> n, name |-> n, content |-> Nil,
                   conds |-> k]
  <2>1. r \in Abstract!Calls /\ Called(r)
    BY <1>3 DEF BeginGet, Begin, Store, Abstract!Calls
  <2> QED
    BY <2>1
<1>4. ASSUME NEW n \in Names, NEW s \in Names, BeginCopy(p, s, n)
      PROVE  \E r \in Abstract!Calls : Called(r)
  <2> DEFINE r == [op |-> "copy", src |-> s, name |-> n, content |-> Nil,
                   conds |-> NoConditions]
  <2>1. r \in Abstract!Calls /\ Called(r)
    BY <1>4 DEF BeginCopy, Begin, Store, Abstract!Calls, ConstantsAssumption
  <2> QED
    BY <2>1
<1>5. PICK r \in Abstract!Calls : Called(r)
  BY <1>1, <1>2, <1>3, <1>4 DEF Arrive
<1>6. req[p] = Nil /\ req'[p] = r
  BY <1>5 DEF IndInv, AnswerInv, TypeOK
<1> QED
  BY <1>5, <1>6 DEF Abstract!Call

\* The end of a body, a failed rename, transaction or open: the request
\* fails without effect, or nothing is visible yet.
LEMMA FailureIsFail ==
  ASSUME IndInv, NEW p \in Requests,
         BodyEnds(p) \/ InstallFails(p) \/ TxFails(p) \/ OpenFails(p)
  PROVE  Abstract!Fail(p) \/ UNCHANGED Visible
<1>1. pc[p] \in {"body", "install", "tx", "open"}
  BY DEF BodyEnds, Commit, CommitSyncFails, Abort, InstallFails, TxFails,
         OpenFails
<1>2. Abstract!Pending(p)
  BY <1>1, UnansweredIsPending
<1>3. \/ UNCHANGED Visible
      \/ /\ \E w \in {"error", "invalid"} : reply' = [reply EXCEPT ![p] = w]
         /\ UNCHANGED <<objects, req, row>>
  BY DEF BodyEnds, Commit, CommitSyncFails, Abort, InstallFails, TxFails,
         OpenFails, Finish, Store, Visible
<1> QED
  BY <1>2, <1>3 DEF Abstract!Fail, Abstract!Answer

\* The transaction of Commit is the instant at which the upload is visible.
LEMMA PutIsWrite ==
  ASSUME IndInv, NEW p \in Requests, PutTx(p)
  PROVE  Abstract!Write(p)
<1> DEFINE n == req[p].name
           old == objects[n]
<1>1. Abstract!Pending(p) /\ req[p] \in Request
  BY UnansweredIsPending DEF PutTx
<1>2. /\ n \in ValidNames /\ n \in Names
      /\ req[p].content \in Contents
      /\ old \in NilOr(Row)
      /\ req[p].conds \in CondSet
  BY <1>1 DEF IndInv, TypeOK, StageInv, AnswerInv, PutTx, Request, NilOr
<1>3. PICK now \in Clock :
        objects' = [objects EXCEPT ![n] =
                     [generation     |-> NextGeneration(old, now),
                      metageneration |-> 1,
                      sha256         |-> req[p].content]]
  BY DEF PutTx
<1> DEFINE v == [generation     |-> NextGeneration(old, now),
                 metageneration |-> 1,
                 sha256         |-> req[p].content]
<1>4. v \in Row
  BY <1>2, NewVersionIsRow
<1>5. objects'[n] = v
  BY <1>2, <1>3 DEF IndInv, TypeOK
<1>6. v.generation > Abstract!Gen(old)
  BY <1>2, NextGenerationGrows
<1>7. Abstract!Permits(req[p].conds, old)
  BY <1>2, CheckIsPermits DEF PutTx
<1>8. v \in Abstract!Version
  BY <1>4 DEF Row, Abstract!Version
<1>9. /\ req[p].op \in {"put", "copy"}
      /\ reply' = [reply EXCEPT ![p] = "ok"]
      /\ UNCHANGED <<req, row>>
  BY DEF PutTx
<1>10. objects'[n].sha256 = req[p].content /\ objects'[n] \in Abstract!Version
  BY <1>5, <1>8
<1>11. objects'[n].generation > Abstract!Gen(old)
  BY <1>5, <1>6
<1>12. objects' = [objects EXCEPT ![n] = objects'[n]]
  BY <1>3, <1>5
<1> HIDE DEF v
<1> QED
  BY <1>1, <1>2, <1>7, <1>9, <1>10, <1>11, <1>12
  DEF Abstract!Write, Abstract!Answer

\* The transaction of DeleteObject is the instant at which the object is gone.
LEMMA DeleteIsErase ==
  ASSUME IndInv, NEW p \in Requests, DeleteTx(p)
  PROVE  Abstract!Erase(p)
<1>1. Abstract!Pending(p) /\ req[p] \in Request
  BY UnansweredIsPending DEF DeleteTx
<1>2. objects[req[p].name] \in NilOr(Row) /\ req[p].conds \in CondSet
  BY <1>1 DEF IndInv, TypeOK, Request
<1>3. Abstract!Permits(req[p].conds, objects[req[p].name])
  BY <1>2, CheckIsPermits DEF DeleteTx
<1> QED
  BY <1>1, <1>3 DEF DeleteTx, Abstract!Erase, Abstract!Answer

\* A transaction that is rolled back by the code refuses on the live version.
LEMMA RefusalIsRefuseOrMiss ==
  ASSUME IndInv, NEW p \in Requests, TxRefused(p)
  PROVE  Abstract!Refuse(p) \/ Abstract!Miss(p)
<1>1. Abstract!Pending(p) /\ req[p] \in Request
  BY UnansweredIsPending DEF TxRefused
<1>2. objects[req[p].name] \in NilOr(Row) /\ req[p].conds \in CondSet
  BY <1>1 DEF IndInv, TypeOK, Request
<1>3. req[p].op \in {"put", "copy", "delete"}
  BY <1>1 DEF IndInv, StageInv, TxRefused, Request
<1>4. CASE /\ ~Check(req[p].conds, objects[req[p].name])
           /\ reply' = [reply EXCEPT ![p] = "precondition"]
  BY <1>1, <1>2, <1>3, <1>4, CheckIsPermits
  DEF TxRefused, Store, Abstract!Refuse, Abstract!Answer
<1>5. CASE /\ req[p].op = "delete"
           /\ objects[req[p].name] = Nil
           /\ reply' = [reply EXCEPT ![p] = "notfound"]
  <2>1. req[p].src = req[p].name
    BY <1>1, <1>5 DEF IndInv, AnswerInv, TxRefused, StageInv
  <2> QED
    BY <1>1, <1>5, <2>1 DEF TxRefused, Store, Abstract!Miss, Abstract!Answer
<1> QED
  BY <1>4, <1>5 DEF TxRefused

\* A read finds the live version when it queries the row, and serves it or
\* copies it once the blob is open.
LEMMA ReadsSimulate ==
  ASSUME IndInv, NEW p \in Requests
  PROVE  /\ QueryRow(p) => Abstract!Miss(p) \/ Abstract!Look(p)
         /\ OpenBlob(p) => Abstract!Serve(p)
         /\ OpenCopySource(p) => Abstract!Take(p)
<1>1. ASSUME QueryRow(p)
      PROVE  Abstract!Miss(p) \/ Abstract!Look(p)
  <2>1. Abstract!Pending(p) /\ req[p].op \in {"get", "copy"}
    BY <1>1, UnansweredIsPending DEF QueryRow, IndInv, AnswerInv
  <2> QED
    BY <1>1, <2>1 DEF QueryRow, Finish, Store, Abstract!Miss, Abstract!Look,
                      Abstract!Answer
<1>2. ASSUME OpenBlob(p)
      PROVE  Abstract!Serve(p)
  <2>1. Abstract!Pending(p) /\ req[p] \in Request
    BY <1>2, UnansweredIsPending DEF OpenBlob
  <2>2. row[p] # Nil /\ row[p] \in Row /\ req[p].conds \in CondSet
    BY <1>2, <2>1 DEF OpenBlob, IndInv, TypeOK, StageInv, NilOr, Request
  <2>3. CheckReadConditions(req[p].conds, row[p])
          <=> Abstract!Permits(req[p].conds, row[p])
    BY <2>2, CheckReadIsPermits
  <2> QED
    BY <1>2, <2>1, <2>2, <2>3
    DEF OpenBlob, Finish, Store, Abstract!Serve, Abstract!Answer
<1>3. ASSUME OpenCopySource(p)
      PROVE  Abstract!Take(p)
  <2>1. Abstract!Pending(p) /\ row[p] # Nil
    BY <1>3, UnansweredIsPending DEF OpenCopySource, IndInv, StageInv
  <2> QED
    BY <1>3, <2>1 DEF OpenCopySource, Store, Abstract!Take
<1> QED
  BY <1>1, <1>2, <1>3

\* Taking and releasing commitMu, and everything done to blob files, is
\* invisible.
LEMMA HiddenSteps ==
  ASSUME NEW p \in Requests,
         \/ Lock(p) \/ Unlock(p) \/ InstallBlob(p)
         \/ RemoveOrphan(p) \/ RemoveOrphanFails(p)
  PROVE  UNCHANGED Visible
BY DEF Lock, Unlock, InstallBlob, RemoveOrphan, RemoveOrphanFails, Store,
       Visible

\* Every step of the bucket is a step of the abstract map or invisible.
LEMMA StepSimulation ==
  IndInv /\ [Next]_vars => [Abstract!Next]_(Abstract!absVars)
<1> SUFFICES ASSUME IndInv, [Next]_vars
             PROVE  Abstract!Next \/ UNCHANGED Visible
  BY DEF Visible, Abstract!absVars
<1>1. ASSUME NEW p \in Requests, Arrive(p)
      PROVE  Abstract!Next
  BY <1>1, ArriveIsCall DEF Abstract!Next
<1>2. ASSUME NEW p \in Requests, BodyEnds(p)
      PROVE  Abstract!Next \/ UNCHANGED Visible
  BY <1>2, FailureIsFail DEF Abstract!Next
<1>3. ASSUME NEW p \in Requests, Step(p)
      PROVE  Abstract!Next \/ UNCHANGED Visible
  <2>1. CASE Lock(p) \/ Unlock(p) \/ InstallBlob(p) \/ RemoveOrphan(p)
               \/ RemoveOrphanFails(p)
    BY <2>1, HiddenSteps
  <2>2. CASE InstallFails(p) \/ TxFails(p) \/ OpenFails(p)
    BY <2>2, FailureIsFail DEF Abstract!Next
  <2>3. CASE PutTx(p)
    BY <2>3, PutIsWrite DEF Abstract!Next
  <2>4. CASE DeleteTx(p)
    BY <2>4, DeleteIsErase DEF Abstract!Next
  <2>5. CASE TxRefused(p)
    BY <2>5, RefusalIsRefuseOrMiss DEF Abstract!Next
  <2>6. CASE QueryRow(p) \/ OpenBlob(p) \/ OpenCopySource(p)
    BY <2>6, ReadsSimulate DEF Abstract!Next
  <2>7. CASE Return(p)
    <3>1. reply[p] # "none"
      BY <2>7 DEF Return, IndInv, AnswerInv
    <3>2. Abstract!Return(p)
      BY <2>7, <3>1 DEF Return, Store, Abstract!Return
    <3> QED
      BY <3>2 DEF Abstract!Next
  <2> QED
    BY <1>3, <2>1, <2>2, <2>3, <2>4, <2>5, <2>6, <2>7 DEF Step
<1>4. ASSUME Crash
      PROVE  Abstract!Next
  <2>1. Abstract!Forget
    BY <1>4 DEF Crash, Store, Abstract!Forget
  <2> QED
    BY <2>1 DEF Abstract!Next
<1>5. UNCHANGED vars => UNCHANGED Visible
  BY DEF vars, Visible
<1> QED
  BY <1>1, <1>2, <1>3, <1>4, <1>5 DEF Next

\* The bucket implements the atomic conditional map: whatever requests
\* overlap, fail or are cut off by a crash, each takes effect at one instant
\* (its transaction or its query) and is answered as if it ran alone.
THEOREM BucketImplementsObjectMap == Spec => ImplementsObjectMap
<1>1. Init => Abstract!Init
  BY DEF Init, Abstract!Init
<1> QED
  BY <1>1, StepSimulation, InvariantHolds, PTL
  DEF Spec, ImplementsObjectMap, Abstract!Spec

=============================================================================
