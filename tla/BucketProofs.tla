---------------------------- MODULE BucketProofs ----------------------------
(***************************************************************************)
(* Proofs about Bucket, for every set of requests, names and contents and  *)
(* every clock: the reference counts are exact and the blob of every live  *)
(* object is on disk in every reachable state.                             *)
(***************************************************************************)
EXTENDS Bucket, FiniteSetTheorems, TLAPS

USE ConstantsAssumption, NilAssumption

-----------------------------------------------------------------------------
(***************************************************************************)
(* Lemmas about reference counts.                                          *)
(***************************************************************************)

\* The rows that name a blob are finitely many.
LEMMA ReferersFinite ==
  \A c \in Contents : /\ IsFiniteSet(Referers(c))
                      /\ Cardinality(Referers(c)) \in Nat
<1> TAKE c \in Contents
<1>1. Referers(c) \subseteq Names
  BY DEF Referers
<1>2. IsFiniteSet(Names)
  BY DEF ConstantsAssumption
<1> QED
  BY <1>1, <1>2, FS_Subset, FS_CardinalityType

\* A blob without references has refcount 0 in table blobs, and conversely.
LEMMA ZeroMeansUnreferenced ==
  ASSUME RefcountsExact, NEW c \in Contents, blobs[c] = 0
  PROVE  \A n \in Names : objects[n] # Nil => objects[n].sha256 # c
<1>1. Cardinality(Referers(c)) = 0
  BY DEF RefcountsExact
<1>2. Referers(c) = {}
  BY <1>1, ReferersFinite, FS_EmptySet
<1> QED
  BY <1>2 DEF Referers

\* A step that leaves the tables alone leaves the reference counts exact.
LEMMA RefcountsUntouched ==
  ASSUME RefcountsExact, UNCHANGED <<objects, blobs>>
  PROVE  RefcountsExact'
BY DEF RefcountsExact, Referers

\* A step that leaves rows and blob files alone keeps the blobs present.
LEMMA LiveBlobsUntouched ==
  ASSUME LiveBlobsPresent, UNCHANGED <<objects, files>>
  PROVE  LiveBlobsPresent'
BY DEF LiveBlobsPresent

\* The transaction of Commit keeps the reference counts exact: the new row
\* adds a reference to its blob, and the row it replaces, if there is one,
\* gives up a reference to the same or to another blob.
LEMMA PutKeepsCounts ==
  ASSUME TypeOK, StageInv, RefcountsExact,
         NEW p \in Requests, PutTx(p)
  PROVE  RefcountsExact'
<1> DEFINE n == req[p].name
           c == req[p].content
           old == objects[n]
<1>1. n \in Names /\ c \in Contents
  BY DEF TypeOK, StageInv, PutTx, Request, NilOr
<1>2. \A m \in Names : m # n => objects'[m] = objects[m]
  BY DEF PutTx, TypeOK
<1>3. objects'[n] # Nil /\ objects'[n].sha256 = c
  <2>1. PICK g \in Nat \ {0} :
          objects'[n] = [generation |-> g, metageneration |-> 1, sha256 |-> c]
    <3>1. PICK now \in Clock :
            objects' = [objects EXCEPT ![n] =
                         [generation     |-> NextGeneration(old, now),
                          metageneration |-> 1,
                          sha256         |-> c]]
      BY DEF PutTx
    <3>2. NextGeneration(old, now) \in Nat \ {0}
      <4>1. old = Nil \/ old \in Row
        BY <1>1 DEF TypeOK, NilOr
      <4>2. now \in Nat \ {0}
        BY DEF ConstantsAssumption
      <4>3. old # Nil => old.generation \in Nat \ {0}
        BY <4>1 DEF Row
      <4> QED
        BY <4>2, <4>3 DEF NextGeneration
    <3> QED
      BY <1>1, <3>1, <3>2 DEF TypeOK
  <2>2. objects'[n] \in Row
    BY <1>1, <2>1 DEF Row
  <2> QED
    BY <2>1, <2>2 DEF NilAssumption
<1> SUFFICES ASSUME NEW x \in Contents
             PROVE  blobs'[x] = Cardinality(Referers(x)')
  BY DEF RefcountsExact
<1>4. /\ IsFiniteSet(Referers(x))
      /\ Cardinality(Referers(x)) \in Nat
      /\ blobs[x] = Cardinality(Referers(x))
  BY ReferersFinite DEF RefcountsExact
<1>5. Referers(x)' = IF x = c THEN Referers(x) \cup {n}
                              ELSE Referers(x) \ {n}
  BY <1>1, <1>2, <1>3 DEF Referers
<1>6. n \in Referers(x) <=> old # Nil /\ old.sha256 = x
  BY <1>1 DEF Referers
<1>7. Cardinality(Referers(x) \cup {n}) =
        IF n \in Referers(x) THEN Cardinality(Referers(x))
                             ELSE Cardinality(Referers(x)) + 1
  BY <1>4, FS_AddElement
<1>8. Cardinality(Referers(x) \ {n}) =
        IF n \in Referers(x) THEN Cardinality(Referers(x)) - 1
                             ELSE Cardinality(Referers(x))
  BY <1>4, FS_RemoveElement
<1>9. n \in Referers(x) => Cardinality(Referers(x)) > 0
  BY <1>4, FS_EmptySet
<1>10. old # Nil => old.sha256 \in Contents
  BY <1>1 DEF TypeOK, Row, NilOr
<1>11. blobs' = IF old # Nil
                THEN DecrefBlob(IncrefBlob(blobs, c), old.sha256)
                ELSE IncrefBlob(blobs, c)
  BY DEF PutTx
<1>12. blobs \in [Contents -> Nat]
  BY DEF TypeOK
<1> HIDE DEF n, c, old
<1>13. CASE old = Nil
  BY <1>1, <1>4, <1>5, <1>6, <1>7, <1>8, <1>11, <1>12, <1>13 DEF IncrefBlob
<1>14. CASE old # Nil
  <2>1. IncrefBlob(blobs, c) \in [Contents -> Nat]
    BY <1>1, <1>12 DEF IncrefBlob
  <2>2. blobs'[x] = LET i == IncrefBlob(blobs, c)[x]
                    IN  IF x = old.sha256 /\ i > 0 THEN i - 1 ELSE i
    BY <1>10, <1>11, <1>14, <2>1 DEF DecrefBlob
  <2>3. IncrefBlob(blobs, c)[x] = IF x = c THEN blobs[x] + 1 ELSE blobs[x]
    BY <1>1, <1>12 DEF IncrefBlob
  <2> QED
    BY <1>4, <1>5, <1>6, <1>7, <1>8, <1>9, <1>14, <2>2, <2>3
<1> QED
  BY <1>13, <1>14

\* The transaction of DeleteObject gives up exactly one reference.
LEMMA DeleteKeepsCounts ==
  ASSUME TypeOK, StageInv, RefcountsExact,
         NEW p \in Requests, DeleteTx(p)
  PROVE  RefcountsExact'
<1> DEFINE n == req[p].name
           d == objects[n].sha256
<1>1. n \in Names /\ objects[n] \in Row /\ d \in Contents
  BY DEF TypeOK, StageInv, DeleteTx, Request, NilOr, Row
<1>2. /\ objects' = [objects EXCEPT ![n] = Nil]
      /\ objects \in [Names -> NilOr(Row)]
  BY DEF DeleteTx, TypeOK
<1> SUFFICES ASSUME NEW x \in Contents
             PROVE  blobs'[x] = Cardinality(Referers(x)')
  BY DEF RefcountsExact
<1>3. /\ IsFiniteSet(Referers(x))
      /\ Cardinality(Referers(x)) \in Nat
      /\ blobs[x] = Cardinality(Referers(x))
  BY ReferersFinite DEF RefcountsExact
<1>4. Referers(x)' = Referers(x) \ {n}
  BY <1>1, <1>2 DEF Referers
<1>5. n \in Referers(x) <=> x = d
  BY <1>1 DEF Referers, NilAssumption
<1>6. Cardinality(Referers(x) \ {n}) =
        IF n \in Referers(x) THEN Cardinality(Referers(x)) - 1
                             ELSE Cardinality(Referers(x))
  BY <1>3, FS_RemoveElement
<1>7. n \in Referers(x) => Cardinality(Referers(x)) > 0
  BY <1>3, FS_EmptySet
<1>8. blobs' = DecrefBlob(blobs, d) /\ blobs \in [Contents -> Nat]
  BY DEF DeleteTx, TypeOK
<1> HIDE DEF n, d
<1>9. blobs'[x] = IF x = d /\ blobs[x] > 0 THEN blobs[x] - 1 ELSE blobs[x]
  BY <1>1, <1>8 DEF DecrefBlob
<1> QED
  BY <1>3, <1>4, <1>5, <1>6, <1>7, <1>9

-----------------------------------------------------------------------------
(***************************************************************************)
(* The inductive invariant.  The quiet actions leave both tables and the   *)
(* blob files alone, so they can only disturb the types, who holds the     *)
(* lock, and what a request carries from stage to stage.                   *)
(***************************************************************************)

ControlInv == TypeOK /\ MutexInv /\ StageInv /\ AnswerInv

\* A new version is a row: NextGeneration never returns 0.
LEMMA NewVersionIsRow ==
  ASSUME NEW c \in Contents, NEW now \in Clock, NEW old \in NilOr(Row)
  PROVE  [generation     |-> NextGeneration(old, now),
          metageneration |-> 1,
          sha256         |-> c] \in Row
<1>1. old # Nil => old.generation \in Nat \ {0}
  BY DEF Row, NilOr
<1>2. now \in Nat \ {0}
  BY DEF ConstantsAssumption
<1>3. NextGeneration(old, now) \in Nat \ {0}
  BY <1>1, <1>2 DEF NextGeneration
<1> QED
  BY <1>3 DEF Row

\* A request arrives.
LEMMA ArriveControl ==
  ASSUME ControlInv, NEW p \in Requests, Arrive(p)
  PROVE  ControlInv' /\ UNCHANGED <<objects, blobs, files>>
<1> DEFINE Started(r, stage) ==
      /\ pc[p] = "idle"
      /\ pc' = [pc EXCEPT ![p] = stage]
      /\ req' = [req EXCEPT ![p] = r]
      /\ stage = "body" => r.op = "put" /\ r.content \in Contents
      /\ stage = "lock" => r.op = "delete"
      /\ stage = "query" => r.op \in {"get", "copy"}
      /\ r.op = "delete" => r.src = r.name
      /\ tmp' \in {tmp, tmp \cup {p}}
      /\ UNCHANGED <<objects, blobs, files, commitMu, row, orphan, reply>>
<1>1. \E r \in Request, stage \in {"body", "lock", "query"} : Started(r, stage)
  <2>1. ASSUME NEW n \in Names, NEW c \in Contents, NEW k \in CondSet,
               BeginPut(p, n, c, k)
        PROVE  <1>1
    <3> DEFINE r == [op |-> "put", src |-> n, name |-> n, content |-> c,
                     conds |-> k]
    <3>1. r \in Request /\ Started(r, "body")
      BY <2>1 DEF BeginPut, Begin, Request, NilOr, Store
    <3> QED
      BY <3>1
  <2>2. ASSUME NEW n \in Names, NEW k \in CondSet, BeginDelete(p, n, k)
        PROVE  <1>1
    <3> DEFINE r == [op |-> "delete", src |-> n, name |-> n, content |-> Nil,
                     conds |-> k]
    <3>1. r \in Request /\ Started(r, "lock")
      BY <2>2 DEF BeginDelete, Begin, Request, NilOr, Store
    <3> QED
      BY <3>1
  <2>3. ASSUME NEW n \in Names, NEW k \in CondSet, BeginGet(p, n, k)
        PROVE  <1>1
    <3> DEFINE r == [op |-> "get", src |-> n, name |-> n, content |-> Nil,
                     conds |-> k]
    <3>1. r \in Request /\ Started(r, "query")
      BY <2>3 DEF BeginGet, Begin, Request, NilOr, Store
    <3> QED
      BY <3>1
  <2>4. ASSUME NEW n \in Names, NEW s \in Names, BeginCopy(p, s, n)
        PROVE  <1>1
    <3> DEFINE r == [op |-> "copy", src |-> s, name |-> n, content |-> Nil,
                     conds |-> NoConditions]
    <3>1. r \in Request /\ Started(r, "query")
      BY <2>4 DEF BeginCopy, Begin, Request, NilOr, Store, ConstantsAssumption
    <3> QED
      BY <3>1
  <2> QED
    BY <2>1, <2>2, <2>3, <2>4 DEF Arrive
<1>2. PICK r \in Request, stage \in {"body", "lock", "query"} :
        Started(r, stage)
  BY <1>1
<1> QED
  BY <1>2
  DEF ControlInv, TypeOK, MutexInv, StageInv, AnswerInv, Critical, Stages, Replies, NilOr,
      NilAssumption

\* The steps of a request that touch neither tables nor blob files.
LEMMA QuietControl ==
  ASSUME ControlInv, NEW p \in Requests,
         \/ BodyEnds(p)
         \/ Lock(p) \/ Unlock(p) \/ Return(p)
         \/ InstallFails(p) \/ TxRefused(p) \/ TxFails(p)
         \/ RemoveOrphanFails(p)
         \/ QueryRow(p) \/ OpenBlob(p) \/ OpenCopySource(p) \/ OpenFails(p)
  PROVE  ControlInv' /\ UNCHANGED <<objects, blobs, files>>
<1> USE DEF ControlInv, TypeOK, MutexInv, StageInv, AnswerInv, Critical, Stages, Replies,
            NilOr, NilAssumption, Store
<1>1. CASE BodyEnds(p)
  BY <1>1 DEF BodyEnds, Commit, CommitSyncFails, Abort, Finish
<1>2. CASE Lock(p)
  <2>1. req[p].op \in {"put", "delete", "get", "copy"}
    BY <1>2 DEF Lock, Request
  <2> QED
    BY <1>2, <2>1 DEF Lock
<1>3. CASE Unlock(p)
  BY <1>3 DEF Unlock
<1>4. CASE Return(p)
  BY <1>4 DEF Return
<1>5. CASE InstallFails(p)
  BY <1>5 DEF InstallFails
<1>6. CASE TxRefused(p)
  BY <1>6 DEF TxRefused
<1>7. CASE TxFails(p)
  BY <1>7 DEF TxFails
<1>8. CASE RemoveOrphanFails(p)
  BY <1>8 DEF RemoveOrphanFails
<1>9. CASE QueryRow(p)
  BY <1>9 DEF QueryRow, Finish, Request
<1>10. CASE OpenBlob(p)
  BY <1>10 DEF OpenBlob, Finish
<1>11. CASE OpenCopySource(p)
  <2> DEFINE c == row[p].sha256
             r == [req[p] EXCEPT !.content = c]
  <2>1. req[p] \in Request /\ c \in Contents
    BY <1>11 DEF OpenCopySource, Row
  <2>2. r = [op |-> req[p].op, src |-> req[p].src, name |-> req[p].name,
             content |-> c, conds |-> req[p].conds]
    BY <2>1 DEF Request
  <2>3. r \in Request /\ r.content = c /\ r.op = "copy"
    BY <1>11, <2>1, <2>2 DEF Request, OpenCopySource
  <2>4. req' = [req EXCEPT ![p] = r]
    BY <1>11, <2>1 DEF OpenCopySource
  <2> HIDE DEF r, c
  <2> QED
    BY <1>11, <2>1, <2>3, <2>4 DEF OpenCopySource
<1>12. CASE OpenFails(p)
  BY <1>12 DEF OpenFails, Finish
<1> QED
  BY <1>1, <1>2, <1>3, <1>4, <1>5, <1>6, <1>7, <1>8, <1>9, <1>10, <1>11, <1>12

\* Stat and Rename in Commit: the blob is in place before the transaction.
LEMMA InstallPreserves ==
  ASSUME IndInv, NEW p \in Requests, InstallBlob(p)
  PROVE  IndInv'
<1> USE DEF IndInv
<1>1. req[p].content \in Contents
  BY DEF TypeOK, StageInv, InstallBlob, Request, NilOr
<1>2. ControlInv'
  BY <1>1 DEF ControlInv, TypeOK, MutexInv, StageInv, AnswerInv, InstallBlob, Critical,
              Stages, NilOr
<1>3. RefcountsExact'
  BY RefcountsUntouched DEF InstallBlob
<1>4. LiveBlobsPresent'
  BY DEF LiveBlobsPresent, InstallBlob
<1> QED
  BY <1>2, <1>3, <1>4 DEF ControlInv

\* The transaction of Commit.
LEMMA PutPreserves ==
  ASSUME IndInv, NEW p \in Requests, PutTx(p)
  PROVE  IndInv'
<1> USE DEF IndInv
<1> DEFINE n == req[p].name
           c == req[p].content
           old == objects[n]
<1>1. n \in Names /\ c \in Contents /\ old \in NilOr(Row) /\ c \in files
  BY DEF TypeOK, StageInv, PutTx, Request, NilOr
<1>2. old # Nil => old.sha256 \in Contents
  BY <1>1 DEF NilOr, Row
<1>3. PICK v \in Row : objects' = [objects EXCEPT ![n] = v] /\ v.sha256 = c
  <2>1. PICK now \in Clock :
          objects' = [objects EXCEPT ![n] =
                       [generation     |-> NextGeneration(old, now),
                        metageneration |-> 1,
                        sha256         |-> c]]
    BY DEF PutTx
  <2> QED
    BY <1>1, <2>1, NewVersionIsRow
<1>4. blobs' \in [Contents -> Nat]
  <2>1. IncrefBlob(blobs, c) \in [Contents -> Nat]
    BY <1>1 DEF IncrefBlob, TypeOK
  <2>2. old # Nil => DecrefBlob(IncrefBlob(blobs, c), old.sha256)
                       \in [Contents -> Nat]
    BY <1>2, <2>1 DEF DecrefBlob
  <2> QED
    BY <2>1, <2>2 DEF PutTx
<1>5. orphan' \in [Requests -> NilOr(Contents)]
  BY <1>2 DEF PutTx, TypeOK, NilOr
<1>6. orphan'[p] # Nil => blobs'[orphan'[p]] = 0
  <2>1. IncrefBlob(blobs, c) \in [Contents -> Nat]
    BY <1>1 DEF IncrefBlob, TypeOK
  <2> QED
    BY <1>2, <2>1 DEF PutTx, DecrefBlob, Orphaned, TypeOK, NilAssumption
<1>7. TypeOK'
  BY <1>1, <1>3, <1>4, <1>5 DEF TypeOK, PutTx, Stages, Replies, NilOr
<1>8. MutexInv'
  BY DEF MutexInv, PutTx, TypeOK, Critical
<1>9. StageInv'
  BY <1>6 DEF StageInv, MutexInv, PutTx, TypeOK, Critical, NilAssumption
<1>10. RefcountsExact'
  BY PutKeepsCounts
<1>11. LiveBlobsPresent'
  BY <1>1, <1>3 DEF LiveBlobsPresent, PutTx, TypeOK
<1>12. AnswerInv'
  BY DEF AnswerInv, StageInv, PutTx, TypeOK
<1> QED
  BY <1>7, <1>8, <1>9, <1>10, <1>11, <1>12

\* The transaction of DeleteObject.
LEMMA DeletePreserves ==
  ASSUME IndInv, NEW p \in Requests, DeleteTx(p)
  PROVE  IndInv'
<1> USE DEF IndInv
<1> DEFINE n == req[p].name
           d == objects[n].sha256
<1>1. n \in Names /\ d \in Contents
  BY DEF TypeOK, StageInv, DeleteTx, Request, NilOr, Row
<1>2. blobs' \in [Contents -> Nat]
  BY <1>1 DEF DeleteTx, TypeOK, DecrefBlob
<1>3. orphan'[p] # Nil => blobs'[orphan'[p]] = 0
  BY <1>1 DEF DeleteTx, DecrefBlob, Orphaned, TypeOK, NilAssumption
<1>4. TypeOK'
  BY <1>1, <1>2 DEF TypeOK, DeleteTx, Stages, Replies, NilOr
<1>5. MutexInv'
  BY DEF MutexInv, DeleteTx, TypeOK, Critical
<1>6. StageInv'
  BY <1>3 DEF StageInv, MutexInv, DeleteTx, TypeOK, Critical, NilAssumption
<1>7. RefcountsExact'
  BY DeleteKeepsCounts
<1>8. LiveBlobsPresent'
  BY <1>1 DEF LiveBlobsPresent, DeleteTx, TypeOK
<1>9. AnswerInv'
  BY DEF AnswerInv, StageInv, DeleteTx, TypeOK
<1> QED
  BY <1>4, <1>5, <1>6, <1>7, <1>8, <1>9

\* os.Remove of an orphan: it has no row, so no live object names it, and no
\* upload stands between its rename and its transaction.
LEMMA RemovePreserves ==
  ASSUME IndInv, NEW p \in Requests, RemoveOrphan(p)
  PROVE  IndInv'
<1> USE DEF IndInv
<1>1. ControlInv'
  BY DEF ControlInv, TypeOK, MutexInv, StageInv, AnswerInv, RemoveOrphan, Critical, Stages,
         NilOr, NilAssumption
<1>2. RefcountsExact'
  BY RefcountsUntouched DEF RemoveOrphan
<1>3. LiveBlobsPresent'
  <2>1. CASE orphan[p] = Nil
    BY <2>1 DEF LiveBlobsPresent, RemoveOrphan, TypeOK, Row, NilOr,
                NilAssumption
  <2>2. CASE orphan[p] # Nil
    <3>1. orphan[p] \in Contents /\ blobs[orphan[p]] = 0
      BY <2>2 DEF TypeOK, StageInv, NilOr
    <3>2. \A n \in Names : objects[n] # Nil => objects[n].sha256 # orphan[p]
      BY <3>1, ZeroMeansUnreferenced
    <3> QED
      BY <3>2 DEF LiveBlobsPresent, RemoveOrphan
  <2> QED
    BY <2>1, <2>2
<1> QED
  BY <1>1, <1>2, <1>3 DEF ControlInv

\* The process stops: every request is forgotten, tables and files stay.
LEMMA CrashPreserves ==
  ASSUME IndInv, Crash
  PROVE  IndInv'
<1> USE DEF IndInv
<1>1. UNCHANGED <<objects, blobs, files>>
  BY DEF Crash, Store
<1>2. ControlInv'
  BY DEF ControlInv, TypeOK, MutexInv, StageInv, AnswerInv, Crash, Critical, Stages,
         Replies, NilOr, Store, NilAssumption
<1> QED
  BY <1>1, <1>2, RefcountsUntouched, LiveBlobsUntouched DEF ControlInv

\* No table has a row and no request is in flight when the bucket is opened.
LEMMA InitEstablishes == Init => IndInv
<1> SUFFICES ASSUME Init PROVE IndInv
  OBVIOUS
<1>1. TypeOK /\ MutexInv /\ StageInv /\ AnswerInv /\ LiveBlobsPresent
  BY DEF Init, TypeOK, MutexInv, StageInv, AnswerInv, LiveBlobsPresent, Critical, Stages,
         Replies, NilOr, NilAssumption
<1>2. \A c \in Contents : Referers(c) = {}
  BY DEF Init, Referers
<1>3. RefcountsExact
  BY <1>2, FS_EmptySet DEF Init, RefcountsExact
<1> QED
  BY <1>1, <1>3 DEF IndInv

\* Every step of every request, and a crash, preserves the invariant.
LEMMA NextPreserves == IndInv /\ [Next]_vars => IndInv'
<1> SUFFICES ASSUME IndInv, [Next]_vars PROVE IndInv'
  OBVIOUS
<1>1. ControlInv /\ RefcountsExact /\ LiveBlobsPresent
  BY DEF IndInv, ControlInv
<1>2. ASSUME ControlInv', UNCHANGED <<objects, blobs, files>>
      PROVE  IndInv'
  BY <1>1, <1>2, RefcountsUntouched, LiveBlobsUntouched DEF IndInv, ControlInv
<1>3. ASSUME NEW p \in Requests, Arrive(p)
      PROVE  IndInv'
  BY <1>1, <1>2, <1>3, ArriveControl
<1>4. ASSUME NEW p \in Requests, BodyEnds(p)
      PROVE  IndInv'
  BY <1>1, <1>2, <1>4, QuietControl
<1>5. ASSUME NEW p \in Requests, Step(p)
      PROVE  IndInv'
  <2>1. CASE InstallBlob(p)
    BY <2>1, InstallPreserves
  <2>2. CASE PutTx(p)
    BY <2>2, PutPreserves
  <2>3. CASE DeleteTx(p)
    BY <2>3, DeletePreserves
  <2>4. CASE RemoveOrphan(p)
    BY <2>4, RemovePreserves
  <2> QED
    BY <1>1, <1>2, <1>5, <2>1, <2>2, <2>3, <2>4, QuietControl DEF Step
<1>6. CASE Crash
  BY <1>6, CrashPreserves
<1>7. CASE UNCHANGED vars
  <2>1. ControlInv' /\ UNCHANGED <<objects, blobs, files>>
    BY <1>1, <1>7 DEF vars, ControlInv, TypeOK, MutexInv, StageInv, AnswerInv
  <2> QED
    BY <1>2, <2>1
<1> QED
  BY <1>3, <1>4, <1>5, <1>6, <1>7 DEF Next

\* The inductive invariant holds in every reachable state.
THEOREM InvariantHolds == Spec => []IndInv
BY InitEstablishes, NextPreserves, PTL DEF Spec

\* Types: a row of table objects always has a generation of at least 1, a
\* refcount is never negative, and orphan names a blob.
THEOREM TypesHold == Spec => []TypeOK
<1>1. IndInv => TypeOK
  BY DEF IndInv
<1> QED
  BY <1>1, InvariantHolds, PTL

\* The refcount of every blob is the number of objects that name it, whatever
\* requests overlap, fail or are cut off by a crash.
THEOREM RefcountsAlwaysExact == Spec => []RefcountsExact
<1>1. IndInv => RefcountsExact
  BY DEF IndInv
<1> QED
  BY <1>1, InvariantHolds, PTL

\* No interleaving of uploads, copies, deletes, failures and crashes removes
\* the blob file of a live object.
THEOREM LiveBlobsAlwaysPresent == Spec => []LiveBlobsPresent
<1>1. IndInv => LiveBlobsPresent
  BY DEF IndInv
<1> QED
  BY <1>1, InvariantHolds, PTL

\* A version is only ever replaced by one with a larger generation, for any
\* clock: Commit lifts the generation above the version it replaces.
THEOREM GenerationsAlwaysGrow == Spec => GenerationGrows
<1> DEFINE Grows ==
      \A n \in Names :
        objects[n] # Nil /\ objects'[n] # Nil /\ objects'[n] # objects[n]
          => objects'[n].generation > objects[n].generation
<1>1. ASSUME IndInv, Next
      PROVE  Grows
  <2>1. ASSUME NEW p \in Requests, PutTx(p)
        PROVE  Grows
    <3> DEFINE n == req[p].name
               old == objects[n]
    <3>1. n \in Names /\ objects \in [Names -> NilOr(Row)]
      BY <1>1, <2>1 DEF IndInv, TypeOK, StageInv, PutTx, Request, NilOr
    <3>2. PICK now \in Clock :
            objects' = [objects EXCEPT ![n] =
                         [generation     |-> NextGeneration(old, now),
                          metageneration |-> 1,
                          sha256         |-> req[p].content]]
      BY <2>1 DEF PutTx
    <3>3. old # Nil => NextGeneration(old, now) > old.generation
      <4>1. old # Nil => old.generation \in Nat
        BY <3>1 DEF NilOr, Row
      <4>2. now \in Nat
        BY DEF ConstantsAssumption
      <4> QED
        BY <4>1, <4>2 DEF NextGeneration
    <3> HIDE DEF n, old
    <3>4. /\ \A m \in Names : m # n => objects'[m] = objects[m]
          /\ objects'[n].generation = NextGeneration(old, now)
      BY <3>1, <3>2
    <3> QED
      BY <3>3, <3>4 DEF old
  <2>2. ASSUME NEW p \in Requests, DeleteTx(p)
        PROVE  Grows
    BY <1>1, <2>2 DEF DeleteTx, IndInv, TypeOK
  <2>3. ASSUME UNCHANGED objects
        PROVE  Grows
    BY <2>3
  <2>4. ASSUME NEW p \in Requests, Arrive(p) \/ BodyEnds(p)
        PROVE  UNCHANGED objects
    BY <1>1, <2>4, ArriveControl, QuietControl DEF IndInv, ControlInv
  <2>5. ASSUME NEW p \in Requests, Step(p), ~PutTx(p), ~DeleteTx(p)
        PROVE  UNCHANGED objects
    BY <1>1, <2>5, QuietControl
    DEF Step, IndInv, ControlInv, InstallBlob, RemoveOrphan
  <2>6. Crash => UNCHANGED objects
    BY DEF Crash, Store
  <2> QED
    BY <1>1, <2>1, <2>2, <2>3, <2>4, <2>5, <2>6 DEF Next
<1>2. IndInv /\ [Next]_vars => [Grows]_vars
  BY <1>1
<1> QED
  BY <1>2, InvariantHolds, PTL DEF Spec, GenerationGrows

-----------------------------------------------------------------------------

\* A step of one request leaves the answers of the others alone.
LEMMA RepliesAreOwn ==
  ASSUME IndInv, NEW p \in Requests, NEW q \in Requests, q # p,
         Arrive(q) \/ BodyEnds(q) \/ Step(q)
  PROVE  reply'[p] = reply[p]
<1>1. reply \in [Requests -> Replies]
  BY DEF IndInv, TypeOK
<1>2. CASE Arrive(q)
  BY <1>2 DEF Arrive, BeginPut, BeginDelete, BeginGet, BeginCopy
<1>3. CASE BodyEnds(q)
  BY <1>1, <1>3 DEF BodyEnds, Commit, CommitSyncFails, Abort, Finish
<1>4. CASE Step(q)
  BY <1>1, <1>4
  DEF Step, Lock, Unlock, Return, InstallBlob, InstallFails, PutTx, DeleteTx,
      TxRefused, TxFails, RemoveOrphan, RemoveOrphanFails, QueryRow, OpenBlob,
      OpenCopySource, OpenFails, Finish
<1> QED
  BY <1>2, <1>3, <1>4

\* A request that has found its row and is about to open the blob fails only
\* in OpenFails.
LEMMA OnlyOpenFails ==
  ASSUME IndInv, Next, NEW p \in Requests,
         pc[p] = "open", reply'[p] = "error"
  PROVE  OpenFails(p)
<1>1. reply[p] = "none" /\ reply \in [Requests -> Replies]
  BY DEF IndInv, TypeOK, AnswerInv
<1>2. ~Crash
  BY DEF Crash
<1>3. PICK q \in Requests : Arrive(q) \/ BodyEnds(q) \/ Step(q)
  BY <1>2 DEF Next
<1>4. q = p
  BY <1>1, <1>3, RepliesAreOwn
<1>5. ~Arrive(p) /\ ~BodyEnds(p)
  BY DEF Arrive, BeginPut, BeginDelete, BeginGet, BeginCopy, Begin,
         BodyEnds, Commit, CommitSyncFails, Abort
<1>6. OpenBlob(p) \/ OpenCopySource(p) \/ OpenFails(p)
  BY <1>3, <1>4, <1>5
  DEF Step, Lock, Unlock, Return, InstallBlob, InstallFails, PutTx, DeleteTx,
      TxRefused, TxFails, RemoveOrphan, RemoveOrphanFails, QueryRow
<1>7. ~OpenBlob(p)
  BY <1>1 DEF OpenBlob, Finish
<1>8. ~OpenCopySource(p)
  BY <1>1 DEF OpenCopySource
<1> QED
  BY <1>6, <1>7, <1>8

\* A read that finds its row fails to find the blob only when the object has
\* been replaced or deleted in between: the row it holds is no longer live.
THEOREM ReadsFailOnlyIfChanged == Spec => ReadFailsOnlyIfChanged
<1> DEFINE Changed ==
      \A p \in Requests :
        pc[p] = "open" /\ reply'[p] = "error" => objects[req[p].src] # row[p]
<1>1. ASSUME IndInv, Next
      PROVE  Changed
  <2> SUFFICES ASSUME NEW p \in Requests, pc[p] = "open", reply'[p] = "error"
               PROVE  objects[req[p].src] # row[p]
    OBVIOUS
  <2>1. row[p].sha256 \notin files
    BY <1>1, OnlyOpenFails DEF OpenFails
  <2>2. row[p] # Nil /\ req[p].src \in Names
    BY <1>1 DEF IndInv, TypeOK, StageInv, NilOr, Request
  <2> QED
    BY <1>1, <2>1, <2>2 DEF IndInv, LiveBlobsPresent
<1>2. IndInv /\ [Next]_vars => [Changed]_vars
  BY <1>1
<1> QED
  BY <1>2, InvariantHolds, PTL DEF Spec, ReadFailsOnlyIfChanged

-----------------------------------------------------------------------------
(***************************************************************************)
(* Blob files without a row.  An upload whose precondition fails leaves    *)
(* the file it has installed behind, and so do failed calls and crashes.   *)
(* Without these, every file without a row belongs to the request that     *)
(* holds commitMu.                                                         *)
(***************************************************************************)

\* Nothing fails and no upload is refused.
Orderly == Faults = {} /\ CondSet = {NoConditions}

\* An upload between its rename and its transaction, or a mutation that has
\* still to remove an orphan, owns the blob file of content c.
Owns(p, c) ==
  \/ pc[p] = "tx" /\ req[p].op # "delete" /\ req[p].content = c
  \/ orphan[p] = c

TidyInv ==
  \A c \in files : blobs[c] > 0 \/ \E p \in Requests : Owns(p, c)

\* A blob that has a row has its file.
LEMMA CountedBlobsPresent ==
  ASSUME IndInv, NEW c \in Contents, blobs[c] > 0
  PROVE  c \in files
<1>1. Cardinality(Referers(c)) # 0
  BY DEF IndInv, TypeOK, RefcountsExact
<1>2. PICK n \in Names : objects[n] # Nil /\ objects[n].sha256 = c
  BY <1>1, FS_EmptySet DEF Referers
<1> QED
  BY <1>2 DEF IndInv, LiveBlobsPresent

\* A live object's blob has a positive refcount.
LEMMA LiveBlobsCounted ==
  ASSUME IndInv, NEW n \in Names, objects[n] # Nil
  PROVE  objects[n].sha256 \in Contents /\ blobs[objects[n].sha256] > 0
<1>1. objects[n].sha256 \in Contents
  BY DEF IndInv, TypeOK, NilOr, Row
<1>2. Referers(objects[n].sha256) # {}
  BY DEF Referers
<1> QED
  BY <1>1, <1>2, ReferersFinite, FS_EmptySet DEF IndInv, RefcountsExact

\* A step that leaves blobs and files alone, and takes no file from its
\* owner, keeps every file counted or owned.
LEMMA TidyUntouched ==
  ASSUME TidyInv, UNCHANGED <<blobs, files>>,
         \A q \in Requests, c \in files : Owns(q, c) => Owns(q, c)'
  PROVE  TidyInv'
BY DEF TidyInv

\* Without faults, and with uploads that are not refused, the steps that do
\* not change a table or a file take no file from its owner.
LEMMA QuietKeepsOwners ==
  ASSUME Orderly, IndInv, NEW p \in Requests,
         \/ Arrive(p) \/ BodyEnds(p)
         \/ Lock(p) \/ Unlock(p) \/ Return(p) \/ TxRefused(p)
         \/ QueryRow(p) \/ OpenBlob(p) \/ OpenCopySource(p) \/ OpenFails(p),
         NEW q \in Requests, NEW c \in files, Owns(q, c)
  PROVE  Owns(q, c)'
<1> USE DEF IndInv
<1>1. pc \in [Requests -> Stages] /\ req \in [Requests -> NilOr(Request)]
  BY DEF TypeOK
<1>2. c # Nil
  BY DEF TypeOK, NilAssumption
<1>3. UNCHANGED orphan
  BY DEF Arrive, BeginPut, BeginDelete, BeginGet, BeginCopy, BodyEnds, Commit,
         CommitSyncFails, Abort, Lock, Unlock, Return, TxRefused, QueryRow,
         OpenBlob, OpenCopySource, OpenFails
<1>4. CASE orphan[q] = c
  BY <1>3, <1>4 DEF Owns
<1>5. CASE pc[q] = "tx" /\ req[q].op # "delete" /\ req[q].content = c
  <2>1. CASE q = p
    <3>1. TxRefused(p)
      BY <1>5, <2>1
      DEF Arrive, BeginPut, BeginDelete, BeginGet, BeginCopy, Begin, BodyEnds,
          Commit, CommitSyncFails, Abort, Lock, Unlock, Return, QueryRow,
          OpenBlob, OpenCopySource, OpenFails
    <3>2. req[p].conds = NoConditions
      BY <1>5, <2>1 DEF Orderly, TypeOK, StageInv, NilOr, Request
    <3>3. Check(req[p].conds, objects[req[p].name])
      BY <3>2 DEF Check, NoConditions
    <3> QED
      BY <1>5, <2>1, <3>1, <3>3 DEF TxRefused
  <2>2. CASE q # p
    <3>1. pc'[q] = pc[q] /\ req'[q] = req[q]
      BY <1>1, <2>2
      DEF Arrive, BeginPut, BeginDelete, BeginGet, BeginCopy, Begin, BodyEnds,
          Commit, CommitSyncFails, Abort, Lock, Unlock, Return, TxRefused,
          QueryRow, OpenBlob, OpenCopySource, OpenFails, Finish
    <3> QED
      BY <1>5, <3>1 DEF Owns
  <2> QED
    BY <2>1, <2>2
<1> QED
  BY <1>4, <1>5 DEF Owns

\* While a request is in its critical section nobody else owns a file.
LEMMA OwnerHoldsLock ==
  ASSUME IndInv, NEW q \in Requests, NEW c \in files, Owns(q, c)
  PROVE  commitMu = q
BY DEF Owns, IndInv, TypeOK, StageInv, MutexInv, Critical, NilAssumption

\* The rename makes the uploader the owner of its file.
LEMMA InstallTidy ==
  ASSUME IndInv, TidyInv, NEW p \in Requests, InstallBlob(p)
  PROVE  TidyInv'
<1>1. req[p].op # "delete" /\ Owns(p, req[p].content)'
  BY DEF InstallBlob, IndInv, StageInv, TypeOK, Owns
<1>2. ASSUME NEW c \in files, NEW q \in Requests, Owns(q, c)
      PROVE  q = p
  BY <1>2, OwnerHoldsLock DEF IndInv, MutexInv, Critical, InstallBlob
<1>3. ASSUME NEW c \in files
      PROVE  ~Owns(p, c)
  BY <1>3 DEF Owns, InstallBlob, IndInv, StageInv, TypeOK, NilAssumption
<1> QED
  BY <1>1, <1>2, <1>3 DEF TidyInv, InstallBlob

\* The transaction of Commit gives the installed file its row; a blob whose
\* row it deletes is the uploader's to remove.
LEMMA PutTidy ==
  ASSUME IndInv, TidyInv, NEW p \in Requests, PutTx(p)
  PROVE  TidyInv'
<1> DEFINE n == req[p].name
           c == req[p].content
           old == objects[n]
<1>1. n \in Names /\ c \in Contents /\ blobs \in [Contents -> Nat]
  BY DEF IndInv, TypeOK, StageInv, PutTx, Request, NilOr
<1>2. old # Nil => old.sha256 \in Contents /\ blobs[old.sha256] > 0
  BY <1>1, LiveBlobsCounted
<1>3. orphan'[p] = IF old # Nil /\ Orphaned(IncrefBlob(blobs, c), old.sha256)
                   THEN old.sha256 ELSE Nil
  BY DEF PutTx, IndInv, TypeOK
<1>4. blobs' = IF old # Nil
               THEN DecrefBlob(IncrefBlob(blobs, c), old.sha256)
               ELSE IncrefBlob(blobs, c)
  BY DEF PutTx
<1>5. \A x \in Contents :
        IncrefBlob(blobs, c)[x] = IF x = c THEN blobs[x] + 1 ELSE blobs[x]
  BY <1>1 DEF IncrefBlob
<1>6. IncrefBlob(blobs, c) \in [Contents -> Nat]
  BY <1>1 DEF IncrefBlob
<1> SUFFICES ASSUME NEW x \in files
             PROVE  blobs'[x] > 0 \/ Owns(p, x)'
  BY DEF TidyInv, PutTx
<1>7. x \in Contents /\ (blobs[x] > 0 \/ x = c)
  <2>1. x \in Contents
    BY DEF IndInv, TypeOK
  <2>2. ASSUME NEW q \in Requests, Owns(q, x)
        PROVE  x = c
    <3>1. q = p
      BY <2>2, OwnerHoldsLock DEF IndInv, MutexInv, Critical, PutTx
    <3> QED
      BY <2>1, <2>2, <3>1 DEF Owns, PutTx, IndInv, StageInv, NilAssumption
  <2> QED
    BY <2>1, <2>2 DEF TidyInv
<1> HIDE DEF n, c, old
<1>8. CASE old = Nil
  BY <1>1, <1>4, <1>5, <1>7, <1>8
<1>9. CASE old # Nil
  <2>1. blobs'[x] = LET i == IncrefBlob(blobs, c)[x]
                    IN  IF x = old.sha256 /\ i > 0 THEN i - 1 ELSE i
    BY <1>2, <1>4, <1>6, <1>7, <1>9 DEF DecrefBlob
  <2>2. CASE x # old.sha256
    BY <1>1, <1>5, <1>7, <2>1, <2>2
  <2>3. CASE x = old.sha256 /\ IncrefBlob(blobs, c)[x] = 1
    BY <1>3, <1>9, <2>3 DEF Orphaned, Owns
  <2>4. CASE x = old.sha256 /\ IncrefBlob(blobs, c)[x] # 1
    BY <1>1, <1>2, <1>5, <1>7, <1>9, <2>1, <2>4
  <2> QED
    BY <2>2, <2>3, <2>4
<1> QED
  BY <1>8, <1>9

\* A blob whose row DeleteObject deletes is its to remove.
LEMMA DeleteTidy ==
  ASSUME IndInv, TidyInv, NEW p \in Requests, DeleteTx(p)
  PROVE  TidyInv'
<1> DEFINE d == objects[req[p].name].sha256
<1>1. req[p].name \in Names /\ blobs \in [Contents -> Nat]
  BY DEF IndInv, TypeOK, StageInv, DeleteTx, Request, NilOr
<1>2. d \in Contents /\ blobs[d] > 0
  BY <1>1, LiveBlobsCounted DEF DeleteTx
<1>3. orphan'[p] = IF Orphaned(blobs, d) THEN d ELSE Nil
  BY DEF DeleteTx, IndInv, TypeOK
<1>4. blobs' = DecrefBlob(blobs, d)
  BY DEF DeleteTx
<1> SUFFICES ASSUME NEW x \in files
             PROVE  blobs'[x] > 0 \/ Owns(p, x)'
  BY DEF TidyInv, DeleteTx
<1>5. x \in Contents
  BY DEF IndInv, TypeOK
<1>6. blobs[x] > 0
  <2>1. ASSUME NEW q \in Requests, Owns(q, x)
        PROVE  FALSE
    <3>1. q = p
      BY <2>1, OwnerHoldsLock DEF IndInv, MutexInv, Critical, DeleteTx
    <3> QED
      BY <1>5, <2>1, <3>1 DEF Owns, DeleteTx, IndInv, StageInv, NilAssumption
  <2> QED
    BY <2>1 DEF TidyInv
<1> HIDE DEF d
<1>7. blobs'[x] = IF x = d THEN blobs[x] - 1 ELSE blobs[x]
  BY <1>1, <1>2, <1>4, <1>5, <1>6 DEF DecrefBlob
<1>8. CASE x = d /\ blobs[x] = 1
  BY <1>3, <1>8 DEF Orphaned, Owns
<1>9. CASE ~(x = d /\ blobs[x] = 1)
  BY <1>1, <1>5, <1>6, <1>7, <1>9
<1> QED
  BY <1>8, <1>9

\* The owner removes its orphan.
LEMMA RemoveTidy ==
  ASSUME IndInv, TidyInv, NEW p \in Requests, RemoveOrphan(p)
  PROVE  TidyInv'
<1> SUFFICES ASSUME NEW x \in files, x # orphan[p]
             PROVE  blobs[x] > 0
  BY DEF TidyInv, RemoveOrphan
<1>1. ASSUME NEW q \in Requests, Owns(q, x)
      PROVE  FALSE
  <2>1. q = p
    BY <1>1, OwnerHoldsLock DEF IndInv, MutexInv, Critical, RemoveOrphan
  <2> QED
    BY <1>1, <2>1 DEF Owns, RemoveOrphan
<1> QED
  BY <1>1 DEF TidyInv

\* Every step keeps the files counted or owned.
LEMMA NextTidy ==
  ASSUME Orderly
  PROVE  IndInv /\ TidyInv /\ [Next]_vars => TidyInv'
<1> SUFFICES ASSUME IndInv, TidyInv, [Next]_vars PROVE TidyInv'
  OBVIOUS
<1>1. ASSUME NEW p \in Requests,
             \/ Arrive(p) \/ BodyEnds(p)
             \/ Lock(p) \/ Unlock(p) \/ Return(p) \/ TxRefused(p)
             \/ QueryRow(p) \/ OpenBlob(p) \/ OpenCopySource(p) \/ OpenFails(p)
      PROVE  TidyInv'
  <2>1. UNCHANGED <<blobs, files>>
    BY <1>1, ArriveControl, QuietControl DEF IndInv, ControlInv
  <2>2. \A q \in Requests, c \in files : Owns(q, c) => Owns(q, c)'
    BY <1>1, QuietKeepsOwners
  <2> QED
    BY <2>1, <2>2, TidyUntouched
<1>2. ASSUME NEW p \in Requests, Step(p)
      PROVE  TidyInv'
  <2>1. ~InstallFails(p) /\ ~TxFails(p) /\ ~RemoveOrphanFails(p)
    BY DEF Orderly, InstallFails, TxFails, RemoveOrphanFails
  <2> QED
    BY <1>1, <1>2, <2>1, InstallTidy, PutTidy, DeleteTidy, RemoveTidy DEF Step
<1>3. ~Crash
  BY DEF Orderly, Crash
<1>4. CASE UNCHANGED vars
  BY <1>4 DEF vars, TidyInv, Owns
<1> QED
  BY <1>1, <1>2, <1>3, <1>4 DEF Next

\* When nothing fails and no upload is refused, the inline collection of
\* DeleteObject and Commit is complete: between two mutations the files under
\* objects/ are exactly the blobs that have a row.
THEOREM NoGarbageWhenOrderly == Orderly => (Spec => []NoGarbage)
<1> SUFFICES ASSUME Orderly PROVE Spec => []NoGarbage
  OBVIOUS
<1>1. Init => TidyInv
  BY DEF Init, TidyInv
<1>2. IndInv /\ TidyInv => NoGarbage
  <2> SUFFICES ASSUME IndInv, TidyInv, commitMu = Nil
               PROVE  files = {c \in Contents : blobs[c] > 0}
    BY DEF NoGarbage
  <2>1. \A c \in files : c \in Contents /\ blobs[c] > 0
    BY OwnerHoldsLock DEF TidyInv, IndInv, TypeOK, NilAssumption
  <2>2. \A c \in Contents : blobs[c] > 0 => c \in files
    BY CountedBlobsPresent
  <2> QED
    BY <2>1, <2>2
<1> QED
  BY <1>1, <1>2, NextTidy, InvariantHolds, PTL DEF Spec

=============================================================================
