---------------------------- MODULE StoreProofs ----------------------------
(***************************************************************************)
(* Proofs about Store, for any number of requests that create, find, list, *)
(* use and delete a bucket name at the same time, and any crashes.         *)
(***************************************************************************)
EXTENDS Store, TLAPS

USE StoreAssumption DEF StoreAssumption

-----------------------------------------------------------------------------
(***************************************************************************)
(* Types and stages.                                                       *)
(***************************************************************************)

TypedInv == TypeOK /\ OpInv

\* The stage after bucket() depends on the operation.
LEMMA AfterBucketStages ==
  ASSUME TypeOK, NEW p \in Requests
  PROVE  /\ AfterBucket(p) \in {"tempfile", "lock", "info"}
         /\ AfterBucket(p) = "tempfile" <=> op[p] = "put"
         /\ AfterBucket(p) = "lock" <=> op[p] = "delete"
BY DEF AfterBucket

\* A request begins.
LEMMA BeginTyped ==
  ASSUME TypedInv, NEW p \in Requests, NEW o \in Ops, Begin(p, o)
  PROVE  /\ TypedInv'
         /\ pc'[p] \in {"mkdir", "readdir", "lookup"}
         /\ pc'[p] = "mkdir" <=> o = "create"
         /\ pc'[p] = "readdir" <=> o = "list"
<1> USE DEF TypedInv, Begin, Goto, disk, mem, handles
<1>1. PICK s \in {"mkdir", "readdir", "lookup"} :
        /\ pc' = [pc EXCEPT ![p] = s]
        /\ s = "mkdir" <=> o = "create"
        /\ s = "readdir" <=> o = "list"
  OBVIOUS
<1>2. TypeOK'
  BY <1>1 DEF TypeOK, Stages, UsingHandle
<1>3. OpInv'
  BY <1>1 DEF OpInv, TypeOK
<1> QED
  BY <1>1, <1>2, <1>3 DEF TypeOK

\* CreateBucket, up to openBucket.
LEMMA CreateTyped ==
  ASSUME TypedInv, UNCHANGED orderly, NEW p \in Requests, Mkdir(p) \/ MkObjects(p) \/ MkTmp(p)
  PROVE  TypedInv'
<1> USE DEF TypedInv, Mkdir, MkObjects, MkTmp, MkSub, Finish, Goto, mem, handles
<1>1. entries' \subseteq Dirs
  <2>1. entries' \in {entries} \cup {entries \cup {d} : d \in Dirs}
    BY DEF Dirs
  <2> QED
    BY <2>1 DEF TypeOK
<1>2. PICK s \in {"mkobjects", "mktmp", "open", "done"} :
        pc' = [pc EXCEPT ![p] = s]
  OBVIOUS
<1>3. reply' \in [Requests -> Replies]
  BY DEF TypeOK, Replies
<1>4. TypeOK'
  BY <1>1, <1>2, <1>3 DEF TypeOK, Stages, UsingHandle
<1>5. OpInv'
  BY DEF OpInv, TypeOK
<1> QED
  BY <1>4, <1>5

\* bucket() and openBucket: whoever goes on has a handle.
LEMMA BucketTyped ==
  ASSUME TypedInv, UNCHANGED orderly, NEW p \in Requests,
         LockStore(p) \/ Lookup(p) \/ StatDB(p) \/ OpenBucket(p)
  PROVE  TypedInv'
<1> USE DEF TypedInv, UnderMu
<1>1. CASE Lookup(p)
  <2>1. PICK s \in {"tempfile", "lock", "info", "stat"} :
          /\ pc' = [pc EXCEPT ![p] = s]
          /\ s # "stat" => cached # Nil
          /\ s = "tempfile" => op[p] = "put"
          /\ s = "lock" => op[p] = "delete"
          /\ s = "info" => op[p] \notin {"put", "delete"}
    BY <1>1, AfterBucketStages DEF Lookup, Goto
  <2>2. TypeOK'
    BY <1>1, <2>1 DEF Lookup, disk, mem, handles, TypeOK, Stages, UsingHandle
  <2>3. OpInv'
    BY <1>1, <2>1 DEF Lookup, disk, mem, handles, OpInv, TypeOK
  <2> QED
    BY <2>2, <2>3
<1>2. CASE StatDB(p)
  BY <1>2 DEF StatDB, Finish, Goto, disk, mem, handles, OpInv, TypeOK, Stages, Replies,
              UsingHandle
<1>3. CASE OpenBucket(p)
  <2>1. CASE Goto(p, AfterBucket(p))
    <3>1. PICK s \in {"tempfile", "lock", "info"} :
            /\ pc' = [pc EXCEPT ![p] = s]
            /\ s = "tempfile" => op[p] = "put"
            /\ s = "lock" => op[p] = "delete"
            /\ s = "info" => op[p] \notin {"put", "delete"}
      BY <2>1, AfterBucketStages DEF Goto
    <3>2. TypeOK'
      BY <1>3, <3>1 DEF OpenBucket, OpenDB, Finish, Goto, disk, mem, handles, TypeOK,
                        Stages, UsingHandle
    <3>3. OpInv'
      BY <1>3, <3>1 DEF OpenBucket, OpenDB, Finish, Goto, disk, mem, handles, TypeOK,
                        OpInv
    <3> QED
      BY <3>2, <3>3
  <2>2. CASE Finish(p, "error") /\ mu' = Nil /\ UNCHANGED <<disk, handles, op, use, todo>>
    BY <2>2 DEF Finish, Goto, disk, mem, handles, OpInv, TypeOK, Stages, Replies,
                UsingHandle
  <2> QED
    BY <1>3, <2>1, <2>2 DEF OpenBucket, OpenDB
<1>4. CASE LockStore(p)
  BY <1>4 DEF LockStore, disk, mem, handles, OpInv, TypeOK
<1> QED
  BY <1>1, <1>2, <1>3, <1>4

\* The steps that answer a get or a list, and those of an upload.
LEMMA UseTyped ==
  ASSUME TypedInv, UNCHANGED orderly, NEW p \in Requests,
         \/ Info(p) \/ ReadDir(p) \/ ListStat(p)
         \/ NewBlobWriter(p) \/ BodyArrived(p) \/ Lock(p) \/ InstallBlob(p)
         \/ PutTx(p) \/ Unlock(p)
  PROVE  TypedInv'
<1> USE DEF TypedInv, Finish, Goto, disk, mem, handles
<1>1. CASE Info(p) \/ ReadDir(p) \/ ListStat(p)
  <2>1. TypeOK'
    BY <1>1 DEF Info, ReadDir, ListStat, TypeOK, Stages, Replies, UsingHandle
  <2>2. OpInv'
    BY <1>1 DEF Info, ReadDir, ListStat, TypeOK, OpInv
  <2> QED
    BY <2>1, <2>2
<1>2. CASE NewBlobWriter(p) \/ BodyArrived(p) \/ InstallBlob(p)
  <2> USE <1>2 DEF NewBlobWriter, BodyArrived, InstallBlob
  <2>1. entries' \subseteq Dirs
    BY DEF TypeOK, Dirs
  <2>2. tmpfiles' \subseteq Requests
    BY DEF TypeOK
  <2>3. reply' \in [Requests -> Replies] /\ pc' \in [Requests -> Stages]
    BY DEF TypeOK, Replies, Stages
  <2>4. TypeOK'
    BY <2>1, <2>2, <2>3 DEF TypeOK, UsingHandle
  <2>5. OpInv'
    BY DEF TypeOK, OpInv
  <2> QED
    BY <2>4, <2>5
<1>3. CASE Lock(p) \/ Unlock(p)
  <2>1. TypeOK'
    BY <1>3 DEF Lock, Unlock, TypeOK, Stages, UsingHandle
  <2>2. OpInv'
    BY <1>3 DEF Lock, Unlock, TypeOK, OpInv
  <2> QED
    BY <2>1, <2>2
<1>4. CASE PutTx(p)
  <2>1. rows' \in [Requests -> SUBSET Requests]
    BY <1>4 DEF PutTx, TypeOK
  <2>2. TypeOK'
    BY <1>4, <2>1 DEF PutTx, TypeOK, Stages, Replies, UsingHandle
  <2>3. OpInv'
    BY <1>4 DEF PutTx, TypeOK, OpInv
  <2> QED
    BY <2>2, <2>3
<1> QED
  BY <1>1, <1>2, <1>3, <1>4

\* DeleteBucket.
LEMMA DeleteTyped ==
  ASSUME TypedInv, UNCHANGED orderly, NEW p \in Requests,
         \/ Count(p) \/ Uncache(p) \/ CloseDB(p)
         \/ Scan(p) \/ Unlink(p) \/ RmDir(p)
  PROVE  TypedInv'
<1> USE DEF TypedInv, Goto, UnderMu, disk, mem, handles
<1>1. CASE Count(p) \/ Uncache(p) \/ CloseDB(p)
  <2>1. TypeOK'
    BY <1>1 DEF Count, Uncache, CloseDB, TypeOK, Stages, Replies, UsingHandle
  <2>2. OpInv'
    BY <1>1 DEF Count, Uncache, CloseDB, TypeOK, OpInv
  <2> QED
    BY <2>1, <2>2
<1>2. CASE Scan(p)
  <2>1. Present \subseteq {"objects", "tmp", "db"}
    BY DEF Present, TypeOK, Dirs
  <2>2. TypeOK'
    BY <1>2, <2>1 DEF Scan, TypeOK, Stages, UsingHandle
  <2>3. OpInv'
    BY <1>2 DEF Scan, TypeOK, OpInv
  <2> QED
    BY <2>2, <2>3
<1>3. CASE Unlink(p)
  <2>1. TypeOK'
    BY <1>3 DEF Unlink, TypeOK, Stages, UsingHandle
  <2>2. OpInv'
    BY <1>3 DEF Unlink, TypeOK, OpInv
  <2> QED
    BY <2>1, <2>2
<1>4. CASE RmDir(p)
  <2>1. TypeOK'
    BY <1>4 DEF RmDir, TypeOK, Stages, Replies, UsingHandle
  <2>2. OpInv'
    BY <1>4 DEF RmDir, TypeOK, OpInv
  <2> QED
    BY <2>1, <2>2
<1> QED
  BY <1>1, <1>2, <1>3, <1>4

\* The process stops.
LEMMA CrashTyped ==
  ASSUME TypedInv, Crash
  PROVE  TypedInv'
BY DEF TypedInv, Crash, Running, disk, TypeOK, OpInv, Stages, UsingHandle

\* No request has been made before the server starts.
LEMMA InitTyped == Init => TypedInv
BY DEF Init, TypedInv, TypeOK, OpInv, Stages, Replies, UsingHandle

\* Every step keeps types and stages.
LEMMA NextTyped ==
  ASSUME TypedInv, [Next]_vars
  PROVE  TypedInv'
<1>1. CASE UNCHANGED vars
  BY <1>1 DEF vars, work, disk, mem, handles, TypedInv, TypeOK, OpInv
<1> QED
  BY <1>1, BeginTyped, CreateTyped, BucketTyped, UseTyped, DeleteTyped,
     CrashTyped
  DEF Next, Step

-----------------------------------------------------------------------------
(***************************************************************************)
(* A bucket that is never deleted.                                         *)
(***************************************************************************)

\* The stages of DeleteBucket past its lock.
Deleting == {"count", "uncache", "close", "scan", "unlink", "rmdir"}

DeleteSteps(p) ==
  Count(p) \/ Uncache(p) \/ CloseDB(p) \/ Scan(p) \/ Unlink(p) \/ RmDir(p)

\* Only a delete takes the steps of DeleteBucket.
LEMMA DeleteStepsDelete ==
  ASSUME TypedInv, NEW p \in Requests, DeleteSteps(p)
  PROVE  op[p] = "delete" /\ ~NeverDeleted /\ ~NeverDeleted'
BY DEF DeleteSteps, Count, Uncache, CloseDB, Scan, Unlink, RmDir, TypedInv,
       OpInv, TypeOK, NeverDeleted

\* What was never deleted had never been deleted.
LEMMA NeverDeletedBefore ==
  ASSUME TypedInv, [Next]_vars, NeverDeleted'
  PROVE  NeverDeleted
<1>1. ASSUME NEW p \in Requests, NEW o \in Ops, Begin(p, o)
      PROVE  NeverDeleted
  BY <1>1 DEF Begin, TypedInv, TypeOK, OpInv, NeverDeleted
<1>2. CASE UNCHANGED op
  BY <1>2 DEF NeverDeleted
<1>3. ASSUME NEW p \in Requests, BodyArrived(p) \/ Step(p)
      PROVE  UNCHANGED op
  BY <1>3 DEF BodyArrived, Step, Mkdir, MkObjects, MkTmp, MkSub, LockStore, Lookup,
              StatDB, OpenBucket, OpenDB, Info, ReadDir, ListStat, NewBlobWriter, Lock,
              InstallBlob, PutTx, Unlock, Count, Uncache, CloseDB, Scan,
              Unlink, RmDir
<1>4. Crash => UNCHANGED op
  BY DEF Crash
<1> QED
  BY <1>1, <1>2, <1>3, <1>4 DEF Next, vars, work

\* The steps that neither open a handle nor hand one out.
PlainSteps(p) ==
  \/ Mkdir(p) \/ MkObjects(p) \/ MkTmp(p) \/ StatDB(p) \/ Info(p)
  \/ ReadDir(p) \/ ListStat(p) \/ NewBlobWriter(p) \/ BodyArrived(p)
  \/ LockStore(p) \/ Lock(p) \/ InstallBlob(p) \/ PutTx(p) \/ Unlock(p)
  \/ \E o \in Ops : Begin(p, o)

LEMMA PlainKeepsHandles ==
  ASSUME TypedInv, NEW p \in Requests, PlainSteps(p)
  PROVE  /\ UNCHANGED <<path, cached, open, dbOf, use>>
         /\ \A q \in Requests : pc'[q] \in UsingHandle => pc[q] \in UsingHandle
<1> USE DEF TypedInv, TypeOK, Finish, Goto, disk, mem, handles, UsingHandle
<1>1. CASE Mkdir(p) \/ MkObjects(p) \/ MkTmp(p) \/ StatDB(p)
  BY <1>1 DEF Mkdir, MkObjects, MkTmp, MkSub, StatDB
<1>2. CASE Info(p) \/ ReadDir(p) \/ ListStat(p) \/ NewBlobWriter(p)
  BY <1>2 DEF Info, ReadDir, ListStat, NewBlobWriter
<1>3. CASE \/ BodyArrived(p) \/ LockStore(p) \/ Lock(p) \/ InstallBlob(p)
           \/ PutTx(p) \/ Unlock(p)
  BY <1>3 DEF BodyArrived, LockStore, Lock, InstallBlob, PutTx, Unlock
<1>4. ASSUME NEW o \in Ops, Begin(p, o)
      PROVE  /\ UNCHANGED <<path, cached, open, dbOf, use>>
             /\ \A q \in Requests :
                  pc'[q] \in UsingHandle => pc[q] \in UsingHandle
  <2>1. pc'[p] \in {"mkdir", "readdir", "lookup"}
    BY <1>4, BeginTyped
  <2> QED
    BY <1>4, <2>1 DEF Begin
<1> QED
  BY <1>1, <1>2, <1>3, <1>4 DEF PlainSteps

\* Only one handle is ever opened, and everybody uses it.
LEMMA HandleStep ==
  ASSUME TypedInv, HandleInv, [Next]_vars
  PROVE  HandleInv'
<1> SUFFICES ASSUME NeverDeleted'
             PROVE  /\ open' \subseteq {cached'}
                    /\ cached' # Nil => /\ cached' \in open'
                                        /\ path' # Nil
                                        /\ dbOf'[cached'] = path'
                    /\ \A q \in Requests :
                         pc'[q] \in UsingHandle => use'[q] = cached'
  BY DEF HandleInv
<1> DEFINE Goal == /\ open' \subseteq {cached'}
                   /\ cached' # Nil => /\ cached' \in open'
                                       /\ path' # Nil
                                       /\ dbOf'[cached'] = path'
                   /\ \A q \in Requests :
                        pc'[q] \in UsingHandle => use'[q] = cached'
<1>1. NeverDeleted
  BY NeverDeletedBefore
<1>2. /\ open \subseteq {cached}
      /\ cached # Nil => cached \in open /\ path # Nil /\ dbOf[cached] = path
      /\ \A q \in Requests : pc[q] \in UsingHandle => use[q] = cached
  BY <1>1 DEF HandleInv
<1>3. ASSUME NEW p \in Requests, PlainSteps(p)
      PROVE  Goal
  BY <1>2, <1>3, PlainKeepsHandles
<1>4. ASSUME NEW p \in Requests, Lookup(p)
      PROVE  Goal
  BY <1>2, <1>4 DEF Lookup, Goto, disk, mem, handles, TypedInv, TypeOK, UsingHandle
<1>5. ASSUME NEW p \in Requests, OpenBucket(p)
      PROVE  Goal
  <2>1. CASE cached # Nil
    BY <1>2, <1>5, <2>1 DEF OpenBucket, Goto, disk, mem, handles, TypedInv, TypeOK
  <2>2. CASE cached = Nil /\ OpenDB(p)
    <3>1. open = {} /\ \A q \in Requests : pc[q] \notin UsingHandle
      BY <1>2, <2>2 DEF TypedInv, TypeOK
    <3>2. cached' = p /\ open' = {p} /\ path' # Nil /\ dbOf'[p] = path'
      BY <2>2, <3>1 DEF OpenDB, TypedInv, TypeOK
    <3>3. \A q \in Requests : pc'[q] \in UsingHandle => q = p
      BY <2>2, <3>1 DEF OpenDB, Goto, TypedInv, TypeOK
    <3> QED
      BY <2>2, <3>2, <3>3 DEF OpenDB, TypedInv, TypeOK
  <2>3. CASE cached = Nil /\ Finish(p, "error") /\ UNCHANGED <<disk, handles, use>>
    BY <1>2, <2>3 DEF Finish, Goto, disk, mem, handles, TypedInv, TypeOK, UsingHandle
  <2> QED
    BY <1>5, <2>1, <2>2, <2>3 DEF OpenBucket
<1>6. CASE Crash
  BY <1>6 DEF Crash, Running, TypedInv, TypeOK, UsingHandle
<1>7. CASE UNCHANGED vars
  BY <1>2, <1>7 DEF vars, work, disk, mem, handles
<1> QED
  BY <1>1, <1>3, <1>4, <1>5, <1>6, <1>7, DeleteStepsDelete
  DEF Next, Step, PlainSteps, DeleteSteps

\* A create gets past its Mkdir only where there was no directory, and no
\* step but a delete's removes one.
LEMMA CreatingBefore ==
  ASSUME TypedInv, NEW p \in Requests,
         (\E o \in Ops : Begin(p, o)) \/ BodyArrived(p) \/ Step(p),
         ~DeleteSteps(p)
  PROVE  /\ "dir" \in entries => "dir" \in entries'
         /\ \A q \in Requests :
              Creating(q)' => \/ Creating(q)
                              \/ /\ q = p
                                 /\ "dir" \notin entries
                                 /\ "dir" \in entries'
<1> USE DEF TypedInv, TypeOK, Creating, Finish, Goto, disk, mem, handles
<1> DEFINE Goal ==
      /\ "dir" \in entries => "dir" \in entries'
      /\ \A q \in Requests :
           Creating(q)' => \/ Creating(q)
                           \/ /\ q = p
                              /\ "dir" \notin entries
                              /\ "dir" \in entries'
<1>1. ASSUME NEW o \in Ops, Begin(p, o)
      PROVE  Goal
  <2>1. pc'[p] \in {"mkdir", "readdir", "lookup"}
    BY <1>1, BeginTyped
  <2>2. reply'[p] = "none"
    BY <1>1 DEF Begin, OpInv
  <2> QED
    BY <1>1, <2>1, <2>2 DEF Begin
<1>2. CASE Mkdir(p) \/ MkObjects(p) \/ MkTmp(p)
  BY <1>2 DEF Mkdir, MkObjects, MkTmp, MkSub, OpInv
<1>3. CASE Lookup(p)
  BY <1>3 DEF Lookup, OpInv
<1>4. CASE StatDB(p)
  BY <1>4 DEF StatDB, OpInv
<1>5. CASE OpenBucket(p)
  BY <1>5 DEF OpenBucket, OpenDB, OpInv
<1>6. CASE Info(p)
  BY <1>6 DEF Info, OpInv
<1>7. CASE ReadDir(p) \/ ListStat(p)
  BY <1>7 DEF ReadDir, ListStat, OpInv
<1>8. CASE NewBlobWriter(p) \/ BodyArrived(p) \/ InstallBlob(p) \/ PutTx(p)
  BY <1>8 DEF NewBlobWriter, BodyArrived, InstallBlob, PutTx, OpInv
<1>9. CASE LockStore(p) \/ Lock(p) \/ Unlock(p)
  BY <1>9 DEF LockStore, Lock, Unlock, OpInv
<1> QED
  BY <1>1, <1>2, <1>3, <1>4, <1>5, <1>6, <1>7, <1>8, <1>9
  DEF Step, DeleteSteps

\* Only one create gets past its Mkdir.
LEMMA CreateStep ==
  ASSUME TypedInv, CreateInv, [Next]_vars
  PROVE  CreateInv'
<1> DEFINE Goal == \A x, y \in Requests :
                     Creating(x)' => "dir" \in entries' /\ (Creating(y)' => x = y)
<1> SUFFICES ASSUME NeverDeleted' PROVE Goal
  BY DEF CreateInv
<1>1. /\ NeverDeleted
      /\ \A x, y \in Requests :
           Creating(x) => "dir" \in entries /\ (Creating(y) => x = y)
  BY NeverDeletedBefore DEF CreateInv
<1>2. ASSUME NEW p \in Requests,
             (\E o \in Ops : Begin(p, o)) \/ BodyArrived(p) \/ Step(p)
      PROVE  Goal
  <2>1. ~DeleteSteps(p)
    BY <1>1, DeleteStepsDelete
  <2>2. /\ "dir" \in entries => "dir" \in entries'
        /\ \A q \in Requests :
             Creating(q)' => \/ Creating(q)
                             \/ /\ q = p
                                /\ "dir" \notin entries
                                /\ "dir" \in entries'
    BY <1>2, <2>1, CreatingBefore
  <2> QED
    BY <1>1, <2>2
<1>3. CASE Crash
  <2>1. \A q \in Requests : Creating(q)' => Creating(q)
    BY <1>3 DEF Crash, Creating, Running, TypedInv, TypeOK
  <2> QED
    BY <1>1, <1>3, <2>1 DEF Crash, disk
<1>4. CASE UNCHANGED vars
  BY <1>1, <1>4 DEF vars, work, disk, Creating
<1> QED
  BY <1>2, <1>3, <1>4 DEF Next

\* Only PutTx acknowledges an upload, and only on the database of its handle.
LEMMA AckedBefore ==
  ASSUME TypedInv, NEW p \in Requests,
         (\E o \in Ops : Begin(p, o)) \/ BodyArrived(p) \/ Step(p),
         ~DeleteSteps(p), ~PutTx(p)
  PROVE  /\ UNCHANGED rows
         /\ \A q \in Requests : op'[q] = "put" /\ reply'[q] = "ok"
                                  => op[q] = "put" /\ reply[q] = "ok"
<1> USE DEF TypedInv, TypeOK, Finish, Goto, disk, mem, handles
<1> DEFINE Goal ==
      /\ UNCHANGED rows
      /\ \A q \in Requests : op'[q] = "put" /\ reply'[q] = "ok"
                               => op[q] = "put" /\ reply[q] = "ok"
<1>1. ASSUME NEW o \in Ops, Begin(p, o)
      PROVE  Goal
  BY <1>1 DEF Begin, OpInv
<1>2. CASE Mkdir(p) \/ MkObjects(p) \/ MkTmp(p) \/ StatDB(p)
  BY <1>2 DEF Mkdir, MkObjects, MkTmp, MkSub, StatDB
<1>3. CASE Lookup(p) \/ OpenBucket(p)
  BY <1>3 DEF Lookup, OpenBucket, OpenDB
<1>4. CASE Info(p) \/ ReadDir(p) \/ ListStat(p)
  BY <1>4 DEF Info, ReadDir, ListStat, OpInv
<1>5. CASE NewBlobWriter(p) \/ BodyArrived(p) \/ InstallBlob(p)
  BY <1>5 DEF NewBlobWriter, BodyArrived, InstallBlob
<1>6. CASE LockStore(p) \/ Lock(p) \/ Unlock(p)
  BY <1>6 DEF LockStore, Lock, Unlock
<1> QED
  BY <1>1, <1>2, <1>3, <1>4, <1>5, <1>6 DEF Step, DeleteSteps

\* The database in place stays in place.
LEMMA PathKept ==
  ASSUME TypedInv, NEW p \in Requests,
         (\E o \in Ops : Begin(p, o)) \/ BodyArrived(p) \/ Step(p),
         ~DeleteSteps(p), path # Nil
  PROVE  path' = path
<1>1. CASE Lookup(p)
  BY <1>1 DEF Lookup, disk
<1>2. CASE OpenBucket(p)
  BY <1>2 DEF OpenBucket, OpenDB, disk
<1>3. CASE PlainSteps(p)
  BY <1>3, PlainKeepsHandles
<1> QED
  BY <1>1, <1>2, <1>3 DEF Step, DeleteSteps, PlainSteps

\* An acknowledged upload stays in the database in place.
LEMMA AckedStep ==
  ASSUME TypedInv, HandleInv, AckedInPlace, [Next]_vars
  PROVE  AckedInPlace'
<1> DEFINE Goal == \A q \in Requests : op'[q] = "put" /\ reply'[q] = "ok"
                                         => path' # Nil /\ q \in rows'[path']
<1> SUFFICES ASSUME NeverDeleted' PROVE Goal
  BY DEF AckedInPlace
<1>1. /\ NeverDeleted
      /\ \A q \in Requests : op[q] = "put" /\ reply[q] = "ok"
                               => path # Nil /\ q \in rows[path]
  BY NeverDeletedBefore DEF AckedInPlace
<1>2. ASSUME NEW p \in Requests, PutTx(p)
      PROVE  Goal
  <2>1. use[p] = cached /\ cached # Nil
    BY <1>1, <1>2 DEF PutTx, HandleInv, TypedInv, TypeOK, UsingHandle
  <2>2. dbOf[use[p]] = path /\ path # Nil /\ path \in Requests
    BY <1>1, <2>1 DEF HandleInv, TypedInv, TypeOK
  <2> QED
    BY <1>1, <1>2, <2>2 DEF PutTx, TypedInv, TypeOK
<1>3. ASSUME NEW p \in Requests,
             (\E o \in Ops : Begin(p, o)) \/ BodyArrived(p) \/ Step(p),
             ~PutTx(p)
      PROVE  Goal
  <2>1. ~DeleteSteps(p)
    BY <1>1, DeleteStepsDelete
  <2> QED
    BY <1>1, <1>3, <2>1, AckedBefore, PathKept
<1>4. CASE Crash
  BY <1>1, <1>4 DEF Crash, disk
<1>5. CASE UNCHANGED vars
  BY <1>1, <1>5 DEF vars, work, disk
<1> QED
  BY <1>2, <1>3, <1>4, <1>5 DEF Next

-----------------------------------------------------------------------------
(***************************************************************************)
(* A bucket that is deleted only while nothing else is done with it.       *)
(***************************************************************************)

\* A step changes its own request only, and that one was running.
LEMMA StepFrame ==
  ASSUME TypedInv, NEW p \in Requests, BodyArrived(p) \/ Step(p)
  PROVE  /\ Running(p)
         /\ UNCHANGED op
         /\ \A q \in Requests \ {p} :
              /\ pc'[q] = pc[q] /\ reply'[q] = reply[q]
              /\ use'[q] = use[q] /\ todo'[q] = todo[q]
<1> USE DEF TypedInv, TypeOK, Finish, Goto, disk, mem, handles, Running
<1>1. CASE Mkdir(p) \/ MkObjects(p) \/ MkTmp(p)
  BY <1>1 DEF Mkdir, MkObjects, MkTmp, MkSub
<1>2. CASE LockStore(p) \/ Lookup(p) \/ StatDB(p)
  BY <1>2 DEF LockStore, Lookup, StatDB
<1>3. CASE OpenBucket(p)
  BY <1>3 DEF OpenBucket, OpenDB
<1>4. CASE Info(p) \/ ReadDir(p) \/ ListStat(p)
  BY <1>4 DEF Info, ReadDir, ListStat
<1>5. CASE NewBlobWriter(p) \/ BodyArrived(p) \/ Lock(p)
  BY <1>5 DEF NewBlobWriter, BodyArrived, Lock
<1>6. CASE InstallBlob(p) \/ PutTx(p) \/ Unlock(p)
  BY <1>6 DEF InstallBlob, PutTx, Unlock
<1>7. CASE Count(p) \/ Uncache(p) \/ CloseDB(p)
  BY <1>7 DEF Count, Uncache, CloseDB
<1>8. CASE Scan(p) \/ Unlink(p) \/ RmDir(p)
  BY <1>8 DEF Scan, Unlink, RmDir
<1> QED
  BY <1>1, <1>2, <1>3, <1>4, <1>5, <1>6, <1>7, <1>8 DEF Step

\* A delete stays alone.
LEMMA AloneStep ==
  ASSUME TypedInv, AloneInv, NEW p \in Requests, BodyArrived(p) \/ Step(p)
  PROVE  AloneInv'
<1>1. \A q \in Requests : Running(q)' => Running(q)
  BY StepFrame DEF Running
<1> QED
  BY <1>1, StepFrame DEF AloneInv

\* While any other request runs no delete is past its lock.
LEMMA NoDeleteBeside ==
  ASSUME TypedInv, AloneInv, NEW p \in Requests, BodyArrived(p) \/ Step(p)
  PROVE  /\ \A q \in Requests \ {p} : pc[q] \notin Deleting
         /\ op[p] = "delete" => \A q \in Requests \ {p} : ~Running(q)
<1>1. \A q \in Requests \ {p} : pc[q] \in Deleting => op[q] = "delete" /\ Running(q)
  BY DEF TypedInv, OpInv, Deleting, Running
<1> QED
  BY <1>1, StepFrame DEF AloneInv

\* The steps outside DeleteBucket do not lead into its second half.
LEMMA DeleteKept ==
  ASSUME TypedInv, AloneInv, NEW p \in Requests,
         BodyArrived(p) \/ Step(p), ~DeleteSteps(p), ~LockStore(p)
  PROVE  DeleteInv' /\ \A q \in Requests :
                         pc'[q] \notin Deleting \ {"count"}
<1> USE DEF TypedInv, TypeOK, Finish, Goto, Deleting
<1>1. pc'[p] \notin Deleting \ {"count"}
  <2>1. CASE Mkdir(p) \/ MkObjects(p) \/ MkTmp(p)
    BY <2>1 DEF Mkdir, MkObjects, MkTmp, MkSub
  <2>2. CASE Lookup(p) \/ OpenBucket(p) \/ StatDB(p)
    BY <2>2, AfterBucketStages DEF Lookup, OpenBucket, OpenDB, StatDB
  <2>3. CASE Info(p) \/ ReadDir(p) \/ ListStat(p)
    BY <2>3 DEF Info, ReadDir, ListStat
  <2>4. CASE NewBlobWriter(p) \/ BodyArrived(p) \/ Lock(p)
    BY <2>4 DEF NewBlobWriter, BodyArrived, Lock
  <2>5. CASE InstallBlob(p) \/ PutTx(p) \/ Unlock(p)
    BY <2>5 DEF InstallBlob, PutTx, Unlock
  <2> QED
    BY <2>1, <2>2, <2>3, <2>4, <2>5 DEF Step, DeleteSteps
<1>2. \A q \in Requests : pc'[q] \notin Deleting \ {"count"}
  BY <1>1, StepFrame, NoDeleteBeside
<1> QED
  BY <1>2 DEF DeleteInv

\* What the invariant says of the rest while no delete is under way.
PlaceInv == TidyInv /\ MakingInv /\ FoundInv

\* CreateBucket makes its directories without meeting anybody.
LEMMA CreatePlace ==
  ASSUME TypedInv, AloneInv, PlaceInv, NEW p \in Requests,
         Mkdir(p) \/ MkObjects(p) \/ MkTmp(p)
  PROVE  PlaceInv' /\ reply'[p] \in {reply[p], "exists"}
<1> USE DEF PlaceInv
<1>1. /\ UNCHANGED <<path, cached, open, dbOf, use, op>>
      /\ \A q \in Requests \ {p} : pc'[q] = pc[q]
  BY DEF Mkdir, MkObjects, MkTmp, MkSub, Finish, Goto, mem, handles, TypedInv, TypeOK
<1>2. CASE Mkdir(p) /\ "dir" \in entries
  <2>1. pc[p] = "mkdir" /\ pc'[p] = "done" /\ UNCHANGED entries
    BY <1>2 DEF Mkdir, Finish, Goto, TypedInv, TypeOK
  <2>2. \A q \in Requests : MakingDir(q)' <=> MakingDir(q)
    BY <1>1, <2>1 DEF MakingDir
  <2>3. MakingInv'
    BY <1>1, <2>1, <2>2 DEF MakingInv
  <2>4. TidyInv'
    BY <1>1, <2>1, <2>2 DEF TidyInv
  <2>5. FoundInv'
    BY <1>1, <2>1 DEF FoundInv
  <2> QED
    BY <1>2, <2>3, <2>4, <2>5 DEF Mkdir, Finish, TypedInv, TypeOK
<1>3. CASE Mkdir(p) /\ "dir" \notin entries
  <2>1. /\ pc[p] = "mkdir" /\ pc'[p] = "mkobjects"
        /\ entries = {} /\ entries' = {"dir"} /\ path = Nil
    BY <1>3 DEF Mkdir, Goto, TypedInv, TypeOK, TidyInv
  <2>2. \A q \in Requests : MakingDir(q)' <=> q = p
    BY <1>1, <1>3, <2>1 DEF MakingDir, MakingInv
  <2>3. MakingInv'
    BY <1>1, <2>1, <2>2 DEF MakingInv
  <2>4. TidyInv'
    BY <1>1, <2>1, <2>2 DEF TidyInv
  <2>5. FoundInv'
    BY <1>1, <2>1 DEF FoundInv
  <2> QED
    BY <1>3, <2>3, <2>4, <2>5 DEF Mkdir
<1>4. CASE MkObjects(p)
  <2>1. MakingDir(p) /\ pc[p] = "mkobjects" /\ entries = {"dir"} /\ path = Nil
    BY <1>4 DEF MkObjects, MkSub, MakingDir, MakingInv
  <2>2. pc'[p] = "mktmp" /\ entries' = {"dir", "objects"} /\ UNCHANGED reply
    BY <1>4, <2>1 DEF MkObjects, MkSub, Goto, TypedInv, TypeOK
  <2>3. \A q \in Requests : MakingDir(q)' <=> q = p
    BY <1>1, <2>1, <2>2 DEF MakingDir, MakingInv
  <2>4. MakingInv'
    BY <1>1, <2>1, <2>2, <2>3 DEF MakingInv
  <2>5. TidyInv'
    BY <1>1, <2>1, <2>2, <2>3 DEF TidyInv
  <2>6. FoundInv'
    BY <1>1, <2>2 DEF FoundInv
  <2> QED
    BY <2>2, <2>4, <2>5, <2>6
<1>5. CASE MkTmp(p)
  <2>1. /\ MakingDir(p) /\ pc[p] = "mktmp" /\ path = Nil
        /\ "dir" \in entries /\ "tmp" \notin entries
    BY <1>5 DEF MkTmp, MkSub, MakingDir, MakingInv
  <2>2. pc'[p] = "open" /\ "dir" \in entries' /\ UNCHANGED reply
    BY <1>5, <2>1 DEF MkTmp, MkSub, Goto, TypedInv, TypeOK
  <2>3. op[p] = "create"
    BY <2>1 DEF TypedInv, OpInv
  <2>4. \A q \in Requests : MakingDir(q)' <=> q = p
    BY <1>1, <2>1, <2>2, <2>3 DEF MakingDir, MakingInv
  <2>5. MakingInv'
    BY <1>1, <2>1, <2>2, <2>4 DEF MakingInv
  <2>6. TidyInv'
    BY <1>1, <2>1, <2>2, <2>4 DEF TidyInv
  <2>7. FoundInv'
    BY <1>1, <2>2, <2>3 DEF FoundInv
  <2> QED
    BY <2>2, <2>5, <2>6, <2>7
<1> QED
  BY <1>2, <1>3, <1>4, <1>5

\* A step of a request that is making no directory, and that leaves disk and
\* handles alone, disturbs only what the request itself has found.
LEMMA QuietPlace ==
  ASSUME PlaceInv, NEW p \in Requests,
         UNCHANGED <<entries, path, cached, open, dbOf, op>>,
         \A q \in Requests \ {p} : pc'[q] = pc[q] /\ use'[q] = use[q],
         ~MakingDir(p), ~MakingDir(p)', pc[p] \notin {"unlink", "rmdir"},
         pc'[p] = "open" /\ op[p] # "create" => path # Nil,
         pc'[p] \in {"lookup", "stat"} /\ op[p] = "list" => path # Nil,
         pc'[p] \in {"info", "tempfile", "body", "lock", "install", "tx",
                     "count", "uncache"} => use'[p] = cached
  PROVE  PlaceInv'
<1> USE DEF PlaceInv
<1>1. \A q \in Requests : MakingDir(q)' <=> MakingDir(q)
  BY DEF MakingDir
<1>2. TidyInv'
  BY <1>1 DEF TidyInv
<1>3. MakingInv'
  BY <1>1 DEF MakingInv
<1>4. FoundInv'
  BY DEF FoundInv
<1> QED
  BY <1>2, <1>3, <1>4

\* bucket(): the lookup and the stat.
LEMMA LookupPlace ==
  ASSUME TypedInv, PlaceInv, NEW p \in Requests, Lookup(p) \/ StatDB(p)
  PROVE  PlaceInv' /\ (reply'[p] = "error" /\ op[p] = "list" => reply[p] = "error")
<1> USE DEF TypedInv, TypeOK, Finish, Goto, disk, mem, handles
<1>1. CASE Lookup(p)
  <2>1. /\ UNCHANGED <<entries, path, cached, open, dbOf, op, reply>>
        /\ \A q \in Requests \ {p} : pc'[q] = pc[q] /\ use'[q] = use[q]
        /\ pc[p] = "lookup" /\ use'[p] = cached
        /\ pc'[p] \in {"tempfile", "lock", "info", "stat"}
    BY <1>1, AfterBucketStages DEF Lookup
  <2>2. ~MakingDir(p) /\ ~MakingDir(p)'
    BY <2>1 DEF MakingDir
  <2>3. op[p] = "list" => path # Nil
    BY <2>1 DEF PlaceInv, FoundInv
  <2> QED
    BY <2>1, <2>2, <2>3, QuietPlace
<1>2. CASE StatDB(p)
  <2>1. /\ UNCHANGED <<entries, path, cached, open, dbOf, op>>
        /\ \A q \in Requests \ {p} : pc'[q] = pc[q] /\ use'[q] = use[q]
        /\ pc[p] = "stat" /\ pc'[p] \in {"open", "done"}
        /\ pc'[p] = "open" => path # Nil
        /\ op[p] # "create"
    BY <1>2 DEF StatDB, OpInv
  <2>2. ~MakingDir(p) /\ ~MakingDir(p)'
    BY <2>1 DEF MakingDir
  <2>3. op[p] = "list" => path # Nil
    BY <2>1 DEF PlaceInv, FoundInv
  <2>4. op[p] = "list" => reply'[p] = reply[p]
    BY <1>2, <2>3 DEF StatDB
  <2> QED
    BY <2>1, <2>2, <2>4, QuietPlace
<1> QED
  BY <1>1, <1>2

\* openBucket: a handle is opened on the database in place, or the create
\* that has made the directories makes the database.
LEMMA OpenPlace ==
  ASSUME TypedInv, TypedInv', PlaceInv, NEW p \in Requests, OpenBucket(p)
  PROVE  PlaceInv' /\ reply'[p] = reply[p]
<1> USE DEF TypedInv, TypeOK, Goto, disk, mem, handles
<1>1. pc[p] = "open" /\ (MakingDir(p) <=> op[p] = "create")
  BY DEF OpenBucket, MakingDir
<1>2. "dir" \in entries /\ (path = Nil => MakingDir(p))
  BY <1>1 DEF PlaceInv, FoundInv, TidyInv, MakingInv
<1>3. CASE cached # Nil
  <2>1. path # Nil /\ ~MakingDir(p)
    BY <1>3 DEF PlaceInv, TidyInv, MakingInv
  <2>2. /\ UNCHANGED <<entries, path, cached, open, dbOf, op, reply>>
        /\ \A q \in Requests \ {p} : pc'[q] = pc[q] /\ use'[q] = use[q]
        /\ use'[p] = cached
        /\ pc'[p] \in {"tempfile", "lock", "info"}
    BY <1>3, AfterBucketStages DEF OpenBucket
  <2>3. ~MakingDir(p)'
    BY <2>2 DEF MakingDir
  <2> QED
    BY <1>1, <2>1, <2>2, <2>3, QuietPlace
<1>4. CASE cached = Nil
  <2>1. /\ entries' = entries /\ op' = op /\ reply' = reply
        /\ path' = IF path = Nil THEN p ELSE path
        /\ open' = open \cup {p} /\ dbOf'[p] = path' /\ cached' = p
        /\ use'[p] = p
        /\ pc'[p] \in {"tempfile", "lock", "info"}
        /\ \A q \in Requests \ {p} : pc'[q] = pc[q] /\ use'[q] = use[q]
    BY <1>2, <1>4, AfterBucketStages DEF OpenBucket, OpenDB
  <2>2. path' # Nil
    BY <2>1
  <2>3. \A q \in Requests : ~MakingDir(q)'
    <3>1. \A q \in Requests \ {p} : ~MakingDir(q)
      BY <1>2 DEF PlaceInv, MakingInv
    <3> QED
      BY <2>1, <3>1 DEF MakingDir
  <2>4. \A q \in Requests \ {p} : pc[q] \notin UsingHandle \ {"close", "scan",
                                                "unlink", "rmdir", "unlock"}
    BY <1>4 DEF PlaceInv, FoundInv, UsingHandle
  <2>5. TidyInv'
    BY <1>2, <2>1, <2>2 DEF TidyInv
  <2>6. MakingInv'
    BY <2>3 DEF MakingInv
  <2>7. FoundInv'
    BY <2>1, <2>2, <2>4 DEF FoundInv, UsingHandle
  <2> QED
    BY <2>1, <2>5, <2>6, <2>7 DEF PlaceInv
<1> QED
  BY <1>3, <1>4

\* Listing, and the steps of an upload or a delete with its handle.
LEMMA UsePlace ==
  ASSUME TypedInv, PlaceInv, NEW p \in Requests,
         \/ Info(p) \/ ReadDir(p) \/ ListStat(p)
         \/ NewBlobWriter(p) \/ BodyArrived(p) \/ Lock(p) \/ InstallBlob(p)
         \/ PutTx(p) \/ Unlock(p)
  PROVE  PlaceInv' /\ (reply'[p] = "error" /\ op[p] = "list" => reply[p] = "error")
<1> USE DEF TypedInv, TypeOK, Finish, Goto, disk, mem, handles
<1>1. CASE Info(p)
  <2>1. /\ UNCHANGED <<entries, path, cached, open, dbOf, op>>
        /\ \A q \in Requests \ {p} : pc'[q] = pc[q] /\ use'[q] = use[q]
        /\ pc[p] = "info" /\ pc'[p] = "done"
    BY <1>1 DEF Info
  <2>2. ~MakingDir(p) /\ ~MakingDir(p)'
    BY <2>1 DEF MakingDir
  <2>3. use[p] = cached /\ use[p] # Nil
    BY <2>1 DEF PlaceInv, FoundInv, UsingHandle
  <2>4. use[p] \in open
    BY <2>3 DEF PlaceInv, TidyInv
  <2>5. reply'[p] = "ok"
    BY <1>1, <2>4 DEF Info
  <2> QED
    BY <2>1, <2>2, <2>5, QuietPlace
<1>2. CASE ReadDir(p) \/ ListStat(p)
  <2>1. /\ UNCHANGED <<entries, path, cached, open, dbOf, op>>
        /\ \A q \in Requests \ {p} : pc'[q] = pc[q] /\ use'[q] = use[q]
        /\ pc[p] \in {"readdir", "liststat"}
        /\ pc'[p] \in {"liststat", "lookup", "done"}
        /\ pc'[p] = "lookup" => path # Nil
        /\ reply'[p] \in {reply[p], "ok"}
    BY <1>2 DEF ReadDir, ListStat
  <2>2. ~MakingDir(p) /\ ~MakingDir(p)'
    BY <2>1 DEF MakingDir
  <2> QED
    BY <2>1, <2>2, QuietPlace
<1>3. CASE NewBlobWriter(p) \/ BodyArrived(p) \/ Lock(p) \/ PutTx(p) \/ Unlock(p)
  <2>1. /\ UNCHANGED <<entries, path, cached, open, dbOf, op, use>>
        /\ \A q \in Requests \ {p} : pc'[q] = pc[q]
        /\ pc[p] \in {"tempfile", "body", "lock", "tx", "unlock"}
        /\ pc'[p] \in {"body", "lock", "install", "count", "unlock", "done"}
        /\ pc[p] \in {"tx", "unlock"} => pc'[p] \in {"unlock", "done"}
        /\ op[p] \in {"put", "delete"}
    BY <1>3 DEF NewBlobWriter, BodyArrived, Lock, PutTx, Unlock, OpInv
  <2>2. ~MakingDir(p) /\ ~MakingDir(p)'
    BY <2>1 DEF MakingDir
  <2>3. pc[p] \in {"tempfile", "body", "lock"} => use[p] = cached
    BY DEF PlaceInv, FoundInv
  <2> QED
    BY <2>1, <2>2, <2>3, QuietPlace
<1>4. CASE InstallBlob(p)
  <2>1. pc[p] = "install" /\ op[p] = "put"
    BY <1>4 DEF InstallBlob, OpInv
  <2>2. use[p] = cached /\ cached # Nil
    BY <2>1 DEF PlaceInv, FoundInv, UsingHandle
  <2>3. path # Nil /\ "dir" \in entries
    BY <2>2 DEF PlaceInv, TidyInv
  <2>4. /\ entries' = entries \cup {"dir", "objects"}
        /\ UNCHANGED <<path, cached, open, dbOf, op, use>>
        /\ \A q \in Requests \ {p} : pc'[q] = pc[q]
        /\ pc'[p] \in {"tx", "unlock"}
    BY <1>4 DEF InstallBlob
  <2>5. \A q \in Requests : ~MakingDir(q) /\ ~MakingDir(q)'
    BY <2>1, <2>3, <2>4 DEF MakingDir, PlaceInv, MakingInv
  <2>6. TidyInv'
    BY <2>3, <2>4 DEF PlaceInv, TidyInv
  <2>7. MakingInv'
    BY <2>5 DEF MakingInv
  <2>8. FoundInv'
    BY <2>2, <2>4 DEF PlaceInv, FoundInv
  <2> QED
    BY <2>1, <2>6, <2>7, <2>8 DEF PlaceInv
<1> QED
  BY <1>1, <1>2, <1>3, <1>4

\* DeleteBucket, alone: it removes the database it has counted no row in, and
\* then the directory.
LEMMA DeletePlace ==
  ASSUME TypedInv, AloneInv, PlaceInv, DeleteInv, NEW p \in Requests,
         DeleteSteps(p)
  PROVE  /\ PlaceInv' /\ DeleteInv'
         /\ path' # path => rows[path] = {}
<1> USE DEF TypedInv, TypeOK, Goto, disk, mem, handles
<1>1. op[p] = "delete" /\ (BodyArrived(p) \/ Step(p))
  BY DeleteStepsDelete DEF DeleteSteps, Step
<1>2. \A q \in Requests \ {p} : pc[q] \in {"idle", "done"} /\ pc'[q] = pc[q]
  BY <1>1, NoDeleteBeside, StepFrame DEF Running
<1>3. /\ UNCHANGED op
      /\ pc[p] \in Deleting
      /\ pc'[p] \in (Deleting \ {"count"}) \cup {"unlock"}
  BY DEF DeleteSteps, Count, Uncache, CloseDB, Scan, Unlink, RmDir, Deleting
<1>4. \A q \in Requests : ~MakingDir(q) /\ ~MakingDir(q)'
  BY <1>1, <1>2, <1>3 DEF MakingDir, Deleting
<1>5. MakingInv'
  BY <1>4 DEF MakingInv
<1>6. CASE Count(p)
  <2>1. /\ UNCHANGED <<entries, path, cached, open, dbOf, rows, use>>
        /\ pc[p] = "count" /\ pc'[p] \in {"uncache", "unlock"}
        /\ pc'[p] = "uncache" => rows[dbOf[use[p]]] = {}
    BY <1>6 DEF Count
  <2>2. use[p] = cached /\ cached # Nil
    BY <2>1 DEF PlaceInv, FoundInv, UsingHandle
  <2>3. dbOf[cached] = path
    BY <2>2 DEF PlaceInv, TidyInv
  <2>4. TidyInv'
    BY <1>2, <1>4, <2>1 DEF PlaceInv, TidyInv
  <2>5. FoundInv'
    BY <1>2, <2>1, <2>2 DEF FoundInv
  <2>6. DeleteInv'
    BY <1>2, <2>1, <2>2, <2>3 DEF DeleteInv
  <2> QED
    BY <1>5, <2>1, <2>4, <2>5, <2>6 DEF PlaceInv
<1>7. CASE Uncache(p)
  <2>1. /\ UNCHANGED <<entries, path, open, dbOf, rows, use>>
        /\ cached' = Nil
        /\ pc[p] = "uncache" /\ pc'[p] = "close"
    BY <1>7 DEF Uncache
  <2>2. use[p] = cached /\ cached # Nil
    BY <2>1 DEF PlaceInv, FoundInv, UsingHandle
  <2>3. path # Nil /\ rows[path] = {}
    BY <2>1, <2>2 DEF PlaceInv, TidyInv, DeleteInv
  <2>4. TidyInv'
    BY <2>1, <2>3 DEF PlaceInv, TidyInv
  <2>5. FoundInv'
    BY <1>2, <2>1 DEF FoundInv
  <2>6. DeleteInv'
    BY <1>2, <2>1, <2>3 DEF DeleteInv
  <2> QED
    BY <1>5, <2>1, <2>4, <2>5, <2>6 DEF PlaceInv
<1>8. CASE CloseDB(p)
  <2>1. /\ UNCHANGED <<entries, path, cached, dbOf, rows, use>>
        /\ pc[p] = "close" /\ pc'[p] \in {"scan", "unlock"}
    BY <1>8 DEF CloseDB
  <2>2. cached = Nil /\ path # Nil /\ rows[path] = {}
    BY <2>1 DEF DeleteInv
  <2>3. TidyInv'
    BY <2>1, <2>2 DEF PlaceInv, TidyInv
  <2>4. FoundInv'
    BY <1>2, <2>1 DEF FoundInv
  <2>5. DeleteInv'
    BY <1>2, <2>1, <2>2 DEF DeleteInv
  <2> QED
    BY <1>5, <2>1, <2>3, <2>4, <2>5 DEF PlaceInv
<1>9. CASE Scan(p)
  <2>1. /\ UNCHANGED <<entries, path, cached, open, dbOf, rows, use>>
        /\ pc[p] = "scan" /\ todo'[p] = Present
        /\ pc'[p] = IF Present = {} THEN "rmdir" ELSE "unlink"
    BY <1>9 DEF Scan
  <2>2. cached = Nil /\ path # Nil /\ rows[path] = {}
    BY <2>1 DEF DeleteInv
  <2>3. Present' = Present
    BY <2>1 DEF Present
  <2>4. TidyInv'
    BY <2>1, <2>2 DEF PlaceInv, TidyInv
  <2>5. FoundInv'
    BY <1>2, <2>1 DEF FoundInv
  <2>6. DeleteInv'
    BY <1>2, <2>1, <2>2, <2>3 DEF DeleteInv
  <2> QED
    BY <1>5, <2>1, <2>4, <2>5, <2>6 DEF PlaceInv
<1>10. CASE Unlink(p)
  <2>1. PICK e \in todo[p] :
          /\ entries' = entries \ {e}
          /\ path' = IF e = "db" THEN Nil ELSE path
          /\ todo'[p] = todo[p] \ {e}
    BY <1>10 DEF Unlink
  <2>2. /\ UNCHANGED <<cached, open, dbOf, rows, use>>
        /\ pc[p] = "unlink"
        /\ pc'[p] = IF todo'[p] = {} THEN "rmdir" ELSE "unlink"
    BY <1>10 DEF Unlink
  <2>3. /\ cached = Nil /\ Present = todo[p]
        /\ path # Nil => rows[path] = {}
    BY <2>2 DEF DeleteInv
  <2>4. e \in {"objects", "tmp", "db"}
    OBVIOUS
  <2>5. "dir" \in entries
    BY <2>3, <2>4 DEF Present, PlaceInv, TidyInv
  <2>6. Present' = todo'[p]
    BY <2>1, <2>3, <2>4 DEF Present, Dirs
  <2>7. TidyInv'
    BY <2>1, <2>2, <2>3, <2>4, <2>5 DEF TidyInv
  <2>8. FoundInv'
    BY <1>2, <2>2 DEF FoundInv
  <2>9. DeleteInv'
    BY <1>2, <2>1, <2>2, <2>3, <2>6 DEF DeleteInv
  <2> QED
    BY <1>5, <2>1, <2>2, <2>3, <2>7, <2>8, <2>9 DEF PlaceInv
<1>11. CASE RmDir(p)
  <2>1. pc[p] = "rmdir" /\ Present = {} /\ cached = Nil
    BY <1>11 DEF RmDir, DeleteInv
  <2>2. path = Nil
    BY <2>1 DEF Present
  <2>3. /\ UNCHANGED <<path, cached, open, dbOf, rows, use>>
        /\ entries' = {} /\ pc'[p] = "unlock"
    BY <1>11, <2>1 DEF RmDir
  <2>4. TidyInv'
    BY <2>1, <2>2, <2>3 DEF TidyInv
  <2>5. FoundInv'
    BY <1>2, <2>3 DEF FoundInv
  <2>6. DeleteInv'
    BY <1>2, <2>3 DEF DeleteInv
  <2> QED
    BY <1>5, <2>3, <2>4, <2>5, <2>6 DEF PlaceInv
<1> QED
  BY <1>6, <1>7, <1>8, <1>9, <1>10, <1>11 DEF DeleteSteps

\* A request that begins finds the name in order, or the run stops being
\* orderly: a delete begins alone, and nothing begins beside a delete.
LEMMA BeginPlace ==
  ASSUME TypedInv, AloneInv, PlaceInv, DeleteInv, NEW p \in Requests,
         NEW o \in Ops, Begin(p, o), orderly'
  PROVE  AloneInv' /\ PlaceInv' /\ DeleteInv'
<1> USE DEF TypedInv, TypeOK
<1>1. /\ UNCHANGED <<entries, path, cached, open, dbOf, rows, reply, use, todo>>
      /\ \A q \in Requests \ {p} : pc'[q] = pc[q] /\ op'[q] = op[q]
      /\ pc[p] = "idle" /\ op'[p] = o
      /\ \A q \in Requests : Running(q) => o # "delete" /\ op[q] # "delete"
    BY DEF Begin, Goto, disk, mem, handles
<1>2. /\ pc'[p] \in {"mkdir", "readdir", "lookup"}
      /\ pc'[p] = "mkdir" <=> o = "create"
      /\ pc'[p] = "readdir" <=> o = "list"
  BY BeginTyped
<1>3. \A q \in Requests \ {p} : Running(q)' <=> Running(q)
  BY <1>1 DEF Running
<1>4. AloneInv'
  BY <1>1, <1>3 DEF AloneInv
<1>5. \A q \in Requests : MakingDir(q)' <=> MakingDir(q)
  BY <1>1, <1>2 DEF MakingDir
<1>6. TidyInv'
  BY <1>1, <1>5 DEF PlaceInv, TidyInv
<1>7. MakingInv'
  BY <1>1, <1>2, <1>5 DEF PlaceInv, MakingInv
<1>8. FoundInv'
  BY <1>1, <1>2 DEF PlaceInv, FoundInv
<1>9. Present' = Present
  BY <1>1 DEF Present
<1>10. DeleteInv'
  BY <1>1, <1>2, <1>9 DEF DeleteInv
<1> QED
  BY <1>4, <1>6, <1>7, <1>8, <1>10 DEF PlaceInv

\* Every step keeps the name in order while the run is orderly, and no listing
\* fails.
LEMMA OrderlyStep ==
  ASSUME TypedInv, TypedInv', OrderlyInv, ListSucceeds, [Next]_vars
  PROVE  /\ OrderlyInv' /\ ListSucceeds'
         /\ orderly' /\ path # Nil /\ path' # path => rows[path] = {}
<1> DEFINE Goal == /\ AloneInv' /\ PlaceInv' /\ DeleteInv'
                   /\ \A q \in Requests : op'[q] = "list" => reply'[q] # "error"
                   /\ path # Nil /\ path' # path => rows[path] = {}
<1> SUFFICES ASSUME orderly' PROVE Goal
  BY DEF OrderlyInv, ListSucceeds, PlaceInv
<1>1. orderly /\ ~Crash
  BY DEF Next, Begin, Crash, vars
<1>2. /\ AloneInv /\ PlaceInv /\ DeleteInv
      /\ \A q \in Requests : op[q] = "list" => reply[q] # "error"
  BY <1>1 DEF OrderlyInv, ListSucceeds, PlaceInv
<1>3. ASSUME NEW p \in Requests, NEW o \in Ops, Begin(p, o)
      PROVE  Goal
  <2>1. reply[p] = "none" /\ UNCHANGED <<reply, path>>
    BY <1>3 DEF Begin, TypedInv, TypeOK, OpInv, disk
  <2>2. \A q \in Requests \ {p} : op'[q] = op[q]
    BY <1>3 DEF Begin, TypedInv, TypeOK
  <2> QED
    BY <1>2, <1>3, <2>1, <2>2, BeginPlace
<1>4. ASSUME NEW p \in Requests, BodyArrived(p) \/ Step(p), ~DeleteSteps(p),
             ~LockStore(p)
      PROVE  Goal
  <2>1. AloneInv' /\ DeleteInv'
    BY <1>2, <1>4, AloneStep, DeleteKept
  <2>2. /\ PlaceInv'
        /\ op[p] = "list" /\ reply'[p] = "error" => reply[p] = "error"
    BY <1>2, <1>4, CreatePlace, LookupPlace, OpenPlace, UsePlace
    DEF Step, DeleteSteps
  <2>3. path # Nil => path' = path
    BY <1>4, PathKept
  <2> QED
    BY <1>2, <1>4, <2>1, <2>2, <2>3, StepFrame
<1>5. ASSUME NEW p \in Requests, DeleteSteps(p)
      PROVE  Goal
  <2>1. BodyArrived(p) \/ Step(p)
    BY <1>5 DEF DeleteSteps, Step
  <2>2. op[p] = "delete"
    BY <1>5, DeleteStepsDelete
  <2> QED
    BY <1>2, <1>5, <2>1, <2>2, AloneStep, DeletePlace, StepFrame
<1>6. CASE UNCHANGED <<disk, handles, pc, op, reply, use, todo>>
  <2>1. AloneInv' /\ PlaceInv' /\ DeleteInv'
    BY <1>2, <1>6 DEF disk, handles, AloneInv, Running, PlaceInv, TidyInv,
                      MakingInv, MakingDir, FoundInv, DeleteInv, Present
  <2> QED
    BY <1>2, <1>6, <2>1 DEF disk
<1>7. ASSUME NEW p \in Requests, LockStore(p)
      PROVE  Goal
  BY <1>6, <1>7 DEF LockStore
<1>8. CASE UNCHANGED vars
  BY <1>6, <1>8 DEF vars, work, mem
<1> QED
  BY <1>1, <1>3, <1>4, <1>5, <1>7, <1>8 DEF Next

-----------------------------------------------------------------------------
(***************************************************************************)
(* The theorems.                                                           *)
(***************************************************************************)

\* The invariant holds of a store without the bucket.
LEMMA InitEstablishes == Init => IndInv
<1> SUFFICES ASSUME Init PROVE IndInv
  OBVIOUS
<1>1. TypeOK /\ OpInv
  BY InitTyped DEF TypedInv
<1>2. HandleInv /\ CreateInv /\ AckedInPlace /\ ListSucceeds
  BY DEF Init, HandleInv, CreateInv, Creating, AckedInPlace, ListSucceeds,
         UsingHandle
<1>3. OrderlyInv
  BY DEF Init, OrderlyInv, AloneInv, Running, TidyInv, MakingInv, MakingDir,
         FoundInv, DeleteInv
<1> QED
  BY <1>1, <1>2, <1>3 DEF IndInv

\* Every step preserves it, whatever order the requests run in.
LEMMA NextPreserves ==
  ASSUME IndInv, [Next]_vars
  PROVE  IndInv'
<1>1. TypedInv /\ TypedInv'
  BY NextTyped DEF IndInv, TypedInv
<1> QED
  BY <1>1, HandleStep, CreateStep, AckedStep, OrderlyStep DEF IndInv, TypedInv

\* The inductive invariant is an invariant, for any requests, operations and
\* crashes.
THEOREM StoreInvariant == Spec => []IndInv
<1>1. Init => IndInv
  BY InitEstablishes
<1>2. IndInv /\ [Next]_vars => IndInv'
  BY NextPreserves
<1> QED
  BY <1>1, <1>2, PTL DEF Spec

\* However many requests find a bucket unopened at once, and however often the
\* server is restarted, a bucket that is not deleted has one open handle.
THEOREM AlwaysSingleHandle == Spec => []SingleHandle
<1>1. IndInv => SingleHandle
  BY DEF IndInv, HandleInv, SingleHandle
<1> QED
  BY <1>1, StoreInvariant, PTL

\* Of all the requests that create a name that is not deleted, at most one is
\* told that it did.
THEOREM AlwaysCreateOnce == Spec => []CreateOnce
<1>1. IndInv => CreateOnce
  BY DEF IndInv, CreateInv, Creating, CreateOnce
<1> QED
  BY <1>1, StoreInvariant, PTL

\* An acknowledged upload to a bucket that is not deleted is in the database
\* file that the next request, or the next process, opens.
THEOREM AckedStaysInPlace == Spec => []AckedInPlace
<1>1. IndInv => AckedInPlace
  BY DEF IndInv
<1> QED
  BY <1>1, StoreInvariant, PTL

\* Clients who delete a bucket only while they do nothing else with it can use
\* the name between requests: it has a working bucket, or can be created.
THEOREM OrderlyNameAlwaysUsable == Spec => []OrderlyNameUsable
<1>1. IndInv => OrderlyNameUsable
  BY DEF IndInv, OrderlyInv, OrderlyNameUsable, NameUsable, TidyInv, MakingDir,
         Quiet, Running
<1> QED
  BY <1>1, StoreInvariant, PTL

\* For them no listing fails because of a bucket that is being created,
THEOREM ListAlwaysSucceeds == Spec => []ListSucceeds
<1>1. IndInv => ListSucceeds
  BY DEF IndInv
<1> QED
  BY <1>1, StoreInvariant, PTL

\* and DeleteBucket removes only a database without rows.
THEOREM OrderlyDeletesOnlyEmpty == Spec => OrderlyDeletes
<1>1. IndInv /\ [Next]_vars =>
        [orderly' /\ path # Nil /\ path' # path => rows[path] = {}]_vars
  BY NextTyped, OrderlyStep DEF IndInv, TypedInv
<1> QED
  BY <1>1, StoreInvariant, PTL DEF Spec, OrderlyDeletes

=============================================================================
