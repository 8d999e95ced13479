------------------------------- MODULE Store -------------------------------
(***************************************************************************)
(* The life of one bucket name in the store (pkg/store/store.go): its      *)
(* directory, its database file, the map of open handles, and the requests *)
(* that create, find, use and delete it at the same time.                  *)
(*                                                                         *)
(* Every request is made once, so the request that opened a handle or      *)
(* created a database file also names it.  A handle keeps its database     *)
(* open after the file was unlinked.  data.sqlite stands for the database  *)
(* with its -wal and -shm files; the name is one that validBucketName      *)
(* accepts (any other is answered before anything is looked up); each      *)
(* upload has a content of its own, so Commit never finds its blob there.  *)
(***************************************************************************)
EXTENDS Naturals, FiniteSets

CONSTANTS
  Requests,
  Ops,       \* the operations clients use in this instance
  Faults,    \* "crash": the process stops and is started again
  Nil

ASSUME StoreAssumption ==
  /\ Ops \subseteq {"create", "get", "list", "put", "delete"}
  /\ Nil \notin Requests

VARIABLES
  entries,   \* which of the bucket's directories exist
  path,      \* the database file that <bucket>/data.sqlite names, or Nil
  rows,      \* database -> the uploads in its objects table
  tmpfiles,  \* uploads whose temp file is under <bucket>/tmp
  cached,    \* s.buckets[name], or Nil
  open,      \* handles whose sql.DB is open
  dbOf,      \* handle -> the database it has open
  commitMu,  \* handle -> the request that holds its commitMu, or Nil
  mu,        \* the request that holds s.mu, or Nil
  pc, op, reply,
  use,       \* the handle a request has got from bucket()
  todo,      \* what RemoveAll has read from the directory and not unlinked
  orderly    \* no delete has overlapped another request, nothing has crashed

disk == <<entries, path, rows, tmpfiles>>
handles == <<cached, open, dbOf, commitMu>>
mem  == <<handles, mu>>
work == <<disk, mem, pc, op, reply, use, todo>>
vars == <<work, orderly>>

Dirs == {"dir", "objects", "tmp"}

Stages == {"idle", "mkdir", "mkobjects", "mktmp", "readdir", "liststat",
           "lookup", "stat", "open", "info", "tempfile", "body", "lock",
           "install", "tx", "count", "uncache", "close", "scan", "unlink",
           "rmdir", "unlock", "done"}

UsingHandle == {"info", "tempfile", "body", "lock", "install", "tx", "count",
                "uncache", "close", "scan", "unlink", "rmdir", "unlock"}

Replies == {"none", "ok", "exists", "notfound", "notempty", "error"}

Init ==
  /\ entries = {}
  /\ path = Nil
  /\ rows = [p \in Requests |-> {}]
  /\ tmpfiles = {}
  /\ cached = Nil
  /\ open = {}
  /\ dbOf = [p \in Requests |-> Nil]
  /\ commitMu = [p \in Requests |-> Nil]
  /\ mu = Nil
  /\ pc = [p \in Requests |-> "idle"]
  /\ op = [p \in Requests |-> "get"]
  /\ reply = [p \in Requests |-> "none"]
  /\ use = [p \in Requests |-> Nil]
  /\ todo = [p \in Requests |-> {}]
  /\ orderly = TRUE

Goto(p, stage) == pc' = [pc EXCEPT ![p] = stage]

Finish(p, w) ==
  /\ Goto(p, "done")
  /\ reply' = [reply EXCEPT ![p] = w]

\* What a caller of bucket() does next with the handle.
AfterBucket(p) ==
  CASE op[p] = "put"    -> "tempfile"
    [] op[p] = "delete" -> "lock"
    [] OTHER            -> "info"

Running(p) == pc[p] \notin {"idle", "done"}

Begin(p, o) ==
  /\ pc[p] = "idle"
  /\ op' = [op EXCEPT ![p] = o]
  /\ Goto(p, CASE o = "create" -> "mkdir"
               [] o = "list"   -> "readdir"
               [] OTHER        -> "lookup")
  /\ orderly' = (orderly /\ \A q \in Requests :
                              Running(q) => "delete" \notin {o, op[q]})
  /\ UNCHANGED <<disk, mem, reply, use, todo>>

-----------------------------------------------------------------------------
(***************************************************************************)
(* CreateBucket: Mkdir of the directory and of its two subdirectories,     *)
(* then openBucket.                                                        *)
(***************************************************************************)

\* Faulty variant: MkdirAll, which accepts a directory that is there.
MkdirAllowsExisting(p) ==
  /\ pc[p] = "mkdir"
  /\ entries' = entries \cup {"dir", "objects", "tmp"}
  /\ Goto(p, "open")
  /\ UNCHANGED <<path, rows, tmpfiles, mem, op, reply, use, todo>>

Mkdir(p) ==
  /\ pc[p] = "mkdir"
  /\ IF "dir" \in entries
     THEN /\ Finish(p, "exists")
          /\ UNCHANGED entries
     ELSE /\ entries' = entries \cup {"dir"}
          /\ Goto(p, "mkobjects")
          /\ UNCHANGED reply
  /\ UNCHANGED <<path, rows, tmpfiles, mem, op, use, todo>>

MkSub(p, stage, sub, next) ==
  /\ pc[p] = stage
  /\ IF "dir" \in entries /\ sub \notin entries
     THEN /\ entries' = entries \cup {sub}
          /\ Goto(p, next)
          /\ UNCHANGED reply
     ELSE /\ Finish(p, "error")
          /\ UNCHANGED entries
  /\ UNCHANGED <<path, rows, tmpfiles, mem, op, use, todo>>

MkObjects(p) == MkSub(p, "mkobjects", "objects", "mktmp")
MkTmp(p) == MkSub(p, "mktmp", "tmp", "open")

-----------------------------------------------------------------------------
(***************************************************************************)
(* bucket() and openBucket.  The lookup and the stat are not one step: s.mu *)
(* is released in between and taken again by openBucket.  What is done     *)
(* under s.mu is one step, as nothing under it waits for another lock; the *)
(* wait for s.mu is a step of its own, since DeleteBucket waits for it     *)
(* with commitMu held.                                                     *)
(***************************************************************************)

\* s.mu.Lock() is granted.
LockStore(p) ==
  /\ pc[p] \in {"lookup", "open", "uncache"}
  /\ mu = Nil
  /\ mu' = p
  /\ UNCHANGED <<disk, handles, pc, op, reply, use, todo>>

\* The rest of the section that p has entered.
UnderMu(p) == mu = p /\ mu' = Nil

\* Faulty variant: a name without a handle is not told from one with.
LookupUnchecked(p) ==
  /\ pc[p] = "lookup"
  /\ UnderMu(p)
  /\ Goto(p, AfterBucket(p))
  /\ use' = [use EXCEPT ![p] = cached]
  /\ UNCHANGED <<disk, handles, op, reply, todo>>

Lookup(p) ==
  /\ pc[p] = "lookup"
  /\ UnderMu(p)
  /\ Goto(p, IF cached # Nil THEN AfterBucket(p) ELSE "stat")
  /\ use' = [use EXCEPT ![p] = cached]
  /\ UNCHANGED <<disk, handles, op, reply, todo>>

\* No data.sqlite: ErrBucketNotFound, which ListBuckets passes on as an error.
StatDB(p) ==
  /\ pc[p] = "stat"
  /\ IF path = Nil
     THEN Finish(p, IF op[p] = "list" THEN "error" ELSE "notfound")
     ELSE Goto(p, "open") /\ UNCHANGED reply
  /\ UNCHANGED <<disk, mem, op, use, todo>>

\* Opens the database, creating the file when the directory has none.
OpenDB(p) ==
  /\ path' = IF path = Nil THEN p ELSE path
  /\ open' = open \cup {p}
  /\ dbOf' = [dbOf EXCEPT ![p] = path']
  /\ cached' = p
  /\ use' = [use EXCEPT ![p] = p]
  /\ Goto(p, AfterBucket(p))
  /\ UNCHANGED <<entries, rows, tmpfiles, commitMu, op, reply, todo>>

\* Faulty variants: s.buckets is not looked at again under s.mu; the database
\* is created anew whenever a handle is opened.
OpenBucketUnchecked(p) ==
  /\ pc[p] = "open"
  /\ UnderMu(p)
  /\ "dir" \in entries
  /\ OpenDB(p)

OpenBucketRecreates(p) ==
  /\ pc[p] = "open"
  /\ UnderMu(p)
  /\ cached = Nil
  /\ "dir" \in entries
  /\ path' = p
  /\ open' = open \cup {p}
  /\ dbOf' = [dbOf EXCEPT ![p] = p]
  /\ cached' = p
  /\ use' = [use EXCEPT ![p] = p]
  /\ Goto(p, AfterBucket(p))
  /\ UNCHANGED <<entries, rows, tmpfiles, commitMu, op, reply, todo>>

OpenBucket(p) ==
  /\ pc[p] = "open"
  /\ UnderMu(p)
  /\ \/ /\ cached # Nil
        /\ use' = [use EXCEPT ![p] = cached]
        /\ Goto(p, AfterBucket(p))
        /\ UNCHANGED <<disk, handles, op, reply, todo>>
     \/ /\ cached = Nil
        /\ "dir" \in entries
        /\ OpenDB(p)
     \/ /\ cached = Nil
        /\ "dir" \notin entries
        /\ Finish(p, "error")
        /\ UNCHANGED <<disk, handles, op, use, todo>>

\* info(): a query on the handle, which fails once the handle is closed.
Info(p) ==
  /\ pc[p] = "info"
  /\ Finish(p, IF use[p] \in open THEN "ok" ELSE "error")
  /\ UNCHANGED <<disk, mem, op, use, todo>>

-----------------------------------------------------------------------------
(***************************************************************************)
(* ListBuckets, as far as this name is concerned: ReadDir, the stat that   *)
(* skips directories which are no bucket, then bucket() and info().        *)
(***************************************************************************)

ReadDir(p) ==
  /\ pc[p] = "readdir"
  /\ IF "dir" \in entries THEN Goto(p, "liststat") /\ UNCHANGED reply
                          ELSE Finish(p, "ok")
  /\ UNCHANGED <<disk, mem, op, use, todo>>

\* Faulty variant: every directory is taken for a bucket.
ListStatSkipped(p) ==
  /\ pc[p] = "liststat"
  /\ Goto(p, "lookup")
  /\ UNCHANGED <<disk, mem, op, use, reply, todo>>

ListStat(p) ==
  /\ pc[p] = "liststat"
  /\ IF path # Nil THEN Goto(p, "lookup") /\ UNCHANGED reply
                   ELSE Finish(p, "ok")
  /\ UNCHANGED <<disk, mem, op, use, todo>>

-----------------------------------------------------------------------------
(***************************************************************************)
(* An upload, with the handle it got before its body arrived.              *)
(***************************************************************************)

NewBlobWriter(p) ==
  /\ pc[p] = "tempfile"
  /\ IF "tmp" \in entries
     THEN /\ tmpfiles' = tmpfiles \cup {p}
          /\ Goto(p, "body")
          /\ UNCHANGED reply
     ELSE /\ Finish(p, "error")
          /\ UNCHANGED tmpfiles
  /\ UNCHANGED <<entries, path, rows, mem, op, use, todo>>

BodyArrived(p) ==
  /\ pc[p] = "body"
  /\ Goto(p, "lock")
  /\ UNCHANGED <<disk, mem, op, reply, use, todo>>

Lock(p) ==
  /\ pc[p] = "lock"
  /\ commitMu[use[p]] = Nil
  /\ commitMu' = [commitMu EXCEPT ![use[p]] = p]
  /\ Goto(p, IF op[p] = "put" THEN "install" ELSE "count")
  /\ UNCHANGED <<disk, cached, open, dbOf, mu, op, reply, use, todo>>

\* MkdirAll of the blob's directory creates every directory that is missing,
\* the bucket's own included; Rename then needs the temp file.
InstallBlob(p) ==
  /\ pc[p] = "install"
  /\ entries' = entries \cup {"dir", "objects"}
  /\ tmpfiles' = tmpfiles \ {p}
  /\ IF p \in tmpfiles
     THEN Goto(p, "tx") /\ UNCHANGED reply
     ELSE Goto(p, "unlock") /\ reply' = [reply EXCEPT ![p] = "error"]
  /\ UNCHANGED <<path, rows, mem, op, use, todo>>

\* The transaction, on whatever database the handle has open.
PutTx(p) ==
  /\ pc[p] = "tx"
  /\ IF use[p] \in open
     THEN /\ rows' = [rows EXCEPT ![dbOf[use[p]]] = @ \cup {p}]
          /\ reply' = [reply EXCEPT ![p] = "ok"]
     ELSE /\ reply' = [reply EXCEPT ![p] = "error"]
          /\ UNCHANGED rows
  /\ Goto(p, "unlock")
  /\ UNCHANGED <<entries, path, tmpfiles, mem, op, use, todo>>

\* Faulty variant: DeleteBucket, done with the handle, does not unlock it.
UnlockPutOnly(p) ==
  /\ pc[p] = "unlock"
  /\ commitMu' = IF op[p] = "put" THEN [commitMu EXCEPT ![use[p]] = Nil]
                                  ELSE commitMu
  /\ Goto(p, "done")
  /\ UNCHANGED <<disk, cached, open, dbOf, mu, op, reply, use, todo>>

Unlock(p) ==
  /\ pc[p] = "unlock"
  /\ commitMu' = [commitMu EXCEPT ![use[p]] = Nil]
  /\ Goto(p, "done")
  /\ UNCHANGED <<disk, cached, open, dbOf, mu, op, reply, use, todo>>

-----------------------------------------------------------------------------
(***************************************************************************)
(* DeleteBucket, under the commitMu of the handle it found.                *)
(***************************************************************************)

\* Faulty variant: the bucket is not checked to be empty.
CountSkipped(p) ==
  /\ pc[p] = "count"
  /\ Goto(p, "uncache")
  /\ UNCHANGED <<disk, mem, op, reply, use, todo>>

Count(p) ==
  /\ pc[p] = "count"
  /\ IF use[p] \in open /\ rows[dbOf[use[p]]] = {}
     THEN Goto(p, "uncache") /\ UNCHANGED reply
     ELSE /\ Goto(p, "unlock")
          /\ reply' = [reply EXCEPT ![p] = IF use[p] \in open THEN "notempty"
                                                               ELSE "error"]
  /\ UNCHANGED <<disk, mem, op, use, todo>>

\* Faulty variant: the handle stays in s.buckets.
UncacheForgotten(p) ==
  /\ pc[p] = "uncache"
  /\ UnderMu(p)
  /\ Goto(p, "close")
  /\ UNCHANGED <<disk, handles, op, reply, use, todo>>

\* delete(s.buckets, name), whichever handle is there by now.
Uncache(p) ==
  /\ pc[p] = "uncache"
  /\ UnderMu(p)
  /\ cached' = Nil
  /\ Goto(p, "close")
  /\ UNCHANGED <<disk, open, dbOf, commitMu, op, reply, use, todo>>

\* db.Close().  An error ends the delete with the directory in place; the
\* handle is closed all the same.
CloseDB(p) ==
  /\ pc[p] = "close"
  /\ open' = open \ {use[p]}
  /\ \/ Goto(p, "scan") /\ UNCHANGED reply
     \/ Goto(p, "unlock") /\ reply' = [reply EXCEPT ![p] = "error"]
  /\ UNCHANGED <<disk, cached, dbOf, commitMu, mu, op, use, todo>>

Present == (entries \ {"dir"}) \cup (IF path = Nil THEN {} ELSE {"db"})

\* os.RemoveAll reads the directory once,
Scan(p) ==
  /\ pc[p] = "scan"
  /\ todo' = [todo EXCEPT ![p] = Present]
  /\ Goto(p, IF Present = {} THEN "rmdir" ELSE "unlink")
  /\ UNCHANGED <<disk, mem, op, reply, use>>

\* removes what it read, in the order it read it,
Unlink(p) ==
  /\ pc[p] = "unlink"
  /\ \E e \in todo[p] :
       /\ entries' = entries \ {e}
       /\ path' = IF e = "db" THEN Nil ELSE path
       /\ tmpfiles' = IF e = "tmp" THEN {} ELSE tmpfiles
       /\ todo' = [todo EXCEPT ![p] = @ \ {e}]
  /\ Goto(p, IF todo'[p] = {} THEN "rmdir" ELSE "unlink")
  /\ UNCHANGED <<rows, mem, op, reply, use>>

\* and then the directory, unless something has appeared in it since.
RmDir(p) ==
  /\ pc[p] = "rmdir"
  /\ entries' = IF Present = {} THEN {} ELSE entries
  /\ reply' = [reply EXCEPT ![p] = IF Present = {} THEN "ok" ELSE "error"]
  /\ Goto(p, "unlock")
  /\ UNCHANGED <<path, rows, tmpfiles, mem, op, use, todo>>

-----------------------------------------------------------------------------

\* The process stops and starts again with no open handle.
Crash ==
  /\ "crash" \in Faults
  /\ \E p \in Requests : Running(p)
  /\ cached' = Nil
  /\ open' = {}
  /\ commitMu' = [p \in Requests |-> Nil]
  /\ mu' = Nil
  /\ pc' = [p \in Requests |-> IF Running(p) THEN "done" ELSE pc[p]]
  /\ orderly' = FALSE
  /\ UNCHANGED <<disk, dbOf, op, reply, use, todo>>

Step(p) ==
  \/ Mkdir(p) \/ MkObjects(p) \/ MkTmp(p)
  \/ LockStore(p) \/ Lookup(p) \/ StatDB(p) \/ OpenBucket(p) \/ Info(p)
  \/ ReadDir(p) \/ ListStat(p)
  \/ NewBlobWriter(p) \/ Lock(p) \/ InstallBlob(p) \/ PutTx(p) \/ Unlock(p)
  \/ Count(p) \/ Uncache(p) \/ CloseDB(p) \/ Scan(p) \/ Unlink(p) \/ RmDir(p)

Next ==
  \/ \E p \in Requests :
       \/ \E o \in Ops : Begin(p, o)
       \/ (BodyArrived(p) \/ Step(p)) /\ UNCHANGED orderly
  \/ Crash

Spec == Init /\ [][Next]_vars

\* A goroutine that can run does; a starved waiter gets a sync.Mutex.  A
\* client may keep its body to itself for ever.
FairSpec ==
  /\ Spec
  /\ \A p \in Requests : WF_work(Step(p)) /\ SF_work(Lock(p) \/ LockStore(p))

-----------------------------------------------------------------------------
(***************************************************************************)
(* Properties.                                                             *)
(***************************************************************************)

\* Every variable has its type, and no request goes on from bucket() without a
\* handle.
TypeOK ==
  /\ entries \subseteq Dirs
  /\ path \in Requests \cup {Nil}
  /\ rows \in [Requests -> SUBSET Requests]
  /\ tmpfiles \subseteq Requests
  /\ cached \in Requests \cup {Nil}
  /\ open \subseteq Requests
  /\ dbOf \in [Requests -> Requests \cup {Nil}]
  /\ commitMu \in [Requests -> Requests \cup {Nil}]
  /\ mu \in Requests \cup {Nil}
  /\ pc \in [Requests -> Stages]
  /\ op \in [Requests -> {"create", "get", "list", "put", "delete"}]
  /\ reply \in [Requests -> Replies]
  /\ use \in [Requests -> Requests \cup {Nil}]
  /\ todo \in [Requests -> SUBSET {"objects", "tmp", "db"}]
  /\ orderly \in BOOLEAN
  /\ \A p \in Requests : pc[p] \in UsingHandle => use[p] # Nil

Quiet == \A p \in Requests : ~Running(p)

NeverDeleted == \A p \in Requests : op[p] # "delete"

\* However many requests find the bucket unopened at once, openBucket leaves
\* one open handle, the one in s.buckets: commitMu serializes mutations only
\* because they all go through the same handle.  (DeleteBucket, which closes a
\* handle that others may have just found, is the exception.)
SingleHandle == NeverDeleted => open \subseteq {cached}

\* Of all the requests that create a name that is never deleted, one succeeds.
CreateOnce ==
  NeverDeleted =>
    \A p, q \in Requests :
      {op[p], op[q]} = {"create"} /\ {reply[p], reply[q]} = {"ok"} => p = q

\* An acknowledged upload is in the database file that the next request, or
\* the next process, will open.
AckedInPlace ==
  NeverDeleted =>
    \A p \in Requests :
      op[p] = "put" /\ reply[p] = "ok" => path # Nil /\ p \in rows[path]

\* DeleteBucket deletes a bucket only if it is empty: data.sqlite is never
\* unlinked while its objects table has a row.
DeletesOnlyEmpty ==
  [][path # Nil /\ path' # path => rows[path] = {}]_vars

\* Between requests a name either has a bucket or is free: CreateBucket does
\* not answer "bucket already exists" where GetBucket says "bucket not found".
NameUsable == Quiet => ("dir" \in entries => path # Nil)

\* What of this is left to clients who delete a bucket only while they do
\* nothing else with it: only empty buckets disappear,
OrderlyDeletes ==
  [][orderly' /\ path # Nil /\ path' # path => rows[path] = {}]_vars

\* and between requests a deleted name can be created again, and the handle in
\* s.buckets is an open one on the database that is in place: a deleted bucket
\* is not found, an existing one works.
OrderlyNameUsable ==
  orderly /\ Quiet =>
    /\ NameUsable
    /\ cached # Nil => cached \in open /\ dbOf[cached] = path

\* A listing is not failed by a bucket that is being created.
ListSucceeds ==
  orderly => \A p \in Requests : op[p] = "list" => reply[p] # "error"

\* Every request is answered once it is not waiting for its client: no path of
\* Commit, DeleteBucket or openBucket keeps commitMu or s.mu, and no two
\* requests wait for each other although DeleteBucket needs both at once.
RequestsAnswered ==
  \A p \in Requests :
    pc[p] \notin {"idle", "body"} ~> pc[p] \in {"body", "done"}

-----------------------------------------------------------------------------
(***************************************************************************)
(* Why they hold: the inductive invariant.                                 *)
(***************************************************************************)

\* Each stage belongs to the operations that pass through it, and a request
\* has its answer only at its end.
OpInv ==
  \A p \in Requests :
    /\ pc[p] = "idle" => op[p] = "get"
    /\ pc[p] \in {"mkdir", "mkobjects", "mktmp"} => op[p] = "create"
    /\ pc[p] \in {"readdir", "liststat"} => op[p] = "list"
    /\ pc[p] \in {"lookup", "stat"} => op[p] # "create"
    /\ pc[p] = "info" => op[p] \in {"create", "get", "list"}
    /\ pc[p] \in {"tempfile", "body", "install", "tx"} => op[p] = "put"
    /\ pc[p] \in {"lock", "unlock"} => op[p] \in {"put", "delete"}
    /\ pc[p] \in {"count", "uncache", "close", "scan", "unlink", "rmdir"}
         => op[p] = "delete"
    /\ reply[p] # "none" => pc[p] \in {"unlock", "done"}

\* A bucket that is never deleted: every request uses the handle in s.buckets,
\* which is open on the database in place,
HandleInv ==
  NeverDeleted =>
    /\ open \subseteq {cached}
    /\ cached # Nil => cached \in open /\ path # Nil /\ dbOf[cached] = path
    /\ \A p \in Requests : pc[p] \in UsingHandle => use[p] = cached

\* and only one create gets past its Mkdir.
Creating(p) ==
  /\ op[p] = "create"
  /\ pc[p] \in {"mkobjects", "mktmp", "open", "info"} \/ reply[p] = "ok"

CreateInv ==
  NeverDeleted =>
    \A p, q \in Requests :
      Creating(p) => "dir" \in entries /\ (Creating(q) => p = q)

\* A bucket that is deleted only while nothing else is done with it: a delete
\* runs alone,
AloneInv ==
  \A p, q \in Requests : p # q /\ Running(p) /\ Running(q) => op[p] # "delete"

\* the handle in s.buckets works, a directory without a database is one that
\* is being created or removed,
MakingDir(p) ==
  \/ pc[p] \in {"mkobjects", "mktmp"}
  \/ pc[p] = "open" /\ op[p] = "create"

TidyInv ==
  /\ cached # Nil => cached \in open /\ path # Nil /\ dbOf[cached] = path
  /\ path # Nil => "dir" \in entries
  /\ "dir" \notin entries => entries = {}
  /\ "dir" \in entries /\ path = Nil =>
       \E p \in Requests : MakingDir(p) \/ pc[p] \in {"unlink", "rmdir"}

\* a create in progress finds no obstacle,
MakingInv ==
  \A p \in Requests :
    MakingDir(p) => /\ path = Nil
                    /\ "dir" \in entries
                    /\ pc[p] = "mkobjects" => entries = {"dir"}
                    /\ pc[p] = "mktmp" => "tmp" \notin entries
                    /\ \A q \in Requests : MakingDir(q) => p = q

\* a request that has found the database or the handle finds it again,
FoundInv ==
  \A p \in Requests :
    /\ pc[p] = "open" /\ op[p] # "create" => path # Nil
    /\ pc[p] \in {"lookup", "stat"} /\ op[p] = "list" => path # Nil
    /\ pc[p] \in {"info", "tempfile", "body", "lock", "install", "tx", "count",
                  "uncache"} => use[p] = cached

\* and a delete that has counted no rows removes what it has read.
DeleteInv ==
  \A p \in Requests :
    /\ pc[p] \in {"uncache", "close", "scan", "unlink", "rmdir"} /\ path # Nil
         => rows[path] = {}
    /\ pc[p] \in {"close", "scan", "unlink", "rmdir"} => cached = Nil
    /\ pc[p] \in {"close", "scan"} => path # Nil
    /\ pc[p] = "unlink" => Present = todo[p]
    /\ pc[p] = "rmdir" => Present = {}

OrderlyInv ==
  orderly => AloneInv /\ TidyInv /\ MakingInv /\ FoundInv /\ DeleteInv

IndInv ==
  /\ TypeOK /\ OpInv
  /\ HandleInv /\ CreateInv /\ AckedInPlace
  /\ OrderlyInv /\ ListSucceeds

=============================================================================
