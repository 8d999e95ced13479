------------------------------- MODULE Bucket -------------------------------
(***************************************************************************)
(* One open bucket of the store (pkg/store/bucket.go, blobwriter.go): the  *)
(* objects and blobs tables of data.sqlite, the content-addressed files    *)
(* under objects/, and the requests that read and change them at the same  *)
(* time.                                                                   *)
(*                                                                         *)
(* A content stands for the bytes of an object together with its sha256,   *)
(* so the blob file of content c is named by c itself.  A SQLite           *)
(* transaction is one step: it runs under commitMu and becomes visible to  *)
(* other connections when it commits.  File operations are steps of their  *)
(* own, because readers take no lock and the process may stop between any  *)
(* two of them.                                                            *)
(***************************************************************************)
EXTENDS Naturals, FiniteSets

CONSTANTS
  Requests,    \* HTTP requests in flight (goroutines) on this bucket
  Names,       \* object names
  ValidNames,  \* those that validObjectName accepts
  Contents,    \* object contents, identified with their sha256
  Clock,       \* what time.Now().UnixMicro() may return; it may step back
  CondSet,     \* the preconditions clients send
  Ops,         \* the operations clients use in this instance
  Faults,      \* "io": a file or database call fails; "crash": process stops
  MaxGen,      \* bound: no put starts that could lift a generation above it
  Nil

NilOr(S) == S \cup {Nil}

Row == [generation : Nat \ {0}, metageneration : {1}, sha256 : Contents]

Conditions == [generationMatch        : NilOr(Nat),
               generationNotMatch     : NilOr(Nat),
               metagenerationMatch    : NilOr(Nat),
               metagenerationNotMatch : NilOr(Nat)]

NoConditions == [generationMatch        |-> Nil,
                 generationNotMatch     |-> Nil,
                 metagenerationMatch    |-> Nil,
                 metagenerationNotMatch |-> Nil]

Request == [op : {"put", "delete", "get", "copy"},
            src : Names, name : Names,
            content : NilOr(Contents), conds : CondSet]

ASSUME ConstantsAssumption ==
  /\ IsFiniteSet(Names)
  /\ ValidNames \subseteq Names
  /\ Clock \subseteq Nat \ {0}
  /\ CondSet \subseteq Conditions
  /\ NoConditions \in CondSet
  /\ MaxGen \in Nat

ASSUME NilAssumption ==
  /\ Nil \notin Row \cup Request
  /\ Nil \notin Contents
  /\ Nil \notin Nat
  /\ Nil \notin Requests

VARIABLES
  objects,   \* table objects: name -> row, Nil when there is no row
  blobs,     \* table blobs: content -> refcount, 0 when there is no row
  files,     \* contents whose blob file exists under objects/
  tmp,       \* requests whose upload-* file exists under tmp/
  commitMu,  \* the request that holds Bucket.commitMu, or Nil
  pc,        \* where each request is
  req,       \* what each request asked for
  row,       \* the row a reading request found
  orphan,    \* the content a writer still has to remove from objects/
  reply      \* what the request will answer

vars == <<objects, blobs, files, tmp, commitMu, pc, req, row, orphan, reply>>

Stages == {"idle", "body", "lock", "install", "tx", "remove", "unlock",
           "query", "open", "done"}

Replies == {"none", "ok", "precondition", "notfound", "invalid", "error"}

Init ==
  /\ objects = [n \in Names |-> Nil]
  /\ blobs = [c \in Contents |-> 0]
  /\ files = {}
  /\ tmp = {}
  /\ commitMu = Nil
  /\ pc = [p \in Requests |-> "idle"]
  /\ req = [p \in Requests |-> Nil]
  /\ row = [p \in Requests |-> Nil]
  /\ orphan = [p \in Requests |-> Nil]
  /\ reply = [p \in Requests |-> "none"]

-----------------------------------------------------------------------------
(***************************************************************************)
(* Pure helpers.                                                           *)
(***************************************************************************)

\* Faulty variant: GenerationMatch 0 is taken for an absent condition.
CheckIgnoresZero(k, existing) ==
  k.generationMatch \notin {Nil, 0} =>
    existing # Nil /\ existing.generation = k.generationMatch

\* Conditions.check: a missing object has generation and metageneration 0.
Check(k, existing) ==
  LET gen     == IF existing = Nil THEN 0 ELSE existing.generation
      metagen == IF existing = Nil THEN 0 ELSE existing.metageneration
  IN  /\ k.generationMatch # Nil => gen = k.generationMatch
      /\ k.generationNotMatch # Nil /\ existing # Nil
           => gen # k.generationNotMatch
      /\ k.metagenerationMatch # Nil => metagen = k.metagenerationMatch
      /\ k.metagenerationNotMatch # Nil /\ existing # Nil
           => metagen # k.metagenerationNotMatch

\* checkReadConditions: preconditions of a read, on the row already fetched.
CheckReadConditions(k, info) ==
  /\ k.generationMatch # Nil => info.generation = k.generationMatch
  /\ k.generationNotMatch # Nil => info.generation # k.generationNotMatch
  /\ k.metagenerationMatch # Nil
       => info.metageneration = k.metagenerationMatch
  /\ k.metagenerationNotMatch # Nil
       => info.metageneration # k.metagenerationNotMatch

\* Faulty variant: no comparison with the version being replaced.
NextGenerationClockOnly(existing, now) == now

\* The generation of a new version: the clock, lifted above the version that
\* is being replaced.
NextGeneration(existing, now) ==
  IF existing # Nil /\ existing.generation >= now
  THEN existing.generation + 1
  ELSE now

\* Faulty variant: INSERT OR REPLACE with refcount 1.
IncrefBlobReplaces(b, c) == [b EXCEPT ![c] = 1]

\* INSERT INTO blobs ... ON CONFLICT DO UPDATE SET refcount = refcount + 1.
IncrefBlob(b, c) == [b EXCEPT ![c] = @ + 1]

\* decrefBlob: no row, no effect; a row that reaches zero is deleted.
DecrefBlob(b, c) == [b EXCEPT ![c] = IF @ > 0 THEN @ - 1 ELSE 0]

\* Faulty variant: refcount < 0 where the code has refcount <= 0.
OrphanedBelowZero(b, c) == b[c] = 0

\* decrefBlob's result: this call deleted the row.
Orphaned(b, c) == b[c] = 1

GenOf(n) == IF objects[n] = Nil THEN 0 ELSE objects[n].generation

Writers == {p \in Requests : pc[p] # "idle" /\ req[p].op \in {"put", "copy"}}

\* Bound on the state space: every writer in flight may still lift the
\* generation by one.
MayWrite == \A n \in Names : GenOf(n) + Cardinality(Writers) < MaxGen

-----------------------------------------------------------------------------
(***************************************************************************)
(* Steps every request shares.                                             *)
(***************************************************************************)

Begin(p, r, stage) ==
  /\ pc[p] = "idle"
  /\ r.op \in Ops
  /\ pc' = [pc EXCEPT ![p] = stage]
  /\ req' = [req EXCEPT ![p] = r]

\* The request answers w without touching tables or blob files.
Finish(p, w) ==
  /\ pc' = [pc EXCEPT ![p] = "done"]
  /\ reply' = [reply EXCEPT ![p] = w]

Store == <<objects, blobs, files>>

\* Faulty variant: the blob is installed and removed outside the lock.
LockShared(p) ==
  /\ pc[p] = "lock"
  /\ commitMu' = p
  /\ pc' = [pc EXCEPT ![p] = IF req[p].op = "delete" THEN "tx" ELSE "install"]
  /\ UNCHANGED <<Store, tmp, req, row, orphan, reply>>

\* b.commitMu.Lock() in Commit and in DeleteObject.
Lock(p) ==
  /\ pc[p] = "lock"
  /\ commitMu = Nil
  /\ commitMu' = p
  /\ pc' = [pc EXCEPT ![p] = IF req[p].op = "delete" THEN "tx" ELSE "install"]
  /\ UNCHANGED <<Store, tmp, req, row, orphan, reply>>

\* Faulty variant: an early return without the deferred Unlock.
UnlockOnSuccessOnly(p) ==
  /\ pc[p] = "unlock"
  /\ commitMu' = IF reply[p] = "ok" THEN Nil ELSE commitMu
  /\ tmp' = tmp \ {p}
  /\ pc' = [pc EXCEPT ![p] = "done"]
  /\ UNCHANGED <<Store, req, row, orphan, reply>>

\* The deferred calls, last registered first: tx.Rollback, commitMu.Unlock,
\* and in Commit os.Remove(tmpName), which does nothing after a rename.  No
\* other request looks at the temp file, so its removal shares this step.
Unlock(p) ==
  /\ pc[p] = "unlock"
  /\ commitMu' = Nil
  /\ tmp' = tmp \ {p}
  /\ pc' = [pc EXCEPT ![p] = "done"]
  /\ UNCHANGED <<Store, req, row, orphan, reply>>

\* The response is written and the request is over.
Return(p) ==
  /\ pc[p] = "done"
  /\ pc' = [pc EXCEPT ![p] = "idle"]
  /\ req' = [req EXCEPT ![p] = Nil]
  /\ row' = [row EXCEPT ![p] = Nil]
  /\ reply' = [reply EXCEPT ![p] = "none"]
  /\ UNCHANGED <<Store, tmp, commitMu, orphan>>

-----------------------------------------------------------------------------
(***************************************************************************)
(* Upload: NewBlobWriter, Write, Abort, Commit.                            *)
(***************************************************************************)

\* PutObject: NewBlobWriter creates the temp file the body streams into.
BeginPut(p, n, c, k) ==
  /\ MayWrite
  /\ Begin(p, [op |-> "put", src |-> n, name |-> n, content |-> c,
               conds |-> k], "body")
  /\ tmp' = tmp \cup {p}
  /\ UNCHANGED <<Store, commitMu, row, orphan, reply>>

\* io.Copy into the writer fails (client gone, disk full): Abort.
Abort(p) ==
  /\ pc[p] = "body"
  /\ tmp' = tmp \ {p}
  /\ Finish(p, "error")
  /\ UNCHANGED <<Store, commitMu, req, row, orphan>>

\* Commit, up to the lock: a bad name ends it, Sync or Close may fail.
Commit(p) ==
  /\ pc[p] = "body"
  /\ IF req[p].name \in ValidNames
     THEN /\ pc' = [pc EXCEPT ![p] = "lock"]
          /\ UNCHANGED <<tmp, reply>>
     ELSE /\ tmp' = tmp \ {p}
          /\ Finish(p, "invalid")
  /\ UNCHANGED <<Store, commitMu, req, row, orphan>>

CommitSyncFails(p) ==
  /\ "io" \in Faults
  /\ pc[p] = "body"
  /\ req[p].name \in ValidNames
  /\ tmp' = tmp \ {p}
  /\ Finish(p, "error")
  /\ UNCHANGED <<Store, commitMu, req, row, orphan>>

\* Stat the blob path; when there is nothing there, rename the temp file.
InstallBlob(p) ==
  /\ pc[p] = "install"
  /\ files' = files \cup {req[p].content}
  /\ tmp' = IF req[p].content \in files THEN tmp ELSE tmp \ {p}
  /\ pc' = [pc EXCEPT ![p] = "tx"]
  /\ UNCHANGED <<objects, blobs, commitMu, req, row, orphan, reply>>

\* MkdirAll or Rename fails.
InstallFails(p) ==
  /\ "io" \in Faults
  /\ pc[p] = "install"
  /\ req[p].content \notin files
  /\ pc' = [pc EXCEPT ![p] = "unlock"]
  /\ reply' = [reply EXCEPT ![p] = "error"]
  /\ UNCHANGED <<Store, tmp, commitMu, req, row, orphan>>

\* The transaction of Commit: replace the row and move the references.
PutTx(p) ==
  LET n        == req[p].name
      c        == req[p].content
      existing == objects[n]
      inc      == IncrefBlob(blobs, c)
      replaced == existing # Nil
  IN  /\ pc[p] = "tx"
      /\ req[p].op \in {"put", "copy"}
      /\ Check(req[p].conds, existing)
      /\ \E now \in Clock :
           objects' = [objects EXCEPT ![n] =
                         [generation     |-> NextGeneration(existing, now),
                          metageneration |-> 1,
                          sha256         |-> c]]
      /\ blobs' = IF replaced THEN DecrefBlob(inc, existing.sha256) ELSE inc
      /\ orphan' = [orphan EXCEPT ![p] =
                      IF replaced /\ Orphaned(inc, existing.sha256)
                      THEN existing.sha256 ELSE Nil]
      /\ pc' = [pc EXCEPT ![p] = "remove"]
      /\ reply' = [reply EXCEPT ![p] = "ok"]
      /\ UNCHANGED <<files, tmp, commitMu, req, row>>

\* The transaction of DeleteObject.
DeleteTx(p) ==
  LET n == req[p].name
      c == objects[n].sha256
  IN  /\ pc[p] = "tx"
      /\ req[p].op = "delete"
      /\ Check(req[p].conds, objects[n])
      /\ objects[n] # Nil
      /\ objects' = [objects EXCEPT ![n] = Nil]
      /\ blobs' = DecrefBlob(blobs, c)
      /\ orphan' = [orphan EXCEPT ![p] = IF Orphaned(blobs, c)
                                         THEN c ELSE Nil]
      /\ pc' = [pc EXCEPT ![p] = "remove"]
      /\ reply' = [reply EXCEPT ![p] = "ok"]
      /\ UNCHANGED <<files, tmp, commitMu, req, row>>

\* The transaction refuses the request and is rolled back: a precondition
\* fails, or there is nothing to delete.
TxRefused(p) ==
  /\ pc[p] = "tx"
  /\ \/ /\ ~Check(req[p].conds, objects[req[p].name])
        /\ reply' = [reply EXCEPT ![p] = "precondition"]
     \/ /\ Check(req[p].conds, objects[req[p].name])
        /\ req[p].op = "delete"
        /\ objects[req[p].name] = Nil
        /\ reply' = [reply EXCEPT ![p] = "notfound"]
  /\ pc' = [pc EXCEPT ![p] = "unlock"]
  /\ UNCHANGED <<Store, tmp, commitMu, req, row, orphan>>

\* Begin, a statement or tx.Commit fails: rolled back.
TxFails(p) ==
  /\ "io" \in Faults
  /\ pc[p] = "tx"
  /\ pc' = [pc EXCEPT ![p] = "unlock"]
  /\ reply' = [reply EXCEPT ![p] = "error"]
  /\ UNCHANGED <<Store, tmp, commitMu, req, row, orphan>>

\* os.Remove of the orphaned blob, after the commit and under the lock.
RemoveOrphan(p) ==
  /\ pc[p] = "remove"
  /\ files' = files \ {orphan[p]}
  /\ orphan' = [orphan EXCEPT ![p] = Nil]
  /\ pc' = [pc EXCEPT ![p] = "unlock"]
  /\ UNCHANGED <<objects, blobs, tmp, commitMu, req, row, reply>>

\* The error of os.Remove is ignored.
RemoveOrphanFails(p) ==
  /\ "io" \in Faults
  /\ pc[p] = "remove"
  /\ orphan[p] # Nil
  /\ orphan' = [orphan EXCEPT ![p] = Nil]
  /\ pc' = [pc EXCEPT ![p] = "unlock"]
  /\ UNCHANGED <<Store, tmp, commitMu, req, row, reply>>

-----------------------------------------------------------------------------
(***************************************************************************)
(* DeleteObject, OpenObject and the S3 copy built on OpenObject+PutObject. *)
(***************************************************************************)

BeginDelete(p, n, k) ==
  /\ Begin(p, [op |-> "delete", src |-> n, name |-> n, content |-> Nil,
               conds |-> k], "lock")
  /\ UNCHANGED <<Store, tmp, commitMu, row, orphan, reply>>

BeginGet(p, n, k) ==
  /\ Begin(p, [op |-> "get", src |-> n, name |-> n, content |-> Nil,
               conds |-> k], "query")
  /\ UNCHANGED <<Store, tmp, commitMu, row, orphan, reply>>

BeginCopy(p, s, n) ==
  /\ MayWrite
  /\ Begin(p, [op |-> "copy", src |-> s, name |-> n, content |-> Nil,
               conds |-> NoConditions], "query")
  /\ UNCHANGED <<Store, tmp, commitMu, row, orphan, reply>>

\* getObject: the row is read outside commitMu.
QueryRow(p) ==
  /\ pc[p] = "query"
  /\ IF objects[req[p].src] = Nil
     THEN /\ Finish(p, "notfound")
          /\ UNCHANGED row
     ELSE /\ pc' = [pc EXCEPT ![p] = "open"]
          /\ row' = [row EXCEPT ![p] = objects[req[p].src]]
          /\ UNCHANGED reply
  /\ UNCHANGED <<Store, tmp, commitMu, req, orphan>>

\* os.Open(blobPath) finds the file; from here on the open descriptor keeps
\* the content readable, whatever happens to the directory entry.
OpenBlob(p) ==
  /\ pc[p] = "open"
  /\ req[p].op = "get"
  /\ row[p].sha256 \in files
  /\ Finish(p, IF CheckReadConditions(req[p].conds, row[p])
               THEN "ok" ELSE "precondition")
  /\ UNCHANGED <<Store, tmp, commitMu, req, row, orphan>>

\* The same for a copy, which goes on as an upload of what it opened.
OpenCopySource(p) ==
  /\ pc[p] = "open"
  /\ req[p].op = "copy"
  /\ row[p].sha256 \in files
  /\ req' = [req EXCEPT ![p].content = row[p].sha256]
  /\ tmp' = tmp \cup {p}
  /\ pc' = [pc EXCEPT ![p] = "body"]
  /\ UNCHANGED <<Store, commitMu, row, orphan, reply>>

\* The blob file went away between the query and the open.
OpenFails(p) ==
  /\ pc[p] = "open"
  /\ row[p].sha256 \notin files
  /\ Finish(p, "error")
  /\ UNCHANGED <<Store, tmp, commitMu, req, row, orphan>>

\* The process stops and is started again.  Tables and blob files are what
\* they were; an open transaction is rolled back.  The temp files left behind
\* are never looked at again, so the model forgets them.
Crash ==
  /\ "crash" \in Faults
  /\ \E p \in Requests : pc[p] # "idle"
  /\ tmp' = {}
  /\ commitMu' = Nil
  /\ pc' = [p \in Requests |-> "idle"]
  /\ req' = [p \in Requests |-> Nil]
  /\ row' = [p \in Requests |-> Nil]
  /\ orphan' = [p \in Requests |-> Nil]
  /\ reply' = [p \in Requests |-> "none"]
  /\ UNCHANGED Store

-----------------------------------------------------------------------------

\* A client sends a request.
Arrive(p) ==
  \E n \in Names :
    \/ \E c \in Contents, k \in CondSet : BeginPut(p, n, c, k)
    \/ \E k \in CondSet : BeginDelete(p, n, k)
    \/ \E k \in CondSet : BeginGet(p, n, k)
    \/ \E s \in Names : BeginCopy(p, s, n)

\* The server's own steps once the body has arrived.
Step(p) ==
  \/ Lock(p) \/ Unlock(p) \/ Return(p)
  \/ InstallBlob(p) \/ InstallFails(p)
  \/ PutTx(p) \/ DeleteTx(p) \/ TxRefused(p) \/ TxFails(p)
  \/ RemoveOrphan(p) \/ RemoveOrphanFails(p)
  \/ QueryRow(p) \/ OpenBlob(p) \/ OpenCopySource(p) \/ OpenFails(p)

\* The body of an upload ends, well or badly.
BodyEnds(p) == Commit(p) \/ CommitSyncFails(p) \/ Abort(p)

Next ==
  \/ \E p \in Requests : Arrive(p) \/ BodyEnds(p) \/ Step(p)
  \/ Crash

Spec == Init /\ [][Next]_vars

(***************************************************************************)
(* Fairness: a goroutine that can run does run, and Go's sync.Mutex hands  *)
(* the lock to a waiter that has been starved, hence strong fairness for   *)
(* Lock.  Nothing is assumed of clients: a body may never end.             *)
(***************************************************************************)
Fairness ==
  /\ \A p \in Requests : WF_vars(Step(p))
  /\ \A p \in Requests : SF_vars(Lock(p))

FairSpec == Spec /\ Fairness

-----------------------------------------------------------------------------
(***************************************************************************)
(* Properties.                                                             *)
(***************************************************************************)

\* Every variable has its type.
TypeOK ==
  /\ objects \in [Names -> NilOr(Row)]
  /\ blobs \in [Contents -> Nat]
  /\ files \subseteq Contents
  /\ tmp \subseteq Requests
  /\ commitMu \in NilOr(Requests)
  /\ pc \in [Requests -> Stages]
  /\ req \in [Requests -> NilOr(Request)]
  /\ row \in [Requests -> NilOr(Row)]
  /\ orphan \in [Requests -> NilOr(Contents)]
  /\ reply \in [Requests -> Replies]

Referers(c) == {n \in Names : objects[n] # Nil /\ objects[n].sha256 = c}

\* The refcount that Commit and decrefBlob keep in table blobs is, after every
\* transaction, the number of rows of table objects that name the blob:
\* overwrites with the same content, crashes and failed calls included.
RefcountsExact == \A c \in Contents : blobs[c] = Cardinality(Referers(c))

\* The blob file of every live object exists at every instant, also while a
\* delete removes a blob that a concurrent upload is deduplicating against:
\* the race commitMu is there for.
LiveBlobsPresent ==
  \A n \in Names : objects[n] # Nil => objects[n].sha256 \in files

\* Whenever no mutation is under way the blob files are exactly the blobs that
\* have a row: the inline collection of DeleteObject and Commit leaves no file
\* behind.
NoGarbage == commitMu = Nil => files = {c \in Contents : blobs[c] > 0}

\* Commit replaces a version only by one with a strictly larger generation,
\* even when the clock stands still or steps back.
GenerationGrows ==
  [][\A n \in Names :
       objects[n] # Nil /\ objects'[n] # Nil /\ objects'[n] # objects[n]
         => objects'[n].generation > objects[n].generation]_vars

\* OpenObject returns "object metadata plus an open file handle on its
\* content", but queries and opens in two steps.  A read fails for the lack of
\* its blob only if the object it found has been replaced or deleted since.
ReadFailsOnlyIfChanged ==
  [][\A p \in Requests :
       pc[p] = "open" /\ reply'[p] = "error"
         => objects[req[p].src] # row[p]]_vars

\* Every mutation that has its body and asks for commitMu is answered: neither
\* Commit nor DeleteObject keeps the lock on the paths that end in an error.
MutationsAnswered ==
  \A p \in Requests : pc[p] = "lock" ~> pc[p] = "idle"

\* The bucket behaves as the atomic conditional map of ObjectMap: the
\* transaction is the instant at which an upload, a copy or a delete takes
\* effect, and the query that of a read.
Abstract == INSTANCE ObjectMap WITH live <- objects, seen <- row,
                                    Clients <- Requests
ImplementsObjectMap == Abstract!Spec

(***************************************************************************)
(* What each step relies on: the lock is held exactly by the request that  *)
(* is between Lock and Unlock, an upload reaches its transaction with its  *)
(* blob in place, and a blob to be removed has no row.                     *)
(***************************************************************************)
Critical == {"install", "tx", "remove", "unlock"}

MutexInv ==
  \A p \in Requests : pc[p] \in Critical <=> commitMu = p

StageInv ==
  \A p \in Requests :
    /\ pc[p] # "idle" => req[p] # Nil
    /\ pc[p] \in {"body", "install"} => req[p].op \in {"put", "copy"}
    /\ pc[p] \in {"body", "lock", "install", "tx"} /\ req[p].op # "delete"
         => req[p].content # Nil
    /\ pc[p] \in {"lock", "tx"} => req[p].op # "get"
    /\ pc[p] = "tx" /\ req[p].op # "delete" => req[p].content \in files
    /\ pc[p] = "open" => row[p] # Nil
    /\ orphan[p] # Nil => pc[p] = "remove" /\ blobs[orphan[p]] = 0

(***************************************************************************)
(* What the answers rely on: a request has an answer exactly when it is    *)
(* past the point where it takes effect, only reads query, and an upload   *)
(* that asks for the lock has a valid name.                                *)
(***************************************************************************)
AnswerInv ==
  \A p \in Requests :
    /\ reply[p] = "none" <=> pc[p] \notin {"remove", "unlock", "done"}
    /\ pc[p] = "idle" => req[p] = Nil
    /\ pc[p] \in {"query", "open"} => req[p].op \in {"get", "copy"}
    /\ pc[p] \in {"lock", "install", "tx"} /\ req[p].op # "delete"
         => req[p].name \in ValidNames
    /\ req[p] # Nil /\ req[p].op = "delete" => req[p].src = req[p].name

\* The inductive invariant behind RefcountsExact, LiveBlobsPresent and the
\* refinement of ObjectMap: who holds commitMu, what the holder has already
\* put in place, and which requests have been answered.
IndInv ==
  /\ TypeOK
  /\ MutexInv
  /\ StageInv
  /\ AnswerInv
  /\ RefcountsExact
  /\ LiveBlobsPresent

=============================================================================
