------------------------------ MODULE Multipart ------------------------------
(***************************************************************************)
(* One S3 multipart upload (pkg/s3/multipart.go): part uploads that stage  *)
(* a temp file without a lock and publish it under up.mu, racing with each *)
(* other, with completes and with aborts of the same upload.               *)
(*                                                                         *)
(* Every request is made once and every part upload has a content of its   *)
(* own, so the request also names the staged file, its content and its     *)
(* ETag.  up.mu is only shown where a request holds it from one step to    *)
(* the next; what happens between one Lock and the next Unlock without     *)
(* touching anything outside the upload is a single step.                  *)
(***************************************************************************)
EXTENDS Naturals, Sequences, FiniteSets

CONSTANTS
  Requests,
  Numbers,     \* part numbers, a set of naturals
  MaxListed,   \* bound: parts named in one complete request
  Nil

ASSUME MultipartAssumption ==
  /\ Numbers \subseteq Nat \ {0}
  /\ MaxListed \in Nat
  /\ Nil \notin Requests

VARIABLES
  listed,    \* s.uploads has the upload id
  done,      \* up.done
  mu,        \* the request that holds up.mu, or Nil
  parts,     \* up.parts: part number -> staged file, or Nil
  staged,    \* the part-* files under the bucket's tmp/
  commits,   \* the contents committed to the key, in order
  pc, reply,
  num,       \* the part number of a part upload, 0 for any other request
  list       \* the parts a complete names

upload == <<listed, done, mu, parts, staged, commits>>
ask == <<num, list>>
vars == <<upload, pc, reply, ask>>

Stages == {"idle", "lookupPart", "lookupComplete", "lookupAbort", "stage",
           "publish", "discard", "check", "commit", "abort", "delist", "done"}

Replies == {"none", "ok", "nosuchupload", "invalid", "badorder", "badpart",
            "error"}

NoParts == [n \in Numbers |-> Nil]

\* initiateMultipartUpload has just answered.
Init ==
  /\ listed = TRUE
  /\ done = FALSE
  /\ mu = Nil
  /\ parts = NoParts
  /\ staged = {}
  /\ commits = <<>>
  /\ pc = [r \in Requests |-> "idle"]
  /\ reply = [r \in Requests |-> "none"]
  /\ num = [r \in Requests |-> 0]
  /\ list = [r \in Requests |-> <<>>]

Goto(r, stage) == pc' = [pc EXCEPT ![r] = stage]

Finish(r, w) == Goto(r, "done") /\ reply' = [reply EXCEPT ![r] = w]

-----------------------------------------------------------------------------
(***************************************************************************)
(* Clients.  A complete names parts by number, each with the ETag of some  *)
(* part upload that was acknowledged or with none.                         *)
(***************************************************************************)

ETags ==
  {Nil} \cup {r \in Requests : num[r] # 0 /\ pc[r] = "done" /\ reply[r] = "ok"}

PartLists ==
  UNION {[1..k -> [number : Numbers, etag : ETags]] : k \in 0..MaxListed}

Arrive(r) ==
  /\ pc[r] = "idle"
  /\ \/ /\ Goto(r, "lookupPart")
        /\ \E n \in Numbers : num' = [num EXCEPT ![r] = n]
        /\ UNCHANGED list
     \/ /\ Goto(r, "lookupComplete")
        /\ \E l \in PartLists : list' = [list EXCEPT ![r] = l]
        /\ UNCHANGED num
     \/ Goto(r, "lookupAbort") /\ UNCHANGED ask
  /\ UNCHANGED <<upload, reply>>

\* lookupUpload, and then the body: a complete with no parts or with parts out
\* of order ends here.
Lookup(r, from, to) ==
  /\ pc[r] = from
  /\ IF listed THEN Goto(r, to) /\ UNCHANGED reply
               ELSE Finish(r, "nosuchupload")
  /\ UNCHANGED <<upload, ask>>

\* sort.SliceIsSorted: no part number is smaller than the one before it.
Sorted(l) ==
  \A i \in 1..(Len(l) - 1) : ~(l[i + 1].number < l[i].number)

LookupPart(r) == Lookup(r, "lookupPart", "stage")

LookupAbort(r) == Lookup(r, "lookupAbort", "abort")

LookupComplete(r) ==
  IF list[r] # <<>> /\ Sorted(list[r])
  THEN Lookup(r, "lookupComplete", "check")
  ELSE /\ pc[r] = "lookupComplete"
       /\ Finish(r, IF listed THEN "badorder" ELSE "nosuchupload")
       /\ UNCHANGED <<upload, ask>>

\* A part number outside 1..10000, or a complete that is not XML.
Malformed(r) ==
  /\ pc[r] \in {"lookupPart", "lookupComplete"}
  /\ listed
  /\ Finish(r, "invalid")
  /\ UNCHANGED <<upload, ask>>

-----------------------------------------------------------------------------
(***************************************************************************)
(* uploadPart.                                                             *)
(***************************************************************************)

\* The body streams into a temp file of its own, without any lock.
Stage(r) ==
  /\ pc[r] = "stage"
  /\ staged' = staged \cup {r}
  /\ Goto(r, "publish")
  /\ UNCHANGED <<listed, done, mu, parts, commits, reply, ask>>

\* No temp file, or the body breaks off and the file is removed again.
StageFails(r) ==
  /\ pc[r] = "stage"
  /\ Finish(r, "error")
  /\ UNCHANGED <<upload, ask>>

\* Faulty variant: the part that is replaced keeps its file.
PublishKeepsOld(r) ==
  /\ pc[r] = "publish"
  /\ mu = Nil
  /\ ~done
  /\ parts' = [parts EXCEPT ![num[r]] = r]
  /\ Finish(r, "ok")
  /\ UNCHANGED <<listed, done, mu, staged, commits, ask>>

\* Under up.mu: the part replaces the one with its number, whose file goes.
Publish(r) ==
  /\ pc[r] = "publish"
  /\ mu = Nil
  /\ IF done
     THEN /\ Goto(r, "discard")
          /\ reply' = [reply EXCEPT ![r] = "nosuchupload"]
          /\ UNCHANGED <<parts, staged>>
     ELSE /\ parts' = [parts EXCEPT ![num[r]] = r]
          /\ staged' = staged \ {parts[num[r]]}
          /\ Finish(r, "ok")
  /\ UNCHANGED <<listed, done, mu, commits, ask>>

\* The upload was over: the staged file is removed after the unlock.
Discard(r) ==
  /\ pc[r] = "discard"
  /\ staged' = staged \ {r}
  /\ Goto(r, "done")
  /\ UNCHANGED <<listed, done, mu, parts, commits, reply, ask>>

-----------------------------------------------------------------------------
(***************************************************************************)
(* completeMultipartUpload, which holds up.mu from the check to the end.   *)
(***************************************************************************)

PartMatches(item) ==
  /\ parts[item.number] # Nil
  /\ item.etag \in {Nil, parts[item.number]}

\* Faulty variant: up.mu is released after the parts were checked.
CheckUnlocks(r) ==
  /\ pc[r] = "check"
  /\ mu = Nil
  /\ ~done
  /\ \A i \in 1..Len(list[r]) : PartMatches(list[r][i])
  /\ Goto(r, "commit")
  /\ UNCHANGED <<upload, reply, ask>>

Check(r) ==
  /\ pc[r] = "check"
  /\ mu = Nil
  /\ IF ~done /\ \A i \in 1..Len(list[r]) : PartMatches(list[r][i])
     THEN Goto(r, "commit") /\ mu' = r /\ UNCHANGED reply
     ELSE Finish(r, IF done THEN "nosuchupload" ELSE "badpart") /\ UNCHANGED mu
  /\ UNCHANGED <<listed, done, parts, staged, commits, ask>>

RemoveParts ==
  /\ staged' = staged \ {parts[n] : n \in Numbers}
  /\ parts' = NoParts

\* Faulty variant: a part is found by the ETag the client gave, which may be
\* none.
ConcatenationByETag(r) == [i \in 1..Len(list[r]) |-> list[r][i].etag]

\* The listed parts, in the order of the list, through one BlobWriter.
Concatenation(r) == [i \in 1..Len(list[r]) |-> parts[list[r][i].number]]

Readable(r) == \A i \in 1..Len(list[r]) : parts[list[r][i].number] \in staged

\* Faulty variant: the upload is left open for the next complete.
CommitLeavesOpen(r) ==
  /\ pc[r] = "commit"
  /\ Readable(r)
  /\ commits' = Append(commits, Concatenation(r))
  /\ reply' = [reply EXCEPT ![r] = "ok"]
  /\ mu' = Nil
  /\ Goto(r, "delist")
  /\ UNCHANGED <<listed, done, parts, staged, ask>>

\* Commit succeeds: the upload is done and its parts are removed.
Commit(r) ==
  /\ pc[r] = "commit"
  /\ Readable(r)
  /\ commits' = Append(commits, Concatenation(r))
  /\ reply' = [reply EXCEPT ![r] = "ok"]
  /\ done' = TRUE
  /\ RemoveParts
  /\ Goto(r, "delist")
  /\ UNCHANGED <<listed, mu, ask>>

\* Faulty variant: the parts are removed although nothing was committed.
CommitFailsDropsParts(r) ==
  /\ pc[r] = "commit"
  /\ mu' = Nil
  /\ RemoveParts
  /\ Finish(r, "error")
  /\ UNCHANGED <<listed, done, commits, ask>>

\* NewBlobWriter, a read or Commit fails: the upload stays as it was.
CommitFails(r) ==
  /\ pc[r] = "commit"
  /\ mu' = Nil
  /\ Finish(r, "error")
  /\ UNCHANGED <<listed, done, parts, staged, commits, ask>>

\* Faulty variant: the answer is sent while up.mu stays locked.
DelistKeepsLock(r) ==
  /\ pc[r] = "delist"
  /\ listed' = FALSE
  /\ Finish(r, "ok")
  /\ UNCHANGED <<done, mu, parts, staged, commits, ask>>

\* delete(s.uploads, id); a complete gives up up.mu only now.
Delist(r) ==
  /\ pc[r] = "delist"
  /\ listed' = FALSE
  /\ mu' = IF mu = r THEN Nil ELSE mu
  /\ Finish(r, "ok")
  /\ UNCHANGED <<done, parts, staged, commits, ask>>

\* abortMultipartUpload: done and cleaned up under up.mu, delisted after it.
Abort(r) ==
  /\ pc[r] = "abort"
  /\ mu = Nil
  /\ done' = TRUE
  /\ RemoveParts
  /\ Goto(r, "delist")
  /\ UNCHANGED <<listed, mu, commits, reply, ask>>

-----------------------------------------------------------------------------

Locking(r) == Publish(r) \/ Check(r) \/ Abort(r)

\* Steps that wait for the client's body to end.
BodyEnds(r) ==
  LookupComplete(r) \/ Malformed(r) \/ Stage(r) \/ StageFails(r)

Step(r) ==
  \/ LookupPart(r) \/ LookupAbort(r)
  \/ Discard(r) \/ Commit(r) \/ CommitFails(r) \/ Delist(r)
  \/ Locking(r)

Next == \E r \in Requests : Arrive(r) \/ BodyEnds(r) \/ Step(r)

Spec == Init /\ [][Next]_vars

\* A goroutine that can run does, and a starved waiter gets up.mu.  A client
\* may never end its body.
FairSpec ==
  /\ Spec
  /\ \A r \in Requests : WF_vars(Step(r)) /\ SF_vars(Locking(r))

-----------------------------------------------------------------------------
(***************************************************************************)
(* Properties.                                                             *)
(***************************************************************************)

Item == [number : Numbers, etag : Requests \cup {Nil}]

\* Every variable has its type.
TypeOK ==
  /\ {listed, done} \subseteq BOOLEAN
  /\ mu \in Requests \cup {Nil}
  /\ parts \in [Numbers -> Requests \cup {Nil}]
  /\ staged \subseteq Requests
  /\ commits \in Seq(Seq(Requests))
  /\ pc \in [Requests -> Stages]
  /\ reply \in [Requests -> Replies]
  /\ num \in [Requests -> Numbers \cup {0}]
  /\ list \in [Requests -> Seq(Item)]

\* While the upload is open, an acknowledged part can be completed with: its
\* number is in up.parts, and the file up.parts names has not been removed,
\* however many uploads of that number overlapped and whatever completes
\* failed.
AckedPartsUsable ==
  \A r \in Requests :
    ~done /\ num[r] # 0 /\ pc[r] = "done" /\ reply[r] = "ok"
      => parts[num[r]] \in staged

\* Once the upload is over and its requests are answered, every staged file is
\* gone, also those of parts that arrived too late.
NoStagedFileLeft ==
  done /\ (\A r \in Requests : pc[r] \in {"idle", "done"}) => staged = {}

\* An upload is committed at most once, whatever completes overlap, and never
\* after it was aborted.
DoneIsFinal ==
  /\ [][done => UNCHANGED commits]_vars
  /\ [](Len(commits) <= 1)

MadeOf(object, l) ==
  /\ Len(object) = Len(l)
  /\ \A i \in 1..Len(l) : /\ num[object[i]] = l[i].number
                          /\ reply[object[i]] = "ok"
                          /\ l[i].etag \in {Nil, object[i]}

\* The object is made of an acknowledged part for each part the client listed,
\* in that order and of that number, and of nothing else; where the client gave
\* an ETag, of that very part, even if the part is uploaded again meanwhile.
CompleteHonoursETags ==
  \A r \in Requests :
    pc[r] = "delist" /\ list[r] # <<>>
      => commits # <<>> /\ MadeOf(commits[Len(commits)], list[r])

\* Every request whose body has arrived is answered: no path of complete or
\* abort keeps up.mu.
RequestsAnswered ==
  \A r \in Requests :
    pc[r] \in {"publish", "check", "abort"} ~> pc[r] = "done"

(***************************************************************************)
(* Why they hold.  What a request asked for and what it was answered fit   *)
(* the stage it is in; up.mu is held exactly by the complete between its   *)
(* check and its delisting; the parts that complete has checked are still  *)
(* the ones in up.parts.                                                   *)
(***************************************************************************)
AskInv ==
  \A r \in Requests :
    /\ num[r] # 0
         => pc[r] \in {"lookupPart", "stage", "publish", "discard", "done"}
    /\ pc[r] \in {"lookupPart", "stage", "publish", "discard"} => num[r] # 0
    /\ list[r] # <<>>
         => pc[r] \in {"lookupComplete", "check", "commit", "delist", "done"}
    /\ pc[r] \in {"check", "commit"} => list[r] # <<>>
    /\ reply[r] # "none" => pc[r] \in {"discard", "delist", "done"}

LockInv ==
  \A r \in Requests :
    /\ mu = r <=> pc[r] \in {"commit", "delist"} /\ list[r] # <<>>
    /\ pc[r] = "commit" =>
         \A i \in 1..Len(list[r]) : PartMatches(list[r][i])

\* What up.done says: no commit before it, no part after it, and nobody is
\* about to commit.
DoneInv ==
  /\ Len(commits) <= 1
  /\ ~done => commits = <<>>
  /\ done => parts = NoParts
  /\ \A r \in Requests : /\ pc[r] = "commit" => ~done
                         /\ pc[r] \in {"delist", "discard"} => done

\* A part in up.parts is acknowledged and on disk.
PartsInv ==
  \A n \in Numbers :
    parts[n] # Nil =>
      /\ parts[n] \in staged
      /\ num[parts[n]] = n
      /\ pc[parts[n]] = "done" /\ reply[parts[n]] = "ok"

\* So is the file of a part upload that has still to publish or discard it,
\* and there are no other files.
FilesInv ==
  /\ \A r \in Requests : pc[r] \in {"publish", "discard"} => r \in staged
  /\ \A r \in staged : \/ pc[r] \in {"publish", "discard"}
                       \/ num[r] # 0 /\ parts[num[r]] = r

\* The inductive invariant.
IndInv ==
  /\ TypeOK
  /\ AskInv
  /\ LockInv
  /\ DoneInv
  /\ PartsInv
  /\ FilesInv
  /\ AckedPartsUsable
  /\ CompleteHonoursETags

=============================================================================
