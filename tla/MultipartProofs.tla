--------------------------- MODULE MultipartProofs ---------------------------
(***************************************************************************)
(* Proofs about Multipart, for any number of part uploads, completes and   *)
(* aborts of one upload, of any part numbers.                              *)
(***************************************************************************)
EXTENDS Multipart, SequenceTheorems, TLAPS

USE MultipartAssumption

\* The body of a complete names parts by number.
LEMMA PartListsAreItems == PartLists \subseteq Seq(Item)
<1> SUFFICES ASSUME NEW k \in 0..MaxListed,
                    NEW l \in [1..k -> [number : Numbers, etag : ETags]]
             PROVE  l \in Seq(Item)
  BY DEF PartLists
<1>1. k \in Nat
  BY DEF MultipartAssumption
<1>2. ETags \subseteq Requests \cup {Nil}
  BY DEF ETags
<1>3. l \in [1..k -> Item]
  BY <1>2 DEF Item
<1> QED
  BY <1>1, <1>3, SeqDef

\* What was committed stays made of the parts that were listed, as long as no
\* acknowledgement is taken back.
LEMMA HonoursKept ==
  ASSUME TypeOK, CompleteHonoursETags, UNCHANGED commits,
         \A q \in Requests : reply[q] = "ok" => reply'[q] = "ok" /\ num'[q] = num[q],
         \A q \in Requests : pc'[q] = "delist" /\ list'[q] # <<>>
                              => pc[q] = "delist" /\ list'[q] = list[q]
  PROVE  CompleteHonoursETags'
<1> SUFFICES ASSUME NEW q \in Requests, pc[q] = "delist", list[q] # <<>>,
                    list'[q] = list[q]
             PROVE  commits # <<>> /\ MadeOf(commits[Len(commits)], list[q])'
  BY DEF CompleteHonoursETags
<1> DEFINE object == commits[Len(commits)]
<1>1. commits # <<>> /\ MadeOf(object, list[q])
  BY DEF CompleteHonoursETags
<1>2. object \in Seq(Requests) /\ Len(list[q]) \in Nat
  <2>1. commits \in Seq(Seq(Requests)) /\ list[q] \in Seq(Item)
    BY DEF TypeOK
  <2>2. Len(commits) \in 1..Len(commits)
    BY <1>1, <2>1, EmptySeq, LenProperties
  <2> QED
    BY <2>1, <2>2, ElementOfSeq, LenProperties
<1> HIDE DEF object
<1>3. \A i \in 1..Len(list[q]) : object[i] \in Requests
  BY <1>1, <1>2, ElementOfSeq DEF MadeOf
<1>4. MadeOf(object, list[q])'
  <2>1. object' = object
    BY DEF object
  <2> QED
    BY <1>1, <1>3, <2>1 DEF MadeOf
<1> QED
  BY <1>1, <1>4 DEF object

-----------------------------------------------------------------------------
(***************************************************************************)
(* Steps that leave the upload alone.                                      *)
(***************************************************************************)

\* Of all the requests, only r moves.
Alone(r) ==
  \A q \in Requests \ {r} : /\ pc'[q] = pc[q] /\ reply'[q] = reply[q]
                            /\ num'[q] = num[q] /\ list'[q] = list[q]

\* A request on its way to its file or to up.mu, or refused on that way, has
\* no part in the upload yet.
LEMMA QuietInvariant ==
  ASSUME IndInv, NEW r \in Requests, Alone(r), UNCHANGED upload,
         TypeOK', AskInv',
         pc[r] \in {"idle", "lookupPart", "lookupComplete", "lookupAbort",
                    "stage", "check"},
         pc'[r] \in {"lookupPart", "lookupComplete", "lookupAbort", "stage",
                     "check", "abort", "done"},
         pc'[r] = "done" => reply'[r] # "ok"
  PROVE  IndInv'
<1> USE DEF IndInv, Alone, upload
<1>1. LockInv'
  <2>1. \A q \in Requests :
          mu = q <=> pc'[q] \in {"commit", "delist"} /\ list'[q] # <<>>
    BY DEF LockInv
  <2>2. ASSUME NEW q \in Requests, pc'[q] = "commit",
               NEW i \in 1..Len(list'[q])
        PROVE  PartMatches(list[q][i])'
    <3>1. q # r /\ pc[q] = "commit" /\ list'[q] = list[q]
      BY <2>2
    <3> QED
      BY <2>2, <3>1 DEF LockInv, PartMatches
  <2> QED
    BY <2>1, <2>2 DEF LockInv
<1>2. DoneInv'
  BY DEF DoneInv, TypeOK
<1>3. PartsInv'
  BY DEF PartsInv, TypeOK
<1>4. FilesInv'
  <2>1. r \notin staged
    <3>1. num[r] # 0 => num[r] \in Numbers
      BY DEF TypeOK
    <3>2. \A n \in Numbers : parts[n] # Nil => pc[parts[n]] = "done"
      BY DEF PartsInv
    <3> QED
      BY <3>1, <3>2 DEF FilesInv, MultipartAssumption
  <2>2. pc'[r] \notin {"publish", "discard"}
    OBVIOUS
  <2> QED
    BY <2>1, <2>2 DEF FilesInv, TypeOK
<1>5. AckedPartsUsable'
  BY DEF AckedPartsUsable, TypeOK
<1>6. CompleteHonoursETags'
  BY HonoursKept DEF AskInv, TypeOK
<1> QED
  BY <1>1, <1>2, <1>3, <1>4, <1>5, <1>6

\* A request arrives.
LEMMA ArriveInvariant ==
  ASSUME IndInv, NEW r \in Requests, Arrive(r)
  PROVE  IndInv'
<1> USE DEF IndInv, Arrive, Goto, ask, upload
<1>1. TypeOK'
  <2>1. list' \in [Requests -> Seq(Item)]
    BY PartListsAreItems DEF TypeOK
  <2>2. PICK s \in {"lookupPart", "lookupComplete", "lookupAbort"} :
          pc' = [pc EXCEPT ![r] = s]
    OBVIOUS
  <2>3. num' \in [Requests -> Numbers \cup {0}]
    BY DEF TypeOK
  <2>4. UNCHANGED <<upload, reply>>
    OBVIOUS
  <2> HIDE DEF Arrive
  <2> QED
    BY <2>1, <2>2, <2>3, <2>4 DEF TypeOK, Stages
<1>2. AskInv'
  <2>1. num[r] = 0 /\ list[r] = <<>> /\ reply'[r] = "none"
    BY DEF AskInv
  <2>2. \/ pc'[r] = "lookupPart" /\ num'[r] # 0 /\ list'[r] = <<>>
        \/ pc'[r] = "lookupComplete" /\ num'[r] = 0
        \/ pc'[r] = "lookupAbort" /\ num'[r] = 0 /\ list'[r] = <<>>
    BY <2>1 DEF TypeOK, MultipartAssumption
  <2>3. \A q \in Requests \ {r} : /\ pc'[q] = pc[q] /\ reply'[q] = reply[q]
                                 /\ num'[q] = num[q] /\ list'[q] = list[q]
    BY DEF TypeOK
  <2> HIDE DEF Arrive
  <2> QED
    BY <2>1, <2>2, <2>3 DEF AskInv
<1>3. Alone(r)
  BY DEF Alone, TypeOK
<1>4. pc'[r] \in {"lookupPart", "lookupComplete", "lookupAbort"}
  BY DEF TypeOK
<1> QED
  BY <1>1, <1>2, <1>3, <1>4, QuietInvariant

\* A request looks its upload up.
LEMMA LookupInvariant ==
  ASSUME IndInv, NEW r \in Requests,
         LookupPart(r) \/ LookupAbort(r) \/ LookupComplete(r) \/ Malformed(r)
  PROVE  IndInv'
<1> USE DEF IndInv, LookupPart, LookupAbort, LookupComplete, Lookup, Malformed,
            Finish, Goto, ask, upload
<1>1. PICK s \in {"stage", "check", "abort", "done"} :
        /\ pc' = [pc EXCEPT ![r] = s]
        /\ s = "stage" => pc[r] = "lookupPart"
        /\ s = "check" => pc[r] = "lookupComplete" /\ list[r] # <<>>
        /\ s = "abort" => pc[r] = "lookupAbort"
        /\ s # "done" => reply' = reply
  OBVIOUS
<1>2. PICK w \in {"none", "nosuchupload", "badorder", "invalid"} :
        reply' = [reply EXCEPT ![r] = w] /\ (s # "done" => w = "none")
  <2>1. reply[r] = "none" /\ reply = [reply EXCEPT ![r] = "none"]
    BY DEF AskInv, TypeOK
  <2> QED
    BY <1>1, <2>1
<1>3. /\ UNCHANGED <<upload, ask>>
      /\ pc[r] \in {"lookupPart", "lookupComplete", "lookupAbort"}
  OBVIOUS
<1> HIDE DEF LookupPart, LookupAbort, LookupComplete, Malformed
<1>4. TypeOK'
  BY <1>1, <1>2, <1>3 DEF TypeOK, Stages, Replies
<1>5. AskInv'
  BY <1>1, <1>2, <1>3 DEF AskInv, TypeOK
<1>6. Alone(r) /\ pc'[r] = s /\ reply'[r] = w
  BY <1>1, <1>2, <1>3 DEF Alone, TypeOK
<1> QED
  BY <1>3, <1>4, <1>5, <1>6, QuietInvariant

\* A part upload fails before its file is complete.
LEMMA StageFailsInvariant ==
  ASSUME IndInv, NEW r \in Requests, StageFails(r)
  PROVE  IndInv'
<1> USE DEF IndInv, StageFails, Finish, Goto, ask, upload
<1>1. TypeOK'
  BY DEF TypeOK, Stages, Replies
<1>2. AskInv'
  BY DEF AskInv, TypeOK
<1>3. Alone(r)
  BY DEF Alone, TypeOK
<1>4. pc[r] = "stage" /\ pc'[r] = "done" /\ reply'[r] # "ok"
  BY DEF TypeOK
<1> QED
  BY <1>1, <1>2, <1>3, <1>4, QuietInvariant

-----------------------------------------------------------------------------
(***************************************************************************)
(* Part uploads.                                                           *)
(***************************************************************************)

\* A part upload has written its temp file.
LEMMA StageInvariant ==
  ASSUME IndInv, NEW r \in Requests, Stage(r)
  PROVE  IndInv'
<1> USE DEF IndInv, Stage, Goto, ask
<1>1. TypeOK'
  BY DEF TypeOK, Stages
<1>2. AskInv'
  BY DEF AskInv, TypeOK
<1>3. LockInv'
  <2>1. ASSUME NEW q \in Requests, pc'[q] = "commit",
               NEW i \in 1..Len(list[q])
        PROVE  PartMatches(list[q][i])'
    BY <2>1 DEF LockInv, PartMatches, TypeOK
  <2> QED
    BY <2>1 DEF LockInv, TypeOK
<1>4. DoneInv'
  BY DEF DoneInv, TypeOK
<1>5. PartsInv'
  BY DEF PartsInv, TypeOK
<1>6. FilesInv'
  BY DEF FilesInv, TypeOK
<1>7. AckedPartsUsable'
  BY DEF AckedPartsUsable, TypeOK
<1>8. CompleteHonoursETags'
  BY HonoursKept DEF AskInv, TypeOK
<1> QED
  BY <1>1, <1>2, <1>3, <1>4, <1>5, <1>6, <1>7, <1>8

\* A part upload publishes its file and removes the one it replaces: nobody
\* else has published under this number since.
LEMMA PublishInvariant ==
  ASSUME IndInv, NEW r \in Requests, Publish(r), ~done
  PROVE  IndInv'
<1> USE DEF IndInv, Publish, Finish, Goto, ask
<1> DEFINE n == num[r]
<1>1. n \in Numbers /\ n # 0 /\ r \in staged /\ r # Nil /\ mu = Nil
  BY DEF AskInv, FilesInv, TypeOK, MultipartAssumption
<1>2. parts[n] # r
  BY <1>1 DEF PartsInv
<1>3. /\ parts' = [parts EXCEPT ![n] = r]
      /\ staged' = staged \ {parts[n]}
      /\ pc' = [pc EXCEPT ![r] = "done"]
      /\ reply' = [reply EXCEPT ![r] = "ok"]
      /\ UNCHANGED <<listed, done, mu, commits, num, list>>
  OBVIOUS
<1>4. \A q \in Requests : pc[q] # "commit" /\ pc[q] \notin {"delist", "discard"}
  BY <1>1 DEF LockInv, AskInv, DoneInv, MultipartAssumption
<1>5. TypeOK'
  BY <1>1, <1>3 DEF TypeOK, Stages, Replies
<1>6. AskInv'
  BY <1>1, <1>3 DEF AskInv, TypeOK
<1>7. LockInv'
  BY <1>1, <1>3, <1>4 DEF LockInv, TypeOK, MultipartAssumption
<1>8. DoneInv'
  BY <1>3, <1>4 DEF DoneInv, TypeOK
<1>9. \A m \in Numbers : m # n /\ parts[m] # Nil => parts[m] # parts[n]
  <2>1. \A m \in Numbers : parts[m] # Nil => num[parts[m]] = m
    BY DEF PartsInv
  <2> QED
    BY <1>1, <2>1
<1>10. PartsInv'
  BY <1>1, <1>2, <1>3, <1>9 DEF PartsInv, TypeOK
<1>11. FilesInv'
  <2>1. ASSUME NEW q \in Requests, pc'[q] \in {"publish", "discard"}
        PROVE  q \in staged'
    <3>1. q # r /\ pc[q] \in {"publish", "discard"} /\ q # Nil
      BY <1>3, <2>1 DEF TypeOK, MultipartAssumption
    <3>2. q # parts[n]
      BY <1>1, <3>1 DEF PartsInv
    <3> QED
      BY <1>3, <3>1, <3>2 DEF FilesInv
  <2>2. ASSUME NEW q \in staged'
        PROVE  \/ pc'[q] \in {"publish", "discard"}
               \/ num'[q] # 0 /\ parts'[num'[q]] = q
    <3>1. CASE q = r
      BY <1>1, <1>3, <3>1 DEF TypeOK
    <3>2. CASE q # r /\ pc[q] \in {"publish", "discard"}
      BY <1>3, <3>2 DEF TypeOK
    <3>3. CASE q # r /\ num[q] # 0 /\ parts[num[q]] = q
      <4>1. num[q] # n
        BY <1>3, <2>2, <3>3
      <4>2. q \in Requests
        BY <1>3, <2>2 DEF TypeOK
      <4> QED
        BY <1>3, <3>3, <4>1, <4>2 DEF TypeOK
    <3> QED
      BY <1>3, <2>2, <3>1, <3>2, <3>3 DEF FilesInv
  <2> QED
    BY <2>1, <2>2 DEF FilesInv
<1>12. AckedPartsUsable'
  <2> SUFFICES ASSUME NEW q \in Requests, num[q] # 0, pc'[q] = "done",
                      reply'[q] = "ok"
               PROVE  parts'[num[q]] \in staged'
    BY <1>3 DEF AckedPartsUsable
  <2>1. CASE num[q] = n
    BY <1>1, <1>2, <1>3, <2>1 DEF TypeOK
  <2>2. CASE num[q] # n
    <3>1. q # r /\ num[q] \in Numbers
      BY <2>2 DEF TypeOK
    <3>2. parts[num[q]] \in staged /\ parts'[num[q]] = parts[num[q]]
      BY <1>3, <2>2, <3>1 DEF AckedPartsUsable, TypeOK
    <3>3. parts[num[q]] # Nil
      BY <3>2 DEF TypeOK, MultipartAssumption
    <3> QED
      BY <1>3, <1>9, <2>2, <3>1, <3>2, <3>3
  <2> QED
    BY <2>1, <2>2
<1>13. CompleteHonoursETags'
  BY <1>3, <1>4, HonoursKept DEF AskInv, TypeOK
<1> QED
  BY <1>5, <1>6, <1>7, <1>8, <1>10, <1>11, <1>12, <1>13

\* A part that comes after the end of the upload is not published.
LEMMA TooLateInvariant ==
  ASSUME IndInv, NEW r \in Requests, Publish(r), done
  PROVE  IndInv'
<1> USE DEF IndInv, Publish, Goto, ask
<1>1. TypeOK'
  BY DEF TypeOK, Stages, Replies
<1>2. AskInv'
  BY DEF AskInv, TypeOK
<1>3. LockInv'
  BY DEF LockInv, AskInv, DoneInv, TypeOK, MultipartAssumption
<1>4. DoneInv'
  BY DEF DoneInv, TypeOK
<1>5. PartsInv'
  BY DEF PartsInv, DoneInv, NoParts
<1>6. FilesInv'
  BY DEF FilesInv, TypeOK
<1>7. AckedPartsUsable'
  BY DEF AckedPartsUsable
<1>8. CompleteHonoursETags'
  BY HonoursKept DEF AskInv, TypeOK
<1> QED
  BY <1>1, <1>2, <1>3, <1>4, <1>5, <1>6, <1>7, <1>8

\* Its file is removed.
LEMMA DiscardInvariant ==
  ASSUME IndInv, NEW r \in Requests, Discard(r)
  PROVE  IndInv'
<1> USE DEF IndInv, Discard, Goto, ask
<1>1. done /\ parts = NoParts
  BY DEF DoneInv
<1>2. TypeOK'
  BY DEF TypeOK, Stages
<1>3. AskInv'
  BY DEF AskInv, TypeOK
<1>4. LockInv'
  BY <1>1 DEF LockInv, DoneInv, TypeOK
<1>5. DoneInv'
  BY DEF DoneInv, TypeOK
<1>6. PartsInv'
  BY <1>1 DEF PartsInv, NoParts
<1>7. FilesInv'
  BY <1>1 DEF FilesInv, TypeOK, NoParts, MultipartAssumption
<1>8. AckedPartsUsable'
  BY <1>1 DEF AckedPartsUsable
<1>9. CompleteHonoursETags'
  BY HonoursKept DEF AskInv, TypeOK
<1> QED
  BY <1>2, <1>3, <1>4, <1>5, <1>6, <1>7, <1>8, <1>9

-----------------------------------------------------------------------------
(***************************************************************************)
(* Completes and aborts.                                                   *)
(***************************************************************************)

\* A complete that is refused at its check.
LEMMA CheckRefusedInvariant ==
  ASSUME IndInv, NEW r \in Requests, Check(r), mu' = mu
  PROVE  IndInv'
<1> USE DEF IndInv, Check, Finish, Goto, ask, upload
<1>1. mu = Nil /\ r # Nil
  BY DEF MultipartAssumption
<1>2. /\ pc' = [pc EXCEPT ![r] = "done"]
      /\ reply' \in {[reply EXCEPT ![r] = "nosuchupload"],
                     [reply EXCEPT ![r] = "badpart"]}
      /\ UNCHANGED <<upload, ask>>
  BY <1>1
<1>3. TypeOK'
  BY <1>2 DEF TypeOK, Stages, Replies
<1>4. AskInv'
  BY <1>2 DEF AskInv, TypeOK
<1>5. Alone(r) /\ pc'[r] = "done" /\ reply'[r] # "ok"
  BY <1>2 DEF Alone, TypeOK
<1> QED
  BY <1>2, <1>3, <1>4, <1>5, QuietInvariant

\* A complete that has found its parts keeps up.mu: they stay as they are
\* until it has committed.
LEMMA CheckInvariant ==
  ASSUME IndInv, NEW r \in Requests, Check(r), mu' # mu
  PROVE  IndInv'
<1> USE DEF IndInv, Check, Goto, ask
<1>1. /\ mu = Nil /\ mu' = r /\ ~done
      /\ \A i \in 1..Len(list[r]) : PartMatches(list[r][i])
      /\ pc' = [pc EXCEPT ![r] = "commit"]
      /\ UNCHANGED <<listed, done, parts, staged, commits, reply, num, list>>
  OBVIOUS
<1>2. TypeOK'
  BY <1>1 DEF TypeOK, Stages
<1>3. AskInv'
  BY <1>1 DEF AskInv, TypeOK
<1>4. LockInv'
  <2>1. \A q \in Requests : ~(pc[q] \in {"commit", "delist"} /\ list[q] # <<>>)
    BY <1>1 DEF LockInv, MultipartAssumption
  <2>2. \A q \in Requests :
          mu' = q <=> pc'[q] \in {"commit", "delist"} /\ list'[q] # <<>>
    BY <1>1, <2>1 DEF TypeOK, AskInv
  <2>3. \A q \in Requests : pc'[q] = "commit" => q = r
    BY <1>1, <2>1 DEF TypeOK, AskInv
  <2>4. \A i \in 1..Len(list'[r]) : PartMatches(list[r][i])'
    BY <1>1 DEF PartMatches
  <2> QED
    BY <2>2, <2>3, <2>4 DEF LockInv
<1>5. DoneInv'
  BY <1>1 DEF DoneInv, TypeOK
<1>6. PartsInv'
  BY <1>1 DEF PartsInv, TypeOK
<1>7. FilesInv'
  BY <1>1 DEF FilesInv, TypeOK
<1>8. AckedPartsUsable'
  BY <1>1 DEF AckedPartsUsable, TypeOK
<1>9. CompleteHonoursETags'
  BY <1>1, HonoursKept DEF AskInv, TypeOK
<1> QED
  BY <1>2, <1>3, <1>4, <1>5, <1>6, <1>7, <1>8, <1>9

\* A complete that fails gives up.mu back and leaves the parts.
LEMMA CommitFailsInvariant ==
  ASSUME IndInv, NEW r \in Requests, CommitFails(r)
  PROVE  IndInv'
<1> USE DEF IndInv, CommitFails, Finish, Goto, ask
<1>1. mu = r /\ r # Nil
  BY DEF LockInv, AskInv, MultipartAssumption
<1>2. TypeOK'
  BY DEF TypeOK, Stages, Replies
<1>3. AskInv'
  BY DEF AskInv, TypeOK
<1>4. LockInv'
  <2>1. \A q \in Requests \ {r} :
          ~(pc[q] \in {"commit", "delist"} /\ list[q] # <<>>)
    BY <1>1 DEF LockInv
  <2> QED
    BY <2>1 DEF LockInv, AskInv, TypeOK, MultipartAssumption
<1>5. DoneInv'
  BY DEF DoneInv, TypeOK
<1>6. PartsInv'
  BY DEF PartsInv, TypeOK
<1>7. FilesInv'
  BY DEF FilesInv, TypeOK
<1>8. AckedPartsUsable'
  BY DEF AckedPartsUsable, TypeOK
<1>9. CompleteHonoursETags'
  BY HonoursKept DEF AskInv, TypeOK
<1> QED
  BY <1>2, <1>3, <1>4, <1>5, <1>6, <1>7, <1>8, <1>9

\* What ends the upload: its parts go, the files of the part uploads that are
\* still running stay theirs.
LEMMA RemovePartsInvariant ==
  ASSUME IndInv, NEW r \in Requests, RemoveParts, TypeOK', UNCHANGED num,
         pc[r] \in {"commit", "abort"}, pc' = [pc EXCEPT ![r] = "delist"]
  PROVE  PartsInv' /\ FilesInv'
<1> USE DEF IndInv, RemoveParts
<1>1. PartsInv'
  BY DEF PartsInv, NoParts
<1>2. ASSUME NEW q \in Requests, pc'[q] \in {"publish", "discard"}
      PROVE  q \in staged'
  <2>1. pc[q] \in {"publish", "discard"} /\ q # Nil
    BY <1>2 DEF TypeOK, MultipartAssumption
  <2>2. \A n \in Numbers : parts[n] # q
    BY <2>1 DEF PartsInv
  <2> QED
    BY <2>1, <2>2 DEF FilesInv
<1>3. ASSUME NEW q \in staged'
      PROVE  pc'[q] \in {"publish", "discard"}
  <2>1. q \in staged /\ q \in Requests /\ \A n \in Numbers : parts[n] # q
    BY <1>3 DEF TypeOK
  <2>2. pc[q] \in {"publish", "discard"}
    BY <2>1 DEF FilesInv, TypeOK
  <2> QED
    BY <2>1, <2>2 DEF TypeOK
<1> QED
  BY <1>1, <1>2, <1>3 DEF FilesInv

\* An abort ends the upload.
LEMMA AbortInvariant ==
  ASSUME IndInv, NEW r \in Requests, Abort(r)
  PROVE  IndInv'
<1> USE DEF IndInv, Abort, Goto, ask
<1>1. list[r] = <<>> /\ mu = Nil /\ \A q \in Requests : pc[q] # "commit"
  BY DEF AskInv, LockInv, MultipartAssumption
<1>2. TypeOK'
  BY DEF TypeOK, Stages, RemoveParts, NoParts
<1>3. AskInv'
  BY <1>1 DEF AskInv, TypeOK
<1>4. LockInv'
  BY <1>1 DEF LockInv, TypeOK
<1>5. DoneInv'
  BY <1>1 DEF DoneInv, TypeOK, RemoveParts
<1>6. PartsInv' /\ FilesInv'
  BY <1>2, RemovePartsInvariant
<1>7. AckedPartsUsable'
  BY DEF AckedPartsUsable
<1>8. CompleteHonoursETags'
  BY <1>1, HonoursKept DEF AskInv, TypeOK
<1> QED
  BY <1>2, <1>3, <1>4, <1>5, <1>6, <1>7, <1>8

\* A complete commits the parts it has checked and ends the upload.
LEMMA CommitInvariant ==
  ASSUME IndInv, NEW r \in Requests, Commit(r)
  PROVE  IndInv'
<1> USE DEF IndInv, Commit, Goto, ask
<1>1. mu = r /\ ~done /\ commits = <<>> /\ list[r] # <<>>
  BY DEF LockInv, AskInv, DoneInv
<1>2. \A i \in 1..Len(list[r]) : PartMatches(list[r][i])
  BY DEF LockInv
<1>3. Concatenation(r) \in Seq(Requests)
  <2>1. list[r] \in Seq(Item)
    BY DEF TypeOK
  <2>2. Len(list[r]) \in Nat /\ \A i \in 1..Len(list[r]) : list[r][i] \in Item
    BY <2>1
  <2>3. \A i \in 1..Len(list[r]) : list[r][i].number \in Numbers
    BY <2>2 DEF Item
  <2>4. \A i \in 1..Len(list[r]) : parts[list[r][i].number] \in Requests
    BY <1>2, <2>3 DEF PartMatches, TypeOK
  <2>5. Concatenation(r) \in [1..Len(list[r]) -> Requests]
    BY <2>4 DEF Concatenation
  <2> QED
    BY <2>2, <2>5, SeqDef
<1>4. /\ commits' \in Seq(Seq(Requests))
      /\ Len(commits') = 1
      /\ commits'[1] = Concatenation(r)
  BY <1>1, <1>3
<1>5. \A q \in Requests \ {r} :
        /\ pc[q] # "commit"
        /\ ~(pc[q] = "delist" /\ list[q] # <<>>)
  BY <1>1 DEF LockInv, AskInv
<1>6. TypeOK'
  BY <1>4 DEF TypeOK, Stages, Replies, RemoveParts, NoParts
<1>7. AskInv'
  BY <1>1 DEF AskInv, TypeOK
<1>8. LockInv'
  BY <1>1, <1>5 DEF LockInv, TypeOK
<1>9. DoneInv'
  BY <1>4, <1>5 DEF DoneInv, TypeOK, RemoveParts
<1>10. PartsInv' /\ FilesInv'
  BY <1>6, RemovePartsInvariant
<1>11. AckedPartsUsable'
  BY DEF AckedPartsUsable
<1>12. CompleteHonoursETags'
  <2>1. \A q \in Requests : pc'[q] = "delist" /\ list'[q] # <<>> => q = r
    BY <1>5 DEF TypeOK
  <2>2. /\ list' = list /\ num' = num
        /\ Len(Concatenation(r)) = Len(list[r])
    BY <1>3 DEF Concatenation
  <2>3. ASSUME NEW i \in 1..Len(list[r])
        PROVE  /\ num'[Concatenation(r)[i]] = list[r][i].number
               /\ reply'[Concatenation(r)[i]] = "ok"
               /\ list[r][i].etag \in {Nil, Concatenation(r)[i]}
    <3> DEFINE n == list[r][i].number
    <3>1. Concatenation(r)[i] = parts[n] /\ n \in Numbers
      <4>1. list[r] \in Seq(Item)
        BY DEF TypeOK
      <4>2. list[r][i] \in Item
        BY <4>1
      <4> QED
        BY <4>2 DEF Concatenation, Item
    <3>2. parts[n] # Nil /\ list[r][i].etag \in {Nil, parts[n]}
      BY <1>2 DEF PartMatches
    <3>3. parts[n] \in Requests /\ num[parts[n]] = n /\ reply[parts[n]] = "ok"
      BY <3>1, <3>2 DEF PartsInv, TypeOK
    <3> QED
      BY <3>1, <3>2, <3>3 DEF TypeOK
  <2>4. MadeOf(commits[Len(commits)], list[r])'
    BY <1>4, <2>2, <2>3 DEF MadeOf
  <2> QED
    BY <1>4, <2>1, <2>4 DEF CompleteHonoursETags
<1> QED
  BY <1>6, <1>7, <1>8, <1>9, <1>10, <1>11, <1>12

\* The upload is taken out of s.uploads, and a complete gives up.mu back.
LEMMA DelistInvariant ==
  ASSUME IndInv, NEW r \in Requests, Delist(r)
  PROVE  IndInv'
<1> USE DEF IndInv, Delist, Finish, Goto, ask
<1>1. done /\ r # Nil
  BY DEF DoneInv, MultipartAssumption
<1>2. TypeOK'
  BY DEF TypeOK, Stages, Replies
<1>3. AskInv'
  BY DEF AskInv, TypeOK
<1>4. LockInv'
  <2>1. \A q \in Requests : pc[q] # "commit"
    BY <1>1 DEF DoneInv
  <2>2. \A q \in Requests : mu' = q <=> mu = q /\ q # r
    BY DEF MultipartAssumption
  <2> QED
    BY <2>1, <2>2 DEF LockInv, TypeOK
<1>5. DoneInv'
  BY DEF DoneInv, TypeOK
<1>6. PartsInv'
  BY DEF PartsInv, TypeOK
<1>7. FilesInv'
  BY DEF FilesInv, TypeOK
<1>8. AckedPartsUsable'
  BY <1>1 DEF AckedPartsUsable
<1>9. CompleteHonoursETags'
  BY HonoursKept DEF AskInv, TypeOK
<1> QED
  BY <1>2, <1>3, <1>4, <1>5, <1>6, <1>7, <1>8, <1>9

-----------------------------------------------------------------------------

\* Nothing is staged when the upload is initiated.
LEMMA InitInvariant == Init => IndInv
<1> SUFFICES ASSUME Init PROVE IndInv
  OBVIOUS
<1> USE DEF Init
<1>1. TypeOK
  <2>1. commits \in Seq(Seq(Requests))
    OBVIOUS
  <2>2. list \in [Requests -> Seq(Item)]
    OBVIOUS
  <2>3. {listed, done} \subseteq BOOLEAN
    OBVIOUS
  <2>4. parts \in [Numbers -> Requests \cup {Nil}] /\ mu \in Requests \cup {Nil}
    BY DEF NoParts
  <2> QED
    BY <2>1, <2>2, <2>3, <2>4 DEF TypeOK, Stages, Replies
<1>2. AskInv /\ DoneInv /\ PartsInv /\ FilesInv
  BY DEF AskInv, DoneInv, PartsInv, FilesInv, NoParts
<1>3. LockInv
  BY DEF LockInv, MultipartAssumption
<1>4. AckedPartsUsable /\ CompleteHonoursETags
  BY DEF AckedPartsUsable, CompleteHonoursETags
<1> QED
  BY <1>1, <1>2, <1>3, <1>4 DEF IndInv

\* Every step of every request.
LEMMA NextInvariant == IndInv /\ [Next]_vars => IndInv'
<1> SUFFICES ASSUME IndInv, [Next]_vars PROVE IndInv'
  OBVIOUS
<1>1. CASE UNCHANGED vars
  <2> USE <1>1 DEF vars, upload, ask, IndInv
  <2>1. TypeOK' /\ AskInv' /\ DoneInv'
    BY DEF TypeOK, AskInv, DoneInv
  <2>2. LockInv'
    BY DEF LockInv, PartMatches
  <2>3. PartsInv' /\ FilesInv'
    BY DEF PartsInv, FilesInv
  <2>4. AckedPartsUsable' /\ CompleteHonoursETags'
    BY HonoursKept DEF AckedPartsUsable
  <2> QED
    BY <2>1, <2>2, <2>3, <2>4
<1> QED
  BY <1>1, ArriveInvariant, LookupInvariant, StageInvariant,
     StageFailsInvariant, PublishInvariant, TooLateInvariant, DiscardInvariant,
     CheckRefusedInvariant, CheckInvariant, CommitInvariant,
     CommitFailsInvariant, DelistInvariant, AbortInvariant
  DEF Next, BodyEnds, Step, Locking

\* The inductive invariant holds in every reachable state.
THEOREM MultipartInvariant == Spec => []IndInv
BY InitInvariant, NextInvariant, PTL DEF Spec

\* However uploads of one part number overlap, a part that was acknowledged
\* stays usable until the upload is over.
THEOREM AckedPartsAlwaysUsable == Spec => []AckedPartsUsable
<1>1. IndInv => AckedPartsUsable
  BY DEF IndInv
<1> QED
  BY <1>1, MultipartInvariant, PTL

\* No staged file outlives the upload and its requests.
THEOREM NoStagedFileEverLeft == Spec => []NoStagedFileLeft
<1>1. IndInv => NoStagedFileLeft
  <2> SUFFICES ASSUME IndInv, done,
                      \A r \in Requests : pc[r] \in {"idle", "done"},
                      NEW f \in staged
               PROVE  FALSE
    BY DEF NoStagedFileLeft
  <2>1. f \in Requests /\ f # Nil /\ parts = NoParts
    BY DEF IndInv, TypeOK, DoneInv, MultipartAssumption
  <2>2. num[f] \in Numbers /\ parts[num[f]] = f
    BY <2>1 DEF IndInv, FilesInv, TypeOK
  <2> QED
    BY <2>1, <2>2 DEF NoParts
<1> QED
  BY <1>1, MultipartInvariant, PTL

\* A completed object is made of the parts the client listed, in their order,
\* and of the very part where the list gives an ETag.
THEOREM CompleteAlwaysHonoursETags == Spec => []CompleteHonoursETags
<1>1. IndInv => CompleteHonoursETags
  BY DEF IndInv
<1> QED
  BY <1>1, MultipartInvariant, PTL

\* An upload is committed at most once and never after it was aborted.
THEOREM DoneIsAlwaysFinal == Spec => DoneIsFinal
<1> DEFINE Final == done => UNCHANGED commits
<1>1. ASSUME IndInv, Next
      PROVE  Final
  <2>1. ASSUME NEW r \in Requests, Commit(r)
        PROVE  ~done
    BY <1>1, <2>1 DEF IndInv, DoneInv, Commit
  <2> QED
    BY <1>1, <2>1
    DEF Next, BodyEnds, Step, Locking, Arrive, LookupPart, LookupAbort,
        LookupComplete, Lookup, Malformed, Stage, StageFails, Publish, Discard, Check,
        CommitFails, Delist, Abort, upload
<1>2. IndInv /\ [Next]_vars => [Final]_vars
  BY <1>1
<1>3. IndInv => Len(commits) <= 1
  BY DEF IndInv, DoneInv
<1> QED
  BY <1>2, <1>3, MultipartInvariant, PTL DEF Spec, DoneIsFinal

=============================================================================
