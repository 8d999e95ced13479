-------------------------- MODULE ResumableProofs --------------------------
(***************************************************************************)
(* Proofs about Resumable, for an object of any length, any number of      *)
(* requests, and any order in which requests and answers are lost,         *)
(* repeated or overtaken.                                                  *)
(***************************************************************************)
EXTENDS Resumable, SequenceTheorems, TLAPS

USE ResumableAssumption DEF ResumableAssumption, Unknown

-----------------------------------------------------------------------------
(***************************************************************************)
(* The bytes of the object.                                                *)
(***************************************************************************)

\* A piece of the object is a sequence as long as its offsets say.
LEMMA BytesSeq ==
  ASSUME NEW m \in Nat, NEW n \in Nat, m <= n, n <= N
  PROVE  /\ Bytes(m, n) \in Seq(1..N)
         /\ Len(Bytes(m, n)) = n - m
         /\ \A i \in 1..(n - m) : Bytes(m, n)[i] = m + i
<1>1. n - m \in Nat /\ \A i \in 1..(n - m) : m + i \in 1..N
  OBVIOUS
<1>2. Bytes(m, n) \in [1..(n - m) -> 1..N]
  BY <1>1 DEF Bytes
<1>3. Bytes(m, n) \in Seq(1..N)
  BY <1>1, <1>2, SeqDef
<1>4. DOMAIN Bytes(m, n) = 1..(n - m)
  BY DEF Bytes
<1>5. Len(Bytes(m, n)) = n - m
  BY <1>1, <1>3, <1>4, LenProperties
<1> QED
  BY <1>3, <1>5 DEF Bytes

\* A prefix of the object counts from one.
LEMMA PrefixSeq ==
  ASSUME NEW n \in Nat, n <= N
  PROVE  /\ Bytes(0, n) \in Seq(1..N)
         /\ Len(Bytes(0, n)) = n
         /\ \A i \in 1..n : Bytes(0, n)[i] = i
<1>1. 0 \in Nat /\ 0 <= n /\ n - 0 = n
  OBVIOUS
<1>2. /\ Bytes(0, n) \in Seq(1..N)
      /\ Len(Bytes(0, n)) = n - 0
      /\ \A i \in 1..(n - 0) : Bytes(0, n)[i] = 0 + i
  BY <1>1, BytesSeq, Zenon
<1> QED
  BY <1>2

\* Two sequences that continue each other make the counting sequence.
LEMMA CountingConcat ==
  ASSUME NEW S, NEW s \in Seq(S), NEW t \in Seq(S), NEW u \in Seq(S),
         Len(u) = Len(s) + Len(t),
         \A i \in 1..Len(s) : s[i] = u[i],
         \A i \in 1..Len(t) : t[i] = u[Len(s) + i]
  PROVE  s \o t = u
<1>1. /\ s \o t \in Seq(S)
      /\ Len(s \o t) = Len(s) + Len(t)
      /\ \A i \in 1..(Len(s) + Len(t)) :
           (s \o t)[i] = IF i <= Len(s) THEN s[i] ELSE t[i - Len(s)]
  BY ConcatProperties
<1>2. Len(s) \in Nat /\ Len(t) \in Nat
  BY LenProperties
<1>3. \A i \in 1..Len(s \o t) : (s \o t)[i] = u[i]
  <2> TAKE i \in 1..Len(s \o t)
  <2>1. CASE i <= Len(s)
    BY <1>1, <1>2, <2>1
  <2>2. CASE ~(i <= Len(s))
    <3>1. i - Len(s) \in 1..Len(t) /\ Len(s) + (i - Len(s)) = i
      BY <1>1, <1>2, <2>2
    <3> QED
      BY <1>1, <1>2, <2>2, <3>1
  <2> QED
    BY <2>1, <2>2
<1> QED
  BY <1>1, <1>3, SeqEqual

\* The bytes up to an offset and those from it on are the bytes up to the end.
LEMMA BytesConcat ==
  ASSUME NEW m \in Nat, NEW n \in Nat, m <= n, n <= N
  PROVE  Bytes(0, m) \o Bytes(m, n) = Bytes(0, n)
<1>1. m <= N
  OBVIOUS
<1>2. /\ Bytes(0, m) \in Seq(1..N)
      /\ Len(Bytes(0, m)) = m
      /\ \A i \in 1..m : Bytes(0, m)[i] = i
  BY <1>1, PrefixSeq
<1>3. /\ Bytes(0, n) \in Seq(1..N)
      /\ Len(Bytes(0, n)) = n
      /\ \A i \in 1..n : Bytes(0, n)[i] = i
  BY PrefixSeq
<1>4. /\ Bytes(m, n) \in Seq(1..N)
      /\ Len(Bytes(m, n)) = n - m
      /\ \A i \in 1..(n - m) : Bytes(m, n)[i] = m + i
  BY BytesSeq
<1>5. Len(Bytes(0, n)) = Len(Bytes(0, m)) + Len(Bytes(m, n))
  BY <1>2, <1>3, <1>4
<1>6. \A i \in 1..Len(Bytes(0, m)) : Bytes(0, m)[i] = Bytes(0, n)[i]
  <2>1. \A i \in 1..m : i \in 1..n
    OBVIOUS
  <2> QED
    BY <1>2, <1>3, <2>1
<1>7. \A i \in 1..Len(Bytes(m, n)) :
        Bytes(m, n)[i] = Bytes(0, n)[Len(Bytes(0, m)) + i]
  <2>1. \A i \in 1..(n - m) : m + i \in 1..n
    OBVIOUS
  <2>2. \A i \in 1..(n - m) : Bytes(m, n)[i] = Bytes(0, n)[m + i]
    BY <1>3, <1>4, <2>1
  <2> QED
    BY <1>2, <1>4, <2>2
<1> QED
  BY <1>2, <1>3, <1>4, <1>5, <1>6, <1>7, CountingConcat

\* No bytes.
LEMMA BytesEmpty == Bytes(0, 0) = <<>>
<1>1. Bytes(0, 0) \in Seq(1..N) /\ Len(Bytes(0, 0)) = 0
  BY BytesSeq
<1> QED
  BY <1>1, EmptySeq

-----------------------------------------------------------------------------
(***************************************************************************)
(* What a step does to the requests.                                       *)
(***************************************************************************)

\* No request asks for something else than before.
SameAsks ==
  \A q \in Requests :
    /\ msg'[q].kind = msg[q].kind
    /\ msg'[q].start = msg[q].start
    /\ msg'[q].end = msg[q].end
    /\ msg'[q].stage = "unsent" => msg[q].stage = "unsent"

\* A request moves on without an answer.
LEMMA StageStep ==
  ASSUME TypeOK, NEW r \in Requests, NEW s \in {"found", "commit"},
         msg' = [msg EXCEPT ![r].stage = s]
  PROVE  /\ msg' \in [Requests -> Messages]
         /\ SameAsks
         /\ msg'[r].stage = s
         /\ \A q \in Requests : msg'[q].status = msg[q].status
         /\ \A q \in Requests \ {r} : msg'[q] = msg[q]
<1>1. msg[r] \in Messages /\ msg' = [msg EXCEPT ![r] = [msg[r] EXCEPT !.stage = s]]
  BY DEF TypeOK
<1>2. [msg[r] EXCEPT !.stage = s] \in Messages
  BY <1>1 DEF Messages
<1>3. /\ msg' \in [Requests -> Messages]
      /\ msg'[r] = [msg[r] EXCEPT !.stage = s]
      /\ \A q \in Requests \ {r} : msg'[q] = msg[q]
  BY <1>1, <1>2 DEF TypeOK
<1> QED
  BY <1>1, <1>3 DEF SameAsks, Messages

\* A request is over.
LEMMA OverStep ==
  ASSUME TypeOK, NEW r \in Requests, Over(r)
  PROVE  /\ msg' \in [Requests -> Messages]
         /\ SameAsks
         /\ msg'[r].stage = "over" /\ msg'[r].status = "none"
         /\ \A q \in Requests \ {r} : msg'[q] = msg[q]
<1> DEFINE m == [msg[r] EXCEPT !.stage = "over", !.total = Unknown,
                               !.status = "none", !.range = 0]
<1>1. msg[r] \in Messages /\ msg' = [msg EXCEPT ![r] = m]
  BY DEF TypeOK, Over
<1>2. m \in Messages
  <2>1. PICK z \in 0..N : z = 0
    OBVIOUS
  <2>2. [msg[r] EXCEPT !.stage = "over", !.total = Unknown,
                       !.status = "none", !.range = z] \in Messages
    BY <1>1 DEF Messages
  <2> QED
    BY <2>1, <2>2
<1>3. /\ msg' \in [Requests -> Messages]
      /\ msg'[r] = m
      /\ \A q \in Requests \ {r} : msg'[q] = msg[q]
  BY <1>1, <1>2 DEF TypeOK
<1> QED
  BY <1>1, <1>3 DEF SameAsks, Messages

\* A request is answered with the offset of the session.
LEMMA AnswerStep ==
  ASSUME TypeOK, NEW r \in Requests, offset' \in 0..N,
         NEW w \in {"incomplete", "error", "gone", "ok", "invalid", "refused",
                    "badrequest"},
         Answer(r, w)
  PROVE  /\ msg' \in [Requests -> Messages]
         /\ SameAsks
         /\ msg'[r].stage = "answered" /\ msg'[r].status = w
         /\ \A q \in Requests \ {r} : msg'[q] = msg[q]
<1> DEFINE m == [msg[r] EXCEPT !.stage = "answered", !.status = w,
                               !.range = offset']
<1>1. msg[r] \in Messages /\ msg' = [msg EXCEPT ![r] = m]
  BY DEF TypeOK, Answer
<1>2. m \in Messages
  BY <1>1 DEF Messages
<1>3. /\ msg' \in [Requests -> Messages]
      /\ msg'[r] = m
      /\ \A q \in Requests \ {r} : msg'[q] = msg[q]
  BY <1>1, <1>2 DEF TypeOK
<1> QED
  BY <1>1, <1>3 DEF SameAsks, Messages

\* So what the client asks stays in order.
LEMMA AsksKept ==
  ASSUME SentInv, SameAsks
  PROVE  SentInv'
BY DEF SentInv, SameAsks

-----------------------------------------------------------------------------
(***************************************************************************)
(* The client and the network.                                             *)
(***************************************************************************)

\* A session starts with an empty writer.
LEMMA StartStep ==
  ASSUME IndInv, Start
  PROVE  IndInv'
<1> USE DEF Start
<1>1. TypeOK'
  BY DEF IndInv, TypeOK
<1>2. SentInv'
  BY DEF IndInv, SentInv
<1>3. SessionInv'
  BY DEF IndInv, SessionInv
<1>4. OffsetIsStored'
  BY BytesEmpty DEF IndInv, SessionInv, OffsetIsStored
<1>5. AnswerInv' /\ OutcomeInv'
  BY DEF IndInv, AnswerInv, OutcomeInv, Integrity, AnswersTrue
<1> QED
  BY <1>1, <1>2, <1>3, <1>4, <1>5 DEF IndInv

\* The client sends from the offset it was told.
LEMMA SendStep ==
  ASSUME IndInv, NEW r \in Requests, Send(r)
  PROVE  IndInv'
<1>1. PICK k \in Kinds, t \in {N, Unknown}, e \in 1..N :
        /\ \A q \in Requests : {k, msg[q].kind} # {"chunk", "whole"}
        /\ k = "chunk" => acked < e
        /\ k # "chunk" => e = N
        /\ msg' = [msg EXCEPT ![r] =
                     [Blank EXCEPT !.stage = "sent", !.kind = k, !.total = t,
                                   !.start = IF k = "chunk" THEN acked ELSE 0,
                                   !.end = e]]
  BY DEF Send
<1> DEFINE m == [Blank EXCEPT !.stage = "sent", !.kind = k, !.total = t,
                              !.start = IF k = "chunk" THEN acked ELSE 0,
                              !.end = e]
<1>2. /\ UNCHANGED <<checksum, listed, done, mu, offset, bw, tmpfile, committed>>
      /\ UNCHANGED <<acked, told>>
      /\ told = "started"
      /\ msg[r].stage = "unsent" /\ msg[r].kind = "probe"
  BY DEF Send, sess, IndInv, SentInv
<1>3. /\ m \in Messages /\ m.stage = "sent" /\ m.status = "none"
      /\ m.kind = k /\ m.end = e
      /\ k = "chunk" => m.start = acked
  <2>1. Blank \in Messages /\ Blank.status = "none"
    BY DEF Blank, Messages
  <2>2. k \in {"chunk", "probe", "whole", "malformed"} /\ e \in 0..N
    OBVIOUS
  <2>3. PICK a \in 0..N : a = IF k = "chunk" THEN acked ELSE 0
    BY DEF IndInv, TypeOK
  <2>4. m = [Blank EXCEPT !.stage = "sent", !.kind = k, !.total = t,
                          !.start = a, !.end = e]
    BY <2>3
  <2> HIDE DEF m
  <2> QED
    BY <2>1, <2>2, <2>3, <2>4 DEF Messages
<1>4. /\ msg' \in [Requests -> Messages]
      /\ msg'[r] = m
      /\ \A q \in Requests \ {r} : msg'[q] = msg[q]
  BY <1>1, <1>3 DEF IndInv, TypeOK
<1> HIDE DEF m
<1>5. TypeOK'
  BY <1>2, <1>4 DEF IndInv, TypeOK
<1>6. SentInv'
  <2>1. \A q \in Requests : /\ k = "chunk" => msg[q].kind # "whole"
                            /\ k = "whole" => msg[q].kind # "chunk"
    BY <1>1, Zenon
  <2>2. k = "chunk" => m.start < m.end
    BY <1>1, <1>3
  <2>3. k = "whole" => m.end = N
    BY <1>1, <1>3
  <2> QED
    BY <1>3, <1>4, <2>1, <2>2, <2>3 DEF IndInv, SentInv
<1>7. SessionInv'
  BY <1>2, <1>3, <1>4 DEF IndInv, SessionInv
<1>8. OffsetIsStored'
  BY <1>2 DEF IndInv, OffsetIsStored
<1>9. AnswerInv' /\ OutcomeInv'
  BY <1>2, <1>3, <1>4
  DEF IndInv, AnswerInv, OutcomeInv, Integrity, AnswersTrue
<1> QED
  BY <1>5, <1>6, <1>7, <1>8, <1>9 DEF IndInv

\* A request or an answer is lost, or the client takes what it says.
LEMMA NetworkStep ==
  ASSUME IndInv, NEW r \in Requests, Lose(r) \/ Receive(r)
  PROVE  IndInv'
<1>1. /\ UNCHANGED <<checksum, listed, done, mu, offset, bw, tmpfile, committed>>
      /\ msg[r].stage # "unsent"
      /\ Over(r)
      /\ acked' \in {acked, msg[r].range}
      /\ \/ told' = told
         \/ /\ told = "started"
            /\ told' = msg[r].status
            /\ told' \notin {"incomplete", "error"}
  BY DEF Lose, Receive, sess
<1>2. /\ msg' \in [Requests -> Messages]
      /\ SameAsks
      /\ msg'[r].stage = "over" /\ msg'[r].status = "none"
      /\ \A q \in Requests \ {r} : msg'[q] = msg[q]
  BY <1>1, OverStep DEF IndInv
<1>3. TypeOK'
  <2>1. msg[r] \in Messages
    BY DEF IndInv, TypeOK
  <2>2. msg[r].range \in 0..N /\ acked' \in 0..N
    BY <1>1, <2>1 DEF Messages, IndInv, TypeOK
  <2>3. told' # told => msg[r].stage = "answered"
    BY DEF Lose, Receive
  <2>4. told' # told => told' \in {"ok", "notfound", "gone", "invalid",
                                   "refused", "badrequest"}
    BY <1>1, <2>1, <2>3 DEF Messages, IndInv, AnswerInv
  <2> QED
    BY <1>1, <1>2, <2>2, <2>4 DEF IndInv, TypeOK
<1>4. SentInv'
  BY <1>2, AsksKept DEF IndInv
<1>5. SessionInv'
  <2>1. told = "nothing" => FALSE
    BY <1>1 DEF IndInv, SessionInv
  <2>2. told' # "nothing"
    BY <1>1, <1>3, <2>1 DEF IndInv, TypeOK, Messages
  <2> QED
    BY <1>1, <1>2, <2>1, <2>2 DEF IndInv, SessionInv, SameAsks
<1>6. OffsetIsStored'
  BY <1>1 DEF IndInv, OffsetIsStored
<1>7. AnswerInv'
  BY <1>1, <1>2 DEF IndInv, AnswerInv
<1>8. OutcomeInv'
  BY <1>1 DEF IndInv, AnswerInv, OutcomeInv, Integrity, AnswersTrue
<1> QED
  BY <1>3, <1>4, <1>5, <1>6, <1>7, <1>8 DEF IndInv

-----------------------------------------------------------------------------
(***************************************************************************)
(* handleResumableChunk.                                                   *)
(***************************************************************************)

\* The lookup: an unknown session is one that was finalized.
LEMMA LookupStep ==
  ASSUME IndInv, NEW r \in Requests, Lookup(r)
  PROVE  IndInv'
<1>1. /\ UNCHANGED <<checksum, listed, done, mu, offset, bw, tmpfile, committed>>
      /\ UNCHANGED <<acked, told>>
      /\ msg[r].stage = "sent" /\ told # "nothing"
  BY DEF Lookup, sess, IndInv, SessionInv
<1>2. /\ msg' \in [Requests -> Messages]
      /\ SameAsks
      /\ msg'[r].stage \in {"found", "answered"}
      /\ \/ msg'[r].status = msg[r].status /\ msg'[r].stage = "found"
         \/ msg'[r].status = "notfound" /\ ~listed
      /\ \A q \in Requests \ {r} : msg'[q] = msg[q]
  <2>1. CASE listed
    BY <2>1, StageStep DEF Lookup, IndInv
  <2>2. CASE ~listed
    <3> DEFINE m == [msg[r] EXCEPT !.stage = "answered", !.status = "notfound"]
    <3>1. msg[r] \in Messages /\ msg' = [msg EXCEPT ![r] = m]
      BY <2>2 DEF Lookup, IndInv, TypeOK
    <3>2. m \in Messages
      BY <3>1 DEF Messages
    <3>3. /\ msg' \in [Requests -> Messages]
          /\ msg'[r] = m
          /\ \A q \in Requests \ {r} : msg'[q] = msg[q]
      BY <3>1, <3>2 DEF IndInv, TypeOK
    <3> QED
      BY <2>2, <3>1, <3>3 DEF SameAsks, Messages
  <2> QED
    BY <2>1, <2>2
<1>3. TypeOK'
  BY <1>1, <1>2 DEF IndInv, TypeOK
<1>4. SentInv'
  BY <1>2, AsksKept DEF IndInv
<1>5. SessionInv'
  BY <1>1, <1>2 DEF IndInv, SessionInv, SameAsks
<1>6. OffsetIsStored'
  BY <1>1 DEF IndInv, OffsetIsStored
<1>7. ~listed => done
  BY <1>1 DEF IndInv, TypeOK, SessionInv
<1>8. AnswerInv'
  BY <1>1, <1>2, <1>7 DEF IndInv, AnswerInv
<1>9. OutcomeInv'
  BY <1>1 DEF IndInv, OutcomeInv, Integrity, AnswersTrue
<1> QED
  BY <1>3, <1>4, <1>5, <1>6, <1>8, <1>9 DEF IndInv

\* An answer that leaves the session alone: 410, 400, or the offset.
LEMMA RefusalStep ==
  ASSUME IndInv, NEW r \in Requests,
         UNCHANGED <<checksum, listed, done, mu, offset, bw, tmpfile, committed>>,
         UNCHANGED <<acked, told>>,
         msg[r].stage = "found",
         NEW w \in {"incomplete", "gone", "badrequest"}, Answer(r, w), w = "gone" => done
  PROVE  IndInv'
<1>1. offset' \in 0..N
  BY DEF IndInv, TypeOK
<1>2. /\ msg' \in [Requests -> Messages]
      /\ SameAsks
      /\ msg'[r].stage = "answered" /\ msg'[r].status = w
      /\ \A q \in Requests \ {r} : msg'[q] = msg[q]
  BY <1>1, AnswerStep DEF IndInv
<1>3. TypeOK'
  BY <1>2 DEF IndInv, TypeOK
<1>4. SentInv'
  BY <1>2, AsksKept DEF IndInv
<1>5. SessionInv'
  BY <1>2 DEF IndInv, SessionInv, SameAsks
<1>6. OffsetIsStored'
  BY DEF IndInv, OffsetIsStored
<1>7. AnswerInv'
  BY <1>2 DEF IndInv, AnswerInv
<1>8. OutcomeInv'
  BY DEF IndInv, OutcomeInv, Integrity, AnswersTrue
<1> QED
  BY <1>3, <1>4, <1>5, <1>6, <1>7, <1>8 DEF IndInv

\* The end of the handler, after a probe or a body that arrived whole: the
\* session is finalized at offset N, and only there.
LEMMA FinishStep ==
  ASSUME IndInv, NEW r \in Requests, Holds(r), ~done,
         NEW total \in {N, Unknown}, FinishOrContinue(r, total),
         offset' \in 0..N, bw' \in Seq(1..N),
         checksum \notin Breaking => bw' = Bytes(0, offset'),
         offset' = offset \/ msg[r].kind = "chunk" \/ total = offset'
  PROVE  IndInv'
<1>1. /\ UNCHANGED <<checksum, tmpfile, committed, acked, told>>
      /\ msg[r].stage = "found" /\ mu = Nil /\ told # "nothing"
  BY DEF FinishOrContinue, Holds, IndInv, SessionInv
<1>2. /\ msg' \in [Requests -> Messages]
      /\ SameAsks
      /\ \A q \in Requests \ {r} : msg'[q] = msg[q]
      /\ \/ /\ done' /\ ~listed' /\ mu' = r /\ offset' = N
            /\ done' \in BOOLEAN /\ listed' \in BOOLEAN
            /\ msg'[r].stage = "commit" /\ msg'[r].status = msg[r].status
         \/ /\ UNCHANGED <<done, listed, mu>> /\ total # offset'
            /\ msg'[r].stage = "answered" /\ msg'[r].status = "incomplete"
  <2>1. CASE total = offset'
    <3>1. offset' = N
      BY <2>1
    <3>2. msg' = [msg EXCEPT ![r].stage = "commit"]
      BY <2>1 DEF FinishOrContinue
    <3> QED
      BY <2>1, <3>1, <3>2, StageStep DEF FinishOrContinue, IndInv
  <2>2. CASE total # offset'
    <3>1. Answer(r, "incomplete") /\ UNCHANGED <<done, listed, mu>>
      BY <2>2 DEF FinishOrContinue
    <3> QED
      BY <2>2, <3>1, AnswerStep DEF IndInv
  <2> QED
    BY <2>1, <2>2
<1>3. TypeOK'
  <2>1. {checksum', listed', done', tmpfile'} \subseteq BOOLEAN
    BY <1>1, <1>2 DEF IndInv, TypeOK
  <2> QED
    BY <1>1, <1>2, <2>1 DEF IndInv, TypeOK
<1>4. SentInv'
  BY <1>2, AsksKept DEF IndInv
<1>5. SessionInv'
  <2>1. told' # "nothing"
    BY <1>1
  <2>2. listed' = ~done'
    BY <1>1, <1>2 DEF IndInv, SessionInv, TypeOK
  <2>3. done' => offset' = N /\ mu' # Nil
    BY <1>2
  <2>4. ~done' /\ offset' # 0 => \E q \in Requests : msg'[q].kind = "chunk"
    <3> SUFFICES ASSUME ~done', offset' # 0
                 PROVE  \E q \in Requests : msg'[q].kind = "chunk"
      OBVIOUS
    <3>1. \E q \in Requests : msg[q].kind = "chunk"
      BY <1>2 DEF IndInv, SessionInv
    <3> QED
      BY <1>2, <3>1 DEF SameAsks
  <2>5. \A q \in Requests : msg'[q].stage = "commit" => done'
    BY <1>2 DEF IndInv, SessionInv
  <2> QED
    BY <2>1, <2>2, <2>3, <2>4, <2>5 DEF SessionInv
<1>6. OffsetIsStored'
  BY <1>1 DEF OffsetIsStored
<1>7. AnswerInv'
  BY <1>1, <1>2 DEF IndInv, AnswerInv
<1>8. OutcomeInv'
  BY <1>1, <1>2 DEF IndInv, OutcomeInv, Integrity, AnswersTrue
<1> QED
  BY <1>3, <1>4, <1>5, <1>6, <1>7, <1>8 DEF IndInv

\* A probe.
LEMMA ProbeStep ==
  ASSUME IndInv, NEW r \in Requests, Probe(r)
  PROVE  IndInv'
<1>1. msg[r].total \in {N, Unknown}
  BY DEF IndInv, TypeOK, Messages
<1>2. offset' = offset /\ bw' = bw
  BY DEF Probe
<1>3. /\ offset' \in 0..N /\ bw' \in Seq(1..N)
      /\ checksum \notin Breaking => bw' = Bytes(0, offset')
  BY <1>2 DEF IndInv, TypeOK, OffsetIsStored
<1> QED
  BY <1>1, <1>2, <1>3, FinishStep DEF Probe

\* A body is accepted where the writer's content ends.
LEMMA AcceptedBody ==
  ASSUME IndInv, NEW r \in Requests, ~done, Accepts(r)
  PROVE  /\ FirstByte(r) = offset
         /\ msg[r].end \in Nat /\ offset < msg[r].end /\ msg[r].end <= N
         /\ msg[r].kind = "whole" => msg[r].end = N
<1>1. /\ msg[r] \in Messages /\ offset \in 0..N
      /\ msg[r].end \in 0..N
  BY DEF IndInv, TypeOK, Messages
<1>2. CASE msg[r].kind = "chunk"
  BY <1>1, <1>2 DEF Accepts, FirstByte, IndInv, SentInv
<1>3. CASE msg[r].kind = "whole"
  <2>1. offset = 0
    BY <1>3 DEF IndInv, SentInv, SessionInv
  <2> QED
    BY <1>1, <1>3, <2>1 DEF FirstByte, IndInv, SentInv
<1> QED
  BY <1>2, <1>3 DEF Accepts

\* The expected chunk, or the whole object in one request.
LEMMA ChunkStep ==
  ASSUME IndInv, NEW r \in Requests, Chunk(r)
  PROVE  IndInv'
<1>1. /\ FirstByte(r) = offset /\ offset \in Nat
      /\ msg[r].end \in Nat /\ offset < msg[r].end /\ msg[r].end <= N
      /\ msg[r].kind = "whole" => msg[r].end = N
  BY AcceptedBody DEF Chunk, IndInv, TypeOK
<1>2. /\ bw' = bw \o Bytes(offset, msg[r].end)
      /\ offset' = offset + (msg[r].end - offset)
      /\ Holds(r) /\ ~done
      /\ msg[r].kind \in {"chunk", "whole"}
  BY <1>1 DEF Chunk, Accepts
<1>3. offset' = msg[r].end /\ offset' \in 0..N
  BY <1>1, <1>2
<1>4. /\ Bytes(offset, msg[r].end) \in Seq(1..N)
      /\ Bytes(0, offset) \o Bytes(offset, msg[r].end) = Bytes(0, msg[r].end)
  <2>1. offset <= msg[r].end
    BY <1>1
  <2> QED
    BY <1>1, <2>1, BytesSeq, BytesConcat, Zenon
<1>5. bw' \in Seq(1..N)
  BY <1>2, <1>4, ConcatProperties DEF IndInv, TypeOK
<1>6. checksum \notin Breaking => bw' = Bytes(0, offset')
  BY <1>2, <1>3, <1>4 DEF IndInv, OffsetIsStored
<1>7. CASE msg[r].kind = "whole"
  <2>1. FinishOrContinue(r, N) /\ offset' = N
    BY <1>1, <1>3, <1>7 DEF Chunk
  <2> QED
    BY <1>2, <1>3, <1>5, <1>6, <2>1, FinishStep
<1>8. CASE msg[r].kind = "chunk"
  <2>1. FinishOrContinue(r, msg[r].total) /\ msg[r].total \in {N, Unknown}
    BY <1>8 DEF Chunk, IndInv, TypeOK, Messages
  <2> QED
    BY <1>2, <1>3, <1>5, <1>6, <1>8, <2>1, FinishStep
<1> QED
  BY <1>2, <1>7, <1>8

\* A body that fails, or has not the length announced, leaves the offset where
\* it was.
LEMMA ChunkBrokenStep ==
  ASSUME IndInv, NEW r \in Requests, ChunkBroken(r)
  PROVE  IndInv'
<1>1. /\ FirstByte(r) = offset /\ offset \in Nat
      /\ msg[r].end \in Nat /\ offset < msg[r].end /\ msg[r].end <= N
  BY AcceptedBody DEF ChunkBroken, IndInv, TypeOK
<1>2. PICK upto \in offset..N :
        /\ bw' = bw \o Bytes(offset, upto)
        /\ Answer(r, "error") \/ Answer(r, "badrequest")
  BY <1>1 DEF ChunkBroken
<1>3. Bytes(offset, upto) \in Seq(1..N)
  <2>1. upto \in Nat /\ offset <= upto /\ upto <= N
    BY <1>1
  <2> QED
    BY <1>1, <2>1, BytesSeq, Zenon
<1>4. bw' \in Seq(1..N)
  BY <1>2, <1>3, ConcatProperties DEF IndInv, TypeOK
<1>5. /\ UNCHANGED <<checksum, listed, done, mu, offset, tmpfile, committed>>
      /\ UNCHANGED <<acked, told>>
      /\ checksum \in Breaking
      /\ msg[r].stage = "found" /\ told # "nothing"
  BY DEF ChunkBroken, Holds, IndInv, SessionInv
<1>6. PICK w \in {"error", "badrequest"} : Answer(r, w)
  BY <1>2
<1>7. /\ msg' \in [Requests -> Messages]
      /\ SameAsks
      /\ msg'[r].stage = "answered" /\ msg'[r].status = w
      /\ \A q \in Requests \ {r} : msg'[q] = msg[q]
  BY <1>5, <1>6, AnswerStep DEF IndInv, TypeOK
<1>8. TypeOK'
  BY <1>4, <1>5, <1>7 DEF IndInv, TypeOK
<1>9. SentInv'
  BY <1>7, AsksKept DEF IndInv
<1>10. SessionInv'
  BY <1>5, <1>7 DEF IndInv, SessionInv, SameAsks
<1>11. OffsetIsStored'
  BY <1>5 DEF OffsetIsStored
<1>12. AnswerInv'
  BY <1>5, <1>7 DEF IndInv, AnswerInv
<1>13. OutcomeInv'
  BY <1>5 DEF IndInv, OutcomeInv, Integrity, AnswersTrue
<1> QED
  BY <1>8, <1>9, <1>10, <1>11, <1>12, <1>13 DEF IndInv

\* commitUpload: what is installed is the object, unless broken bodies go
\* unnoticed for want of a checksum.
LEMMA CommitStep ==
  ASSUME IndInv, NEW r \in Requests, CommitUpload(r)
  PROVE  IndInv'
<1>1. /\ UNCHANGED <<checksum, listed, done, offset, bw, acked, told>>
      /\ msg[r].stage = "commit" /\ done /\ offset = N
      /\ mu' = Nil /\ tmpfile' = FALSE
  BY DEF CommitUpload, IndInv, SessionInv
<1>2. PICK w \in {"invalid", "ok", "refused"} :
        /\ Answer(r, w)
        /\ \/ committed' = committed /\ w # "ok"
           \/ committed' = bw /\ (checksum => bw = Content)
  BY DEF CommitUpload
<1>3. FALSE \notin Breaking /\ ~checksum => bw = Content
  <2> SUFFICES ASSUME FALSE \notin Breaking, ~checksum PROVE bw = Content
    OBVIOUS
  <2>1. checksum \notin Breaking
    BY DEF IndInv, TypeOK
  <2> QED
    BY <1>1, <2>1 DEF IndInv, OffsetIsStored, Content
<1>4. FALSE \notin Breaking => \/ committed' = committed /\ w # "ok"
                               \/ committed' = Content
  BY <1>2, <1>3
<1>5. /\ msg' \in [Requests -> Messages]
      /\ SameAsks
      /\ msg'[r].stage = "answered" /\ msg'[r].status = w
      /\ \A q \in Requests \ {r} : msg'[q] = msg[q]
  BY <1>1, <1>2, AnswerStep DEF IndInv, TypeOK
<1>6. TypeOK'
  BY <1>1, <1>2, <1>5 DEF IndInv, TypeOK
<1>7. SentInv'
  BY <1>5, AsksKept DEF IndInv
<1>8. SessionInv'
  BY <1>1, <1>5 DEF IndInv, SessionInv, SameAsks
<1>9. OffsetIsStored'
  BY <1>1 DEF IndInv, OffsetIsStored
<1>10. AnswerInv'
  BY <1>1, <1>4, <1>5 DEF IndInv, AnswerInv
<1>11. OutcomeInv'
  BY <1>1, <1>4 DEF IndInv, OutcomeInv, Integrity, AnswersTrue
<1> QED
  BY <1>6, <1>7, <1>8, <1>9, <1>10, <1>11 DEF IndInv

-----------------------------------------------------------------------------
(***************************************************************************)
(* The theorems.                                                           *)
(***************************************************************************)

\* The invariant holds before the session starts.
LEMMA InitEstablishes == Init => IndInv
<1> SUFFICES ASSUME Init PROVE IndInv
  OBVIOUS
<1>1. Blank \in Messages
  BY DEF Blank, Messages
<1>2. /\ Blank.stage = "unsent" /\ Blank.kind = "probe"
      /\ Blank.status = "none"
  BY DEF Blank
<1>3. \A r \in Requests : msg[r] = Blank
  BY DEF Init
<1>4. TypeOK
  <2>1. <<>> \in Seq(1..N)
    BY EmptySeq
  <2>2. msg \in [Requests -> Messages]
    BY <1>1 DEF Init
  <2>3. {checksum, listed, done, tmpfile} \subseteq BOOLEAN
    BY DEF Init
  <2>4. bw \in Seq(1..N)
    BY <2>1 DEF Init
  <2>5. offset \in 0..N /\ acked \in 0..N
    BY DEF Init
  <2> QED
    BY <2>2, <2>3, <2>4, <2>5 DEF Init, TypeOK
<1>5. SentInv /\ SessionInv /\ AnswerInv
  BY <1>2, <1>3 DEF Init, SentInv, SessionInv, AnswerInv
<1>6. OffsetIsStored
  BY BytesEmpty DEF Init, OffsetIsStored
<1>7. OutcomeInv
  BY DEF Init, OutcomeInv, Integrity, AnswersTrue
<1> QED
  BY <1>4, <1>5, <1>6, <1>7 DEF IndInv

\* Every step of client, network and server preserves it.
LEMMA NextPreserves ==
  ASSUME IndInv, [Next]_vars
  PROVE  IndInv'
<1>1. ASSUME NEW r \in Requests, AlreadyDone(r) \/ Malformed(r) \/ OutOfOrder(r)
      PROVE  IndInv'
  <2>1. CASE AlreadyDone(r)
    BY <2>1, RefusalStep DEF AlreadyDone, Holds
  <2>2. CASE Malformed(r)
    BY <2>2, RefusalStep DEF Malformed, Holds
  <2>3. CASE OutOfOrder(r)
    BY <2>3, RefusalStep DEF OutOfOrder, Holds
  <2> QED
    BY <1>1, <2>1, <2>2, <2>3
<1>2. CASE UNCHANGED vars
  <2> USE <1>2 DEF vars, sess, IndInv
  <2>1. TypeOK' /\ SentInv'
    BY DEF TypeOK, SentInv
  <2>2. SessionInv' /\ OffsetIsStored'
    BY DEF SessionInv, OffsetIsStored
  <2>3. AnswerInv' /\ OutcomeInv'
    BY DEF AnswerInv, OutcomeInv, Integrity, AnswersTrue
  <2> QED
    BY <2>1, <2>2, <2>3
<1> QED
  BY <1>1, <1>2, StartStep, SendStep, NetworkStep, LookupStep, ProbeStep,
     ChunkStep, ChunkBrokenStep, CommitStep
  DEF Next

\* The inductive invariant is an invariant, for an object of any length.
THEOREM ResumableInvariant == Spec => []IndInv
<1>1. Init => IndInv
  BY InitEstablishes
<1>2. IndInv /\ [Next]_vars => IndInv'
  BY NextPreserves
<1> QED
  BY <1>1, <1>2, PTL DEF Spec

\* While bodies arrive whole, the offset a session reports is the number of
\* bytes its writer holds, and they are the first bytes of the object.
THEOREM OffsetIsAlwaysStored == Spec => []OffsetIsStored
<1>1. IndInv => OffsetIsStored
  BY DEF IndInv
<1> QED
  BY <1>1, ResumableInvariant, PTL

\* If bodies break off only in sessions with a checksum, a session commits the
\* client's content or nothing, whatever is lost, repeated or overtaken.
THEOREM IntegrityKept == FALSE \notin Breaking => (Spec => []Integrity)
<1> SUFFICES ASSUME FALSE \notin Breaking PROVE Spec => []Integrity
  OBVIOUS
<1>1. IndInv => Integrity
  BY DEF IndInv, OutcomeInv
<1> QED
  BY <1>1, ResumableInvariant, PTL

\* Under the same condition what the client is told of the outcome is true.
THEOREM AnswersAlwaysTrue == FALSE \notin Breaking => (Spec => []AnswersTrue)
<1> SUFFICES ASSUME FALSE \notin Breaking PROVE Spec => []AnswersTrue
  OBVIOUS
<1>1. IndInv => AnswersTrue
  BY DEF IndInv, OutcomeInv
<1> QED
  BY <1>1, ResumableInvariant, PTL

\* However commitUpload ends, no temp file is left behind.
THEOREM NoTempFileEverLeft == Spec => []NoTempFileLeft
<1>1. IndInv => NoTempFileLeft
  BY DEF IndInv, TypeOK, SessionInv, NoTempFileLeft
<1> QED
  BY <1>1, ResumableInvariant, PTL

=============================================================================
