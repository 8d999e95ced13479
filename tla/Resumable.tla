------------------------------ MODULE Resumable ------------------------------
(***************************************************************************)
(* One resumable upload session of the GCS server (pkg/gcs/upload.go) and  *)
(* a client that sends the N bytes of an object through it over a network  *)
(* that loses, delays and reorders requests and answers.  The client       *)
(* always goes on from the offset it was last told, and may give up on an  *)
(* answer and send again while the first request is still under way.       *)
(*                                                                         *)
(* Byte i of the object is the number i, so the content that a session     *)
(* should commit is <<1, 2, ..., N>>.                                      *)
(***************************************************************************)
EXTENDS Naturals, Sequences

CONSTANTS
  Requests,   \* bound: the PUTs the client makes in the life of the session
  N,          \* length of the object
  Kinds,      \* the forms of Content-Range the client uses
  Checksums,  \* whether clients give md5Hash or crc32c when they start
  Breaking,   \* the values of checksum for which bodies may break off
  Nil

ASSUME ResumableAssumption ==
  /\ N \in Nat \ {0}
  /\ Kinds \subseteq {"chunk", "probe", "whole", "malformed"}
  /\ Checksums \cup Breaking \subseteq BOOLEAN
  /\ Nil \notin Requests \cup Nat \cup Seq(Nat)

Unknown == Nil   \* "/*" in Content-Range: the total is not known yet

VARIABLES
  checksum,   \* the session's md5Hash or crc32c is set
  listed,     \* s.sessions has the upload id
  done,       \* sess.done
  mu,         \* the request that holds sess.mu, or Nil
  offset,     \* sess.offset
  bw,         \* the bytes written to sess.bw
  tmpfile,    \* the temp file of sess.bw exists
  committed,  \* the content of the object that was committed, or Nil
  msg,        \* each request: its stage, what it asks, what it is answered
  acked,      \* the offset the client goes on from
  told        \* what the client knows of the outcome

sess == <<checksum, listed, done, mu, offset, bw, tmpfile, committed>>
vars == <<sess, msg, acked, told>>

Blank == [stage |-> "unsent", kind |-> "probe", start |-> 0, end |-> 0,
          total |-> Unknown, status |-> "none", range |-> 0]

Bytes(from, to) == [i \in 1..(to - from) |-> from + i]
Content == Bytes(0, N)

Init ==
  /\ checksum = FALSE
  /\ listed = FALSE
  /\ done = FALSE
  /\ mu = Nil
  /\ offset = 0
  /\ bw = <<>>
  /\ tmpfile = FALSE
  /\ committed = Nil
  /\ msg = [r \in Requests |-> Blank]
  /\ acked = 0
  /\ told = "nothing"

-----------------------------------------------------------------------------
(***************************************************************************)
(* The client and the network.                                             *)
(***************************************************************************)

\* startResumableUpload: a BlobWriter is created and the session is listed.
Start ==
  /\ told = "nothing"
  /\ checksum' \in Checksums
  /\ listed' = TRUE
  /\ tmpfile' = TRUE
  /\ told' = "started"
  /\ UNCHANGED <<done, mu, offset, bw, committed, msg, acked>>

\* bytes <acked>-<e>/<total or *>, bytes */<total or *>, no Content-Range, or
\* one that is neither form: a client sends its content in chunks or in one
\* piece, and probes either way.
Send(r) ==
  /\ told = "started"
  /\ msg[r].stage = "unsent"
  /\ \E k \in Kinds, t \in {N, Unknown}, e \in 1..N :
       /\ \A q \in Requests : {k, msg[q].kind} # {"chunk", "whole"}
       /\ k = "chunk" => acked < e
       /\ k # "chunk" => e = N
       /\ k \in {"whole", "malformed"} => t = Unknown
       /\ msg' = [msg EXCEPT ![r] =
                    [Blank EXCEPT !.stage = "sent", !.kind = k, !.total = t,
                                  !.start = IF k = "chunk" THEN acked ELSE 0,
                                  !.end = e]]
  /\ UNCHANGED <<sess, acked, told>>

\* Nothing that the request or its answer says matters any more.
Over(r) ==
  msg' = [msg EXCEPT ![r].stage = "over", ![r].total = Unknown,
                     ![r].status = "none", ![r].range = 0]

\* A request or its answer is lost.
Lose(r) ==
  /\ msg[r].stage \in {"sent", "answered"}
  /\ Over(r)
  /\ UNCHANGED <<sess, acked, told>>

\* The client takes an answer.  After an error of the server it tries again.
Receive(r) ==
  /\ told = "started"
  /\ msg[r].stage = "answered"
  /\ Over(r)
  /\ acked' = IF msg[r].status = "incomplete" THEN msg[r].range ELSE acked
  /\ told' = IF msg[r].status \in {"incomplete", "error"} THEN told
             ELSE msg[r].status
  /\ UNCHANGED sess

-----------------------------------------------------------------------------
(***************************************************************************)
(* handleResumableChunk.  sess.mu is held from the check of sess.done to   *)
(* the answer, so nothing but the lookup and the commit is seen by another *)
(* request.                                                                *)
(***************************************************************************)

\* Faulty variant: the answer names the next byte where the code names the
\* last one, which the client takes for one byte more.
AnswerOneMore(r, w) ==
  msg' = [msg EXCEPT ![r].stage = "answered", ![r].status = w,
                     ![r].range = offset' + 1]

Answer(r, w) ==
  msg' = [msg EXCEPT ![r].stage = "answered", ![r].status = w,
                     ![r].range = offset']

\* s.sessions[uploadID], under s.mu.
Lookup(r) ==
  /\ msg[r].stage = "sent"
  /\ IF listed THEN msg' = [msg EXCEPT ![r].stage = "found"]
               ELSE msg' = [msg EXCEPT ![r].stage = "answered",
                                       ![r].status = "notfound"]
  /\ UNCHANGED <<sess, acked, told>>

\* sess.mu.Lock() is granted.
Holds(r) == msg[r].stage = "found" /\ mu = Nil

\* The session was finalized while this request waited for sess.mu: 410.
AlreadyDone(r) ==
  /\ Holds(r)
  /\ done
  /\ UNCHANGED offset
  /\ Answer(r, "gone")
  /\ UNCHANGED <<listed, done, mu, bw, tmpfile, committed>>
  /\ UNCHANGED <<checksum, acked, told>>

\* Faulty variant: a known total finalizes the session at once.
FinishEarly(r, total) ==
  /\ total # Unknown
  /\ done' = TRUE
  /\ listed' = FALSE
  /\ mu' = r
  /\ msg' = [msg EXCEPT ![r].stage = "commit"]
  /\ UNCHANGED <<tmpfile, committed, checksum, acked, told>>

\* The end of the handler: the session is finalized when the total is known
\* and reached, otherwise the answer is the offset (writeResumeIncomplete).
FinishOrContinue(r, total) ==
  IF total = offset'
  THEN /\ done' = TRUE
       /\ listed' = FALSE
       /\ mu' = r
       /\ msg' = [msg EXCEPT ![r].stage = "commit"]
       /\ UNCHANGED <<tmpfile, committed, checksum, acked, told>>
  ELSE /\ Answer(r, "incomplete")
       /\ UNCHANGED <<listed, done, mu, tmpfile, committed>>
       /\ UNCHANGED <<checksum, acked, told>>

Probe(r) ==
  /\ Holds(r)
  /\ ~done
  /\ msg[r].kind = "probe"
  /\ UNCHANGED <<offset, bw>>
  /\ FinishOrContinue(r, msg[r].total)

\* A Content-Range of another form: nothing is read.
Malformed(r) ==
  /\ Holds(r)
  /\ ~done
  /\ msg[r].kind = "malformed"
  /\ UNCHANGED offset
  /\ Answer(r, "badrequest")
  /\ UNCHANGED <<listed, done, mu, bw, tmpfile, committed>>
  /\ UNCHANGED <<checksum, acked, told>>

\* start # sess.offset: nothing is read, the answer is the offset.
OutOfOrder(r) ==
  /\ Holds(r)
  /\ ~done
  /\ msg[r].kind = "chunk"
  /\ msg[r].start # offset
  /\ UNCHANGED offset
  /\ Answer(r, "incomplete")
  /\ UNCHANGED <<listed, done, mu, bw, tmpfile, committed>>
  /\ UNCHANGED <<checksum, acked, told>>

\* Faulty variant: the start of the chunk is not compared with the offset.
AcceptsAny(r) == msg[r].kind = "chunk"

\* The body is read and appended: the expected chunk, or the whole content
\* of a request without Content-Range.
Accepts(r) ==
  \/ msg[r].kind = "chunk" /\ msg[r].start = offset
  \/ msg[r].kind = "whole"

\* A body without Content-Range is the whole object.
FirstByte(r) == IF msg[r].kind = "whole" THEN 0 ELSE msg[r].start

Chunk(r) ==
  /\ Holds(r)
  /\ ~done
  /\ Accepts(r)
  /\ bw' = bw \o Bytes(FirstByte(r), msg[r].end)
  /\ offset' = offset + (msg[r].end - FirstByte(r))
  /\ FinishOrContinue(r, IF msg[r].kind = "whole" THEN offset'
                         ELSE msg[r].total)

\* Faulty variant: the session is given up.
ChunkBrokenForgets(r) ==
  /\ checksum \in Breaking
  /\ Holds(r)
  /\ ~done
  /\ Accepts(r)
  /\ listed' = FALSE
  /\ tmpfile' = FALSE
  /\ UNCHANGED offset
  /\ Answer(r, "error")
  /\ UNCHANGED <<done, mu, bw, committed, checksum, acked, told>>

\* io.Copy fails, after any part of the body or after all of it, or the body is
\* shorter or longer than Content-Range announces.  What was read stays in the
\* writer and the offset stays where it was.
ChunkBroken(r) ==
  /\ checksum \in Breaking
  /\ Holds(r)
  /\ ~done
  /\ Accepts(r)
  /\ UNCHANGED offset
  /\ \E upto \in FirstByte(r)..N :
       /\ bw' = bw \o Bytes(FirstByte(r), upto)
       /\ \/ Answer(r, "error")
          \/ /\ msg[r].kind = "chunk" /\ upto # msg[r].end
             /\ Answer(r, "badrequest")
  /\ UNCHANGED <<listed, done, mu, tmpfile, committed, checksum, acked, told>>

\* Faulty variant: a mismatch does not abort the writer.
MismatchKeepsFile(r) ==
  /\ msg[r].stage = "commit"
  /\ mu' = Nil
  /\ UNCHANGED <<listed, done, offset, bw, checksum, acked, told>>
  /\ \/ /\ checksum /\ bw # Content
        /\ UNCHANGED <<committed, tmpfile>>
        /\ Answer(r, "invalid")
     \/ /\ checksum => bw = Content
        /\ tmpfile' = FALSE
        /\ committed' = bw
        /\ Answer(r, "ok")

\* commitUpload: a wrong checksum, which is taken to show any difference of
\* content, and a missing name abort the writer; BlobWriter.Commit installs the
\* object or refuses it, and removes the temp file either way.
CommitUpload(r) ==
  /\ msg[r].stage = "commit"
  /\ mu' = Nil
  /\ tmpfile' = FALSE
  /\ UNCHANGED <<listed, done, offset, bw, checksum, acked, told>>
  /\ \/ /\ checksum /\ bw # Content
        /\ UNCHANGED committed
        /\ Answer(r, "invalid")
     \/ /\ checksum => bw = Content
        /\ \/ committed' = bw /\ Answer(r, "ok")
           \/ UNCHANGED committed /\ Answer(r, "refused")

Next ==
  \/ Start
  \/ \E r \in Requests :
       \/ Send(r) \/ Lose(r) \/ Receive(r)
       \/ Lookup(r) \/ AlreadyDone(r) \/ Probe(r) \/ Malformed(r)
       \/ OutOfOrder(r) \/ Chunk(r) \/ ChunkBroken(r) \/ CommitUpload(r)

Spec == Init /\ [][Next]_vars

-----------------------------------------------------------------------------
(***************************************************************************)
(* Properties.                                                             *)
(***************************************************************************)

Messages ==
  [stage  : {"unsent", "sent", "found", "commit", "answered", "over"},
   kind   : {"chunk", "probe", "whole", "malformed"},
   start  : 0..N,
   end    : 0..N,
   total  : {N, Unknown},
   status : {"none", "incomplete", "error", "notfound", "gone", "ok", "invalid",
             "refused", "badrequest"},
   range  : 0..N]

\* Every variable has its type; no offset passes the end of the object.
TypeOK ==
  /\ {checksum, listed, done, tmpfile} \subseteq BOOLEAN
  /\ mu \in Requests \cup {Nil}
  /\ offset \in 0..N
  /\ bw \in Seq(1..N)
  /\ committed \in Seq(1..N) \cup {Nil}
  /\ msg \in [Requests -> Messages]
  /\ acked \in 0..N
  /\ told \in {"nothing", "started", "ok", "notfound", "gone", "invalid",
               "refused", "badrequest"}

\* Whatever is lost, repeated or reordered between client and server, the
\* object that a resumable session commits is the client's content, byte for
\* byte.
Integrity == committed \in {Nil, Content}

\* The offset a session reports is what the writer holds: resuming from it
\* neither repeats nor skips a byte, as long as bodies arrive whole.
OffsetIsStored == checksum \notin Breaking => bw = Bytes(0, offset)

\* What a client is told of the outcome is true, whichever answers were lost or
\* overtaken: an upload called complete can be read, and a session is unknown
\* only when it has been finalized, so that no other failure ends one that the
\* client may still resume.
AnswersTrue ==
  /\ told = "ok" => committed = Content
  /\ told \in {"notfound", "gone"} => done

\* A session that is no longer listed and not being committed has left no
\* temp file: on every outcome of commitUpload.
NoTempFileLeft ==
  told # "nothing" /\ ~listed /\ mu = Nil => ~tmpfile

-----------------------------------------------------------------------------
(***************************************************************************)
(* Why they hold: the inductive invariant.                                 *)
(***************************************************************************)

\* What the client asks: a chunk has bytes, a body without Content-Range is
\* the whole object, and one session is not sent both.
SentInv ==
  \A r \in Requests :
    /\ msg[r].stage = "unsent" => msg[r].kind = "probe"
    /\ msg[r].kind = "chunk" => msg[r].start < msg[r].end
    /\ msg[r].kind = "whole" => msg[r].end = N
    /\ msg[r].kind = "chunk" => \A q \in Requests : msg[q].kind # "whole"

\* A session is listed until it is finalized, which needs all N bytes; before
\* that only chunks have moved its offset.
SessionInv ==
  /\ told = "nothing" =>
       /\ ~done /\ offset = 0 /\ bw = <<>>
       /\ \A r \in Requests : msg[r].stage = "unsent"
  /\ told # "nothing" => listed = ~done
  /\ done => offset = N
  /\ done /\ mu = Nil => ~tmpfile
  /\ ~done /\ offset # 0 => \E r \in Requests : msg[r].kind = "chunk"
  /\ \A r \in Requests : msg[r].stage = "commit" => done

\* An answer under way is true when it arrives, however late.
AnswerInv ==
  \A r \in Requests :
    /\ msg[r].stage = "answered" => msg[r].status # "none"
    /\ msg[r].status \in {"notfound", "gone"} => done
    /\ msg[r].status = "ok" /\ FALSE \notin Breaking => committed = Content

OutcomeInv == FALSE \notin Breaking => Integrity /\ AnswersTrue

IndInv ==
  /\ TypeOK /\ SentInv /\ SessionInv
  /\ OffsetIsStored /\ AnswerInv /\ OutcomeInv

=============================================================================
