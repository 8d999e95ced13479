----------------------------- MODULE AwsChunked -----------------------------
(***************************************************************************)
(* The body of an upload request as the handler reads it: requestBody and  *)
(* awsChunkedReader (pkg/s3/awschunked.go) under the io.Copy of PutObject  *)
(* (pkg/store/blobwriter.go).  The client sends a plain body or one in     *)
(* aws-chunked framing; the body may end early, or the connection break.   *)
(*                                                                         *)
(* The wire carries the bytes of the content and the lines of the framing. *)
(* The bytes are none that pass for a line.  A Read may return less than   *)
(* it was asked for, so the reader takes one byte at a time.               *)
(***************************************************************************)
EXTENDS Integers, SequencesExt

VARIABLES
  wire,       \* what the client has sent and the reader has still to read
  unsent,     \* the part of the content that the client has still to frame
  ended,      \* how the body ended: "open", "eof" or "broken"
  inside,     \* TRUE when a body ended cleanly before its content did
  phase,      \* what the reader expects next; "eof" and "error" are final
  remaining,  \* c.remaining
  crlf,       \* bytes discardCRLF has still to read
  out         \* what io.Copy has written to the BlobWriter

body == <<wire, unsent, ended, inside, phase, remaining, crlf, out>>

Byte(v) == [k |-> "byte", v |-> v]
Size(n) == [k |-> "size", n |-> n]
NotHex == [k |-> "junk"]
CR == [k |-> "cr"]
LF == [k |-> "lf"]
Trailer == [k |-> "line"]
Blank == [k |-> "blank"]

Bytes(c) == [i \in 1..Len(c) |-> Byte(c[i])]

Chunk(x) == <<Size(Len(x))>> \o x \o <<CR, LF>>

\* What ends the chunks, with or without a trailing checksum.
Ends == {<<Size(0), Blank>>, <<Size(0), Trailer, Blank>>}

\* Lines that no SDK produces: a negative size, and one that is no number.
Odd == {<<Size(-1)>>, <<NotHex>>}

NoBody ==
  /\ wire = <<>>
  /\ unsent = <<>>
  /\ ended = "eof"
  /\ inside = FALSE
  /\ phase = "none"
  /\ remaining = 0
  /\ crlf = 0
  /\ out = <<>>

\* requestBody wraps the body of a streaming upload and passes on any other.
RequestBody(x, streaming) ==
  /\ wire' = IF streaming THEN <<>> ELSE x
  /\ unsent' = IF streaming THEN x ELSE <<>>
  /\ ended' = "open"
  /\ inside' = FALSE
  /\ phase' = IF streaming THEN "header" ELSE "plain"
  /\ remaining' = 0
  /\ crlf' = 0
  /\ out' = <<>>

\* The handler returns, and the body with it.
CloseBody ==
  /\ wire' = <<>>
  /\ unsent' = <<>>
  /\ ended' = "eof"
  /\ inside' = FALSE
  /\ phase' = "none"
  /\ remaining' = 0
  /\ crlf' = 0
  /\ out' = <<>>

\* The client cuts a chunk off its content, of any length, or ends a content
\* that it has sent, or sends an odd line.
SendFrame ==
  /\ ended = "open"
  /\ phase = "header"
  /\ wire = <<>>
  /\ \/ \E n \in 1..Len(unsent) :
          /\ wire' = Chunk(SubSeq(unsent, 1, n))
          /\ unsent' = SubSeq(unsent, n + 1, Len(unsent))
     \/ /\ unsent = <<>>
        /\ wire' \in Ends
        /\ UNCHANGED unsent
     \/ /\ wire' \in Odd
        /\ UNCHANGED unsent
  /\ UNCHANGED <<ended, inside, phase, remaining, crlf, out>>

\* The body ends, where the client meant it to or before: cleanly, when the
\* HTTP framing says so, or because the connection breaks.
EndBody(how) ==
  /\ ended = "open"
  /\ ended' = how
  /\ wire' = <<>>
  /\ inside' = (how = "eof" /\ wire # <<>> /\ phase \in {"data", "crlf", "plain"})
  /\ UNCHANGED <<unsent, phase, remaining, crlf, out>>

-----------------------------------------------------------------------------
(***************************************************************************)
(* The reader.  An io.EOF ends the copy as a success; every other error,   *)
(* wrapped ones included, fails it.                                        *)
(***************************************************************************)

Spent == wire = <<>> /\ ended # "open"

Take == wire # <<>> /\ wire' = Tail(wire)

AtEnd == IF ended = "eof" THEN "eof" ELSE "error"

\* Faulty variant: the end of the body in place of a header ends the content.
NoHeaderEOF == AtEnd

\* The error of ReadString is wrapped: even io.EOF fails the copy.
NoHeader == "error"

\* A header line.  A negative size leaves nothing to read, and the next line
\* is a header again.
ReadHeader ==
  /\ phase = "header"
  /\ \/ /\ Spent
        /\ phase' = NoHeader
        /\ UNCHANGED <<wire, remaining>>
     \/ /\ Take
        /\ Head(wire).k # "size"
        /\ phase' = "error"
        /\ UNCHANGED remaining
     \/ /\ Take
        /\ Head(wire).k = "size"
        /\ phase' = CASE Head(wire).n = 0 -> "trailer"
                      [] Head(wire).n > 0 -> "data"
                      [] Head(wire).n < 0 -> "header"
        /\ remaining' = Head(wire).n
  /\ UNCHANGED <<unsent, ended, inside, crlf, out>>

\* A byte of a chunk; after the last one, the line end is discarded.
ReadData ==
  /\ phase = "data"
  /\ \/ /\ Spent
        /\ phase' = AtEnd
        /\ UNCHANGED <<wire, remaining, crlf, out>>
     \/ /\ Take
        /\ out' = Append(out, Head(wire))
        /\ remaining' = remaining - 1
        /\ phase' = IF remaining' = 0 THEN "crlf" ELSE "data"
        /\ crlf' = 2
  /\ UNCHANGED <<unsent, ended, inside>>

DiscardCRLF ==
  /\ phase = "crlf"
  /\ \/ /\ Spent
        /\ phase' = AtEnd
        /\ UNCHANGED <<wire, crlf>>
     \/ /\ Take
        /\ Head(wire).k \in {"cr", "lf"}
        /\ crlf' = crlf - 1
        /\ phase' = IF crlf' = 0 THEN "header" ELSE "crlf"
     \/ /\ Take
        /\ Head(wire).k \notin {"cr", "lf"}
        /\ phase' = "error"
        /\ UNCHANGED crlf
  /\ UNCHANGED <<unsent, ended, inside, remaining, out>>

\* Faulty variant: only a blank line ends the trailers.
ReadTrailerToBlank ==
  /\ phase = "trailer"
  /\ Take
  /\ phase' = IF Head(wire) = Blank THEN "eof" ELSE "trailer"
  /\ UNCHANGED <<unsent, ended, inside, remaining, crlf, out>>

\* Trailers are skipped up to a blank line or the end.  A connection that
\* breaks leaves an empty line, which ends them too, or the part of a line.
ReadTrailer ==
  /\ phase = "trailer"
  /\ \/ /\ Spent
        /\ phase' \in {"eof", AtEnd}
        /\ UNCHANGED wire
     \/ /\ Take
        /\ phase' = IF Head(wire) = Blank THEN "eof" ELSE "trailer"
  /\ UNCHANGED <<unsent, ended, inside, remaining, crlf, out>>

\* A body that is not aws-chunked, as net/http hands it on.
ReadPlain ==
  /\ phase = "plain"
  /\ \/ /\ Spent
        /\ phase' = AtEnd
        /\ UNCHANGED <<wire, out>>
     \/ /\ Take
        /\ out' = Append(out, Head(wire))
        /\ UNCHANGED phase
  /\ UNCHANGED <<unsent, ended, inside, remaining, crlf>>

Read ==
  ReadHeader \/ ReadData \/ DiscardCRLF \/ ReadTrailer \/ ReadPlain

=============================================================================
