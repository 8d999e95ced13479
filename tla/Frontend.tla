------------------------------ MODULE Frontend ------------------------------
(***************************************************************************)
(* A client's requests from the URL to the store, through either API: the  *)
(* path is routed (Routing), an upload's body is read (AwsChunked), and    *)
(* the handler acts on the bucket and the name it was given.  The requests *)
(* come one at a time; their overlap is the subject of Bucket and Store.   *)
(* The handlers of multipart and resumable uploads are modelled in         *)
(* Multipart and Resumable and those of listings in Listing: here they are *)
(* only found.                                                             *)
(***************************************************************************)
EXTENDS Routing, AwsChunked

CONSTANTS
  Buckets,     \* bucket names
  Keys,        \* object names that clients use
  Contents,    \* what they upload, sequences of bytes
  MaxRequests  \* bound on the number of requests

ASSUME FrontendAssumption ==
  /\ \A b \in Buckets : b \in Seq(Words) /\ Len(b) = 1 /\ b[1] \notin {"/", "%2F"}
  /\ \A k \in Keys :
       k \in Seq(Words) /\ Len(k) > 0 /\ \A i \in 1..Len(k) : k[i] # "%2F"
  /\ \A c \in Contents : Len(c) \in Nat
  /\ MaxRequests \in Nat

VARIABLES
  stage,    \* "idle", "act" or "body"
  req,      \* the request, as the client means it
  to,       \* the handler, bucket and name the server makes of it
  content,  \* what the client uploads
  buckets,  \* buckets of the store
  objects,  \* objects of the store
  want,     \* objects of the store as the answers make the clients believe
  exact,    \* no answered request has left the bounds of Faithful
  count     \* requests so far

store == <<buckets, objects>>
vars == <<stage, req, to, content, store, want, exact, count, body>>

-----------------------------------------------------------------------------
(***************************************************************************)
(* What the clients send: the AWS SDKs escape everything but "/" in a key, *)
(* the GCS client escapes "/" too, except where it reads an object by the  *)
(* direct path.                                                            *)
(***************************************************************************)

Call(api, do, via, method, with) ==
  [api |-> api, do |-> do, via |-> via, method |-> method, with |-> with]

S3Calls ==
  { Call("s3", "listBuckets", "root", "GET", {}),
    Call("s3", "createBucket", "bucket", "PUT", {}),
    Call("s3", "headBucket", "bucket", "HEAD", {}),
    Call("s3", "deleteBucket", "bucket", "DELETE", {}),
    Call("s3", "getBucketLocation", "bucket", "GET", {"location"}),
    Call("s3", "listObjects", "bucket", "GET", {}),
    Call("s3", "deleteObjects", "bucket", "POST", {"delete"}),
    Call("s3", "putObject", "object", "PUT", {}),
    Call("s3", "getObject", "object", "GET", {}),
    Call("s3", "getObject", "object", "HEAD", {}),
    Call("s3", "deleteObject", "object", "DELETE", {}),
    Call("s3", "copyObject", "object", "PUT", {"copy"}),
    Call("s3", "initiateMultipartUpload", "object", "POST", {"uploads"}),
    Call("s3", "uploadPart", "object", "PUT", {"uploadId", "partNumber"}),
    Call("s3", "uploadPart", "object", "PUT", {"uploadId", "partNumber", "copy"}),
    Call("s3", "completeMultipartUpload", "object", "POST", {"uploadId"}),
    Call("s3", "abortMultipartUpload", "object", "DELETE", {"uploadId"}) }

GCSCalls ==
  { Call("gcs", "listBuckets", "json", "GET", {}),
    Call("gcs", "createBucket", "json", "POST", {}),
    Call("gcs", "getBucket", "jsonBucket", "GET", {}),
    Call("gcs", "deleteBucket", "jsonBucket", "DELETE", {}),
    Call("gcs", "listObjects", "jsonList", "GET", {}),
    Call("gcs", "getObject", "jsonObject", "GET", {}),
    Call("gcs", "serveMedia", "jsonObject", "GET", {"alt"}),
    Call("gcs", "deleteObject", "jsonObject", "DELETE", {}),
    Call("gcs", "serveMedia", "download", "GET", {"alt"}),
    Call("gcs", "serveMedia", "object", "GET", {}),
    Call("gcs", "putObject", "upload", "POST", {"media"}),
    Call("gcs", "putObject", "upload", "POST", {"multipart"}),
    Call("gcs", "startResumableUpload", "upload", "POST", {"resumable"}),
    Call("gcs", "handleResumableChunk", "upload", "PUT", {"resumable", "upload_id"}) }

OfObject == {"object", "jsonObject", "download", "upload"}

V1 == <<"/", "storage", "/", "v1", "/", "b">>

Path(r) ==
  LET b == <<"/">> \o r.bucket
      o == b \o <<"/", "o">>
      k == <<"/">> \o Escape(r.name)
  IN CASE r.via = "root"       -> <<"/">>
       [] r.via = "bucket"     -> b
       [] r.via = "object"     -> b \o <<"/">> \o r.name
       [] r.via = "json"       -> V1
       [] r.via = "jsonBucket" -> V1 \o b
       [] r.via = "jsonList"   -> V1 \o o
       [] r.via = "jsonObject" -> V1 \o o \o k
       [] r.via = "download"   -> <<"/", "download">> \o V1 \o o \o k
       [] r.via = "upload"     -> <<"/", "upload">> \o V1 \o o

Requests ==
  { [api |-> c.api, do |-> c.do, via |-> c.via, method |-> c.method,
     with |-> c.with, bucket |-> b, name |-> k, source |-> s] :
      c \in S3Calls \cup GCSCalls, b \in Buckets, k \in Keys, s \in Keys }

\* Only a copy has a source.
Meant == {r \in Requests : r.do # "copyObject" => r.source = r.name}

ServeHTTP(r) ==
  IF r.api = "s3" THEN S3ServeHTTP(r, Path(r)) ELSE GCSServeHTTP(r, Path(r))

\* x-amz-copy-source is unescaped and cut at its first "/".
ParseCopySource(src) ==
  LET i == Min({j \in 1..Len(src) : src[j] = "/"})
  IN <<SubSeq(src, 1, i - 1), SubSeq(src, i + 1, Len(src))>>

-----------------------------------------------------------------------------

Named(b, n) == {o \in objects : o.at = <<b, n>>}

Put(O, at, c) == {o \in O : o.at # at} \cup {[at |-> at, content |-> c]}

Drop(O, at) == {o \in O : o.at # at}

NoRequest == CHOOSE r \in Meant : r.do = "listBuckets"

Init ==
  /\ stage = "idle"
  /\ req = NoRequest
  /\ to = Refused
  /\ content = <<>>
  /\ buckets = Buckets
  /\ objects = {}
  /\ want = {}
  /\ exact = TRUE
  /\ count = 0
  /\ NoBody

\* A request arrives.  An upload to a bucket that is there has its body read.
Send(r) ==
  /\ stage = "idle"
  /\ count < MaxRequests
  /\ count' = count + 1
  /\ req' = r
  /\ to' = ServeHTTP(r)
  /\ \/ /\ to'.handler = "putObject"
        /\ to'.bucket \in buckets
        /\ stage' = "body"
        /\ \E c \in Contents :
             /\ content' = Bytes(c)
             /\ \/ RequestBody(Bytes(c), FALSE)
                \/ r.api = "s3" /\ RequestBody(Bytes(c), TRUE)
     \/ /\ ~ (to'.handler = "putObject" /\ to'.bucket \in buckets)
        /\ stage' = "act"
        /\ UNCHANGED <<content, body>>
  /\ UNCHANGED <<store, want, exact>>

\* A path keeps the request's bucket and name, unless an unescaped name ends
\* in "/" or the direct path of GCS begins like one of its own.
Faithful(r) ==
  r.via = "object" =>
    /\ Last(r.name) # "/"
    /\ r.api = "gcs" => r.bucket \notin {<<"storage">>, <<"upload">>, <<"download">>}

Answer ==
  /\ stage' = "idle"
  /\ exact' = (exact /\ Faithful(req) /\ ~inside)
  /\ req' = NoRequest
  /\ to' = Refused
  /\ content' = <<>>
  /\ CloseBody
  /\ UNCHANGED count

\* What the answer makes the client believe.
Believed(ok) ==
  LET at == <<req.bucket, req.name>>
      from == {o \in want : o.at = <<req.bucket, req.source>>}
  IN IF ~ok THEN want
     ELSE CASE req.do = "putObject" -> Put(want, at, content)
            [] req.do \in {"deleteObject", "deleteObjects"} -> Drop(want, at)
            [] req.do = "copyObject" -> UNION {Put(want, at, o.content) : o \in from}
            [] OTHER -> want

\* The copy is done: PutObject commits what it has read, or aborts.
FinishPut ==
  /\ stage = "body"
  /\ phase \in {"eof", "error"}
  /\ LET ok == phase = "eof"
     IN /\ objects' = IF ok THEN Put(objects, <<to.bucket, to.key>>, out) ELSE objects
        /\ want' = Believed(ok)
        /\ Answer
  /\ UNCHANGED buckets

CreateBucket ==
  /\ stage = "act"
  /\ to.handler = "createBucket"
  /\ buckets' = buckets \cup {to.bucket}
  /\ Answer
  /\ UNCHANGED <<objects, want>>

DeleteBucket ==
  /\ stage = "act"
  /\ to.handler = "deleteBucket"
  /\ LET empty == \A o \in objects : o.at[1] # to.bucket
     IN buckets' = IF empty THEN buckets \ {to.bucket} ELSE buckets
  /\ Answer
  /\ UNCHANGED <<objects, want>>

Delete(at, ok) ==
  /\ objects' = IF ok THEN Drop(objects, at) ELSE objects
  /\ want' = Believed(ok)
  /\ Answer
  /\ UNCHANGED buckets

\* S3 also acknowledges the deletion of an object that is not there.
DeleteObject ==
  /\ stage = "act"
  /\ to.handler = "deleteObject"
  /\ Delete(<<to.bucket, to.key>>,
            /\ to.bucket \in buckets
            /\ req.api = "s3" \/ Named(to.bucket, to.key) # {})

\* A batch delete names its key in the body.
DeleteObjects ==
  /\ stage = "act"
  /\ to.handler = "deleteObjects"
  /\ Delete(<<to.bucket, req.name>>, to.bucket \in buckets)

CopyObject ==
  /\ stage = "act"
  /\ to.handler = "copyObject"
  /\ LET src == ParseCopySource(req.bucket \o <<"/">> \o req.source)
         from == Named(src[1], src[2])
         ok == from # {} /\ to.bucket \in buckets
     IN /\ objects' = IF ok THEN Put(objects, <<to.bucket, to.key>>,
                                     (CHOOSE o \in from : TRUE).content)
                            ELSE objects
        /\ want' = Believed(ok)
        /\ Answer
  /\ UNCHANGED buckets

\* A stand-in for reads, and for the handlers that other modules are about.
Other ==
  /\ stage = "act"
  /\ to.handler \notin {"createBucket", "deleteBucket", "deleteObject",
                        "deleteObjects", "copyObject"}
  /\ Answer
  /\ UNCHANGED <<store, want>>

Outside == <<stage, req, to, content, store, want, exact, count>>

Act ==
  \/ FinishPut \/ CopyObject \/ Other
  \/ CreateBucket \/ DeleteBucket \/ DeleteObject \/ DeleteObjects

Next ==
  \/ \E r \in Meant : Send(r)
  \/ Act
  \/ stage = "body" /\ Read /\ UNCHANGED Outside
  \/ stage = "body" /\ SendFrame /\ UNCHANGED Outside
  \/ stage = "body" /\ (\E how \in {"eof", "broken"} : EndBody(how)) /\ UNCHANGED Outside

Spec == Init /\ [][Next]_vars

\* The handler goes on as long as the client has sent something; nothing makes
\* the client send it.
FairSpec ==
  Spec /\ WF_vars(Act \/ (stage = "body" /\ Read /\ UNCHANGED Outside))

-----------------------------------------------------------------------------
(***************************************************************************)
(* Properties.                                                             *)
(***************************************************************************)

\* A request reaches the handler it is meant for with the bucket and the name
\* it was given, whichever API and path carry them: "/" inside and at the
\* start of a name and escaped "/" survive, no switch hides a later case.
ActsAsNamed ==
  stage # "idle" /\ Faithful(req) =>
    to = To(req.do,
            IF req.do = "listBuckets" /\ req.api = "s3" THEN <<>> ELSE req.bucket,
            IF req.via \in OfObject THEN req.name ELSE <<>>)

\* The store holds what its answers make clients believe, over any sequence of
\* requests of both APIs: an acknowledged upload is there under its name with
\* its whole content, whatever happens to the connection, and nothing else
\* changes.  A body that ends cleanly inside a chunk and a name that the path
\* does not keep are the exceptions.
StoreMatchesClients == exact => objects = want

\* A request is routed once, as it arrives.
RoutedInv ==
  stage # "idle" =>
    /\ req \in Meant
    /\ to = ServeHTTP(req)
    /\ stage = "body" => to.handler = "putObject"

Payload == UNION {{Byte(c[i]) : i \in 1..Len(c)} : c \in Contents}

\* The part of the content that is neither copied nor unsent.
Held == SubSeq(content, Len(out) + 1, Len(content) - Len(unsent))

\* What is copied begins the content, and what is unsent ends it.
CopiedInv ==
  stage = "body" =>
    /\ content \in Seq(Payload) /\ out \in Seq(Payload) /\ unsent \in Seq(Payload)
    /\ Len(out) + Len(unsent) <= Len(content)
    /\ out = SubSeq(content, 1, Len(out))
    /\ unsent = SubSeq(content, Len(content) - Len(unsent) + 1, Len(content))
    /\ ended \in {"open", "eof", "broken"}
    /\ phase \in {"plain", "header", "data", "crlf", "trailer", "eof", "error"}

\* The wire holds the rest of the frame that the reader is in.
WireInv ==
  stage = "body" /\ ended = "open" =>
    /\ phase = "plain" => wire = Held /\ unsent = <<>>
    /\ phase = "header" =>
         \/ Held # <<>> /\ wire = Chunk(Held)
         \/ Held = <<>> /\ (wire = <<>> \/ wire \in Odd)
         \/ Held = <<>> /\ unsent = <<>> /\ wire \in Ends
    /\ phase = "data" =>
         Held # <<>> /\ remaining = Len(Held) /\ wire = Held \o <<CR, LF>>
    /\ phase = "crlf" =>
         /\ Held = <<>>
         /\ (crlf = 2 /\ wire = <<CR, LF>>) \/ (crlf = 1 /\ wire = <<LF>>)
    /\ phase \in {"trailer", "eof"} => out = content

\* A copy that may still succeed once the body has ended has it all, unless
\* the body ended cleanly inside the content.
EndedInv ==
  stage = "body" /\ ended # "open" =>
    /\ wire = <<>>
    /\ phase = "trailer" => out = content
    /\ phase = "eof" => inside \/ out = content
    /\ ended = "eof" /\ phase \in {"plain", "data", "crlf"} => inside \/ out = content

OnePerName == \A o, p \in objects : o.at = p.at => o = p

\* Together they are inductive: a request goes where it is meant to, and the
\* reader never loses count of the frames.
IndInv ==
  RoutedInv /\ CopiedInv /\ WireInv /\ EndedInv /\ OnePerName /\ StoreMatchesClients

\* Once its body has ended in whatever way, an upload is answered.
UploadDecided == stage = "body" /\ ended # "open" ~> stage = "idle"

=============================================================================
