------------------------------ MODULE Routing ------------------------------
(***************************************************************************)
(* How a request finds its handler, its bucket and its object name:        *)
(* ServeHTTP of both servers (pkg/gcs/server.go, pkg/s3/server.go) and     *)
(* handleUpload (pkg/gcs/upload.go).                                       *)
(*                                                                         *)
(* A name is a sequence of words and "/"; an escaped path may also have    *)
(* "%2F".  net/http has checked the escapes, so none is invalid here.      *)
(***************************************************************************)
EXTENDS Integers, FiniteSetsExt, SequencesExt

CONSTANT Words  \* what paths are made of

ASSUME RoutingAssumption ==
  {"/", "%2F", "storage", "v1", "b", "o", "upload", "download"} \subseteq Words

Trim(path) ==
  LET I == {i \in 1..Len(path) : path[i] # "/"}
  IN IF I = {} THEN <<>> ELSE SubSeq(path, Min(I), Max(I))

Unescape(word) == IF word = "%2F" THEN "/" ELSE word

Escape(name) == ReplaceAll(name, "/", "%2F")

\* The segments between the slashes, each of them unescaped.
Split[path \in Seq(Words)] ==
  IF path = <<>> THEN << <<>> >>
  ELSE LET word == Head(path)
           rest == Split[Tail(path)]
       IN IF word = "/" THEN << <<>> >> \o rest
          ELSE << <<Unescape(word)>> \o Head(rest) >> \o Tail(rest)

\* Faulty variant: the path is unescaped before it is trimmed.
SplitPathDecoded(path) ==
  LET trimmed == Trim([i \in 1..Len(path) |-> Unescape(path[i])])
  IN IF trimmed = <<>> THEN <<>> ELSE Split[trimmed]

SplitPath(path) == IF Trim(path) = <<>> THEN <<>> ELSE Split[Trim(path)]

Join[segs \in Seq(Seq(Words))] ==
  IF segs = <<>> THEN <<>>
  ELSE IF Tail(segs) = <<>> THEN Head(segs)
  ELSE Head(segs) \o <<"/">> \o Join[Tail(segs)]

To(handler, bucket, key) ==
  [handler |-> handler, bucket |-> bucket, key |-> key]

Refused == To("refused", <<>>, <<>>)

\* The first case of a switch that applies; the last arm refuses the request.
Switch(cases) ==
  LET I == {i \in 1..Len(cases) : cases[i][1]}
  IN IF I = {} THEN "refused" ELSE cases[Min(I)][2]

-----------------------------------------------------------------------------
(***************************************************************************)
(* S3.  A call is a method and the query parameters and headers that the   *)
(* switches look at.                                                       *)
(***************************************************************************)

HandleBucket(c) == Switch(
  << <<c.method = "POST" /\ "delete" \in c.with, "deleteObjects">>,
     <<c.method = "GET" /\ "location" \in c.with, "getBucketLocation">>,
     <<c.method = "GET", "listObjects">>,
     <<c.method = "PUT", "createBucket">>,
     <<c.method = "HEAD", "headBucket">>,
     <<c.method = "DELETE", "deleteBucket">> >>)

HandleObject(c) == Switch(
  << <<c.method = "PUT" /\ {"uploadId", "partNumber"} \subseteq c.with, "uploadPart">>,
     <<c.method = "POST" /\ "uploads" \in c.with, "initiateMultipartUpload">>,
     <<c.method = "POST" /\ "uploadId" \in c.with, "completeMultipartUpload">>,
     <<c.method = "DELETE" /\ "uploadId" \in c.with, "abortMultipartUpload">>,
     <<c.method = "PUT" /\ "copy" \in c.with, "copyObject">>,
     <<c.method = "PUT", "putObject">>,
     <<c.method \in {"GET", "HEAD"}, "getObject">>,
     <<c.method = "DELETE", "deleteObject">> >>)

S3ServeHTTP(c, path) ==
  LET segs == SplitPath(path)
  IN CASE Len(segs) = 0 -> IF c.method = "GET" THEN To("listBuckets", <<>>, <<>>)
                                               ELSE Refused
       [] Len(segs) = 1 -> To(HandleBucket(c), segs[1], <<>>)
       [] Len(segs) > 1 -> To(HandleObject(c), segs[1], Join[Tail(segs)])

-----------------------------------------------------------------------------
(***************************************************************************)
(* GCS.  An upload carries its name in the query or its metadata.          *)
(***************************************************************************)

HandleUpload(c) == Switch(
  << <<"upload_id" \in c.with, "handleResumableChunk">>,
     <<c.method = "POST" /\ "media" \in c.with, "putObject">>,
     <<c.method = "POST" /\ "multipart" \in c.with, "putObject">>,
     <<c.method = "POST" /\ "resumable" \in c.with, "startResumableUpload">> >>)

HandleStorageV1(c, segs) ==
  CASE Len(segs) = 0 ->
         To(Switch(<< <<c.method = "GET", "listBuckets">>,
                      <<c.method = "POST", "createBucket">> >>), c.bucket, <<>>)
    [] Len(segs) = 1 ->
         To(Switch(<< <<c.method = "GET", "getBucket">>,
                      <<c.method = "DELETE", "deleteBucket">> >>), segs[1], <<>>)
    [] Len(segs) = 2 ->
         To(Switch(<< <<segs[2] = <<"o">> /\ c.method = "GET", "listObjects">> >>),
            segs[1], <<>>)
    [] Len(segs) > 2 ->
         To(Switch(<< <<segs[2] # <<"o">>, "refused">>,
                      <<c.method = "GET" /\ "alt" \in c.with, "serveMedia">>,
                      <<c.method = "GET", "getObject">>,
                      <<c.method = "DELETE", "deleteObject">> >>),
            segs[1], Join[SubSeq(segs, 3, Len(segs))])

Storage == << <<"storage">>, <<"v1">>, <<"b">> >>

GCSServeHTTP(c, path) ==
  LET segs == SplitPath(path)
      n == Len(segs)
      Under(word) == n >= 6 /\ SubSeq(segs, 1, 4) = << <<word>> >> \o Storage
                            /\ segs[6] = <<"o">>
  IN IF n >= 3 /\ SubSeq(segs, 1, 3) = Storage
     THEN HandleStorageV1(c, SubSeq(segs, 4, n))
     ELSE IF n = 6 /\ Under("upload")
     THEN To(HandleUpload(c), segs[5], c.name)
     ELSE IF n >= 7 /\ Under("download")
     THEN To("serveMedia", segs[5], Join[SubSeq(segs, 7, n)])
     ELSE IF n >= 2 /\ c.method \in {"GET", "HEAD"}
     THEN To("serveMedia", segs[1], Join[Tail(segs)])
     ELSE Refused

=============================================================================
