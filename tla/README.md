# A TLA+ model of objectstorage

`objectstorage` is a single-process object store for a NAS that speaks the GCS
JSON API and the S3 API over one set of buckets. This directory holds TLA+
specifications of its core, the TLC models that check them, and TLAPS proofs.
Source paths below are relative to `src/`.

## The system

| part | state | operations | hard behaviour | what makes it correct |
|---|---|---|---|---|
| bucket contents (`pkg/store/bucket.go`, `blobwriter.go`, `types.go`) | tables `objects` and `blobs` of `data.sqlite`; blob files `objects/<hh>/<sha256>`; temp files; `commitMu` | upload (`NewBlobWriter`, `Write`, `Commit`, `Abort`), `DeleteObject`, `OpenObject`, `GetObject`, `ListObjects` | tables and files change in separate steps; readers take no lock; the process may stop anywhere | refcounts exact; blob of a live object present; no garbage; generations grow; preconditions atomic |
| store (`pkg/store/store.go`) | bucket directories; map of open handles under `s.mu` | `CreateBucket`, `GetBucket`, `ListBuckets`, `DeleteBucket`, `bucket`, `openBucket`, `Close` | lookup, stat and open are separate; deletion takes many file operations; writers keep handles | one handle per bucket; only empty buckets disappear; a name is either in use or free |
| resumable uploads (`pkg/gcs/upload.go`) | `s.sessions`; per session `mu`, `offset`, `done`, a BlobWriter | start, chunk, probe, commit | lost, repeated, reordered requests; bodies that break off | the committed object is what the client sent |
| multipart uploads (`pkg/s3/multipart.go`) | `s.uploads`; per upload `mu`, `parts`, `done`; staged files | initiate, upload part, complete, abort | parts, completes and aborts overlap | one commit, of the listed parts; no staged file left |
| GCS and S3 object requests (`pkg/gcs/objects.go`, `download.go`, `pkg/s3/objects.go`) | none of their own | map HTTP to store calls; read preconditions; copy; batch delete | a copy is a read followed by a write | answers agree with the store |
| listing (`ListObjects`, `listObjects`) | none on the server; the client's cursor | prefix, delimiter, page token, V1 marker; batch delete of a page | bounds on byte strings; the bucket changes between batches and pages | an object that stays is shown once, nothing else is; walks end |
| routing (`pkg/gcs/server.go`, `pkg/s3/server.go`) | none | path to handler, bucket and name | slashes in names; the order of switch cases | a request acts on what it names |
| aws-chunked bodies (`pkg/s3/awschunked.go`) | reader state | `Read` | bodies that end or break anywhere | content is stored whole and without framing, or not at all |
| process (`cmd/objectstorage/main.go`) | two HTTP servers, the store | start, signal, shutdown | requests in flight while servers, store and process end | requests are drained; the store outlives the listeners; the process ends |
| wire formats (`pkg/gcs/resource.go`, `pkg/s3/xml.go`) | none | JSON, XML | none | not modelled |

Requests run in goroutines of their own. They meet in the handle map (`s.mu`),
in a bucket's `commitMu`, in SQLite, in the file system, and in the in-memory
sessions and uploads of the two servers. Locks are taken in the order `up.mu`
or `sess.mu`, `commitMu`, `s.mu`. Nothing in the store asks for one of the first
two, so they stay outermost; `Store` has `commitMu` and `s.mu` together, where a
delete waits for the second while it holds the first.

## Modules

| module | models |
|---|---|
| `ObjectMap` | the promise of a bucket: an atomic conditional map from names to versions |
| `Bucket` | one open bucket, its tables and files, requests step by step |
| `BucketProofs`, `BucketRefinement` | TLAPS proofs about `Bucket`, and that it implements `ObjectMap` |
| `Store` | the life of one bucket name: directories, database file, handles |
| `Resumable` | one resumable session, its client and the network between them |
| `Multipart` | one multipart upload and its overlapping requests |
| `Listing` | one client's walk over the pages of a listing, in a bucket that others change |
| `Routing` | operators: from a path to a handler, a bucket and a name, for both servers |
| `AwsChunked` | the body of an upload as `io.Copy` reads it |
| `Frontend` | `Routing` and `AwsChunked` composed: requests of both APIs from the URL to the store |
| `Shutdown` | the servers, the store and the requests in flight from start to exit |
| `StoreProofs`, `ResumableProofs`, `MultipartProofs`, `ListingProofs`, `FrontendProofs`, `ShutdownProofs` | TLAPS proofs about these modules |
| `MCBucket`, `MCStore`, `MCResumable`, `MCMultipart`, `MCListing`, `MCFrontend`, `MCShutdown` | instances for TLC |

Definitions introduced by "Faulty variant" are deliberately wrong versions of
the definition that follows them. They belong to no specification: each shows
that a property notices that error.

### Bucket

`objects` and `blobs` are the two tables (`Nil`, respectively 0, stands for no
row), `files` the blob files, `tmp` the temp files, `commitMu` the holder of the
lock. A content is identified with its sha256. A request walks through the
stages in `pc`: an upload through `body`, `lock`, `install`, `tx`, `remove`,
`unlock`; a delete enters at `lock`; a read is `query`, then `open`; a copy is
a read that continues as an upload. Each file operation and each transaction
is one step. `"io"` in `Faults` lets the file and database calls fail where
the code checks for it, `"crash"` stops the process at any step. A SQLite
transaction is atomic and survives the crash of the process; what a power
failure does under `synchronous=NORMAL` is not modelled. `Clock` is any set of
times, in any order. `MaxGen` bounds the generations that TLC explores.

Temp files that a crash leaves behind are not followed: nothing ever reads
them (the repository documents that they stay).

### ObjectMap and the refinement

`ObjectMap` has no files, no refcounts and no lock. `Bucket` implements it with
`live <- objects`, `seen <- row`: the transaction is the instant at which an
upload or delete takes effect, the query that of a read. A call answered `ok`
took effect once; any other answer means that it had no effect.

### Store

One bucket name. The request that opens a handle or creates a database file
names it, since every request is made once. `entries` and `path` are the
directory tree, `dbOf` and `open` the handles, `cached` is `s.buckets[name]`,
`mu` and `commitMu` are the holders of the two locks. What runs under `s.mu` waits
for no other lock, so taking it (`LockStore`) and what follows up to its release are
two steps; `DeleteBucket` takes it with `commitMu` held. A `db.Close` that
fails ends the delete with the directory still there.
`os.RemoveAll` is what Go does: read the directory once, remove what was read,
then remove the directory. A handle keeps reading and writing the database it
opened after the file was unlinked, as an open SQLite connection does; that
`database/sql` may open further connections by path is left out. `orderly`
records that every delete so far has run while no other request did, and that
nothing has crashed: several properties are promises to such clients only.

### Resumable

Byte `i` is the number `i`, so the right content is `<<1, ..., N>>`. The client
resumes at the offset it was last told, with chunks of any length, with or
without a known total, or sends its content in one piece without
`Content-Range` (`"whole"`), and probes in between. `Checksums` says whether
sessions may have a checksum, `Breaking` which of the two kinds of session meets
bodies that fail after any part of them, the whole included, or that are shorter
or longer than their `Content-Range` says. A `Content-Range` that cannot be parsed is
refused (`Malformed`). Requests
and answers can be lost or overtaken; a repetition is another request with the
same contents. `sess.mu` is held from the check of `done` to the answer, so a
handler is one step, except the lookup before it and the commit after it.
A checksum mismatch stands for any difference of content. The outcome of
`BlobWriter.Commit` is free: installed or refused.

### Multipart

Each part upload has its own content, and the request names the staged file,
the content and the ETag. Part uploads stage without a lock and publish under
`up.mu`; a complete holds `up.mu` from its check until it has delisted the
upload. Lists of parts may be empty, unsorted, contain a number twice, name
missing parts, and give old, new or no ETags. A bad part number or a list that does
not parse is refused after the lookup, with nothing staged and without `up.mu` (`Malformed`).

### Listing

A name is the sequence of its bytes. `live` is table `objects`; `walk` is what a
client asks for (API, prefix, delimiter, page size, the name to start after,
whether it deletes what it is shown), `cursor` what its next request carries.
`Request` maps the cursor to the inclusive `PageToken` of the store as each API
does, one query and the pass over its batch is one step (`ScanThrough`,
`ScanToLimit`, `ScanToGroup`, by where the pass stops), and `Receive` is the
answer. `Change` is any other client, between any two of these steps.
`PrefixSuccessor` includes Go's `string(byte)`, which encodes a code point.
The history variables `steady` and `ever` say which names were there all the
time and which at some time; the properties are stated against them, with
`Group` as the reference for what stands for a name. A client of the GCS API
cannot ask to start after a name, since that handler reads no such parameter,
and a client that deletes what it lists lists without a delimiter, as recursive
deletes do (`ListingAssumption`).

### Routing, AwsChunked, Frontend

A path is a sequence over `Words`, which include `/` and `%2F`, so that trimming,
splitting and unescaping are what they are in the code; `Split` and `Join` are
recursive functions of the path and of its segments. The switches of the servers are lists
of cases of which the first that applies counts. `S3Calls` and `GCSCalls` are
the requests the client libraries make and the handler each is meant for.

The wire carries bytes and framing lines, one element at a time. A client that
streams cuts the `unsent` part of its content into chunks of any length
(`SendFrame`), one when the reader has taken the one before, which loses nothing: the
reader waits for what is not there. In place of a frame it may send a line
that is no size, or a negative one. `ended` is how
the body ended: `eof` (the HTTP framing was complete) or `broken`. An `io.EOF`
from the reader is success for `io.Copy`, anything else aborts the upload.

`Frontend` serves one request at a time. `objects` is the store; `want` is the
store as the answers let the clients believe it is. `Faithful` marks the paths
that do not keep a name, `inside` a body that ended cleanly within its content;
after either, `exact` is false and the two are no longer compared.

### Shutdown

`listener`, `returned`, `shutting` and `deadline` are the servers, the
`WaitGroup`, the loop over `srv.Shutdown(ctx)` and its context; `main` is where
`main` stands, the deferred `st.Close` included. A request moves from its
connection to the handle, the transaction and the answer; `Close` makes held
handles stale, and the exit cuts what is still open. Between servers that
`Shutdown` closes and clients that stall, every order is possible.

## Checks

| run | instance | what it shows |
|---|---|---|
| `bucket_safety` | 2 requests, 2 names, 2 contents, all operations, 3 preconditions, I/O faults, crashes | `RefcountsExact`, `LiveBlobsPresent`, `GenerationGrows`, the inductive invariant `IndInv`; a read fails only if its object was changed under it (`ReadFailsOnlyIfChanged`); `Bucket` implements `ObjectMap` |
| `bucket_live` | 2 requests, an invalid name, all operations, no faults or preconditions, fairness | `NoGarbage`: blob files are exactly the referenced blobs; every mutation that asks for `commitMu` is answered |
| `store_races` | 3 overlapping requests of any kind, crashes, fairness | no request waits for ever for `commitMu` or `s.mu`; without deletes: one handle, one successful create, acknowledged uploads in place; with orderly deletes: names are freed, handles are live, listings succeed, only empty buckets disappear |
| `store_delete_race` | 3 overlapping requests | **fails**: an acknowledged upload is deleted with its bucket |
| `store_stuck_name` | 3 overlapping requests | **fails**: a late commit recreates the directory without a database |
| `resumable_sessions` | 4 requests, 2 bytes, sessions with a checksum and bodies that break or have the wrong length, sessions without either, malformed requests | `Integrity`, `OffsetIsStored`, `AnswersTrue`, `NoTempFileLeft` |
| `resumable_broken` | 3 requests, 3 bytes, broken bodies without a checksum | **fails**: a chunk that breaks off and is sent again is stored twice in part |
| `multipart_races` | 3 requests, 2 part numbers, lists of up to 2, malformed requests, fairness | one commit, made of an acknowledged upload of each listed part in order, the one with the given ETag where there is one; no staged file left; acknowledged parts usable; every request that waits for `up.mu` is answered |
| `listing` | 7 names of which 2 come and go, 24 walks, batches and default pages of 2, fairness | every object that stays is shown exactly once and nothing else is; pages are full; a recursive delete of a prefix with a plain end removes exactly that prefix; walks end |
| `listing_accent` | a recursive delete of the prefix `é` | **fails**: it deletes the object `ê` |
| `frontend` | 3 requests out of all calls of both APIs, 2 buckets, 4 names, plain bodies and bodies in any chunks, fairness | requests reach the handler and name they are meant for; the store is what the answers say; an upload whose body has ended is answered |
| `shutdown` | 2 servers, 4 requests, fairness | the first server is drained or the deadline has passed; the store outlives the listeners; the process exits after the signal |

`IndInv` in `bucket_safety`, `store_races`, `resumable_sessions`,
`multipart_races`, `listing` and `shutdown` is the inductive invariant of the module's
proofs: the run checked it before it was proved. That of `Frontend` was checked with
`frontend`'s instance in the same way; the run keeps the two properties it is for.

The runs marked **fails** are the disagreements between code and documentation
listed under `findings` in `PROJECT.json`; TLC produces the sequence of steps.

### Known limits of the code

The properties that hold are stated up to these boundaries: TLC finds a
counterexample when the condition named in parentheses is dropped.

- A read that races an overwrite or a delete of its object fails with an
  internal error (`ReadFailsOnlyIfChanged` is exactly that boundary).
- An upload whose precondition fails has already renamed its content into
  `objects/` and leaves it there without a row (`NoGarbage` with preconditions).
- A read in the window of `store_delete_race` puts a handle into `s.buckets` that
  outlives the bucket (`OrderlyNameUsable` without `orderly`). A crash between the
  first `Mkdir` of `CreateBucket` and the creation of `data.sqlite` leaves the same
  unusable name as `store_stuck_name`; nothing repairs it at the next start.
- A bucket that is deleted while `ListBuckets` runs can make the listing fail
  (`ListSucceeds` without `orderly`).
- `prefixSuccessor` is not exact for strings that end in a byte of `0x7f` or
  above (`PlainEnd`). Besides `listing_accent`: with the delimiter `/` and an
  object `ê/x`, a listing of the prefix `é` produces `é/` without end, which is
  why no walk of the instance has both; and a delimiter outside ASCII makes
  the listing skip names after a group.
- A V1 marker that ends in the delimiter is taken for a common prefix, and what
  starts with it is skipped (`MarkerClear`): an object named like the prefix
  (`dir/`); with a delimiter of several bytes any object that has it only where
  it overlaps the prefix (`a//` under the prefix `a/` with the delimiter `//`); a
  marker that a client made up.
- A name that ends in `/` loses it on unescaped paths: PUT of `k/` through S3
  stores `k`. The GCS direct path `/{bucket}/{object}` is shadowed for buckets
  called `storage`, `upload` or `download` (`Faithful`).
- A body that ends cleanly inside a chunk is committed truncated (`inside`).
- The requests of the last server in the list (S3, or GCS when S3 is disabled)
  get no grace at shutdown: `ListenAndServe` returns when its listener is
  closed, and `main` returns with it (`EarlierServersDrain`).

**Bounds.** Two names and two contents are enough for sharing a blob, for an
overwrite with the same and with another content, and for a copy; two requests
are the smallest number that contend for the lock, and the theorems cover any
number. A clock that always returns 1 makes every overwrite meet a generation
that is not smaller than the clock. Three requests in `Store` cover a delete and
two that overlap it, or a create, a use and a listing. Two bytes allow a break in the middle of a chunk and
chunks of different lengths; four requests allow a retry of a retry. Three
requests in `Multipart` cover a part, its replacement and a complete, or a part
and two that finish the upload. The names of `listing` make a page end inside,
at and after a group, at an object named like a group, and at a batch; pages of
one and two with batches of two put every boundary of the loop within reach.
Three requests of `frontend` allow an upload, a change by the other API and a copy
or delete; a content of two bytes has every position of a chunk boundary. Two
requests per server are in different stages when the servers go down. Symmetry is used for requests and contents in
runs without liveness only.

**Deadlock** is checked in the `Bucket` runs, where a client can always send
something. The other models make a fixed number of requests and then stop.

**Fairness.** The liveness runs assume that a goroutine that can run does run
(weak fairness of a request's steps) and that a waiter on a `sync.Mutex` is
not passed over for ever (strong fairness of the locking step; Go's mutexes
switch to handing over the lock when a waiter starves); in `Store` this is assumed of
`commitMu` and of `s.mu`. Nothing is assumed of
clients: a body may never end, and liveness is claimed only for requests that
have their body. `bucket_live` has no I/O faults; that no failing call keeps
`commitMu` either is part of `IndInv` (`MutexInv`), which is proved. In `Listing`
the walking client and the server go on, whatever the others do. In `Frontend` the
handler reads what has arrived; nothing makes the client send or end its body.
In `Shutdown` the goroutines of `main` run and the deadline passes; requests may
stall for ever.

## Proofs

Every theorem is about the same `Spec` that TLC checks, for every value of the
constants that its assumption allows: any set of requests, any names, contents
and lengths. In each module the argument is the same. `IndInv` is the
conjunction of the properties and of what they silently rely on; `Init`
implies it, each action preserves it (one lemma per action, or per group of
actions that change the same thing), and each property follows from it.

| module | theorem | property |
|---|---|---|
| `BucketProofs` | `InvariantHolds`, `TypesHold` | `IndInv` and its part `TypeOK` |
| | `RefcountsAlwaysExact`, `LiveBlobsAlwaysPresent` | `RefcountsExact`, `LiveBlobsPresent` |
| | `GenerationsAlwaysGrow`, `ReadsFailOnlyIfChanged` | action properties `GenerationGrows`, `ReadFailsOnlyIfChanged` |
| | `NoGarbageWhenOrderly` | `NoGarbage`, without faults and preconditions |
| `BucketRefinement` | `BucketImplementsObjectMap` | `ImplementsObjectMap` |
| `StoreProofs` | `StoreInvariant` | `IndInv` |
| | `AlwaysSingleHandle`, `AlwaysCreateOnce`, `AckedStaysInPlace` | `SingleHandle`, `CreateOnce`, `AckedInPlace` |
| | `OrderlyNameAlwaysUsable`, `ListAlwaysSucceeds`, `OrderlyDeletesOnlyEmpty` | `OrderlyNameUsable`, `ListSucceeds`, action property `OrderlyDeletes` |
| `ResumableProofs` | `ResumableInvariant`, `OffsetIsAlwaysStored`, `NoTempFileEverLeft` | `IndInv`, `OffsetIsStored`, `NoTempFileLeft` |
| | `IntegrityKept`, `AnswersAlwaysTrue` | `Integrity`, `AnswersTrue`, if `FALSE \notin Breaking` |
| `MultipartProofs` | `MultipartInvariant`, `AckedPartsAlwaysUsable`, `NoStagedFileEverLeft`, `CompleteAlwaysHonoursETags` | `IndInv`, `AckedPartsUsable`, `NoStagedFileLeft`, `CompleteHonoursETags` |
| | `DoneIsAlwaysFinal` | action property `DoneIsFinal` |
| `ListingProofs` | `ListingInvariant`, `PagesAlwaysFull`, `PurgeIsExact` | `IndInv`, `PagesFull`, `PurgesExactly` (under `PlainEnd(prefix)`) |
| | `EachListedOnce`, `NothingElseListed` | `ListsEachOnce` (under `Clear`), `ListsNothingElse` (under `PlainEnd(prefix)` and `Utf8End(delimiter)`) |
| `FrontendProofs` | `FrontendInvariant` | `IndInv` |
| | `RequestsActAsNamed`, `StoreHoldsWhatClientsBelieve` | `ActsAsNamed` (under `Faithful`), `StoreMatchesClients` (under `exact`) |
| `ShutdownProofs` | `ShutdownInvariant`, `EarlierServersAlwaysDrain`, `StoreAlwaysOutlivesListeners` | `IndInv`, `EarlierServersDrain`, `StoreOutlivesListeners` |

**Bucket.** `RefcountsExact` and `LiveBlobsPresent` are not inductive. Removing an orphan
keeps live blobs only if nobody refers to it, and an upload's transaction only
if its blob is still there. `IndInv` adds these facts: `MutexInv` (a request is
between `Lock` and `Unlock` exactly when it holds `commitMu`) and `StageInv` (an
upload at its transaction has its blob in place; a blob to be removed has
refcount 0). With them, removal is harmless because refcount 0 means an empty
set of referring rows (`ZeroMeansUnreferenced`), and no upload stands at its
transaction while another request removes, because both would hold the lock.
The two transactions are counted out in `PutKeepsCounts` and
`DeleteKeepsCounts`, from the cardinality of a set with one element more or
less. All other actions leave tables and blob files alone.

`NoGarbageWhenOrderly` is the converse: each file without a row has an owner, a
request between its rename and its transaction or one that has still to remove
an orphan (`TidyInv` of `BucketProofs`), and owners hold `commitMu`. Its hypothesis
`Orderly` is the instance of `bucket_live`; with faults or preconditions the
property is false, as described under the limits of the code.

**The refinement.** `AnswerInv`, the rest of `IndInv`, says which requests are
answered and what each stage knows of its request. From it every action is
mapped: `Arrive` to the call, `PutTx` and `DeleteTx` to the write and the
erasure (`PutIsWrite`, `DeleteIsErase`), refusals to a refusal or a miss,
the query of a read to the read, failures and crashes to a failure, and every
file operation to a stutter (`HiddenSteps`). `StepSimulation` puts them together.

**Store.** The two promises of `Store` need two invariants. For a name that is
never deleted, `HandleInv` says that every request uses the handle in
`s.buckets`, open on the database in place; since `openBucket` looks at the map
again under `s.mu`, a second handle is never opened. `CreateInv` says that one
create at most has passed its `Mkdir`. For a name whose deletes overlap nothing,
`AloneInv` says that a running delete runs alone; then the directory tree can be
followed step by step: `TidyInv` (a directory without a database is being made
or removed), `MakingInv` (a create in progress meets no obstacle), `FoundInv` (what a
request has found it finds again) and `DeleteInv` (a delete that has counted no
row removes exactly what it has read).

**Resumable.** The offset is what the writer holds because a chunk is appended
only where it starts: `BytesConcat` is the fact about the bytes. A request
without `Content-Range` is not compared with the offset, so `SessionInv` must
add that only chunks move the offset of an open session, and `SentInv` that a
client does not mix the two forms. `AnswerInv` extends the truth of an answer to
the time it is on its way. `Integrity` and `AnswersTrue` are proved under
`FALSE \notin Breaking` (no broken body in a session without checksum);
`resumable_broken` shows that they fail without it.

**Multipart.** `PartsInv` and `FilesInv` say whose every staged file is: an entry
of `up.parts`, or of a part upload that has still to publish or discard its own.
`PartsInv` also says that a published part was acknowledged. `LockInv` adds that the
parts a complete has checked stay as they are until it commits, because `up.mu` is
held; `DoneInv` that nothing is published once `up.done` is set. Together they make
the committed object one of acknowledged parts with the ETags that were asked for.

**Listing.** The theorems hold for any names, any prefix and delimiter within the
stated conditions, any page limit and any batch size. The proof has three
layers. The first is about byte strings: `Less` is a total order
(`LessTransitive`, `LessTotal`), `After(n)` is the least string above `n`
(`AfterLeast`), `prefixSuccessor` is above every string with the prefix if the
prefix ends like UTF-8 (`SuccessorAbove`) and exact if it ends in a byte below
`0x7f` (`SuccessorExact`), and a name's common prefix is a start of it that ends
in the delimiter and stands for every name that starts with it (`GroupFacts`).
The second is about one query: a batch is the sorted beginning of the rows in
range (`BatchFacts`). The third is the walk. `Genuine` says that the entries of
the page stand for wanted objects and that the walk stays behind the name it was
asked to start after. `Exact` says that the place where the walk goes on splits
the table: every object that stays and lies before it is shown (`AllShown`),
nothing at or after it is (`NothingAhead`), nothing is shown twice. This is not
inductive by itself for V1, where the next request starts from the last name
shown and not from where the scan stopped; `MarkerAhead` adds that the marker the
page would end with now leads to a place that splits the table as well. The
client's own deletes must not look like objects that went away: `DeletesShown`.
`Purging` keeps the account of a recursive delete. For each of the three ways a
pass over a batch ends one lemma shows where the table is split afterwards
(`SplitAfterRow`, `SplitAtRow`, `SplitAfterGroup`). The proof found that the
condition on V1 markers has to exclude more than objects named like the prefix:
see the limits above.

**Frontend.** The theorems hold for any buckets, object names of any length, contents
of any length and any chunks. The proof has three layers. The first is
about sequences. What a recursive function returns for every sequence needs
induction and recursion over data, and the library's theorems for that take an
operator as a parameter. They are therefore stated here with a set and with a
function in its place: `SeqInduction` (a set that holds the empty sequence, and
each sequence whose tail it holds, holds all) follows from the least length of a
counterexample (`LeastNumber`, from the well-foundedness of `<`), and
`SeqRecursion` from it; `SplitIs` and `JoinIs` then give the defining equations of
`Split` and `Join`. The second layer is routing: joining undoes splitting (`JoinSplit`),
an escaped name is one segment (`SplitEscape`), the first case of a switch that
applies is found case by case (`SwitchFirst`), and each shape of path leads to its
handler (`S3Handlers`, `GCSHandlers`). `ServeHTTPIs` puts them together: under
`Faithful`, the server makes of a request what the client means by it. The third
is the body. `StoreMatchesClients` is not inductive, because at the moment of the
commit it needs that `out` is the content. `CopiedInv` says that `out` begins the
content and `unsent` ends it; what lies between is `Held`. `WireInv` says for each
phase of the reader which rest of a frame around `Held` is on the wire, so that
`remaining` counts the bytes of the chunk that are left and a size of 0 comes only
after the whole content. `EndedInv` says that when the body is over, a copy that can
still succeed is complete or the body ended `inside`. `OnePerName`, that a name has
one object, makes the source of a copy unique. There is one lemma per action.

**Shutdown.** `OrderInv` and `DrainInv` follow the loop over `srv.Shutdown`: the
servers before the current one have no request left unless the deadline has
passed, and the store is closed only after the loop.

Assumptions: `ConstantsAssumption` (finitely many names, clock values are
positive) and `NilAssumption` for `Bucket`, `StoreAssumption`,
`ResumableAssumption` (the object has at least one byte), `MultipartAssumption`,
`ListingAssumption` (finitely many names, none of them empty; limits and batches
are positive; what clients ask for, see Listing), `RoutingAssumption` (`/`, `%2F` and the
words of the GCS paths are words), `FrontendAssumption` (a bucket name is one word
and no `/`, as `validBucketName` has it; an object name is not empty and holds no
`%2F`, since a client escapes `%` itself; a content has a length) and `ShutdownAssumption` (at least one server) for the others. Apart from what is
named here they say only that `Nil` is none of the values it stands beside.

Only model-checked: liveness (`MutationsAnswered`, `RequestsAnswered`, `WalkEnds`,
`UploadDecided`, `ExitsAfterSignal`), which is outside the reach of the prover. Every
invariant and every action property of a passing run is proved.

## Not modelled

The JSON and XML formats, and with them object names that XML cannot carry;
metadata reads, which are one query, and `?generation=`; the parsing of
preconditions (their effect is in `Bucket`); copies between buckets, which are
a read and an upload; range and conditional GETs (`http.ServeContent`); object
metadata and content types (carried, never examined); bucket names that
`validBucketName` refuses; temp files left by a crash. A power failure under
`synchronous=NORMAL` is left out because it is a property of SQLite and of the
file system rather than of this code, which makes no promise about it.

## Plan

Done: `ObjectMap`, `Bucket`, `Store`, `Resumable`, `Multipart`, `Listing`,
`Routing`, `AwsChunked`, `Frontend`, `Shutdown`, and the proofs listed above.

Left: liveness proofs, when the prover supports `ENABLED`; the wire formats; requests
of `Frontend` that overlap, whose pieces `Bucket` and `Store` cover one name at a time.
