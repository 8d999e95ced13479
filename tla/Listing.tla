------------------------------ MODULE Listing ------------------------------
(***************************************************************************)
(* Listing the objects of a bucket page by page: Store.ListObjects         *)
(* (pkg/store/bucket.go), the cursors that GCS (pkg/gcs/objects.go) and S3 *)
(* ListObjects V1 and V2 (pkg/s3/objects.go) build on it, and the batch    *)
(* delete with which a client removes what it has listed.  Other clients   *)
(* upload and delete objects meanwhile: a walk over the pages is no        *)
(* transaction, and neither is one page.                                   *)
(*                                                                         *)
(* A name is the sequence of its bytes, as SQLite and Go compare names.    *)
(***************************************************************************)
EXTENDS Integers, FiniteSetsExt, SequencesExt

CONSTANTS
  Names,       \* the object names of the instance
  Churn,       \* the names that other clients upload and delete
  Walks,       \* the walks clients make, see Walk
  DefaultMax,  \* defaultMaxResults (1000 in the code)
  BatchSize    \* batchSize (1000 in the code)

Byte == 0..255

\* What a client asks of every page, the name it wants to start after (the GCS
\* handler reads no such parameter), and whether it deletes what it is shown
\* (a recursive delete lists without a delimiter).
Walk == [api : {"gcs", "v1", "v2"}, prefix : Seq(Byte), delimiter : Seq(Byte),
         max : Nat, after : Seq(Byte), purge : BOOLEAN]

ASSUME ListingAssumption ==
  /\ Names \subseteq Seq(Byte) \ {<<>>} /\ IsFiniteSet(Names)
  /\ Churn \subseteq Names
  /\ Walks \subseteq Walk
  /\ \A w \in Walks : /\ w.api = "gcs" => w.after = <<>>
                      /\ w.purge => w.delimiter = <<>>
  /\ {DefaultMax, BatchSize} \subseteq Nat \ {0}

VARIABLES
  live,    \* the names in table objects
  stage,   \* where the walk is
  walk,    \* its parameters
  cursor,  \* what the next request carries: pageToken, token or marker
  next,    \* the inclusive lower bound of the next query
  objs,    \* result.Objects of this page
  pres,    \* result.Prefixes of this page
  token,   \* result.NextPageToken, <<>> when there is none
  todo,    \* keys of the batch delete still to be handled
  listed,  \* everything the client has been shown, in order
  failed,  \* keys the batch delete reported as errors
  steady,  \* names live since the walk began, not touched by other clients
  ever     \* names live at some time since the walk began

page == <<next, objs, pres, token>>
client == <<walk, cursor, todo, listed, failed>>
history == <<steady, ever>>
vars == <<live, stage, page, client, history>>

NoWalk == [api |-> "gcs", prefix |-> <<>>, delimiter |-> <<>>, max |-> 0,
           after |-> <<>>, purge |-> FALSE]

Init ==
  /\ live \in SUBSET Names
  /\ stage = "idle"
  /\ walk = NoWalk
  /\ cursor = <<>>
  /\ next = <<>>
  /\ objs = <<>>
  /\ pres = <<>>
  /\ token = <<>>
  /\ todo = <<>>
  /\ listed = <<>>
  /\ failed = {}
  /\ steady = {}
  /\ ever = {}

-----------------------------------------------------------------------------
(***************************************************************************)
(* Byte strings.                                                           *)
(***************************************************************************)

Less(s, t) ==
  \/ s # t /\ IsPrefix(s, t)
  \/ \E i \in 1..Len(s) : /\ i <= Len(t)
                          /\ s[i] < t[i]
                          /\ SubSeq(s, 1, i - 1) = SubSeq(t, 1, i - 1)

Later(s, t) == IF Less(s, t) THEN t ELSE s

\* A set of names in the order of table objects' primary key.
InOrder(S) ==
  [i \in 1..Cardinality(S) |->
     CHOOSE n \in S : Cardinality({m \in S : Less(m, n)}) = i - 1]

\* string(byte): the UTF-8 encoding of the code point with that number.
Rune(b) == IF b < 128 THEN <<b>> ELSE <<192 + (b \div 64), 128 + (b % 64)>>

\* prefixSuccessor, which both packages define.
PrefixSuccessor(p) ==
  LET I == {i \in 1..Len(p) : p[i] # 255}
      i == Max(I)
  IN IF I = {} THEN <<>> ELSE SubSeq(p, 1, i - 1) \o Rune(p[i] + 1)

-----------------------------------------------------------------------------
(***************************************************************************)
(* A request of the walk: the handlers map the cursor of their API to the  *)
(* inclusive PageToken of the store.                                       *)
(***************************************************************************)

\* Faulty variant: the bound includes the name.
AfterOrAt(n) == n

\* The least string above a name: an exclusive lower bound made inclusive.
After(n) == n \o <<0>>

PageToken(w, c) ==
  CASE w.api = "gcs" -> c
    [] w.api = "v2" -> IF c # <<>> THEN c
                       ELSE IF w.after # <<>> THEN After(w.after) ELSE <<>>
    [] w.api = "v1" -> IF c = <<>> THEN <<>>
                       ELSE IF w.delimiter # <<>> /\ IsSuffix(w.delimiter, c)
                            THEN PrefixSuccessor(c)
                            ELSE After(c)

Begin(w) ==
  /\ stage = "idle"
  /\ stage' = "request"
  /\ walk' = w
  /\ cursor' = IF w.api = "v1" THEN w.after ELSE <<>>
  /\ steady' = live
  /\ ever' = live
  /\ UNCHANGED <<live, page, todo, listed, failed>>

Request ==
  /\ stage = "request"
  /\ stage' = "scan"
  /\ next' = Later(walk.prefix, PageToken(walk, cursor))
  /\ objs' = <<>>
  /\ pres' = <<>>
  /\ token' = <<>>
  /\ UNCHANGED <<live, client, history>>

-----------------------------------------------------------------------------
(***************************************************************************)
(* ListObjects: one query and the pass over its batch is one step, and     *)
(* other requests run between two queries.                                 *)
(***************************************************************************)

MaxResults ==
  IF walk.max <= 0 \/ walk.max > DefaultMax THEN DefaultMax ELSE walk.max

\* The WHERE clause of the query.
InRange(n) ==
  LET end == PrefixSuccessor(walk.prefix)
  IN ~Less(n, next) /\ (end # <<>> => Less(n, end))

Batch ==
  LET rows == InOrder({n \in live : InRange(n)})
  IN SubSeq(rows, 1, IF Len(rows) < BatchSize THEN Len(rows) ELSE BatchSize)

\* The common prefix that stands for a name, or <<>> when the name stands for
\* itself.  The code cuts the name at the length of the prefix.
Group(w, n) ==
  LET rest == SubSeq(n, Len(w.prefix) + 1, Len(n))
      at == {i \in 1..Len(rest) :
               IsPrefix(w.delimiter, SubSeq(rest, i, Len(rest)))}
  IN IF w.delimiter = <<>> \/ at = {} THEN <<>>
     ELSE w.prefix \o SubSeq(rest, 1, Min(at) + Len(w.delimiter) - 1)

\* Faulty variant: one entry too many.
FullTooLate(i) == Len(objs) + Len(pres) + i - 1 > MaxResults

Full(i) == Len(objs) + Len(pres) + i - 1 >= MaxResults

\* Where the pass over the batch stops: the page is full, or a name belongs to
\* a common prefix.
Stops(b) == {i \in 1..Len(b) : Full(i) \/ Group(walk, b[i]) # <<>>}
Stop(b) == {i \in Stops(b) : \A j \in Stops(b) : i <= j}

Before(b, i) == SubSeq(b, 1, i - 1)

\* The whole batch goes into the page.
ScanThrough ==
  /\ stage = "scan"
  /\ \E b \in {Batch} :
       /\ Stops(b) = {}
       /\ objs' = objs \o b
       /\ IF Len(b) < BatchSize
          THEN stage' = "page" /\ UNCHANGED next
          ELSE next' = After(b[Len(b)]) /\ UNCHANGED stage
  /\ UNCHANGED <<live, pres, token, client, history>>

\* The page is full; the next name is the token.
ScanToLimit ==
  /\ stage = "scan"
  /\ \E b \in {Batch} : \E i \in Stop(b) :
       /\ Full(i)
       /\ objs' = objs \o Before(b, i)
       /\ token' = b[i]
  /\ stage' = "page"
  /\ UNCHANGED <<live, next, pres, client, history>>

\* A common prefix is added and the rest of its group is skipped.
ScanToGroup ==
  /\ stage = "scan"
  /\ \E b \in {Batch} : \E i \in Stop(b) : \E cp \in {Group(walk, b[i])} :
       /\ ~Full(i)
       /\ objs' = objs \o Before(b, i)
       /\ pres' = Append(pres, cp)
       /\ next' = PrefixSuccessor(cp)
       /\ stage' = IF PrefixSuccessor(cp) = <<>> THEN "page" ELSE stage
  /\ UNCHANGED <<live, token, client, history>>

-----------------------------------------------------------------------------
(***************************************************************************)
(* The answer.                                                             *)
(***************************************************************************)

LastOf(s) == IF s = <<>> THEN <<>> ELSE Last(s)

\* Faulty variant: common prefixes are forgotten.
NextCursorObject == IF walk.api = "v1" THEN LastOf(objs) ELSE token

\* NextMarker of V1 is the last name shown, the other APIs pass the token on.
NextCursor ==
  IF walk.api = "v1" THEN Later(LastOf(objs), LastOf(pres)) ELSE token

Proceed == stage' = IF token = <<>> THEN "done" ELSE "request"

\* The client takes the page, and goes on if IsTruncated (nextPageToken).
Receive ==
  /\ stage = "page"
  /\ listed' = listed \o objs \o pres
  /\ IF walk.purge /\ objs # <<>>
     THEN todo' = objs /\ stage' = "purge"
     ELSE Proceed /\ UNCHANGED todo
  /\ cursor' = NextCursor
  /\ UNCHANGED <<live, page, walk, failed, history>>

\* Faulty variants: the batch ends at the first key that fails, or comes
\* back to it.
DeleteObjectsGivesUp ==
  /\ stage = "purge"
  /\ \/ live' = live \ {Head(todo)} /\ todo' = Tail(todo) /\ UNCHANGED failed
     \/ failed' = failed \cup {Head(todo)} /\ todo' = <<>> /\ UNCHANGED live
  /\ IF todo' = <<>> THEN Proceed ELSE UNCHANGED stage
  /\ UNCHANGED <<page, walk, cursor, listed, history>>

DeleteObjectsRetries ==
  /\ stage = "purge"
  /\ \/ live' = live \ {Head(todo)} /\ todo' = Tail(todo) /\ UNCHANGED failed
     \/ /\ failed' = failed \cup {Head(todo)} /\ UNCHANGED live
        /\ todo' = Append(Tail(todo), Head(todo))
  /\ IF todo' = <<>> THEN Proceed ELSE UNCHANGED stage
  /\ UNCHANGED <<page, walk, cursor, listed, history>>

\* deleteObjects handles its keys one by one: a key that is gone already counts
\* as deleted, one that fails is reported and the rest goes on.
DeleteObjects ==
  /\ stage = "purge"
  /\ todo' = Tail(todo)
  /\ \/ live' = live \ {Head(todo)} /\ UNCHANGED failed
     \/ failed' = failed \cup {Head(todo)} /\ UNCHANGED live
  /\ IF todo' = <<>> THEN Proceed ELSE UNCHANGED stage
  /\ UNCHANGED <<page, walk, cursor, listed, history>>

\* Another client uploads or deletes an object.
Change(n) ==
  /\ stage \notin {"idle", "done"}
  /\ live' = IF n \in live THEN live \ {n} ELSE live \cup {n}
  /\ steady' = steady \ {n}
  /\ ever' = ever \cup {n}
  /\ UNCHANGED <<stage, page, client>>

Step ==
  \/ Request
  \/ ScanThrough \/ ScanToLimit \/ ScanToGroup
  \/ Receive
  \/ DeleteObjects

Next ==
  \/ \E w \in Walks : Begin(w)
  \/ Step
  \/ \E n \in Churn : Change(n)

Spec == Init /\ [][Next]_vars

\* Server and client go on with the walk; nothing is assumed of the others.
FairSpec == Spec /\ WF_vars(Step)

-----------------------------------------------------------------------------
(***************************************************************************)
(* Properties.                                                             *)
(***************************************************************************)

Wanted(n) == IsPrefix(walk.prefix, n) /\ Less(walk.after, n)
Entry(n) == IF Group(walk, n) = <<>> THEN n ELSE Group(walk, n)
TimesListed(e) == Cardinality({i \in 1..Len(listed) : listed[i] = e})

\* prefixSuccessor is exact for a string that ends in a byte below 0x7f, and
\* an upper bound for one that ends like every UTF-8 string.
PlainEnd(s) == s = <<>> \/ LastOf(s) < 127
Utf8End(s) == s = <<>> \/ LastOf(s) < 192

\* A V1 marker that ends in the delimiter is taken for a common prefix, also
\* when a client made it up, or when it is an object whose name has the
\* delimiter only where it overlaps the prefix.
MarkerClear ==
  walk.api = "v1" /\ walk.delimiter # <<>> =>
    /\ ~IsSuffix(walk.delimiter, walk.after)
    /\ \A n \in ever :
         IsPrefix(walk.prefix, n) /\ IsSuffix(walk.delimiter, n)
           => Group(walk, n) # <<>>

\* Neither the bounds of the scan nor the marker can be mistaken.
Clear ==
  /\ PlainEnd(walk.delimiter)
  /\ IF walk.delimiter = <<>> THEN Utf8End(walk.prefix)
                              ELSE PlainEnd(walk.prefix)
  /\ MarkerClear

\* A walk shows every object that is there all the time exactly once, as
\* itself or by its common prefix, whatever comes and goes in between and
\* wherever the pages and batches end: for every prefix and delimiter with a
\* plain end and every V1 marker that cannot be mistaken.
ListsEachOnce ==
  stage = "done" /\ Clear =>
    \A n \in steady : Wanted(n) => TimesListed(Entry(n)) = 1

\* Nothing else is shown: every entry is the name or the common prefix of an
\* object with the prefix asked for that was there during the walk.
ListsNothingElse ==
  PlainEnd(walk.prefix) /\ Utf8End(walk.delimiter) =>
    \A i \in 1..Len(listed) :
      \E n \in ever : Wanted(n) /\ listed[i] = Entry(n)

\* A page never exceeds maxResults, and only a full page is truncated, however
\* many batches and groups it took.
PagesFull ==
  stage = "page" => /\ Len(objs) + Len(pres) <= MaxResults
                    /\ token # <<>> => Len(objs) + Len(pres) = MaxResults

\* A client that deletes what each page shows (aws s3 rm --recursive) is left
\* with exactly the objects without the prefix and those reported as errors,
\* although every batch delete changes the table under the cursor: for every
\* prefix with a plain end.
PurgesExactly ==
  stage = "done" /\ walk.purge /\ PlainEnd(walk.prefix) =>
    \A n \in steady : n \in live <=> ~Wanted(n) \/ n \in failed

\* It deletes no object whose name does not start with the prefix, whatever
\* the prefix ends in.
PurgesOnlyPrefix ==
  \A n \in steady : ~IsPrefix(walk.prefix, n) => n \in live

-----------------------------------------------------------------------------
(***************************************************************************)
(* The inductive invariant.                                                *)
(***************************************************************************)

TypeOK ==
  /\ stage \in {"idle", "request", "scan", "page", "purge", "done"}
  /\ walk \in Walks \cup {NoWalk}
  /\ live \subseteq Names /\ ever \subseteq Names /\ steady \subseteq ever
  /\ cursor \in Seq(Byte) /\ next \in Seq(Byte) /\ token \in Seq(Byte)
  /\ objs \in Seq(Names) /\ todo \in Seq(Names) /\ failed \subseteq Names
  /\ pres \in Seq(Seq(Byte)) /\ listed \in Seq(Seq(Byte))

\* What the stages have in common with the variables they leave alone.
Stages ==
  /\ stage = "idle" => walk = NoWalk /\ listed = <<>> /\ failed = {} /\ steady = {}
  /\ stage # "idle" => live \subseteq ever /\ walk \in Walks
  /\ stage = "purge" <=> todo # <<>>
  /\ stage = "purge" => walk.purge
  /\ stage = "scan" => token = <<>> /\ Len(objs) + Len(pres) <= MaxResults
  /\ walk.delimiter = <<>> => pres = <<>>

\* The walk will make no other request.
Finished ==
  stage = "done" \/ (stage \in {"page", "purge"} /\ token = <<>>)

\* Where it goes on.
Bound ==
  IF stage = "scan" THEN next
  ELSE PageToken(walk, IF stage = "page" THEN NextCursor ELSE cursor)

\* The page and what the client was shown before it.
Shown == IF stage \in {"scan", "page"} THEN listed \o objs \o pres ELSE listed

InScope(n) == walk.delimiter = <<>> \/ IsPrefix(walk.prefix, n)

\* What is shown lies behind b.
ShownBehind(b) ==
  \A n \in Names : InScope(n) /\ Entry(n) \in ToSet(Shown) => Less(n, b)

\* The entries of the page stand for objects that are wanted.
PageGenuine ==
  stage \in {"scan", "page"} =>
    /\ \A n \in ToSet(objs) :
         n \in ever /\ Wanted(n) /\ Group(walk, n) = <<>>
    /\ \A c \in ToSet(pres) :
         c # <<>> /\ \E n \in ever : Wanted(n) /\ Group(walk, n) = c

\* The walk goes on after the name where it was asked to start, and within the
\* prefix.
Onward ==
  /\ stage # "idle" /\ ~Finished /\ walk.after # <<>> => Less(walk.after, Bound)
  /\ stage = "scan" => ~Less(next, walk.prefix)

Genuine ==
  PlainEnd(walk.prefix) /\ Utf8End(walk.delimiter) =>
    ListsNothingElse /\ PageGenuine /\ Onward

\* What stays is shown once the walk has passed it.
AllShown ==
  \A n \in steady :
    Wanted(n) /\ (Finished \/ Less(n, Bound)) => Entry(n) \in ToSet(Shown)

\* Nothing ahead of the walk was shown, nor anything twice.
NothingAhead ==
  /\ ~Finished => ShownBehind(Bound)
  /\ IsInjective(Shown)

\* The walk deletes only what it was shown.
DeletesShown ==
  \A n \in (steady \ live) \cup ToSet(todo) :
    InScope(n) /\ Entry(n) = n /\ n \in ToSet(listed)

\* The V1 marker that the page would end with now is ahead of what is shown.
MarkerAhead ==
  stage = "scan" /\ walk.api = "v1" /\ objs \o pres # <<>> =>
    /\ ~Less(next, PageToken(walk, NextCursor))
    /\ ShownBehind(PageToken(walk, NextCursor))

Exact == Clear => AllShown /\ NothingAhead /\ DeletesShown /\ MarkerAhead

\* Of what was shown, exactly what failed or is still to be handled is there.
Purging ==
  walk.purge /\ PlainEnd(walk.prefix) =>
    /\ failed \subseteq ToSet(listed)
    /\ IsInjective(todo)
    /\ \A n \in steady \cap ToSet(listed) :
         /\ n \in live <=> n \in failed \cup ToSet(todo)
         /\ ~(n \in failed /\ n \in ToSet(todo))

IndInv == TypeOK /\ Stages /\ PagesFull /\ Genuine /\ Exact /\ Purging

\* A walk ends, even if objects keep appearing behind and ahead of its cursor.
WalkEnds == stage = "request" ~> stage = "done"

=============================================================================
