--------------------------- MODULE FrontendProofs ---------------------------
(***************************************************************************)
(* Proofs about Frontend, for any buckets, object names and contents, and  *)
(* any way to cut a content into chunks.                                   *)
(***************************************************************************)
EXTENDS Frontend, SequenceTheorems, FiniteSetTheorems, WellFoundedInduction, TLAPS

-----------------------------------------------------------------------------
(***************************************************************************)
(* Induction and recursion over sequences, stated with sets and functions. *)
(***************************************************************************)

\* A set of numbers has a least one.
LEMMA LeastNumber ==
  ASSUME NEW T \in SUBSET Nat, T # {}
  PROVE  \E x \in T : \A y \in T : x <= y
<1> DEFINE R == {ss \in Nat \X Nat : ss[1] < ss[2]}
<1>1. IsWellFoundedOn(R, Nat)
  BY NatLessThanWellFounded DEF OpToRel
<1>2. \A x, y \in Nat : y < x => <<y, x>> \in R
  OBVIOUS
<1> HIDE DEF R
<1>3. PICK x \in T : \A y \in T : <<y, x>> \notin R
  BY <1>1, WFMin
<1>4. \A y \in T : ~(y < x)
  BY <1>2, <1>3
<1> QED
  BY <1>4

\* A set that holds the empty sequence, and each sequence whose tail it holds,
\* holds them all.
LEMMA SeqInduction ==
  ASSUME NEW S, NEW T,
         <<>> \in T,
         \A s \in Seq(S) : s # <<>> /\ Tail(s) \in T => s \in T
  PROVE  \A s \in Seq(S) : s \in T
<1> DEFINE Bad == {n \in Nat : \E s \in Seq(S) : Len(s) = n /\ s \notin T}
<1>1. SUFFICES ASSUME Bad # {} PROVE FALSE
  <2> SUFFICES ASSUME NEW s \in Seq(S), s \notin T PROVE Len(s) \in Bad
    BY <1>1
  <2> QED
    BY LenProperties
<1>2. Bad \in SUBSET Nat
  OBVIOUS
<1>3. PICK n \in Bad : \A m \in Bad : n <= m
  <2> HIDE DEF Bad
  <2> QED
    BY <1>1, <1>2, LeastNumber
<1>4. PICK s \in Seq(S) : Len(s) = n /\ s \notin T
  BY <1>3
<1>5. s # <<>>
  BY <1>4
<1>6. Tail(s) \in Seq(S) /\ Len(Tail(s)) = n - 1 /\ n \in Nat /\ n - 1 \in Nat
  BY <1>4, <1>5, HeadTailProperties, EmptySeq
<1>7. Tail(s) \notin T
  BY <1>4, <1>5
<1>8. n - 1 \in Bad
  BY <1>6, <1>7
<1>9. n <= n - 1
  <2> HIDE DEF Bad
  <2> QED
    BY <1>3, <1>8
<1> QED
  BY <1>6, <1>9

\* f is defined by recursion on the tail, from a and g.
IsRecursive(f, S, R, a, g) ==
  /\ f \in [Seq(S) -> R]
  /\ \A s \in Seq(S) : f[s] = IF s = <<>> THEN a ELSE g[<<s, f[Tail(s)]>>]

\* There is such a function.
LEMMA SeqRecursion ==
  ASSUME NEW S, NEW R, NEW a \in R, NEW g \in [Seq(S) \X R -> R]
  PROVE  \E f : IsRecursive(f, S, R, a, g)
<1> DEFINE Upto(n) == {s \in Seq(S) : Len(s) <= n}
           Def(f, n) == /\ f \in [Upto(n) -> R]
                        /\ \A s \in Upto(n) :
                             f[s] = IF s = <<>> THEN a ELSE g[<<s, f[Tail(s)]>>]
           Bad == {n \in Nat : ~ \E f : Def(f, n)}
<1>0. \A s \in Seq(S) : s # <<>> => Tail(s) \in Seq(S) /\ Len(Tail(s)) = Len(s) - 1
  BY HeadTailProperties
<1>1. \A s \in Seq(S) : Len(s) \in Nat
  BY LenProperties
<1>2. ASSUME NEW n \in Nat, NEW f, Def(f, n), NEW m \in Nat, NEW h, Def(h, m)
      PROVE  \A s \in Upto(n) \cap Upto(m) : f[s] = h[s]
  <2> DEFINE T == {s \in Seq(S) : s \in Upto(n) \cap Upto(m) => f[s] = h[s]}
  <2>1. <<>> \in T
    BY <1>2, EmptySeq
  <2>2. ASSUME NEW s \in Seq(S), s # <<>>, Tail(s) \in T PROVE s \in T
    <3> SUFFICES ASSUME s \in Upto(n), s \in Upto(m) PROVE f[s] = h[s]
      OBVIOUS
    <3>1. Len(s) \in Nat /\ Len(s) <= n /\ Len(s) <= m
      BY <1>1
    <3>2. Tail(s) \in Upto(n) /\ Tail(s) \in Upto(m)
      BY <1>0, <2>2, <3>1
    <3>3. f[Tail(s)] = h[Tail(s)]
      BY <2>2, <3>2
    <3>4. f[s] = g[<<s, f[Tail(s)]>>]
      BY <1>2, <2>2
    <3>5. h[s] = g[<<s, h[Tail(s)]>>]
      BY <1>2, <2>2
    <3> QED
      BY <3>3, <3>4, <3>5
  <2>3. \A s \in Seq(S) : s \in T
    <3> HIDE DEF T
    <3> QED
      BY <2>1, <2>2, SeqInduction
  <2> QED
    BY <2>3
<1>3. ASSUME NEW n \in Nat, \A m \in Nat : m < n => \E f : Def(f, m)
      PROVE  \E f : Def(f, n)
  <2>1. CASE n = 0
    <3> DEFINE f == [s \in Upto(0) |-> a]
    <3>1. \A s \in Upto(0) : s = <<>>
      BY <1>1, EmptySeq
    <3>2. Def(f, 0)
      BY <3>1
    <3> QED
      BY <2>1, <3>2
  <2>2. CASE n # 0
    <3>1. n - 1 \in Nat /\ n - 1 < n
      BY <2>2
    <3>2. PICK h : Def(h, n - 1)
      BY <1>3, <3>1
    <3> DEFINE f == [s \in Upto(n) |-> IF s = <<>> THEN a ELSE g[<<s, h[Tail(s)]>>]]
    <3>3. \A s \in Upto(n) : s # <<>> => Tail(s) \in Upto(n - 1) /\ Tail(s) \in Upto(n)
      BY <1>0, <1>1
    <3>4. \A s \in Upto(n) : f[s] \in R
      BY <3>2, <3>3
    <3>5. f \in [Upto(n) -> R]
      BY <3>4
    <3>6. \A s \in Upto(n - 1) : s \in Upto(n) /\ f[s] = h[s]
      <4> TAKE s \in Upto(n - 1)
      <4>1. s \in Upto(n)
        BY <1>1
      <4>2. h[s] = IF s = <<>> THEN a ELSE g[<<s, h[Tail(s)]>>]
        BY <3>2
      <4> QED
        BY <4>1, <4>2
    <3>7. \A s \in Upto(n) : f[s] = IF s = <<>> THEN a ELSE g[<<s, f[Tail(s)]>>]
      BY <3>3, <3>6
    <3>8. Def(f, n)
      BY <3>5, <3>7
    <3> QED
      BY <3>8
  <2> QED
    BY <2>1, <2>2
<1>4. \A n \in Nat : \E f : Def(f, n)
  <2> SUFFICES ASSUME Bad # {} PROVE FALSE
    OBVIOUS
  <2>1. Bad \in SUBSET Nat
    OBVIOUS
  <2>2. PICK n \in Bad : \A m \in Bad : n <= m
    <3> HIDE DEF Bad
    <3> QED
      BY <2>1, LeastNumber
  <2>3. \A m \in Nat : m < n => m \notin Bad
    <3> HIDE DEF Bad
    <3> QED
      BY <2>1, <2>2
  <2>4. \A m \in Nat : m < n => \E f : Def(f, m)
    <3> HIDE DEF Def
    <3> QED
      BY <2>3
  <2> HIDE DEF Def
  <2> QED
    BY <1>3, <2>2, <2>4
<1> DEFINE P == [n \in Nat |-> CHOOSE f : Def(f, n)]
           F == [s \in Seq(S) |-> P[Len(s)][s]]
<1>5. \A n \in Nat : Def(P[n], n)
  <2> HIDE DEF Def
  <2> QED
    BY <1>4
<1>6. \A s \in Seq(S) : s \in Upto(Len(s)) /\ F[s] = P[Len(s)][s]
  BY <1>1
<1>7. F \in [Seq(S) -> R]
  <2>1. \A s \in Seq(S) : P[Len(s)][s] \in R
    BY <1>1, <1>5, <1>6
  <2> QED
    BY <2>1
<1>8. ASSUME NEW s \in Seq(S)
      PROVE  F[s] = IF s = <<>> THEN a ELSE g[<<s, F[Tail(s)]>>]
  <2>1. P[Len(s)][s] = IF s = <<>> THEN a ELSE g[<<s, P[Len(s)][Tail(s)]>>]
    BY <1>1, <1>5, <1>6
  <2>2. CASE s = <<>>
    BY <1>6, <2>1, <2>2
  <2>3. CASE s # <<>>
    <3>1. Tail(s) \in Seq(S) /\ Len(Tail(s)) \in Nat /\ Len(s) \in Nat
      BY <1>0, <1>1, <2>3
    <3>2. Tail(s) \in Upto(Len(s)) /\ Tail(s) \in Upto(Len(Tail(s)))
      BY <1>0, <2>3, <3>1
    <3>3. Def(P[Len(s)], Len(s)) /\ Def(P[Len(Tail(s))], Len(Tail(s)))
      BY <1>5, <3>1
    <3>4. P[Len(s)][Tail(s)] = P[Len(Tail(s))][Tail(s)]
      <4> HIDE DEF Def, P, Upto
      <4> QED
        BY <1>2, <3>1, <3>2, <3>3
    <3>5. F[Tail(s)] = P[Len(Tail(s))][Tail(s)]
      BY <3>1
    <3>6. F[s] = g[<<s, P[Len(s)][Tail(s)]>>]
      BY <1>6, <2>1, <2>3
    <3> HIDE DEF F, P
    <3> QED
      BY <2>3, <3>4, <3>5, <3>6
  <2> QED
    BY <2>2, <2>3
<1> HIDE DEF F
<1> QED
  BY <1>7, <1>8 DEF IsRecursive

\* A sequence with one more element in front.
LEMMA ConsFacts ==
  ASSUME NEW S, NEW x \in S, NEW t \in Seq(S)
  PROVE  /\ <<x>> \o t \in Seq(S)
         /\ <<x>> \o t # <<>>
         /\ Len(<<x>> \o t) = Len(t) + 1
         /\ Head(<<x>> \o t) = x
         /\ Tail(<<x>> \o t) = t
<1>1. <<x>> \in Seq(S) /\ Len(<<x>>) = 1 /\ <<x>>[1] = x /\ Len(t) \in Nat
  BY LenProperties
<1> DEFINE s == <<x>> \o t
<1>2. /\ s \in Seq(S)
      /\ Len(s) = 1 + Len(t)
      /\ \A i \in 1..(1 + Len(t)) : s[i] = IF i <= 1 THEN <<x>>[i] ELSE t[i - 1]
  BY <1>1, ConcatProperties
<1>3. s # <<>> /\ s[1] = x /\ \A i \in 1..Len(t) : s[i + 1] = t[i]
  BY <1>1, <1>2
<1> HIDE DEF s
<1>4. Head(s) = x
  BY <1>2, <1>3
<1>5. /\ Tail(s) \in Seq(S)
      /\ Len(Tail(s)) = Len(t)
      /\ \A i \in 1..Len(t) : Tail(s)[i] = t[i]
  BY <1>1, <1>2, <1>3, HeadTailProperties
<1>6. Tail(s) = t
  BY <1>5, SeqEqual
<1> QED
  BY <1>1, <1>2, <1>3, <1>4, <1>6 DEF s

\* A sequence that is not empty is its head in front of its tail.
LEMMA HeadTailCons ==
  ASSUME NEW S, NEW s \in Seq(S), s # <<>>
  PROVE  s = <<Head(s)>> \o Tail(s)
<1>1. /\ Head(s) \in S
      /\ Tail(s) \in Seq(S)
      /\ Len(Tail(s)) = Len(s) - 1
      /\ \A i \in 1..Len(Tail(s)) : Tail(s)[i] = s[i + 1]
      /\ Len(s) \in Nat
      /\ Head(s) = s[1]
  BY HeadTailProperties, LenProperties
<1> DEFINE t == <<Head(s)>> \o Tail(s)
<1>2. <<Head(s)>> \in Seq(S) /\ Len(<<Head(s)>>) = 1 /\ <<Head(s)>>[1] = Head(s)
  BY <1>1
<1>3. /\ t \in Seq(S)
      /\ Len(t) = 1 + Len(Tail(s))
      /\ \A i \in 1..(1 + Len(Tail(s))) :
           t[i] = IF i <= 1 THEN <<Head(s)>>[i] ELSE Tail(s)[i - 1]
  BY <1>1, <1>2, ConcatProperties
<1> HIDE DEF t
<1>4. Len(t) = Len(s) /\ \A i \in 1..Len(s) : t[i] = s[i]
  BY <1>1, <1>2, <1>3
<1>5. t = s
  BY <1>3, <1>4, SeqEqual
<1> QED
  BY <1>5 DEF t

-----------------------------------------------------------------------------
(***************************************************************************)
(* The segments of a path.                                                 *)
(***************************************************************************)

Names == Seq(Words)

Segments == Seq(Names) \ {<<>>}

\* What Split does with one more word in front of the path.
Before(word, segs) ==
  IF word = "/" THEN << <<>> >> \o segs
  ELSE << <<Unescape(word)>> \o Head(segs) >> \o Tail(segs)

LEMMA UnescapeType == \A w \in Words : Unescape(w) \in Words
BY RoutingAssumption DEF Unescape

LEMMA BeforeType ==
  ASSUME NEW w \in Words, NEW segs \in Segments
  PROVE  Before(w, segs) \in Segments
<1>1. <<>> \in Names /\ << <<>> >> \in Seq(Names)
  BY DEF Names
<1>2. segs \in Seq(Names) /\ segs # <<>> /\ Len(segs) \in Nat
  BY LenProperties DEF Segments
<1>3. Head(segs) \in Names /\ Tail(segs) \in Seq(Names)
  BY <1>2, HeadTailProperties
<1>4. <<Unescape(w)>> \o Head(segs) \in Names
  <2>1. <<Unescape(w)>> \in Seq(Words)
    BY UnescapeType
  <2> QED
    BY <1>3, <2>1, ConcatProperties DEF Names
<1>5. ASSUME NEW x \in Names, NEW t \in Seq(Names)
      PROVE  <<x>> \o t \in Segments
  <2>1. <<x>> \in Seq(Names) /\ Len(<<x>>) = 1
    OBVIOUS
  <2>2. <<x>> \o t \in Seq(Names) /\ Len(<<x>> \o t) = 1 + Len(t)
    BY <2>1, ConcatProperties
  <2>3. Len(t) \in Nat
    BY LenProperties
  <2> QED
    BY <2>2, <2>3 DEF Segments
<1> HIDE DEF Names
<1>6. << <<>> >> \o segs \in Segments
  BY <1>1, <1>2, <1>5
<1>7. << <<Unescape(w)>> \o Head(segs) >> \o Tail(segs) \in Segments
  BY <1>3, <1>4, <1>5
<1> QED
  BY <1>6, <1>7 DEF Before

\* The recursion of Split.
LEMMA SplitIs ==
  /\ Split[<<>>] = << <<>> >>
  /\ \A p \in Names : p # <<>> => Split[p] = Before(Head(p), Split[Tail(p)])
  /\ \A p \in Names : Split[p] \in Segments
<1> DEFINE g == [x \in Names \X Segments |->
                   IF x[1] = <<>> THEN x[2] ELSE Before(Head(x[1]), x[2])]
           a == << <<>> >>
<1>1. a \in Segments
  <2>1. <<>> \in Names
    BY DEF Names
  <2> HIDE DEF Names
  <2> QED
    BY <2>1 DEF Segments
<1>2. \A p \in Names : p # <<>> => Head(p) \in Words /\ Tail(p) \in Names
  BY HeadTailProperties DEF Names
<1>3. \A x \in Names \X Segments : g[x] \in Segments
  BY <1>2, BeforeType
<1>4. g \in [Names \X Segments -> Segments]
  BY <1>3
<1>5. \A p \in Names, r \in Segments : p # <<>> => g[<<p, r>>] = Before(Head(p), r)
  OBVIOUS
<1>6. PICK f \in [Names -> Segments] :
        \A s \in Names : f[s] = IF s = <<>> THEN a ELSE g[<<s, f[Tail(s)]>>]
  <2>1. Names = Seq(Words)
    BY DEF Names
  <2> HIDE DEF a, g, Segments, Names
  <2>2. g \in [Seq(Words) \X Segments -> Segments]
    BY <1>4, <2>1
  <2>3. PICK f : IsRecursive(f, Words, Segments, a, g)
    BY <1>1, <2>2, SeqRecursion
  <2> QED
    BY <2>1, <2>3 DEF IsRecursive
<1>7. \A s \in Names : f[s] = IF s = <<>> THEN a ELSE Before(Head(s), f[Tail(s)])
  <2> HIDE DEF g, a
  <2> QED
    BY <1>2, <1>5, <1>6
<1> DEFINE D(h) == [path \in Seq(Words) |->
                      IF path = <<>> THEN << <<>> >>
                      ELSE LET word == Head(path)
                               rest == h[Tail(path)]
                           IN IF word = "/" THEN << <<>> >> \o rest
                              ELSE << <<Unescape(word)>> \o Head(rest) >> \o Tail(rest)]
<1>8. \A h : D(h) = [s \in Names |-> IF s = <<>> THEN a ELSE Before(Head(s), h[Tail(s)])]
  BY DEF Before, Names
<1>9. f = D(f)
  <2> HIDE DEF D
  <2>1. f = [s \in Names |-> f[s]]
    OBVIOUS
  <2> HIDE DEF a
  <2> QED
    BY <1>7, <1>8, <2>1
<1>10. Split = D(Split)
  <2>1. Split = CHOOSE h : h = D(h)
    BY DEF Split
  <2> HIDE DEF D
  <2> QED
    BY <1>9, <2>1
<1>11. Split = [s \in Names |-> IF s = <<>> THEN a ELSE Before(Head(s), Split[Tail(s)])]
  <2> HIDE DEF D
  <2> QED
    BY <1>8, <1>10
<1>12. \A s \in Names : Split[s] = IF s = <<>> THEN a ELSE Before(Head(s), Split[Tail(s)])
  BY <1>11
<1>13. <<>> \in Names
  BY DEF Names
<1> DEFINE T == {s \in Names : Split[s] \in Segments}
<1>14. <<>> \in T
  BY <1>1, <1>12, <1>13
<1>15. ASSUME NEW s \in Names, s # <<>>, Tail(s) \in T PROVE s \in T
  BY <1>2, <1>12, <1>15, BeforeType
<1>16. \A s \in Names : s \in T
  <2> HIDE DEF T
  <2> QED
    BY <1>14, <1>15, SeqInduction DEF Names
<1> QED
  BY <1>12, <1>13, <1>16

\* What Join does with one more segment in front of some.
With(seg, name) == seg \o <<"/">> \o name

LEMMA SlashType == "/" \in Words /\ "%2F" \in Words
BY RoutingAssumption

LEMMA WithType ==
  ASSUME NEW seg \in Names, NEW name \in Names
  PROVE  With(seg, name) \in Names
<1>1. <<"/">> \in Seq(Words)
  BY SlashType
<1>2. seg \o <<"/">> \in Seq(Words)
  BY <1>1, ConcatProperties DEF Names
<1> QED
  BY <1>2, ConcatProperties DEF With, Names

\* The recursion of Join.
LEMMA JoinIs ==
  /\ Join[<<>>] = <<>>
  /\ \A x \in Seq(Names) : x # <<>> =>
       Join[x] = IF Tail(x) = <<>> THEN Head(x) ELSE With(Head(x), Join[Tail(x)])
  /\ \A x \in Seq(Names) : Join[x] \in Names
<1> DEFINE a == <<>>
           G(s, r) == IF Tail(s) = <<>> THEN Head(s) ELSE With(Head(s), r)
           g == [x \in Seq(Names) \X Names |-> IF x[1] = <<>> THEN x[2] ELSE G(x[1], x[2])]
<1>1. a \in Names /\ <<>> \in Seq(Names)
  BY DEF Names
<1>2. \A s \in Seq(Names) : s # <<>> => Head(s) \in Names /\ Tail(s) \in Seq(Names)
  BY HeadTailProperties
<1>3. ASSUME NEW s \in Seq(Names), s # <<>>, NEW r \in Names PROVE G(s, r) \in Names
  BY <1>2, <1>3, WithType
<1> HIDE DEF G, Names
<1>4. g \in [Seq(Names) \X Names -> Names]
  <2>1. \A x \in Seq(Names) \X Names : g[x] \in Names
    BY <1>3
  <2> QED
    BY <2>1
<1>5. \A s \in Seq(Names), r \in Names : s # <<>> => g[<<s, r>>] = G(s, r)
  OBVIOUS
<1>6. PICK f : IsRecursive(f, Names, Names, a, g)
  <2> HIDE DEF a, g
  <2> QED
    BY <1>1, <1>4, SeqRecursion
<1>7. /\ f \in [Seq(Names) -> Names]
      /\ \A s \in Seq(Names) : f[s] = IF s = <<>> THEN a ELSE g[<<s, f[Tail(s)]>>]
  <2> HIDE DEF a, g
  <2> QED
    BY <1>6 DEF IsRecursive
<1>8. \A s \in Seq(Names) : f[s] = IF s = <<>> THEN a ELSE G(s, f[Tail(s)])
  <2> HIDE DEF g, a
  <2> QED
    BY <1>2, <1>5, <1>7
<1> DEFINE D(h) == [segs \in Seq(Seq(Words)) |->
                      IF segs = <<>> THEN <<>>
                      ELSE IF Tail(segs) = <<>> THEN Head(segs)
                      ELSE Head(segs) \o <<"/">> \o h[Tail(segs)]]
<1>9. \A h : D(h) = [s \in Seq(Names) |-> IF s = <<>> THEN a ELSE G(s, h[Tail(s)])]
  BY DEF With, Names, G
<1>10. f = D(f)
  <2> HIDE DEF D
  <2>1. f = [s \in Seq(Names) |-> f[s]]
    BY <1>7
  <2> HIDE DEF a
  <2> QED
    BY <1>8, <1>9, <2>1
<1>11. Join = D(Join)
  <2>1. Join = CHOOSE h : h = D(h)
    BY DEF Join
  <2> HIDE DEF D
  <2> QED
    BY <1>10, <2>1
<1>12. Join = [s \in Seq(Names) |-> IF s = <<>> THEN a ELSE G(s, Join[Tail(s)])]
  <2> HIDE DEF D
  <2> QED
    BY <1>9, <1>11
<1>13. \A s \in Seq(Names) : Join[s] = IF s = <<>> THEN a ELSE G(s, Join[Tail(s)])
  BY <1>12
<1> DEFINE T == {s \in Seq(Names) : Join[s] \in Names}
<1>14. <<>> \in T
  BY <1>1, <1>13
<1>15. ASSUME NEW s \in Seq(Names), s # <<>>, Tail(s) \in T PROVE s \in T
  BY <1>3, <1>13, <1>15
<1>16. \A s \in Seq(Names) : s \in T
  <2> HIDE DEF T
  <2> QED
    BY <1>14, <1>15, SeqInduction
<1> QED
  BY <1>1, <1>13, <1>16 DEF G

\* A name without an escape.
Plain(name) == \A i \in 1..Len(name) : name[i] # "%2F"

\* The tail of a name without an escape, and its first word.
LEMMA PlainTail ==
  ASSUME NEW p \in Names, p # <<>>, Plain(p)
  PROVE  /\ Head(p) \in Words /\ Head(p) # "%2F"
         /\ Tail(p) \in Names /\ Plain(Tail(p))
         /\ p = <<Head(p)>> \o Tail(p)
<1>1. /\ Head(p) \in Words
      /\ Tail(p) \in Names
      /\ Len(Tail(p)) = Len(p) - 1
      /\ \A i \in 1..Len(Tail(p)) : Tail(p)[i] = p[i + 1]
      /\ Len(p) \in Nat
      /\ Len(p) # 0
      /\ Head(p) = p[1]
  BY HeadTailProperties, LenProperties, EmptySeq DEF Names
<1>2. p = <<Head(p)>> \o Tail(p)
  BY HeadTailCons DEF Names
<1> QED
  BY <1>1, <1>2 DEF Plain

\* Joined, the segments of a name are the name: "/" survives wherever it is.
LEMMA JoinSplit ==
  ASSUME NEW name \in Names, Plain(name)
  PROVE  Join[Split[name]] = name
<1> DEFINE T == {p \in Names : Plain(p) => Join[Split[p]] = p}
<1>1. <<>> \in T
  <2>1. <<>> \in Names /\ << <<>> >> \in Seq(Names)
    BY DEF Names
  <2>2. Tail(<< <<>> >>) = <<>> /\ Head(<< <<>> >>) = <<>> /\ << <<>> >> # <<>>
    OBVIOUS
  <2>3. Join[<< <<>> >>] = <<>>
    BY <2>1, <2>2, JoinIs
  <2> QED
    BY <2>1, <2>3, SplitIs
<1>2. ASSUME NEW p \in Names, p # <<>>, Tail(p) \in T PROVE p \in T
  <2> SUFFICES ASSUME Plain(p) PROVE Join[Split[p]] = p
    OBVIOUS
  <2> DEFINE w == Head(p)
             t == Tail(p)
             segs == Split[t]
  <2>1. w \in Words /\ w # "%2F" /\ t \in Names /\ p = <<w>> \o t
    BY <1>2, PlainTail
  <2>2. Join[segs] = t
    BY <1>2, PlainTail
  <2>3. Split[p] = Before(w, segs)
    BY <1>2, SplitIs
  <2>4. segs \in Seq(Names) /\ segs # <<>>
    BY <2>1, SplitIs DEF Segments
  <2> HIDE DEF w, t, segs
  <2>5. Head(segs) \in Names /\ Tail(segs) \in Seq(Names)
    BY <2>4, HeadTailProperties
  <2>6. <<>> \in Names /\ <<w>> \in Names /\ <<"/">> \in Names
    BY <2>1, SlashType DEF Names
  <2>7. CASE w = "/"
    <3> DEFINE r == << <<>> >> \o segs
    <3>1. Split[p] = r
      BY <2>3, <2>7 DEF Before
    <3>2. r \in Seq(Names) /\ r # <<>> /\ Head(r) = <<>> /\ Tail(r) = segs
      <4> HIDE DEF Names
      <4> QED
        BY <2>4, <2>6, ConsFacts
    <3> HIDE DEF r
    <3>3. Join[r] = With(<<>>, t)
      BY <2>2, <2>4, <3>2, JoinIs
    <3>4. With(<<>>, t) = <<"/">> \o t
      BY <2>1, <2>6, ConcatEmptySeq DEF With, Names
    <3> QED
      BY <2>1, <2>7, <3>1, <3>3, <3>4
  <2>8. CASE w # "/"
    <3> DEFINE h == <<w>> \o Head(segs)
               r == <<h>> \o Tail(segs)
    <3>1. Split[p] = r
      BY <2>1, <2>3, <2>8 DEF Before, Unescape
    <3>2. h \in Names
      BY <2>5, <2>6, ConcatProperties DEF Names
    <3>3. r \in Seq(Names) /\ r # <<>> /\ Head(r) = h /\ Tail(r) = Tail(segs)
      <4> HIDE DEF Names, h
      <4> QED
        BY <2>5, <3>2, ConsFacts
    <3> HIDE DEF r
    <3>4. CASE Tail(segs) = <<>>
      <4>1. Join[r] = h
        BY <3>3, <3>4, JoinIs
      <4>2. Join[segs] = Head(segs)
        BY <2>4, <3>4, JoinIs
      <4> QED
        BY <2>1, <2>2, <3>1, <4>1, <4>2
    <3>5. CASE Tail(segs) # <<>>
      <4> DEFINE s == Head(segs)
                 j == Join[Tail(segs)]
      <4>1. Join[r] = With(h, j)
        BY <3>3, <3>5, JoinIs
      <4>2. t = With(s, j)
        BY <2>2, <2>4, <3>5, JoinIs
      <4>3. s \in Seq(Words) /\ j \in Seq(Words) /\ <<w>> \in Seq(Words) /\ <<"/">> \in Seq(Words)
        BY <2>5, <2>6, JoinIs DEF Names
      <4>4. h = <<w>> \o s
        OBVIOUS
      <4> HIDE DEF s, j, h
      <4>5. With(h, j) = <<w>> \o With(s, j)
        <5>1. (<<w>> \o s) \o <<"/">> = <<w>> \o (s \o <<"/">>)
          BY <4>3, ConcatAssociative
        <5>2. s \o <<"/">> \in Seq(Words)
          BY <4>3, ConcatProperties
        <5>3. (<<w>> \o (s \o <<"/">>)) \o j = <<w>> \o ((s \o <<"/">>) \o j)
          BY <4>3, <5>2, ConcatAssociative
        <5> QED
          BY <4>4, <5>1, <5>3 DEF With
      <4> QED
        BY <2>1, <3>1, <4>1, <4>2, <4>5
    <3> QED
      BY <3>4, <3>5
  <2> QED
    BY <2>7, <2>8
<1>3. \A p \in Names : p \in T
  <2> HIDE DEF T
  <2> QED
    BY <1>1, <1>2, SeqInduction DEF Names
<1> QED
  BY <1>3

\* A word and a slash in front of a path are a segment of their own.
LEMMA Peel ==
  ASSUME NEW w \in Words, w # "/", NEW p \in Names
  PROVE  /\ <<"/">> \o p \in Names
         /\ <<w>> \o (<<"/">> \o p) \in Names
         /\ Split[<<w>> \o (<<"/">> \o p)] = << <<Unescape(w)>> >> \o Split[p]
<1> DEFINE q == <<"/">> \o p
           s == <<w>> \o q
           segs == Split[p]
<1>1. q \in Names /\ q # <<>> /\ Head(q) = "/" /\ Tail(q) = p
  BY SlashType, ConsFacts DEF Names
<1>2. segs \in Seq(Names) /\ segs # <<>>
  BY SplitIs DEF Segments
<1>3. Split[q] = << <<>> >> \o segs
  BY <1>1, SplitIs DEF Before
<1>4. <<>> \in Names
  BY DEF Names
<1> HIDE DEF q, segs
<1>5. Split[q] \in Seq(Names) /\ Head(Split[q]) = <<>> /\ Tail(Split[q]) = segs
  <2> HIDE DEF Names
  <2> QED
    BY <1>2, <1>3, <1>4, ConsFacts
<1>6. s \in Names /\ s # <<>> /\ Head(s) = w /\ Tail(s) = q
  BY <1>1, ConsFacts DEF Names
<1>7. Split[s] = << <<Unescape(w)>> \o <<>> >> \o segs
  BY <1>5, <1>6, SplitIs DEF Before
<1>8. <<Unescape(w)>> \in Seq(Words)
  BY UnescapeType
<1>9. <<Unescape(w)>> \o <<>> = <<Unescape(w)>>
  BY <1>8, ConcatEmptySeq
<1> QED
  BY <1>1, <1>6, <1>7, <1>9 DEF q, segs

\* A path without a slash is one segment.
LEMMA SplitOne ==
  ASSUME NEW p \in Names, \A i \in 1..Len(p) : p[i] # "/"
  PROVE  Split[p] = << [i \in 1..Len(p) |-> Unescape(p[i])] >>
<1> DEFINE U(s) == [i \in 1..Len(s) |-> Unescape(s[i])]
           T == {s \in Names : (\A i \in 1..Len(s) : s[i] # "/") => Split[s] = <<U(s)>>}
<1>0. \A s \in Names : Len(s) \in Nat /\ U(s) \in Names /\ Len(U(s)) = Len(s)
  <2> TAKE s \in Names
  <2>1. Len(s) \in Nat /\ \A i \in 1..Len(s) : s[i] \in Words
    BY LenProperties, ElementOfSeq DEF Names
  <2>2. U(s) \in [1..Len(s) -> Words]
    BY <2>1, UnescapeType
  <2> QED
    BY <2>1, <2>2 DEF Names
<1>1. <<>> \in T
  <2>1. <<>> \in Names /\ U(<<>>) = <<>>
    BY DEF Names
  <2> QED
    BY <2>1, SplitIs
<1>2. ASSUME NEW s \in Names, s # <<>>, Tail(s) \in T PROVE s \in T
  <2> SUFFICES ASSUME \A i \in 1..Len(s) : s[i] # "/" PROVE Split[s] = <<U(s)>>
    OBVIOUS
  <2> DEFINE w == Head(s)
             t == Tail(s)
  <2>1. /\ w \in Words
        /\ t \in Names
        /\ Len(t) = Len(s) - 1
        /\ \A i \in 1..Len(t) : t[i] = s[i + 1]
        /\ Len(s) \in Nat
        /\ Len(s) # 0
        /\ w = s[1]
    BY <1>2, HeadTailProperties, LenProperties, EmptySeq DEF Names
  <2>2. w # "/" /\ \A i \in 1..Len(t) : t[i] # "/"
    BY <2>1
  <2>3. Split[t] = <<U(t)>>
    BY <1>2, <2>2
  <2>4. Split[s] = Before(w, <<U(t)>>)
    BY <1>2, <2>3, SplitIs
  <2>5. U(t) \in Names /\ U(s) \in Names /\ Len(U(t)) = Len(t) /\ Len(U(s)) = Len(s)
    BY <1>0, <2>1
  <2>6. \A i \in 1..Len(s) : U(s)[i] = Unescape(s[i])
    BY <2>1
  <2>7. \A i \in 1..Len(t) : U(t)[i] = Unescape(t[i])
    BY <2>1
  <2> HIDE DEF U, w, t
  <2>8. Head(<<U(t)>>) = U(t) /\ Tail(<<U(t)>>) = <<>>
    OBVIOUS
  <2> DEFINE h == <<Unescape(w)>> \o U(t)
  <2>9. <<Unescape(w)>> \in Seq(Words) /\ Len(<<Unescape(w)>>) = 1
    BY <2>1, UnescapeType
  <2>10. /\ h \in Seq(Words)
         /\ Len(h) = 1 + Len(t)
         /\ \A i \in 1..(1 + Len(t)) :
              h[i] = IF i <= 1 THEN <<Unescape(w)>>[i] ELSE U(t)[i - 1]
    BY <2>5, <2>9, ConcatProperties DEF Names
  <2>11. h = U(s)
    <3> HIDE DEF h
    <3>1. Len(h) = Len(U(s)) /\ Len(h) = Len(s)
      BY <2>1, <2>5, <2>10
    <3>2. ASSUME NEW i \in 1..Len(s) PROVE h[i] = U(s)[i]
      <4>1. CASE i = 1
        BY <2>1, <2>6, <2>10, <4>1
      <4>2. CASE i # 1
        <5>1. i - 1 \in 1..Len(t) /\ i \in 1..(1 + Len(t)) /\ ~(i <= 1)
          BY <2>1, <4>2
        <5>2. t[i - 1] = s[i]
          BY <2>1, <5>1
        <5>3. h[i] = U(t)[i - 1]
          BY <2>10, <5>1
        <5>4. U(t)[i - 1] = Unescape(t[i - 1])
          BY <2>7, <5>1
        <5> QED
          BY <2>6, <5>2, <5>3, <5>4
      <4> QED
        BY <4>1, <4>2
    <3> QED
      BY <2>5, <2>10, <3>1, <3>2, SeqEqual DEF Names
  <2>12. <<U(s)>> \o <<>> = <<U(s)>>
    <3>1. <<U(s)>> \in Seq(Names)
      BY <2>5
    <3> QED
      BY <3>1, ConcatEmptySeq
  <2> QED
    BY <2>2, <2>4, <2>8, <2>11, <2>12 DEF Before
<1>3. \A s \in Names : s \in T
  <2> HIDE DEF T
  <2> QED
    BY <1>1, <1>2, SeqInduction DEF Names
<1> QED
  BY <1>3

-----------------------------------------------------------------------------
(***************************************************************************)
(* The paths that the clients send.                                        *)
(***************************************************************************)

\* A word, a slash and a path.
Step(w, p) == <<w>> \o (<<"/">> \o p)

\* A path that does not end in a slash.
Closed(p) == p \in Names /\ p # <<>> /\ p[Len(p)] # "/"

LEMMA StepFacts ==
  ASSUME NEW w \in Words, w # "/", NEW p, Closed(p)
  PROVE  /\ Closed(Step(w, p))
         /\ Step(w, p)[1] = w
         /\ Split[Step(w, p)] = << <<Unescape(w)>> >> \o Split[p]
<1>1. p \in Names /\ p # <<>> /\ Len(p) \in Nat \ {0}
  BY EmptySeq DEF Closed, Names
<1> DEFINE q == <<"/">> \o p
<1>2. <<"/">> \in Seq(Words) /\ Len(<<"/">>) = 1 /\ <<w>> \in Seq(Words) /\ Len(<<w>>) = 1
  BY SlashType
<1>3. /\ q \in Seq(Words)
      /\ Len(q) = 1 + Len(p)
      /\ \A i \in 1..(1 + Len(p)) : q[i] = IF i <= 1 THEN <<"/">>[i] ELSE p[i - 1]
  BY <1>1, <1>2, ConcatProperties DEF Names
<1> HIDE DEF q
<1> DEFINE s == <<w>> \o q
<1>4. /\ s \in Seq(Words)
      /\ Len(s) = 1 + Len(q)
      /\ \A i \in 1..(1 + Len(q)) : s[i] = IF i <= 1 THEN <<w>>[i] ELSE q[i - 1]
  BY <1>2, <1>3, ConcatProperties
<1> HIDE DEF s
<1>5. s[1] = w /\ s # <<>>
  BY <1>1, <1>3, <1>4
<1>6. s[Len(s)] = p[Len(p)]
  BY <1>1, <1>3, <1>4
<1>7. Step(w, p) = s
  BY DEF Step, s, q
<1>8. Closed(s)
  BY <1>4, <1>5, <1>6 DEF Closed, Names
<1> QED
  BY <1>1, <1>5, <1>7, <1>8, Peel DEF Step

\* The slash in front of a path is trimmed.
LEMMA SlashPath ==
  ASSUME NEW p, Closed(p), p[1] # "/"
  PROVE  SplitPath(<<"/">> \o p) = Split[p]
<1>1. p \in Names /\ p # <<>> /\ Len(p) \in Nat \ {0}
  BY EmptySeq DEF Closed, Names
<1> DEFINE q == <<"/">> \o p
           I == {i \in 1..Len(q) : q[i] # "/"}
<1>2. <<"/">> \in Seq(Words) /\ Len(<<"/">>) = 1
  BY SlashType
<1>3. /\ q \in Seq(Words)
      /\ Len(q) = 1 + Len(p)
      /\ \A i \in 1..(1 + Len(p)) : q[i] = IF i <= 1 THEN <<"/">>[i] ELSE p[i - 1]
  BY <1>1, <1>2, ConcatProperties DEF Names
<1>4. Trim(q) = IF I = {} THEN <<>> ELSE SubSeq(q, Min(I), Max(I))
  BY DEF Trim
<1> HIDE DEF q
<1>5. q[1] = "/" /\ q[2] # "/" /\ q[Len(q)] # "/" /\ Len(q) >= 2
  BY <1>1, <1>3 DEF Closed
<1>6. 2 \in I /\ Len(q) \in I /\ \A i \in I : i \in Int /\ 2 <= i /\ i <= Len(q)
  BY <1>1, <1>3, <1>5
<1> HIDE DEF I
<1>7. Min(I) = 2
  BY <1>6 DEF Min
<1>8. Len(q) \in Int
  BY <1>1, <1>3
<1>9. Max(I) = Len(q)
  BY <1>6, <1>8 DEF Max
<1>10. q # <<>>
  BY <1>5
<1>11. SubSeq(q, 2, Len(q)) = Tail(q)
  BY <1>3, <1>10, TailIsSubSeq
<1>12. Tail(q) = p
  BY <1>1, SlashType, ConsFacts DEF q, Names
<1>13. Trim(q) = p
  BY <1>4, <1>6, <1>7, <1>9, <1>11, <1>12
<1> QED
  BY <1>1, <1>13 DEF SplitPath, q

\* An escaped name is one segment, the name.
LEMMA SplitEscape ==
  ASSUME NEW name \in Names, name # <<>>, Plain(name)
  PROVE  /\ Closed(Escape(name))
         /\ Split[Escape(name)] = <<name>>
<1> DEFINE e == Escape(name)
<1>1. Len(name) \in Nat \ {0} /\ \A i \in 1..Len(name) : name[i] \in Words
  BY LenProperties, ElementOfSeq, EmptySeq DEF Names
<1>2. e = [i \in 1..Len(name) |-> IF name[i] = "/" THEN "%2F" ELSE name[i]]
  BY DEF Escape, ReplaceAll
<1>3. e \in [1..Len(name) -> Words]
  BY <1>1, <1>2, SlashType
<1>4. e \in Names /\ Len(e) = Len(name)
  BY <1>1, <1>3 DEF Names
<1>5. \A i \in 1..Len(name) : e[i] = IF name[i] = "/" THEN "%2F" ELSE name[i]
  BY <1>2
<1> HIDE DEF e
<1>6. \A i \in 1..Len(e) : e[i] # "/"
  BY <1>4, <1>5
<1> DEFINE u == [i \in 1..Len(e) |-> Unescape(e[i])]
<1>7. Split[e] = <<u>>
  BY <1>4, <1>6, SplitOne
<1>8. u \in [1..Len(name) -> Words]
  BY <1>3, <1>4, UnescapeType
<1>9. u \in Names /\ Len(u) = Len(name)
  BY <1>1, <1>8 DEF Names
<1>10. \A i \in 1..Len(name) : u[i] = name[i]
  BY <1>4, <1>5 DEF Unescape, Plain
<1> HIDE DEF u
<1>11. u = name
  BY <1>9, <1>10, SeqEqual DEF Names
<1>12. Closed(e)
  BY <1>1, <1>4, <1>6 DEF Closed
<1> QED
  BY <1>7, <1>11, <1>12 DEF e

\* A path of one word.
LEMMA WordPath ==
  ASSUME NEW w \in Words, w # "/"
  PROVE  /\ Closed(<<w>>)
         /\ Split[<<w>>] = << <<Unescape(w)>> >>
<1>1. <<w>> \in Names /\ Len(<<w>>) = 1 /\ <<w>>[1] = w /\ <<w>> # <<>>
  BY DEF Names
<1>2. Split[<<w>>] = << [i \in 1..1 |-> Unescape(<<w>>[i])] >>
  BY <1>1, SplitOne
<1>3. [i \in 1..1 |-> Unescape(<<w>>[i])] = <<Unescape(w)>>
  OBVIOUS
<1> QED
  BY <1>1, <1>2, <1>3 DEF Closed

LEMMA ConsConcat ==
  ASSUME NEW x \in Words, NEW s \in Names, NEW t \in Names
  PROVE  /\ (<<x>> \o s) \o t = <<x>> \o (s \o t)
         /\ s \o t \in Names
         /\ <<x>> \o s \in Names
<1>1. <<x>> \in Seq(Words)
  OBVIOUS
<1> QED
  BY <1>1, ConcatAssociative, ConcatProperties DEF Names

\* The words that the paths of GCS begin with.
LEMMA PathWords ==
  /\ {"storage", "v1", "b", "o", "upload", "download"} \subseteq Words \ {"/", "%2F"}
  /\ \A w \in Words \ {"%2F"} : Unescape(w) = w
BY RoutingAssumption DEF Unescape

LEMMA V1Path ==
  ASSUME NEW q \in Names
  PROVE  /\ V1 \o (<<"/">> \o q) = <<"/">> \o Step("storage", Step("v1", Step("b", q)))
         /\ V1 = <<"/">> \o Step("storage", Step("v1", <<"b">>))
         /\ V1 \in Names
<1>1. "/" \in Words /\ "storage" \in Words /\ "v1" \in Words /\ "b" \in Words
  BY RoutingAssumption
<1> DEFINE t == <<"/">> \o q
           a == <<"b">>
           b == <<"/">> \o a
           c == <<"v1">> \o b
           d == <<"/">> \o c
           e == <<"storage">> \o d
           f == <<"/">> \o e
<1>2. t \in Names /\ a \in Names
  BY <1>1, ConsFacts DEF Names
<1>3. b \in Names /\ b \o t = <<"/">> \o (a \o t)
  <2>1. "/" \in Words /\ a \in Names /\ t \in Names
    BY <1>1, <1>2
  <2> HIDE DEF t, a
  <2> QED
    BY <2>1, ConsConcat
<1>4. c \in Names /\ c \o t = <<"v1">> \o (b \o t)
  <2>1. "v1" \in Words /\ b \in Names /\ t \in Names
    BY <1>1, <1>2, <1>3
  <2> HIDE DEF t, b
  <2> QED
    BY <2>1, ConsConcat
<1>5. d \in Names /\ d \o t = <<"/">> \o (c \o t)
  <2>1. "/" \in Words /\ c \in Names /\ t \in Names
    BY <1>1, <1>2, <1>4
  <2> HIDE DEF t, c
  <2> QED
    BY <2>1, ConsConcat
<1>6. e \in Names /\ e \o t = <<"storage">> \o (d \o t)
  <2>1. "storage" \in Words /\ d \in Names /\ t \in Names
    BY <1>1, <1>2, <1>5
  <2> HIDE DEF t, d
  <2> QED
    BY <2>1, ConsConcat
<1>7. f \in Names /\ f \o t = <<"/">> \o (e \o t)
  <2>1. "/" \in Words /\ e \in Names /\ t \in Names
    BY <1>1, <1>2, <1>6
  <2> HIDE DEF t, e
  <2> QED
    BY <2>1, ConsConcat
<1>8. V1 = f
  <2>1. b = <<"/", "b">>
    <3>1. <<"/", "b">> \in Seq(Words)
      BY <1>1
    <3>2. Head(<<"/", "b">>) = "/" /\ Tail(<<"/", "b">>) = <<"b">> /\ <<"/", "b">> # <<>>
      OBVIOUS
    <3>3. <<"/", "b">> = <<"/">> \o <<"b">>
      BY <3>1, <3>2, HeadTailCons
    <3> HIDE DEF a
    <3> QED
      BY <3>3 DEF a
  <2>2. c = <<"v1", "/", "b">>
    <3>1. <<"v1", "/", "b">> \in Seq(Words)
      BY <1>1
    <3>2. Head(<<"v1", "/", "b">>) = "v1" /\ Tail(<<"v1", "/", "b">>) = <<"/", "b">> /\ <<"v1", "/", "b">> # <<>>
      OBVIOUS
    <3>3. <<"v1", "/", "b">> = <<"v1">> \o <<"/", "b">>
      BY <3>1, <3>2, HeadTailCons
    <3> HIDE DEF b
    <3> QED
      BY <2>1, <3>3
  <2>3. d = <<"/", "v1", "/", "b">>
    <3>1. <<"/", "v1", "/", "b">> \in Seq(Words)
      BY <1>1
    <3>2. Head(<<"/", "v1", "/", "b">>) = "/" /\ Tail(<<"/", "v1", "/", "b">>) = <<"v1", "/", "b">> /\ <<"/", "v1", "/", "b">> # <<>>
      OBVIOUS
    <3>3. <<"/", "v1", "/", "b">> = <<"/">> \o <<"v1", "/", "b">>
      BY <3>1, <3>2, HeadTailCons
    <3> HIDE DEF c
    <3> QED
      BY <2>2, <3>3
  <2>4. e = <<"storage", "/", "v1", "/", "b">>
    <3>1. <<"storage", "/", "v1", "/", "b">> \in Seq(Words)
      BY <1>1
    <3>2. Head(<<"storage", "/", "v1", "/", "b">>) = "storage" /\ Tail(<<"storage", "/", "v1", "/", "b">>) = <<"/", "v1", "/", "b">> /\ <<"storage", "/", "v1", "/", "b">> # <<>>
      OBVIOUS
    <3>3. <<"storage", "/", "v1", "/", "b">> = <<"storage">> \o <<"/", "v1", "/", "b">>
      BY <3>1, <3>2, HeadTailCons
    <3> HIDE DEF d
    <3> QED
      BY <2>3, <3>3
  <2>5. f = <<"/", "storage", "/", "v1", "/", "b">>
    <3>1. <<"/", "storage", "/", "v1", "/", "b">> \in Seq(Words)
      BY <1>1
    <3>2. Head(<<"/", "storage", "/", "v1", "/", "b">>) = "/" /\ Tail(<<"/", "storage", "/", "v1", "/", "b">>) = <<"storage", "/", "v1", "/", "b">> /\ <<"/", "storage", "/", "v1", "/", "b">> # <<>>
      OBVIOUS
    <3>3. <<"/", "storage", "/", "v1", "/", "b">> = <<"/">> \o <<"storage", "/", "v1", "/", "b">>
      BY <3>1, <3>2, HeadTailCons
    <3> HIDE DEF e
    <3> QED
      BY <2>4, <3>3
  <2> HIDE DEF f
  <2> QED
    BY <2>5 DEF V1
<1>9. a \o t = Step("b", q)
  BY DEF Step
<1>10. f = <<"/">> \o Step("storage", Step("v1", <<"b">>))
  BY DEF Step
<1> HIDE DEF t, a, b, c, d, e, f
<1>11. f \o t = <<"/">> \o Step("storage", Step("v1", Step("b", q)))
  BY <1>3, <1>4, <1>5, <1>6, <1>7, <1>9 DEF Step
<1> QED
  BY <1>7, <1>8, <1>10, <1>11 DEF t

\* Tuples, one element at a time.
LEMMA Tuple2 ==
  ASSUME NEW a, NEW b
  PROVE  <<a>> \o <<b>> = <<a, b>>
<1>1. <<a, b>> \in Seq({a, b}) /\ <<a, b>> # <<>>
  OBVIOUS
<1>2. Head(<<a, b>>) = a /\ Tail(<<a, b>>) = <<b>>
  OBVIOUS
<1> QED
  BY <1>1, <1>2, HeadTailCons

LEMMA Tuple3 ==
  ASSUME NEW a, NEW b, NEW c
  PROVE  <<a>> \o <<b, c>> = <<a, b, c>>
<1>1. <<a, b, c>> \in Seq({a, b, c}) /\ <<a, b, c>> # <<>>
  OBVIOUS
<1>2. Head(<<a, b, c>>) = a /\ Tail(<<a, b, c>>) = <<b, c>>
  OBVIOUS
<1> QED
  BY <1>1, <1>2, HeadTailCons

LEMMA Tuple4 ==
  ASSUME NEW a, NEW b, NEW c, NEW d
  PROVE  <<a>> \o <<b, c, d>> = <<a, b, c, d>>
<1>1. <<a, b, c, d>> \in Seq({a, b, c, d}) /\ <<a, b, c, d>> # <<>>
  OBVIOUS
<1>2. Head(<<a, b, c, d>>) = a /\ Tail(<<a, b, c, d>>) = <<b, c, d>>
  OBVIOUS
<1> QED
  BY <1>1, <1>2, HeadTailCons

LEMMA Tuple5 ==
  ASSUME NEW a, NEW b, NEW c, NEW d, NEW e
  PROVE  <<a>> \o <<b, c, d, e>> = <<a, b, c, d, e>>
<1>1. <<a, b, c, d, e>> \in Seq({a, b, c, d, e}) /\ <<a, b, c, d, e>> # <<>>
  OBVIOUS
<1>2. Head(<<a, b, c, d, e>>) = a /\ Tail(<<a, b, c, d, e>>) = <<b, c, d, e>>
  OBVIOUS
<1> QED
  BY <1>1, <1>2, HeadTailCons

LEMMA Tuple6 ==
  ASSUME NEW a, NEW b, NEW c, NEW d, NEW e, NEW f
  PROVE  <<a>> \o <<b, c, d, e, f>> = <<a, b, c, d, e, f>>
<1>1. <<a, b, c, d, e, f>> \in Seq({a, b, c, d, e, f}) /\ <<a, b, c, d, e, f>> # <<>>
  OBVIOUS
<1>2. Head(<<a, b, c, d, e, f>>) = a /\ Tail(<<a, b, c, d, e, f>>) = <<b, c, d, e, f>>
  OBVIOUS
<1> QED
  BY <1>1, <1>2, HeadTailCons

LEMMA Tuple7 ==
  ASSUME NEW a, NEW b, NEW c, NEW d, NEW e, NEW f, NEW g
  PROVE  <<a>> \o <<b, c, d, e, f, g>> = <<a, b, c, d, e, f, g>>
<1>1. <<a, b, c, d, e, f, g>> \in Seq({a, b, c, d, e, f, g}) /\ <<a, b, c, d, e, f, g>> # <<>>
  OBVIOUS
<1>2. Head(<<a, b, c, d, e, f, g>>) = a /\ Tail(<<a, b, c, d, e, f, g>>) = <<b, c, d, e, f, g>>
  OBVIOUS
<1> QED
  BY <1>1, <1>2, HeadTailCons

\* A step of a word that is not an escape.
LEMMA PlainStep ==
  ASSUME NEW w \in Words \ {"/", "%2F"}, NEW p, Closed(p)
  PROVE  /\ Closed(Step(w, p))
         /\ Step(w, p)[1] = w
         /\ Split[Step(w, p)] = << <<w>> >> \o Split[p]
<1>1. w \in Words /\ w # "/" /\ Unescape(w) = w
  BY PathWords
<1> QED
  BY <1>1, StepFacts

LEMMA V1Segments ==
  ASSUME NEW q, Closed(q)
  PROVE  LET p == Step("storage", Step("v1", Step("b", q)))
         IN /\ Closed(p) /\ p[1] = "storage"
            /\ Split[p] = << <<"storage">> >> \o (<< <<"v1">> >> \o (<< <<"b">> >> \o Split[q]))
<1> DEFINE s == Step("b", q)
           t == Step("v1", s)
           u == Step("storage", t)
<1>0. {"storage", "v1", "b"} \subseteq Words \ {"/", "%2F"}
  BY PathWords
<1>1. Closed(s) /\ Split[s] = << <<"b">> >> \o Split[q]
  BY <1>0, PlainStep
<1> HIDE DEF s
<1>2. Closed(t) /\ Split[t] = << <<"v1">> >> \o Split[s]
  BY <1>0, <1>1, PlainStep
<1> HIDE DEF t
<1>3. Closed(u) /\ u[1] = "storage" /\ Split[u] = << <<"storage">> >> \o Split[t]
  BY <1>0, <1>2, PlainStep
<1> QED
  BY <1>1, <1>2, <1>3 DEF s, t

\* What the servers make of the paths to a bucket <<w>> and a name.
LEMMA PathSegments ==
  ASSUME NEW w \in Words \ {"/", "%2F"},
         NEW name \in Names, name # <<>>, Plain(name),
         NEW r, r.bucket = <<w>>, r.name = name
  PROVE  LET segs == SplitPath(Path(r))
         IN /\ r.via = "root" => segs = <<>>
            /\ r.via = "bucket" => segs = << <<w>> >>
            /\ r.via = "object" /\ name[Len(name)] # "/" =>
                 segs = << <<w>> >> \o Split[name]
            /\ r.via = "json" => segs = << <<"storage">>, <<"v1">>, <<"b">> >>
            /\ r.via = "jsonBucket" =>
                 segs = << <<"storage">>, <<"v1">>, <<"b">>, <<w>> >>
            /\ r.via = "jsonList" =>
                 segs = << <<"storage">>, <<"v1">>, <<"b">>, <<w>>, <<"o">> >>
            /\ r.via = "jsonObject" =>
                 segs = << <<"storage">>, <<"v1">>, <<"b">>, <<w>>, <<"o">>, name >>
            /\ r.via = "download" =>
                 segs = << <<"download">>, <<"storage">>, <<"v1">>, <<"b">>,
                           <<w>>, <<"o">>, name >>
            /\ r.via = "upload" =>
                 segs = << <<"upload">>, <<"storage">>, <<"v1">>, <<"b">>, <<w>>, <<"o">> >>
<1> DEFINE V(q) == Step("storage", Step("v1", Step("b", q)))
           slash == <<"/">>
           bw == <<w>>
           ow == <<"o">>
           b == slash \o bw
           o == b \o <<"/", "o">>
           e == Escape(name)
           k == slash \o e
           segs == SplitPath(Path(r))
<1>1. {"storage", "v1", "b", "o", "upload", "download"} \subseteq Words \ {"/", "%2F"}
  BY PathWords
<1>2. Closed(e) /\ Split[e] = <<name>>
  BY SplitEscape
<1>3. Closed(bw) /\ Split[bw] = << bw >> /\ bw[1] = w
  <2>1. Unescape(w) = w /\ w \in Words /\ w # "/"
    BY PathWords
  <2> QED
    BY <2>1, WordPath
<1>4. Closed(ow) /\ Split[ow] = << ow >>
  <2>1. Unescape("o") = "o" /\ "o" \in Words
    BY <1>1, PathWords
  <2> QED
    BY <2>1, WordPath
<1>5. Closed(<<"b">>) /\ Split[<<"b">>] = << <<"b">> >>
  <2>1. Unescape("b") = "b" /\ "b" \in Words
    BY <1>1, PathWords
  <2> QED
    BY <2>1, WordPath
<1>6. slash \in Names /\ bw \in Names /\ ow \in Names /\ e \in Names
  BY <1>2, <1>3, <1>4, SlashType DEF Closed, Names
<1>7. o = slash \o Step(w, ow)
  <2>1. <<"/", "o">> = slash \o ow
    BY Tuple2
  <2>2. slash \o ow \in Names /\ w \in Words /\ "/" \in Words
    BY <1>6, SlashType, ConsConcat
  <2> DEFINE so == slash \o ow
  <2>3. (slash \o bw) \o so = slash \o (bw \o so)
    <3> HIDE DEF so, bw
    <3> QED
      BY <1>6, <2>2, ConsConcat
  <2> QED
    BY <2>1, <2>3 DEF Step
<1> DEFINE sS == <<"storage">>
           sV == <<"v1">>
           sB == <<"b">>
           sU == <<"upload">>
           sD == <<"download">>
<1>8. /\ sS \in Names /\ sV \in Names /\ sB \in Names
      /\ sU \in Names /\ sD \in Names
  BY <1>1 DEF Names
<1>9. ASSUME NEW q, Closed(q)
      PROVE  /\ Closed(V(q)) /\ V(q)[1] = "storage"
             /\ Split[V(q)] = <<sS>> \o (<<sV>> \o (<<sB>> \o Split[q]))
             /\ V1 \o (slash \o q) = slash \o V(q)
             /\ SplitPath(slash \o V(q)) = Split[V(q)]
  <2>1. Closed(V(q)) /\ V(q)[1] = "storage"
        /\ Split[V(q)] = <<sS>> \o (<<sV>> \o (<<sB>> \o Split[q]))
    BY <1>9, V1Segments
  <2>2. V1 \o (slash \o q) = slash \o V(q)
    BY <1>9, V1Path DEF Closed
  <2> HIDE DEF V
  <2>3. SplitPath(slash \o V(q)) = Split[V(q)]
    BY <2>1, SlashPath
  <2> QED
    BY <2>1, <2>2, <2>3
<1>10. ASSUME NEW a \in Names, NEW c \in Names, NEW d \in Names
       PROVE  /\ <<sS>> \o (<<sV>> \o (<<sB>> \o <<a>>)) = <<sS, sV, sB, a>>
              /\ <<sS>> \o (<<sV>> \o (<<sB>> \o <<a, c>>)) = <<sS, sV, sB, a, c>>
              /\ <<sS>> \o (<<sV>> \o (<<sB>> \o <<a, c, d>>)) = <<sS, sV, sB, a, c, d>>
  <2> HIDE DEF sS, sV, sB, Names
  <2>1. <<sB>> \o <<a>> = <<sB, a>> /\ <<sB>> \o <<a, c>> = <<sB, a, c>>
        /\ <<sB>> \o <<a, c, d>> = <<sB, a, c, d>>
    BY Tuple2, Tuple3, Tuple4
  <2>2. <<sV>> \o <<sB, a>> = <<sV, sB, a>> /\ <<sV>> \o <<sB, a, c>> = <<sV, sB, a, c>>
        /\ <<sV>> \o <<sB, a, c, d>> = <<sV, sB, a, c, d>>
    BY Tuple3, Tuple4, Tuple5
  <2>3. <<sS>> \o <<sV, sB, a>> = <<sS, sV, sB, a>>
        /\ <<sS>> \o <<sV, sB, a, c>> = <<sS, sV, sB, a, c>>
        /\ <<sS>> \o <<sV, sB, a, c, d>> = <<sS, sV, sB, a, c, d>>
    BY Tuple4, Tuple5, Tuple6
  <2> QED
    BY <2>1, <2>2, <2>3
<1>11. r.via = "root" => segs = <<>>
  <2>1. Path(r) = slash \/ r.via # "root"
    BY DEF Path
  <2>2. {i \in 1..Len(slash) : slash[i] # "/"} = {}
    OBVIOUS
  <2>3. Trim(slash) = <<>>
    BY <2>2 DEF Trim
  <2> QED
    BY <2>1, <2>3 DEF SplitPath
<1>12. r.via = "bucket" => segs = << bw >>
  <2> SUFFICES ASSUME r.via = "bucket" PROVE segs = << bw >>
    OBVIOUS
  <2>1. Path(r) = slash \o bw
    BY DEF Path
  <2>2. w # "/"
    OBVIOUS
  <2> HIDE DEF bw
  <2> QED
    BY <1>3, <2>1, <2>2, SlashPath
<1>13. r.via = "object" /\ name[Len(name)] # "/" => segs = << bw >> \o Split[name]
  <2> SUFFICES ASSUME r.via = "object", name[Len(name)] # "/"
               PROVE  segs = << bw >> \o Split[name]
    OBVIOUS
  <2>1. Path(r) = ((slash \o bw) \o slash) \o name
    BY DEF Path
  <2>2. Closed(name)
    BY DEF Closed
  <2>3. w \in Words /\ "/" \in Words /\ w # "/"
    BY SlashType
  <2>4. ((slash \o bw) \o slash) \o name = slash \o Step(w, name)
    <3>1. (slash \o bw) \o slash = slash \o (bw \o slash) /\ bw \o slash \in Names
      BY <1>6, <2>3, ConsConcat
    <3>2. (slash \o (bw \o slash)) \o name = slash \o ((bw \o slash) \o name)
      <4> DEFINE t == bw \o slash
      <4> HIDE DEF t
      <4> QED
        BY <2>3, <3>1, ConsConcat DEF t
    <3>3. (bw \o slash) \o name = bw \o (slash \o name)
      BY <1>6, <2>3, ConsConcat
    <3> QED
      BY <3>1, <3>2, <3>3 DEF Step
  <2>5. /\ Closed(Step(w, name)) /\ Step(w, name)[1] = w
        /\ Split[Step(w, name)] = << bw >> \o Split[name]
    BY <2>2, PlainStep
  <2> QED
    BY <2>1, <2>3, <2>4, <2>5, SlashPath
<1>14. r.via = "json" => segs = <<sS, sV, sB>>
  <2> SUFFICES ASSUME r.via = "json" PROVE segs = <<sS, sV, sB>>
    OBVIOUS
  <2> DEFINE t == Step("v1", <<"b">>)
             p == Step("storage", t)
  <2>1. Path(r) = slash \o p
    BY <1>6, V1Path DEF Path
  <2>2. Closed(t) /\ Split[t] = <<sV>> \o <<sB>>
    <3>1. "v1" \in Words \ {"/", "%2F"}
      BY <1>1
    <3>2. Closed(t) /\ Split[t] = <<sV>> \o Split[<<"b">>]
      BY <1>5, <3>1, PlainStep
    <3> QED
      BY <1>5, <3>2
  <2> HIDE DEF t
  <2>3. Closed(p) /\ p[1] = "storage" /\ Split[p] = <<sS>> \o Split[t]
    BY <1>1, <2>2, PlainStep
  <2> HIDE DEF p
  <2>4. segs = Split[p]
    BY <2>1, <2>3, SlashPath
  <2>5. <<sV>> \o <<sB>> = <<sV, sB>> /\ <<sS>> \o <<sV, sB>> = <<sS, sV, sB>>
    <3> HIDE DEF sS, sV, sB
    <3> QED
      BY Tuple2, Tuple3
  <2> QED
    BY <2>2, <2>3, <2>4, <2>5
<1>15. r.via = "jsonBucket" => segs = <<sS, sV, sB, bw>>
  <2> SUFFICES ASSUME r.via = "jsonBucket" PROVE segs = <<sS, sV, sB, bw>>
    OBVIOUS
  <2>1. Path(r) = V1 \o (slash \o bw)
    BY DEF Path
  <2>2. segs = <<sS>> \o (<<sV>> \o (<<sB>> \o <<bw>>))
    <3> HIDE DEF V, bw, sS, sV, sB
    <3> QED
      BY <1>3, <1>9, <2>1, ZenonT(40)
  <2> QED
    BY <1>6, <1>10, <2>2
<1>16. Closed(Step(w, ow)) /\ Split[Step(w, ow)] = <<bw, ow>>
  <2>1. Closed(Step(w, ow)) /\ Split[Step(w, ow)] = <<bw>> \o <<ow>>
    <3> HIDE DEF ow
    <3> QED
      BY <1>4, PlainStep
  <2>2. <<bw>> \o <<ow>> = <<bw, ow>>
    <3> HIDE DEF ow, bw
    <3> QED
      BY Tuple2, Tuple3
  <2> QED
    BY <2>1, <2>2
<1>17. r.via = "jsonList" => segs = <<sS, sV, sB, bw, ow>>
  <2> SUFFICES ASSUME r.via = "jsonList" PROVE segs = <<sS, sV, sB, bw, ow>>
    OBVIOUS
  <2> DEFINE q == Step(w, ow)
  <2>1. Path(r) = V1 \o (slash \o q)
    BY <1>7 DEF Path
  <2> HIDE DEF q
  <2>2. segs = <<sS>> \o (<<sV>> \o (<<sB>> \o <<bw, ow>>))
    <3> HIDE DEF V, bw, ow, sS, sV, sB
    <3> QED
      BY <1>9, <1>16, <2>1, ZenonT(40) DEF q
  <2> QED
    BY <1>6, <1>10, <2>2
<1> DEFINE n == Step("o", e)
           m == Step(w, n)
<1>18. Closed(m) /\ Split[m] = <<bw, ow, name>>
  <2>1. Closed(n) /\ Split[n] = <<ow>> \o <<name>>
    <3>1. "o" \in Words \ {"/", "%2F"}
      BY <1>1
    <3> HIDE DEF e
    <3>2. Closed(n) /\ Split[n] = <<ow>> \o Split[e]
      BY <1>2, <3>1, PlainStep
    <3> QED
      BY <1>2, <3>2
  <2> HIDE DEF n
  <2>2. Closed(m) /\ Split[m] = <<bw>> \o Split[n]
    BY <2>1, PlainStep
  <2>3. <<ow>> \o <<name>> = <<ow, name>> /\ <<bw>> \o <<ow, name>> = <<bw, ow, name>>
    <3> HIDE DEF ow, bw
    <3> QED
      BY Tuple2, Tuple3
  <2> QED
    BY <2>1, <2>2, <2>3
<1>19. o \o k = slash \o m
  <2>1. "/" \in Words /\ w \in Words /\ "o" \in Words
    BY RoutingAssumption
  <2> DEFINE so == slash \o ow
             u == bw \o so
  <2>2. so \in Names /\ k \in Names
    <3> HIDE DEF ow, e
    <3> QED
      BY <1>6, <2>1, ConsConcat
  <2>3. so \o k = slash \o (ow \o k)
    <3> HIDE DEF ow, k
    <3> QED
      BY <1>6, <2>1, <2>2, ConsConcat
  <2> HIDE DEF so, k
  <2>4. u \in Names
    BY <2>1, <2>2, ConsConcat
  <2>5. u \o k = bw \o (so \o k)
    BY <2>1, <2>2, ConsConcat
  <2> HIDE DEF u
  <2>8. (slash \o u) \o k = slash \o (u \o k)
    BY <2>1, <2>2, <2>4, ConsConcat
  <2>6. o = slash \o u
    BY <1>7 DEF u, so, Step
  <2>7. slash \o (ow \o k) = slash \o n
    BY DEF k, Step
  <2> QED
    BY <2>3, <2>5, <2>6, <2>7, <2>8 DEF Step
<1>20. V1 \in Names /\ o \in Names /\ k \in Names /\ m \in Names
  <2>1. V1 \in Names
    BY <1>6, V1Path
  <2>2. Step(w, ow) \in Names /\ m \in Names
    BY <1>16, <1>18 DEF Closed
  <2>3. "/" \in Words
    BY SlashType
  <2>4. \A s \in Names : slash \o s \in Names
    BY <2>3, ConsFacts DEF Names
  <2> QED
    BY <1>6, <1>7, <2>1, <2>2, <2>4
<1>21. (V1 \o o) \o k = V1 \o (slash \o m)
  <2>1. (V1 \o o) \o k = V1 \o (o \o k)
    <3> HIDE DEF o, k
    <3> QED
      BY <1>20, ConcatAssociative, SMTT(40) DEF Names
  <2> QED
    BY <1>19, <2>1
<1>22. r.via = "jsonObject" => segs = <<sS, sV, sB, bw, ow, name>>
  <2> SUFFICES ASSUME r.via = "jsonObject" PROVE segs = <<sS, sV, sB, bw, ow, name>>
    OBVIOUS
  <2>1. Path(r) = (V1 \o o) \o k
    BY DEF Path
  <2>2. segs = <<sS>> \o (<<sV>> \o (<<sB>> \o <<bw, ow, name>>))
    <3>1. Path(r) = V1 \o (slash \o m)
      <4> HIDE DEF o, k, m
      <4> QED
        BY <1>21, <2>1
    <3> DEFINE x == <<bw, ow, name>>
    <3>2. Closed(m) /\ Split[m] = x
      BY <1>18
    <3> HIDE DEF V, m, x, sS, sV, sB
    <3>3. segs = <<sS>> \o (<<sV>> \o (<<sB>> \o x))
      BY <1>9, <3>1, <3>2
    <3> QED
      BY <3>3 DEF x
  <2> QED
    BY <1>6, <1>10, <2>2, ZenonT(40)
<1>23. ASSUME NEW x \in {"upload", "download"}, NEW q, Closed(q)
       PROVE  SplitPath(<<"/", x>> \o (V1 \o (slash \o q))) = << <<x>> >> \o Split[V(q)]
  <2>1. x \in Words \ {"/", "%2F"} /\ "/" \in Words /\ x \in Words
    BY <1>1, SlashType
  <2>2. Closed(V(q)) /\ V1 \o (slash \o q) = slash \o V(q)
    BY <1>9, <1>23
  <2> DEFINE t == slash \o V(q)
             p == Step(x, V(q))
  <2> HIDE DEF V
  <2>3. Closed(p) /\ p[1] = x /\ Split[p] = << <<x>> >> \o Split[V(q)]
    BY <2>1, <2>2, PlainStep
  <2>4. <<"/", x>> = slash \o <<x>>
    BY Tuple2
  <2>5. t \in Names
    BY <2>1, <2>2, ConsFacts DEF Closed, Names
  <2>6. <<x>> \in Names
    BY <2>1 DEF Names
  <2> HIDE DEF t
  <2>7. (slash \o <<x>>) \o t = slash \o (<<x>> \o t)
    BY <2>1, <2>5, <2>6, ConsConcat
  <2>8. p = <<x>> \o t
    BY DEF Step, t
  <2> HIDE DEF p
  <2>9. SplitPath(slash \o p) = Split[p]
    BY <2>1, <2>3, SlashPath
  <2> QED
    BY <2>2, <2>3, <2>4, <2>7, <2>8, <2>9 DEF t
<1>24. ASSUME NEW x \in {"upload", "download"}
       PROVE  /\ <<"/", x>> \in Names
              /\ \A s, t \in Names : (<<"/", x>> \o s) \o t = <<"/", x>> \o (s \o t)
              /\ \A s, t, u \in Names :
                   ((<<"/", x>> \o s) \o t) \o u = <<"/", x>> \o ((s \o t) \o u)
  <2> DEFINE d == <<"/", x>>
  <2>1. d \in Names
    BY <1>1, SlashType DEF Names
  <2> HIDE DEF d
  <2>2. \A s, t \in Names : s \o t \in Names /\ (d \o s) \o t = d \o (s \o t)
    BY <2>1, ConcatAssociative, ConcatProperties DEF Names
  <2>3. ASSUME NEW s \in Names, NEW t \in Names, NEW u \in Names
        PROVE  ((d \o s) \o t) \o u = d \o ((s \o t) \o u)
    <3> DEFINE st == s \o t
    <3>1. st \in Names /\ (d \o s) \o t = d \o st
      BY <2>2
    <3> HIDE DEF st
    <3>2. (d \o st) \o u = d \o (st \o u)
      BY <2>2, <3>1
    <3> QED
      BY <3>1, <3>2 DEF st
  <2>4. \A s, t, u \in Names : ((d \o s) \o t) \o u = d \o ((s \o t) \o u)
    BY <2>3
  <2>5. \A s, t \in Names : (d \o s) \o t = d \o (s \o t)
    BY <2>2
  <2> QED
    BY <2>1, <2>4, <2>5 DEF d
<1>25. r.via = "download" => segs = <<sD, sS, sV, sB, bw, ow, name>>
  <2> SUFFICES ASSUME r.via = "download"
               PROVE  segs = <<sD, sS, sV, sB, bw, ow, name>>
    OBVIOUS
  <2>1. Path(r) = ((<<"/", "download">> \o V1) \o o) \o k
    BY DEF Path
  <2>2. Path(r) = <<"/", "download">> \o (V1 \o (slash \o m))
    <3>1. ((<<"/", "download">> \o V1) \o o) \o k = <<"/", "download">> \o ((V1 \o o) \o k)
      <4>1. "download" \in {"upload", "download"}
        OBVIOUS
      <4>2. \A s, t, u \in Names : ((<<"/", "download">> \o s) \o t) \o u
                                   = <<"/", "download">> \o ((s \o t) \o u)
        BY <1>24, <4>1
      <4> HIDE DEF o, k, m
      <4>3. V1 \in Names /\ o \in Names /\ k \in Names
        BY <1>20
      <4> QED
        BY <4>2, <4>3, ZenonT(40)
    <3> HIDE DEF o, k, m
    <3> QED
      BY <1>21, <2>1, <3>1
  <2>3. segs = <<sD>> \o (<<sS>> \o (<<sV>> \o (<<sB>> \o <<bw, ow, name>>)))
    <3>1. segs = <<sD>> \o Split[V(m)]
      <4> HIDE DEF V, m
      <4> QED
        BY <1>18, <1>23, <2>2
    <3> HIDE DEF V, m, bw, ow, sS, sV, sB, sD
    <3> QED
      BY <1>9, <1>18, <3>1
  <2>4. <<sS>> \o (<<sV>> \o (<<sB>> \o <<bw, ow, name>>)) = <<sS, sV, sB, bw, ow, name>>
    BY <1>6, <1>10, ZenonT(40)
  <2> HIDE DEF bw, ow, sS, sV, sB, sD
  <2>5. <<sD>> \o <<sS, sV, sB, bw, ow, name>> = <<sD, sS, sV, sB, bw, ow, name>>
    BY Tuple7
  <2> HIDE DEF segs
  <2> QED
    BY <2>3, <2>4, <2>5
<1>26. r.via = "upload" => segs = <<sU, sS, sV, sB, bw, ow>>
  <2> SUFFICES ASSUME r.via = "upload" PROVE segs = <<sU, sS, sV, sB, bw, ow>>
    OBVIOUS
  <2> DEFINE q == Step(w, ow)
  <2>1. Path(r) = (<<"/", "upload">> \o V1) \o o
    BY DEF Path
  <2>2. Path(r) = <<"/", "upload">> \o (V1 \o (slash \o q))
    <3>1. o = slash \o q
      BY <1>7
    <3>2. (<<"/", "upload">> \o V1) \o o = <<"/", "upload">> \o (V1 \o o)
      <4> HIDE DEF o
      <4> QED
        BY <1>20, <1>24, ZenonT(40)
    <3> HIDE DEF o, q
    <3> QED
      BY <2>1, <3>1, <3>2
  <2>3. segs = <<sU>> \o (<<sS>> \o (<<sV>> \o (<<sB>> \o <<bw, ow>>)))
    <3> HIDE DEF q
    <3>1. segs = <<sU>> \o Split[V(q)]
      <4> HIDE DEF V
      <4> QED
        BY <1>16, <1>23, <2>2 DEF q
    <3> HIDE DEF V, bw, ow, sS, sV, sB, sU
    <3> QED
      BY <1>9, <1>16, <3>1 DEF q
  <2>4. <<sS>> \o (<<sV>> \o (<<sB>> \o <<bw, ow>>)) = <<sS, sV, sB, bw, ow>>
    BY <1>6, <1>10
  <2> HIDE DEF bw, ow, sS, sV, sB, sU
  <2>5. <<sU>> \o <<sS, sV, sB, bw, ow>> = <<sU, sS, sV, sB, bw, ow>>
    BY Tuple6
  <2> HIDE DEF segs
  <2> QED
    BY <2>3, <2>4, <2>5
<1> QED
  BY <1>11, <1>12, <1>13, <1>14, <1>15, <1>17, <1>22, <1>25, <1>26

-----------------------------------------------------------------------------
(***************************************************************************)
(* The switches.                                                           *)
(***************************************************************************)

\* The first case that applies is taken.
LEMMA SwitchFirst ==
  ASSUME NEW cases, Len(cases) \in Nat, NEW i \in 1..Len(cases), cases[i][1],
         \A j \in 1..Len(cases) : j < i => ~cases[j][1]
  PROVE  Switch(cases) = cases[i][2]
<1> DEFINE I == {j \in 1..Len(cases) : cases[j][1]}
<1>1. i \in I /\ \A j \in I : j \in Int /\ i <= j
  OBVIOUS
<1>2. Switch(cases) = IF I = {} THEN "refused" ELSE cases[Min(I)][2]
  BY DEF Switch
<1> HIDE DEF I
<1>3. Min(I) = i
  BY <1>1 DEF Min
<1> QED
  BY <1>1, <1>2, <1>3

\* What a switch of so many cases is.
LEMMA Switch1 ==
  ASSUME NEW cs, Len(cs) = 1
  PROVE  Switch(cs) = IF cs[1][1] THEN cs[1][2]
                      ELSE "refused"
<1> DEFINE I == {i \in 1..Len(cs) : cs[i][1]}
<1>0. Switch(cs) = IF I = {} THEN "refused" ELSE cs[Min(I)][2]
  BY DEF Switch
<1> HIDE DEF I
<1>1. ASSUME cs[1][1]
     PROVE  Switch(cs) = cs[1][2]
  <2>1. Len(cs) \in Nat /\ 1 \in 1..Len(cs)
    OBVIOUS
  <2>2. \A j \in 1..Len(cs) : j < 1 => ~cs[j][1]
    BY <1>1
  <2> QED
    BY <1>1, <2>1, <2>2, SwitchFirst
<1>2. ASSUME ~cs[1][1]
     PROVE  Switch(cs) = "refused"
  <2>1. I = {}
    BY <1>2 DEF I
  <2> QED
    BY <1>0, <2>1
<1> QED
  BY <1>1, <1>2

LEMMA Switch2 ==
  ASSUME NEW cs, Len(cs) = 2
  PROVE  Switch(cs) = IF cs[1][1] THEN cs[1][2]
                      ELSE IF cs[2][1] THEN cs[2][2]
                      ELSE "refused"
<1> DEFINE I == {i \in 1..Len(cs) : cs[i][1]}
<1>0. Switch(cs) = IF I = {} THEN "refused" ELSE cs[Min(I)][2]
  BY DEF Switch
<1> HIDE DEF I
<1>1. ASSUME cs[1][1]
     PROVE  Switch(cs) = cs[1][2]
  <2>1. Len(cs) \in Nat /\ 1 \in 1..Len(cs)
    OBVIOUS
  <2>2. \A j \in 1..Len(cs) : j < 1 => ~cs[j][1]
    BY <1>1
  <2> QED
    BY <1>1, <2>1, <2>2, SwitchFirst
<1>2. ASSUME ~cs[1][1], cs[2][1]
     PROVE  Switch(cs) = cs[2][2]
  <2>1. Len(cs) \in Nat /\ 2 \in 1..Len(cs)
    OBVIOUS
  <2>2. \A j \in 1..Len(cs) : j < 2 => ~cs[j][1]
    BY <1>2
  <2> QED
    BY <1>2, <2>1, <2>2, SwitchFirst
<1>3. ASSUME ~cs[1][1], ~cs[2][1]
     PROVE  Switch(cs) = "refused"
  <2>1. I = {}
    BY <1>3 DEF I
  <2> QED
    BY <1>0, <2>1
<1> QED
  BY <1>1, <1>2, <1>3

LEMMA Switch4 ==
  ASSUME NEW cs, Len(cs) = 4
  PROVE  Switch(cs) = IF cs[1][1] THEN cs[1][2]
                      ELSE IF cs[2][1] THEN cs[2][2]
                      ELSE IF cs[3][1] THEN cs[3][2]
                      ELSE IF cs[4][1] THEN cs[4][2]
                      ELSE "refused"
<1> DEFINE I == {i \in 1..Len(cs) : cs[i][1]}
<1>0. Switch(cs) = IF I = {} THEN "refused" ELSE cs[Min(I)][2]
  BY DEF Switch
<1> HIDE DEF I
<1>1. ASSUME cs[1][1]
     PROVE  Switch(cs) = cs[1][2]
  <2>1. Len(cs) \in Nat /\ 1 \in 1..Len(cs)
    OBVIOUS
  <2>2. \A j \in 1..Len(cs) : j < 1 => ~cs[j][1]
    BY <1>1
  <2> QED
    BY <1>1, <2>1, <2>2, SwitchFirst
<1>2. ASSUME ~cs[1][1], cs[2][1]
     PROVE  Switch(cs) = cs[2][2]
  <2>1. Len(cs) \in Nat /\ 2 \in 1..Len(cs)
    OBVIOUS
  <2>2. \A j \in 1..Len(cs) : j < 2 => ~cs[j][1]
    BY <1>2
  <2> QED
    BY <1>2, <2>1, <2>2, SwitchFirst
<1>3. ASSUME ~cs[1][1], ~cs[2][1], cs[3][1]
     PROVE  Switch(cs) = cs[3][2]
  <2>1. Len(cs) \in Nat /\ 3 \in 1..Len(cs)
    OBVIOUS
  <2>2. \A j \in 1..Len(cs) : j < 3 => ~cs[j][1]
    BY <1>3
  <2> QED
    BY <1>3, <2>1, <2>2, SwitchFirst
<1>4. ASSUME ~cs[1][1], ~cs[2][1], ~cs[3][1], cs[4][1]
     PROVE  Switch(cs) = cs[4][2]
  <2>1. Len(cs) \in Nat /\ 4 \in 1..Len(cs)
    OBVIOUS
  <2>2. \A j \in 1..Len(cs) : j < 4 => ~cs[j][1]
    BY <1>4
  <2> QED
    BY <1>4, <2>1, <2>2, SwitchFirst
<1>5. ASSUME ~cs[1][1], ~cs[2][1], ~cs[3][1], ~cs[4][1]
     PROVE  Switch(cs) = "refused"
  <2>1. I = {}
    BY <1>5 DEF I
  <2> QED
    BY <1>0, <2>1
<1> QED
  BY <1>1, <1>2, <1>3, <1>4, <1>5

LEMMA Switch6 ==
  ASSUME NEW cs, Len(cs) = 6
  PROVE  Switch(cs) = IF cs[1][1] THEN cs[1][2]
                      ELSE IF cs[2][1] THEN cs[2][2]
                      ELSE IF cs[3][1] THEN cs[3][2]
                      ELSE IF cs[4][1] THEN cs[4][2]
                      ELSE IF cs[5][1] THEN cs[5][2]
                      ELSE IF cs[6][1] THEN cs[6][2]
                      ELSE "refused"
<1> DEFINE I == {i \in 1..Len(cs) : cs[i][1]}
<1>0. Switch(cs) = IF I = {} THEN "refused" ELSE cs[Min(I)][2]
  BY DEF Switch
<1> HIDE DEF I
<1>1. ASSUME cs[1][1]
     PROVE  Switch(cs) = cs[1][2]
  <2>1. Len(cs) \in Nat /\ 1 \in 1..Len(cs)
    OBVIOUS
  <2>2. \A j \in 1..Len(cs) : j < 1 => ~cs[j][1]
    BY <1>1
  <2> QED
    BY <1>1, <2>1, <2>2, SwitchFirst
<1>2. ASSUME ~cs[1][1], cs[2][1]
     PROVE  Switch(cs) = cs[2][2]
  <2>1. Len(cs) \in Nat /\ 2 \in 1..Len(cs)
    OBVIOUS
  <2>2. \A j \in 1..Len(cs) : j < 2 => ~cs[j][1]
    BY <1>2
  <2> QED
    BY <1>2, <2>1, <2>2, SwitchFirst
<1>3. ASSUME ~cs[1][1], ~cs[2][1], cs[3][1]
     PROVE  Switch(cs) = cs[3][2]
  <2>1. Len(cs) \in Nat /\ 3 \in 1..Len(cs)
    OBVIOUS
  <2>2. \A j \in 1..Len(cs) : j < 3 => ~cs[j][1]
    BY <1>3
  <2> QED
    BY <1>3, <2>1, <2>2, SwitchFirst
<1>4. ASSUME ~cs[1][1], ~cs[2][1], ~cs[3][1], cs[4][1]
     PROVE  Switch(cs) = cs[4][2]
  <2>1. Len(cs) \in Nat /\ 4 \in 1..Len(cs)
    OBVIOUS
  <2>2. \A j \in 1..Len(cs) : j < 4 => ~cs[j][1]
    BY <1>4
  <2> QED
    BY <1>4, <2>1, <2>2, SwitchFirst
<1>5. ASSUME ~cs[1][1], ~cs[2][1], ~cs[3][1], ~cs[4][1], cs[5][1]
     PROVE  Switch(cs) = cs[5][2]
  <2>1. Len(cs) \in Nat /\ 5 \in 1..Len(cs)
    OBVIOUS
  <2>2. \A j \in 1..Len(cs) : j < 5 => ~cs[j][1]
    BY <1>5
  <2> QED
    BY <1>5, <2>1, <2>2, SwitchFirst
<1>6. ASSUME ~cs[1][1], ~cs[2][1], ~cs[3][1], ~cs[4][1], ~cs[5][1], cs[6][1]
     PROVE  Switch(cs) = cs[6][2]
  <2>1. Len(cs) \in Nat /\ 6 \in 1..Len(cs)
    OBVIOUS
  <2>2. \A j \in 1..Len(cs) : j < 6 => ~cs[j][1]
    BY <1>6
  <2> QED
    BY <1>6, <2>1, <2>2, SwitchFirst
<1>7. ASSUME ~cs[1][1], ~cs[2][1], ~cs[3][1], ~cs[4][1], ~cs[5][1], ~cs[6][1]
     PROVE  Switch(cs) = "refused"
  <2>1. I = {}
    BY <1>7 DEF I
  <2> QED
    BY <1>0, <2>1
<1> QED
  BY <1>1, <1>2, <1>3, <1>4, <1>5, <1>6, <1>7

LEMMA Switch8 ==
  ASSUME NEW cs, Len(cs) = 8
  PROVE  Switch(cs) = IF cs[1][1] THEN cs[1][2]
                      ELSE IF cs[2][1] THEN cs[2][2]
                      ELSE IF cs[3][1] THEN cs[3][2]
                      ELSE IF cs[4][1] THEN cs[4][2]
                      ELSE IF cs[5][1] THEN cs[5][2]
                      ELSE IF cs[6][1] THEN cs[6][2]
                      ELSE IF cs[7][1] THEN cs[7][2]
                      ELSE IF cs[8][1] THEN cs[8][2]
                      ELSE "refused"
<1> DEFINE I == {i \in 1..Len(cs) : cs[i][1]}
<1>0. Switch(cs) = IF I = {} THEN "refused" ELSE cs[Min(I)][2]
  BY DEF Switch
<1> HIDE DEF I
<1>1. ASSUME cs[1][1]
     PROVE  Switch(cs) = cs[1][2]
  <2>1. Len(cs) \in Nat /\ 1 \in 1..Len(cs)
    OBVIOUS
  <2>2. \A j \in 1..Len(cs) : j < 1 => ~cs[j][1]
    BY <1>1
  <2> QED
    BY <1>1, <2>1, <2>2, SwitchFirst
<1>2. ASSUME ~cs[1][1], cs[2][1]
     PROVE  Switch(cs) = cs[2][2]
  <2>1. Len(cs) \in Nat /\ 2 \in 1..Len(cs)
    OBVIOUS
  <2>2. \A j \in 1..Len(cs) : j < 2 => ~cs[j][1]
    BY <1>2
  <2> QED
    BY <1>2, <2>1, <2>2, SwitchFirst
<1>3. ASSUME ~cs[1][1], ~cs[2][1], cs[3][1]
     PROVE  Switch(cs) = cs[3][2]
  <2>1. Len(cs) \in Nat /\ 3 \in 1..Len(cs)
    OBVIOUS
  <2>2. \A j \in 1..Len(cs) : j < 3 => ~cs[j][1]
    BY <1>3
  <2> QED
    BY <1>3, <2>1, <2>2, SwitchFirst
<1>4. ASSUME ~cs[1][1], ~cs[2][1], ~cs[3][1], cs[4][1]
     PROVE  Switch(cs) = cs[4][2]
  <2>1. Len(cs) \in Nat /\ 4 \in 1..Len(cs)
    OBVIOUS
  <2>2. \A j \in 1..Len(cs) : j < 4 => ~cs[j][1]
    BY <1>4
  <2> QED
    BY <1>4, <2>1, <2>2, SwitchFirst
<1>5. ASSUME ~cs[1][1], ~cs[2][1], ~cs[3][1], ~cs[4][1], cs[5][1]
     PROVE  Switch(cs) = cs[5][2]
  <2>1. Len(cs) \in Nat /\ 5 \in 1..Len(cs)
    OBVIOUS
  <2>2. \A j \in 1..Len(cs) : j < 5 => ~cs[j][1]
    BY <1>5
  <2> QED
    BY <1>5, <2>1, <2>2, SwitchFirst
<1>6. ASSUME ~cs[1][1], ~cs[2][1], ~cs[3][1], ~cs[4][1], ~cs[5][1], cs[6][1]
     PROVE  Switch(cs) = cs[6][2]
  <2>1. Len(cs) \in Nat /\ 6 \in 1..Len(cs)
    OBVIOUS
  <2>2. \A j \in 1..Len(cs) : j < 6 => ~cs[j][1]
    BY <1>6
  <2> QED
    BY <1>6, <2>1, <2>2, SwitchFirst
<1>7. ASSUME ~cs[1][1], ~cs[2][1], ~cs[3][1], ~cs[4][1], ~cs[5][1], ~cs[6][1], cs[7][1]
     PROVE  Switch(cs) = cs[7][2]
  <2>1. Len(cs) \in Nat /\ 7 \in 1..Len(cs)
    OBVIOUS
  <2>2. \A j \in 1..Len(cs) : j < 7 => ~cs[j][1]
    BY <1>7
  <2> QED
    BY <1>7, <2>1, <2>2, SwitchFirst
<1>8. ASSUME ~cs[1][1], ~cs[2][1], ~cs[3][1], ~cs[4][1], ~cs[5][1], ~cs[6][1], ~cs[7][1], cs[8][1]
     PROVE  Switch(cs) = cs[8][2]
  <2>1. Len(cs) \in Nat /\ 8 \in 1..Len(cs)
    OBVIOUS
  <2>2. \A j \in 1..Len(cs) : j < 8 => ~cs[j][1]
    BY <1>8
  <2> QED
    BY <1>8, <2>1, <2>2, SwitchFirst
<1>9. ASSUME ~cs[1][1], ~cs[2][1], ~cs[3][1], ~cs[4][1], ~cs[5][1], ~cs[6][1], ~cs[7][1], ~cs[8][1]
     PROVE  Switch(cs) = "refused"
  <2>1. I = {}
    BY <1>9 DEF I
  <2> QED
    BY <1>0, <2>1
<1> QED
  BY <1>1, <1>2, <1>3, <1>4, <1>5, <1>6, <1>7, <1>8, <1>9

\* What the handlers of the paths do with a request.
LEMMA HandleBucketIs ==
  ASSUME NEW c
  PROVE  HandleBucket(c) =
           IF c.method = "POST" /\ "delete" \in c.with THEN "deleteObjects"
           ELSE IF c.method = "GET" /\ "location" \in c.with THEN "getBucketLocation"
           ELSE IF c.method = "GET" THEN "listObjects"
           ELSE IF c.method = "PUT" THEN "createBucket"
           ELSE IF c.method = "HEAD" THEN "headBucket"
           ELSE IF c.method = "DELETE" THEN "deleteBucket"
           ELSE "refused"
<1> DEFINE p1 == c.method = "POST" /\ "delete" \in c.with
           p2 == c.method = "GET" /\ "location" \in c.with
           p3 == c.method = "GET"
           p4 == c.method = "PUT"
           p5 == c.method = "HEAD"
           p6 == c.method = "DELETE"
           cs == << <<p1, "deleteObjects">>,
                    <<p2, "getBucketLocation">>,
                    <<p3, "listObjects">>,
                    <<p4, "createBucket">>,
                    <<p5, "headBucket">>,
                    <<p6, "deleteBucket">> >>
<1>1. HandleBucket(c) = Switch(cs)
  BY DEF HandleBucket
<1> HIDE DEF p1, p2, p3, p4, p5, p6
<1>2. Len(cs) = 6
  OBVIOUS
<1>3. (cs[1][1] <=> p1) /\ cs[1][2] = "deleteObjects"
  OBVIOUS
<1>4. (cs[2][1] <=> p2) /\ cs[2][2] = "getBucketLocation"
  OBVIOUS
<1>5. (cs[3][1] <=> p3) /\ cs[3][2] = "listObjects"
  OBVIOUS
<1>6. (cs[4][1] <=> p4) /\ cs[4][2] = "createBucket"
  OBVIOUS
<1>7. (cs[5][1] <=> p5) /\ cs[5][2] = "headBucket"
  OBVIOUS
<1>8. (cs[6][1] <=> p6) /\ cs[6][2] = "deleteBucket"
  OBVIOUS
<1> HIDE DEF cs
<1>9. Switch(cs) = IF p1 THEN "deleteObjects" ELSE IF p2 THEN "getBucketLocation" ELSE IF p3 THEN "listObjects" ELSE IF p4 THEN "createBucket" ELSE IF p5 THEN "headBucket" ELSE IF p6 THEN "deleteBucket" ELSE "refused"
  BY <1>2, <1>3, <1>4, <1>5, <1>6, <1>7, <1>8, Switch6
<1> QED
  BY <1>1, <1>9 DEF p1, p2, p3, p4, p5, p6

LEMMA HandleObjectIs ==
  ASSUME NEW c
  PROVE  HandleObject(c) =
           IF c.method = "PUT" /\ {"uploadId", "partNumber"} \subseteq c.with THEN "uploadPart"
           ELSE IF c.method = "POST" /\ "uploads" \in c.with THEN "initiateMultipartUpload"
           ELSE IF c.method = "POST" /\ "uploadId" \in c.with THEN "completeMultipartUpload"
           ELSE IF c.method = "DELETE" /\ "uploadId" \in c.with THEN "abortMultipartUpload"
           ELSE IF c.method = "PUT" /\ "copy" \in c.with THEN "copyObject"
           ELSE IF c.method = "PUT" THEN "putObject"
           ELSE IF c.method \in {"GET", "HEAD"} THEN "getObject"
           ELSE IF c.method = "DELETE" THEN "deleteObject"
           ELSE "refused"
<1> DEFINE p1 == c.method = "PUT" /\ {"uploadId", "partNumber"} \subseteq c.with
           p2 == c.method = "POST" /\ "uploads" \in c.with
           p3 == c.method = "POST" /\ "uploadId" \in c.with
           p4 == c.method = "DELETE" /\ "uploadId" \in c.with
           p5 == c.method = "PUT" /\ "copy" \in c.with
           p6 == c.method = "PUT"
           p7 == c.method \in {"GET", "HEAD"}
           p8 == c.method = "DELETE"
           cs == << <<p1, "uploadPart">>,
                    <<p2, "initiateMultipartUpload">>,
                    <<p3, "completeMultipartUpload">>,
                    <<p4, "abortMultipartUpload">>,
                    <<p5, "copyObject">>,
                    <<p6, "putObject">>,
                    <<p7, "getObject">>,
                    <<p8, "deleteObject">> >>
<1>1. HandleObject(c) = Switch(cs)
  BY DEF HandleObject
<1> HIDE DEF p1, p2, p3, p4, p5, p6, p7, p8
<1>2. Len(cs) = 8
  OBVIOUS
<1>3. (cs[1][1] <=> p1) /\ cs[1][2] = "uploadPart"
  OBVIOUS
<1>4. (cs[2][1] <=> p2) /\ cs[2][2] = "initiateMultipartUpload"
  OBVIOUS
<1>5. (cs[3][1] <=> p3) /\ cs[3][2] = "completeMultipartUpload"
  OBVIOUS
<1>6. (cs[4][1] <=> p4) /\ cs[4][2] = "abortMultipartUpload"
  OBVIOUS
<1>7. (cs[5][1] <=> p5) /\ cs[5][2] = "copyObject"
  OBVIOUS
<1>8. (cs[6][1] <=> p6) /\ cs[6][2] = "putObject"
  OBVIOUS
<1>9. (cs[7][1] <=> p7) /\ cs[7][2] = "getObject"
  OBVIOUS
<1>10. (cs[8][1] <=> p8) /\ cs[8][2] = "deleteObject"
  OBVIOUS
<1> HIDE DEF cs
<1>11. Switch(cs) = IF p1 THEN "uploadPart" ELSE IF p2 THEN "initiateMultipartUpload" ELSE IF p3 THEN "completeMultipartUpload" ELSE IF p4 THEN "abortMultipartUpload" ELSE IF p5 THEN "copyObject" ELSE IF p6 THEN "putObject" ELSE IF p7 THEN "getObject" ELSE IF p8 THEN "deleteObject" ELSE "refused"
  BY <1>2, <1>3, <1>4, <1>5, <1>6, <1>7, <1>8, <1>9, <1>10, Switch8
<1> QED
  BY <1>1, <1>11 DEF p1, p2, p3, p4, p5, p6, p7, p8

LEMMA HandleUploadIs ==
  ASSUME NEW c
  PROVE  HandleUpload(c) =
           IF "upload_id" \in c.with THEN "handleResumableChunk"
           ELSE IF c.method = "POST" /\ "media" \in c.with THEN "putObject"
           ELSE IF c.method = "POST" /\ "multipart" \in c.with THEN "putObject"
           ELSE IF c.method = "POST" /\ "resumable" \in c.with THEN "startResumableUpload"
           ELSE "refused"
<1> DEFINE p1 == "upload_id" \in c.with
           p2 == c.method = "POST" /\ "media" \in c.with
           p3 == c.method = "POST" /\ "multipart" \in c.with
           p4 == c.method = "POST" /\ "resumable" \in c.with
           cs == << <<p1, "handleResumableChunk">>,
                    <<p2, "putObject">>,
                    <<p3, "putObject">>,
                    <<p4, "startResumableUpload">> >>
<1>1. HandleUpload(c) = Switch(cs)
  BY DEF HandleUpload
<1> HIDE DEF p1, p2, p3, p4
<1>2. Len(cs) = 4
  OBVIOUS
<1>3. (cs[1][1] <=> p1) /\ cs[1][2] = "handleResumableChunk"
  OBVIOUS
<1>4. (cs[2][1] <=> p2) /\ cs[2][2] = "putObject"
  OBVIOUS
<1>5. (cs[3][1] <=> p3) /\ cs[3][2] = "putObject"
  OBVIOUS
<1>6. (cs[4][1] <=> p4) /\ cs[4][2] = "startResumableUpload"
  OBVIOUS
<1> HIDE DEF cs
<1>7. Switch(cs) = IF p1 THEN "handleResumableChunk" ELSE IF p2 THEN "putObject" ELSE IF p3 THEN "putObject" ELSE IF p4 THEN "startResumableUpload" ELSE "refused"
  BY <1>2, <1>3, <1>4, <1>5, <1>6, Switch4
<1> QED
  BY <1>1, <1>7 DEF p1, p2, p3, p4

LEMMA V1Root ==
  ASSUME NEW c
  PROVE  Switch(<< <<c.method = "GET", "listBuckets">>, <<c.method = "POST", "createBucket">> >>) =
           IF c.method = "GET" THEN "listBuckets"
           ELSE IF c.method = "POST" THEN "createBucket"
           ELSE "refused"
<1> DEFINE p1 == c.method = "GET"
           p2 == c.method = "POST"
           cs == << <<p1, "listBuckets">>,
                    <<p2, "createBucket">> >>
<1>1. Switch(<< <<c.method = "GET", "listBuckets">>, <<c.method = "POST", "createBucket">> >>) = Switch(cs)
  OBVIOUS
<1> HIDE DEF p1, p2
<1>2. Len(cs) = 2
  OBVIOUS
<1>3. (cs[1][1] <=> p1) /\ cs[1][2] = "listBuckets"
  OBVIOUS
<1>4. (cs[2][1] <=> p2) /\ cs[2][2] = "createBucket"
  OBVIOUS
<1> HIDE DEF cs
<1>5. Switch(cs) = IF p1 THEN "listBuckets" ELSE IF p2 THEN "createBucket" ELSE "refused"
  BY <1>2, <1>3, <1>4, Switch2
<1> QED
  BY <1>1, <1>5 DEF p1, p2

LEMMA V1Bucket ==
  ASSUME NEW c
  PROVE  Switch(<< <<c.method = "GET", "getBucket">>, <<c.method = "DELETE", "deleteBucket">> >>) =
           IF c.method = "GET" THEN "getBucket"
           ELSE IF c.method = "DELETE" THEN "deleteBucket"
           ELSE "refused"
<1> DEFINE p1 == c.method = "GET"
           p2 == c.method = "DELETE"
           cs == << <<p1, "getBucket">>,
                    <<p2, "deleteBucket">> >>
<1>1. Switch(<< <<c.method = "GET", "getBucket">>, <<c.method = "DELETE", "deleteBucket">> >>) = Switch(cs)
  OBVIOUS
<1> HIDE DEF p1, p2
<1>2. Len(cs) = 2
  OBVIOUS
<1>3. (cs[1][1] <=> p1) /\ cs[1][2] = "getBucket"
  OBVIOUS
<1>4. (cs[2][1] <=> p2) /\ cs[2][2] = "deleteBucket"
  OBVIOUS
<1> HIDE DEF cs
<1>5. Switch(cs) = IF p1 THEN "getBucket" ELSE IF p2 THEN "deleteBucket" ELSE "refused"
  BY <1>2, <1>3, <1>4, Switch2
<1> QED
  BY <1>1, <1>5 DEF p1, p2

LEMMA V1List ==
  ASSUME NEW c, NEW o
  PROVE  Switch(<< <<o = <<"o">> /\ c.method = "GET", "listObjects">> >>) =
           IF o = <<"o">> /\ c.method = "GET" THEN "listObjects"
           ELSE "refused"
<1> DEFINE p1 == o = <<"o">> /\ c.method = "GET"
           cs == << <<p1, "listObjects">> >>
<1>1. Switch(<< <<o = <<"o">> /\ c.method = "GET", "listObjects">> >>) = Switch(cs)
  OBVIOUS
<1> HIDE DEF p1
<1>2. Len(cs) = 1
  OBVIOUS
<1>3. (cs[1][1] <=> p1) /\ cs[1][2] = "listObjects"
  OBVIOUS
<1> HIDE DEF cs
<1>4. Switch(cs) = IF p1 THEN "listObjects" ELSE "refused"
  BY <1>2, <1>3, Switch1
<1> QED
  BY <1>1, <1>4 DEF p1

LEMMA V1Object ==
  ASSUME NEW c, NEW o
  PROVE  Switch(<< <<o # <<"o">>, "refused">>, <<c.method = "GET" /\ "alt" \in c.with, "serveMedia">>, <<c.method = "GET", "getObject">>, <<c.method = "DELETE", "deleteObject">> >>) =
           IF o # <<"o">> THEN "refused"
           ELSE IF c.method = "GET" /\ "alt" \in c.with THEN "serveMedia"
           ELSE IF c.method = "GET" THEN "getObject"
           ELSE IF c.method = "DELETE" THEN "deleteObject"
           ELSE "refused"
<1> DEFINE p1 == o # <<"o">>
           p2 == c.method = "GET" /\ "alt" \in c.with
           p3 == c.method = "GET"
           p4 == c.method = "DELETE"
           cs == << <<p1, "refused">>,
                    <<p2, "serveMedia">>,
                    <<p3, "getObject">>,
                    <<p4, "deleteObject">> >>
<1>1. Switch(<< <<o # <<"o">>, "refused">>, <<c.method = "GET" /\ "alt" \in c.with, "serveMedia">>, <<c.method = "GET", "getObject">>, <<c.method = "DELETE", "deleteObject">> >>) = Switch(cs)
  OBVIOUS
<1> HIDE DEF p1, p2, p3, p4
<1>2. Len(cs) = 4
  OBVIOUS
<1>3. (cs[1][1] <=> p1) /\ cs[1][2] = "refused"
  OBVIOUS
<1>4. (cs[2][1] <=> p2) /\ cs[2][2] = "serveMedia"
  OBVIOUS
<1>5. (cs[3][1] <=> p3) /\ cs[3][2] = "getObject"
  OBVIOUS
<1>6. (cs[4][1] <=> p4) /\ cs[4][2] = "deleteObject"
  OBVIOUS
<1> HIDE DEF cs
<1>7. Switch(cs) = IF p1 THEN "refused" ELSE IF p2 THEN "serveMedia" ELSE IF p3 THEN "getObject" ELSE IF p4 THEN "deleteObject" ELSE "refused"
  BY <1>2, <1>3, <1>4, <1>5, <1>6, Switch4
<1> QED
  BY <1>1, <1>7 DEF p1, p2, p3, p4

\* The last segment of a path to an object.
LEMMA JoinOne ==
  ASSUME NEW k \in Names
  PROVE  Join[<<k>>] = k
<1>1. <<k>> \in Seq(Names) /\ <<k>> # <<>> /\ Tail(<<k>>) = <<>> /\ Head(<<k>>) = k
  OBVIOUS
<1> QED
  BY <1>1, JoinIs

LEMMA HandleStorageV1Is ==
  ASSUME NEW c, NEW b, NEW k \in Names
  PROVE  /\ HandleStorageV1(c, <<>>) =
              To(IF c.method = "GET" THEN "listBuckets"
                 ELSE IF c.method = "POST" THEN "createBucket" ELSE "refused",
                 c.bucket, <<>>)
         /\ HandleStorageV1(c, <<b>>) =
              To(IF c.method = "GET" THEN "getBucket"
                 ELSE IF c.method = "DELETE" THEN "deleteBucket" ELSE "refused",
                 b, <<>>)
         /\ HandleStorageV1(c, <<b, <<"o">> >>) =
              To(IF c.method = "GET" THEN "listObjects" ELSE "refused", b, <<>>)
         /\ HandleStorageV1(c, <<b, <<"o">>, k>>) =
              To(IF c.method = "GET" /\ "alt" \in c.with THEN "serveMedia"
                 ELSE IF c.method = "GET" THEN "getObject"
                 ELSE IF c.method = "DELETE" THEN "deleteObject" ELSE "refused",
                 b, k)
<1> DEFINE o == <<"o">>
           s0 == <<>>
           s1 == <<b>>
           s2 == <<b, o>>
           s3 == <<b, o, k>>
<1>1. Len(s0) = 0 /\ Len(s1) = 1 /\ Len(s2) = 2 /\ Len(s3) = 3
  OBVIOUS
<1>2. s1[1] = b /\ s2[1] = b /\ s2[2] = o /\ s3[1] = b /\ s3[2] = o
  OBVIOUS
<1>3. Join[SubSeq(s3, 3, 3)] = k
  <2>1. \A i \in 3..3 : s3[i] \in Names
    OBVIOUS
  <2> DEFINE t == SubSeq(s3, 3, 3)
  <2>2. t \in Seq(Names) /\ Len(t) = 1 /\ \A i \in 1..1 : t[i] = s3[3 + i - 1]
    <3> HIDE DEF s3
    <3> QED
      BY <2>1, SubSeqProperties
  <2>3. t[1] = s3[3]
    <3> HIDE DEF s3
    <3> QED
      BY <2>2
  <2>4. s3[3] = k
    OBVIOUS
  <2>5. <<k>> \in Seq(Names) /\ Len(<<k>>) = 1 /\ <<k>>[1] = k
    OBVIOUS
  <2> HIDE DEF t, s3
  <2>6. \A i \in 1..Len(t) : t[i] = <<k>>[i]
    BY <2>2, <2>3, <2>4, <2>5
  <2>7. t = <<k>>
    BY <2>2, <2>5, <2>6, SeqEqual
  <2> QED
    BY <2>7, JoinOne DEF t
<1> HIDE DEF s0, s1, s2, s3
<1>4. HandleStorageV1(c, s0) =
        To(Switch(<< <<c.method = "GET", "listBuckets">>, <<c.method = "POST", "createBucket">> >>),
           c.bucket, <<>>)
  BY <1>1 DEF HandleStorageV1
<1>5. HandleStorageV1(c, s1) =
        To(Switch(<< <<c.method = "GET", "getBucket">>, <<c.method = "DELETE", "deleteBucket">> >>),
           s1[1], <<>>)
  BY <1>1 DEF HandleStorageV1
<1>6. HandleStorageV1(c, s2) =
        To(Switch(<< <<s2[2] = <<"o">> /\ c.method = "GET", "listObjects">> >>), s2[1], <<>>)
  BY <1>1 DEF HandleStorageV1
<1>7. HandleStorageV1(c, s3) =
        To(Switch(<< <<s3[2] # <<"o">>, "refused">>,
                     <<c.method = "GET" /\ "alt" \in c.with, "serveMedia">>,
                     <<c.method = "GET", "getObject">>,
                     <<c.method = "DELETE", "deleteObject">> >>),
           s3[1], Join[SubSeq(s3, 3, 3)])
  BY <1>1 DEF HandleStorageV1
<1>8. HandleStorageV1(c, s0) =
        To(IF c.method = "GET" THEN "listBuckets"
           ELSE IF c.method = "POST" THEN "createBucket" ELSE "refused", c.bucket, <<>>)
  BY <1>4, V1Root
<1>9. HandleStorageV1(c, s1) =
        To(IF c.method = "GET" THEN "getBucket"
           ELSE IF c.method = "DELETE" THEN "deleteBucket" ELSE "refused", b, <<>>)
  BY <1>2, <1>5, V1Bucket
<1>10. HandleStorageV1(c, s2) =
         To(IF c.method = "GET" THEN "listObjects" ELSE "refused", b, <<>>)
  BY <1>2, <1>6, V1List
<1>11. HandleStorageV1(c, s3) =
         To(IF c.method = "GET" /\ "alt" \in c.with THEN "serveMedia"
            ELSE IF c.method = "GET" THEN "getObject"
            ELSE IF c.method = "DELETE" THEN "deleteObject" ELSE "refused", b, k)
  BY <1>2, <1>3, <1>7, V1Object
<1> QED
  BY <1>8, <1>9, <1>10, <1>11 DEF s0, s1, s2, s3

-----------------------------------------------------------------------------
(***************************************************************************)
(* The servers.                                                            *)
(***************************************************************************)

\* A part of a sequence, by its elements.
LEMMA SubSeqIs ==
  ASSUME NEW S, NEW s, NEW m \in Int, NEW n \in Int, m <= n + 1,
         \A i \in m..n : s[i] \in S,
         NEW t \in Seq(S), Len(t) = n - m + 1,
         \A i \in 1..Len(t) : t[i] = s[m + i - 1]
  PROVE  SubSeq(s, m, n) = t
<1> DEFINE u == SubSeq(s, m, n)
<1>1. /\ u \in Seq(S)
      /\ Len(u) = IF m <= n THEN n - m + 1 ELSE 0
      /\ \A i \in 1..(n - m + 1) : u[i] = s[m + i - 1]
  BY SubSeqProperties
<1> HIDE DEF u
<1>2. Len(u) = Len(t)
  BY <1>1
<1>3. \A i \in 1..Len(u) : u[i] = t[i]
  BY <1>1, <1>2
<1>4. u = t
  BY <1>1, <1>2, <1>3, SeqEqual
<1> QED
  BY <1>4 DEF u

LEMMA S3ServeHTTPIs ==
  ASSUME NEW c, NEW path, NEW b \in Names, NEW rest \in Segments
  PROVE  /\ SplitPath(path) = <<>> =>
              S3ServeHTTP(c, path) =
                IF c.method = "GET" THEN To("listBuckets", <<>>, <<>>) ELSE Refused
         /\ SplitPath(path) = <<b>> => S3ServeHTTP(c, path) = To(HandleBucket(c), b, <<>>)
         /\ SplitPath(path) = <<b>> \o rest =>
              S3ServeHTTP(c, path) = To(HandleObject(c), b, Join[rest])
<1>1. ASSUME SplitPath(path) = <<>>
      PROVE  S3ServeHTTP(c, path) =
               IF c.method = "GET" THEN To("listBuckets", <<>>, <<>>) ELSE Refused
  BY <1>1 DEF S3ServeHTTP
<1>2. ASSUME SplitPath(path) = <<b>>
      PROVE  S3ServeHTTP(c, path) = To(HandleBucket(c), b, <<>>)
  <2> DEFINE segs == <<b>>
  <2>1. Len(segs) = 1 /\ segs[1] = b
    OBVIOUS
  <2> HIDE DEF segs
  <2>2. SplitPath(path) = segs
    BY <1>2 DEF segs
  <2>3. S3ServeHTTP(c, path) =
          CASE Len(segs) = 0 -> IF c.method = "GET" THEN To("listBuckets", <<>>, <<>>)
                                                    ELSE Refused
            [] Len(segs) = 1 -> To(HandleBucket(c), segs[1], <<>>)
            [] Len(segs) > 1 -> To(HandleObject(c), segs[1], Join[Tail(segs)])
    BY <2>2 DEF S3ServeHTTP
  <2> QED
    BY <2>1, <2>3
<1>3. ASSUME SplitPath(path) = <<b>> \o rest
      PROVE  S3ServeHTTP(c, path) = To(HandleObject(c), b, Join[rest])
  <2> DEFINE segs == <<b>> \o rest
  <2>0. rest \in Seq(Names) /\ rest # <<>> /\ Len(rest) \in Nat \ {0}
    BY EmptySeq DEF Segments
  <2>1. segs \in Seq(Names) /\ segs # <<>> /\ Len(segs) = Len(rest) + 1
        /\ Head(segs) = b /\ Tail(segs) = rest
    BY <2>0, ConsFacts
  <2> HIDE DEF segs
  <2>2. segs[1] = b
    BY <2>1
  <2>3. SplitPath(path) = segs
    BY <1>3 DEF segs
  <2>4. S3ServeHTTP(c, path) =
          CASE Len(segs) = 0 -> IF c.method = "GET" THEN To("listBuckets", <<>>, <<>>)
                                                    ELSE Refused
            [] Len(segs) = 1 -> To(HandleBucket(c), segs[1], <<>>)
            [] Len(segs) > 1 -> To(HandleObject(c), segs[1], Join[Tail(segs)])
    BY <2>3 DEF S3ServeHTTP
  <2>5. Len(segs) \in Nat /\ Len(segs) # 0 /\ Len(segs) # 1 /\ Len(segs) > 1
    BY <2>0, <2>1
  <2> QED
    BY <2>1, <2>2, <2>4, <2>5
<1> QED
  BY <1>1, <1>2, <1>3

\* A path that does not begin like one of GCS's own is the direct path.
LEMMA GCSDirect ==
  ASSUME NEW c, NEW path, NEW b \in Names, NEW rest \in Segments,
         b \notin {<<"storage">>, <<"upload">>, <<"download">>},
         SplitPath(path) = <<b>> \o rest
  PROVE  GCSServeHTTP(c, path) =
           IF c.method \in {"GET", "HEAD"} THEN To("serveMedia", b, Join[rest]) ELSE Refused
<1> DEFINE segs == <<b>> \o rest
           n == Len(segs)
<1>0. rest \in Seq(Names) /\ rest # <<>> /\ Len(rest) \in Nat \ {0}
  BY EmptySeq DEF Segments
<1>1. segs \in Seq(Names) /\ segs # <<>> /\ n = Len(rest) + 1
      /\ Head(segs) = b /\ Tail(segs) = rest
  BY <1>0, ConsFacts
<1> HIDE DEF segs
<1>2. segs[1] = b /\ n \in Nat /\ n >= 2
  BY <1>0, <1>1
<1>3. \A m \in 1..n : SubSeq(segs, 1, m)[1] = b
  <2> TAKE m \in 1..n
  <2>1. \A i \in 1..m : segs[i] \in Names
    BY <1>1, <1>2, ElementOfSeq
  <2>2. \A i \in 1..(m - 1 + 1) : SubSeq(segs, 1, m)[i] = segs[1 + i - 1]
    BY <1>2, <2>1, SubSeqProperties
  <2> QED
    BY <1>2, <2>2
<1>4. n >= 3 => SubSeq(segs, 1, 3) # Storage
  <2>1. Storage[1] = <<"storage">>
    BY DEF Storage
  <2> QED
    BY <1>2, <1>3, <2>1
<1>5. \A x \in {"upload", "download"} :
        n >= 6 => SubSeq(segs, 1, 4) # << <<x>> >> \o Storage
  <2> TAKE x \in {"upload", "download"}
  <2>1. << <<x>> >> \o Storage = << <<x>>, <<"storage">>, <<"v1">>, <<"b">> >>
    BY Tuple4 DEF Storage
  <2>2. << <<x>>, <<"storage">>, <<"v1">>, <<"b">> >>[1] = <<x>>
    OBVIOUS
  <2>3. (<< <<x>> >> \o Storage)[1] = <<x>>
    BY <2>1, <2>2
  <2>4. n >= 6 => SubSeq(segs, 1, 4)[1] = b
    BY <1>2, <1>3
  <2>5. b # <<x>>
    OBVIOUS
  <2> QED
    BY <2>3, <2>4, <2>5
<1>6. SplitPath(path) = segs
  BY DEF segs
<1> QED
  BY <1>1, <1>2, <1>4, <1>5, <1>6 DEF GCSServeHTTP

\* A path below /storage/v1/b.
LEMMA GCSStorage ==
  ASSUME NEW c, NEW path, NEW segs \in Seq(Names), NEW rest \in Seq(Names),
         SplitPath(path) = segs, Len(segs) = Len(rest) + 3,
         segs[1] = <<"storage">>, segs[2] = <<"v1">>, segs[3] = <<"b">>,
         \A i \in 1..Len(rest) : rest[i] = segs[i + 3]
  PROVE  GCSServeHTTP(c, path) = HandleStorageV1(c, rest)
<1>1. Len(rest) \in Nat /\ \A i \in 1..Len(segs) : segs[i] \in Names
  BY LenProperties, ElementOfSeq
<1>2. /\ Storage[1] = <<"storage">> /\ Storage[2] = <<"v1">> /\ Storage[3] = <<"b">>
      /\ Len(Storage) = 3
  BY DEF Storage
<1>3. Storage \in Seq(Names)
  <2>1. <<"storage">> \in Names /\ <<"v1">> \in Names /\ <<"b">> \in Names
    BY RoutingAssumption DEF Names
  <2> HIDE DEF Names
  <2> QED
    BY <2>1 DEF Storage
<1>4. SubSeq(segs, 1, 3) = Storage
  <2>1. \A i \in 1..3 : segs[i] \in Names
    BY <1>1
  <2>2. \A i \in 1..Len(Storage) : Storage[i] = segs[1 + i - 1]
    <3> SUFFICES ASSUME NEW i \in 1..3 PROVE Storage[i] = segs[i]
      BY <1>2
    <3>1. i = 1 \/ i = 2 \/ i = 3
      OBVIOUS
    <3> QED
      BY <1>2, <3>1
  <2> QED
    BY <1>2, <1>3, <2>1, <2>2, SubSeqIs, SMTT(40)
<1>5. SubSeq(segs, 4, Len(segs)) = rest
  <2>1. \A i \in 4..Len(segs) : segs[i] \in Names
    BY <1>1
  <2>2. \A i \in 1..Len(rest) : rest[i] = segs[4 + i - 1]
    BY <1>1
  <2>3. Len(segs) \in Int /\ 4 <= Len(segs) + 1 /\ Len(rest) = Len(segs) - 4 + 1
    BY <1>1
  <2> QED
    BY <2>1, <2>2, <2>3, SubSeqIs, SMTT(40)
<1>6. Len(segs) >= 3
  BY <1>1
<1> QED
  BY <1>4, <1>5, <1>6 DEF GCSServeHTTP

\* A path below /upload or /download.
LEMMA GCSUnder ==
  ASSUME NEW segs \in Seq(Names), NEW x \in {"upload", "download"},
         Len(segs) \in {6, 7},
         segs[1] = <<x>>, segs[2] = <<"storage">>, segs[3] = <<"v1">>, segs[4] = <<"b">>
  PROVE  /\ SubSeq(segs, 1, 3) # Storage
         /\ SubSeq(segs, 1, 4) = << <<x>> >> \o Storage
<1>1. \A i \in 1..Len(segs) : segs[i] \in Names
  BY ElementOfSeq
<1>2. SubSeq(segs, 1, 3)[1] = <<x>>
  <2>1. \A i \in 1..3 : segs[i] \in Names
    BY <1>1
  <2>2. \A i \in 1..(3 - 1 + 1) : SubSeq(segs, 1, 3)[i] = segs[1 + i - 1]
    BY <2>1, SubSeqProperties
  <2> QED
    BY <2>2
<1>3. Storage[1] = <<"storage">>
  BY DEF Storage
<1>4. <<x>> # <<"storage">>
  OBVIOUS
<1> DEFINE t == << <<x>>, <<"storage">>, <<"v1">>, <<"b">> >>
<1>5. << <<x>> >> \o Storage = t
  BY Tuple4 DEF Storage
<1>6. /\ t[1] = <<x>> /\ t[2] = <<"storage">> /\ t[3] = <<"v1">> /\ t[4] = <<"b">>
      /\ Len(t) = 4
  OBVIOUS
<1>7. t \in Seq(Names)
  <2>1. <<x>> \in Names /\ <<"storage">> \in Names /\ <<"v1">> \in Names /\ <<"b">> \in Names
    BY RoutingAssumption DEF Names
  <2> HIDE DEF Names
  <2> QED
    BY <2>1
<1> HIDE DEF t
<1>8. SubSeq(segs, 1, 4) = t
  <2>1. \A i \in 1..4 : segs[i] \in Names
    BY <1>1
  <2>2. \A i \in 1..Len(t) : t[i] = segs[1 + i - 1]
    BY <1>6, SMTT(40)
  <2> QED
    BY <1>6, <1>7, <2>1, <2>2, SubSeqIs, SMTT(40)
<1> QED
  BY <1>2, <1>3, <1>4, <1>5, <1>8

LEMMA GCSUpload ==
  ASSUME NEW c, NEW path, NEW segs \in Seq(Names),
         SplitPath(path) = segs, Len(segs) = 6,
         segs[1] = <<"upload">>, segs[2] = <<"storage">>, segs[3] = <<"v1">>,
         segs[4] = <<"b">>, segs[6] = <<"o">>
  PROVE  GCSServeHTTP(c, path) = To(HandleUpload(c), segs[5], c.name)
<1>1. SubSeq(segs, 1, 3) # Storage /\ SubSeq(segs, 1, 4) = << <<"upload">> >> \o Storage
  BY GCSUnder
<1> QED
  BY <1>1 DEF GCSServeHTTP

LEMMA GCSDownload ==
  ASSUME NEW c, NEW path, NEW segs \in Seq(Names),
         SplitPath(path) = segs, Len(segs) = 7,
         segs[1] = <<"download">>, segs[2] = <<"storage">>, segs[3] = <<"v1">>,
         segs[4] = <<"b">>, segs[6] = <<"o">>
  PROVE  GCSServeHTTP(c, path) = To("serveMedia", segs[5], segs[7])
<1>1. SubSeq(segs, 1, 3) # Storage /\ SubSeq(segs, 1, 4) = << <<"download">> >> \o Storage
  BY GCSUnder
<1>2. segs[7] \in Names
  <2>1. 7 \in 1..Len(segs)
    OBVIOUS
  <2> QED
    BY <2>1, ElementOfSeq
<1>3. SubSeq(segs, 7, 7) = << segs[7] >>
  <2> DEFINE t == << segs[7] >>
  <2>1. t \in Seq(Names) /\ Len(t) = 1 /\ t[1] = segs[7]
    BY <1>2
  <2> HIDE DEF t
  <2>2. \A i \in 7..7 : segs[i] \in Names
    BY <1>2
  <2>3. \A i \in 1..Len(t) : t[i] = segs[7 + i - 1]
    BY <2>1
  <2>4. SubSeq(segs, 7, 7) = t
    BY <2>1, <2>2, <2>3, SubSeqIs, SMTT(40)
  <2> QED
    BY <2>4 DEF t
<1>4. Join[SubSeq(segs, 7, 7)] = segs[7]
  BY <1>2, <1>3, JoinOne
<1> QED
  BY <1>1, <1>4 DEF GCSServeHTTP

\* The calls of S3 find their handlers.
LEMMA S3Handlers ==
  ASSUME NEW c \in S3Calls
  PROVE  /\ c.api = "s3"
         /\ c.via \in {"root", "bucket", "object"}
         /\ c.via = "root" => c.method = "GET" /\ c.do = "listBuckets"
         /\ c.via = "bucket" => HandleBucket(c) = c.do /\ c.do # "listBuckets"
         /\ c.via = "object" => HandleObject(c) = c.do /\ c.do # "listBuckets"
<1>1. /\ c.api = "s3"
      /\ c.via \in {"root", "bucket", "object"}
      /\ c.via = "root" => c.method = "GET" /\ c.do = "listBuckets"
  BY DEF S3Calls, Call
<1>2. c.via = "bucket" => HandleBucket(c) = c.do /\ c.do # "listBuckets"
  BY HandleBucketIs DEF S3Calls, Call
<1>3. c.via = "object" => HandleObject(c) = c.do /\ c.do # "listBuckets"
  BY HandleObjectIs DEF S3Calls, Call
<1> QED
  BY <1>1, <1>2, <1>3

\* The calls of GCS find theirs.
LEMMA GCSHandlers ==
  ASSUME NEW c \in GCSCalls
  PROVE  /\ c.api = "gcs"
         /\ c.via \in {"json", "jsonBucket", "jsonList", "jsonObject", "download",
                       "object", "upload"}
         /\ c.via = "json" =>
              c.do = IF c.method = "GET" THEN "listBuckets"
                     ELSE IF c.method = "POST" THEN "createBucket" ELSE "refused"
         /\ c.via = "jsonBucket" =>
              c.do = IF c.method = "GET" THEN "getBucket"
                     ELSE IF c.method = "DELETE" THEN "deleteBucket" ELSE "refused"
         /\ c.via = "jsonList" =>
              c.do = IF c.method = "GET" THEN "listObjects" ELSE "refused"
         /\ c.via = "jsonObject" =>
              c.do = IF c.method = "GET" /\ "alt" \in c.with THEN "serveMedia"
                     ELSE IF c.method = "GET" THEN "getObject"
                     ELSE IF c.method = "DELETE" THEN "deleteObject" ELSE "refused"
         /\ c.via = "download" => c.do = "serveMedia"
         /\ c.via = "object" => c.do = "serveMedia" /\ c.method = "GET"
         /\ c.via = "upload" => HandleUpload(c) = c.do
<1>1. c.via = "upload" => HandleUpload(c) = c.do
  BY HandleUploadIs DEF GCSCalls, Call
<1> QED
  BY <1>1 DEF GCSCalls, Call

\* A request that a client means: a call, on a bucket and names.
LEMMA MeantFacts ==
  ASSUME NEW r \in Meant
  PROVE  \E c \in S3Calls \cup GCSCalls :
           /\ r.api = c.api /\ r.do = c.do /\ r.via = c.via
           /\ r.method = c.method /\ r.with = c.with
           /\ r.bucket \in Buckets /\ r.name \in Keys /\ r.source \in Keys
BY DEF Meant, Requests

\* A bucket and a name.
LEMMA NameFacts ==
  /\ \A b \in Buckets : \E w \in Words \ {"/", "%2F"} : b = <<w>> /\ b \in Names
  /\ \A k \in Keys : k \in Names /\ k # <<>> /\ Plain(k)
<1>1. ASSUME NEW b \in Buckets
      PROVE  \E w \in Words \ {"/", "%2F"} : b = <<w>> /\ b \in Names
  <2>1. b \in Seq(Words) /\ Len(b) = 1 /\ b[1] \notin {"/", "%2F"}
    BY FrontendAssumption
  <2>2. b[1] \in Words
    <3>1. 1 \in 1..Len(b)
      BY <2>1
    <3> QED
      BY <2>1, <3>1, ElementOfSeq
  <2>3. <<b[1]>> \in Seq(Words) /\ Len(<<b[1]>>) = 1 /\ <<b[1]>>[1] = b[1]
    BY <2>2
  <2>4. b = <<b[1]>>
    BY <2>1, <2>3, SeqEqual
  <2> QED
    BY <2>1, <2>2, <2>4 DEF Names
<1>2. ASSUME NEW k \in Keys PROVE k \in Names /\ k # <<>> /\ Plain(k)
  <2>1. k \in Seq(Words) /\ Len(k) > 0 /\ \A i \in 1..Len(k) : k[i] # "%2F"
    BY FrontendAssumption
  <2> QED
    BY <2>1 DEF Names, Plain
<1> QED
  BY <1>1, <1>2

LEMMA LastOfName ==
  ASSUME NEW k \in Keys
  PROVE  Last(k) = k[Len(k)]
BY DEF Last

\* Where a request goes that names its object faithfully.
Target(r) ==
  To(r.do,
     IF r.do = "listBuckets" /\ r.api = "s3" THEN <<>> ELSE r.bucket,
     IF r.via \in OfObject THEN r.name ELSE <<>>)

\* S3 serves it as it is meant.
LEMMA S3Target ==
  ASSUME NEW r, NEW c \in S3Calls,
         r.api = c.api, r.do = c.do, r.via = c.via, r.method = c.method, r.with = c.with,
         r.bucket \in Buckets, r.name \in Keys, Faithful(r)
  PROVE  S3ServeHTTP(r, Path(r)) = Target(r)
<1>1. PICK w \in Words \ {"/", "%2F"} : r.bucket = <<w>> /\ r.bucket \in Names
  BY NameFacts
<1>2. r.name \in Names /\ r.name # <<>> /\ Plain(r.name)
  BY NameFacts
<1> DEFINE b == <<w>>
           segs == Split[r.name]
           path == Path(r)
<1>3. /\ r.via = "root" => SplitPath(path) = <<>>
      /\ r.via = "bucket" => SplitPath(path) = <<b>>
      /\ r.via = "object" /\ r.name[Len(r.name)] # "/" => SplitPath(path) = <<b>> \o segs
  BY <1>1, <1>2, PathSegments
<1>4. segs \in Segments /\ Join[segs] = r.name /\ b \in Names
  BY <1>1, <1>2, SplitIs, JoinSplit
<1>5. r.via = "object" => r.name[Len(r.name)] # "/"
  BY LastOfName DEF Faithful
<1> HIDE DEF segs, path, b
<1>6. /\ SplitPath(path) = <<>> =>
           S3ServeHTTP(r, path) =
             IF r.method = "GET" THEN To("listBuckets", <<>>, <<>>) ELSE Refused
      /\ SplitPath(path) = <<b>> => S3ServeHTTP(r, path) = To(HandleBucket(r), b, <<>>)
      /\ SplitPath(path) = <<b>> \o segs =>
           S3ServeHTTP(r, path) = To(HandleObject(r), b, r.name)
  BY <1>4, S3ServeHTTPIs
<1>7. HandleBucket(r) = HandleBucket(c) /\ HandleObject(r) = HandleObject(c)
  BY HandleBucketIs, HandleObjectIs
<1>8. b = r.bucket
  BY <1>1 DEF b
<1>9. CASE r.via = "root"
  <2>1. r.do = "listBuckets" /\ r.method = "GET" /\ r.api = "s3"
    BY <1>9, S3Handlers
  <2> QED
    BY <1>3, <1>6, <1>9, <2>1 DEF Target, OfObject, path
<1>10. CASE r.via = "bucket"
  <2>1. HandleBucket(r) = r.do /\ r.do # "listBuckets"
    BY <1>7, <1>10, S3Handlers
  <2> QED
    BY <1>3, <1>6, <1>8, <1>10, <2>1 DEF Target, OfObject, path
<1>11. CASE r.via = "object"
  <2>1. HandleObject(r) = r.do /\ r.do # "listBuckets"
    BY <1>7, <1>11, S3Handlers
  <2> QED
    BY <1>3, <1>5, <1>6, <1>8, <1>11, <2>1 DEF Target, OfObject, path
<1>12. r.via \in {"root", "bucket", "object"}
  BY S3Handlers
<1> QED
  BY <1>9, <1>10, <1>11, <1>12

\* GCS serves it as it is meant.
LEMMA GCSTarget ==
  ASSUME NEW r, NEW c \in GCSCalls,
         r.api = c.api, r.do = c.do, r.via = c.via, r.method = c.method, r.with = c.with,
         r.bucket \in Buckets, r.name \in Keys, Faithful(r)
  PROVE  GCSServeHTTP(r, Path(r)) = Target(r)
<1>1. PICK w \in Words \ {"/", "%2F"} : r.bucket = <<w>> /\ r.bucket \in Names
  BY NameFacts
<1>2. r.name \in Names /\ r.name # <<>> /\ Plain(r.name)
  BY NameFacts
<1> DEFINE b == <<w>>
           k == r.name
           path == Path(r)
           sS == <<"storage">>
           sV == <<"v1">>
           sB == <<"b">>
           sO == <<"o">>
           sU == <<"upload">>
           sD == <<"download">>
<1>3. /\ r.via = "object" /\ k[Len(k)] # "/" => SplitPath(path) = <<b>> \o Split[k]
      /\ r.via = "json" => SplitPath(path) = <<sS, sV, sB>>
      /\ r.via = "jsonBucket" => SplitPath(path) = <<sS, sV, sB, b>>
      /\ r.via = "jsonList" => SplitPath(path) = <<sS, sV, sB, b, sO>>
      /\ r.via = "jsonObject" => SplitPath(path) = <<sS, sV, sB, b, sO, k>>
      /\ r.via = "download" => SplitPath(path) = <<sD, sS, sV, sB, b, sO, k>>
      /\ r.via = "upload" => SplitPath(path) = <<sU, sS, sV, sB, b, sO>>
  BY <1>1, <1>2, PathSegments
<1>4. /\ sS \in Names /\ sV \in Names /\ sB \in Names /\ sO \in Names
      /\ sU \in Names /\ sD \in Names /\ b \in Names /\ k \in Names
  BY <1>1, <1>2, RoutingAssumption DEF Names
<1>5. b = r.bucket
  BY <1>1
<1>6. r.api = "gcs"
  BY GCSHandlers
<1> HIDE DEF path
<1>7. CASE r.via = "json"
  <2> DEFINE segs == <<sS, sV, sB>>
             rest == <<>>
  <2>1. segs \in Seq(Names) /\ rest \in Seq(Names)
    <3> HIDE DEF b, k, Names, sS, sV, sB, sO
    <3> QED
      BY <1>4
  <2>2. Len(segs) = 3 /\ Len(rest) = 0
    OBVIOUS
  <2>3. segs[1] = sS /\ segs[2] = sV /\ segs[3] = sB
    OBVIOUS
  <2>5. SplitPath(path) = segs
    BY <1>3, <1>7
  <2>6. HandleStorageV1(r, rest) = Target(r)
    <3>1. HandleStorageV1(r, rest) = To(IF r.method = "GET" THEN "listBuckets" ELSE IF r.method = "POST" THEN "createBucket" ELSE "refused",
                                        r.bucket, <<>>)
      <4> HIDE DEF b, k
      <4> QED
        BY <1>4, HandleStorageV1Is
    <3>2. r.do = IF r.method = "GET" THEN "listBuckets" ELSE IF r.method = "POST" THEN "createBucket" ELSE "refused"
      BY <1>7, GCSHandlers
    <3> QED
      BY <1>5, <1>6, <1>7, <3>1, <3>2 DEF Target, OfObject
  <2> HIDE DEF segs, rest
  <2>7. \A i \in 1..Len(rest) : rest[i] = segs[i + 3]
    BY <2>2
  <2>8. GCSServeHTTP(r, path) = HandleStorageV1(r, rest)
    <3>1. Len(segs) = Len(rest) + 3
      BY <2>2
    <3> QED
      BY <2>1, <2>3, <2>5, <2>7, <3>1, GCSStorage
  <2> QED
    BY <2>6, <2>8 DEF path
<1>8. CASE r.via = "jsonBucket"
  <2> DEFINE segs == <<sS, sV, sB, b>>
             rest == <<b>>
  <2>1. segs \in Seq(Names) /\ rest \in Seq(Names)
    <3> HIDE DEF b, k, Names, sS, sV, sB, sO
    <3> QED
      BY <1>4
  <2>2. Len(segs) = 4 /\ Len(rest) = 1
    OBVIOUS
  <2>3. segs[1] = sS /\ segs[2] = sV /\ segs[3] = sB
    OBVIOUS
  <2>4. rest[1] = segs[4]
    OBVIOUS
  <2>5. SplitPath(path) = segs
    BY <1>3, <1>8
  <2>6. HandleStorageV1(r, rest) = Target(r)
    <3>1. HandleStorageV1(r, rest) = To(IF r.method = "GET" THEN "getBucket" ELSE IF r.method = "DELETE" THEN "deleteBucket" ELSE "refused",
                                        b, <<>>)
      <4> HIDE DEF b, k
      <4> QED
        BY <1>4, HandleStorageV1Is
    <3>2. r.do = IF r.method = "GET" THEN "getBucket" ELSE IF r.method = "DELETE" THEN "deleteBucket" ELSE "refused"
      BY <1>8, GCSHandlers
    <3> QED
      BY <1>5, <1>6, <1>8, <3>1, <3>2 DEF Target, OfObject
  <2> HIDE DEF segs, rest
  <2>7. \A i \in 1..Len(rest) : rest[i] = segs[i + 3]
    BY <2>2, <2>4
  <2>8. GCSServeHTTP(r, path) = HandleStorageV1(r, rest)
    <3>1. Len(segs) = Len(rest) + 3
      BY <2>2
    <3> QED
      BY <2>1, <2>3, <2>5, <2>7, <3>1, GCSStorage
  <2> QED
    BY <2>6, <2>8 DEF path
<1>9. CASE r.via = "jsonList"
  <2> DEFINE segs == <<sS, sV, sB, b, sO>>
             rest == <<b, sO>>
  <2>1. segs \in Seq(Names) /\ rest \in Seq(Names)
    <3> HIDE DEF b, k, Names, sS, sV, sB, sO
    <3> QED
      BY <1>4
  <2>2. Len(segs) = 5 /\ Len(rest) = 2
    OBVIOUS
  <2>3. segs[1] = sS /\ segs[2] = sV /\ segs[3] = sB
    OBVIOUS
  <2>4. rest[1] = segs[4] /\ rest[2] = segs[5]
    OBVIOUS
  <2>5. SplitPath(path) = segs
    BY <1>3, <1>9
  <2>6. HandleStorageV1(r, rest) = Target(r)
    <3>1. HandleStorageV1(r, rest) = To(IF r.method = "GET" THEN "listObjects" ELSE "refused",
                                        b, <<>>)
      <4> HIDE DEF b, k
      <4> QED
        BY <1>4, HandleStorageV1Is
    <3>2. r.do = IF r.method = "GET" THEN "listObjects" ELSE "refused"
      BY <1>9, GCSHandlers
    <3> QED
      BY <1>5, <1>6, <1>9, <3>1, <3>2 DEF Target, OfObject
  <2> HIDE DEF segs, rest
  <2>7. \A i \in 1..Len(rest) : rest[i] = segs[i + 3]
    BY <2>2, <2>4
  <2>8. GCSServeHTTP(r, path) = HandleStorageV1(r, rest)
    <3>1. Len(segs) = Len(rest) + 3
      BY <2>2
    <3> QED
      BY <2>1, <2>3, <2>5, <2>7, <3>1, GCSStorage
  <2> QED
    BY <2>6, <2>8 DEF path
<1>10. CASE r.via = "jsonObject"
  <2> DEFINE segs == <<sS, sV, sB, b, sO, k>>
             rest == <<b, sO, k>>
  <2>1. segs \in Seq(Names) /\ rest \in Seq(Names)
    <3> HIDE DEF b, k, Names, sS, sV, sB, sO
    <3> QED
      BY <1>4
  <2>2. Len(segs) = 6 /\ Len(rest) = 3
    OBVIOUS
  <2>3. segs[1] = sS /\ segs[2] = sV /\ segs[3] = sB
    OBVIOUS
  <2>4. rest[1] = segs[4] /\ rest[2] = segs[5] /\ rest[3] = segs[6]
    OBVIOUS
  <2>5. SplitPath(path) = segs
    BY <1>3, <1>10
  <2>6. HandleStorageV1(r, rest) = Target(r)
    <3>1. HandleStorageV1(r, rest) = To(IF r.method = "GET" /\ "alt" \in r.with THEN "serveMedia" ELSE IF r.method = "GET" THEN "getObject" ELSE IF r.method = "DELETE" THEN "deleteObject" ELSE "refused",
                                        b, k)
      <4> HIDE DEF b, k
      <4> QED
        BY <1>4, HandleStorageV1Is, ZenonT(40)
    <3>2. r.do = IF r.method = "GET" /\ "alt" \in r.with THEN "serveMedia" ELSE IF r.method = "GET" THEN "getObject" ELSE IF r.method = "DELETE" THEN "deleteObject" ELSE "refused"
      BY <1>10, GCSHandlers
    <3> QED
      BY <1>5, <1>6, <1>10, <3>1, <3>2 DEF Target, OfObject
  <2> HIDE DEF segs, rest
  <2>7. \A i \in 1..Len(rest) : rest[i] = segs[i + 3]
    BY <2>2, <2>4
  <2>8. GCSServeHTTP(r, path) = HandleStorageV1(r, rest)
    <3>1. Len(segs) = Len(rest) + 3
      BY <2>2
    <3> QED
      BY <2>1, <2>3, <2>5, <2>7, <3>1, GCSStorage
  <2> QED
    BY <2>6, <2>8 DEF path
<1>11. CASE r.via = "upload"
  <2> DEFINE segs == <<sU, sS, sV, sB, b, sO>>
  <2>1. segs \in Seq(Names)
    <3> HIDE DEF b, k, Names, sS, sV, sB, sO, sU
    <3> QED
      BY <1>4
  <2>2. Len(segs) = 6
    OBVIOUS
  <2>3. /\ segs[1] = sU /\ segs[2] = sS /\ segs[3] = sV /\ segs[4] = sB
        /\ segs[5] = b /\ segs[6] = sO
    OBVIOUS
  <2>4. SplitPath(path) = segs
    BY <1>3, <1>11
  <2> HIDE DEF segs
  <2>5. GCSServeHTTP(r, path) = To(HandleUpload(r), segs[5], r.name)
    BY <2>1, <2>2, <2>3, <2>4, GCSUpload
  <2>6. HandleUpload(r) = r.do
    BY <1>11, GCSHandlers, HandleUploadIs
  <2> QED
    BY <1>5, <1>6, <1>11, <2>3, <2>5, <2>6 DEF Target, OfObject, path
<1>12. CASE r.via = "download"
  <2> DEFINE segs == <<sD, sS, sV, sB, b, sO, k>>
  <2>1. segs \in Seq(Names)
    <3> HIDE DEF b, k, Names, sS, sV, sB, sO, sD
    <3> QED
      BY <1>4
  <2>2. Len(segs) = 7
    OBVIOUS
  <2>3. /\ segs[1] = sD /\ segs[2] = sS /\ segs[3] = sV /\ segs[4] = sB
        /\ segs[5] = b /\ segs[6] = sO /\ segs[7] = k
    OBVIOUS
  <2>4. SplitPath(path) = segs
    BY <1>3, <1>12
  <2> HIDE DEF segs
  <2>5. GCSServeHTTP(r, path) = To("serveMedia", segs[5], segs[7])
    BY <2>1, <2>2, <2>3, <2>4, GCSDownload
  <2>6. r.do = "serveMedia"
    BY <1>12, GCSHandlers
  <2> QED
    BY <1>5, <1>6, <1>12, <2>3, <2>5, <2>6 DEF Target, OfObject, path
<1>13. CASE r.via = "object"
  <2>1. k[Len(k)] # "/" /\ b \notin {sS, sU, sD}
    BY <1>5, <1>6, <1>13, LastOfName DEF Faithful
  <2>2. SplitPath(path) = <<b>> \o Split[k]
    BY <1>3, <1>13, <2>1
  <2>3. Split[k] \in Segments /\ Join[Split[k]] = k
    BY <1>2, SplitIs, JoinSplit
  <2>4. r.do = "serveMedia" /\ r.method = "GET"
    BY <1>13, GCSHandlers
  <2>5. GCSServeHTTP(r, path) =
          IF r.method \in {"GET", "HEAD"} THEN To("serveMedia", b, Join[Split[k]]) ELSE Refused
    BY <1>4, <2>1, <2>2, <2>3, GCSDirect
  <2> QED
    BY <1>5, <1>6, <1>13, <2>3, <2>4, <2>5 DEF Target, OfObject, path
<1>14. r.via \in {"json", "jsonBucket", "jsonList", "jsonObject", "download", "object", "upload"}
  BY GCSHandlers
<1> QED
  BY <1>7, <1>8, <1>9, <1>10, <1>11, <1>12, <1>13, <1>14

\* Either server passes a request on to the handler it is meant for, with the
\* bucket and the name it was given.
LEMMA ServeHTTPIs ==
  ASSUME NEW r \in Meant, Faithful(r)
  PROVE  ServeHTTP(r) = Target(r)
<1>1. PICK c \in S3Calls \cup GCSCalls :
        /\ r.api = c.api /\ r.do = c.do /\ r.via = c.via
        /\ r.method = c.method /\ r.with = c.with
        /\ r.bucket \in Buckets /\ r.name \in Keys /\ r.source \in Keys
  BY MeantFacts
<1>2. CASE c \in S3Calls
  <2>1. r.api = "s3"
    BY <1>1, <1>2, S3Handlers
  <2>2. S3ServeHTTP(r, Path(r)) = Target(r)
    BY <1>1, <1>2, S3Target
  <2> QED
    BY <2>1, <2>2 DEF ServeHTTP
<1>3. CASE c \in GCSCalls
  <2>1. r.api = "gcs"
    BY <1>1, <1>3, GCSHandlers
  <2>2. GCSServeHTTP(r, Path(r)) = Target(r)
    BY <1>1, <1>3, GCSTarget
  <2> QED
    BY <2>1, <2>2 DEF ServeHTTP
<1> QED
  BY <1>2, <1>3

-----------------------------------------------------------------------------
(***************************************************************************)
(* The body of an upload.                                                  *)
(***************************************************************************)

LEMMA ConcatHeadTail ==
  ASSUME NEW S, NEW s \in Seq(S), s # <<>>, NEW t \in Seq(S)
  PROVE  /\ s \o t # <<>>
         /\ Head(s \o t) = Head(s)
         /\ Tail(s \o t) = Tail(s) \o t
<1> DEFINE h == Head(s)
           u == Tail(s)
           v == u \o t
<1>1. h \in S /\ u \in Seq(S) /\ s = <<h>> \o u /\ <<h>> \in Seq(S)
  BY HeadTailProperties, HeadTailCons
<1> HIDE DEF h, u
<1>2. s \o t = <<h>> \o v
  BY <1>1, ConcatAssociative
<1>3. v \in Seq(S)
  BY <1>1, ConcatProperties
<1> HIDE DEF v
<1>4. Head(<<h>> \o v) = h /\ Tail(<<h>> \o v) = v /\ <<h>> \o v # <<>>
  BY <1>1, <1>3, ConsFacts
<1> QED
  BY <1>2, <1>4 DEF h, u, v

\* The parts of the content.
LEMMA HeldFacts ==
  ASSUME CopiedInv, stage = "body"
  PROVE  /\ Len(content) \in Nat /\ Len(out) \in Nat /\ Len(unsent) \in Nat
         /\ Len(out) + Len(unsent) <= Len(content)
         /\ Held \in Seq(Payload)
         /\ Len(Held) = Len(content) - Len(unsent) - Len(out)
         /\ Held = <<>> /\ unsent = <<>> => out = content
         /\ out = content => Held = <<>> /\ unsent = <<>>
<1>1. /\ content \in Seq(Payload) /\ out \in Seq(Payload) /\ unsent \in Seq(Payload)
      /\ Len(out) + Len(unsent) <= Len(content)
      /\ out = SubSeq(content, 1, Len(out))
  BY DEF CopiedInv
<1>2. /\ Len(content) \in Nat /\ Len(out) \in Nat /\ Len(unsent) \in Nat
      /\ \A i \in 1..Len(content) : content[i] \in Payload
  BY <1>1, LenProperties, ElementOfSeq
<1> DEFINE m == Len(out) + 1
           n == Len(content) - Len(unsent)
<1>3. m \in Int /\ n \in Int /\ \A i \in m..n : content[i] \in Payload
  BY <1>1, <1>2
<1>4. Held = SubSeq(content, m, n)
  BY DEF Held
<1>5. Held \in Seq(Payload) /\ Len(Held) = IF m <= n THEN n - m + 1 ELSE 0
  <2> HIDE DEF m, n
  <2> QED
    BY <1>3, <1>4, SubSeqProperties
<1>6. Len(Held) = Len(content) - Len(unsent) - Len(out)
  BY <1>1, <1>2, <1>5
<1>7. Held = <<>> /\ unsent = <<>> => out = content
  <2> SUFFICES ASSUME Held = <<>>, unsent = <<>> PROVE out = content
    OBVIOUS
  <2>1. Len(out) = Len(content)
    BY <1>2, <1>6
  <2>2. SubSeq(content, 1, Len(content)) = content
    BY <1>1, SubSeqFull
  <2> QED
    BY <1>1, <2>1, <2>2
<1>8. out = content => Held = <<>> /\ unsent = <<>>
  <2> SUFFICES ASSUME out = content PROVE Held = <<>> /\ unsent = <<>>
    OBVIOUS
  <2>1. Len(out) = Len(content)
    OBVIOUS
  <2>2. Len(out) + Len(unsent) <= Len(content)
    BY <1>1
  <2>3. Len(unsent) = 0
    BY <1>2, <2>1, <2>2
  <2>4. Len(Held) = 0
    BY <1>2, <1>6, <2>1, <2>3
  <2> QED
    BY <1>1, <1>5, <2>3, <2>4, EmptySeq
<1> QED
  BY <1>1, <1>2, <1>5, <1>6, <1>7, <1>8

\* The copy of one more byte.
LEMMA CopyByte ==
  ASSUME CopiedInv, stage = "body", Held # <<>>,
         UNCHANGED <<content, unsent, stage>>,
         out' = Append(out, Head(Held))
  PROVE  /\ out' \in Seq(Payload)
         /\ Len(out') = Len(out) + 1
         /\ Len(out') + Len(unsent') <= Len(content')
         /\ out' = SubSeq(content', 1, Len(out'))
         /\ Held' = Tail(Held)
         /\ Head(Held) \in Payload
<1>1. /\ content \in Seq(Payload) /\ out \in Seq(Payload) /\ unsent \in Seq(Payload)
      /\ out = SubSeq(content, 1, Len(out))
  BY DEF CopiedInv
<1>2. /\ Len(content) \in Nat /\ Len(out) \in Nat /\ Len(unsent) \in Nat
      /\ Held \in Seq(Payload)
      /\ Len(Held) = Len(content) - Len(unsent) - Len(out)
  BY HeldFacts
<1>3. Len(Held) \in Nat \ {0}
  BY <1>2, EmptySeq
<1> DEFINE m == Len(out) + 1
           n == Len(content) - Len(unsent)
<1>4. m \in 1..Len(content) /\ n \in m..Len(content) /\ n \in Int /\ m \in Int
  BY <1>2, <1>3
<1>5. Held = SubSeq(content, m, n)
  BY DEF Held
<1>6. Head(Held) = content[m] /\ Tail(Held) = SubSeq(content, m + 1, n)
  <2> HIDE DEF m, n
  <2> QED
    BY <1>1, <1>4, <1>5, HeadTailOfSubSeq
<1>7. content[m] \in Payload
  <2> HIDE DEF m
  <2> QED
    BY <1>1, <1>4, ElementOfSeq
<1>8. /\ out' \in Seq(Payload) /\ Len(out') = m
      /\ out' = out \o <<content[m]>>
  <2> DEFINE e == content[m]
  <2>1. out' = Append(out, e) /\ e \in Payload
    BY <1>6, <1>7
  <2> HIDE DEF e
  <2>2. out' \in Seq(Payload) /\ Len(out') = Len(out) + 1 /\ out' = out \o <<e>>
    BY <1>1, <2>1, AppendProperties, AppendIsConcat
  <2> QED
    BY <2>2 DEF e
<1>9. SubSeq(content, 1, m) = SubSeq(content, 1, m - 1) \o <<content[m]>>
  <2>1. 1 \in 1..Len(content) /\ m \in 1..Len(content)
    BY <1>2, <1>4
  <2> HIDE DEF m
  <2> QED
    BY <1>1, <2>1, SubSeqRecursiveSecond
<1>10. m - 1 = Len(out)
  BY <1>2
<1>11. out' = SubSeq(content', 1, Len(out'))
  BY <1>1, <1>8, <1>9, <1>10
<1>12. Held' = SubSeq(content, m + 1, n)
  BY <1>8 DEF Held
<1>13. Len(out') = Len(out) + 1 /\ Len(out') + Len(unsent') <= Len(content')
  <2>1. Len(unsent') = Len(unsent) /\ Len(content') = Len(content) /\ Len(out') = m
    BY <1>8
  <2> HIDE DEF Held
  <2> QED
    BY <1>2, <1>3, <2>1
<1>14. Held' = Tail(Held) /\ Head(Held) \in Payload
  BY <1>6, <1>7, <1>12
<1> QED
  BY <1>8, <1>11, <1>13, <1>14

Phases == {"plain", "header", "data", "crlf", "trailer", "eof", "error"}

BodyInv == CopiedInv /\ WireInv /\ EndedInv

\* A step that copies nothing.
LEMMA CopiedSame ==
  ASSUME CopiedInv, stage = "body", UNCHANGED <<stage, content, out, unsent>>,
         phase' \in Phases, ended' \in {"open", "eof", "broken"}
  PROVE  CopiedInv' /\ Held' = Held
<1>1. Held' = Held
  BY DEF Held
<1>2. CopiedInv'
  BY DEF CopiedInv, Phases
<1> QED
  BY <1>1, <1>2

\* A step that copies the first byte that is held.
LEMMA CopiedMore ==
  ASSUME CopiedInv, stage = "body", Held # <<>>,
         UNCHANGED <<stage, content, unsent, ended>>,
         phase' \in Phases, out' = Append(out, Head(Held))
  PROVE  CopiedInv' /\ Held' = Tail(Held)
<1>1. /\ out' \in Seq(Payload)
      /\ Len(out') + Len(unsent') <= Len(content')
      /\ out' = SubSeq(content', 1, Len(out'))
      /\ Held' = Tail(Held)
  BY CopyByte
<1>2. CopiedInv'
  BY <1>1 DEF CopiedInv, Phases
<1> QED
  BY <1>1, <1>2

LEMMA PhaseType ==
  ASSUME CopiedInv, stage = "body"
  PROVE  phase \in Phases /\ ended \in {"open", "eof", "broken"}
BY DEF CopiedInv, Phases

\* The end of the body is found where the wire is empty.
LEMMA AtEndInv ==
  ASSUME BodyInv, stage = "body", Spent, phase \in {"plain", "data", "crlf"},
         phase' = AtEnd, UNCHANGED <<stage, content, wire, unsent, ended, inside, out>>
  PROVE  BodyInv'
<1>1. ended # "open" /\ ended \in {"open", "eof", "broken"}
  BY PhaseType DEF BodyInv, Spent
<1>2. phase' \in {"eof", "error"} /\ phase' \in Phases
  BY DEF AtEnd, Phases
<1>3. phase' = "eof" => ended = "eof"
  BY DEF AtEnd
<1>4. CopiedInv'
  BY <1>1, <1>2, CopiedSame DEF BodyInv
<1>5. WireInv'
  BY <1>1 DEF WireInv
<1>6. EndedInv'
  BY <1>1, <1>2, <1>3 DEF EndedInv, BodyInv
<1> QED
  BY <1>4, <1>5, <1>6 DEF BodyInv

\* Nothing is read from a body that has ended.
LEMMA TakeOpen ==
  ASSUME BodyInv, stage = "body", Take
  PROVE  ended = "open" /\ wire # <<>> /\ wire' = Tail(wire)
BY DEF BodyInv, EndedInv, Take

LEMMA ReadPlainInv ==
  ASSUME BodyInv, stage = "body", ReadPlain, UNCHANGED <<stage, content>>
  PROVE  BodyInv'
<1>1. phase = "plain" /\ UNCHANGED <<unsent, ended, inside>>
  BY DEF ReadPlain
<1>2. CASE Spent /\ phase' = AtEnd /\ UNCHANGED <<wire, out>>
  BY <1>1, <1>2, AtEndInv
<1>3. CASE Take /\ out' = Append(out, Head(wire)) /\ UNCHANGED phase
  <2>1. ended = "open" /\ wire # <<>> /\ wire' = Tail(wire)
    BY <1>3, TakeOpen
  <2>2. wire = Held /\ unsent = <<>>
    BY <1>1, <2>1 DEF BodyInv, WireInv
  <2>3. phase' \in Phases /\ phase' = "plain" /\ ended' = "open"
    BY <1>1, <1>3, <2>1 DEF Phases
  <2>4. CopiedInv' /\ Held' = Tail(Held)
    BY <1>1, <1>3, <2>1, <2>2, <2>3, CopiedMore DEF BodyInv
  <2>5. WireInv'
    BY <1>1, <2>1, <2>2, <2>3, <2>4 DEF WireInv
  <2>6. EndedInv'
    BY <2>3 DEF EndedInv
  <2> QED
    BY <2>4, <2>5, <2>6 DEF BodyInv
<1> QED
  BY <1>2, <1>3 DEF ReadPlain

\* The bytes of a chunk and the line end behind them.
LEMMA DataWire ==
  ASSUME CopiedInv, stage = "body", Held # <<>>
  PROVE  /\ Held \o <<CR, LF>> # <<>>
         /\ Head(Held \o <<CR, LF>>) = Head(Held)
         /\ Tail(Held \o <<CR, LF>>) = Tail(Held) \o <<CR, LF>>
         /\ Tail(Held) \in Seq(Payload)
         /\ Len(Tail(Held)) = Len(Held) - 1
         /\ Len(Held) \in Nat
         /\ Tail(Held) = <<>> => Tail(Held) \o <<CR, LF>> = <<CR, LF>>
<1> DEFINE S == Payload \cup {CR, LF}
           t == <<CR, LF>>
           h == Held
<1>1. h \in Seq(Payload) /\ h # <<>>
  BY HeldFacts
<1>2. t \in Seq(S)
  OBVIOUS
<1>3. h \in Seq(S)
  BY <1>1, SeqMonotonic
<1> HIDE DEF S, t, h
<1>4. h \o t # <<>> /\ Head(h \o t) = Head(h) /\ Tail(h \o t) = Tail(h) \o t
  BY <1>1, <1>2, <1>3, ConcatHeadTail
<1>5. Tail(h) \in Seq(Payload) /\ Len(Tail(h)) = Len(h) - 1 /\ Len(h) \in Nat
  BY <1>1, HeadTailProperties, LenProperties
<1>6. <<>> \o t = t
  BY <1>2, ConcatEmptySeq
<1> QED
  BY <1>4, <1>5, <1>6 DEF t, h

LEMMA ReadDataInv ==
  ASSUME BodyInv, stage = "body", ReadData, UNCHANGED <<stage, content>>
  PROVE  BodyInv'
<1>1. phase = "data" /\ UNCHANGED <<unsent, ended, inside>>
  BY DEF ReadData
<1>2. CASE Spent /\ phase' = AtEnd /\ UNCHANGED <<wire, remaining, crlf, out>>
  BY <1>1, <1>2, AtEndInv
<1>3. CASE /\ Take
           /\ out' = Append(out, Head(wire))
           /\ remaining' = remaining - 1
           /\ phase' = IF remaining' = 0 THEN "crlf" ELSE "data"
           /\ crlf' = 2
  <2>1. ended = "open" /\ wire # <<>> /\ wire' = Tail(wire)
    BY <1>3, TakeOpen
  <2>2. Held # <<>> /\ remaining = Len(Held) /\ wire = Held \o <<CR, LF>>
    BY <1>1, <2>1 DEF BodyInv, WireInv
  <2>3. CopiedInv
    BY DEF BodyInv
  <2>4. /\ Head(wire) = Head(Held)
        /\ wire' = Tail(Held) \o <<CR, LF>>
        /\ Tail(Held) \in Seq(Payload)
        /\ Len(Tail(Held)) = Len(Held) - 1
        /\ Len(Held) \in Nat
        /\ Tail(Held) = <<>> => Tail(Held) \o <<CR, LF>> = <<CR, LF>>
    BY <2>1, <2>2, <2>3, DataWire
  <2>5. phase' \in Phases /\ ended' = "open"
    BY <1>1, <1>3, <2>1 DEF Phases
  <2>6. CopiedInv' /\ Held' = Tail(Held)
    BY <1>1, <1>3, <2>2, <2>3, <2>4, <2>5, CopiedMore
  <2>7. remaining' = Len(Held')
    BY <1>3, <2>2, <2>4, <2>6
  <2>8. remaining' = 0 <=> Held' = <<>>
    BY <2>4, <2>6, <2>7, EmptySeq
  <2>9. WireInv'
    <3>1. CASE remaining' = 0
      BY <1>3, <2>4, <2>5, <2>6, <2>8, <3>1 DEF WireInv
    <3>2. CASE remaining' # 0
      BY <1>3, <2>4, <2>5, <2>6, <2>7, <2>8, <3>2 DEF WireInv
    <3> QED
      BY <3>1, <3>2
  <2>10. EndedInv'
    BY <2>5 DEF EndedInv
  <2> QED
    BY <2>6, <2>9, <2>10 DEF BodyInv
<1> QED
  BY <1>2, <1>3 DEF ReadData

\* A reader that has failed keeps the invariant.
LEMMA FailedInv ==
  ASSUME BodyInv, stage = "body", UNCHANGED <<stage, content, out, unsent, ended>>,
         phase' = "error", wire' = <<>> \/ ended = "open"
  PROVE  BodyInv'
<1>1. phase' \in Phases /\ ended' \in {"open", "eof", "broken"}
  BY PhaseType DEF BodyInv, Phases
<1>2. CopiedInv'
  BY <1>1, CopiedSame DEF BodyInv
<1>3. WireInv'
  BY DEF WireInv
<1>4. EndedInv'
  BY DEF EndedInv
<1> QED
  BY <1>2, <1>3, <1>4 DEF BodyInv

LEMMA DiscardCRLFInv ==
  ASSUME BodyInv, stage = "body", DiscardCRLF, UNCHANGED <<stage, content>>
  PROVE  BodyInv'
<1>1. phase = "crlf" /\ UNCHANGED <<unsent, ended, inside, remaining, out>>
  BY DEF DiscardCRLF
<1>2. CASE Spent /\ phase' = AtEnd /\ UNCHANGED <<wire, crlf>>
  BY <1>1, <1>2, AtEndInv
<1>3. CASE /\ Take
           /\ Head(wire).k \in {"cr", "lf"}
           /\ crlf' = crlf - 1
           /\ phase' = IF crlf' = 0 THEN "header" ELSE "crlf"
  <2>1. ended = "open" /\ wire' = Tail(wire)
    BY <1>3, TakeOpen
  <2>2. Held = <<>> /\ ((crlf = 2 /\ wire = <<CR, LF>>) \/ (crlf = 1 /\ wire = <<LF>>))
    BY <1>1, <2>1 DEF BodyInv, WireInv
  <2>3. (crlf' = 1 /\ wire' = <<LF>>) \/ (crlf' = 0 /\ wire' = <<>>)
    <3>1. Tail(<<CR, LF>>) = <<LF>> /\ Tail(<<LF>>) = <<>>
      OBVIOUS
    <3>2. (crlf' = 1 /\ wire = <<CR, LF>>) \/ (crlf' = 0 /\ wire = <<LF>>)
      BY <1>3, <2>2
    <3> QED
      BY <2>1, <3>1, <3>2
  <2>4. phase' \in Phases /\ ended' = "open"
    BY <1>1, <1>3, <2>1 DEF Phases
  <2>5. CopiedInv' /\ Held' = Held
    BY <1>1, <2>4, CopiedSame DEF BodyInv
  <2>6. WireInv'
    BY <1>3, <2>2, <2>3, <2>5 DEF WireInv
  <2>7. EndedInv'
    BY <2>4 DEF EndedInv
  <2> QED
    BY <2>5, <2>6, <2>7 DEF BodyInv
<1>4. CASE Take /\ Head(wire).k \notin {"cr", "lf"} /\ phase' = "error" /\ UNCHANGED crlf
  <2>1. ended = "open"
    BY <1>4, TakeOpen
  <2> QED
    BY <1>1, <1>4, <2>1, FailedInv
<1> QED
  BY <1>2, <1>3, <1>4 DEF DiscardCRLF

\* A chunk is its size, its bytes and a line end.
LEMMA ChunkWire ==
  ASSUME NEW x \in Seq(Payload)
  PROVE  /\ Chunk(x) # <<>>
         /\ Head(Chunk(x)) = Size(Len(x))
         /\ Tail(Chunk(x)) = x \o <<CR, LF>>
<1> DEFINE z == Size(Len(x))
           S == Payload \cup {CR, LF, z}
           t == <<CR, LF>>
           a == <<z>> \o x
<1>1. t \in Seq(S) /\ z \in S
  OBVIOUS
<1>2. x \in Seq(S)
  <2>1. Payload \subseteq S
    OBVIOUS
  <2> HIDE DEF S
  <2> QED
    BY <2>1, SeqMonotonic
<1>3. Chunk(x) = a \o t
  BY DEF Chunk
<1> HIDE DEF S, t, z
<1>4. a \in Seq(S) /\ a # <<>> /\ Head(a) = z /\ Tail(a) = x
  BY <1>1, <1>2, ConsFacts
<1> HIDE DEF a
<1>5. a \o t # <<>> /\ Head(a \o t) = Head(a) /\ Tail(a \o t) = Tail(a) \o t
  BY <1>1, <1>4, ConcatHeadTail
<1> QED
  BY <1>3, <1>4, <1>5 DEF t, z

LEMMA ReadHeaderInv ==
  ASSUME BodyInv, stage = "body", ReadHeader, UNCHANGED <<stage, content>>
  PROVE  BodyInv'
<1>1. phase = "header" /\ UNCHANGED <<unsent, ended, inside, crlf, out>>
  BY DEF ReadHeader
<1>2. CASE Spent /\ phase' = NoHeader /\ UNCHANGED <<wire, remaining>>
  BY <1>1, <1>2, FailedInv DEF Spent, NoHeader
<1>3. CASE Take /\ Head(wire).k # "size" /\ phase' = "error" /\ UNCHANGED remaining
  <2>1. ended = "open"
    BY <1>3, TakeOpen
  <2> QED
    BY <1>1, <1>3, <2>1, FailedInv
<1>4. CASE /\ Take
           /\ Head(wire).k = "size"
           /\ phase' = CASE Head(wire).n = 0 -> "trailer"
                         [] Head(wire).n > 0 -> "data"
                         [] Head(wire).n < 0 -> "header"
           /\ remaining' = Head(wire).n
  <2>1. ended = "open" /\ wire # <<>> /\ wire' = Tail(wire)
    BY <1>4, TakeOpen
  <2>2. \/ Held # <<>> /\ wire = Chunk(Held)
        \/ Held = <<>> /\ wire \in Odd
        \/ Held = <<>> /\ unsent = <<>> /\ wire \in Ends
    BY <1>1, <2>1 DEF BodyInv, WireInv
  <2>3. CopiedInv /\ ended' = "open"
    BY <1>1, <2>1 DEF BodyInv
  <2>4. EndedInv'
    BY <2>3 DEF EndedInv
  <2>5. Held \in Seq(Payload)
    BY <2>3, HeldFacts
  <2>6. CASE Held # <<>> /\ wire = Chunk(Held)
    <3>1. Head(wire) = Size(Len(Held)) /\ wire' = Held \o <<CR, LF>>
      BY <2>1, <2>5, <2>6, ChunkWire
    <3>2. Len(Held) \in Nat \ {0}
      BY <2>5, <2>6, EmptySeq
    <3>3. Head(wire).n = Len(Held)
      BY <3>1 DEF Size
    <3>4. phase' = "data" /\ remaining' = Len(Held)
      BY <1>4, <3>2, <3>3
    <3>5. CopiedInv' /\ Held' = Held
      BY <1>1, <2>3, <3>4, CopiedSame DEF Phases
    <3>6. WireInv'
      BY <2>6, <3>1, <3>4, <3>5 DEF WireInv
    <3> QED
      BY <2>4, <3>5, <3>6 DEF BodyInv
  <2>7. CASE Held = <<>> /\ wire \in Odd
    <3>1. wire = <<Size(-1)>>
      BY <1>4, <2>7 DEF Odd, NotHex
    <3>2. Head(wire).n = -1 /\ wire' = <<>>
      BY <2>1, <3>1 DEF Size
    <3>3. phase' = "header"
      BY <1>4, <3>2
    <3>4. CopiedInv' /\ Held' = Held
      BY <1>1, <2>3, <3>3, CopiedSame DEF Phases
    <3>5. WireInv'
      BY <2>7, <3>2, <3>3, <3>4 DEF WireInv
    <3> QED
      BY <2>4, <3>4, <3>5 DEF BodyInv
  <2>8. CASE Held = <<>> /\ unsent = <<>> /\ wire \in Ends
    <3>1. Head(wire) = Size(0)
      BY <2>8 DEF Ends
    <3>2. Head(wire).n = 0
      BY <3>1 DEF Size
    <3>3. phase' = "trailer"
      BY <1>4, <3>2
    <3>4. CopiedInv'
      BY <1>1, <2>3, <3>3, CopiedSame DEF Phases
    <3>5. out = content
      BY <2>3, <2>8, HeldFacts
    <3>6. WireInv'
      BY <1>1, <3>3, <3>5 DEF WireInv
    <3> QED
      BY <2>4, <3>4, <3>6 DEF BodyInv
  <2> QED
    BY <2>2, <2>6, <2>7, <2>8
<1> QED
  BY <1>2, <1>3, <1>4 DEF ReadHeader

LEMMA ReadTrailerInv ==
  ASSUME BodyInv, stage = "body", ReadTrailer, UNCHANGED <<stage, content>>
  PROVE  BodyInv'
<1>1. phase = "trailer" /\ UNCHANGED <<unsent, ended, inside, remaining, crlf, out>>
  BY DEF ReadTrailer
<1>2. out = content
  BY <1>1, PhaseType DEF BodyInv, WireInv, EndedInv
<1>3. phase' \in {"trailer", "eof", "error"} /\ (ended # "open" => wire' = <<>>)
  BY <1>1, TakeOpen DEF ReadTrailer, AtEnd, Spent
<1>4. phase' \in Phases /\ ended' \in {"open", "eof", "broken"}
  BY <1>1, <1>3, PhaseType DEF BodyInv, Phases
<1>5. CopiedInv'
  BY <1>1, <1>4, CopiedSame DEF BodyInv
<1>6. WireInv'
  BY <1>1, <1>2, <1>3 DEF WireInv
<1>7. EndedInv'
  BY <1>1, <1>2, <1>3 DEF EndedInv
<1> QED
  BY <1>5, <1>6, <1>7 DEF BodyInv

LEMMA ReadInv ==
  ASSUME BodyInv, stage = "body", Read, UNCHANGED <<stage, content>>
  PROVE  BodyInv'
BY ReadHeaderInv, ReadDataInv, DiscardCRLFInv, ReadTrailerInv, ReadPlainInv DEF Read

\* The client cuts a chunk off what is unsent.
LEMMA CutChunk ==
  ASSUME CopiedInv, stage = "body", Held = <<>>, NEW n \in 1..Len(unsent),
         unsent' = SubSeq(unsent, n + 1, Len(unsent)),
         UNCHANGED <<stage, content, out, ended, phase>>
  PROVE  CopiedInv' /\ Held' = SubSeq(unsent, 1, n) /\ Held' # <<>>
<1>1. /\ content \in Seq(Payload) /\ out \in Seq(Payload) /\ unsent \in Seq(Payload)
      /\ unsent = SubSeq(content, Len(content) - Len(unsent) + 1, Len(content))
  BY DEF CopiedInv
<1>2. PICK l \in Nat, i \in Nat, u \in Nat :
        l = Len(content) /\ i = Len(out) /\ u = Len(unsent)
  BY HeldFacts
<1>3. l - u = i /\ n \in 1..u
  <2>1. Len(Held) = l - u - i
    BY <1>2, HeldFacts
  <2>2. Len(Held) = 0
    OBVIOUS
  <2> QED
    BY <1>2, <2>1, <2>2
<1>4. /\ \A j \in 1..l : content[j] \in Payload
      /\ \A j \in 1..u : unsent[j] \in Payload
  BY <1>1, <1>2, ElementOfSeq
<1>5. \A j \in 1..u : unsent[j] = content[i + j]
  <2>1. \A j \in (i + 1)..l : content[j] \in Payload
    BY <1>3, <1>4
  <2>2. unsent = SubSeq(content, i + 1, l)
    BY <1>1, <1>2, <1>3
  <2>3. i + 1 \in Int /\ l \in Int
    OBVIOUS
  <2>4. \A j \in 1..(l - (i + 1) + 1) : SubSeq(content, i + 1, l)[j] = content[i + 1 + j - 1]
    BY <2>1, <2>3, SubSeqProperties
  <2>5. ASSUME NEW j \in 1..u PROVE unsent[j] = content[i + j]
    <3>1. j \in 1..(l - (i + 1) + 1) /\ i + 1 + j - 1 = i + j
      BY <1>3
    <3> QED
      BY <2>2, <2>4, <3>1
  <2> QED
    BY <2>5
<1> DEFINE x == SubSeq(unsent, 1, n)
           v == SubSeq(unsent, n + 1, u)
<1>6. x \in Seq(Payload) /\ Len(x) = n /\ \A j \in 1..n : x[j] = unsent[j]
  <2>1. \A j \in 1..n : unsent[j] \in Payload
    BY <1>3, <1>4
  <2>2. x \in Seq(Payload) /\ Len(x) = (IF 1 <= n THEN n - 1 + 1 ELSE 0)
        /\ \A j \in 1..(n - 1 + 1) : x[j] = unsent[1 + j - 1]
    BY <1>3, <2>1, SubSeqProperties
  <2> QED
    BY <1>3, <2>2
<1>7. v \in Seq(Payload) /\ Len(v) = u - n /\ \A j \in 1..(u - n) : v[j] = unsent[n + j]
  <2>1. \A j \in (n + 1)..u : unsent[j] \in Payload
    BY <1>3, <1>4
  <2>2. n + 1 \in Int /\ u \in Int
    BY <1>3
  <2>3. v \in Seq(Payload) /\ Len(v) = (IF n + 1 <= u THEN u - (n + 1) + 1 ELSE 0)
        /\ \A j \in 1..(u - (n + 1) + 1) : v[j] = unsent[n + 1 + j - 1]
    BY <2>1, <2>2, SubSeqProperties
  <2> HIDE DEF v
  <2> QED
    BY <1>3, <2>3
<1>8. unsent' = v
  BY <1>2
<1> HIDE DEF x, v
<1>9. Len(unsent') = u - n /\ Len(content') = l /\ Len(out') = i
  BY <1>2, <1>7, <1>8
<1>10. SubSeq(content, l - (u - n) + 1, l) = v
  <2>1. ASSUME NEW j \in (l - (u - n) + 1)..l PROVE content[j] \in Payload
    <3>1. j \in 1..l
      BY <1>3
    <3> QED
      BY <1>4, <3>1
  <2>2. l - (u - n) + 1 \in Int /\ l \in Int /\ l - (u - n) + 1 <= l + 1
        /\ Len(v) = l - (l - (u - n) + 1) + 1
    BY <1>3, <1>7
  <2>3. ASSUME NEW j \in 1..Len(v) PROVE v[j] = content[l - (u - n) + 1 + j - 1]
    <3>1. j \in 1..(u - n) /\ n + j \in 1..u /\ l - (u - n) + 1 + j - 1 = i + (n + j)
      BY <1>3, <1>7
    <3> QED
      BY <1>5, <1>7, <3>1
  <2> QED
    BY <1>7, <2>1, <2>2, <2>3, SubSeqIs, SMTT(40)
<1>11. SubSeq(content, i + 1, l - (u - n)) = x
  <2>1. PICK m \in Nat, e \in Nat : m = i + 1 /\ e = i + n
    BY <1>3
  <2>2. l - (u - n) = e
    BY <1>3, <2>1
  <2>3. ASSUME NEW j \in m..e PROVE content[j] \in Payload
    <3>1. j \in 1..l
      BY <1>3, <2>1
    <3> QED
      BY <1>4, <3>1
  <2>4. m \in Int /\ e \in Int /\ m <= e + 1 /\ Len(x) = e - m + 1
    BY <1>3, <1>6, <2>1
  <2>5. ASSUME NEW j \in 1..Len(x) PROVE x[j] = content[m + j - 1]
    <3>1. j \in 1..n /\ j \in 1..u /\ m + j - 1 = i + j
      BY <1>3, <1>6, <2>1
    <3> QED
      BY <1>5, <1>6, <3>1
  <2>6. SubSeq(content, m, e) = x
    BY <1>6, <2>3, <2>4, <2>5, SubSeqIs, SMTT(40)
  <2> QED
    BY <2>1, <2>2, <2>6
<1>12. Held' = x
  BY <1>9, <1>11 DEF Held
<1>13. x # <<>>
  BY <1>3, <1>6
<1>14. /\ unsent' \in Seq(Payload)
       /\ Len(out') + Len(unsent') <= Len(content')
       /\ unsent' = SubSeq(content', Len(content') - Len(unsent') + 1, Len(content'))
  <2>1. unsent' \in Seq(Payload)
    BY <1>7, <1>8
  <2>2. Len(out') + Len(unsent') <= Len(content')
    BY <1>3, <1>9
  <2>3. Len(content') - Len(unsent') + 1 = l - (u - n) + 1
    BY <1>9
  <2> QED
    BY <1>8, <1>9, <1>10, <2>1, <2>2, <2>3
<1>15. CopiedInv'
  BY <1>14 DEF CopiedInv
<1> QED
  BY <1>12, <1>13, <1>15 DEF x

LEMMA SendFrameInv ==
  ASSUME BodyInv, stage = "body", SendFrame, UNCHANGED <<stage, content>>
  PROVE  BodyInv'
<1>1. /\ ended = "open" /\ phase = "header" /\ wire = <<>>
      /\ UNCHANGED <<ended, inside, phase, remaining, crlf, out>>
  BY DEF SendFrame
<1>2. CopiedInv /\ Held \in Seq(Payload)
  BY HeldFacts DEF BodyInv
<1>3. Held = <<>>
  BY <1>1, <1>2, ChunkWire DEF BodyInv, WireInv
<1>4. EndedInv'
  BY <1>1 DEF EndedInv
<1>5. ASSUME NEW n \in 1..Len(unsent), wire' = Chunk(SubSeq(unsent, 1, n)),
             unsent' = SubSeq(unsent, n + 1, Len(unsent))
      PROVE  BodyInv'
  <2>1. CopiedInv' /\ Held' = SubSeq(unsent, 1, n) /\ Held' # <<>>
    BY <1>1, <1>2, <1>3, <1>5, CutChunk
  <2>2. WireInv'
    BY <1>1, <1>5, <2>1 DEF WireInv
  <2> QED
    BY <1>4, <2>1, <2>2 DEF BodyInv
<1>6. ASSUME UNCHANGED unsent, wire' \in Odd \/ (unsent = <<>> /\ wire' \in Ends)
      PROVE  BodyInv'
  <2>1. CopiedInv' /\ Held' = Held
    BY <1>1, <1>2, <1>6, CopiedSame DEF Phases
  <2>2. WireInv'
    BY <1>1, <1>3, <1>6, <2>1 DEF WireInv
  <2> QED
    BY <1>4, <2>1, <2>2 DEF BodyInv
<1> QED
  BY <1>5, <1>6 DEF SendFrame

LEMMA EndBodyInv ==
  ASSUME BodyInv, stage = "body", NEW how \in {"eof", "broken"}, EndBody(how),
         UNCHANGED <<stage, content>>
  PROVE  BodyInv'
<1>1. /\ ended = "open" /\ ended' = how /\ wire' = <<>>
      /\ inside' = (how = "eof" /\ wire # <<>> /\ phase \in {"data", "crlf", "plain"})
      /\ UNCHANGED <<unsent, phase, remaining, crlf, out>>
  BY DEF EndBody
<1>2. CopiedInv'
  <2>1. phase' \in Phases
    BY <1>1, PhaseType DEF BodyInv
  <2> QED
    BY <1>1, <2>1, CopiedSame DEF BodyInv
<1>3. WireInv'
  BY <1>1 DEF WireInv
<1>4. EndedInv'
  <2>1. phase \in {"trailer", "eof"} => out = content
    BY <1>1 DEF BodyInv, WireInv
  <2>2. phase = "plain" /\ wire = <<>> => out = content
    BY <1>1, HeldFacts DEF BodyInv, WireInv
  <2>3. phase = "data" => wire # <<>>
    BY <1>1, DataWire DEF BodyInv, WireInv
  <2>4. phase = "crlf" => wire # <<>>
    BY <1>1 DEF BodyInv, WireInv
  <2> QED
    BY <1>1, <2>1, <2>2, <2>3, <2>4 DEF EndedInv
<1> QED
  BY <1>2, <1>3, <1>4 DEF BodyInv

-----------------------------------------------------------------------------
(***************************************************************************)
(* The requests and the store.                                             *)
(***************************************************************************)

\* A copy source is its bucket and its name, slashes and all.
LEMMA ParseCopySourceIs ==
  ASSUME NEW b \in Buckets, NEW k \in Keys
  PROVE  ParseCopySource(b \o <<"/">> \o k) = <<b, k>>
<1>1. PICK w \in Words \ {"/", "%2F"} : b = <<w>> /\ b \in Names
  BY NameFacts
<1>2. k \in Names /\ Len(k) \in Nat /\ \A i \in 1..Len(k) : k[i] \in Words
  BY NameFacts, LenProperties, ElementOfSeq DEF Names
<1> DEFINE p == <<w, "/">>
           q == p \o k
           J == {j \in 1..Len(q) : q[j] = "/"}
<1>3. b \o <<"/">> \o k = q
  BY <1>1, Tuple2
<1>4. p \in Seq(Words) /\ Len(p) = 2 /\ p[1] = w /\ p[2] = "/"
  BY SlashType
<1> HIDE DEF p
<1>5. /\ q \in Seq(Words) /\ Len(q) = 2 + Len(k)
      /\ \A i \in 1..(2 + Len(k)) : q[i] = IF i <= 2 THEN p[i] ELSE k[i - 2]
  <2>1. k \in Seq(Words)
    BY <1>2 DEF Names
  <2>2. /\ q \in Seq(Words) /\ Len(q) = Len(p) + Len(k)
        /\ \A i \in 1..(Len(p) + Len(k)) :
             q[i] = IF i <= Len(p) THEN p[i] ELSE k[i - Len(p)]
    BY <1>4, <2>1, ConcatProperties
  <2> HIDE DEF q
  <2> QED
    BY <1>2, <1>4, <2>2
<1>6. ParseCopySource(q) = <<SubSeq(q, 1, Min(J) - 1), SubSeq(q, Min(J) + 1, Len(q))>>
  BY DEF ParseCopySource
<1> HIDE DEF q
<1>7. q[1] = w /\ q[2] = "/" /\ \A i \in 1..Len(k) : q[i + 2] = k[i]
  BY <1>2, <1>4, <1>5
<1>8. 2 \in J /\ \A j \in J : j \in Int /\ 2 <= j
  BY <1>2, <1>5, <1>7
<1> HIDE DEF J
<1>9. Min(J) = 2
  BY <1>8 DEF Min
<1>10. SubSeq(q, 1, 1) = b
  <2>1. b \in Seq(Words) /\ Len(b) = 1 /\ b[1] = w
    BY <1>1
  <2>2. \A i \in 1..1 : q[i] \in Words
    BY <1>7
  <2>3. \A i \in 1..Len(b) : b[i] = q[1 + i - 1]
    BY <1>7, <2>1
  <2> QED
    BY <2>1, <2>2, <2>3, SubSeqIs, SMTT(40)
<1>11. SubSeq(q, 3, Len(q)) = k
  <2>1. PICK n \in Nat : n = Len(q) /\ n = Len(k) + 2
    BY <1>2, <1>5
  <2>2. \A i \in 3..n : q[i] \in Words
    BY <1>5, <2>1, ElementOfSeq
  <2>3. \A i \in 1..Len(k) : k[i] = q[3 + i - 1]
    BY <1>2, <1>7
  <2>4. n \in Int /\ 3 <= n + 1 /\ Len(k) = n - 3 + 1 /\ k \in Seq(Words)
    BY <1>2, <2>1 DEF Names
  <2>5. SubSeq(q, 3, n) = k
    BY <2>2, <2>3, <2>4, SubSeqIs, SMTT(40)
  <2> QED
    BY <2>1, <2>5
<1>12. Min(J) - 1 = 1 /\ Min(J) + 1 = 3
  BY <1>9
<1>13. ParseCopySource(q) = <<SubSeq(q, 1, 1), SubSeq(q, 3, Len(q))>>
  BY <1>6, <1>12
<1> QED
  BY <1>3, <1>10, <1>11, <1>13

\* The calls that name an object name it in the path.
LEMMA ObjectCalls ==
  ASSUME NEW r \in Meant
  PROVE  /\ r.do \in {"putObject", "deleteObject", "copyObject"} => r.via \in OfObject
         /\ r.bucket \in Buckets /\ r.name \in Keys /\ r.source \in Keys
<1>1. PICK c \in S3Calls \cup GCSCalls :
        /\ r.do = c.do /\ r.via = c.via
        /\ r.bucket \in Buckets /\ r.name \in Keys /\ r.source \in Keys
  BY MeantFacts
<1>2. c.do \in {"putObject", "deleteObject", "copyObject"} => c.via \in OfObject
  BY DEF S3Calls, GCSCalls, Call, OfObject
<1> QED
  BY <1>1, <1>2

\* What a request that is routed faithfully acts on.
LEMMA Routed ==
  ASSUME RoutedInv, stage # "idle", Faithful(req)
  PROVE  /\ req \in Meant
         /\ to = Target(req)
         /\ to.handler = req.do
         /\ to.handler # "listBuckets" => to.bucket = req.bucket
         /\ to.handler \in {"putObject", "deleteObject", "copyObject"} => to.key = req.name
<1>1. req \in Meant /\ to = Target(req)
  BY ServeHTTPIs DEF RoutedInv
<1>2. to.handler = req.do
  BY <1>1 DEF Target, To
<1>3. to.handler # "listBuckets" => to.bucket = req.bucket
  BY <1>1, <1>2 DEF Target, To
<1>4. to.handler \in {"putObject", "deleteObject", "copyObject"} => to.key = req.name
  BY <1>1, <1>2, ObjectCalls DEF Target, To
<1> QED
  BY <1>1, <1>2, <1>3, <1>4

\* An answered request leaves no request and no body.
LEMMA AnswerInv ==
  ASSUME Answer
  PROVE  /\ stage' = "idle"
         /\ RoutedInv' /\ CopiedInv' /\ WireInv' /\ EndedInv'
         /\ exact' => exact /\ Faithful(req) /\ ~inside
BY DEF Answer, RoutedInv, CopiedInv, WireInv, EndedInv

\* An upload and a deletion keep one object per name.
LEMMA PutDrop ==
  ASSUME OnePerName, NEW at, NEW c
  PROVE  /\ objects' = Put(objects, at, c) => OnePerName'
         /\ objects' = Drop(objects, at) => OnePerName'
         /\ objects' = objects => OnePerName'
BY DEF OnePerName, Put, Drop

LEMMA FinishPutInv ==
  ASSUME IndInv, FinishPut
  PROVE  IndInv'
<1>1. /\ stage = "body" /\ phase \in {"eof", "error"} /\ Answer
      /\ objects' = IF phase = "eof" THEN Put(objects, <<to.bucket, to.key>>, out) ELSE objects
      /\ want' = Believed(phase = "eof")
  BY DEF FinishPut
<1>2. OnePerName'
  BY <1>1, PutDrop DEF IndInv
<1>3. ASSUME exact' PROVE objects' = want'
  <2>1. exact /\ Faithful(req) /\ ~inside
    BY <1>1, <1>3, AnswerInv
  <2>2. objects = want
    BY <2>1 DEF IndInv, StoreMatchesClients
  <2>3. to.handler = "putObject"
    BY <1>1 DEF IndInv, RoutedInv
  <2>4. req.do = "putObject" /\ to.bucket = req.bucket /\ to.key = req.name
    BY <1>1, <2>1, <2>3, Routed DEF IndInv
  <2>5. CASE phase = "eof"
    <3>1. out = content
      BY <1>1, <2>1, <2>5 DEF IndInv, WireInv, EndedInv
    <3>2. want' = Put(want, <<req.bucket, req.name>>, content)
      BY <1>1, <2>4, <2>5 DEF Believed
    <3> QED
      BY <1>1, <2>2, <2>4, <2>5, <3>1, <3>2
  <2>6. CASE phase = "error"
    <3>1. want' = want
      BY <1>1, <2>6 DEF Believed
    <3> QED
      BY <1>1, <2>2, <2>6, <3>1
  <2> QED
    BY <1>1, <2>5, <2>6
<1> QED
  BY <1>1, <1>2, <1>3, AnswerInv DEF IndInv, StoreMatchesClients

LEMMA CreateBucketInv ==
  ASSUME IndInv, CreateBucket
  PROVE  IndInv'
<1>1. Answer /\ UNCHANGED <<objects, want>>
  BY DEF CreateBucket
<1> QED
  BY <1>1, AnswerInv, PutDrop DEF IndInv, StoreMatchesClients

LEMMA DeleteBucketInv ==
  ASSUME IndInv, DeleteBucket
  PROVE  IndInv'
<1>1. Answer /\ UNCHANGED <<objects, want>>
  BY DEF DeleteBucket
<1> QED
  BY <1>1, AnswerInv, PutDrop DEF IndInv, StoreMatchesClients

LEMMA OtherInv ==
  ASSUME IndInv, Other
  PROVE  IndInv'
<1>1. Answer /\ UNCHANGED <<objects, want>>
  BY DEF Other, store
<1> QED
  BY <1>1, AnswerInv, PutDrop DEF IndInv, StoreMatchesClients

\* A deletion, acknowledged or not, of the name that the client gave.
LEMMA DeleteInv ==
  ASSUME IndInv, NEW at, NEW ok \in BOOLEAN, Delete(at, ok),
         Faithful(req) => /\ req.do \in {"deleteObject", "deleteObjects"}
                          /\ at = <<req.bucket, req.name>>
  PROVE  IndInv'
<1>1. /\ Answer
      /\ objects' = IF ok THEN Drop(objects, at) ELSE objects
      /\ want' = Believed(ok)
  BY DEF Delete
<1>2. OnePerName'
  BY <1>1, PutDrop DEF IndInv
<1>3. ASSUME exact' PROVE objects' = want'
  <2>1. exact /\ Faithful(req)
    BY <1>1, <1>3, AnswerInv
  <2>2. objects = want
    BY <2>1 DEF IndInv, StoreMatchesClients
  <2>3. want' = IF ok THEN Drop(want, at) ELSE want
    BY <1>1, <2>1 DEF Believed
  <2> QED
    BY <1>1, <2>2, <2>3
<1> QED
  BY <1>1, <1>2, <1>3, AnswerInv DEF IndInv, StoreMatchesClients

LEMMA DeleteObjectInv ==
  ASSUME IndInv, DeleteObject
  PROVE  IndInv'
<1> DEFINE ok == /\ to.bucket \in buckets
                 /\ req.api = "s3" \/ Named(to.bucket, to.key) # {}
<1>1. stage = "act" /\ to.handler = "deleteObject" /\ Delete(<<to.bucket, to.key>>, ok)
  BY DEF DeleteObject
<1>2. Faithful(req) => req.do = "deleteObject" /\ to.bucket = req.bucket /\ to.key = req.name
  BY <1>1, Routed DEF IndInv
<1>3. ok \in BOOLEAN
  OBVIOUS
<1> HIDE DEF ok
<1> QED
  BY <1>1, <1>2, <1>3, DeleteInv

LEMMA DeleteObjectsInv ==
  ASSUME IndInv, DeleteObjects
  PROVE  IndInv'
<1> DEFINE ok == to.bucket \in buckets
<1>1. stage = "act" /\ to.handler = "deleteObjects" /\ Delete(<<to.bucket, req.name>>, ok)
  BY DEF DeleteObjects
<1>2. Faithful(req) => req.do = "deleteObjects" /\ to.bucket = req.bucket
  BY <1>1, Routed DEF IndInv
<1>3. ok \in BOOLEAN
  OBVIOUS
<1> HIDE DEF ok
<1> QED
  BY <1>1, <1>2, <1>3, DeleteInv

\* The source of a copy is one object, so its content is one content.
LEMMA CopyObjectInv ==
  ASSUME IndInv, CopyObject
  PROVE  IndInv'
<1> DEFINE src == ParseCopySource(req.bucket \o <<"/">> \o req.source)
           from == Named(src[1], src[2])
           ok == from # {} /\ to.bucket \in buckets
           o == CHOOSE p \in from : TRUE
<1>1. /\ stage = "act" /\ to.handler = "copyObject" /\ Answer
      /\ objects' = IF ok THEN Put(objects, <<to.bucket, to.key>>, o.content) ELSE objects
      /\ want' = Believed(ok)
  BY DEF CopyObject
<1>2. OnePerName'
  BY <1>1, PutDrop DEF IndInv
<1>3. ASSUME exact' PROVE objects' = want'
  <2>1. exact /\ Faithful(req)
    BY <1>1, <1>3, AnswerInv
  <2>2. objects = want
    BY <2>1 DEF IndInv, StoreMatchesClients
  <2>3. /\ req \in Meant /\ req.do = "copyObject"
        /\ to.bucket = req.bucket /\ to.key = req.name
    BY <1>1, <2>1, Routed DEF IndInv
  <2>4. src = <<req.bucket, req.source>>
    BY <2>3, ObjectCalls, ParseCopySourceIs
  <2>5. from = {p \in want : p.at = <<req.bucket, req.source>>}
    BY <2>2, <2>4 DEF Named
  <2>6. \A p, q \in from : p = q
    BY <2>5, <2>2 DEF IndInv, OnePerName
  <2>7. want' = IF ok THEN UNION {Put(want, <<req.bucket, req.name>>, p.content) : p \in from}
                      ELSE want
    BY <1>1, <2>3, <2>5 DEF Believed
  <2> HIDE DEF src, from
  <2>8. CASE ok
    <3>1. o \in from
      BY <2>8
    <3> HIDE DEF o
    <3>2. UNION {Put(want, <<req.bucket, req.name>>, p.content) : p \in from}
            = Put(want, <<req.bucket, req.name>>, o.content)
      BY <2>6, <3>1
    <3> QED
      BY <1>1, <2>2, <2>3, <2>7, <2>8, <3>2
  <2>9. CASE ~ok
    BY <1>1, <2>2, <2>7, <2>9
  <2> QED
    BY <2>8, <2>9
<1> QED
  BY <1>1, <1>2, <1>3, AnswerInv DEF IndInv, StoreMatchesClients

-----------------------------------------------------------------------------
(***************************************************************************)
(* The invariant, and what follows from it.                                *)
(***************************************************************************)

\* A content is a sequence of bytes of the payload.
LEMMA BytesType ==
  ASSUME NEW c \in Contents
  PROVE  Bytes(c) \in Seq(Payload)
<1>1. Len(c) \in Nat
  BY FrontendAssumption
<1>2. \A i \in 1..Len(c) : Byte(c[i]) \in Payload
  BY DEF Payload
<1>3. Bytes(c) \in [1..Len(c) -> Payload]
  BY <1>2 DEF Bytes
<1> QED
  BY <1>1, <1>3, SeqDef

\* At first nothing is copied, and all of it is on the wire or unsent.
LEMMA RequestBodyInv ==
  ASSUME NEW c \in Contents, NEW streaming \in BOOLEAN,
         stage' = "body", content' = Bytes(c), RequestBody(Bytes(c), streaming)
  PROVE  BodyInv'
<1> DEFINE x == Bytes(c)
<1>1. x \in Seq(Payload) /\ Len(x) \in Nat /\ \A i \in 1..Len(x) : x[i] \in Payload
  BY BytesType, LenProperties, ElementOfSeq
<1>2. /\ content' = x /\ out' = <<>> /\ ended' = "open"
      /\ wire' = IF streaming THEN <<>> ELSE x
      /\ unsent' = IF streaming THEN x ELSE <<>>
      /\ phase' = IF streaming THEN "header" ELSE "plain"
  BY DEF RequestBody
<1> HIDE DEF x
<1>3. /\ <<>> \in Seq(Payload) /\ Len(<<>>) = 0 /\ Len(out') = 0
      /\ \A n \in Int : SubSeq(x, n + 1, n) = <<>>
  <2>1. Len(<<>>) = 0 /\ <<>> \in Seq(Payload) /\ Len(out') = 0
    BY <1>2, EmptySeq
  <2>2. ASSUME NEW n \in Int PROVE SubSeq(x, n + 1, n) = <<>>
    <3>1. n + 1 \in Int /\ n + 1 <= n + 1 /\ Len(<<>>) = n - (n + 1) + 1
      BY <2>1
    <3>2. \A i \in (n + 1)..n : x[i] \in Payload
      OBVIOUS
    <3>3. \A i \in 1..Len(<<>>) : <<>>[i] = x[(n + 1) + i - 1]
      BY <2>1
    <3> QED
      BY <2>1, <3>1, <3>2, <3>3, SubSeqIs, SMTT(40)
  <2> QED
    BY <2>1, <2>2
<1>4. SubSeq(x, 1, Len(x)) = x
  BY <1>1, SubSeqFull
<1>5. CASE streaming
  <2>1. unsent' = x /\ wire' = <<>> /\ phase' = "header"
    BY <1>2, <1>5
  <2>2. Len(content') - Len(unsent') = 0 /\ Len(unsent') = Len(x)
    BY <1>1, <1>2, <2>1
  <2>3. SubSeq(x, 1, 0) = <<>>
    BY <1>3
  <2>4. Held' = <<>>
    <3>1. Len(out') + 1 = 1
      BY <1>3
    <3> QED
      BY <1>2, <2>2, <2>3, <3>1 DEF Held
  <2>5. unsent' = SubSeq(content', Len(content') - Len(unsent') + 1, Len(content'))
    <3>1. Len(content') - Len(unsent') + 1 = 1
      BY <2>2
    <3> QED
      BY <1>2, <1>4, <2>1, <3>1
  <2>6. out' = SubSeq(content', 1, Len(out'))
    BY <1>2, <1>3, <2>3
  <2>7. Len(out') + Len(unsent') <= Len(content')
    BY <1>1, <1>2, <1>3, <2>1
  <2>8. CopiedInv'
    BY <1>1, <1>2, <1>3, <2>1, <2>5, <2>6, <2>7 DEF CopiedInv
  <2>9. WireInv'
    BY <2>1, <2>4 DEF WireInv
  <2>10. EndedInv'
    BY <1>2 DEF EndedInv
  <2> QED
    BY <2>8, <2>9, <2>10 DEF BodyInv
<1>6. CASE ~streaming
  <2>1. unsent' = <<>> /\ wire' = x /\ phase' = "plain"
    BY <1>2, <1>6
  <2>2. Len(content') - Len(unsent') = Len(x) /\ Len(unsent') = 0
    BY <1>1, <1>2, <1>3, <2>1
  <2>3. SubSeq(x, 1, 0) = <<>> /\ SubSeq(x, Len(x) + 1, Len(x)) = <<>>
    BY <1>1, <1>3
  <2>4. Held' = x
    <3>1. Len(out') + 1 = 1
      BY <1>3
    <3> QED
      BY <1>2, <1>4, <2>2, <3>1 DEF Held
  <2>5. unsent' = SubSeq(content', Len(content') - Len(unsent') + 1, Len(content'))
    BY <1>2, <2>1, <2>2, <2>3
  <2>6. out' = SubSeq(content', 1, Len(out'))
    BY <1>2, <1>3, <2>3
  <2>7. Len(out') + Len(unsent') <= Len(content')
    BY <1>1, <1>2, <1>3, <2>2
  <2>8. CopiedInv'
    BY <1>1, <1>2, <1>3, <2>1, <2>5, <2>6, <2>7 DEF CopiedInv
  <2>9. WireInv'
    BY <2>1, <2>4 DEF WireInv
  <2>10. EndedInv'
    BY <1>2 DEF EndedInv
  <2> QED
    BY <2>8, <2>9, <2>10 DEF BodyInv
<1> QED
  BY <1>5, <1>6

LEMMA SendInv ==
  ASSUME IndInv, NEW r \in Meant, Send(r)
  PROVE  IndInv'
<1>1. /\ req' = r /\ to' = ServeHTTP(r) /\ UNCHANGED <<objects, want, exact>>
      /\ stage' \in {"body", "act"}
      /\ stage' = "body" => to'.handler = "putObject"
  BY DEF Send, store
<1>2. RoutedInv'
  <2>1. to' = ServeHTTP(req')
    BY <1>1 DEF ServeHTTP, S3ServeHTTP, GCSServeHTTP
  <2> QED
    BY <1>1, <2>1 DEF RoutedInv
<1>3. OnePerName' /\ StoreMatchesClients'
  BY <1>1 DEF IndInv, OnePerName, StoreMatchesClients
<1>4. BodyInv'
  <2>1. CASE stage' = "body"
    <3>1. PICK c \in Contents :
            /\ content' = Bytes(c)
            /\ RequestBody(Bytes(c), FALSE) \/ RequestBody(Bytes(c), TRUE)
      BY <2>1 DEF Send
    <3> QED
      BY <2>1, <3>1, RequestBodyInv
  <2>2. CASE stage' # "body"
    BY <2>2 DEF BodyInv, CopiedInv, WireInv, EndedInv
  <2> QED
    BY <2>1, <2>2
<1> QED
  BY <1>2, <1>3, <1>4 DEF IndInv, BodyInv

\* A step of the body leaves the request and the store alone.
LEMMA BodyStepInv ==
  ASSUME IndInv, UNCHANGED Outside, BodyInv'
  PROVE  IndInv'
<1>1. UNCHANGED <<stage, req, to, objects, want, exact>>
  BY DEF Outside, store
<1>2. RoutedInv'
  <2>1. ServeHTTP(req)' = ServeHTTP(req)
    BY <1>1 DEF ServeHTTP
  <2> QED
    BY <1>1, <2>1 DEF IndInv, RoutedInv
<1>3. OnePerName' /\ StoreMatchesClients'
  BY <1>1 DEF IndInv, OnePerName, StoreMatchesClients
<1> QED
  BY <1>2, <1>3 DEF IndInv, BodyInv

\* The invariant holds at first.
LEMMA InitIndInv == Init => IndInv
<1> SUFFICES ASSUME Init PROVE IndInv
  OBVIOUS
<1>1. stage = "idle" /\ objects = {} /\ want = {}
  BY DEF Init
<1> QED
  BY <1>1 DEF IndInv, RoutedInv, CopiedInv, WireInv, EndedInv, OnePerName, StoreMatchesClients

\* Every step keeps the invariant.
LEMMA NextIndInv == IndInv /\ [Next]_vars => IndInv'
<1> SUFFICES ASSUME IndInv, [Next]_vars PROVE IndInv'
  OBVIOUS
<1>0. BodyInv
  BY DEF IndInv, BodyInv
<1>1. ASSUME NEW r \in Meant, Send(r) PROVE IndInv'
  BY <1>1, SendInv
<1>2. CASE FinishPut
  BY <1>2, FinishPutInv
<1>3. CASE CopyObject
  BY <1>3, CopyObjectInv
<1>4. CASE Other
  BY <1>4, OtherInv
<1>5. CASE CreateBucket
  BY <1>5, CreateBucketInv
<1>6. CASE DeleteBucket
  BY <1>6, DeleteBucketInv
<1>7. CASE DeleteObject
  BY <1>7, DeleteObjectInv
<1>8. CASE DeleteObjects
  BY <1>8, DeleteObjectsInv
<1>9. CASE stage = "body" /\ Read /\ UNCHANGED Outside
  <2>1. UNCHANGED <<stage, content>>
    BY <1>9 DEF Outside
  <2> QED
    BY <1>0, <1>9, <2>1, ReadInv, BodyStepInv
<1>10. CASE stage = "body" /\ SendFrame /\ UNCHANGED Outside
  <2>1. UNCHANGED <<stage, content>>
    BY <1>10 DEF Outside
  <2> QED
    BY <1>0, <1>10, <2>1, SendFrameInv, BodyStepInv
<1>11. ASSUME stage = "body", NEW how \in {"eof", "broken"}, EndBody(how), UNCHANGED Outside
       PROVE  IndInv'
  <2>1. UNCHANGED <<stage, content>>
    BY <1>11 DEF Outside
  <2> QED
    BY <1>0, <1>11, <2>1, EndBodyInv, BodyStepInv
<1>12. CASE UNCHANGED vars
  <2>1. UNCHANGED Outside /\ UNCHANGED <<wire, unsent, ended, inside, phase, remaining, crlf, out>>
    BY <1>12 DEF vars, Outside, body
  <2>2. UNCHANGED <<stage, content>>
    BY <2>1 DEF Outside
  <2>3. Held' = Held
    BY <2>1, <2>2 DEF Held
  <2>4. BodyInv'
    BY <1>0, <2>1, <2>2, <2>3 DEF BodyInv, CopiedInv, WireInv, EndedInv
  <2> QED
    BY <2>1, <2>4, BodyStepInv
<1> QED
  BY <1>1, <1>2, <1>3, <1>4, <1>5, <1>6, <1>7, <1>8, <1>9, <1>10, <1>11, <1>12 DEF Next, Act

\* The inductive invariant of the front end, for any names, contents and
\* chunks: a request is routed as it is meant, and what awsChunkedReader has
\* copied, what is on the wire and what the client has still to send are the
\* content, in this order.
THEOREM FrontendInvariant == Spec => []IndInv
<1>1. Init => IndInv
  BY InitIndInv
<1>2. IndInv /\ [Next]_vars => IndInv'
  BY NextIndInv
<1> QED
  BY <1>1, <1>2, PTL DEF Spec

\* ServeHTTP of either API finds the handler that the client means, with the
\* bucket and the name it means: no escaping, no "/" in a name and no order of
\* the switches loses them, for any name that the path carries faithfully.
THEOREM RequestsActAsNamed == Spec => []ActsAsNamed
<1>1. IndInv => ActsAsNamed
  <2> SUFFICES ASSUME IndInv, stage # "idle", Faithful(req)
               PROVE  to = Target(req)
    BY DEF ActsAsNamed, Target
  <2> QED
    BY Routed DEF IndInv
<1> QED
  BY <1>1, FrontendInvariant, PTL

\* Whatever requests the two APIs serve, one after the other, the store holds
\* what the answers made the clients believe: an upload that is acknowledged is
\* complete, and one that is refused left nothing behind.  This is for names
\* that the path keeps, and for bodies that end or break anywhere but cleanly
\* inside a chunk.
THEOREM StoreHoldsWhatClientsBelieve == Spec => []StoreMatchesClients
<1>1. IndInv => StoreMatchesClients
  BY DEF IndInv
<1> QED
  BY <1>1, FrontendInvariant, PTL

=============================================================================
