--------------------------- MODULE ListingProofs ---------------------------
(***************************************************************************)
(* Proofs about Listing, for any names, walks, page and batch sizes, and   *)
(* any uploads and deletes by other clients.                               *)
(***************************************************************************)
EXTENDS Listing, SequenceTheorems, FiniteSetTheorems, WellFoundedInduction, TLAPS

-----------------------------------------------------------------------------
(***************************************************************************)
(* The order of byte strings.                                              *)
(***************************************************************************)

Strings == Seq(Byte)

\* A set of numbers has a least one.
LEMMA LeastNumber ==
  ASSUME NEW T \in SUBSET Nat, T # {}
  PROVE  \E x \in T : \A y \in T : x <= y
<1> DEFINE R == {ss \in Nat \X Nat : ss[1] < ss[2]}
<1>1. IsWellFoundedOn(R, Nat)
  BY NatLessThanWellFounded DEF OpToRel
<1>2. \A x, y \in Nat : y < x => <<y, x>> \in R
  OBVIOUS
<1> HIDE DEF R
<1>3. PICK x \in T : \A y \in T : <<y, x>> \notin R
  BY <1>1, WFMin
<1>4. \A y \in T : ~(y < x)
  BY <1>2, <1>3
<1> QED
  BY <1>4

\* A string is a function on its positions.
LEMMA StringType ==
  ASSUME NEW s \in Strings
  PROVE  /\ Len(s) \in Nat
         /\ \A i \in 1..Len(s) : s[i] \in Nat /\ s[i] <= 255
<1>1. Len(s) \in Nat
  BY LenProperties DEF Strings
<1>2. ASSUME NEW i \in 1..Len(s)
      PROVE  s[i] \in Nat /\ s[i] <= 255
  <2>1. s[i] \in Byte
    BY ElementOfSeq DEF Strings
  <2>2. \A b \in Byte : b \in Nat /\ b <= 255
    BY DEF Byte
  <2> QED
    BY <2>1, <2>2
<1> QED
  BY <1>1, <1>2

\* Two strings are equal if they agree everywhere.
LEMMA StringEqual ==
  ASSUME NEW s \in Strings, NEW t \in Strings,
         Len(s) = Len(t), \A i \in 1..Len(s) : s[i] = t[i]
  PROVE  s = t
BY SeqEqual DEF Strings

\* The first n bytes of a string.
LEMMA StringStart ==
  ASSUME NEW s \in Strings, NEW n \in Nat, n <= Len(s)
  PROVE  /\ SubSeq(s, 1, n) \in Strings
         /\ Len(SubSeq(s, 1, n)) = n
         /\ \A i \in 1..n : SubSeq(s, 1, n)[i] = s[i]
<1>0. Len(s) \in Nat
  BY StringType
<1>1. \A i \in 1..n : s[i] \in Byte
  BY <1>0, ElementOfSeq DEF Strings
<1>2. /\ SubSeq(s, 1, n) \in Seq(Byte)
      /\ Len(SubSeq(s, 1, n)) = IF 1 <= n THEN n - 1 + 1 ELSE 0
      /\ \A i \in 1..(n - 1 + 1) : SubSeq(s, 1, n)[i] = s[1 + i - 1]
  BY <1>1, SubSeqProperties
<1>3. n - 1 + 1 = n /\ \A i \in 1..n : 1 + i - 1 = i
  OBVIOUS
<1> QED
  BY <1>2, <1>3 DEF Strings

\* Two strings start alike if they agree there.
LEMMA SameStart ==
  ASSUME NEW s \in Strings, NEW t \in Strings, NEW n \in Nat,
         n <= Len(s), n <= Len(t)
  PROVE  SubSeq(s, 1, n) = SubSeq(t, 1, n) <=> \A i \in 1..n : s[i] = t[i]
<1>1. /\ SubSeq(s, 1, n) \in Strings
      /\ Len(SubSeq(s, 1, n)) = n
      /\ \A i \in 1..n : SubSeq(s, 1, n)[i] = s[i]
  BY StringStart
<1>2. /\ SubSeq(t, 1, n) \in Strings
      /\ Len(SubSeq(t, 1, n)) = n
      /\ \A i \in 1..n : SubSeq(t, 1, n)[i] = t[i]
  BY StringStart
<1> QED
  BY <1>1, <1>2, StringEqual

\* IsPrefix, byte by byte.
LEMMA PrefixBytes ==
  ASSUME NEW s \in Strings, NEW t \in Strings
  PROVE  IsPrefix(s, t) <=> /\ Len(s) <= Len(t)
                            /\ \A i \in 1..Len(s) : s[i] = t[i]
<1>1. Len(s) \in Nat /\ Len(t) \in Nat
  BY StringType
<1> QED
  BY <1>1, SameStart DEF IsPrefix

\* The strings agree up to position k, where s ends or has the smaller byte.
LessAt(s, t, k) ==
  /\ k <= Len(s)
  /\ k < Len(t)
  /\ \A i \in 1..k : s[i] = t[i]
  /\ k = Len(s) \/ s[k + 1] < t[k + 1]

\* Less, by the first position where the strings differ.
LEMMA LessIsLessAt ==
  ASSUME NEW s \in Strings, NEW t \in Strings
  PROVE  Less(s, t) <=> \E k \in Nat : LessAt(s, t, k)
<1>1. Len(s) \in Nat /\ Len(t) \in Nat
  BY StringType
<1>2. ASSUME s # t, IsPrefix(s, t)
      PROVE  LessAt(s, t, Len(s))
  <2>1. /\ Len(s) <= Len(t)
        /\ \A i \in 1..Len(s) : s[i] = t[i]
    BY <1>2, PrefixBytes
  <2>2. Len(s) # Len(t)
    BY <1>2, <2>1, StringEqual
  <2> QED
    BY <1>1, <2>1, <2>2 DEF LessAt
<1>3. ASSUME NEW i \in 1..Len(s), i <= Len(t), s[i] < t[i],
             SubSeq(s, 1, i - 1) = SubSeq(t, 1, i - 1)
      PROVE  LessAt(s, t, i - 1)
  <2>1. \A j \in 1..(i - 1) : s[j] = t[j]
    BY <1>1, <1>3, SameStart
  <2> QED
    BY <1>1, <1>3, <2>1 DEF LessAt
<1>4. ASSUME NEW k \in Nat, LessAt(s, t, k)
      PROVE  Less(s, t)
  <2>1. CASE k = Len(s)
    BY <1>1, <1>4, <2>1, PrefixBytes DEF LessAt, Less
  <2>2. CASE k # Len(s)
    <3>1. k + 1 \in 1..Len(s) /\ k + 1 <= Len(t) /\ s[k + 1] < t[k + 1]
      BY <1>1, <1>4, <2>2 DEF LessAt
    <3>2. SubSeq(s, 1, k) = SubSeq(t, 1, k)
      BY <1>1, <1>4, SameStart DEF LessAt
    <3>3. k = (k + 1) - 1
      OBVIOUS
    <3> QED
      BY <3>1, <3>2, <3>3 DEF Less
  <2> QED
    BY <2>1, <2>2
<1>5. ASSUME Less(s, t)
      PROVE  \E k \in Nat : LessAt(s, t, k)
  <2>1. CASE s # t /\ IsPrefix(s, t)
    BY <1>1, <1>2, <2>1
  <2>2. CASE \E i \in 1..Len(s) : /\ i <= Len(t)
                                  /\ s[i] < t[i]
                                  /\ SubSeq(s, 1, i - 1) = SubSeq(t, 1, i - 1)
    <3>1. PICK i \in 1..Len(s) : /\ i <= Len(t)
                                 /\ s[i] < t[i]
                                 /\ SubSeq(s, 1, i - 1) = SubSeq(t, 1, i - 1)
      BY <2>2
    <3>2. i - 1 \in Nat
      BY <1>1
    <3> QED
      BY <1>3, <3>1, <3>2
  <2> QED
    BY <1>5, <2>1, <2>2 DEF Less
<1> QED
  BY <1>4, <1>5

\* No string is below itself.
LEMMA LessIrreflexive ==
  ASSUME NEW s \in Strings
  PROVE  ~Less(s, s)
<1>1. Len(s) \in Nat /\ \A i \in 1..Len(s) : s[i] \in Nat
  BY StringType
<1>2. ASSUME NEW k \in Nat, LessAt(s, s, k)
      PROVE  FALSE
  BY <1>1, <1>2 DEF LessAt
<1> QED
  BY <1>2, LessIsLessAt

\* The order is transitive.
LEMMA LessTransitive ==
  ASSUME NEW s \in Strings, NEW t \in Strings, NEW u \in Strings,
         Less(s, t), Less(t, u)
  PROVE  Less(s, u)
<1>1. /\ Len(s) \in Nat /\ \A i \in 1..Len(s) : s[i] \in Nat
      /\ Len(t) \in Nat /\ \A i \in 1..Len(t) : t[i] \in Nat
      /\ Len(u) \in Nat /\ \A i \in 1..Len(u) : u[i] \in Nat
  BY StringType
<1>2. PICK k \in Nat : LessAt(s, t, k)
  BY LessIsLessAt
<1>3. PICK m \in Nat : LessAt(t, u, m)
  BY LessIsLessAt
<1>4. CASE k <= m
  <2>1. /\ k <= Len(s) /\ k < Len(u)
        /\ \A i \in 1..k : s[i] = u[i]
    BY <1>1, <1>2, <1>3, <1>4 DEF LessAt
  <2>2. k = Len(s) \/ s[k + 1] < u[k + 1]
    <3>1. CASE k < m
      BY <1>1, <1>2, <1>3, <3>1 DEF LessAt
    <3>2. CASE k = m
      BY <1>1, <1>2, <1>3, <3>2 DEF LessAt
    <3> QED
      BY <1>4, <3>1, <3>2
  <2>3. LessAt(s, u, k)
    BY <2>1, <2>2 DEF LessAt
  <2> QED
    BY <2>3, LessIsLessAt
<1>5. CASE m < k
  <2>1. /\ m < Len(s) /\ m < Len(u)
        /\ \A i \in 1..m : s[i] = u[i]
        /\ s[m + 1] = t[m + 1]
    BY <1>1, <1>2, <1>3, <1>5 DEF LessAt
  <2>2. t[m + 1] < u[m + 1]
    BY <1>1, <1>2, <1>3, <1>5 DEF LessAt
  <2>3. LessAt(s, u, m)
    BY <1>1, <2>1, <2>2 DEF LessAt
  <2> QED
    BY <2>3, LessIsLessAt
<1> QED
  BY <1>4, <1>5

\* Of two different strings one is below the other.
LEMMA LessTotal ==
  ASSUME NEW s \in Strings, NEW t \in Strings
  PROVE  s = t \/ Less(s, t) \/ Less(t, s)
<1>1. /\ Len(s) \in Nat /\ \A i \in 1..Len(s) : s[i] \in Nat
      /\ Len(t) \in Nat /\ \A i \in 1..Len(t) : t[i] \in Nat
  BY StringType
<1> DEFINE D == {i \in Nat : i \in 1..Len(s) /\ i <= Len(t) /\ s[i] # t[i]}
<1>2. CASE D = {}
  <2>1. CASE Len(s) = Len(t)
    BY <1>1, <1>2, <2>1, StringEqual
  <2>2. CASE Len(s) < Len(t)
    <3>1. LessAt(s, t, Len(s))
      BY <1>1, <1>2, <2>2 DEF LessAt
    <3> QED
      BY <1>1, <3>1, LessIsLessAt
  <2>3. CASE Len(t) < Len(s)
    <3>1. LessAt(t, s, Len(t))
      BY <1>1, <1>2, <2>3 DEF LessAt
    <3> QED
      BY <1>1, <3>1, LessIsLessAt
  <2> QED
    BY <1>1, <2>1, <2>2, <2>3
<1>3. CASE D # {}
  <2>1. PICK x \in D : \A y \in D : x <= y
    BY <1>3, LeastNumber
  <2>2. /\ x - 1 \in Nat /\ x - 1 < Len(s) /\ x - 1 < Len(t)
        /\ \A i \in 1..(x - 1) : s[i] = t[i]
        /\ x = (x - 1) + 1
    BY <1>1, <2>1
  <2>3. CASE s[x] < t[x]
    <3>1. LessAt(s, t, x - 1)
      BY <1>1, <2>2, <2>3 DEF LessAt
    <3> QED
      BY <2>2, <3>1, LessIsLessAt
  <2>4. CASE t[x] < s[x]
    <3>1. LessAt(t, s, x - 1)
      BY <1>1, <2>2, <2>4 DEF LessAt
    <3> QED
      BY <2>2, <3>1, LessIsLessAt
  <2> QED
    BY <1>1, <2>1, <2>3, <2>4
<1> QED
  BY <1>2, <1>3

\* The order is asymmetric.
LEMMA LessAsymmetric ==
  ASSUME NEW s \in Strings, NEW t \in Strings, Less(s, t)
  PROVE  ~Less(t, s)
BY LessTransitive, LessIrreflexive

\* A string that is not below another is above what is below that one.
LEMMA NotBelow ==
  ASSUME NEW s \in Strings, NEW t \in Strings, NEW u \in Strings,
         Less(s, t), ~Less(u, t)
  PROVE  Less(s, u)
BY LessTransitive, LessTotal

\* What is not below a string is not below what is below it, and what is below
\* the other is below it.
LEMMA NotAbove ==
  ASSUME NEW s \in Strings, NEW t \in Strings, NEW u \in Strings,
         ~Less(t, s), Less(t, u)
  PROVE  Less(s, u)
BY LessTransitive, LessTotal

\* The order without strictness is transitive.
LEMMA NotLessTransitive ==
  ASSUME NEW s \in Strings, NEW t \in Strings, NEW u \in Strings,
         ~Less(t, s), ~Less(u, t)
  PROVE  ~Less(u, s)
BY LessTransitive, LessTotal

\* The empty string.
LEMMA EmptyString == <<>> \in Strings
BY EmptySeq DEF Strings

\* The empty string is below every other.
LEMMA EmptyLeast ==
  ASSUME NEW s \in Strings
  PROVE  /\ <<>> \in Strings
         /\ ~Less(s, <<>>)
         /\ s # <<>> => Less(<<>>, s)
<1>1. <<>> \in Strings /\ Len(<<>>) = 0
  BY EmptySeq DEF Strings
<1>2. Len(s) \in Nat
  BY StringType
<1>3. \A k \in Nat : ~LessAt(s, <<>>, k)
  BY <1>1, <1>2 DEF LessAt
<1>4. s # <<>> => LessAt(<<>>, s, 0)
  <2>1. s # <<>> => Len(s) # 0
    BY EmptySeq DEF Strings
  <2> QED
    BY <1>1, <1>2, <2>1 DEF LessAt
<1> QED
  BY <1>1, <1>3, <1>4, LessIsLessAt

\* A prefix is not above, and prefixes of one string are prefixes of each other.
LEMMA PrefixNotAbove ==
  ASSUME NEW p \in Strings, NEW n \in Strings, IsPrefix(p, n)
  PROVE  ~Less(n, p)
<1>1. p # n => Less(p, n)
  BY DEF Less
<1> QED
  BY <1>1, LessAsymmetric, LessIrreflexive

\* Two strings one after the other.
LEMMA ConcatBytes ==
  ASSUME NEW s \in Strings, NEW t \in Strings
  PROVE  /\ s \o t \in Strings
         /\ Len(s \o t) = Len(s) + Len(t)
         /\ \A i \in 1..Len(s) : (s \o t)[i] = s[i]
         /\ \A i \in 1..Len(t) : (s \o t)[Len(s) + i] = t[i]
<1>1. Len(s) \in Nat /\ Len(t) \in Nat
  BY StringType
<1>2. /\ s \o t \in Seq(Byte)
      /\ Len(s \o t) = Len(s) + Len(t)
      /\ \A i \in 1 .. Len(s) + Len(t) : (s \o t)[i] =
                     IF i <= Len(s) THEN s[i] ELSE t[i - Len(s)]
  BY ConcatProperties DEF Strings
<1>3. ASSUME NEW i \in 1..Len(t)
      PROVE  (s \o t)[Len(s) + i] = t[i]
  <2>1. Len(s) + i \in 1 .. Len(s) + Len(t) /\ ~(Len(s) + i <= Len(s))
        /\ (Len(s) + i) - Len(s) = i
    BY <1>1
  <2> QED
    BY <1>2, <2>1
<1>4. ASSUME NEW i \in 1..Len(s)
      PROVE  (s \o t)[i] = s[i]
  BY <1>1, <1>2
<1> QED
  BY <1>2, <1>3, <1>4 DEF Strings

\* A string of one byte.
LEMMA OneByte ==
  ASSUME NEW b \in Byte
  PROVE  <<b>> \in Strings /\ Len(<<b>>) = 1 /\ <<b>>[1] = b
BY DEF Strings

\* After(n) is the least string above n.
LEMMA AfterLeast ==
  ASSUME NEW n \in Strings
  PROVE  /\ After(n) \in Strings
         /\ After(n) # <<>>
         /\ Less(n, After(n))
         /\ \A m \in Strings : Less(n, m) <=> ~Less(m, After(n))
<1>1. 0 \in Byte
  BY DEF Byte
<1>2. Len(n) \in Nat
  BY StringType
<1>3. /\ After(n) \in Strings
      /\ Len(After(n)) = Len(n) + 1
      /\ \A i \in 1..Len(n) : After(n)[i] = n[i]
      /\ After(n)[Len(n) + 1] = 0
  BY <1>1, OneByte, ConcatBytes DEF After
<1>4. Less(n, After(n))
  <2>1. LessAt(n, After(n), Len(n))
    BY <1>2, <1>3 DEF LessAt
  <2> QED
    BY <1>2, <1>3, <2>1, LessIsLessAt
<1>5. ASSUME NEW m \in Strings, Less(n, m)
      PROVE  ~Less(m, After(n))
  <2>1. PICK k \in Nat : LessAt(n, m, k)
    BY <1>5, LessIsLessAt
  <2>2. Len(m) \in Nat /\ \A i \in 1..Len(m) : m[i] \in Nat
    BY StringType
  <2>3. CASE k < Len(n) \/ m[k + 1] # 0
    <3>1. LessAt(After(n), m, k)
      BY <1>2, <1>3, <2>1, <2>2, <2>3 DEF LessAt
    <3> QED
      BY <1>3, <3>1, LessIsLessAt, LessAsymmetric
  <2>4. CASE k = Len(n) /\ m[k + 1] = 0
    <3>1. /\ Len(After(n)) <= Len(m)
          /\ \A i \in 1..Len(After(n)) : After(n)[i] = m[i]
      BY <1>2, <1>3, <2>1, <2>2, <2>4 DEF LessAt
    <3> QED
      BY <1>3, <3>1, PrefixBytes, PrefixNotAbove
  <2> QED
    BY <1>2, <2>1, <2>3, <2>4 DEF LessAt
<1>6. ASSUME NEW m \in Strings, ~Less(m, After(n))
      PROVE  Less(n, m)
  BY <1>3, <1>4, <1>6, NotBelow
<1>7. After(n) # <<>>
  BY <1>3, <1>4, EmptyLeast
<1> QED
  BY <1>3, <1>4, <1>5, <1>6, <1>7

-----------------------------------------------------------------------------
(***************************************************************************)
(* The upper bound of the names with a prefix.                             *)
(***************************************************************************)

\* A set of positions has a last one.
LEMMA LastPosition ==
  ASSUME NEW m \in Nat, NEW T \in SUBSET (1..m), T # {}
  PROVE  Max(T) \in T /\ \A y \in T : Max(T) >= y
<1> DEFINE U == {u \in Nat : m - u \in T}
<1>1. \A x \in T : m - x \in U
  <2>1. \A x \in T : x \in 1..m
    OBVIOUS
  <2>2. \A x \in 1..m : m - x \in Nat /\ m - (m - x) = x
    OBVIOUS
  <2> QED
    BY <2>1, <2>2
<1>2. PICK u \in U : \A y \in U : u <= y
  BY <1>1, LeastNumber
<1>3. m - u \in T
  OBVIOUS
<1>4. ASSUME NEW y \in T
      PROVE  m - u >= y
  <2>1. u <= m - y
    BY <1>1, <1>2
  <2>2. y \in 1..m /\ u \in Nat
    OBVIOUS
  <2> QED
    BY <2>1, <2>2
<1> QED
  BY <1>3, <1>4 DEF Max

\* The UTF-8 encoding of a byte's successor: the byte itself for ASCII, else two
\* bytes, of which the first is at least 194.
LEMMA RuneBytes ==
  ASSUME NEW b \in 1..255
  PROVE  /\ Rune(b) \in Strings
         /\ Len(Rune(b)) \in {1, 2}
         /\ b < 128 => Len(Rune(b)) = 1 /\ Rune(b)[1] = b
         /\ b >= 128 => Rune(b)[1] >= 194
<1>1. CASE b < 128
  <2>1. b \in Byte
    BY DEF Byte
  <2>2. Rune(b) = <<b>>
    BY <1>1 DEF Rune
  <2> QED
    BY <1>1, <2>1, <2>2, OneByte
<1>2. CASE b >= 128
  <2>1. Rune(b) = <<192 + (b \div 64), 128 + (b % 64)>>
    BY <1>2 DEF Rune
  <2>2. b \div 64 \in 2..3 /\ b % 64 \in 0..63
    BY <1>2
  <2>3. 192 + (b \div 64) \in Byte /\ 128 + (b % 64) \in Byte
    BY <2>2 DEF Byte
  <2>4. /\ <<192 + (b \div 64), 128 + (b % 64)>> \in Strings
        /\ Len(<<192 + (b \div 64), 128 + (b % 64)>>) = 2
        /\ <<192 + (b \div 64), 128 + (b % 64)>>[1] = 192 + (b \div 64)
    BY <2>3 DEF Strings
  <2> QED
    BY <1>2, <2>1, <2>2, <2>4
<1> QED
  BY <1>1, <1>2

\* The last byte of a string.
LEMMA LastByte ==
  ASSUME NEW p \in Strings, p # <<>>
  PROVE  \E l \in Nat \ {0}, e \in 0..255 :
           Len(p) = l /\ p[l] = e /\ LastOf(p) = e
<1>1. Len(p) \in Nat \ {0}
  BY EmptySeq DEF Strings
<1>2. Len(p) \in 1..Len(p)
  BY <1>1
<1>3. p[Len(p)] \in Byte
  BY <1>2, ElementOfSeq DEF Strings
<1> QED
  BY <1>1, <1>3 DEF LastOf, Last, Byte

\* A string of length l ends in byte e, which is not 0xff.
Ends(p, l, e) == l \in Nat \ {0} /\ e \in 0..254 /\ Len(p) = l /\ p[l] = e

\* prefixSuccessor, for such a string.
LEMMA SuccessorBytes ==
  ASSUME NEW p \in Strings, NEW l, NEW e, Ends(p, l, e)
  PROVE  /\ PrefixSuccessor(p) \in Strings
         /\ Len(PrefixSuccessor(p)) = l - 1 + Len(Rune(e + 1))
         /\ \A i \in 1..(l - 1) : PrefixSuccessor(p)[i] = p[i]
         /\ PrefixSuccessor(p)[l] = Rune(e + 1)[1]
<1>0. l \in Nat \ {0} /\ e \in 0..254 /\ Len(p) = l /\ p[l] = e
  BY DEF Ends
<1> USE <1>0
<1>1. PrefixSuccessor(p) = SubSeq(p, 1, l - 1) \o Rune(e + 1)
  <2> DEFINE I == {i \in 1..Len(p) : p[i] # 255}
  <2>1. l \in I
    <3>1. e # 255
      OBVIOUS
    <3>2. l \in 1..Len(p)
      OBVIOUS
    <3> QED
      BY <3>1, <3>2
  <2>2. I \in SUBSET (1..l) /\ l \in Nat
    OBVIOUS
  <2> HIDE DEF I
  <2>3. Max(I) \in I /\ \A y \in I : Max(I) >= y
    BY <2>1, <2>2, LastPosition
  <2>4. Max(I) = l
    <3>1. PICK x \in 1..l : x = Max(I)
      BY <2>2, <2>3
    <3>2. x >= l
      BY <2>1, <2>3, <3>1
    <3> QED
      BY <3>1, <3>2
  <2>5. I # {}
    BY <2>1
  <2> QED
    BY <2>4, <2>5 DEF PrefixSuccessor, I
<1>2. e + 1 \in 1..255 /\ l - 1 \in Nat /\ l - 1 <= Len(p)
  OBVIOUS
<1>3. /\ SubSeq(p, 1, l - 1) \in Strings
      /\ Len(SubSeq(p, 1, l - 1)) = l - 1
      /\ \A i \in 1..(l - 1) : SubSeq(p, 1, l - 1)[i] = p[i]
  BY <1>2, StringStart
<1>4. Rune(e + 1) \in Strings /\ Len(Rune(e + 1)) \in {1, 2}
  BY <1>2, RuneBytes
<1> DEFINE q == SubSeq(p, 1, l - 1)
           r == Rune(e + 1)
<1> HIDE DEF q, r
<1>5. /\ q \o r \in Strings
      /\ Len(q \o r) = Len(q) + Len(r)
      /\ \A i \in 1..Len(q) : (q \o r)[i] = q[i]
      /\ \A i \in 1..Len(r) : (q \o r)[Len(q) + i] = r[i]
  BY <1>3, <1>4, ConcatBytes DEF q, r
<1>6. Len(q) = l - 1 /\ Len(r) \in {1, 2}
  BY <1>3, <1>4 DEF q, r
<1>7. (q \o r)[l] = r[1]
  <2>1. Len(q) + 1 = l
    BY <1>6
  <2>2. 1 \in 1..Len(r)
    <3>1. 1 \in 1..1 /\ 1 \in 1..2
      OBVIOUS
    <3> QED
      BY <1>6, <3>1, Zenon
  <2> QED
    BY <1>5, <2>1, <2>2
<1>8. \A i \in 1..(l - 1) : (q \o r)[i] = p[i]
  BY <1>3, <1>5, <1>6 DEF q
<1> QED
  BY <1>1, <1>5, <1>6, <1>7, <1>8 DEF q, r

\* It is a string, whatever the bytes.
LEMMA SuccessorType ==
  ASSUME NEW p \in Strings
  PROVE  PrefixSuccessor(p) \in Strings
<1> DEFINE I == {i \in 1..Len(p) : p[i] # 255}
<1>1. PICK l \in Nat : l = Len(p)
  BY StringType
<1>2. CASE I = {}
  BY <1>2, EmptyLeast DEF PrefixSuccessor
<1>3. CASE I # {}
  <2>1. I \in SUBSET (1..l)
    BY <1>1
  <2>2. PICK i \in 1..l : i = Max(I) /\ p[i] # 255
    <3> HIDE DEF I
    <3>1. Max(I) \in I
      BY <1>3, <2>1, LastPosition
    <3>2. \A x \in I : x \in 1..l /\ p[x] # 255
      BY <1>1 DEF I
    <3> QED
      BY <3>1, <3>2
  <2>3. PICK e \in Byte : e = p[i]
    BY <1>1, ElementOfSeq DEF Strings
  <2>4. e + 1 \in 1..255
    <3>1. e # 255 /\ e \in 0..255
      BY <2>2, <2>3 DEF Byte
    <3> QED
      BY <3>1
  <2>5. Rune(e + 1) \in Strings
    BY <2>4, RuneBytes
  <2>6. i - 1 \in Nat /\ i - 1 <= l
    OBVIOUS
  <2>7. SubSeq(p, 1, i - 1) \in Strings
    BY <1>1, <2>6, StringStart
  <2>8. PrefixSuccessor(p) = SubSeq(p, 1, i - 1) \o Rune(e + 1)
    BY <1>3, <2>2, <2>3 DEF PrefixSuccessor
  <2> QED
    BY <2>5, <2>7, <2>8, ConcatBytes
<1> QED
  BY <1>2, <1>3

\* It is above every string that starts with one that ends like UTF-8.
LEMMA SuccessorAbove ==
  ASSUME NEW p \in Strings, p # <<>>, Utf8End(p),
         NEW n \in Strings, IsPrefix(p, n)
  PROVE  /\ PrefixSuccessor(p) \in Strings
         /\ PrefixSuccessor(p) # <<>>
         /\ Less(n, PrefixSuccessor(p))
<1> DEFINE s == PrefixSuccessor(p)
<1>1. PICK l \in Nat \ {0}, e \in 0..255 :
        Len(p) = l /\ p[l] = e /\ LastOf(p) = e
  BY LastByte
<1>2. e < 192 /\ e \in 0..254 /\ e + 1 \in 1..255
  BY <1>1 DEF Utf8End
<1>3. PICK c \in Nat, k \in {1, 2} :
        Rune(e + 1)[1] = c /\ Len(Rune(e + 1)) = k /\ e < c
  <2>1. /\ Rune(e + 1) \in Strings
        /\ Len(Rune(e + 1)) \in {1, 2}
        /\ e + 1 < 128 => Rune(e + 1)[1] = e + 1
        /\ e + 1 >= 128 => Rune(e + 1)[1] >= 194
    BY <1>2, RuneBytes
  <2>2. Rune(e + 1)[1] \in Nat
    <3>1. 1 \in 1..Len(Rune(e + 1))
      BY <2>1
    <3> QED
      BY <2>1, <3>1, StringType
  <2>3. e < Rune(e + 1)[1]
    BY <1>2, <2>1, <2>2
  <2> QED
    BY <2>1, <2>2, <2>3
<1>4. /\ s \in Strings
      /\ Len(s) = l - 1 + k
      /\ \A i \in 1..(l - 1) : s[i] = p[i]
      /\ s[l] = c
  <2>1. /\ PrefixSuccessor(p) \in Strings
        /\ Len(PrefixSuccessor(p)) = l - 1 + Len(Rune(e + 1))
        /\ \A i \in 1..(l - 1) : PrefixSuccessor(p)[i] = p[i]
        /\ PrefixSuccessor(p)[l] = Rune(e + 1)[1]
    <3>1. Ends(p, l, e)
      BY <1>1, <1>2 DEF Ends
    <3> QED
      BY <3>1, SuccessorBytes
  <2> QED
    BY <1>3, <2>1
<1> HIDE DEF s
<1>5. PICK m \in Nat : Len(n) = m
  BY StringType
<1>6. m >= l /\ \A i \in 1..l : p[i] = n[i]
  BY <1>1, <1>5, PrefixBytes
<1>7. LessAt(n, s, l - 1)
  <2>1. l - 1 <= m /\ (l - 1) + 1 = l /\ l - 1 < l - 1 + k
    BY <1>6
  <2>2. \A i \in 1..(l - 1) : n[i] = s[i]
    BY <1>4, <1>6
  <2>3. n[l] = e
    BY <1>1, <1>6
  <2> QED
    BY <1>3, <1>4, <1>5, <2>1, <2>2, <2>3 DEF LessAt
<1>8. Less(n, s)
  <2>1. l - 1 \in Nat
    OBVIOUS
  <2> QED
    BY <1>4, <1>7, <2>1, LessIsLessAt
<1>9. s # <<>>
  BY <1>8, EmptyLeast
<1> QED
  BY <1>4, <1>8, <1>9 DEF s

\* It bounds exactly the strings that start with one that has a plain end.
LEMMA SuccessorExact ==
  ASSUME NEW p \in Strings, p # <<>>, PlainEnd(p),
         NEW n \in Strings, ~Less(n, p), Less(n, PrefixSuccessor(p))
  PROVE  IsPrefix(p, n)
<1> DEFINE s == PrefixSuccessor(p)
<1>1. PICK l \in Nat \ {0}, e \in 0..255 :
        Len(p) = l /\ p[l] = e /\ LastOf(p) = e
  BY LastByte
<1>2. e < 127 /\ e \in 0..254 /\ e + 1 \in 1..255 /\ e + 1 < 128
  BY <1>1 DEF PlainEnd
<1>3. Len(Rune(e + 1)) = 1 /\ Rune(e + 1)[1] = e + 1
  BY <1>2, RuneBytes
<1>4. /\ s \in Strings
      /\ Len(s) = l
      /\ \A i \in 1..(l - 1) : s[i] = p[i]
      /\ s[l] = e + 1
  <2>1. /\ PrefixSuccessor(p) \in Strings
        /\ Len(PrefixSuccessor(p)) = l - 1 + Len(Rune(e + 1))
        /\ \A i \in 1..(l - 1) : PrefixSuccessor(p)[i] = p[i]
        /\ PrefixSuccessor(p)[l] = Rune(e + 1)[1]
    <3>1. Ends(p, l, e)
      BY <1>1, <1>2 DEF Ends
    <3> QED
      BY <3>1, SuccessorBytes
  <2>2. l - 1 + 1 = l
    OBVIOUS
  <2> QED
    BY <1>3, <2>1, <2>2
<1> HIDE DEF s
<1>5. PICK m \in Nat : Len(n) = m
  BY StringType
<1>6. /\ \A i \in 1..m : n[i] \in Nat
      /\ \A i \in 1..l : p[i] \in Nat
  BY <1>1, <1>5, StringType
<1>7. PICK k \in Nat : LessAt(n, s, k)
  BY <1>4, LessIsLessAt DEF s
<1>8. ~LessAt(n, p, k)
  BY LessIsLessAt
<1>9. k <= m /\ k < l /\ k # m /\ \A i \in 1..k : n[i] = p[i]
  <2>1. k <= m /\ k < l /\ \A i \in 1..k : n[i] = s[i]
    BY <1>4, <1>5, <1>7 DEF LessAt
  <2>2. \A i \in 1..k : n[i] = p[i]
    BY <1>4, <2>1
  <2> QED
    BY <1>1, <1>5, <1>8, <2>1, <2>2 DEF LessAt
<1>10. n[k + 1] < s[k + 1] /\ ~(n[k + 1] < p[k + 1])
  BY <1>1, <1>5, <1>7, <1>8, <1>9 DEF LessAt
<1>11. k = l - 1
  <2>1. CASE k + 1 \in 1..(l - 1)
    BY <1>4, <1>10, <2>1
  <2> QED
    BY <1>9, <2>1
<1>12. k + 1 = l /\ n[l] = p[l]
  <2>1. k + 1 = l
    BY <1>11
  <2>2. n[l] \in Nat
    BY <1>6, <1>9, <2>1
  <2>3. n[l] < e + 1 /\ ~(n[l] < e)
    BY <1>1, <1>4, <1>10, <2>1
  <2>4. n[l] = e
    BY <2>2, <2>3
  <2> QED
    BY <1>1, <2>1, <2>4
<1>13. /\ l <= m
       /\ \A i \in 1..l : p[i] = n[i]
  BY <1>9, <1>12
<1> QED
  BY <1>1, <1>5, <1>13, PrefixBytes

-----------------------------------------------------------------------------
(***************************************************************************)
(* Common prefixes.                                                        *)
(***************************************************************************)

\* Part of a string.
LEMMA StringPart ==
  ASSUME NEW s \in Strings, NEW a \in Nat \ {0}, NEW b \in Nat,
         b <= Len(s), a <= b + 1
  PROVE  /\ SubSeq(s, a, b) \in Strings
         /\ Len(SubSeq(s, a, b)) = b - a + 1
         /\ \A i \in 1..(b - a + 1) : SubSeq(s, a, b)[i] = s[a + i - 1]
<1>0. Len(s) \in Nat
  BY StringType
<1>1. \A i \in a..b : s[i] \in Byte
  <2>1. \A i \in a..b : i \in 1..Len(s)
    BY <1>0
  <2> QED
    BY <2>1, ElementOfSeq DEF Strings
<1>2. /\ SubSeq(s, a, b) \in Seq(Byte)
      /\ Len(SubSeq(s, a, b)) = IF a <= b THEN b - a + 1 ELSE 0
      /\ \A i \in 1..(b - a + 1) : SubSeq(s, a, b)[i] = s[a + i - 1]
  BY <1>1, SubSeqProperties
<1>3. (IF a <= b THEN b - a + 1 ELSE 0) = b - a + 1
  OBVIOUS
<1> QED
  BY <1>2, <1>3 DEF Strings

\* IsSuffix, byte by byte.
LEMMA SuffixBytes ==
  ASSUME NEW d \in Strings, NEW c \in Strings
  PROVE  IsSuffix(d, c) <=>
           /\ Len(d) <= Len(c)
           /\ \A k \in 1..Len(d) : c[Len(c) - Len(d) + k] = d[k]
<1>1. PICK x \in Nat, y \in Nat : x = Len(d) /\ y = Len(c)
  BY StringType
<1>2. ASSUME NEW s \in Strings, NEW z \in Nat, z = Len(s)
      PROVE  /\ Reverse(s) \in Strings
             /\ Len(Reverse(s)) = z
             /\ \A i \in 1..z : Reverse(s)[i] = s[(z - i) + 1]
  <2>1. Reverse(s) = [i \in 1..z |-> s[(z - i) + 1]]
    BY <1>2 DEF Reverse
  <2>2. \A i \in 1..z : s[(z - i) + 1] \in Byte
    <3>1. \A i \in 1..z : (z - i) + 1 \in 1..Len(s)
      BY <1>2
    <3> QED
      BY <3>1, ElementOfSeq DEF Strings
  <2>3. [i \in 1..z |-> s[(z - i) + 1]] \in Seq(Byte)
    BY <2>2, IsASeq
  <2>4. Len([i \in 1..z |-> s[(z - i) + 1]]) = z
    OBVIOUS
  <2> QED
    BY <2>1, <2>3, <2>4 DEF Strings
<1>3. /\ Reverse(d) \in Strings /\ Len(Reverse(d)) = x
      /\ \A i \in 1..x : Reverse(d)[i] = d[(x - i) + 1]
  BY <1>1, <1>2
<1>4. /\ Reverse(c) \in Strings /\ Len(Reverse(c)) = y
      /\ \A i \in 1..y : Reverse(c)[i] = c[(y - i) + 1]
  BY <1>1, <1>2
<1>5. IsSuffix(d, c) <=>
        x <= y /\ \A i \in 1..x : Reverse(d)[i] = Reverse(c)[i]
  BY <1>3, <1>4, PrefixBytes DEF IsSuffix
<1>6. IsSuffix(d, c) <=>
        x <= y /\ \A i \in 1..x : d[(x - i) + 1] = c[(y - i) + 1]
  <2>1. x <= y => \A i \in 1..x : i \in 1..y
    OBVIOUS
  <2> QED
    BY <1>3, <1>4, <1>5, <2>1
<1>7. ASSUME x <= y, \A i \in 1..x : d[(x - i) + 1] = c[(y - i) + 1],
             NEW k \in 1..x
      PROVE  c[y - x + k] = d[k]
  <2>1. x - k + 1 \in 1..x /\ x - (x - k + 1) + 1 = k
        /\ y - (x - k + 1) + 1 = y - x + k
    OBVIOUS
  <2> QED
    BY <1>7, <2>1
<1>8. ASSUME x <= y, \A k \in 1..x : c[y - x + k] = d[k],
             NEW i \in 1..x
      PROVE  d[(x - i) + 1] = c[(y - i) + 1]
  <2>1. (x - i) + 1 \in 1..x /\ y - x + ((x - i) + 1) = (y - i) + 1
    OBVIOUS
  <2> QED
    BY <1>8, <2>1
<1> QED
  BY <1>1, <1>6, <1>7, <1>8

\* A string has the last byte of its suffixes.
LEMMA SuffixEnd ==
  ASSUME NEW d \in Strings, d # <<>>, NEW c \in Strings, IsSuffix(d, c)
  PROVE  c # <<>> /\ LastOf(c) = LastOf(d)
<1>1. PICK x \in Nat \ {0}, e \in 0..255 :
        Len(d) = x /\ d[x] = e /\ LastOf(d) = e
  BY LastByte
<1>2. PICK y \in Nat : y = Len(c)
  BY StringType
<1>3. x <= y /\ \A k \in 1..x : c[y - x + k] = d[k]
  BY <1>1, <1>2, SuffixBytes
<1>4. x \in 1..x /\ y - x + x = y
  OBVIOUS
<1>5. c[y] = d[x]
  BY <1>3, <1>4
<1>6. c # <<>>
  <2>1. y # 0
    BY <1>3
  <2> QED
    BY <1>2, <2>1, EmptySeq
<1> QED
  BY <1>1, <1>2, <1>5, <1>6 DEF LastOf, Last

\* In name n the delimiter ends at position j, after the prefix.
CutAt(w, n, j) ==
  /\ j \in Nat
  /\ Len(w.prefix) + Len(w.delimiter) <= j
  /\ j <= Len(n)
  /\ \A k \in 1..Len(w.delimiter) : n[j - Len(w.delimiter) + k] = w.delimiter[k]

FirstCut(w, n, j) == CutAt(w, n, j) /\ \A k : CutAt(w, n, k) => j <= k

\* The strings of a walk.
LEMMA WalkStrings ==
  ASSUME NEW w \in Walk
  PROVE  w.prefix \in Strings /\ w.delimiter \in Strings /\ w.after \in Strings
BY DEF Walk, Strings

\* Group ends at the first such position.
LEMMA GroupCut ==
  ASSUME NEW w \in Walk, NEW n \in Strings, w.delimiter # <<>>
  PROVE  \/ /\ \A j : ~CutAt(w, n, j)
            /\ Group(w, n) = <<>>
         \/ \E j : /\ FirstCut(w, n, j)
                  /\ Group(w, n) = w.prefix \o SubSeq(n, Len(w.prefix) + 1, j)
<1> DEFINE p == w.prefix
           d == w.delimiter
           rest == SubSeq(n, Len(p) + 1, Len(n))
           at == {i \in 1..Len(rest) : IsPrefix(d, SubSeq(rest, i, Len(rest)))}
<1>1. p \in Strings /\ d \in Strings
  BY WalkStrings
<1>2. PICK a \in Nat, c \in Nat, l \in Nat :
        a = Len(p) /\ c = Len(d) /\ l = Len(n)
  BY <1>1, StringType
<1>3. CASE ~(a < l)
  <2>1. rest = <<>>
    <3>1. CASE a = l
      <4>1. a + 1 \in Nat \ {0} /\ l <= Len(n) /\ a + 1 <= l + 1
        BY <1>2, <3>1
      <4>2. Len(rest) = l - (a + 1) + 1 /\ rest \in Strings
        BY <1>2, <4>1, StringPart
      <4>3. Len(rest) = 0
        BY <3>1, <4>2
      <4> QED
        BY <4>2, <4>3, EmptySeq DEF Strings
    <3>2. CASE a # l
      <4>1. Len(n) < Len(p) + 1 /\ Len(p) + 1 \in Int /\ Len(n) \in Int
        BY <1>2, <1>3, <3>2
      <4> QED
        BY <4>1, SubSeqEmpty
    <3> QED
      BY <3>1, <3>2
  <2>2. at = {}
    <3>1. Len(rest) = 0
      BY <2>1, EmptySeq
    <3> HIDE DEF rest
    <3> QED
      BY <3>1
  <2>3. Group(w, n) = <<>>
    BY <2>2 DEF Group
  <2>4. c # 0
    BY <1>1, <1>2, EmptySeq DEF Strings
  <2>5. ASSUME NEW j, CutAt(w, n, j)
        PROVE  FALSE
    <3>1. j \in Nat /\ a + c <= j /\ j <= l
      BY <1>2, <2>5 DEF CutAt
    <3> QED
      BY <1>3, <2>4, <3>1
  <2> QED
    BY <2>3, <2>5
<1>4. CASE a < l
  <2>1. /\ rest \in Strings
        /\ Len(rest) = l - a
        /\ \A i \in 1..(l - a) : rest[i] = n[a + i]
    <3>1. /\ rest \in Strings
          /\ Len(rest) = l - (a + 1) + 1
          /\ \A i \in 1..(l - (a + 1) + 1) : rest[i] = n[(a + 1) + i - 1]
      <4>1. a + 1 \in Nat \ {0} /\ l <= Len(n) /\ a + 1 <= l + 1
        BY <1>2, <1>4
      <4> QED
        BY <1>2, <4>1, StringPart
    <3>2. l - (a + 1) + 1 = l - a /\ \A i \in 1..(l - a) : (a + 1) + i - 1 = a + i
      OBVIOUS
    <3> QED
      BY <3>1, <3>2
  <2> DEFINE r == rest
  <2> HIDE DEF r
  <2>2. ASSUME NEW i \in 1..(l - a)
        PROVE  IsPrefix(d, SubSeq(r, i, l - a)) <=> CutAt(w, n, a + i + c - 1)
    <3>1. /\ SubSeq(r, i, l - a) \in Strings
          /\ Len(SubSeq(r, i, l - a)) = (l - a) - i + 1
          /\ \A k \in 1..((l - a) - i + 1) : SubSeq(r, i, l - a)[k] = r[i + k - 1]
      <4>1. i \in Nat \ {0} /\ l - a \in Nat /\ l - a <= Len(r) /\ i <= (l - a) + 1
            /\ r \in Strings
        BY <1>4, <2>1 DEF r
      <4> QED
        BY <4>1, StringPart
    <3>2. IsPrefix(d, SubSeq(r, i, l - a)) <=>
            /\ c <= (l - a) - i + 1
            /\ \A k \in 1..c : d[k] = SubSeq(r, i, l - a)[k]
      BY <1>1, <1>2, <3>1, PrefixBytes
    <3>3. ASSUME c <= (l - a) - i + 1, NEW k \in 1..c
          PROVE  SubSeq(r, i, l - a)[k] = n[(a + i + c - 1) - c + k]
      <4>1. k \in 1..((l - a) - i + 1) /\ i + k - 1 \in 1..(l - a)
            /\ a + (i + k - 1) = (a + i + c - 1) - c + k
        BY <3>3
      <4> QED
        BY <2>1, <3>1, <4>1 DEF r
    <3>4. /\ a + i + c - 1 \in Nat
          /\ a + c <= a + i + c - 1
          /\ a + i + c - 1 <= l <=> c <= (l - a) - i + 1
      OBVIOUS
    <3>5. CutAt(w, n, a + i + c - 1) <=>
            /\ c <= (l - a) - i + 1
            /\ \A k \in 1..c : n[(a + i + c - 1) - c + k] = d[k]
      BY <1>2, <3>4 DEF CutAt
    <3> QED
      BY <3>2, <3>3, <3>5
  <2>3. at = {i \in 1..(l - a) : CutAt(w, n, a + i + c - 1)}
    BY <2>1, <2>2 DEF r
  <2> HIDE DEF rest, at
  <2>4. c # 0
    BY <1>1, <1>2, EmptySeq DEF Strings
  <2>5. ASSUME NEW j, CutAt(w, n, j)
        PROVE  j - a - c + 1 \in at
    <3>1. j \in Nat /\ a + c <= j /\ j <= l
      BY <1>2, <2>5 DEF CutAt
    <3>2. j - a - c + 1 \in 1..(l - a) /\ a + (j - a - c + 1) + c - 1 = j
      BY <2>4, <3>1
    <3> QED
      BY <2>3, <2>5, <3>2
  <2>6. CASE at = {}
    <3>1. Group(w, n) = <<>>
      BY <2>6 DEF Group, at, rest
    <3> QED
      BY <2>5, <2>6, <3>1
  <2>7. CASE at # {}
    <3>1. PICK i \in at : \A y \in at : i <= y
      <4>1. \A x \in at : x \in 1..(l - a)
        BY <2>3
      <4>2. at \in SUBSET Nat
        BY <4>1
      <4> QED
        BY <2>7, <4>2, LeastNumber
    <3>2. i \in 1..(l - a) /\ CutAt(w, n, a + i + c - 1)
      BY <2>3
    <3>3. Min(at) = i
      <4>1. /\ Min(at) \in at
            /\ \A y \in at : Min(at) <= y
        BY <3>1 DEF Min
      <4>2. PICK m \in 1..(l - a) : m = Min(at)
        BY <2>3, <4>1
      <4>3. m <= i /\ i <= m
        BY <3>1, <4>1, <4>2
      <4> QED
        BY <3>2, <4>2, <4>3
    <3>4. Group(w, n) = p \o SubSeq(r, 1, i + c - 1)
      BY <1>2, <2>7, <3>3 DEF Group, r, at, rest
    <3> DEFINE j == a + i + c - 1
    <3>5. j \in Nat /\ a + c <= j /\ j <= l
      BY <1>2, <3>2 DEF CutAt
    <3>6. SubSeq(r, 1, i + c - 1) = SubSeq(n, a + 1, j)
      <4>1. /\ SubSeq(r, 1, i + c - 1) \in Strings
            /\ Len(SubSeq(r, 1, i + c - 1)) = i + c - 1
            /\ \A k \in 1..(i + c - 1) : SubSeq(r, 1, i + c - 1)[k] = r[k]
        <5>1. i + c - 1 \in Nat /\ i + c - 1 <= Len(r) /\ r \in Strings
          <6>1. i + c - 1 \in Nat /\ i + c - 1 <= l - a
            BY <3>2, <3>5
          <6> QED
            BY <2>1, <6>1 DEF r
        <5> QED
          BY <5>1, StringStart
      <4>2. /\ SubSeq(n, a + 1, j) \in Strings
            /\ Len(SubSeq(n, a + 1, j)) = j - (a + 1) + 1
            /\ \A k \in 1..(j - (a + 1) + 1) :
                  SubSeq(n, a + 1, j)[k] = n[(a + 1) + k - 1]
        <5>1. a + 1 \in Nat \ {0} /\ j <= Len(n) /\ a + 1 <= j + 1
          <6>1. a + 1 \in Nat \ {0} /\ a + 1 <= j + 1
            BY <2>4, <3>5
          <6> QED
            BY <1>2, <3>5, <6>1
        <5> HIDE DEF j
        <5> QED
          BY <3>5, <5>1, StringPart
      <4>3. j - (a + 1) + 1 = i + c - 1
        BY <3>2
      <4>4. ASSUME NEW k \in 1..(i + c - 1)
            PROVE  SubSeq(r, 1, i + c - 1)[k] = SubSeq(n, a + 1, j)[k]
        <5>1. k \in 1..(l - a) /\ (a + 1) + k - 1 = a + k
          BY <3>2, <3>5
        <5> QED
          BY <2>1, <4>1, <4>2, <4>3, <5>1 DEF r
      <4> QED
        BY <4>1, <4>2, <4>3, <4>4, StringEqual
    <3>7. ASSUME NEW k, CutAt(w, n, k)
          PROVE  j <= k
      <4>1. i <= k - a - c + 1 /\ k \in Nat
        BY <2>5, <3>1, <3>7 DEF CutAt
      <4> QED
        BY <3>2, <4>1
    <3> HIDE DEF j
    <3>8. FirstCut(w, n, j)
      BY <3>2, <3>7 DEF FirstCut, j
    <3> QED
      BY <1>2, <3>4, <3>6, <3>8
  <2> QED
    BY <2>6, <2>7
<1> QED
  BY <1>3, <1>4

\* Without a delimiter there are no common prefixes.
LEMMA NoGroup ==
  ASSUME NEW w, NEW n, w.delimiter = <<>>
  PROVE  Group(w, n) = <<>>
BY DEF Group

\* The common prefix of a name with the prefix is the name up to the first cut.
LEMMA GroupIsStart ==
  ASSUME NEW w \in Walk, NEW n \in Strings, w.delimiter # <<>>,
         IsPrefix(w.prefix, n)
  PROVE  \/ /\ \A j : ~CutAt(w, n, j)
            /\ Group(w, n) = <<>>
         \/ \E j : FirstCut(w, n, j) /\ Group(w, n) = SubSeq(n, 1, j)
<1> DEFINE p == w.prefix
<1>1. p \in Strings /\ w.delimiter \in Strings
  BY WalkStrings
<1>2. PICK a \in Nat, l \in Nat, c \in Nat :
        a = Len(p) /\ l = Len(n) /\ c = Len(w.delimiter)
  BY <1>1, StringType
<1>3. ASSUME NEW j, FirstCut(w, n, j)
      PROVE  p \o SubSeq(n, a + 1, j) = SubSeq(n, 1, j)
  <2>1. a + c <= j /\ j <= l /\ j \in Nat
    BY <1>2, <1>3 DEF FirstCut, CutAt
  <2>2. p = SubSeq(n, 1, a)
    <3>1. SubSeq(p, 1, a) = SubSeq(n, 1, a)
      BY <1>2 DEF IsPrefix
    <3>2. SubSeq(p, 1, a) = p
      BY <1>1, <1>2, SubSeqFull DEF Strings
    <3> QED
      BY <3>1, <3>2
  <2>3. 1 \in 1..Len(n)+1 /\ a \in (1 - 1)..Len(n) /\ j \in a..Len(n)
    <3>1. 1 \in 1..l+1 /\ a \in (1 - 1)..l /\ j \in a..l
      BY <2>1
    <3> QED
      BY <1>2, <3>1
  <2>4. SubSeq(n, 1, a) \o SubSeq(n, a + 1, j) = SubSeq(n, 1, j)
    BY <2>3, ConcatAdjacentSubSeq DEF Strings
  <2> QED
    BY <2>2, <2>4
<1> QED
  BY <1>2, <1>3, GroupCut

\* What a common prefix has to do with the names it stands for.
LEMMA GroupFacts ==
  ASSUME NEW w \in Walk, NEW n \in Strings, IsPrefix(w.prefix, n),
         Group(w, n) # <<>>
  PROVE  /\ w.delimiter # <<>>
         /\ Group(w, n) \in Strings
         /\ IsPrefix(Group(w, n), n)
         /\ IsSuffix(w.delimiter, Group(w, n))
         /\ LastOf(Group(w, n)) = LastOf(w.delimiter)
         /\ \A m \in Strings :
              IsPrefix(Group(w, n), m) => /\ Group(w, m) = Group(w, n)
                                          /\ IsPrefix(w.prefix, m)
<1> DEFINE d == w.delimiter
           cp == Group(w, n)
<1>1. d # <<>>
  BY NoGroup
<1>2. PICK j : FirstCut(w, n, j) /\ cp = SubSeq(n, 1, j)
  BY <1>1, GroupIsStart
<1>3. d \in Strings /\ w.prefix \in Strings
  BY WalkStrings
<1>4. PICK a \in Nat, l \in Nat, c \in Nat :
        a = Len(w.prefix) /\ l = Len(n) /\ c = Len(d)
  BY <1>3, StringType
<1>5. /\ j \in Nat /\ a + c <= j /\ j <= l
      /\ \A k \in 1..c : n[j - c + k] = d[k]
  BY <1>2, <1>4 DEF FirstCut, CutAt
<1>6. /\ cp \in Strings /\ Len(cp) = j
      /\ \A i \in 1..j : cp[i] = n[i]
  BY <1>2, <1>4, <1>5, StringStart
<1>7. IsPrefix(cp, n)
  BY <1>4, <1>5, <1>6, PrefixBytes
<1>8. IsSuffix(d, cp)
  <2>1. c <= j /\ \A k \in 1..c : j - c + k \in 1..j
    BY <1>5
  <2>2. \A k \in 1..c : cp[j - c + k] = d[k]
    BY <1>5, <1>6, <2>1
  <2> QED
    BY <1>3, <1>4, <1>6, <2>1, <2>2, SuffixBytes
<1>9. LastOf(cp) = LastOf(d)
  BY <1>1, <1>3, <1>6, <1>8, SuffixEnd
<1>10. ASSUME NEW m \in Strings, IsPrefix(cp, m)
       PROVE  Group(w, m) = cp /\ IsPrefix(w.prefix, m)
  <2>1. PICK k \in Nat : k = Len(m)
    BY StringType
  <2>2. j <= k /\ \A i \in 1..j : m[i] = n[i]
    BY <1>6, <1>10, <2>1, PrefixBytes
  <2>3. IsPrefix(w.prefix, m)
    <3>1. \A i \in 1..a : w.prefix[i] = n[i]
      BY <1>3, <1>4, PrefixBytes
    <3>2. a <= k /\ \A i \in 1..a : i \in 1..j
      BY <1>5, <2>2
    <3> QED
      BY <1>3, <1>4, <2>1, <2>2, <3>1, <3>2, PrefixBytes
  <2>4. ASSUME NEW x \in Nat, x <= j
        PROVE  CutAt(w, m, x) <=> CutAt(w, n, x)
    <3>1. ASSUME a + c <= x, NEW y \in 1..c
          PROVE  m[x - c + y] = n[x - c + y]
      <4>0. a + c <= x /\ x <= j /\ j \in Nat
        BY <1>5, <2>4, <3>1
      <4>1. x - c + y \in 1..j
        BY <4>0
      <4> QED
        BY <2>2, <4>1
    <3>2. x <= k /\ x <= l
      BY <1>5, <2>2, <2>4
    <3> QED
      BY <1>4, <2>1, <3>1, <3>2 DEF CutAt
  <2>5. FirstCut(w, m, j)
    <3>1. CutAt(w, m, j)
      BY <1>2, <1>5, <2>4 DEF FirstCut
    <3>2. ASSUME NEW x, CutAt(w, m, x)
          PROVE  j <= x
      <4>1. x \in Nat
        BY <3>2 DEF CutAt
      <4>2. CASE x <= j
        BY <1>2, <2>4, <3>2, <4>1, <4>2 DEF FirstCut
      <4> QED
        BY <1>5, <4>1, <4>2
    <3> QED
      BY <3>1, <3>2 DEF FirstCut
  <2>6. PICK x : FirstCut(w, m, x) /\ Group(w, m) = SubSeq(m, 1, x)
    BY <1>1, <2>3, <2>5, GroupIsStart DEF FirstCut
  <2>7. x = j
    <3>1. x \in Nat /\ x <= j /\ j <= x
      BY <2>5, <2>6 DEF FirstCut, CutAt
    <3> QED
      BY <1>5, <3>1
  <2>8. SubSeq(m, 1, j) = SubSeq(n, 1, j)
    BY <1>4, <1>5, <2>1, <2>2, SameStart
  <2> QED
    BY <1>2, <2>3, <2>6, <2>7, <2>8
<1> QED
  BY <1>1, <1>6, <1>7, <1>8, <1>9, <1>10

\* Group is a string.
LEMMA GroupType ==
  ASSUME NEW w \in Walk, NEW n \in Strings
  PROVE  Group(w, n) \in Strings
<1>1. CASE w.delimiter = <<>>
  BY <1>1, NoGroup, EmptyLeast
<1>2. CASE w.delimiter # <<>>
  <2>1. <<>> \in Strings /\ w.prefix \in Strings /\ w.delimiter \in Strings
    BY EmptyLeast, WalkStrings
  <2>2. ASSUME NEW j, FirstCut(w, n, j)
        PROVE  w.prefix \o SubSeq(n, Len(w.prefix) + 1, j) \in Strings
    <3>1. PICK a \in Nat, l \in Nat, c \in Nat :
            a = Len(w.prefix) /\ l = Len(n) /\ c = Len(w.delimiter)
      BY <2>1, StringType
    <3>2. j \in Nat /\ j <= l /\ a + c <= j
      BY <2>2, <3>1 DEF FirstCut, CutAt
    <3>3. a + 1 \in Nat \ {0} /\ a + 1 <= j + 1
      BY <3>2
    <3>4. SubSeq(n, a + 1, j) \in Strings
      BY <3>1, <3>2, <3>3, StringPart
    <3> QED
      BY <2>1, <3>1, <3>4, ConcatBytes
  <2> QED
    BY <1>2, <2>1, <2>2, GroupCut
<1> QED
  BY <1>1, <1>2

-----------------------------------------------------------------------------
(***************************************************************************)
(* The rows of a query.                                                    *)
(***************************************************************************)

Below(S, n) == {m \in S : Less(m, n)}
Rank(S, n) == Cardinality(Below(S, n))

\* A name's rank in a set, and how it follows the order.
LEMMA RankType ==
  ASSUME NEW S \in SUBSET Strings, IsFiniteSet(S), NEW n \in S
  PROVE  /\ Rank(S, n) \in Nat
         /\ Rank(S, n) < Cardinality(S)
<1>1. /\ IsFiniteSet(S \ {n})
      /\ Cardinality(S \ {n}) = Cardinality(S) - 1
  BY FS_RemoveElement
<1>2. Below(S, n) \in SUBSET (S \ {n})
  BY LessIrreflexive DEF Below
<1>3. /\ IsFiniteSet(Below(S, n))
      /\ Rank(S, n) <= Cardinality(S \ {n})
  BY <1>1, <1>2, FS_Subset DEF Rank
<1>4. Rank(S, n) \in Nat /\ Cardinality(S) \in Nat
  BY <1>3, FS_CardinalityType DEF Rank
<1> QED
  BY <1>1, <1>3, <1>4

\* A lesser name has a lesser rank.
LEMMA RankGrows ==
  ASSUME NEW S \in SUBSET Strings, IsFiniteSet(S),
         NEW m \in S, NEW n \in S, Less(m, n)
  PROVE  Rank(S, m) < Rank(S, n)
<1>1. IsFiniteSet(Below(S, n))
  BY FS_Subset DEF Below
<1>2. /\ IsFiniteSet(Below(S, n) \ {m})
      /\ Cardinality(Below(S, n) \ {m}) = Rank(S, n) - 1
  <2>1. m \in Below(S, n)
    BY DEF Below
  <2> QED
    BY <1>1, <2>1, FS_RemoveElement DEF Rank
<1>3. Below(S, m) \in SUBSET (Below(S, n) \ {m})
  BY LessTransitive, LessIrreflexive DEF Below
<1>4. Rank(S, m) <= Rank(S, n) - 1
  BY <1>2, <1>3, FS_Subset DEF Rank
<1>5. Rank(S, m) \in Nat /\ Rank(S, n) \in Nat
  BY RankType
<1> QED
  BY <1>4, <1>5

\* Different names have different ranks.
LEMMA RankInjective ==
  ASSUME NEW S \in SUBSET Strings, IsFiniteSet(S),
         NEW m \in S, NEW n \in S, Rank(S, m) = Rank(S, n)
  PROVE  m = n
<1>1. Rank(S, m) \in Nat
  BY RankType
<1>2. ~(Rank(S, m) < Rank(S, n)) /\ ~(Rank(S, n) < Rank(S, m))
  BY <1>1
<1>3. ~Less(m, n) /\ ~Less(n, m)
  BY <1>2, RankGrows
<1> QED
  BY <1>3, LessTotal

\* Every rank is taken.
LEMMA RankTaken ==
  ASSUME NEW S \in SUBSET Strings, IsFiniteSet(S), NEW i \in 1..Cardinality(S)
  PROVE  \E n \in S : Rank(S, n) = i - 1
<1> DEFINE f == [n \in S |-> Rank(S, n) + 1]
<1>1. PICK c \in Nat : c = Cardinality(S)
  BY FS_CardinalityType
<1>2. f \in [S -> 1..c]
  <2>1. ASSUME NEW n \in S
        PROVE  Rank(S, n) + 1 \in 1..c
    <3>1. Rank(S, n) \in Nat /\ Rank(S, n) < c
      BY <1>1, RankType
    <3> QED
      BY <3>1
  <2> QED
    BY <2>1
<1>3. f \in Injection(S, 1..c)
  <2>1. ASSUME NEW m \in S, NEW n \in S, f[m] = f[n]
        PROVE  m = n
    <3>1. Rank(S, m) + 1 = Rank(S, n) + 1
      BY <2>1
    <3>2. Rank(S, m) \in Nat /\ Rank(S, n) \in Nat
      BY RankType
    <3>3. Rank(S, m) = Rank(S, n)
      BY <3>1, <3>2
    <3> QED
      BY <3>3, RankInjective
  <2> HIDE DEF f
  <2> QED
    BY <1>2, <2>1 DEF Injection, IsInjective
<1>4. IsFiniteSet(1..c) /\ Cardinality(1..c) = c
  BY FS_Interval
<1> HIDE DEF f
<1>5. f \in Surjection(S, 1..c)
  BY <1>1, <1>3, <1>4, FS_Injection
<1>6. PICK n \in S : f[n] = i
  BY <1>1, <1>5 DEF Surjection
<1>7. Rank(S, n) \in Nat
  BY RankType
<1> QED
  BY <1>6, <1>7 DEF f

\* InOrder lists a set of names from the least to the greatest.
LEMMA InOrderFacts ==
  ASSUME NEW S \in SUBSET Strings, IsFiniteSet(S)
  PROVE  /\ InOrder(S) \in Seq(S)
         /\ Len(InOrder(S)) = Cardinality(S)
         /\ Cardinality(S) \in Nat
         /\ \A i, j \in 1..Len(InOrder(S)) :
              i < j => Less(InOrder(S)[i], InOrder(S)[j])
         /\ \A n \in S : \E i \in 1..Len(InOrder(S)) : InOrder(S)[i] = n
<1> DEFINE rows == InOrder(S)
<1>1. PICK c \in Nat : c = Cardinality(S)
  BY FS_CardinalityType
<1>2. rows = [i \in 1..c |-> CHOOSE n \in S : Rank(S, n) = i - 1]
  BY <1>1 DEF InOrder, Rank, Below
<1>3. ASSUME NEW i \in 1..c
      PROVE  rows[i] \in S /\ Rank(S, rows[i]) = i - 1
  <2>1. \E n \in S : Rank(S, n) = i - 1
    BY <1>1, RankTaken
  <2>2. rows[i] = CHOOSE n \in S : Rank(S, n) = i - 1
    BY <1>2
  <2> HIDE DEF rows
  <2> QED
    BY <2>1, <2>2
<1>4. Len(rows) = c
  BY <1>2
<1> HIDE DEF rows
<1>5. rows \in Seq(S)
  <2>1. rows \in [1..c -> S]
    BY <1>2, <1>3
  <2> QED
    BY <2>1, SeqDef
<1>6. ASSUME NEW i \in 1..c, NEW j \in 1..c, i < j
      PROVE  Less(rows[i], rows[j])
  <2>1. Rank(S, rows[i]) < Rank(S, rows[j])
    BY <1>3, <1>6
  <2>2. rows[i] # rows[j] /\ ~Less(rows[j], rows[i])
    <3>1. /\ Rank(S, rows[i]) \in Nat /\ Rank(S, rows[j]) \in Nat
          /\ rows[i] \in S /\ rows[j] \in S
      BY <1>3, RankType
    <3>2. ~(Rank(S, rows[j]) < Rank(S, rows[i])) /\ Rank(S, rows[i]) # Rank(S, rows[j])
      BY <2>1, <3>1
    <3> QED
      BY <3>1, <3>2, RankGrows
  <2> QED
    BY <1>3, <2>2, LessTotal
<1>7. ASSUME NEW n \in S
      PROVE  \E i \in 1..c : rows[i] = n
  <2>1. Rank(S, n) \in Nat /\ Rank(S, n) < c
    BY <1>1, RankType
  <2>2. Rank(S, n) + 1 \in 1..c /\ (Rank(S, n) + 1) - 1 = Rank(S, n)
    BY <2>1
  <2>3. rows[Rank(S, n) + 1] = n
    BY <1>3, <2>2, RankInjective
  <2> QED
    BY <2>2, <2>3
<1> QED
  BY <1>1, <1>4, <1>5, <1>6, <1>7 DEF rows

\* What a batch is: the first rows of the query, in order.
LEMMA BatchFacts ==
  ASSUME live \subseteq Names
  PROVE  /\ Batch \in Seq(live)
         /\ Len(Batch) \in Nat /\ Len(Batch) <= BatchSize
         /\ \A i \in 1..Len(Batch) : Batch[i] \in live /\ InRange(Batch[i])
         /\ \A i, j \in 1..Len(Batch) : i < j => Less(Batch[i], Batch[j])
         /\ \A n \in live :
              InRange(n) => \/ \E i \in 1..Len(Batch) : Batch[i] = n
                            \/ /\ Len(Batch) = BatchSize
                               /\ \A i \in 1..Len(Batch) : Less(Batch[i], n)
<1> DEFINE S == {n \in live : InRange(n)}
           rows == InOrder(S)
<1>1. S \in SUBSET Strings /\ IsFiniteSet(S)
  BY ListingAssumption, FS_Subset DEF Strings
<1> HIDE DEF S
<1>2. /\ rows \in Seq(S)
      /\ \A i, j \in 1..Len(rows) : i < j => Less(rows[i], rows[j])
      /\ \A n \in S : \E i \in 1..Len(rows) : rows[i] = n
  BY <1>1, InOrderFacts
<1>3. PICK l \in Nat : l = Len(rows)
  BY <1>2, LenProperties
<1>4. BatchSize \in Nat
  BY ListingAssumption
<1>5. PICK k \in Nat : k = IF l < BatchSize THEN l ELSE BatchSize
  BY <1>4
<1>6. Batch = SubSeq(rows, 1, k)
  BY <1>3, <1>5 DEF Batch, S
<1> HIDE DEF rows
<1>7. \A i \in 1..l : rows[i] \in S
  BY <1>2, <1>3, ElementOfSeq
<1>8. k <= l /\ k <= BatchSize
  BY <1>4, <1>5
<1>9. /\ Batch \in Seq(S)
      /\ Len(Batch) = k
      /\ \A i \in 1..k : Batch[i] = rows[i]
  <2>1. \A i \in 1..k : rows[i] \in S
    BY <1>7, <1>8
  <2>2. /\ SubSeq(rows, 1, k) \in Seq(S)
        /\ Len(SubSeq(rows, 1, k)) = IF 1 <= k THEN k - 1 + 1 ELSE 0
        /\ \A i \in 1..(k - 1 + 1) : SubSeq(rows, 1, k)[i] = rows[1 + i - 1]
    BY <2>1, SubSeqProperties
  <2>3. k - 1 + 1 = k /\ \A i \in 1..k : 1 + i - 1 = i
    OBVIOUS
  <2> QED
    BY <1>6, <2>2, <2>3
<1>10. \A i \in 1..k : Batch[i] \in S /\ i \in 1..l
  BY <1>7, <1>8, <1>9
<1>11. Batch \in Seq(live)
  BY <1>9, SeqMonotonic DEF S
<1>12. \A i, j \in 1..k : i < j => Less(Batch[i], Batch[j])
  BY <1>2, <1>3, <1>9, <1>10
<1>13. ASSUME NEW n \in S, ~\E i \in 1..k : Batch[i] = n
       PROVE  k = BatchSize /\ \A i \in 1..k : Less(Batch[i], n)
  <2>1. PICK x \in 1..l : rows[x] = n
    BY <1>2, <1>3
  <2>2. ~(x \in 1..k)
    BY <1>9, <1>13, <2>1
  <2>3. k < x /\ k # l
    BY <1>8, <2>2
  <2>4. k = BatchSize
    BY <1>5, <2>3
  <2>5. \A i \in 1..k : i < x /\ i \in 1..l
    BY <1>8, <2>3
  <2>6. \A i \in 1..k : Less(rows[i], n)
    BY <1>2, <1>3, <2>1, <2>5
  <2> QED
    BY <1>9, <2>4, <2>6
<1> QED
  BY <1>8, <1>9, <1>10, <1>11, <1>12, <1>13 DEF S

-----------------------------------------------------------------------------
(***************************************************************************)
(* Sequences and their elements.                                           *)
(***************************************************************************)

\* The elements of a sequence.
LEMMA ToSetIs ==
  ASSUME NEW S, NEW s \in Seq(S)
  PROVE  /\ DOMAIN s = 1..Len(s) /\ Len(s) \in Nat
         /\ ToSet(s) = {s[i] : i \in 1..Len(s)}
         /\ ToSet(s) \subseteq S
<1>1. DOMAIN s = 1..Len(s) /\ Len(s) \in Nat
  BY LenProperties
<1>2. ToSet(s) = {s[i] : i \in 1..Len(s)}
  BY <1>1 DEF ToSet
<1> QED
  BY <1>1, <1>2, ElementOfSeq

\* The last element of a sequence.
LEMMA LastElement ==
  ASSUME NEW S, NEW s \in Seq(S), s # <<>>
  PROVE  /\ Len(s) \in 1..Len(s)
         /\ LastOf(s) = s[Len(s)]
         /\ LastOf(s) \in S
         /\ LastOf(s) \in ToSet(s)
<1>1. Len(s) \in Nat \ {0}
  BY EmptySeq
<1>2. Len(s) \in 1..Len(s)
  BY <1>1
<1>3. LastOf(s) = s[Len(s)]
  BY DEF LastOf, Last
<1> QED
  BY <1>2, <1>3, ElementOfSeq, ToSetIs

\* The empty sequence.
LEMMA ToSetEmpty == ToSet(<<>>) = {} /\ IsInjective(<<>>) /\ DOMAIN <<>> = {}
BY DEF ToSet, IsInjective

\* A sequence of one element.
LEMMA ToSetOne ==
  ASSUME NEW S, NEW e \in S
  PROVE  /\ <<e>> \in Seq(S) /\ ToSet(<<e>>) = {e} /\ IsInjective(<<e>>)
<1>1. <<e>> \in Seq(S) /\ Len(<<e>>) = 1 /\ <<e>>[1] = e
  OBVIOUS
<1>2. DOMAIN <<e>> = 1..1
  BY <1>1, ToSetIs
<1> QED
  BY <1>1, <1>2 DEF ToSet, IsInjective

\* The elements of two sequences one after the other.
LEMMA ToSetConcat ==
  ASSUME NEW S, NEW s \in Seq(S), NEW t \in Seq(S)
  PROVE  ToSet(s \o t) = ToSet(s) \cup ToSet(t)
<1>1. PICK m \in Nat, n \in Nat : m = Len(s) /\ n = Len(t)
  BY LenProperties
<1>2. /\ s \o t \in Seq(S)
      /\ Len(s \o t) = m + n
      /\ \A i \in 1 .. m + n : (s \o t)[i] = IF i <= m THEN s[i] ELSE t[i - m]
  BY <1>1, ConcatProperties
<1>3. /\ ToSet(s) = {s[i] : i \in 1..m} /\ ToSet(t) = {t[i] : i \in 1..n}
      /\ ToSet(s \o t) = {(s \o t)[i] : i \in 1..(m + n)}
  BY <1>1, <1>2, ToSetIs
<1>4. ASSUME NEW i \in 1..m
      PROVE  i \in 1..(m + n) /\ (s \o t)[i] = s[i]
  BY <1>2
<1>5. ASSUME NEW i \in 1..n
      PROVE  m + i \in 1..(m + n) /\ (s \o t)[m + i] = t[i]
  <2>1. m + i \in 1..(m + n) /\ ~(m + i <= m) /\ (m + i) - m = i
    OBVIOUS
  <2> QED
    BY <1>2, <2>1
<1>6. ASSUME NEW i \in 1..(m + n)
      PROVE  (s \o t)[i] \in ToSet(s) \cup ToSet(t)
  <2>1. CASE i <= m
    BY <1>2, <1>3, <2>1
  <2>2. CASE ~(i <= m)
    <3>1. i - m \in 1..n
      BY <2>2
    <3> QED
      BY <1>2, <1>3, <2>2, <3>1
  <2> QED
    BY <2>1, <2>2
<1> QED
  BY <1>3, <1>4, <1>5, <1>6

\* A page and what was listed before it.
LEMMA ShownParts ==
  ASSUME NEW S, NEW l \in Seq(S), NEW o \in Seq(S), NEW p \in Seq(S)
  PROVE  ToSet(l \o o \o p) = ToSet(l) \cup ToSet(o) \cup ToSet(p)
<1> DEFINE lo == l \o o
<1>1. lo \in Seq(S)
  BY ConcatProperties
<1>2. ToSet(lo) = ToSet(l) \cup ToSet(o)
  BY ToSetConcat
<1> HIDE DEF lo
<1>3. ToSet(lo \o p) = ToSet(lo) \cup ToSet(p)
  BY <1>1, ToSetConcat
<1> QED
  BY <1>2, <1>3 DEF lo

\* They are all different if they are in both and the two share none.
LEMMA InjectiveConcat ==
  ASSUME NEW S, NEW s \in Seq(S), NEW t \in Seq(S)
  PROVE  IsInjective(s \o t) <=> /\ IsInjective(s) /\ IsInjective(t)
                                 /\ ToSet(s) \cap ToSet(t) = {}
<1>1. PICK m \in Nat, n \in Nat : m = Len(s) /\ n = Len(t)
  BY LenProperties
<1>2. /\ s \o t \in Seq(S)
      /\ Len(s \o t) = m + n
      /\ \A i \in 1 .. m + n : (s \o t)[i] = IF i <= m THEN s[i] ELSE t[i - m]
  BY <1>1, ConcatProperties
<1>3. /\ ToSet(s) = {s[i] : i \in 1..m} /\ ToSet(t) = {t[i] : i \in 1..n}
  BY <1>1, ToSetIs
<1>4. DOMAIN s = 1..m /\ DOMAIN t = 1..n /\ DOMAIN (s \o t) = 1..(m + n)
  BY <1>1, <1>2, ToSetIs
<1>5. \A i \in 1..m : i \in 1..(m + n) /\ (s \o t)[i] = s[i]
  BY <1>2
<1>6. ASSUME NEW i \in 1..n
      PROVE  m + i \in 1..(m + n) /\ (s \o t)[m + i] = t[i]
  <2>1. m + i \in 1..(m + n) /\ ~(m + i <= m) /\ (m + i) - m = i
    OBVIOUS
  <2> QED
    BY <1>2, <2>1
<1>7. ASSUME NEW i \in 1..(m + n), ~(i <= m)
      PROVE  i - m \in 1..n /\ (s \o t)[i] = t[i - m]
  BY <1>2, <1>7
<1>8. ASSUME IsInjective(s \o t)
      PROVE  IsInjective(s) /\ IsInjective(t) /\ ToSet(s) \cap ToSet(t) = {}
  <2>1. \A i, j \in 1..(m + n) : (s \o t)[i] = (s \o t)[j] => i = j
    BY <1>4, <1>8 DEF IsInjective
  <2>2. IsInjective(s)
    BY <1>4, <1>5, <2>1 DEF IsInjective
  <2>3. \A i, j \in 1..n : t[i] = t[j] => m + i = m + j
    BY <1>6, <2>1
  <2>4. \A i, j \in 1..n : m + i = m + j => i = j
    OBVIOUS
  <2>5. IsInjective(t)
    BY <1>4, <2>3, <2>4 DEF IsInjective
  <2>6. ASSUME NEW i \in 1..m, NEW j \in 1..n, s[i] = t[j]
        PROVE  FALSE
    <3>1. i = m + j
      BY <1>5, <1>6, <2>1, <2>6
    <3> QED
      BY <3>1
  <2> QED
    BY <1>3, <2>2, <2>5, <2>6
<1>9. ASSUME IsInjective(s), IsInjective(t), ToSet(s) \cap ToSet(t) = {}
      PROVE  IsInjective(s \o t)
  <2>1. /\ \A i, j \in 1..m : s[i] = s[j] => i = j
        /\ \A i, j \in 1..n : t[i] = t[j] => i = j
        /\ \A i \in 1..m, j \in 1..n : s[i] # t[j]
    <3>1. \A i, j \in 1..m : s[i] = s[j] => i = j
      BY <1>4, <1>9 DEF IsInjective
    <3>2. \A i, j \in 1..n : t[i] = t[j] => i = j
      BY <1>4, <1>9 DEF IsInjective
    <3>3. \A i \in 1..m, j \in 1..n : s[i] \in ToSet(s) /\ t[j] \in ToSet(t)
      BY <1>3
    <3>4. \A i \in 1..m, j \in 1..n : s[i] # t[j]
      BY <1>9, <3>3
    <3> QED
      BY <3>1, <3>2, <3>4
  <2>2. ASSUME NEW i \in 1..(m + n), NEW j \in 1..(m + n),
               (s \o t)[i] = (s \o t)[j]
        PROVE  i = j
    <3>1. CASE i <= m /\ j <= m
      <4>1. i \in 1..m /\ j \in 1..m
        BY <3>1
      <4> QED
        BY <1>5, <2>1, <2>2, <4>1
    <3>2. CASE ~(i <= m) /\ ~(j <= m)
      <4>1. i - m = j - m
        BY <1>7, <2>1, <2>2, <3>2
      <4> QED
        BY <4>1
    <3>3. CASE i <= m /\ ~(j <= m)
      <4>1. i \in 1..m
        BY <3>3
      <4>2. j - m \in 1..n /\ (s \o t)[j] = t[j - m]
        BY <1>7, <3>3
      <4>3. s[i] # t[j - m]
        BY <2>1, <4>1, <4>2
      <4> QED
        BY <1>5, <2>2, <4>1, <4>2, <4>3
    <3>4. CASE ~(i <= m) /\ j <= m
      <4>1. j \in 1..m
        BY <3>4
      <4>2. i - m \in 1..n /\ (s \o t)[i] = t[i - m]
        BY <1>7, <3>4
      <4>3. s[j] # t[i - m]
        BY <2>1, <4>1, <4>2
      <4> QED
        BY <1>5, <2>2, <4>1, <4>2, <4>3
    <3> QED
      BY <3>1, <3>2, <3>3, <3>4
  <2> QED
    BY <1>4, <2>2 DEF IsInjective
<1> QED
  BY <1>8, <1>9

\* The first key of a batch delete and the rest.
LEMMA HeadAndTail ==
  ASSUME NEW S, NEW s \in Seq(S), s # <<>>
  PROVE  /\ Tail(s) \in Seq(S) /\ Head(s) \in S
         /\ ToSet(s) = {Head(s)} \cup ToSet(Tail(s))
         /\ IsInjective(s) => IsInjective(Tail(s)) /\ Head(s) \notin ToSet(Tail(s))
<1>1. /\ Tail(s) \in Seq(S) /\ Head(s) \in S /\ <<Head(s)>> \in Seq(S)
      /\ s = <<Head(s)>> \o Tail(s)
  <2>1. /\ Tail(s) \in Seq(S) /\ Head(s) \in S
        /\ Head(s) = s[1] /\ Len(Tail(s)) = Len(s) - 1
        /\ \A i \in 1..Len(Tail(s)) : Tail(s)[i] = s[i + 1]
    BY HeadTailProperties
  <2>2. <<Head(s)>> \in Seq(S) /\ Len(<<Head(s)>>) = 1 /\ <<Head(s)>>[1] = Head(s)
    BY <2>1
  <2>3. PICK m \in Nat : m = Len(s) /\ m >= 1
    BY LenProperties, EmptySeq
  <2>4. /\ <<Head(s)>> \o Tail(s) \in Seq(S)
        /\ Len(<<Head(s)>> \o Tail(s)) = 1 + (m - 1)
        /\ \A i \in 1..(1 + (m - 1)) : (<<Head(s)>> \o Tail(s))[i] =
             IF i <= 1 THEN <<Head(s)>>[i] ELSE Tail(s)[i - 1]
    BY <2>1, <2>2, <2>3, ConcatProperties
  <2>5. ASSUME NEW i \in 1..m
        PROVE  (<<Head(s)>> \o Tail(s))[i] = s[i]
    <3>1. CASE i = 1
      BY <2>1, <2>2, <2>3, <2>4, <3>1
    <3>2. CASE i # 1
      <4>1. i - 1 \in 1..(m - 1) /\ (i - 1) + 1 = i /\ i \in 1..(1 + (m - 1)) /\ ~(i <= 1)
        BY <2>3, <3>2
      <4> QED
        BY <2>1, <2>3, <2>4, <4>1
    <3> QED
      BY <3>1, <3>2
  <2>6. 1 + (m - 1) = m
    BY <2>3
  <2> QED
    BY <2>1, <2>2, <2>3, <2>4, <2>5, <2>6, SeqEqual
<1>2. ToSet(<<Head(s)>>) = {Head(s)}
  BY <1>1, ToSetOne
<1> DEFINE h == <<Head(s)>>
           t == Tail(s)
<1>3. h \in Seq(S) /\ t \in Seq(S) /\ s = h \o t /\ ToSet(h) = {Head(s)}
  BY <1>1, <1>2
<1> HIDE DEF h, t
<1>4. ToSet(s) = ToSet(h) \cup ToSet(t)
  BY <1>3, ToSetConcat
<1>5. IsInjective(s) => IsInjective(t) /\ ToSet(h) \cap ToSet(t) = {}
  BY <1>3, InjectiveConcat
<1> QED
  BY <1>1, <1>3, <1>4, <1>5 DEF t

\* The last of two sequences one after the other.
LEMMA LastConcat ==
  ASSUME NEW S, NEW s \in Seq(S), NEW t \in Seq(S), t # <<>>
  PROVE  s \o t # <<>> /\ LastOf(s \o t) = t[Len(t)]
<1>1. PICK m \in Nat, n \in Nat : m = Len(s) /\ n = Len(t)
  BY LenProperties
<1>2. n # 0
  BY <1>1, EmptySeq
<1>3. /\ s \o t \in Seq(S) /\ Len(s \o t) = m + n
      /\ \A i \in 1 .. m + n : (s \o t)[i] = IF i <= m THEN s[i] ELSE t[i - m]
  BY <1>1, ConcatProperties
<1>4. m + n \in 1..(m + n) /\ ~(m + n <= m) /\ (m + n) - m = n /\ m + n # 0
  BY <1>2
<1>5. s \o t # <<>>
  BY <1>3, <1>4, EmptySeq
<1>6. LastOf(s \o t) = (s \o t)[m + n]
  BY <1>3, <1>5, LastElement
<1> QED
  BY <1>1, <1>3, <1>4, <1>5, <1>6

\* A page to which objects and common prefixes are added, none of them shown.
LEMMA PageGrows ==
  ASSUME NEW S, NEW l \in Seq(S), NEW o \in Seq(S), NEW p \in Seq(S),
         NEW b \in Seq(S), NEW c \in Seq(S)
  PROVE  /\ ToSet(l \o (o \o b) \o (p \o c))
              = ToSet(l \o o \o p) \cup ToSet(b) \cup ToSet(c)
         /\ IsInjective(l \o (o \o b) \o (p \o c)) <=>
              /\ IsInjective(l \o o \o p) /\ IsInjective(b) /\ IsInjective(c)
              /\ ToSet(l \o o \o p) \cap ToSet(b) = {}
              /\ ToSet(l \o o \o p) \cap ToSet(c) = {}
              /\ ToSet(b) \cap ToSet(c) = {}
<1>1. /\ l \o o \in Seq(S) /\ o \o b \in Seq(S) /\ p \o c \in Seq(S)
      /\ l \o (o \o b) \in Seq(S)
  BY ConcatProperties
<1>2. /\ ToSet(l \o o \o p) = ToSet(l) \cup ToSet(o) \cup ToSet(p)
      /\ ToSet(l \o o) = ToSet(l) \cup ToSet(o)
      /\ ToSet(o \o b) = ToSet(o) \cup ToSet(b)
      /\ ToSet(p \o c) = ToSet(p) \cup ToSet(c)
      /\ ToSet(l \o (o \o b)) = ToSet(l) \cup ToSet(o) \cup ToSet(b)
      /\ ToSet(l \o (o \o b) \o (p \o c))
           = ToSet(l) \cup ToSet(o) \cup ToSet(b) \cup ToSet(p) \cup ToSet(c)
  <2>1. /\ ToSet(l \o o) = ToSet(l) \cup ToSet(o)
        /\ ToSet(o \o b) = ToSet(o) \cup ToSet(b)
        /\ ToSet(p \o c) = ToSet(p) \cup ToSet(c)
    BY ToSetConcat
  <2>2. ToSet(l \o o \o p) = ToSet(l \o o) \cup ToSet(p)
    BY <1>1, ToSetConcat
  <2> DEFINE ob == o \o b
             lob == l \o ob
             pc == p \o c
  <2>3. ob \in Seq(S) /\ lob \in Seq(S) /\ pc \in Seq(S)
    BY <1>1
  <2> HIDE DEF ob, pc
  <2>4. ToSet(lob) = ToSet(l) \cup ToSet(ob)
    BY <2>3, ToSetConcat
  <2> HIDE DEF lob
  <2>5. ToSet(lob \o pc) = ToSet(lob) \cup ToSet(pc)
    BY <2>3, ToSetConcat
  <2> QED
    BY <2>1, <2>2, <2>4, <2>5 DEF ob, lob, pc
<1>3. /\ IsInjective(l \o o \o p) <=>
           IsInjective(l \o o) /\ IsInjective(p) /\ ToSet(l \o o) \cap ToSet(p) = {}
      /\ IsInjective(l \o o) <=>
           IsInjective(l) /\ IsInjective(o) /\ ToSet(l) \cap ToSet(o) = {}
      /\ IsInjective(l \o (o \o b) \o (p \o c)) <=>
           /\ IsInjective(l \o (o \o b)) /\ IsInjective(p \o c)
           /\ ToSet(l \o (o \o b)) \cap ToSet(p \o c) = {}
      /\ IsInjective(l \o (o \o b)) <=>
           /\ IsInjective(l) /\ IsInjective(o \o b) /\ ToSet(l) \cap ToSet(o \o b) = {}
      /\ IsInjective(o \o b) <=>
           /\ IsInjective(o) /\ IsInjective(b) /\ ToSet(o) \cap ToSet(b) = {}
      /\ IsInjective(p \o c) <=>
           /\ IsInjective(p) /\ IsInjective(c) /\ ToSet(p) \cap ToSet(c) = {}
  BY <1>1, InjectiveConcat
<1> QED
  BY <1>2, <1>3

-----------------------------------------------------------------------------
(***************************************************************************)
(* Types and page sizes.                                                   *)
(***************************************************************************)

\* The constants.
LEMMA Constants ==
  /\ Names \subseteq Strings /\ IsFiniteSet(Names) /\ <<>> \notin Names
  /\ NoWalk \in Walk
  /\ \A w \in Walks \cup {NoWalk} : w \in Walk
  /\ DefaultMax \in Nat \ {0} /\ BatchSize \in Nat \ {0}
<1>1. <<>> \in Seq(Byte)
  BY EmptySeq
<1>2. NoWalk \in Walk
  BY <1>1 DEF NoWalk, Walk
<1> QED
  BY <1>2, ListingAssumption DEF Strings

\* A page has room for at least one entry.
LEMMA MaxType ==
  ASSUME walk \in Walk
  PROVE  MaxResults \in Nat \ {0}
<1>1. walk.max \in Nat
  BY DEF Walk
<1> QED
  BY <1>1, Constants DEF MaxResults

\* The part of a batch before the place where the pass stops.
LEMMA BeforeFacts ==
  ASSUME NEW S, NEW b \in Seq(S), NEW i \in 1..Len(b)
  PROVE  /\ i - 1 \in Nat /\ i - 1 <= Len(b)
         /\ Before(b, i) \in Seq(S)
         /\ Len(Before(b, i)) = i - 1
         /\ \A j \in 1..(i - 1) : j \in 1..Len(b) /\ Before(b, i)[j] = b[j]
<1>1. PICK l \in Nat : l = Len(b)
  BY LenProperties
<1>2. i \in 1..l /\ i - 1 \in Nat /\ i - 1 <= l /\ \A j \in 1..(i - 1) : j \in 1..l
  BY <1>1
<1>3. \A j \in 1..(i - 1) : b[j] \in S
  BY <1>1, <1>2, ElementOfSeq
<1>4. /\ SubSeq(b, 1, i - 1) \in Seq(S)
      /\ Len(SubSeq(b, 1, i - 1)) = IF 1 <= i - 1 THEN i - 1 - 1 + 1 ELSE 0
      /\ \A j \in 1..(i - 1 - 1 + 1) : SubSeq(b, 1, i - 1)[j] = b[1 + j - 1]
  BY <1>2, <1>3, SubSeqProperties
<1>5. /\ (IF 1 <= i - 1 THEN i - 1 - 1 + 1 ELSE 0) = i - 1 /\ i - 1 - 1 + 1 = i - 1
      /\ \A j \in 1..(i - 1) : 1 + j - 1 = j
  BY <1>2
<1> QED
  BY <1>1, <1>2, <1>4, <1>5 DEF Before

\* Where the pass over a batch stops.
LEMMA StopFacts ==
  ASSUME NEW b, Len(b) \in Nat, NEW i \in Stop(b)
  PROVE  /\ i \in 1..Len(b)
         /\ Full(i) \/ Group(walk, b[i]) # <<>>
         /\ \A j \in 1..(i - 1) : ~Full(j) /\ Group(walk, b[j]) = <<>>
<1>1. i \in Stops(b) /\ \A j \in Stops(b) : i <= j
  BY DEF Stop
<1>2. i \in 1..Len(b) /\ (Full(i) \/ Group(walk, b[i]) # <<>>)
  BY <1>1 DEF Stops
<1>3. ASSUME NEW j \in 1..(i - 1)
      PROVE  ~Full(j) /\ Group(walk, b[j]) = <<>>
  <2>1. j \in 1..Len(b) /\ ~(i <= j)
    BY <1>2
  <2> QED
    BY <1>1, <2>1 DEF Stops
<1> QED
  BY <1>2, <1>3

\* PageToken answers with a string.
LEMMA TokenType ==
  ASSUME NEW w \in Walk, NEW c \in Strings
  PROVE  PageToken(w, c) \in Strings
<1>1. c = <<>> \/ (\E x \in Strings : x = PrefixSuccessor(c))
  BY SuccessorType
<1> QED
  BY <1>1, AfterLeast, EmptyLeast, WalkStrings DEF PageToken, Walk

\* The types of the parts of the state.
LEMMA TypeFacts ==
  ASSUME TypeOK
  PROVE  /\ walk \in Walk /\ walk.prefix \in Strings
         /\ walk.delimiter \in Strings /\ walk.after \in Strings
         /\ live \subseteq Names /\ ever \subseteq Names /\ steady \subseteq ever
         /\ Names \subseteq Strings
         /\ cursor \in Strings /\ next \in Strings /\ token \in Strings
         /\ objs \in Seq(Names) /\ todo \in Seq(Names)
         /\ objs \in Seq(Strings) /\ pres \in Seq(Strings) /\ listed \in Seq(Strings)
         /\ Len(objs) \in Nat /\ Len(pres) \in Nat
<1>1. walk \in Walk
  BY Constants DEF TypeOK
<1>2. objs \in Seq(Strings)
  BY Constants, SeqMonotonic DEF TypeOK
<1>3. Len(objs) \in Nat /\ Len(pres) \in Nat
  BY LenProperties DEF TypeOK
<1> QED
  BY <1>1, <1>2, <1>3, Constants, WalkStrings DEF TypeOK, Strings

\* A batch and its elements are names.
LEMMA BatchType ==
  ASSUME TypeOK
  PROVE  /\ Batch \in Seq(Names) /\ Len(Batch) \in Nat
         /\ \A i \in 1..Len(Batch) : Batch[i] \in Names
         /\ \A i \in 1..Len(Batch) : Batch[i] \in Strings
<1>1. Batch \in Seq(live) /\ Len(Batch) \in Nat
  BY TypeFacts, BatchFacts
<1>2. Batch \in Seq(Names)
  BY <1>1, TypeFacts, SeqMonotonic
<1> QED
  BY <1>1, <1>2, TypeFacts, ElementOfSeq

\* Scanning keeps the types.
LEMMA ScanTypes ==
  ASSUME TypeOK, ScanThrough \/ ScanToLimit \/ ScanToGroup
  PROVE  TypeOK'
<1> USE DEF page, client, history
<1> DEFINE b == Batch
<1>1. b \in Seq(Names) /\ Len(b) \in Nat /\ \A i \in 1..Len(b) : b[i] \in Strings
  BY BatchType
<1>2. /\ UNCHANGED <<live, walk, cursor, todo, listed, failed, steady, ever>>
      /\ UNCHANGED stage \/ stage' = "page"
  BY DEF ScanThrough, ScanToLimit, ScanToGroup
<1>3. objs' \in Seq(Names) /\ next' \in Strings /\ token' \in Strings
      /\ pres' \in Seq(Strings)
  <2>1. CASE ScanThrough
    <3>1. /\ objs' = objs \o b /\ UNCHANGED <<pres, token>>
          /\ UNCHANGED next \/ (~(Len(b) < BatchSize) /\ next' = After(b[Len(b)]))
      BY <2>1 DEF ScanThrough
    <3>2. objs' \in Seq(Names)
      BY <1>1, <3>1, TypeFacts, ConcatProperties
    <3>3. next' \in Strings
      <4>1. ASSUME ~(Len(b) < BatchSize)
            PROVE  After(b[Len(b)]) \in Strings
        <5>1. Len(b) \in 1..Len(b)
          BY <1>1, <4>1, Constants
        <5> QED
          BY <1>1, <5>1, AfterLeast
      <4> QED
        BY <3>1, <4>1, TypeFacts
    <3> QED
      BY <3>1, <3>2, <3>3, TypeFacts
  <2>2. CASE ScanToLimit
    <3>1. PICK i \in Stop(b) : objs' = objs \o Before(b, i) /\ token' = b[i]
      BY <2>2 DEF ScanToLimit
    <3>2. i \in 1..Len(b)
      BY <1>1, StopFacts
    <3>3. Before(b, i) \in Seq(Names)
      BY <1>1, <3>2, BeforeFacts
    <3>4. UNCHANGED <<next, pres>>
      BY <2>2 DEF ScanToLimit
    <3> QED
      BY <1>1, <3>1, <3>2, <3>3, <3>4, TypeFacts, ConcatProperties
  <2>3. CASE ScanToGroup
    <3>1. PICK i \in Stop(b) :
            /\ objs' = objs \o Before(b, i)
            /\ pres' = Append(pres, Group(walk, b[i]))
            /\ next' = PrefixSuccessor(Group(walk, b[i]))
      BY <2>3 DEF ScanToGroup
    <3>2. i \in 1..Len(b)
      BY <1>1, StopFacts
    <3>3. Before(b, i) \in Seq(Names)
      BY <1>1, <3>2, BeforeFacts
    <3>4. Group(walk, b[i]) \in Strings
      BY <1>1, <3>2, TypeFacts, GroupType
    <3>5. pres' \in Seq(Strings) /\ next' \in Strings
      BY <3>1, <3>4, TypeFacts, AppendProperties, SuccessorType
    <3>6. objs' \in Seq(Names)
      BY <3>1, <3>3, TypeFacts, ConcatProperties
    <3>7. UNCHANGED token
      BY <2>3 DEF ScanToGroup
    <3> QED
      BY <3>5, <3>6, <3>7, TypeFacts
  <2> QED
    BY <2>1, <2>2, <2>3
<1> QED
  BY <1>2, <1>3 DEF TypeOK, Strings

\* Type correctness is preserved by every step.
LEMMA TypesKept ==
  ASSUME TypeOK, Stages, [Next]_vars
  PROVE  TypeOK'
<1> USE DEF page, client, history
<1>1. ASSUME NEW w \in Walks, Begin(w)
      PROVE  TypeOK'
  <2>1. w.after \in Strings /\ <<>> \in Strings
    BY Constants, WalkStrings, EmptyLeast
  <2> QED
    BY <1>1, <2>1 DEF TypeOK, Begin, Strings
<1>2. CASE Request
  <2>1. next' \in Strings
    BY <1>2, TypeFacts, TokenType DEF Request, Later
  <2>2. <<>> \in Strings /\ <<>> \in Seq(Names) /\ <<>> \in Seq(Strings)
    BY EmptySeq, EmptyString
  <2> QED
    BY <1>2, <2>1, <2>2 DEF TypeOK, Request, Strings
<1>3. CASE ScanThrough \/ ScanToLimit \/ ScanToGroup
  BY <1>3, ScanTypes
<1>4. CASE Receive
  <2>1. listed' \in Seq(Strings)
    BY <1>4, TypeFacts, ConcatProperties DEF Receive
  <2>2. cursor' \in Strings
    <3>1. LastOf(objs) \in Strings /\ LastOf(pres) \in Strings
      <4>1. ASSUME NEW s \in Seq(Strings)
            PROVE  LastOf(s) \in Strings
        BY LastElement, EmptyString DEF LastOf
      <4> QED
        BY <4>1, TypeFacts
    <3> QED
      BY <1>4, <3>1, TypeFacts DEF Receive, NextCursor, Later
  <2>3. todo' \in Seq(Names) /\ stage' \in {"purge", "done", "request"}
    BY <1>4, TypeFacts DEF Receive, Proceed
  <2> QED
    BY <1>4, <2>1, <2>2, <2>3 DEF TypeOK, Receive, Strings
<1>5. CASE DeleteObjects
  <2>1. todo # <<>>
    BY <1>5 DEF DeleteObjects, Stages
  <2>2. Head(todo) \in Names /\ Tail(todo) \in Seq(Names)
    BY <2>1, TypeFacts, HeadTailProperties
  <2>3. /\ todo' = Tail(todo)
        /\ live' = live \/ live' = live \ {Head(todo)}
        /\ failed' = failed \/ failed' = failed \cup {Head(todo)}
        /\ stage' \in {"done", "request", stage}
        /\ UNCHANGED <<page, walk, cursor, listed, history>>
    BY <1>5 DEF DeleteObjects, Proceed
  <2> QED
    BY <2>2, <2>3 DEF TypeOK
<1>6. ASSUME NEW n \in Churn, Change(n)
      PROVE  TypeOK'
  <2>1. n \in Names
    BY ListingAssumption
  <2> QED
    BY <1>6, <2>1 DEF TypeOK, Change
<1>7. CASE UNCHANGED vars
  BY <1>7 DEF TypeOK, vars
<1> QED
  BY <1>1, <1>2, <1>3, <1>4, <1>5, <1>6, <1>7 DEF Next, Step

\* What a pass over a batch adds to the page: some objects that stand for
\* themselves, and perhaps a common prefix; the page stays within its size and is
\* full if there is a token.
Added(u, c) ==
  /\ u \in Seq(Names) /\ c \in Seq(Strings)
  /\ objs' = objs \o u
  /\ pres' = pres \o c
  /\ Len(u) \in Nat /\ Len(u) <= Len(Batch)
  /\ \A j \in 1..Len(u) : u[j] = Batch[j] /\ Group(walk, u[j]) = <<>>
  /\ c = <<>> \/ /\ Len(u) + 1 <= Len(Batch)
                 /\ Group(walk, Batch[Len(u) + 1]) # <<>>
                 /\ c = <<Group(walk, Batch[Len(u) + 1])>>

\* The pass over the whole batch.
LEMMA ThroughAdds ==
  ASSUME TypeOK, ScanThrough
  PROVE  /\ Added(Batch, <<>>)
         /\ \A j \in 1..Len(Batch) : ~Full(j)
<1>1. Batch \in Seq(Names) /\ Len(Batch) \in Nat
  BY BatchType
<1>2. Stops(Batch) = {} /\ objs' = objs \o Batch /\ pres' = pres
  BY DEF ScanThrough
<1>3. pres \o <<>> = pres
  BY TypeFacts, ConcatEmptySeq
<1>4. <<>> \in Seq(Strings)
  BY EmptySeq
<1>5. \A j \in 1..Len(Batch) : Group(walk, Batch[j]) = <<>> /\ ~Full(j)
  BY <1>2 DEF Stops
<1> QED
  BY <1>1, <1>2, <1>3, <1>4, <1>5 DEF Added

\* The pass up to the limit.
LEMMA LimitAdds ==
  ASSUME TypeOK, ScanToLimit
  PROVE  \E i \in 1..Len(Batch) :
           /\ Full(i) /\ token' = Batch[i]
           /\ \A j \in 1..(i - 1) : ~Full(j)
           /\ Len(Before(Batch, i)) = i - 1
           /\ Added(Before(Batch, i), <<>>)
<1>1. Batch \in Seq(Names) /\ Len(Batch) \in Nat
  BY BatchType
<1>2. PICK i \in Stop(Batch) :
        Full(i) /\ objs' = objs \o Before(Batch, i) /\ token' = Batch[i]
  BY DEF ScanToLimit
<1>3. /\ i \in 1..Len(Batch)
      /\ \A j \in 1..(i - 1) : ~Full(j) /\ Group(walk, Batch[j]) = <<>>
  BY <1>1, StopFacts
<1>4. /\ i - 1 \in Nat /\ i - 1 <= Len(Batch)
      /\ Before(Batch, i) \in Seq(Names)
      /\ Len(Before(Batch, i)) = i - 1
      /\ \A j \in 1..(i - 1) : Before(Batch, i)[j] = Batch[j]
  BY <1>1, <1>3, BeforeFacts
<1>5. pres' = pres \o <<>>
  BY TypeFacts, ConcatEmptySeq DEF ScanToLimit
<1>6. <<>> \in Seq(Strings)
  BY EmptySeq
<1>7. Added(Before(Batch, i), <<>>)
  BY <1>2, <1>3, <1>4, <1>5, <1>6 DEF Added
<1> QED
  BY <1>2, <1>3, <1>4, <1>7

\* The pass up to a common prefix.
LEMMA GroupAdds ==
  ASSUME TypeOK, ScanToGroup
  PROVE  \E i \in 1..Len(Batch) : \E cp \in Strings :
           /\ ~Full(i) /\ cp = Group(walk, Batch[i]) /\ cp # <<>>
           /\ next' = PrefixSuccessor(cp)
           /\ stage' = IF PrefixSuccessor(cp) = <<>> THEN "page" ELSE stage
           /\ Len(Before(Batch, i)) = i - 1
           /\ Added(Before(Batch, i), <<cp>>)
<1>1. Batch \in Seq(Names) /\ Len(Batch) \in Nat
  BY BatchType
<1>2. PICK i \in Stop(Batch) :
        /\ ~Full(i)
        /\ objs' = objs \o Before(Batch, i)
        /\ pres' = Append(pres, Group(walk, Batch[i]))
        /\ next' = PrefixSuccessor(Group(walk, Batch[i]))
        /\ stage' = IF PrefixSuccessor(Group(walk, Batch[i])) = <<>> THEN "page" ELSE stage
  BY DEF ScanToGroup
<1>3. /\ i \in 1..Len(Batch)
      /\ Full(i) \/ Group(walk, Batch[i]) # <<>>
      /\ \A j \in 1..(i - 1) : Group(walk, Batch[j]) = <<>>
  BY <1>1, StopFacts
<1>4. /\ i - 1 \in Nat /\ i - 1 <= Len(Batch)
      /\ Before(Batch, i) \in Seq(Names)
      /\ Len(Before(Batch, i)) = i - 1
      /\ \A j \in 1..(i - 1) : Before(Batch, i)[j] = Batch[j]
  BY <1>1, <1>3, BeforeFacts
<1> DEFINE cp == Group(walk, Batch[i])
<1>5. cp \in Strings
  BY <1>3, BatchType, TypeFacts, GroupType
<1> HIDE DEF cp
<1>6. <<cp>> \in Seq(Strings) /\ pres' = pres \o <<cp>>
  BY <1>2, <1>5, TypeFacts, AppendIsConcat DEF cp
<1>7. Len(Before(Batch, i)) + 1 = i /\ i <= Len(Batch)
  BY <1>1, <1>3, <1>4
<1>8. Added(Before(Batch, i), <<cp>>)
  BY <1>2, <1>3, <1>4, <1>6, <1>7 DEF Added, cp
<1> QED
  BY <1>2, <1>3, <1>4, <1>5, <1>8 DEF cp

\* How many entries the page has then.
LEMMA AddedLength ==
  ASSUME TypeOK, NEW u, NEW c, Added(u, c)
  PROVE  /\ Len(objs') = Len(objs) + Len(u)
         /\ Len(pres') = Len(pres) + (IF c = <<>> THEN 0 ELSE 1)
<1>1. Len(objs') = Len(objs) + Len(u)
  BY TypeFacts, ConcatProperties DEF Added
<1>2. Len(pres') = Len(pres) + Len(c)
  BY TypeFacts, ConcatProperties DEF Added
<1>3. Len(c) = IF c = <<>> THEN 0 ELSE 1
  BY EmptySeq DEF Added
<1> QED
  BY <1>1, <1>2, <1>3

\* Scanning never overfills a page, and only a full page gets a token.
LEMMA ScanSizes ==
  ASSUME TypeOK, Stages, stage = "scan",
         ScanThrough \/ ScanToLimit \/ ScanToGroup
  PROVE  /\ Len(objs)' + Len(pres)' <= MaxResults
         /\ token' # <<>> => Len(objs)' + Len(pres)' = MaxResults
         /\ stage' = "scan" => token' = <<>>
<1> DEFINE l == Len(Batch)
<1>1. PICK x \in Nat, y \in Nat, m \in Nat \ {0} :
        /\ x = Len(objs) /\ y = Len(pres) /\ m = MaxResults
        /\ x + y <= m
  <2>1. MaxResults \in Nat \ {0}
    BY TypeFacts, MaxType
  <2> QED
    BY <2>1, TypeFacts DEF Stages
<1>2. token = <<>> /\ l \in Nat
  BY BatchType DEF Stages
<1>3. \A i : Full(i) <=> x + y + i - 1 >= m
  BY <1>1 DEF Full
<1>4. CASE ScanThrough
  <2>1. Added(Batch, <<>>) /\ \A j \in 1..l : ~Full(j)
    BY <1>4, ThroughAdds
  <2>2. Len(objs') = x + l /\ Len(pres') = y + 0
    BY <1>1, <2>1, AddedLength
  <2>3. x + l + y <= m
    <3>1. CASE l = 0
      BY <1>1, <3>1
    <3>2. CASE l # 0
      <4>1. l \in 1..l
        BY <1>2, <3>2
      <4>2. ~(x + y + l - 1 >= m)
        BY <1>3, <2>1, <4>1
      <4> QED
        BY <1>2, <4>2
    <3> QED
      BY <3>1, <3>2
  <2>4. token' = token
    BY <1>4 DEF ScanThrough
  <2> QED
    BY <1>1, <1>2, <2>2, <2>3, <2>4
<1>5. CASE ScanToLimit
  <2>1. PICK i \in 1..l : /\ Full(i)
                          /\ \A j \in 1..(i - 1) : ~Full(j)
                          /\ Len(Before(Batch, i)) = i - 1
                          /\ Added(Before(Batch, i), <<>>)
    BY <1>5, LimitAdds
  <2>2. Len(objs') = x + (i - 1) /\ Len(pres') = y + 0
    BY <1>1, <2>1, AddedLength
  <2>3. x + (i - 1) + y = m
    <3>1. x + y + i - 1 >= m
      BY <1>3, <2>1
    <3>2. CASE i = 1
      BY <1>1, <3>1, <3>2
    <3>3. CASE i # 1
      <4>1. i - 1 \in 1..(i - 1)
        BY <1>2, <3>3
      <4>2. ~(x + y + (i - 1) - 1 >= m)
        BY <1>3, <2>1, <4>1
      <4> QED
        BY <1>2, <3>1, <4>2
    <3> QED
      BY <3>2, <3>3
  <2>4. stage' = "page"
    BY <1>5 DEF ScanToLimit
  <2>5. x + (i - 1) + (y + 0) = m
    BY <2>3, <1>2
  <2> QED
    BY <1>1, <2>2, <2>4, <2>5
<1>6. CASE ScanToGroup
  <2>1. PICK i \in 1..l : \E cp \in Strings :
          /\ ~Full(i)
          /\ Len(Before(Batch, i)) = i - 1
          /\ Added(Before(Batch, i), <<cp>>)
    BY <1>6, GroupAdds
  <2>2. PICK cp \in Strings : Added(Before(Batch, i), <<cp>>)
    BY <2>1
  <2>3. Len(objs') = x + (i - 1) /\ Len(pres') = y + 1
    <3>1. <<cp>> # <<>>
      OBVIOUS
    <3>2. Len(objs') = Len(objs) + Len(Before(Batch, i)) /\ Len(pres') = Len(pres) + 1
      BY <2>2, <3>1, AddedLength
    <3> QED
      BY <1>1, <2>1, <3>2
  <2>4. ~(x + y + i - 1 >= m)
    BY <1>3, <2>1
  <2>5. x + (i - 1) + (y + 1) <= m
    BY <1>2, <2>4
  <2>6. token' = token
    BY <1>6 DEF ScanToGroup
  <2> QED
    BY <1>1, <1>2, <2>3, <2>5, <2>6
<1> QED
  BY <1>4, <1>5, <1>6

\* The stages and the page sizes are kept by every step.
LEMMA StagesKept ==
  ASSUME TypeOK, Stages, PagesFull, [Next]_vars
  PROVE  Stages' /\ PagesFull'
<1> USE DEF page, client, history
<1>1. ASSUME NEW w \in Walks, Begin(w)
      PROVE  Stages' /\ PagesFull'
  BY <1>1 DEF Begin, Stages, PagesFull, NoWalk
<1>2. CASE Request
  <2>1. Len(objs') + Len(pres') = 0 /\ MaxResults \in Nat \ {0}
    <3>1. Len(objs') = 0 /\ Len(pres') = 0
      BY <1>2, EmptySeq DEF Request
    <3>2. MaxResults \in Nat \ {0}
      BY TypeFacts, MaxType
    <3> QED
      BY <3>1, <3>2
  <2>2. MaxResults' = MaxResults
    BY <1>2 DEF Request, MaxResults
  <2>3. Len(objs') + Len(pres') <= MaxResults'
    BY <2>1, <2>2
  <2>4. PagesFull'
    BY <1>2 DEF Request, PagesFull
  <2>5. Stages'
    BY <1>2, <2>3 DEF Request, Stages
  <2> QED
    BY <2>4, <2>5
<1>3. CASE ScanThrough \/ ScanToLimit \/ ScanToGroup
  <2>1. stage = "scan" /\ stage' \in {"scan", "page"}
        /\ UNCHANGED <<live, walk, cursor, todo, listed, failed, steady, ever>>
    BY <1>3 DEF ScanThrough, ScanToLimit, ScanToGroup
  <2>2. /\ Len(objs)' + Len(pres)' <= MaxResults
        /\ token' # <<>> => Len(objs)' + Len(pres)' = MaxResults
        /\ stage' = "scan" => token' = <<>>
    BY <1>3, <2>1, ScanSizes
  <2>3. MaxResults' = MaxResults
    BY <2>1 DEF MaxResults
  <2>4. walk.delimiter = <<>> => pres' = <<>>
    <3>1. SUFFICES ASSUME walk.delimiter = <<>>, pres' # pres
                   PROVE  FALSE
      BY DEF Stages
    <3>2. ScanToGroup
      BY <1>3, <3>1 DEF ScanThrough, ScanToLimit
    <3> QED
      BY <3>1, <3>2, GroupAdds, NoGroup
  <2> QED
    BY <2>1, <2>2, <2>3, <2>4 DEF Stages, PagesFull
<1>4. CASE Receive
  <2>1. /\ stage = "page" /\ stage' \in {"purge", "done", "request"}
        /\ stage' = "purge" => walk.purge /\ todo' = objs /\ objs # <<>>
        /\ stage' # "purge" => todo' = todo
        /\ UNCHANGED <<live, page, walk, failed, history>>
    BY <1>4 DEF Receive, Proceed
  <2> QED
    BY <2>1 DEF Stages, PagesFull
<1>5. CASE DeleteObjects
  <2>1. /\ stage = "purge"
        /\ live' \subseteq live
        /\ stage' = IF todo' = <<>> THEN IF token = <<>> THEN "done" ELSE "request"
                                    ELSE stage
        /\ UNCHANGED <<page, walk, cursor, listed, history>>
    BY <1>5 DEF DeleteObjects, Proceed
  <2> QED
    BY <2>1 DEF Stages, PagesFull
<1>6. ASSUME NEW n \in Churn, Change(n)
      PROVE  Stages' /\ PagesFull'
  <2>1. MaxResults' = MaxResults /\ UNCHANGED <<stage, page, client>>
    BY <1>6 DEF Change, MaxResults
  <2>2. stage # "idle" /\ live' \subseteq ever'
    BY <1>6 DEF Change, Stages
  <2> QED
    BY <2>1, <2>2 DEF Stages, PagesFull
<1>7. CASE UNCHANGED vars
  BY <1>7 DEF Stages, PagesFull, vars, MaxResults
<1> QED
  BY <1>1, <1>2, <1>3, <1>4, <1>5, <1>6, <1>7 DEF Next, Step

-----------------------------------------------------------------------------
(***************************************************************************)
(* Every entry is genuine.                                                 *)
(***************************************************************************)

\* A plain end is one of UTF-8.
LEMMA PlainIsUtf8 ==
  ASSUME NEW s \in Strings, PlainEnd(s)
  PROVE  Utf8End(s)
<1>1. CASE s = <<>>
  BY <1>1 DEF Utf8End
<1>2. CASE s # <<>>
  <2>1. PICK e \in 0..255 : LastOf(s) = e
    BY <1>2, LastByte
  <2> QED
    BY <1>2, <2>1 DEF PlainEnd, Utf8End
<1> QED
  BY <1>1, <1>2

\* Every string starts with itself and with the empty string.
LEMMA PrefixOfSelf ==
  ASSUME NEW s \in Strings
  PROVE  IsPrefix(s, s) /\ IsPrefix(<<>>, s)
<1>1. <<>> \in Strings /\ Len(<<>>) = 0 /\ Len(s) \in Nat
  BY EmptyString, EmptySeq, StringType
<1>2. Len(<<>>) <= Len(s) /\ \A i \in 1..Len(<<>>) : <<>>[i] = s[i]
  BY <1>1
<1> QED
  BY <1>1, <1>2, PrefixBytes

\* The names in range are those with the prefix, if it has a plain end.
LEMMA RangeIsPrefix ==
  ASSUME TypeOK, PlainEnd(walk.prefix), ~Less(next, walk.prefix),
         NEW n \in Strings, InRange(n)
  PROVE  IsPrefix(walk.prefix, n)
<1> DEFINE p == walk.prefix
<1>1. p \in Strings /\ next \in Strings
  BY TypeFacts
<1>2. CASE p = <<>>
  BY <1>2, PrefixOfSelf
<1>3. CASE p # <<>>
  <2>1. ~Less(n, p)
    BY <1>1, NotLessTransitive DEF InRange
  <2>2. PrefixSuccessor(p) # <<>>
    BY <1>1, <1>3, PlainIsUtf8, PrefixOfSelf, SuccessorAbove
  <2>3. Less(n, PrefixSuccessor(p))
    BY <2>2 DEF InRange
  <2> QED
    BY <1>1, <1>3, <2>1, <2>3, SuccessorExact
<1> QED
  BY <1>2, <1>3

\* PrefixSuccessor of a common prefix is above the names it stands for.
LEMMA SuccessorOfGroup ==
  ASSUME NEW w \in Walk, Utf8End(w.delimiter),
         NEW n \in Strings, IsPrefix(w.prefix, n), Group(w, n) # <<>>
  PROVE  /\ PrefixSuccessor(Group(w, n)) \in Strings
         /\ PrefixSuccessor(Group(w, n)) # <<>>
         /\ Less(n, PrefixSuccessor(Group(w, n)))
<1>1. /\ w.delimiter # <<>>
      /\ Group(w, n) \in Strings
      /\ IsPrefix(Group(w, n), n)
      /\ LastOf(Group(w, n)) = LastOf(w.delimiter)
  BY GroupFacts
<1>2. Utf8End(Group(w, n))
  BY <1>1 DEF Utf8End
<1> QED
  BY <1>1, <1>2, SuccessorAbove

\* A marker's PageToken is above the marker.
LEMMA TokenAboveMarker ==
  ASSUME NEW w \in Walk, w.api = "v1", Utf8End(w.delimiter),
         NEW m \in Strings, m # <<>>
  PROVE  Less(m, PageToken(w, m))
<1>1. CASE w.delimiter # <<>> /\ IsSuffix(w.delimiter, m)
  <2>1. PageToken(w, m) = PrefixSuccessor(m)
    BY <1>1 DEF PageToken
  <2>2. Utf8End(m)
    BY <1>1, WalkStrings, SuffixEnd DEF Utf8End
  <2> QED
    BY <2>1, <2>2, PrefixOfSelf, SuccessorAbove
<1>2. CASE ~(w.delimiter # <<>> /\ IsSuffix(w.delimiter, m))
  <2>1. PageToken(w, m) = After(m)
    BY <1>2 DEF PageToken
  <2> QED
    BY <2>1, AfterLeast
<1> QED
  BY <1>1, <1>2

\* The marker after a page is beyond a string that all of its entries are.
LEMMA MarkerBeyond ==
  ASSUME NEW w \in Walk, w.api = "v1", Utf8End(w.delimiter),
         NEW o \in Seq(Strings), NEW p \in Seq(Strings), o # <<>> \/ p # <<>>,
         NEW a \in Strings,
         \A n \in ToSet(o) : Less(a, n),
         \A c \in ToSet(p) :
           c # <<>> /\ \E n \in Strings :
             IsPrefix(w.prefix, n) /\ Less(a, n) /\ Group(w, n) = c
  PROVE  Less(a, PageToken(w, Later(LastOf(o), LastOf(p))))
<1> DEFINE m == Later(LastOf(o), LastOf(p))
<1>1. /\ o # <<>> => LastOf(o) \in ToSet(o) /\ LastOf(o) \in Strings
      /\ p # <<>> => LastOf(p) \in ToSet(p) /\ LastOf(p) \in Strings
      /\ o = <<>> => LastOf(o) = <<>>
      /\ p = <<>> => LastOf(p) = <<>>
  BY LastElement DEF LastOf
<1>2. CASE o # <<>> /\ m = LastOf(o)
  <2>1. Less(a, m) /\ m \in Strings
    BY <1>1, <1>2
  <2>2. m # <<>>
    BY <2>1, EmptyLeast
  <2>3. Less(m, PageToken(w, m)) /\ PageToken(w, m) \in Strings
    BY <2>1, <2>2, TokenAboveMarker, TokenType
  <2> QED
    BY <2>1, <2>3, LessTransitive
<1>3. CASE p # <<>> /\ m = LastOf(p)
  <2>1. m \in Strings /\ m # <<>>
    BY <1>1, <1>3
  <2>2. PICK n \in Strings :
          IsPrefix(w.prefix, n) /\ Less(a, n) /\ Group(w, n) = m
    BY <1>1, <1>3
  <2>3. w.delimiter # <<>> /\ IsSuffix(w.delimiter, m)
    BY <2>1, <2>2, GroupFacts
  <2>4. PageToken(w, m) = PrefixSuccessor(m)
    BY <2>1, <2>3 DEF PageToken
  <2>5. PrefixSuccessor(m) \in Strings /\ Less(n, PrefixSuccessor(m))
    BY <2>1, <2>2, SuccessorOfGroup
  <2> QED
    BY <2>2, <2>4, <2>5, LessTransitive
<1>4. (o # <<>> /\ m = LastOf(o)) \/ (p # <<>> /\ m = LastOf(p))
  <2>1. CASE o = <<>>
    BY <1>1, <2>1, EmptyLeast DEF Later
  <2>2. CASE p = <<>>
    BY <1>1, <2>2, EmptyLeast DEF Later
  <2>3. CASE o # <<>> /\ p # <<>>
    BY <2>3 DEF Later
  <2> QED
    BY <2>1, <2>2, <2>3
<1> QED
  BY <1>2, <1>3, <1>4

\* Later is below neither of the two.
LEMMA LaterAbove ==
  ASSUME NEW s \in Strings, NEW t \in Strings
  PROVE  /\ Later(s, t) \in Strings
         /\ ~Less(Later(s, t), s) /\ ~Less(Later(s, t), t)
BY LessIrreflexive, LessAsymmetric DEF Later

\* A row of the query is wanted.
LEMMA RowsWanted ==
  ASSUME TypeOK, Stages, stage = "scan", PlainEnd(walk.prefix), Onward,
         NEW i \in 1..Len(Batch)
  PROVE  /\ Batch[i] \in ever /\ Batch[i] \in Strings
         /\ ~Less(Batch[i], next) /\ ~Less(Batch[i], walk.prefix)
         /\ IsPrefix(walk.prefix, Batch[i]) /\ Wanted(Batch[i])
<1> DEFINE n == Batch[i]
<1>1. n \in live /\ InRange(n) /\ n \in Strings /\ n \in Names
  BY BatchFacts, BatchType, TypeFacts
<1>2. n \in ever
  BY <1>1 DEF Stages
<1>3. ~Less(next, walk.prefix)
  BY DEF Onward
<1>4. IsPrefix(walk.prefix, n)
  BY <1>1, <1>3, RangeIsPrefix
<1>5. ~Less(n, next)
  BY <1>1 DEF InRange
<1>6. Less(walk.after, n)
  <2>1. CASE walk.after = <<>>
    BY <1>1, <2>1, Constants, EmptyLeast
  <2>2. CASE walk.after # <<>>
    <3>1. Less(walk.after, next)
      BY <2>2 DEF Onward, Finished, Bound
    <3> QED
      BY <1>1, <1>5, <3>1, TypeFacts, NotBelow
  <2> QED
    BY <2>1, <2>2
<1> QED
  BY <1>1, <1>2, <1>3, <1>4, <1>5, <1>6, TypeFacts, NotLessTransitive DEF Wanted

\* What a pass over a batch adds is genuine.
LEMMA AddedGenuine ==
  ASSUME TypeOK, Stages, stage = "scan", PlainEnd(walk.prefix),
         PageGenuine, Onward, NEW u, NEW c, Added(u, c),
         walk' = walk, ever' = ever
  PROVE  PageGenuine'
<1>1. /\ u \in Seq(Strings) /\ c \in Seq(Strings)
      /\ objs' = objs \o u /\ pres' = pres \o c
  BY Constants, SeqMonotonic DEF Added
<1>2. ToSet(objs') = ToSet(objs) \cup ToSet(u) /\ ToSet(pres') = ToSet(pres) \cup ToSet(c)
  BY <1>1, TypeFacts, ToSetConcat
<1>3. ASSUME NEW n \in ToSet(u)
      PROVE  n \in ever /\ Wanted(n) /\ Group(walk, n) = <<>>
  <2>1. PICK j \in 1..Len(u) : n = u[j]
    BY <1>1, ToSetIs
  <2>2. n = Batch[j] /\ Group(walk, n) = <<>> /\ j \in 1..Len(Batch)
    <3>1. Len(u) \in Nat /\ Len(u) <= Len(Batch) /\ Len(Batch) \in Nat
      BY BatchType DEF Added
    <3>2. j \in 1..Len(Batch)
      BY <3>1
    <3> QED
      BY <2>1, <3>2 DEF Added
  <2> QED
    BY <2>2, RowsWanted
<1>4. ASSUME NEW e \in ToSet(c)
      PROVE  e # <<>> /\ \E n \in ever : Wanted(n) /\ Group(walk, n) = e
  <2> DEFINE i == Len(u) + 1
             cp == Group(walk, Batch[i])
  <2>1. c # <<>>
    BY <1>4, ToSetEmpty
  <2>2. i <= Len(Batch) /\ cp # <<>> /\ c = <<cp>> /\ Len(u) \in Nat
    BY <2>1 DEF Added
  <2>3. i \in 1..Len(Batch)
    BY <2>2, BatchType
  <2>4. Batch[i] \in ever /\ Wanted(Batch[i])
    BY <2>3, RowsWanted
  <2>5. e = cp
    <3>1. cp \in Strings
      BY <2>3, BatchType, TypeFacts, GroupType
    <3> QED
      BY <2>2, <3>1, ToSetOne
  <2> QED
    BY <2>2, <2>4, <2>5
<1>5. /\ \A n \in ToSet(objs) : n \in ever /\ Wanted(n) /\ Group(walk, n) = <<>>
      /\ \A e \in ToSet(pres) :
           e # <<>> /\ \E n \in ever : Wanted(n) /\ Group(walk, n) = e
  BY DEF PageGenuine
<1>6. \A n : Wanted(n)' <=> Wanted(n)
  BY DEF Wanted
<1>7. /\ \A n \in ToSet(objs') : n \in ever' /\ Wanted(n) /\ Group(walk', n) = <<>>
      /\ \A e \in ToSet(pres') :
           e # <<>> /\ \E n \in ever' : Wanted(n) /\ Group(walk', n) = e
  BY <1>2, <1>3, <1>4, <1>5
<1> QED
  BY <1>6, <1>7 DEF PageGenuine, Wanted

\* Scanning keeps the walk's place.
LEMMA ScanOnward ==
  ASSUME TypeOK, Stages, PagesFull, TypeOK', Stages', PagesFull',
         stage = "scan", PlainEnd(walk.prefix), Utf8End(walk.delimiter),
         PageGenuine, Onward, PageGenuine',
         ScanThrough \/ ScanToLimit \/ ScanToGroup
  PROVE  Onward'
<1> USE DEF page, client, history
<1>0. walk' = walk /\ ever' = ever /\ stage' \in {"scan", "page"}
  BY DEF ScanThrough, ScanToLimit, ScanToGroup
<1>1. token = <<>>
  BY DEF Stages
<1>2. /\ walk \in Walk /\ next \in Strings /\ next' \in Strings /\ token' \in Strings
      /\ walk.prefix \in Strings /\ walk.after \in Strings
      /\ objs' \in Seq(Strings) /\ pres' \in Seq(Strings)
  <2>1. /\ next' \in Strings /\ token' \in Strings
        /\ objs' \in Seq(Strings) /\ pres' \in Seq(Strings)
    BY Constants, SeqMonotonic DEF TypeOK, Strings
  <2> QED
    BY <2>1, TypeFacts
\* A new lower bound above a row is above all that matters.
<1>3. ASSUME NEW i \in 1..Len(Batch), Less(Batch[i], next')
      PROVE  Less(walk.after, next') /\ ~Less(next', walk.prefix)
  <2>1. /\ Batch[i] \in Strings /\ ~Less(Batch[i], walk.prefix)
        /\ Less(walk.after, Batch[i])
    BY <1>3, RowsWanted DEF Wanted
  <2>2. Less(walk.after, next')
    BY <1>2, <1>3, <2>1, LessTransitive
  <2>3. Less(walk.prefix, next')
    BY <1>2, <1>3, <2>1, NotAbove
  <2> QED
    BY <1>2, <2>2, <2>3, LessAsymmetric
<1>4. CASE ScanThrough
  <2>1. token' = token
    BY <1>4 DEF ScanThrough
  <2>2. CASE stage' = "page"
    BY <1>1, <2>1, <2>2 DEF Onward, Finished
  <2>3. CASE stage' = "scan"
    <3>1. ~(Len(Batch) < BatchSize) /\ next' = After(Batch[Len(Batch)])
      BY <1>4, <2>3 DEF ScanThrough
    <3>2. Len(Batch) \in 1..Len(Batch)
      BY <3>1, BatchType, Constants
    <3>3. Less(Batch[Len(Batch)], next')
      BY <3>1, <3>2, BatchType, AfterLeast
    <3>4. Less(walk.after, next') /\ ~Less(next', walk.prefix)
      BY <1>3, <3>2, <3>3
    <3> QED
      BY <1>0, <2>3, <3>4 DEF Onward, Bound
  <2> QED
    BY <1>0, <2>2, <2>3
<1>5. CASE ScanToGroup
  <2>1. PICK i \in 1..Len(Batch) : \E cp \in Strings :
          /\ cp = Group(walk, Batch[i]) /\ cp # <<>>
          /\ next' = PrefixSuccessor(cp)
          /\ stage' = IF PrefixSuccessor(cp) = <<>> THEN "page" ELSE stage
    BY <1>5, GroupAdds
  <2>2. Batch[i] \in Strings /\ IsPrefix(walk.prefix, Batch[i])
    BY RowsWanted
  <2>3. /\ PrefixSuccessor(Group(walk, Batch[i])) # <<>>
        /\ Less(Batch[i], PrefixSuccessor(Group(walk, Batch[i])))
    BY <1>2, <2>1, <2>2, SuccessorOfGroup
  <2>4. Less(Batch[i], next') /\ stage' = "scan"
    BY <2>1, <2>3
  <2>5. Less(walk.after, next') /\ ~Less(next', walk.prefix)
    BY <1>3, <2>4
  <2> QED
    BY <1>0, <2>4, <2>5 DEF Onward, Bound
<1>6. CASE ScanToLimit
  <2>1. PICK i \in 1..Len(Batch) : token' = Batch[i]
    BY <1>6, LimitAdds
  <2>2. stage' = "page"
    BY <1>6 DEF ScanToLimit
  <2>3. Less(walk.after, token') /\ token' # <<>>
    <3>1. Less(walk.after, token')
      BY <2>1, RowsWanted DEF Wanted
    <3> QED
      BY <1>2, <3>1, EmptyLeast
  <2>4. ASSUME walk.after # <<>>
        PROVE  Less(walk.after, PageToken(walk, NextCursor'))
    <3>1. CASE walk.api = "v1"
      <4>1. NextCursor' = Later(LastOf(objs'), LastOf(pres'))
        BY <1>0, <3>1 DEF NextCursor, Later, LastOf
      <4>2. objs' # <<>> \/ pres' # <<>>
        <5>1. Len(objs') + Len(pres') = MaxResults'
          BY <2>2, <2>3 DEF PagesFull
        <5>2. MaxResults' \in Nat \ {0}
          BY <1>0, <1>2, MaxType DEF MaxResults
        <5>3. Len(<<>>) = 0
          BY EmptySeq
        <5> QED
          BY <5>1, <5>2, <5>3
      <4>3. \A n \in ToSet(objs') : Less(walk.after, n)
        BY <1>0, <2>2 DEF PageGenuine, Wanted
      <4>4. \A c \in ToSet(pres') :
              c # <<>> /\ \E n \in Strings :
                /\ IsPrefix(walk.prefix, n) /\ Less(walk.after, n)
                /\ Group(walk, n) = c
        <5>1. \A n \in ever : n \in Strings
          BY TypeFacts
        <5> QED
          BY <1>0, <2>2, <5>1 DEF PageGenuine, Wanted
      <4> QED
        BY <1>2, <3>1, <4>1, <4>2, <4>3, <4>4, MarkerBeyond
    <3>2. CASE walk.api = "v2"
      <4>1. NextCursor' = token'
        BY <1>0, <3>2 DEF NextCursor
      <4>2. PageToken(walk, token') = token'
        BY <2>3, <3>2 DEF PageToken
      <4> QED
        BY <2>3, <4>1, <4>2
    <3>3. walk.api \in {"v1", "v2"}
      <4>1. walk \in Walks
        BY DEF Stages
      <4> QED
        BY <1>2, <2>4, <4>1, ListingAssumption DEF Walk
    <3> QED
      BY <3>1, <3>2, <3>3
  <2>5. Bound' = PageToken(walk, NextCursor')
    BY <1>0, <2>2 DEF Bound
  <2> QED
    BY <1>0, <2>2, <2>4, <2>5 DEF Onward
<1> QED
  BY <1>4, <1>5, <1>6

\* Receiving a page adds its entries to what is listed.
LEMMA ReceiveGenuine ==
  ASSUME TypeOK, Stages, stage = "page", Receive,
         PlainEnd(walk.prefix), Utf8End(walk.delimiter),
         ListsNothingElse, PageGenuine, Onward
  PROVE  ListsNothingElse' /\ PageGenuine' /\ Onward'
<1> USE DEF page, client, history
<1>1. /\ listed' = listed \o objs \o pres
      /\ cursor' = NextCursor
      /\ UNCHANGED <<live, next, objs, pres, token, walk, failed, steady, ever>>
      /\ stage' \in {"purge", "done", "request"}
      /\ stage' = "request" => token # <<>>
      /\ stage' = "done" => token = <<>>
  BY DEF Receive, Proceed
<1>2. ToSet(listed') = ToSet(listed) \cup ToSet(objs) \cup ToSet(pres)
  BY <1>1, TypeFacts, ShownParts
<1>3. listed' \in Seq(Strings)
  BY <1>1, TypeFacts, ConcatProperties
<1>4. ASSUME NEW e \in ToSet(listed')
      PROVE  \E n \in ever : Wanted(n) /\ e = Entry(n)
  <2>1. CASE e \in ToSet(listed)
    <3>1. PICK i \in 1..Len(listed) : e = listed[i]
      BY <2>1, TypeFacts, ToSetIs
    <3> QED
      BY <3>1 DEF ListsNothingElse
  <2>2. CASE e \in ToSet(objs)
    BY <2>2 DEF PageGenuine, Entry
  <2>3. CASE e \in ToSet(pres)
    BY <2>3 DEF PageGenuine, Entry
  <2> QED
    BY <1>2, <1>4, <2>1, <2>2, <2>3
<1>5. \A i \in 1..Len(listed') : listed'[i] \in ToSet(listed')
  BY <1>3, ToSetIs
<1>6. ListsNothingElse'
  BY <1>1, <1>4, <1>5 DEF ListsNothingElse, Wanted, Entry
<1>7. Onward'
  <2>1. Bound' = Bound
    BY <1>1 DEF Bound
  <2>2. Finished => Finished'
    BY <1>1 DEF Finished
  <2> QED
    BY <1>1, <2>1, <2>2 DEF Onward
<1> QED
  BY <1>1, <1>6, <1>7 DEF PageGenuine

\* Every entry stays genuine.
LEMMA GenuineKept ==
  ASSUME TypeOK, Stages, PagesFull, TypeOK', Stages', PagesFull',
         Genuine, [Next]_vars
  PROVE  Genuine'
<1> USE DEF page, client, history
<1> SUFFICES ASSUME PlainEnd(walk.prefix)', Utf8End(walk.delimiter)'
             PROVE  ListsNothingElse' /\ PageGenuine' /\ Onward'
  BY DEF Genuine
<1>1. ASSUME NEW w \in Walks, Begin(w)
      PROVE  ListsNothingElse' /\ PageGenuine' /\ Onward'
  <2>1. /\ stage = "idle" /\ stage' = "request" /\ walk' = w /\ listed' = listed
        /\ cursor' = IF w.api = "v1" THEN w.after ELSE <<>>
    BY <1>1 DEF Begin
  <2>2. listed = <<>> /\ Len(<<>>) = 0
    BY <2>1, EmptySeq DEF Stages
  <2>3. ListsNothingElse'
    BY <2>1, <2>2 DEF ListsNothingElse
  <2>4. w \in Walk /\ w.after \in Strings /\ Utf8End(w.delimiter)
    BY <2>1, Constants, WalkStrings
  <2>5. ASSUME w.after # <<>>
        PROVE  Less(w.after, PageToken(w, cursor'))
    <3>1. CASE w.api = "v1"
      BY <2>1, <2>4, <2>5, <3>1, TokenAboveMarker
    <3>2. CASE w.api = "v2"
      <4>1. PageToken(w, cursor') = After(w.after)
        BY <2>1, <2>5, <3>2 DEF PageToken
      <4> QED
        BY <2>4, <4>1, AfterLeast
    <3>3. w.api \in {"v1", "v2"}
      BY <2>4, <2>5, ListingAssumption DEF Walk
    <3> QED
      BY <3>1, <3>2, <3>3
  <2>6. Bound' = PageToken(w, cursor')
    BY <2>1 DEF Bound
  <2>7. Onward'
    BY <2>1, <2>5, <2>6 DEF Onward
  <2> QED
    BY <2>1, <2>3, <2>7 DEF PageGenuine
<1>2. CASE UNCHANGED walk /\ stage # "idle" /\ ever \subseteq ever'
  <2>1. ListsNothingElse /\ PageGenuine /\ Onward
    BY <1>2 DEF Genuine
  <2>2. PlainEnd(walk.prefix) /\ Utf8End(walk.delimiter)
    BY <1>2
  <2>3. CASE Request
    <3>1. /\ stage = "request" /\ stage' = "scan"
          /\ next' = Later(walk.prefix, PageToken(walk, cursor))
          /\ objs' = <<>> /\ pres' = <<>> /\ token' = <<>>
          /\ UNCHANGED <<live, walk, cursor, todo, listed, failed, steady, ever>>
      BY <2>3 DEF Request
    <3>2. ListsNothingElse'
      BY <2>1, <3>1 DEF ListsNothingElse, Wanted, Entry
    <3>3. PageGenuine'
      BY <3>1, ToSetEmpty DEF PageGenuine
    <3> DEFINE t == PageToken(walk, cursor)
    <3>4. t \in Strings
      BY TypeFacts, TokenType
    <3>5. /\ next' \in Strings
          /\ ~Less(next', walk.prefix) /\ ~Less(next', t)
      BY <3>1, <3>4, TypeFacts, LaterAbove
    <3>6. walk.after # <<>> => Less(walk.after, next')
      <4>1. Bound = t /\ ~Finished
        BY <3>1 DEF Bound, Finished
      <4>2. walk.after # <<>> => Less(walk.after, t)
        BY <2>1, <3>1, <4>1 DEF Onward
      <4> HIDE DEF t
      <4> QED
        BY <3>4, <3>5, <4>2, TypeFacts, NotBelow
    <3>7. Onward'
      BY <3>1, <3>5, <3>6 DEF Onward, Bound
    <3> QED
      BY <3>2, <3>3, <3>7
  <2>4. CASE ScanThrough \/ ScanToLimit \/ ScanToGroup
    <3>1. /\ stage = "scan"
          /\ UNCHANGED <<live, walk, cursor, todo, listed, failed, steady, ever>>
      BY <2>4 DEF ScanThrough, ScanToLimit, ScanToGroup
    <3>2. ListsNothingElse'
      BY <2>1, <3>1 DEF ListsNothingElse, Wanted, Entry
    <3>3. PageGenuine'
      <4>1. \E u, c : Added(u, c)
        BY <2>4, ThroughAdds, LimitAdds, GroupAdds
      <4> QED
        BY <2>1, <2>2, <3>1, <4>1, AddedGenuine
    <3>4. Onward'
      BY <2>1, <2>2, <2>4, <3>1, <3>3, ScanOnward
    <3> QED
      BY <3>2, <3>3, <3>4
  <2>5. CASE Receive
    <3>1. stage = "page"
      BY <2>5 DEF Receive
    <3> QED
      BY <2>1, <2>2, <2>5, <3>1, ReceiveGenuine
  <2>6. CASE DeleteObjects
    <3>1. /\ stage = "purge"
          /\ stage' = IF todo' = <<>> THEN IF token = <<>> THEN "done" ELSE "request"
                                      ELSE stage
          /\ UNCHANGED <<page, walk, cursor, listed, history>>
      BY <2>6 DEF DeleteObjects, Proceed
    <3>2. ListsNothingElse'
      BY <2>1, <3>1 DEF ListsNothingElse, Wanted, Entry
    <3>3. Bound' = Bound /\ (Finished => Finished')
      BY <3>1 DEF Bound, Finished
    <3>4. Onward'
      BY <2>1, <3>1, <3>3 DEF Onward
    <3> QED
      BY <3>1, <3>2, <3>4 DEF PageGenuine
  <2>7. CASE UNCHANGED <<stage, page, client>>
    <3>1. ListsNothingElse'
      BY <1>2, <2>1, <2>7 DEF ListsNothingElse, Wanted, Entry
    <3>2. PageGenuine'
      BY <1>2, <2>1, <2>7 DEF PageGenuine, Wanted
    <3>3. Bound' = Bound /\ (Finished <=> Finished')
      BY <2>7 DEF Bound, Finished, NextCursor, Later, LastOf
    <3>4. Onward'
      BY <2>1, <2>7, <3>3 DEF Onward
    <3> QED
      BY <3>1, <3>2, <3>4
  <2>8. \/ Request \/ ScanThrough \/ ScanToLimit \/ ScanToGroup \/ Receive
        \/ DeleteObjects \/ UNCHANGED <<stage, page, client>>
    BY <1>2 DEF Next, Step, Begin, Change, vars
  <2> QED
    BY <2>3, <2>4, <2>5, <2>6, <2>7, <2>8
<1>3. CASE UNCHANGED vars
  <2>1. CASE stage # "idle"
    BY <1>2, <1>3, <2>1 DEF vars
  <2>2. CASE stage = "idle"
    <3>1. listed' = <<>> /\ Len(<<>>) = 0
      BY <1>3, <2>2, EmptySeq DEF Stages, vars
    <3> QED
      BY <1>3, <2>2, <3>1 DEF ListsNothingElse, PageGenuine, Onward, vars
  <2> QED
    BY <2>1, <2>2
<1>4. CASE Step \/ \E n \in Churn : Change(n)
  <2>1. UNCHANGED walk /\ stage # "idle" /\ ever \subseteq ever'
    BY <1>4 DEF Step, Request, ScanThrough, ScanToLimit, ScanToGroup, Receive,
                DeleteObjects, Change
  <2> QED
    BY <1>2, <2>1
<1> QED
  BY <1>1, <1>3, <1>4 DEF Next

-----------------------------------------------------------------------------
(***************************************************************************)
(* Walks that cannot be mistaken.                                          *)
(***************************************************************************)

\* What a clear walk may rely on.
LEMMA ClearFacts ==
  ASSUME TypeOK, Clear
  PROVE  /\ PlainEnd(walk.delimiter) /\ Utf8End(walk.delimiter)
         /\ Utf8End(walk.prefix)
         /\ walk.delimiter # <<>> => PlainEnd(walk.prefix)
         /\ Genuine /\ walk.delimiter # <<>> =>
              ListsNothingElse /\ PageGenuine /\ Onward
<1>1. walk.prefix \in Strings /\ walk.delimiter \in Strings
  BY TypeFacts
<1>2. PlainEnd(walk.delimiter) /\ Utf8End(walk.delimiter)
  BY <1>1, PlainIsUtf8 DEF Clear
<1>3. Utf8End(walk.prefix) /\ (walk.delimiter # <<>> => PlainEnd(walk.prefix))
  BY <1>1, PlainIsUtf8 DEF Clear
<1> QED
  BY <1>2, <1>3 DEF Genuine

\* A name that stands for itself has no group.
LEMMA EntryFacts ==
  ASSUME TypeOK, NEW n \in Strings, InScope(n), NEW e, e = Entry(n)
  PROVE  \/ e = n /\ Group(walk, n) = <<>>
         \/ /\ walk.delimiter # <<>> /\ IsPrefix(walk.prefix, n)
            /\ e = Group(walk, n) /\ e # <<>> /\ Group(walk, e) = e
            /\ e \in Strings
<1>1. CASE Group(walk, n) = <<>>
  BY <1>1 DEF Entry
<1>2. CASE Group(walk, n) # <<>>
  <2>1. walk.delimiter # <<>>
    BY <1>2, NoGroup
  <2>2. IsPrefix(walk.prefix, n)
    BY <2>1 DEF InScope
  <2>3. e = Group(walk, n)
    BY <1>2 DEF Entry
  <2>4. /\ Group(walk, n) \in Strings
        /\ \A m \in Strings :
             IsPrefix(Group(walk, n), m) => Group(walk, m) = Group(walk, n)
    BY <1>2, <2>2, TypeFacts, GroupFacts
  <2>5. Group(walk, e) = e
    BY <2>3, <2>4, PrefixOfSelf
  <2> QED
    BY <1>2, <2>1, <2>2, <2>3, <2>4, <2>5
<1> QED
  BY <1>1, <1>2

\* The rows of a batch are ahead of what was shown.
LEMMA RowsAhead ==
  ASSUME TypeOK, Stages, stage = "scan", Clear, Genuine,
         NEW i \in 1..Len(Batch)
  PROVE  /\ Batch[i] \in Names /\ Batch[i] \in Strings /\ Batch[i] \in ever
         /\ InScope(Batch[i]) /\ ~Less(Batch[i], next)
<1>1. /\ Batch[i] \in live /\ InRange(Batch[i])
  BY TypeFacts, BatchFacts
<1>2. /\ Batch[i] \in Names /\ Batch[i] \in Strings /\ Batch[i] \in ever
      /\ ~Less(Batch[i], next)
  BY <1>1, TypeFacts DEF Stages, InRange
<1>3. InScope(Batch[i])
  <2>1. CASE walk.delimiter = <<>>
    BY <2>1 DEF InScope
  <2>2. CASE walk.delimiter # <<>>
    BY <2>2, ClearFacts, RowsWanted DEF InScope
  <2> QED
    BY <2>1, <2>2
<1> QED
  BY <1>2, <1>3

\* What a pass over a batch may have shown.
LEMMA AddedBehind ==
  ASSUME TypeOK, Stages, stage = "scan", Clear, Genuine, NothingAhead,
         NEW u, NEW c, Added(u, c), NEW n \in Names, InScope(n),
         Entry(n) \in ToSet(Shown) \cup ToSet(u) \cup ToSet(c)
  PROVE  \/ Entry(n) \in ToSet(Shown) /\ Less(n, next)
         \/ \E j \in 1..Len(u) : n = Batch[j]
         \/ /\ c # <<>> /\ Group(walk, n) = Group(walk, Batch[Len(u) + 1])
            /\ Less(n, PrefixSuccessor(Group(walk, Batch[Len(u) + 1])))
<1>1. n \in Strings /\ walk \in Walk
  BY TypeFacts
<1>2. CASE Entry(n) \in ToSet(Shown)
  <2>1. ~Finished /\ Bound = next
    BY DEF Finished, Bound
  <2> QED
    BY <1>2, <2>1 DEF NothingAhead, ShownBehind
<1>3. CASE Entry(n) \in ToSet(u)
  <2>1. PICK j \in 1..Len(u) : Entry(n) = u[j]
    <3>1. u \in Seq(Names)
      BY DEF Added
    <3> QED
      BY <1>3, <3>1, ToSetIs
  <2>2. Entry(n) = Batch[j] /\ Group(walk, Entry(n)) = <<>>
    BY <2>1 DEF Added
  <2>3. Entry(n) = n
    BY <1>1, <2>2, EntryFacts
  <2> QED
    BY <2>2, <2>3
<1>4. CASE Entry(n) \in ToSet(c)
  <2> DEFINE i == Len(u) + 1
             cp == Group(walk, Batch[i])
  <2>1. c # <<>>
    BY <1>4, ToSetEmpty
  <2>2. i <= Len(Batch) /\ cp # <<>> /\ c = <<cp>> /\ Len(u) \in Nat
    BY <2>1 DEF Added
  <2>3. i \in 1..Len(Batch)
    BY <2>2, BatchType
  <2>4. Batch[i] \in Strings /\ InScope(Batch[i])
    BY <2>3, RowsAhead
  <2>5. cp \in Strings /\ Group(walk, cp) = cp /\ walk.delimiter # <<>>
    <3>1. Entry(Batch[i]) = cp
      BY <2>2 DEF Entry
    <3> QED
      BY <2>2, <2>4, <3>1, EntryFacts
  <2>6. Entry(n) = cp
    BY <1>4, <2>2, <2>5, ToSetOne
  <2> HIDE DEF cp
  <2>7. Group(walk, n) = cp /\ IsPrefix(walk.prefix, n)
    BY <1>1, <2>2, <2>5, <2>6, EntryFacts
  <2>8. Less(n, PrefixSuccessor(cp))
    <3>1. Utf8End(walk.delimiter)
      BY ClearFacts
    <3> QED
      BY <1>1, <2>2, <2>7, <3>1, SuccessorOfGroup
  <2> QED
    BY <2>1, <2>7, <2>8 DEF cp
<1> QED
  BY <1>2, <1>3, <1>4

\* A pass over a batch shows nothing twice.
LEMMA AddedOnce ==
  ASSUME TypeOK, Stages, stage = "scan", Clear, Genuine, NothingAhead,
         NEW u, NEW c, Added(u, c), stage' \in {"scan", "page"}, listed' = listed
  PROVE  /\ ToSet(Shown') = ToSet(Shown) \cup ToSet(u) \cup ToSet(c)
         /\ IsInjective(Shown')
<1>1. /\ Shown = listed \o objs \o pres
      /\ Shown' = listed \o (objs \o u) \o (pres \o c)
  BY DEF Shown, Added
<1>2. /\ listed \in Seq(Strings) /\ objs \in Seq(Strings) /\ pres \in Seq(Strings)
      /\ u \in Seq(Names) /\ u \in Seq(Strings) /\ c \in Seq(Strings)
      /\ Len(u) \in Nat /\ Len(Batch) \in Nat /\ Len(u) <= Len(Batch)
  BY TypeFacts, BatchType, SeqMonotonic DEF Added
<1>3. \A j \in 1..Len(u) : j \in 1..Len(Batch)
  BY <1>2
<1>4. ASSUME NEW n \in ToSet(u)
      PROVE  n \in Names /\ InScope(n) /\ Entry(n) = n /\ ~Less(n, next) /\ Group(walk, n) = <<>>
  <2>1. PICK j \in 1..Len(u) : n = u[j]
    BY <1>2, ToSetIs
  <2>2. n = Batch[j] /\ Group(walk, n) = <<>> /\ j \in 1..Len(Batch)
    BY <1>3, <2>1 DEF Added
  <2> QED
    BY <2>2, RowsAhead DEF Entry
<1>5. \A n \in Names : InScope(n) /\ Entry(n) \in ToSet(Shown) => Less(n, next)
  BY DEF NothingAhead, ShownBehind, Finished, Bound
<1>6. ToSet(Shown) \cap ToSet(u) = {}
  BY <1>4, <1>5
<1>7. IsInjective(u)
  <2>1. \A i, j \in 1..Len(u) : i < j => Less(u[i], u[j])
    BY <1>3, TypeFacts, BatchFacts DEF Added
  <2>2. ASSUME NEW i \in 1..Len(u), NEW j \in 1..Len(u), u[i] = u[j]
        PROVE  i = j
    <3>1. u[i] \in Strings
      BY <1>2, ElementOfSeq
    <3>2. ~(i < j) /\ ~(j < i)
      BY <2>1, <2>2, <3>1, LessIrreflexive
    <3> QED
      BY <1>2, <3>2
  <2>3. DOMAIN u = 1..Len(u)
    BY <1>2, ToSetIs
  <2> QED
    BY <2>2, <2>3 DEF IsInjective
<1>8. /\ IsInjective(c) /\ ToSet(Shown) \cap ToSet(c) = {}
      /\ ToSet(u) \cap ToSet(c) = {}
  <2>1. CASE c = <<>>
    BY <2>1, ToSetEmpty
  <2>2. CASE c # <<>>
    <3> DEFINE i == Len(u) + 1
               cp == Group(walk, Batch[i])
    <3>1. i <= Len(Batch) /\ cp # <<>> /\ c = <<cp>>
      BY <2>2 DEF Added
    <3>2. i \in 1..Len(Batch)
      BY <1>2, <3>1
    <3>3. /\ Batch[i] \in Strings /\ Batch[i] \in Names /\ InScope(Batch[i])
          /\ ~Less(Batch[i], next)
      BY <3>2, RowsAhead
    <3>4. Entry(Batch[i]) = cp
      BY <3>1 DEF Entry
    <3>5. cp \in Strings /\ Group(walk, cp) = cp
      BY <3>1, <3>3, <3>4, EntryFacts
    <3>6. IsInjective(c) /\ ToSet(c) = {cp}
      BY <3>1, <3>5, ToSetOne
    <3>7. cp \notin ToSet(Shown)
      BY <1>5, <3>3, <3>4
    <3>8. cp \notin ToSet(u)
      BY <1>4, <3>1, <3>5
    <3> QED
      BY <3>6, <3>7, <3>8
  <2> QED
    BY <2>1, <2>2
<1>9. IsInjective(Shown)
  BY DEF NothingAhead
<1> DEFINE old == listed \o objs \o pres
           new == listed \o (objs \o u) \o (pres \o c)
<1>10. /\ ToSet(new) = ToSet(old) \cup ToSet(u) \cup ToSet(c)
       /\ IsInjective(new) <=>
            /\ IsInjective(old) /\ IsInjective(u) /\ IsInjective(c)
            /\ ToSet(old) \cap ToSet(u) = {}
            /\ ToSet(old) \cap ToSet(c) = {}
            /\ ToSet(u) \cap ToSet(c) = {}
  <2>1. /\ listed \in Seq(Strings) /\ objs \in Seq(Strings) /\ pres \in Seq(Strings)
        /\ u \in Seq(Strings) /\ c \in Seq(Strings)
    BY <1>2
  <2> QED
    BY ONLY <2>1, PageGrows
<1>11. Shown = old /\ Shown' = new
  BY <1>1
<1> HIDE DEF old, new
<1> QED
  BY <1>6, <1>7, <1>8, <1>9, <1>10, <1>11

\* Where an object that stays is, seen from a batch.
LEMMA SteadyPlaces ==
  ASSUME TypeOK, Stages, stage = "scan", Clear, Genuine,
         AllShown, NothingAhead, DeletesShown, NEW n \in steady, Wanted(n)
  PROVE  \/ Entry(n) \in ToSet(Shown)
         \/ \E i \in 1..Len(Batch) : Batch[i] = n
         \/ Len(Batch) = BatchSize /\ \A i \in 1..Len(Batch) : Less(Batch[i], n)
<1>1. n \in Names /\ n \in Strings /\ walk.prefix \in Strings
  BY TypeFacts
<1>2. ~Finished /\ Bound = next
  BY DEF Finished, Bound
<1>3. SUFFICES ASSUME Entry(n) \notin ToSet(Shown)
               PROVE  n \in live /\ InRange(n)
  BY TypeFacts, BatchFacts
<1>4. ~Less(n, next)
  BY <1>2, <1>3 DEF AllShown
<1>5. n \in live
  <2>1. ToSet(listed) \subseteq ToSet(Shown)
    <3>1. Shown = listed \o objs \o pres
      BY DEF Shown
    <3>2. ToSet(Shown) = ToSet(listed) \cup ToSet(objs) \cup ToSet(pres)
      BY <3>1, TypeFacts, ShownParts
    <3> QED
      BY <3>2
  <2> QED
    BY <1>3, <2>1 DEF DeletesShown
<1>6. InRange(n)
  <2>1. IsPrefix(walk.prefix, n)
    BY DEF Wanted
  <2>2. CASE walk.prefix = <<>>
    <3>1. PrefixSuccessor(<<>>) = <<>>
      <4>1. Len(<<>>) = 0
        BY EmptySeq
      <4>2. {i \in 1..Len(<<>>) : <<>>[i] # 255} = {}
        BY <4>1
      <4> QED
        BY <4>2 DEF PrefixSuccessor
    <3> QED
      BY <1>4, <2>2, <3>1 DEF InRange
  <2>3. CASE walk.prefix # <<>>
    <3>1. Less(n, PrefixSuccessor(walk.prefix))
      BY <1>1, <2>1, <2>3, ClearFacts, SuccessorAbove
    <3> QED
      BY <1>4, <3>1 DEF InRange
  <2> QED
    BY <2>2, <2>3
<1> QED
  BY <1>5, <1>6

\* After objects were added, the V1 marker is the last of them, and the next
\* page starts right after it.
LEMMA ObjectMarker ==
  ASSUME TypeOK, Stages, stage = "scan", Clear, Genuine, MarkerAhead,
         walk.api = "v1", NEW u, Added(u, <<>>), u # <<>>, walk' = walk
  PROVE  /\ Len(u) \in 1..Len(Batch)
         /\ NextCursor' = Batch[Len(u)]
         /\ PageToken(walk, NextCursor') = After(Batch[Len(u)])
<1> DEFINE k == Len(u)
           o == Batch[k]
           c == LastOf(pres)
<1>1. /\ u \in Seq(Names) /\ u \in Seq(Strings) /\ objs' = objs \o u
      /\ pres' = pres \o <<>>
      /\ k \in Nat /\ k <= Len(Batch) /\ Len(Batch) \in Nat
  BY BatchType, TypeFacts, SeqMonotonic DEF Added
<1>2. k \in 1..k /\ k \in 1..Len(Batch)
  <2>1. k \in 1..k
    BY <1>1, LastElement
  <2> QED
    BY <1>1, <2>1
<1>3. u[k] = o /\ Group(walk, o) = <<>>
  BY <1>2 DEF Added
<1>4. /\ o \in Names /\ o \in Strings /\ o \in ever /\ InScope(o) /\ ~Less(o, next)
  BY <1>2, RowsAhead
<1>5. LastOf(objs') = o
  BY <1>1, <1>3, TypeFacts, LastConcat
<1>6. pres' = pres
  BY <1>1, TypeFacts, ConcatEmptySeq
<1>7. NextCursor' = Later(o, c)
  BY <1>5, <1>6 DEF NextCursor, Later, LastOf
<1>8. ~Less(o, c)
  <2>1. CASE pres = <<>>
    <3>1. c = <<>>
      BY <2>1 DEF LastOf
    <3> QED
      BY <1>4, <3>1, EmptyLeast
  <2>2. CASE pres # <<>>
    <3>1. walk.delimiter # <<>>
      BY <2>2 DEF Stages
    <3>2. c \in Strings /\ c \in ToSet(pres)
      BY <2>2, TypeFacts, LastElement
    <3>3. c # <<>>
      BY <3>1, <3>2, ClearFacts DEF PageGenuine
    <3>4. LastOf(objs) \in Strings
      BY TypeFacts, LastElement, EmptyString DEF LastOf
    <3> DEFINE m == Later(LastOf(objs), c)
               t == PageToken(walk, m)
    <3>5. m \in Strings /\ ~Less(m, c)
      BY <3>2, <3>4, LaterAbove
    <3>6. m # <<>>
      BY <3>2, <3>3, <3>5, EmptyLeast
    <3>7. objs \o pres # <<>>
      BY <2>2, TypeFacts, LastConcat
    <3>8. ~Less(next, t)
      BY <3>7 DEF MarkerAhead, NextCursor
    <3>9. Less(m, t) /\ t \in Strings
      BY <3>5, <3>6, ClearFacts, TypeFacts, TokenAboveMarker, TokenType
    <3> HIDE DEF m, t, c, o
    <3>10. Less(c, t)
      BY <3>2, <3>5, <3>9, NotAbove
    <3>11. Less(c, next)
      BY <3>2, <3>8, <3>9, <3>10, TypeFacts, NotBelow
    <3>12. Less(c, o)
      BY <1>4, <3>2, <3>11, TypeFacts, NotBelow
    <3> QED
      BY <1>4, <3>2, <3>12, LessAsymmetric
  <2> QED
    BY <2>1, <2>2
<1>9. NextCursor' = o
  BY <1>7, <1>8 DEF Later
<1>10. o # <<>>
  BY <1>4, Constants
<1>11. ~(walk.delimiter # <<>> /\ IsSuffix(walk.delimiter, o))
  BY <1>3, <1>4 DEF Clear, MarkerClear, InScope
<1>12. PageToken(walk, o) = After(o)
  BY <1>10, <1>11 DEF PageToken
<1> QED
  BY <1>2, <1>9, <1>12

\* After a common prefix was added it is the V1 marker, and the next page
\* starts behind its group.
LEMMA GroupMarker ==
  ASSUME NEW w \in Walk, w.api = "v1", PlainEnd(w.delimiter),
         NEW n \in Strings, IsPrefix(w.prefix, n), Group(w, n) # <<>>,
         NEW o \in Seq(Strings),
         \A e \in ToSet(o) : /\ Group(w, e) = <<>>
                             /\ Less(e, PrefixSuccessor(Group(w, n)))
  PROVE  /\ Later(LastOf(o), Group(w, n)) = Group(w, n)
         /\ PageToken(w, Group(w, n)) = PrefixSuccessor(Group(w, n))
<1> DEFINE cp == Group(w, n)
<1>1. /\ cp \in Strings /\ IsSuffix(w.delimiter, cp) /\ w.delimiter # <<>>
      /\ LastOf(cp) = LastOf(w.delimiter)
      /\ \A m \in Strings : IsPrefix(cp, m) => Group(w, m) = cp
  BY GroupFacts
<1>2. cp # <<>>
  OBVIOUS
<1> HIDE DEF cp
<1>3. PageToken(w, cp) = PrefixSuccessor(cp)
  BY <1>1, <1>2 DEF PageToken
<1>4. PlainEnd(cp)
  BY <1>1 DEF PlainEnd
<1>5. CASE o = <<>>
  <2>1. LastOf(o) = <<>> /\ Less(<<>>, cp)
    BY <1>1, <1>2, <1>5, EmptyLeast DEF LastOf
  <2> QED
    BY <1>3, <2>1 DEF Later, cp
<1>6. CASE o # <<>>
  <2> DEFINE e == LastOf(o)
  <2>1. e \in Strings /\ e \in ToSet(o)
    BY <1>6, LastElement
  <2>2. Group(w, e) = <<>> /\ Less(e, PrefixSuccessor(cp))
    BY <2>1 DEF cp
  <2> HIDE DEF e
  <2>3. ~IsPrefix(cp, e)
    BY <1>1, <1>2, <2>1, <2>2
  <2>4. Less(e, cp)
    BY <1>1, <1>2, <1>4, <2>1, <2>2, <2>3, SuccessorExact
  <2> QED
    BY <1>3, <2>4 DEF Later, cp, e
<1> QED
  BY <1>5, <1>6

\* T holds what stays below b, and nothing from b on.
Covers(T, b) == \A n \in steady : Wanted(n) /\ Less(n, b) => Entry(n) \in T
Behind(T, b) == \A n \in Names : InScope(n) /\ Entry(n) \in T => Less(n, b)
SplitsAt(T, b) == Covers(T, b) /\ Behind(T, b)

\* A bound between the objects added and the rest of the table splits it.
LEMMA RowsSplit ==
  ASSUME TypeOK, Stages, stage = "scan", Clear, Genuine,
         AllShown, NothingAhead, DeletesShown,
         NEW u, Added(u, <<>>), NEW b \in Strings, ~Less(b, next),
         \A j \in 1..Len(Batch) : Less(Batch[j], b) <=> j <= Len(u),
         NEW r \in 1..Len(Batch), \A n \in Strings : Less(Batch[r], n) => ~Less(n, b)
  PROVE  SplitsAt(ToSet(Shown) \cup ToSet(u) \cup ToSet(<<>>), b)
<1> DEFINE T == ToSet(Shown) \cup ToSet(u) \cup ToSet(<<>>)
<1>1. /\ u \in Seq(Names) /\ Len(u) \in Nat /\ Len(u) <= Len(Batch)
      /\ Len(Batch) \in Nat
  BY BatchType DEF Added
<1>2. ASSUME NEW n \in steady, Wanted(n), Less(n, b)
      PROVE  Entry(n) \in T
  <2>1. n \in Strings
    BY TypeFacts
  <2>2. CASE \E j \in 1..Len(Batch) : Batch[j] = n
    <3>1. PICK j \in 1..Len(Batch) : Batch[j] = n
      BY <2>2
    <3>2. j \in 1..Len(u)
      BY <1>1, <1>2, <3>1
    <3>3. n = u[j] /\ Group(walk, n) = <<>>
      BY <3>1, <3>2 DEF Added
    <3>4. n \in ToSet(u)
      BY <1>1, <3>2, <3>3, ToSetIs
    <3> QED
      BY <3>3, <3>4 DEF Entry
  <2>3. CASE \A i \in 1..Len(Batch) : Less(Batch[i], n)
    BY <1>2, <2>1, <2>3
  <2> QED
    BY <1>2, <2>2, <2>3, SteadyPlaces
<1>3. ASSUME NEW n \in Names, InScope(n), Entry(n) \in T
      PROVE  Less(n, b)
  <2>1. n \in Strings /\ next \in Strings
    BY TypeFacts
  <2>2. CASE Less(n, next)
    BY <2>1, <2>2, NotBelow
  <2>3. CASE \E j \in 1..Len(u) : n = Batch[j]
    <3>1. PICK j \in 1..Len(u) : n = Batch[j]
      BY <2>3
    <3>2. j \in 1..Len(Batch) /\ j <= Len(u)
      BY <1>1
    <3> QED
      BY <3>1, <3>2
  <2> QED
    BY <1>3, <2>2, <2>3, AddedBehind
<1> QED
  BY <1>2, <1>3 DEF SplitsAt, Covers, Behind

\* So does the bound right after the last object added.
LEMMA SplitAfterRow ==
  ASSUME TypeOK, Stages, stage = "scan", Clear, Genuine,
         AllShown, NothingAhead, DeletesShown,
         NEW u, Added(u, <<>>), Len(u) \in 1..Len(Batch)
  PROVE  SplitsAt(ToSet(Shown) \cup ToSet(u) \cup ToSet(<<>>),
                  After(Batch[Len(u)]))
<1> DEFINE k == Len(u)
           b == After(Batch[k])
<1>1. Batch[k] \in Strings /\ ~Less(Batch[k], next) /\ next \in Strings
  BY RowsAhead, TypeFacts
<1>2. /\ b \in Strings /\ Less(Batch[k], b)
      /\ \A m \in Strings : Less(Batch[k], m) <=> ~Less(m, b)
  BY <1>1, AfterLeast
<1> HIDE DEF b
<1>3. ~Less(b, next)
  BY <1>1, <1>2, NotAbove, LessAsymmetric
<1>4. ASSUME NEW j \in 1..Len(Batch)
      PROVE  Less(Batch[j], b) <=> j <= k
  <2>1. Batch[j] \in Strings
    BY RowsAhead
  <2>2. Less(Batch[j], b) <=> ~Less(Batch[k], Batch[j])
    BY <1>2, <2>1
  <2>3. /\ \A x, y \in 1..Len(Batch) : x < y => Less(Batch[x], Batch[y])
        /\ Len(Batch) \in Nat
    BY TypeFacts, BatchFacts
  <2>4. j \in Nat /\ k \in Nat
    BY <2>3
  <2>5. CASE j < k
    <3>1. Less(Batch[j], Batch[k])
      BY <2>3, <2>5
    <3>2. ~Less(Batch[k], Batch[j])
      BY <1>1, <2>1, <3>1, LessAsymmetric
    <3> QED
      BY <2>2, <2>4, <2>5, <3>2
  <2>6. CASE j = k
    <3>1. ~Less(Batch[k], Batch[j])
      BY <1>1, <2>6, LessIrreflexive
    <3> QED
      BY <2>2, <2>4, <2>6, <3>1
  <2>7. CASE k < j
    <3>1. Less(Batch[k], Batch[j])
      BY <2>3, <2>7
    <3> QED
      BY <2>2, <2>4, <2>7, <3>1
  <2> QED
    BY <2>4, <2>5, <2>6, <2>7
<1>5. \A n \in Strings : Less(Batch[k], n) => ~Less(n, b)
  BY <1>2
<1>6. SplitsAt(ToSet(Shown) \cup ToSet(u) \cup ToSet(<<>>), b)
  BY <1>2, <1>3, <1>4, <1>5, RowsSplit
<1> QED
  BY <1>6 DEF b

\* And the row after the last object added.
LEMMA SplitAtRow ==
  ASSUME TypeOK, Stages, stage = "scan", Clear, Genuine,
         AllShown, NothingAhead, DeletesShown,
         NEW i \in 1..Len(Batch), NEW u, Added(u, <<>>), Len(u) = i - 1
  PROVE  SplitsAt(ToSet(Shown) \cup ToSet(u) \cup ToSet(<<>>), Batch[i])
<1>1. Batch[i] \in Strings /\ ~Less(Batch[i], next) /\ next \in Strings
  BY RowsAhead, TypeFacts
<1>2. /\ \A x, y \in 1..Len(Batch) : x < y => Less(Batch[x], Batch[y])
      /\ Len(Batch) \in Nat
  BY TypeFacts, BatchFacts
<1>3. ASSUME NEW j \in 1..Len(Batch)
      PROVE  Less(Batch[j], Batch[i]) <=> j <= Len(u)
  <2>1. Batch[j] \in Strings
    BY RowsAhead
  <2>2. i \in Nat /\ j \in Nat /\ (j <= Len(u) <=> j < i)
    BY <1>2
  <2>3. CASE j < i
    BY <1>2, <2>2, <2>3
  <2>4. CASE j = i
    BY <1>1, <2>2, <2>4, LessIrreflexive
  <2>5. CASE i < j
    <3>1. Less(Batch[i], Batch[j])
      BY <1>2, <2>5
    <3>2. ~Less(Batch[j], Batch[i])
      BY <1>1, <2>1, <3>1, LessAsymmetric
    <3> QED
      BY <2>2, <2>5, <3>2
  <2> QED
    BY <2>2, <2>3, <2>4, <2>5
<1>4. \A n \in Strings : Less(Batch[i], n) => ~Less(n, Batch[i])
  BY <1>1, LessAsymmetric
<1> QED
  BY <1>1, <1>3, <1>4, RowsSplit

\* And the end of the group added.
LEMMA SplitAfterGroup ==
  ASSUME TypeOK, Stages, stage = "scan", Clear, Genuine,
         AllShown, NothingAhead, DeletesShown,
         NEW i \in 1..Len(Batch), NEW u, Len(u) = i - 1,
         NEW cp, cp = Group(walk, Batch[i]), cp # <<>>, Added(u, <<cp>>)
  PROVE  /\ PrefixSuccessor(cp) # <<>>
         /\ SplitsAt(ToSet(Shown) \cup ToSet(u) \cup ToSet(<<cp>>),
                     PrefixSuccessor(cp))
<1> DEFINE b == PrefixSuccessor(cp)
           T == ToSet(Shown) \cup ToSet(u) \cup ToSet(<<cp>>)
<1>1. /\ Batch[i] \in Strings /\ ~Less(Batch[i], next) /\ next \in Strings
      /\ InScope(Batch[i]) /\ walk \in Walk
  BY RowsAhead, TypeFacts
<1>2. walk.delimiter # <<>> /\ IsPrefix(walk.prefix, Batch[i])
  <2>1. walk.delimiter # <<>>
    BY NoGroup
  <2> QED
    BY <1>1, <2>1 DEF InScope
<1>3. PlainEnd(walk.delimiter) /\ Utf8End(walk.delimiter)
  BY ClearFacts
<1>4. /\ cp \in Strings /\ IsPrefix(cp, Batch[i])
      /\ LastOf(cp) = LastOf(walk.delimiter)
      /\ \A m \in Strings : IsPrefix(cp, m) => Group(walk, m) = cp
  BY <1>1, <1>2, GroupFacts
<1>5. b \in Strings /\ b # <<>> /\ Less(Batch[i], b)
  BY <1>1, <1>2, <1>3, SuccessorOfGroup
<1>6. PlainEnd(cp)
  BY <1>2, <1>3, <1>4 DEF PlainEnd
<1>7. /\ u \in Seq(Names) /\ Len(u) \in Nat /\ Len(u) <= Len(Batch)
      /\ Len(Batch) \in Nat /\ Len(u) + 1 = i
  BY BatchType DEF Added
<1>8. ToSet(<<cp>>) = {cp} /\ <<cp>> # <<>>
  <2>1. Len(<<cp>>) = 1 /\ Len(<<>>) = 0
    BY <1>4, EmptySeq
  <2> QED
    BY <1>4, <2>1, ToSetOne
<1>9. \A x, y \in 1..Len(Batch) : x < y => Less(Batch[x], Batch[y])
  BY TypeFacts, BatchFacts
<1>10. ASSUME NEW n \in Strings, ~Less(n, Batch[i]), Less(n, b)
       PROVE  Entry(n) \in T
  <2>1. ~Less(Batch[i], cp)
    BY <1>1, <1>4, PrefixNotAbove
  <2>2. ~Less(n, cp)
    BY <1>1, <1>4, <1>10, <2>1, NotLessTransitive
  <2>3. IsPrefix(cp, n)
    BY <1>4, <1>6, <1>10, <2>2, SuccessorExact
  <2>4. Group(walk, n) = cp
    BY <1>4, <2>3
  <2> QED
    BY <1>8, <2>4 DEF Entry
<1> HIDE DEF b
<1>11. ASSUME NEW n \in steady, Wanted(n), Less(n, b)
       PROVE  Entry(n) \in T
  <2>1. n \in Strings
    BY TypeFacts
  <2>2. CASE \E j \in 1..Len(Batch) : Batch[j] = n
    <3>1. PICK j \in 1..Len(Batch) : Batch[j] = n
      BY <2>2
    <3>2. CASE j < i
      <4>1. j \in 1..Len(u)
        BY <1>7, <3>2
      <4>2. n = u[j] /\ Group(walk, n) = <<>>
        BY <3>1, <4>1 DEF Added
      <4>3. n \in ToSet(u)
        BY <1>7, <4>1, <4>2, ToSetIs
      <4> QED
        BY <4>2, <4>3 DEF Entry
    <3>3. CASE j = i
      BY <1>1, <1>10, <1>11, <2>1, <3>1, <3>3, LessIrreflexive
    <3>4. CASE i < j
      <4>1. Less(Batch[i], n)
        BY <1>9, <3>1, <3>4
      <4> QED
        BY <1>1, <1>10, <1>11, <2>1, <4>1, LessAsymmetric
    <3> QED
      BY <1>7, <3>2, <3>3, <3>4
  <2>3. CASE \A j \in 1..Len(Batch) : Less(Batch[j], n)
    BY <1>1, <1>10, <1>11, <2>1, <2>3, LessAsymmetric
  <2> QED
    BY <1>11, <2>2, <2>3, SteadyPlaces
<1>12. ASSUME NEW n \in Names, InScope(n), Entry(n) \in T
       PROVE  Less(n, b)
  <2>1. n \in Strings
    BY TypeFacts
  <2>2. CASE Less(n, next)
    <3>1. Less(n, Batch[i])
      BY <1>1, <2>1, <2>2, NotBelow
    <3> QED
      BY <1>1, <1>5, <2>1, <3>1, LessTransitive
  <2>3. CASE \E j \in 1..Len(u) : n = Batch[j]
    <3>1. PICK j \in 1..Len(u) : n = Batch[j]
      BY <2>3
    <3>2. j \in 1..Len(Batch) /\ j < i
      BY <1>7
    <3>3. Less(n, Batch[i])
      BY <1>9, <3>1, <3>2
    <3> QED
      BY <1>1, <1>5, <2>1, <3>3, LessTransitive
  <2>4. CASE Less(n, PrefixSuccessor(Group(walk, Batch[Len(u) + 1])))
    BY <1>7, <2>4 DEF b
  <2> QED
    BY <1>12, <2>2, <2>3, <2>4, AddedBehind
<1> QED
  BY <1>5, <1>11, <1>12 DEF SplitsAt, Covers, Behind, b

\* A walk that goes on from where its entries split the table is exact.
LEMMA SplitIsExact ==
  ASSUME UNCHANGED <<walk, steady>>, ~Finished', NEW b, Bound' = b,
         NEW T, T = ToSet(Shown'), SplitsAt(T, b), IsInjective(Shown')
  PROVE  AllShown' /\ NothingAhead'
<1>1. \A n : /\ Wanted(n)' <=> Wanted(n)
             /\ Entry(n)' = Entry(n)
             /\ InScope(n)' <=> InScope(n)
  BY DEF Wanted, Entry, InScope
<1>2. AllShown'
  BY <1>1 DEF AllShown, SplitsAt, Covers
<1>3. ShownBehind(Bound)'
  BY <1>1 DEF ShownBehind, SplitsAt, Behind
<1>4. IsInjective(Shown)'
  OBVIOUS
<1> QED
  BY <1>2, <1>3, <1>4 DEF NothingAhead

\* The marker is ahead when it leads to the bound of the scan.
LEMMA SplitMarker ==
  ASSUME UNCHANGED walk, NEW T, T = ToSet(Shown'), NEW b \in Strings,
         SplitsAt(T, b), next' = b, PageToken(walk, NextCursor') = b
  PROVE  MarkerAhead'
<1>1. \A n : /\ Entry(n)' = Entry(n)
             /\ InScope(n)' <=> InScope(n)
  BY DEF Entry, InScope
<1>2. ShownBehind(PageToken(walk, NextCursor))'
  BY <1>1 DEF ShownBehind, SplitsAt, Behind
<1>3. ~Less(next, PageToken(walk, NextCursor))'
  BY LessIrreflexive
<1> QED
  BY <1>2, <1>3 DEF MarkerAhead

\* The pass over a whole batch keeps the walk exact.
LEMMA ThroughExact ==
  ASSUME TypeOK, Stages, stage = "scan", Clear, Genuine,
         AllShown, NothingAhead, DeletesShown, MarkerAhead, ScanThrough
  PROVE  AllShown' /\ NothingAhead' /\ MarkerAhead'
<1> USE DEF page, client, history
<1>1. /\ UNCHANGED <<live, token, walk, cursor, todo, listed, failed, steady, ever>>
      /\ stage' \in {"scan", "page"}
      /\ Len(Batch) < BatchSize => stage' = "page"
      /\ ~(Len(Batch) < BatchSize) =>
           stage' = "scan" /\ next' = After(Batch[Len(Batch)])
  BY DEF ScanThrough
<1>2. Added(Batch, <<>>)
  BY ThroughAdds
<1> DEFINE T == ToSet(Shown) \cup ToSet(Batch) \cup ToSet(<<>>)
<1>3. ToSet(Shown') = T /\ IsInjective(Shown')
  BY <1>1, <1>2, AddedOnce
<1>4. CASE Len(Batch) < BatchSize
  <2>1. stage' = "page" /\ Finished'
    BY <1>1, <1>4 DEF Finished, Stages
  <2>2. ASSUME NEW n \in steady, Wanted(n)
        PROVE  Entry(n) \in T
    <3>1. ~(Len(Batch) = BatchSize)
      BY <1>4, BatchType, Constants
    <3>2. CASE \E i \in 1..Len(Batch) : Batch[i] = n
      <4>1. PICK i \in 1..Len(Batch) : Batch[i] = n
        BY <3>2
      <4>2. Group(walk, n) = <<>>
        BY <1>2, <4>1 DEF Added
      <4>3. n \in ToSet(Batch)
        BY <4>1, BatchType, ToSetIs
      <4> QED
        BY <4>2, <4>3 DEF Entry
    <3> QED
      BY <2>2, <3>1, <3>2, SteadyPlaces
  <2>3. \A n : (Wanted(n)' <=> Wanted(n)) /\ Entry(n)' = Entry(n)
    BY <1>1 DEF Wanted, Entry
  <2>4. AllShown'
    BY <1>1, <1>3, <2>2, <2>3 DEF AllShown
  <2>5. NothingAhead'
    BY <1>3, <2>1 DEF NothingAhead
  <2>6. MarkerAhead'
    BY <2>1 DEF MarkerAhead
  <2> QED
    BY <2>4, <2>5, <2>6
<1>5. CASE ~(Len(Batch) < BatchSize)
  <2> DEFINE b == After(Batch[Len(Batch)])
  <2>1. Len(Batch) \in 1..Len(Batch) /\ Batch # <<>>
    <3>1. Len(Batch) \in 1..Len(Batch) /\ Len(Batch) # 0
      BY <1>5, BatchType, Constants
    <3> QED
      BY <3>1, EmptySeq
  <2>2. SplitsAt(T, b)
    BY <1>2, <2>1, SplitAfterRow
  <2>3. b \in Strings
    BY <2>1, BatchType, AfterLeast
  <2>4. stage' = "scan" /\ next' = b
    BY <1>1, <1>5
  <2>5. walk.api = "v1" => PageToken(walk, NextCursor') = b
    BY <1>1, <1>2, <2>1, ObjectMarker
  <2> HIDE DEF b, T
  <2>6. ~Finished' /\ Bound' = b
    BY <2>4 DEF Finished, Bound
  <2>7. AllShown' /\ NothingAhead'
    BY <1>1, <1>3, <2>2, <2>6, SplitIsExact
  <2>8. MarkerAhead'
    <3>1. CASE walk.api = "v1"
      BY <1>1, <1>3, <2>2, <2>3, <2>4, <2>5, <3>1, SplitMarker
    <3>2. CASE walk.api # "v1"
      BY <1>1, <3>2 DEF MarkerAhead
    <3> QED
      BY <3>1, <3>2
  <2> QED
    BY <2>7, <2>8
<1> QED
  BY <1>4, <1>5

\* So does the pass up to a common prefix.
LEMMA GroupExact ==
  ASSUME TypeOK, Stages, stage = "scan", Clear, Genuine, TypeOK', Genuine',
         AllShown, NothingAhead, DeletesShown, MarkerAhead, ScanToGroup
  PROVE  AllShown' /\ NothingAhead' /\ MarkerAhead'
<1> USE DEF page, client, history
<1>1. /\ UNCHANGED <<live, token, walk, cursor, todo, listed, failed, steady, ever>>
      /\ stage' \in {"scan", "page"}
  BY DEF ScanToGroup
<1>2. PICK i \in 1..Len(Batch), cp \in Strings :
        /\ cp = Group(walk, Batch[i]) /\ cp # <<>>
        /\ next' = PrefixSuccessor(cp)
        /\ stage' = IF PrefixSuccessor(cp) = <<>> THEN "page" ELSE stage
        /\ Len(Before(Batch, i)) = i - 1
        /\ Added(Before(Batch, i), <<cp>>)
  BY GroupAdds
<1> DEFINE u == Before(Batch, i)
           T == ToSet(Shown) \cup ToSet(u) \cup ToSet(<<cp>>)
           b == PrefixSuccessor(cp)
<1> HIDE DEF u
<1>3. Added(u, <<cp>>) /\ Len(u) = i - 1
  BY <1>2 DEF u
<1>4. b # <<>> /\ SplitsAt(T, b)
  BY <1>2, <1>3, SplitAfterGroup
<1>5. ToSet(Shown') = T /\ IsInjective(Shown')
  BY <1>1, <1>3, AddedOnce
<1>6. b \in Strings /\ next' = b /\ stage' = "scan"
  BY <1>2, <1>4, SuccessorType
<1> HIDE DEF T, b
<1>7. ~Finished' /\ Bound' = b
  BY <1>6 DEF Finished, Bound
<1>8. AllShown' /\ NothingAhead'
  BY <1>1, <1>4, <1>5, <1>7, SplitIsExact
<1>9. MarkerAhead'
  <2>1. CASE walk.api = "v1"
    <3>1. /\ Batch[i] \in Strings /\ InScope(Batch[i]) /\ walk.delimiter # <<>>
      BY <1>2, RowsAhead, NoGroup
    <3>2. IsPrefix(walk.prefix, Batch[i])
      BY <3>1 DEF InScope
    <3>3. objs' \in Seq(Strings) /\ objs' \in Seq(Names)
      BY Constants, SeqMonotonic DEF TypeOK
    <3>4. PageGenuine'
      <4>1. PlainEnd(walk.prefix) /\ Utf8End(walk.delimiter)
        BY <3>1, ClearFacts
      <4> QED
        BY <1>1, <4>1 DEF Genuine
    <3>5. ASSUME NEW e \in ToSet(objs')
          PROVE  Group(walk, e) = <<>> /\ Less(e, b)
      <4>1. Group(walk, e) = <<>> /\ IsPrefix(walk.prefix, e) /\ e \in Names
        BY <1>1, <1>6, <3>3, <3>4, ToSetIs DEF PageGenuine, Wanted
      <4>2. InScope(e) /\ Entry(e) = e
        BY <4>1 DEF InScope, Entry
      <4>3. e \in ToSet(Shown')
        <5>1. listed' \in Seq(Strings) /\ pres' \in Seq(Strings)
          BY DEF TypeOK, Strings
        <5>2. Shown' = listed' \o objs' \o pres'
          BY <1>6 DEF Shown
        <5>3. ToSet(Shown') = ToSet(listed') \cup ToSet(objs') \cup ToSet(pres')
          BY <3>3, <5>1, <5>2, ShownParts
        <5> QED
          BY <3>5, <5>3
      <4> QED
        BY <1>4, <1>5, <4>1, <4>2, <4>3 DEF SplitsAt, Behind
    <3>6. LastOf(pres') = cp
      <4>1. pres' = pres \o <<cp>> /\ <<cp>> \in Seq(Strings)
        BY <1>3 DEF Added
      <4>2. Len(<<cp>>) = 1 /\ <<cp>>[1] = cp /\ Len(<<>>) = 0
        BY EmptySeq
      <4>3. <<cp>> # <<>>
        BY <4>2
      <4>4. LastOf(pres \o <<cp>>) = <<cp>>[Len(<<cp>>)]
        BY <4>1, <4>3, TypeFacts, LastConcat
      <4> QED
        BY <4>1, <4>2, <4>4
    <3>7. /\ Later(LastOf(objs'), cp) = cp
          /\ PageToken(walk, cp) = b
      BY <1>2, <2>1, <3>1, <3>2, <3>3, <3>5, ClearFacts, TypeFacts, GroupMarker DEF b
    <3>8. NextCursor' = Later(LastOf(objs'), LastOf(pres'))
      BY <1>1, <2>1 DEF NextCursor, Later, LastOf
    <3> QED
      BY <1>1, <1>4, <1>5, <1>6, <3>6, <3>7, <3>8, SplitMarker
  <2>2. CASE walk.api # "v1"
    BY <1>1, <2>2 DEF MarkerAhead
  <2> QED
    BY <2>1, <2>2
<1> QED
  BY <1>8, <1>9

\* So does the pass up to the limit.
LEMMA LimitExact ==
  ASSUME TypeOK, Stages, stage = "scan", Clear, Genuine, TypeOK', PagesFull',
         AllShown, NothingAhead, DeletesShown, MarkerAhead, ScanToLimit
  PROVE  AllShown' /\ NothingAhead' /\ MarkerAhead'
<1> USE DEF page, client, history
<1>1. /\ UNCHANGED <<live, next, pres, walk, cursor, todo, listed, failed, steady, ever>>
      /\ stage' = "page"
  BY DEF ScanToLimit
<1>2. PICK i \in 1..Len(Batch) :
        /\ token' = Batch[i]
        /\ Len(Before(Batch, i)) = i - 1
        /\ Added(Before(Batch, i), <<>>)
  BY LimitAdds
<1> DEFINE u == Before(Batch, i)
           T == ToSet(Shown) \cup ToSet(u) \cup ToSet(<<>>)
<1> HIDE DEF u
<1>3. Added(u, <<>>) /\ Len(u) = i - 1
  BY <1>2 DEF u
<1>4. ToSet(Shown') = T /\ IsInjective(Shown')
  BY <1>1, <1>3, AddedOnce
<1>5. token' # <<>>
  BY <1>2, RowsAhead, Constants
<1>6. ~Finished' /\ Bound' = PageToken(walk, NextCursor')
  BY <1>1, <1>5 DEF Finished, Bound
<1>7. SplitsAt(T, PageToken(walk, NextCursor'))
  <2>1. CASE walk.api # "v1"
    <3>1. NextCursor' = token'
      BY <1>1, <2>1 DEF NextCursor
    <3>2. walk.api \in {"gcs", "v2"}
      BY <2>1, TypeFacts DEF Walk
    <3>3. PageToken(walk, token') = token'
      BY <1>5, <3>2 DEF PageToken
    <3> QED
      BY <1>2, <1>3, <3>1, <3>3, SplitAtRow
  <2>2. CASE walk.api = "v1" /\ u # <<>>
    <3>1. /\ Len(u) \in 1..Len(Batch)
          /\ PageToken(walk, NextCursor') = After(Batch[Len(u)])
      BY <1>1, <1>3, <2>2, ObjectMarker
    <3> QED
      BY <1>3, <3>1, SplitAfterRow
  <2>3. CASE walk.api = "v1" /\ u = <<>>
    <3>1. objs' = objs
      BY <1>3, <2>3, TypeFacts, ConcatEmptySeq DEF Added
    <3>2. NextCursor' = NextCursor
      BY <1>1, <2>3, <3>1 DEF NextCursor, Later, LastOf
    <3>3. objs \o pres # <<>>
      <4>1. Len(objs) + Len(pres) = MaxResults
        BY <1>1, <1>5, <3>1 DEF PagesFull, MaxResults
      <4>2. MaxResults \in Nat \ {0}
        BY TypeFacts, MaxType
      <4>3. Len(objs \o pres) = Len(objs) + Len(pres)
        BY TypeFacts, ConcatProperties
      <4> QED
        BY <4>1, <4>2, <4>3, EmptySeq
    <3> DEFINE t == PageToken(walk, NextCursor)
    <3>4. ~Less(next, t) /\ ShownBehind(t)
      BY <2>3, <3>3 DEF MarkerAhead
    <3>5. T = ToSet(Shown)
      BY <2>3, ToSetEmpty
    <3>6. Behind(T, t)
      BY <3>4, <3>5 DEF ShownBehind, Behind
    <3>7. t \in Strings
      <4>1. NextCursor \in Strings
        <5>1. LastOf(objs) \in Strings /\ LastOf(pres) \in Strings
          BY TypeFacts, LastElement, EmptyString DEF LastOf
        <5> QED
          BY <2>3, <5>1, LaterAbove DEF NextCursor
      <4> QED
        BY <4>1, TypeFacts, TokenType
    <3> HIDE DEF t, T
    <3>8. Covers(T, t)
      <4>1. SUFFICES ASSUME NEW n \in steady, Wanted(n), Less(n, t)
                     PROVE  Entry(n) \in ToSet(Shown)
        BY <3>5 DEF Covers
      <4>2. Less(n, next)
        BY <3>4, <3>7, <4>1, TypeFacts, NotBelow
      <4>3. Bound = next
        BY DEF Bound
      <4> QED
        BY <4>1, <4>2, <4>3 DEF AllShown
    <3> QED
      BY <3>2, <3>6, <3>8 DEF SplitsAt, t
  <2> QED
    BY <2>1, <2>2, <2>3
<1> HIDE DEF T
<1>8. AllShown' /\ NothingAhead'
  BY <1>1, <1>4, <1>6, <1>7, SplitIsExact
<1>9. MarkerAhead'
  BY <1>1 DEF MarkerAhead
<1> QED
  BY <1>8, <1>9

\* A walk begins with nothing shown and nothing wanted behind it.
LEMMA BeginExact ==
  ASSUME TypeOK, Stages, NEW w \in Walks, Begin(w), Clear'
  PROVE  AllShown' /\ NothingAhead' /\ DeletesShown' /\ MarkerAhead'
<1> USE DEF page, client, history
<1>1. /\ stage = "idle" /\ stage' = "request" /\ walk' = w
      /\ cursor' = (IF w.api = "v1" THEN w.after ELSE <<>>)
      /\ steady' = live /\ live' = live /\ listed' = listed /\ todo' = todo
  BY DEF Begin
<1>2. listed = <<>> /\ todo = <<>>
  BY <1>1 DEF Stages
<1>3. w \in Walk /\ w.after \in Strings
  BY Constants, WalkStrings
<1>4. ~Finished' /\ Shown' = <<>> /\ Bound' = PageToken(w, cursor')
  BY <1>1, <1>2 DEF Finished, Shown, Bound
<1>5. PageToken(w, cursor') = (IF w.after = <<>> THEN <<>> ELSE After(w.after))
  <2>1. w.api = "gcs" => w.after = <<>>
    BY ListingAssumption
  <2>2. w.api = "v1" => ~(w.delimiter # <<>> /\ IsSuffix(w.delimiter, w.after))
    BY <1>1 DEF Clear, MarkerClear
  <2>3. w.api \in {"gcs", "v1", "v2"}
    BY <1>3 DEF Walk
  <2>4. CASE w.api = "gcs"
    BY <1>1, <2>1, <2>4 DEF PageToken
  <2>5. CASE w.api = "v1"
    BY <1>1, <2>2, <2>5 DEF PageToken
  <2>6. CASE w.api = "v2"
    BY <1>1, <2>6 DEF PageToken
  <2> QED
    BY <2>3, <2>4, <2>5, <2>6
<1>6. ASSUME NEW n \in live, Less(w.after, n)
      PROVE  ~Less(n, PageToken(w, cursor'))
  <2>1. n \in Strings
    BY TypeFacts
  <2>2. CASE w.after = <<>>
    BY <1>5, <2>1, <2>2, EmptyLeast
  <2>3. CASE w.after # <<>>
    BY <1>3, <1>5, <1>6, <2>1, <2>3, AfterLeast
  <2> QED
    BY <2>2, <2>3
<1>7. AllShown'
  BY <1>1, <1>4, <1>6 DEF AllShown, Wanted
<1>8. NothingAhead'
  BY <1>4, ToSetEmpty DEF NothingAhead, ShownBehind
<1>9. DeletesShown'
  BY <1>1, <1>2, ToSetEmpty DEF DeletesShown
<1>10. MarkerAhead'
  BY <1>1 DEF MarkerAhead
<1> QED
  BY <1>7, <1>8, <1>9, <1>10

\* A request goes on from the cursor, and skips only what the prefix excludes.
LEMMA RequestExact ==
  ASSUME TypeOK, Stages, AllShown, NothingAhead, DeletesShown, Request
  PROVE  AllShown' /\ NothingAhead' /\ DeletesShown' /\ MarkerAhead'
<1> USE DEF page, client, history
<1> DEFINE t == PageToken(walk, cursor)
<1>1. /\ stage = "request" /\ stage' = "scan"
      /\ next' = Later(walk.prefix, t)
      /\ objs' = <<>> /\ pres' = <<>>
      /\ UNCHANGED <<live, walk, cursor, todo, listed, failed, steady, ever>>
  BY DEF Request
<1>2. t \in Strings /\ walk.prefix \in Strings
  BY TypeFacts, TokenType
<1>3. ~Finished /\ Bound = t /\ Shown = listed
  BY <1>1 DEF Finished, Bound, Shown
<1>4. ~Finished' /\ Bound' = next' /\ Shown' = listed
  <2>1. listed \o <<>> = listed
    BY TypeFacts, ConcatEmptySeq
  <2>2. (listed \o <<>>) \o <<>> = listed
    BY <2>1
  <2> QED
    BY <1>1, <2>2 DEF Finished, Bound, Shown
<1>5. next' \in Strings /\ ~Less(next', t)
  BY <1>1, <1>2, LaterAbove
<1>6. \A n : /\ Wanted(n)' <=> Wanted(n)
             /\ Entry(n)' = Entry(n)
             /\ InScope(n)' <=> InScope(n)
  BY <1>1 DEF Wanted, Entry, InScope
<1>7. ASSUME NEW n \in steady, Wanted(n), Less(n, next')
      PROVE  Entry(n) \in ToSet(Shown)
  <2>1. n \in Strings /\ ~Less(n, walk.prefix)
    BY <1>2, <1>7, TypeFacts, PrefixNotAbove DEF Wanted
  <2>2. Less(n, t)
    BY <1>1, <1>7, <2>1 DEF Later
  <2> QED
    BY <1>3, <1>7, <2>2 DEF AllShown
<1> HIDE DEF t
<1>8. ASSUME NEW n \in Names, InScope(n), Entry(n) \in ToSet(Shown)
      PROVE  Less(n, next')
  <2>1. Less(n, t)
    BY <1>3, <1>8 DEF NothingAhead, ShownBehind
  <2> QED
    BY <1>2, <1>5, <2>1, TypeFacts, NotBelow
<1>9. AllShown'
  BY <1>1, <1>3, <1>4, <1>6, <1>7 DEF AllShown
<1>10. ShownBehind(Bound)'
  BY <1>3, <1>4, <1>6, <1>8 DEF ShownBehind
<1>11. NothingAhead'
  BY <1>3, <1>4, <1>10 DEF NothingAhead
<1>12. DeletesShown'
  BY <1>1, <1>6 DEF DeletesShown
<1>13. MarkerAhead'
  <2>1. <<>> \o <<>> = <<>>
    OBVIOUS
  <2> QED
    BY <1>1, <2>1 DEF MarkerAhead
<1> QED
  BY <1>9, <1>11, <1>12, <1>13

\* Taking a page and deleting its objects do not move the walk.
LEMMA ClientExact ==
  ASSUME TypeOK, Stages, AllShown, NothingAhead, DeletesShown,
         Receive \/ DeleteObjects
  PROVE  AllShown' /\ NothingAhead' /\ DeletesShown' /\ MarkerAhead'
<1> USE DEF page, client, history
<1>1. /\ UNCHANGED <<next, objs, pres, token, walk, steady, ever>>
      /\ stage \in {"page", "purge"} /\ stage' \in {"purge", "request", "done"}
      /\ stage' = "request" => token # <<>>
      /\ stage' = "done" => token = <<>>
  BY DEF Receive, DeleteObjects, Proceed
<1>2. Shown' = Shown /\ Bound' = Bound /\ (Finished' <=> Finished)
  <2>1. CASE Receive
    <3>1. /\ stage = "page" /\ listed' = listed \o objs \o pres
          /\ cursor' = NextCursor
      BY <2>1 DEF Receive
    <3> QED
      BY <1>1, <3>1 DEF Shown, Bound, Finished
  <2>2. CASE DeleteObjects
    <3>1. stage = "purge" /\ UNCHANGED <<listed, cursor>>
      BY <2>2 DEF DeleteObjects
    <3> QED
      BY <1>1, <3>1 DEF Shown, Bound, Finished
  <2> QED
    BY <2>1, <2>2
<1>3. \A n : /\ Wanted(n)' <=> Wanted(n)
             /\ Entry(n)' = Entry(n)
             /\ InScope(n)' <=> InScope(n)
  BY <1>1 DEF Wanted, Entry, InScope
<1>4. AllShown'
  BY <1>1, <1>2, <1>3 DEF AllShown
<1>5. Finished \/ ShownBehind(Bound)'
  BY <1>2, <1>3 DEF ShownBehind, NothingAhead
<1>6. NothingAhead'
  BY <1>2, <1>5 DEF NothingAhead
<1>7. DeletesShown'
  <2>1. CASE Receive
    <3>1. /\ stage = "page" /\ listed' = listed \o objs \o pres /\ live' = live
          /\ (todo' = objs /\ walk.purge) \/ todo' = todo
      BY <2>1 DEF Receive
    <3>2. ToSet(listed') = ToSet(listed) \cup ToSet(objs) \cup ToSet(pres)
      BY <3>1, TypeFacts, ShownParts
    <3>3. walk.purge => walk.delimiter = <<>>
      BY <3>1, ListingAssumption DEF Stages
    <3>4. ASSUME walk.delimiter = <<>>, NEW n
          PROVE  InScope(n) /\ Entry(n) = n
      BY <3>4, NoGroup DEF InScope, Entry
    <3> QED
      BY <1>1, <1>3, <3>1, <3>2, <3>3, <3>4 DEF DeletesShown
  <2>2. CASE DeleteObjects
    <3>1. /\ stage = "purge" /\ todo' = Tail(todo) /\ listed' = listed
          /\ live \ {Head(todo)} \subseteq live'
      BY <2>2 DEF DeleteObjects
    <3>2. todo # <<>>
      BY <3>1 DEF Stages
    <3>3. ToSet(todo) = {Head(todo)} \cup ToSet(Tail(todo))
      BY <3>2, TypeFacts, HeadAndTail
    <3> QED
      BY <1>1, <1>3, <3>1, <3>3 DEF DeletesShown
  <2> QED
    BY <2>1, <2>2
<1>8. MarkerAhead'
  BY <1>1 DEF MarkerAhead
<1> QED
  BY <1>4, <1>6, <1>7, <1>8

\* Every step keeps a clear walk exact.
LEMMA ExactKept ==
  ASSUME TypeOK, Stages, PagesFull, Genuine, TypeOK', PagesFull', Genuine',
         Exact, [Next]_vars
  PROVE  Exact'
<1> USE DEF page, client, history
<1> SUFFICES ASSUME Clear'
             PROVE  AllShown' /\ NothingAhead' /\ DeletesShown' /\ MarkerAhead'
  BY DEF Exact
<1>1. CASE \E w \in Walks : Begin(w)
  BY <1>1, BeginExact
<1>2. CASE UNCHANGED walk /\ ever \subseteq ever'
  <2>1. Clear
    BY <1>2 DEF Clear, MarkerClear
  <2>2. AllShown /\ NothingAhead /\ DeletesShown /\ MarkerAhead
    BY <2>1 DEF Exact
  <2>3. CASE Request
    BY <2>2, <2>3, RequestExact
  <2>4. CASE ScanThrough \/ ScanToLimit \/ ScanToGroup
    <3>1. /\ stage = "scan"
          /\ UNCHANGED <<live, walk, todo, listed, steady>>
      BY <2>4 DEF ScanThrough, ScanToLimit, ScanToGroup
    <3>2. AllShown' /\ NothingAhead' /\ MarkerAhead'
      BY <2>1, <2>2, <2>4, <3>1, ThroughExact, LimitExact, GroupExact
    <3>3. DeletesShown'
      BY <2>2, <3>1 DEF DeletesShown, InScope, Entry
    <3> QED
      BY <3>2, <3>3
  <2>5. CASE Receive \/ DeleteObjects
    BY <2>2, <2>5, ClientExact
  <2>6. CASE /\ UNCHANGED <<stage, page, client>>
             /\ steady' \subseteq steady /\ steady' \ live' \subseteq steady \ live
    <3>1. Bound' = Bound /\ (Finished' <=> Finished) /\ Shown' = Shown
          /\ NextCursor' = NextCursor
      BY <2>6 DEF Bound, Finished, Shown, NextCursor, Later, LastOf
    <3>2. \A n : /\ Wanted(n)' <=> Wanted(n)
                 /\ Entry(n)' = Entry(n)
                 /\ InScope(n)' <=> InScope(n)
      BY <2>6 DEF Wanted, Entry, InScope
    <3>3. AllShown'
      BY <2>2, <2>6, <3>1, <3>2 DEF AllShown
    <3>4. Finished \/ ShownBehind(Bound)'
      BY <2>2, <3>1, <3>2 DEF NothingAhead, ShownBehind
    <3>5. NothingAhead'
      BY <2>2, <3>1, <3>4 DEF NothingAhead
    <3>6. DeletesShown'
      BY <2>2, <2>6, <3>2 DEF DeletesShown
    <3>7. MarkerAhead'
      <4>1. SUFFICES ASSUME stage = "scan", walk.api = "v1", objs \o pres # <<>>
                     PROVE  /\ ~Less(next, PageToken(walk, NextCursor))'
                            /\ ShownBehind(PageToken(walk, NextCursor))'
        BY <2>6 DEF MarkerAhead
      <4>2. /\ ~Less(next, PageToken(walk, NextCursor))
            /\ ShownBehind(PageToken(walk, NextCursor))
        BY <2>2, <4>1 DEF MarkerAhead
      <4> QED
        BY <2>6, <3>1, <3>2, <4>2 DEF ShownBehind
    <3> QED
      BY <3>3, <3>5, <3>6, <3>7
  <2>7. CASE \E n \in Churn : Change(n)
    <3>1. /\ UNCHANGED <<stage, page, client>>
          /\ steady' \subseteq steady /\ steady' \ live' \subseteq steady \ live
      BY <2>7 DEF Change
    <3> QED
      BY <2>6, <3>1
  <2>8. CASE UNCHANGED vars
    BY <2>6, <2>8 DEF vars
  <2> QED
    BY <1>1, <2>3, <2>4, <2>5, <2>7, <2>8 DEF Next, Step
<1>3. CASE UNCHANGED vars
  BY <1>2, <1>3 DEF vars
<1>4. CASE Step \/ \E n \in Churn : Change(n)
  <2>1. UNCHANGED walk /\ ever \subseteq ever'
    BY <1>4 DEF Step, Request, ScanThrough, ScanToLimit, ScanToGroup, Receive,
                DeleteObjects, Change
  <2> QED
    BY <1>2, <2>1
<1> QED
  BY <1>1, <1>3, <1>4 DEF Next

-----------------------------------------------------------------------------
(***************************************************************************)
(* Deleting what was listed.                                               *)
(***************************************************************************)

\* A recursive delete lists without a delimiter, so it cannot be mistaken.
LEMMA PurgeIsClear ==
  ASSUME TypeOK, Stages, stage # "idle", walk.purge, PlainEnd(walk.prefix)
  PROVE  Clear /\ walk.delimiter = <<>> /\ pres = <<>>
<1>1. walk \in Walks /\ walk.prefix \in Strings
  BY TypeFacts DEF Stages
<1>2. walk.delimiter = <<>>
  BY <1>1, ListingAssumption
<1>3. Utf8End(walk.prefix)
  BY <1>1, PlainIsUtf8
<1> QED
  BY <1>2, <1>3 DEF Clear, MarkerClear, PlainEnd, Stages

\* Every step keeps the account of what is deleted.
LEMMA PurgingKept ==
  ASSUME TypeOK, Stages, Exact, Purging, [Next]_vars
  PROVE  Purging'
<1> USE DEF page, client, history
<1> SUFFICES ASSUME walk'.purge, PlainEnd(walk'.prefix)
             PROVE  /\ failed' \subseteq ToSet(listed')
                    /\ IsInjective(todo')
                    /\ \A n \in steady' \cap ToSet(listed') :
                         /\ n \in live' <=> n \in failed' \cup ToSet(todo')
                         /\ ~(n \in failed' /\ n \in ToSet(todo'))
  BY DEF Purging
<1>1. ASSUME NEW w \in Walks, Begin(w)
      PROVE  /\ failed' = {} /\ todo' = <<>> /\ listed' = <<>>
  BY <1>1 DEF Begin, Stages
<1>2. CASE UNCHANGED walk
  <2>1. /\ failed \subseteq ToSet(listed)
        /\ IsInjective(todo)
        /\ \A n \in steady \cap ToSet(listed) :
             /\ n \in live <=> n \in failed \cup ToSet(todo)
             /\ ~(n \in failed /\ n \in ToSet(todo))
    BY <1>2 DEF Purging
  <2>2. CASE /\ UNCHANGED <<todo, listed, failed>> /\ steady' \subseteq steady
             /\ \A n \in steady' : n \in live' <=> n \in live
    BY <2>1, <2>2
  <2>3. CASE Request \/ ScanThrough \/ ScanToLimit \/ ScanToGroup \/ UNCHANGED vars
    <3>1. UNCHANGED <<todo, listed, failed, steady, live>>
      BY <2>3 DEF Request, ScanThrough, ScanToLimit, ScanToGroup, vars
    <3> QED
      BY <2>2, <3>1
  <2>4. CASE \E n \in Churn : Change(n)
    <3>1. /\ UNCHANGED <<todo, listed, failed>> /\ steady' \subseteq steady
          /\ \A n \in steady' : n \in live' <=> n \in live
      BY <2>4 DEF Change
    <3> QED
      BY <2>2, <3>1
  <2>5. CASE Receive
    <3>1. /\ stage = "page" /\ listed' = listed \o objs \o pres
          /\ UNCHANGED <<live, failed, steady>>
          /\ (IF objs # <<>> THEN todo' = objs ELSE todo' = todo)
      BY <1>2, <2>5 DEF Receive
    <3>2. Clear /\ pres = <<>>
      BY <1>2, <3>1, PurgeIsClear
    <3>3. todo = <<>>
      BY <3>1 DEF Stages
    <3>4. ToSet(listed') = ToSet(listed) \cup ToSet(objs)
      <4>1. ToSet(listed') = ToSet(listed) \cup ToSet(objs) \cup ToSet(pres)
        BY <3>1, TypeFacts, ShownParts
      <4> QED
        BY <3>2, <4>1, ToSetEmpty
    <3>5. IsInjective(objs) /\ ToSet(listed) \cap ToSet(objs) = {}
      <4>1. IsInjective(listed \o objs \o pres)
        BY <3>1, <3>2 DEF Exact, NothingAhead, Shown
      <4> DEFINE lo == listed \o objs
      <4>2. lo \in Seq(Strings)
        BY TypeFacts, ConcatProperties
      <4>3. IsInjective(lo) <=> /\ IsInjective(listed) /\ IsInjective(objs)
                                /\ ToSet(listed) \cap ToSet(objs) = {}
        BY TypeFacts, InjectiveConcat
      <4>4. IsInjective(lo \o pres)
        BY <4>1
      <4> HIDE DEF lo
      <4>5. IsInjective(lo)
        BY <4>2, <4>4, TypeFacts, InjectiveConcat
      <4> QED
        BY <4>3, <4>5
    <3>6. \A n \in steady : n \notin live => n \in ToSet(listed)
      BY <3>2 DEF Exact, DeletesShown
    <3>7. ToSet(todo') = ToSet(objs) /\ IsInjective(todo')
      BY <3>1, <3>3, <3>5, ToSetEmpty
    <3> QED
      BY <2>1, <3>1, <3>3, <3>4, <3>5, <3>6, <3>7, ToSetEmpty
  <2>6. CASE DeleteObjects
    <3> DEFINE h == Head(todo)
    <3>1. /\ stage = "purge" /\ todo' = Tail(todo) /\ UNCHANGED <<listed, steady>>
          /\ \/ live' = live \ {h} /\ failed' = failed
             \/ failed' = failed \cup {h} /\ live' = live
      BY <2>6 DEF DeleteObjects
    <3>2. todo # <<>>
      BY <3>1 DEF Stages
    <3>3. /\ ToSet(todo) = {h} \cup ToSet(todo')
          /\ IsInjective(todo') /\ h \notin ToSet(todo')
      BY <2>1, <3>1, <3>2, TypeFacts, HeadAndTail
    <3>4. h \in ToSet(listed)
      <4>1. Clear
        BY <1>2, <3>1, PurgeIsClear
      <4> QED
        BY <3>3, <4>1 DEF Exact, DeletesShown
    <3> HIDE DEF h
    <3> QED
      BY <2>1, <3>1, <3>3, <3>4
  <2>7. CASE \E w \in Walks : Begin(w)
    BY <1>1, <2>7, ToSetEmpty
  <2> QED
    BY <2>3, <2>4, <2>5, <2>6, <2>7 DEF Next, Step
<1>3. CASE \E w \in Walks : Begin(w)
  BY <1>1, <1>3, ToSetEmpty
<1>4. UNCHANGED walk \/ \E w \in Walks : Begin(w)
  BY DEF Next, Step, Request, ScanThrough, ScanToLimit, ScanToGroup, Receive,
         DeleteObjects, Change, vars
<1> QED
  BY <1>2, <1>3, <1>4

-----------------------------------------------------------------------------
(***************************************************************************)
(* The theorems.                                                           *)
(***************************************************************************)

\* The invariant holds before the walk.
LEMMA InitIndInv == Init => IndInv
<1> SUFFICES ASSUME Init PROVE IndInv
  OBVIOUS
<1>1. /\ live \subseteq Names /\ stage = "idle" /\ walk = NoWalk
      /\ cursor = <<>> /\ next = <<>> /\ token = <<>>
      /\ objs = <<>> /\ pres = <<>> /\ todo = <<>> /\ listed = <<>>
      /\ failed = {} /\ steady = {} /\ ever = {}
  BY DEF Init
<1>2. /\ <<>> \in Seq(Byte) /\ <<>> \in Seq(Names) /\ <<>> \in Seq(Seq(Byte))
      /\ Len(<<>>) = 0 /\ <<>> \o <<>> = <<>>
  BY EmptySeq
<1>3. TypeOK
  BY <1>1, <1>2 DEF TypeOK
<1>4. Stages /\ PagesFull
  BY <1>1, <1>2 DEF Stages, PagesFull
<1>5. Genuine
  BY <1>1, <1>2 DEF Genuine, ListsNothingElse, PageGenuine, Onward
<1>6. AllShown /\ DeletesShown /\ MarkerAhead
  BY <1>1, ToSetEmpty DEF AllShown, DeletesShown, MarkerAhead
<1>7. NothingAhead
  <2>1. Shown = <<>>
    BY <1>1 DEF Shown
  <2> QED
    BY <2>1, ToSetEmpty DEF NothingAhead, ShownBehind
<1>8. Purging
  BY <1>1, ToSetEmpty DEF Purging
<1> QED
  BY <1>3, <1>4, <1>5, <1>6, <1>7, <1>8 DEF IndInv, Exact

\* Every step keeps it.
LEMMA NextIndInv ==
  ASSUME IndInv, [Next]_vars
  PROVE  IndInv'
<1>1. TypeOK /\ Stages /\ PagesFull /\ Genuine /\ Exact /\ Purging
  BY DEF IndInv
<1>2. TypeOK'
  BY <1>1, TypesKept
<1>3. Stages' /\ PagesFull'
  BY <1>1, <1>2, StagesKept
<1>4. Genuine'
  BY <1>1, <1>2, <1>3, GenuineKept
<1>5. Exact'
  BY <1>1, <1>2, <1>3, <1>4, ExactKept
<1>6. Purging'
  BY <1>1, PurgingKept
<1> QED
  BY <1>2, <1>3, <1>4, <1>5, <1>6 DEF IndInv

\* The inductive invariant of a walk over the pages of a bucket: what is shown
\* is genuine, and splits what stays at the place where the walk goes on.
THEOREM ListingInvariant == Spec => []IndInv
<1>1. Init => IndInv
  BY InitIndInv
<1>2. IndInv /\ [Next]_vars => IndInv'
  BY NextIndInv
<1> QED
  BY <1>1, <1>2, PTL DEF Spec

\* A page never exceeds maxResults and only a full page is truncated, for
\* every limit, batch size and table.
THEOREM PagesAlwaysFull == Spec => []PagesFull
<1>1. IndInv => PagesFull
  BY DEF IndInv
<1> QED
  BY <1>1, ListingInvariant, PTL

\* A walk shows nothing that it was not asked for, for every prefix with a
\* plain end and every delimiter that ends like UTF-8.
THEOREM NothingElseListed == Spec => []ListsNothingElse
<1>1. IndInv => ListsNothingElse
  BY DEF IndInv, Genuine, ListsNothingElse
<1> QED
  BY <1>1, ListingInvariant, PTL

\* A walk shows every object that stays exactly once, whatever other clients
\* do and wherever pages, batches and groups end, for every prefix and
\* delimiter with a plain end and every V1 marker that cannot be mistaken.
THEOREM EachListedOnce == Spec => []ListsEachOnce
<1>1. ASSUME IndInv
      PROVE  ListsEachOnce
  <2>1. SUFFICES ASSUME stage = "done", Clear, NEW n \in steady, Wanted(n)
                 PROVE  TimesListed(Entry(n)) = 1
    BY DEF ListsEachOnce
  <2>2. Entry(n) \in ToSet(listed) /\ IsInjective(listed)
    BY <1>1, <2>1 DEF IndInv, Exact, AllShown, NothingAhead, Finished, Shown
  <2>3. listed \in Seq(Strings)
    BY <1>1, TypeFacts DEF IndInv
  <2> DEFINE I == {i \in 1..Len(listed) : listed[i] = Entry(n)}
  <2>4. PICK k \in 1..Len(listed) : listed[k] = Entry(n)
    BY <2>2, <2>3, ToSetIs
  <2>5. DOMAIN listed = 1..Len(listed)
    BY <2>3, ToSetIs
  <2>6. \A i \in 1..Len(listed) : listed[i] = listed[k] => i = k
    BY <2>2, <2>5 DEF IsInjective
  <2>7. I = {k}
    BY <2>4, <2>6
  <2>8. Cardinality({k}) = 1
    BY FS_Singleton
  <2> QED
    BY <2>7, <2>8 DEF TimesListed
<1> QED
  BY <1>1, ListingInvariant, PTL

\* A client that deletes what each page shows is left with exactly the objects
\* it did not ask for and those reported as errors, for every prefix with a
\* plain end.
THEOREM PurgeIsExact == Spec => []PurgesExactly
<1>1. ASSUME IndInv
      PROVE  PurgesExactly
  <2>1. SUFFICES ASSUME stage = "done", walk.purge, PlainEnd(walk.prefix),
                        NEW n \in steady
                 PROVE  n \in live <=> ~Wanted(n) \/ n \in failed
    BY DEF PurgesExactly
  <2>2. TypeOK /\ Stages /\ Genuine /\ Exact /\ Purging
    BY <1>1 DEF IndInv
  <2>3. Clear /\ walk.delimiter = <<>>
    BY <2>1, <2>2, PurgeIsClear
  <2>4. \A m : Entry(m) = m
    BY <2>3, NoGroup DEF Entry
  <2>5. AllShown /\ DeletesShown
    BY <2>2, <2>3 DEF Exact
  <2>6. Wanted(n) => n \in ToSet(listed)
    BY <2>1, <2>4, <2>5 DEF AllShown, Finished, Shown
  <2>7. n \in ToSet(listed) => Wanted(n)
    <3>1. Utf8End(walk.delimiter)
      BY <2>3 DEF Utf8End
    <3>2. listed \in Seq(Strings)
      BY <2>2, TypeFacts
    <3> QED
      BY <2>1, <2>2, <2>4, <3>1, <3>2, ToSetIs DEF Genuine, ListsNothingElse
  <2>8. todo = <<>>
    BY <2>1, <2>2 DEF Stages
  <2>9. n \in ToSet(listed) => (n \in live <=> n \in failed)
    BY <2>1, <2>2, <2>8, ToSetEmpty DEF Purging
  <2>10. n \notin ToSet(listed) => n \in live /\ n \notin failed
    BY <2>1, <2>2, <2>5 DEF DeletesShown, Purging
  <2> QED
    BY <2>6, <2>7, <2>9, <2>10
<1> QED
  BY <1>1, ListingInvariant, PTL

=============================================================================
