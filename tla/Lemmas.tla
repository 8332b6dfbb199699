-------------------------------- MODULE Lemmas --------------------------------
(***************************************************************************)
(* Facts about numbers, sequences and sums that the proofs share.          *)
(***************************************************************************)
EXTENDS Integers, SequencesExt, Selection, FiniteSetTheorems, SequenceTheorems,
        WellFoundedInduction, TLAPS

----------------------------------------------------------------------------
(* Numbers.                                                                 *)

\* The principle of the least number, for a set.
LEMMA LeastNumber ==
    ASSUME NEW B \in SUBSET Nat, B # {}
    PROVE  \E m \in B : \A k \in B : m <= k
<1> DEFINE T == {1 .. n : n \in B}
           R == StrictSubsetOrdering(Nat)
<1>1. IsWellFoundedOn(R, FiniteSubsetsOf(Nat))
  BY FS_StrictSubsetOrderingWellFounded
<1>2. T \subseteq FiniteSubsetsOf(Nat) /\ T # {}
  <2>1. \A n \in Nat : IsFiniteSet(1 .. n) /\ (1 .. n) \subseteq Nat
    BY FS_Interval
  <2>2. ASSUME NEW n \in B
        PROVE  1 .. n \in FiniteSubsetsOf(Nat)
    BY <2>1 DEF FiniteSubsetsOf
  <2> QED
    BY <2>2
<1>3. PICK x \in T : \A y \in T : ~ (<<y, x>> \in R)
  <2> HIDE DEF T, R
  <2> QED
    BY <1>1, <1>2, WFMin
<1>4. PICK m \in B : x = 1 .. m
  OBVIOUS
<1>5. ASSUME NEW k \in B, k < m
      PROVE  FALSE
  <2>1. 1 .. k \in T
    OBVIOUS
  <2>2. (1 .. k) \subseteq Nat /\ (1 .. m) \subseteq Nat /\ (1 .. k) \subseteq (1 .. m)
    BY <1>5
  <2>3. m \in 1 .. m /\ m \notin 1 .. k
    BY <1>5
  <2>4. <<1 .. k, 1 .. m>> \in R
    BY <2>2, <2>3 DEF StrictSubsetOrdering
  <2> QED
    BY <2>1, <2>4, <1>3, <1>4
<1> QED
  BY <1>5

\* Induction, for a set: the provers cannot instantiate the theorem about a property.
LEMMA Induction ==
    ASSUME NEW S, 0 \in S, \A n \in Nat : n \in S => n + 1 \in S
    PROVE  Nat \subseteq S
<1> DEFINE B == Nat \ S
<1> SUFFICES ASSUME B # {} PROVE FALSE
  OBVIOUS
<1>1. PICK b \in B : \A n \in B : b <= n
  <2>1. B \in SUBSET Nat
    OBVIOUS
  <2> HIDE DEF B
  <2> QED
    BY <2>1, LeastNumber
<1>2. b - 1 \in Nat /\ b - 1 \notin B
  BY <1>1
<1>3. b - 1 + 1 \in S
  BY <1>2
<1> QED
  BY <1>1, <1>3

\* Quotient and remainder.
LEMMA DivisionByPositive ==
    ASSUME NEW k \in Nat, NEW n \in Nat \ {0}
    PROVE  /\ k \div n \in Nat /\ k % n \in 0 .. (n - 1)
           /\ k = n * (k \div n) + (k % n)
           /\ k \div n <= k
<1>1. /\ k \div n \in Nat /\ k % n \in 0 .. (n - 1)
      /\ k = n * (k \div n) + (k % n)
  OBVIOUS
<1>2. ASSUME NEW q \in Nat
      PROVE  q <= n * q
  <2>1. n * q - q = (n - 1) * q
    OBVIOUS
  <2>2. (n - 1) * q >= 0
    OBVIOUS
  <2> QED
    BY <2>1, <2>2
<1> QED
  BY <1>1, <1>2

\* Different multiples are at least as far apart as the number they are multiples of.
LEMMA MultiplesApart ==
    ASSUME NEW n \in Nat \ {0}, NEW a \in Int, NEW b \in Int, a < b
    PROVE  n * a + n <= n * b
<1>1. n * b - n * a = n * (b - a)
  OBVIOUS
<1>2. n * (b - a) >= n
  OBVIOUS
<1> QED
  BY <1>1, <1>2

LEMMA SmallestNumber ==
    ASSUME NEW K \in SUBSET Nat, K # {}
    PROVE  Min(K) \in K /\ \A k \in K : Min(K) <= k
<1>1. \E m \in K : \A k \in K : m <= k
  BY LeastNumber
<1> QED
  BY <1>1 DEF Min

LEMMA LargestNumber ==
    ASSUME NEW m \in Nat, NEW K \in SUBSET (1 .. m), K # {}
    PROVE  Max(K) \in K /\ \A k \in K : k <= Max(K)
<1> DEFINE B == {m - k : k \in K}
<1>0. \A k \in K : k \in Int /\ m - k \in Nat
  OBVIOUS
<1>1. B \in SUBSET Nat /\ B # {}
  BY <1>0
<1> HIDE DEF B
<1>2. PICK b \in B : \A c \in B : b <= c
  BY <1>1, LeastNumber
<1>3. PICK x \in K : b = m - x
  BY DEF B
<1>4. \A k \in K : m - x <= m - k
  BY <1>2, <1>3 DEF B
<1>5. \A k \in K : x >= k
  BY <1>0, <1>4
<1>6. Max(K) \in K /\ \A k \in K : Max(K) >= k
  BY <1>5 DEF Max
<1> QED
  BY <1>0, <1>6

----------------------------------------------------------------------------
(* Sequences.                                                               *)

LEMMA PrefixProperties ==
    ASSUME NEW S, NEW s \in Seq(S), NEW m \in 0 .. Len(s)
    PROVE  /\ SubSeq(s, 1, m) \in Seq(S) /\ Len(SubSeq(s, 1, m)) = m
           /\ \A n \in 1 .. m : SubSeq(s, 1, m)[n] = s[n]
<1>1. \A n \in 1 .. m : s[n] \in S
  OBVIOUS
<1>2. /\ SubSeq(s, 1, m) \in Seq(S)
      /\ Len(SubSeq(s, 1, m)) = IF 1 <= m THEN m - 1 + 1 ELSE 0
      /\ \A n \in 1 .. m - 1 + 1 : SubSeq(s, 1, m)[n] = s[1 + n - 1]
  <2>1. m \in Int
    OBVIOUS
  <2> QED
    BY <1>1, <2>1, SubSeqProperties
<1>3. ASSUME NEW n \in 1 .. m
      PROVE  SubSeq(s, 1, m)[n] = s[n]
  <2>1. 1 + n - 1 = n /\ n \in 1 .. m - 1 + 1
    OBVIOUS
  <2> QED
    BY <1>2, <2>1
<1> QED
  BY <1>2, <1>3

LEMMA RemoveAtProperties ==
    ASSUME NEW S, NEW s \in Seq(S), NEW i \in 1 .. Len(s)
    PROVE  /\ RemoveAt(s, i) \in Seq(S)
           /\ Len(RemoveAt(s, i)) = Len(s) - 1
           /\ \A n \in 1 .. Len(s) - 1 : RemoveAt(s, i)[n] = s[IF n < i THEN n ELSE n + 1]
<1> DEFINE a == SubSeq(s, 1, i - 1)
           b == SubSeq(s, i + 1, Len(s))
<1>1. i - 1 \in Int /\ i + 1 \in Int /\ Len(s) \in Int /\ 1 <= i /\ i <= Len(s)
  OBVIOUS
<1>2. /\ a \in Seq(S) /\ Len(a) = i - 1
      /\ \A n \in 1 .. i - 1 : a[n] = s[n]
  <2>1. i - 1 \in 0 .. Len(s)
    OBVIOUS
  <2> QED
    BY <2>1, PrefixProperties
<1>3. /\ b \in Seq(S) /\ Len(b) = Len(s) - i
      /\ \A n \in 1 .. Len(s) - i : b[n] = s[i + n]
  <2>1. \A n \in i + 1 .. Len(s) : s[n] \in S
    OBVIOUS
  <2>2. /\ b \in Seq(S) /\ Len(b) = IF i + 1 <= Len(s) THEN Len(s) - (i + 1) + 1 ELSE 0
        /\ \A n \in 1 .. Len(s) - (i + 1) + 1 : b[n] = s[i + 1 + n - 1]
    BY <1>1, <2>1, SubSeqProperties
  <2> HIDE DEF b
  <2>3. Len(b) = Len(s) - i
    BY <1>1, <2>2
  <2>4. ASSUME NEW n \in 1 .. Len(s) - i
        PROVE  b[n] = s[i + n]
    <3>1. n \in 1 .. Len(s) - (i + 1) + 1 /\ i + 1 + n - 1 = i + n
      BY <1>1
    <3>2. b[n] = s[i + 1 + n - 1]
      BY <2>2, <3>1
    <3> QED
      BY <3>1, <3>2
  <2> QED
    BY <2>2, <2>3, <2>4
<1>4. RemoveAt(s, i) = a \o b
  BY DEF RemoveAt
<1> HIDE DEF a, b
<1>5. /\ a \o b \in Seq(S) /\ Len(a \o b) = Len(a) + Len(b)
      /\ \A n \in 1 .. Len(a) + Len(b) :
            (a \o b)[n] = IF n <= Len(a) THEN a[n] ELSE b[n - Len(a)]
  BY <1>2, <1>3, ConcatProperties
<1>6. ASSUME NEW n \in 1 .. Len(s) - 1
      PROVE  (a \o b)[n] = s[IF n < i THEN n ELSE n + 1]
  <2>1. n \in 1 .. Len(a) + Len(b)
    BY <1>1, <1>2, <1>3
  <2>2. CASE n < i
    BY <1>1, <1>2, <1>5, <2>1, <2>2
  <2>3. CASE i <= n
    <3>1. (a \o b)[n] = b[n - (i - 1)] /\ n - (i - 1) \in 1 .. Len(s) - i
      BY <1>1, <1>2, <1>5, <2>1, <2>3
    <3>2. i + (n - (i - 1)) = n + 1
      BY <1>1
    <3>3. (a \o b)[n] = s[n + 1] /\ ~ (n < i)
      BY <1>1, <1>3, <2>3, <3>1, <3>2
    <3> QED
      BY <3>3
  <2>4. n < i \/ i <= n
    BY <1>1
  <2> QED
    BY <2>2, <2>3, <2>4
<1> QED
  BY <1>1, <1>2, <1>3, <1>4, <1>5, <1>6

LEMMA ConsProperties ==
    ASSUME NEW S, NEW s \in Seq(S), NEW e \in S
    PROVE  /\ <<e>> \o s \in Seq(S)
           /\ Len(<<e>> \o s) = Len(s) + 1
           /\ (<<e>> \o s)[1] = e
           /\ \A n \in 2 .. Len(s) + 1 : (<<e>> \o s)[n] = s[n - 1]
OBVIOUS

LEMMA FrontProperties ==
    ASSUME NEW S, NEW s \in Seq(S), Len(s) > 0
    PROVE  /\ Front(s) \in Seq(S) /\ Len(Front(s)) = Len(s) - 1
           /\ \A n \in 1 .. Len(s) - 1 : Front(s)[n] = s[n]
<1>1. Len(s) - 1 \in 0 .. Len(s)
  OBVIOUS
<1> QED
  BY <1>1, PrefixProperties DEF Front

----------------------------------------------------------------------------
(* Selections.                                                              *)

\* The numbers in K up to i.
UpTo(K, i) == {j \in K : j <= i}

LEMMA IntervalCardinality ==
    ASSUME NEW n \in Nat
    PROVE  IsFiniteSet(1 .. n) /\ Cardinality(1 .. n) = n
<1>1. 1 \in Int /\ n \in Int
  OBVIOUS
<1>2. IsFiniteSet(1 .. n) /\ Cardinality(1 .. n) = IF 1 > n THEN 0 ELSE n - 1 + 1
  BY <1>1, FS_Interval
<1> QED
  BY <1>2

LEMMA UpToFinite ==
    ASSUME NEW m \in Nat, NEW K \in SUBSET (1 .. m)
    PROVE  /\ IsFiniteSet(K) /\ Cardinality(K) \in Nat /\ Cardinality(K) <= m
           /\ \A i : /\ IsFiniteSet(UpTo(K, i)) /\ Cardinality(UpTo(K, i)) \in Nat
                    /\ Cardinality(UpTo(K, i)) <= Cardinality(K)
<1>1. IsFiniteSet(1 .. m) /\ Cardinality(1 .. m) = m
  BY FS_Interval
<1>2. IsFiniteSet(K) /\ Cardinality(K) <= m /\ Cardinality(K) \in Nat
  BY <1>1, FS_Subset, FS_CardinalityType
<1>3. ASSUME NEW i
      PROVE  /\ IsFiniteSet(UpTo(K, i)) /\ Cardinality(UpTo(K, i)) \in Nat
             /\ Cardinality(UpTo(K, i)) <= Cardinality(K)
  <2>1. UpTo(K, i) \in SUBSET K
    BY DEF UpTo
  <2>2. IsFiniteSet(UpTo(K, i)) /\ Cardinality(UpTo(K, i)) <= Cardinality(K)
    BY <1>2, <2>1, FS_Subset
  <2> QED
    BY <1>2, <2>2, FS_CardinalityType
<1> QED
  BY <1>2, <1>3

\* A larger number of K has more numbers of K below it.
LEMMA UpToGrows ==
    ASSUME NEW m \in Nat, NEW K \in SUBSET (1 .. m), NEW i \in K, NEW j \in K, i < j
    PROVE  Cardinality(UpTo(K, i)) < Cardinality(UpTo(K, j))
<1>0. K \subseteq Int /\ i \in Int /\ j \in Int
  OBVIOUS
<1>1. UpTo(K, i) \in SUBSET UpTo(K, j) /\ j \in UpTo(K, j) /\ j \notin UpTo(K, i)
  <2>1. ASSUME NEW k \in K, k <= i
        PROVE  k <= j
    BY <1>0, <2>1
  <2>2. j <= j /\ ~ (j <= i)
    BY <1>0
  <2> QED
    BY <2>1, <2>2 DEF UpTo
<1>2. IsFiniteSet(UpTo(K, j))
  BY UpToFinite
<1>3. Cardinality(UpTo(K, i)) <= Cardinality(UpTo(K, j))
  BY <1>1, <1>2, FS_Subset
<1>4. Cardinality(UpTo(K, i)) # Cardinality(UpTo(K, j))
  BY <1>1, <1>2, FS_Subset
<1>5. Cardinality(UpTo(K, i)) \in Int /\ Cardinality(UpTo(K, j)) \in Int
  BY <1>1, <1>2, FS_Subset, FS_CardinalityType
<1> QED
  BY <1>3, <1>4, <1>5

LEMMA NthExists ==
    ASSUME NEW m \in Nat, NEW K \in SUBSET (1 .. m), NEW n \in 1 .. Cardinality(K)
    PROVE  \E i \in K : Cardinality(UpTo(K, i)) = n
<1> DEFINE B == {i \in Nat : Cardinality(UpTo(K, i)) >= n}
<1>0. \A k \in K : k \in Nat /\ k > 0 /\ k <= m
  OBVIOUS
<1>1. Cardinality(K) \in Nat /\ \A i : Cardinality(UpTo(K, i)) \in Nat
  BY UpToFinite
<1>2. m \in B
  <2>1. UpTo(K, m) = K
    BY <1>0 DEF UpTo
  <2> QED
    BY <1>1, <2>1
<1>3. PICK b \in B : \A k \in B : b <= k
  <2> HIDE DEF B
  <2>1. B \in SUBSET Nat
    BY DEF B
  <2> QED
    BY <1>2, <2>1, LeastNumber
<1>4. b # 0
  <2>0. \A k \in K : ~ (k <= 0)
    BY <1>0
  <2>1. UpTo(K, 0) = {}
    BY <2>0 DEF UpTo
  <2> QED
    BY <1>1, <2>1, FS_EmptySet
<1>5. b - 1 \in Nat /\ b - 1 \notin B
  BY <1>3, <1>4
<1>6. Cardinality(UpTo(K, b - 1)) <= n - 1
  BY <1>1, <1>5
<1>7. b \in K
  <2>0. \A k \in K : k # b => (k <= b <=> k <= b - 1)
    BY <1>0, <1>5
  <2>1. b \notin K => UpTo(K, b) = UpTo(K, b - 1)
    BY <2>0 DEF UpTo
  <2> QED
    BY <1>1, <1>5, <2>1
<1>8. UpTo(K, b) = UpTo(K, b - 1) \cup {b} /\ b \notin UpTo(K, b - 1)
  <2>1. \A k \in K : k # b => (k <= b <=> k <= b - 1)
    BY <1>0, <1>5
  <2>2. b <= b /\ ~ (b <= b - 1)
    BY <1>5
  <2> QED
    BY <1>7, <2>1, <2>2 DEF UpTo
<1>9. Cardinality(UpTo(K, b)) = Cardinality(UpTo(K, b - 1)) + 1
  BY <1>8, UpToFinite, FS_AddElement
<1> QED
  BY <1>1, <1>6, <1>7, <1>9

\* Nth enumerates K.
LEMMA NthProperties ==
    ASSUME NEW m \in Nat, NEW K \in SUBSET (1 .. m)
    PROVE  /\ \A n \in 1 .. Cardinality(K) :
                  Nth(K, n) \in K /\ Cardinality(UpTo(K, Nth(K, n))) = n
           /\ \A i \in K : \E n \in 1 .. Cardinality(K) : Nth(K, n) = i
<1>1. ASSUME NEW n \in 1 .. Cardinality(K)
      PROVE  Nth(K, n) \in K /\ Cardinality(UpTo(K, Nth(K, n))) = n
  <2>1. \E i \in K : Cardinality(UpTo(K, i)) = n
    BY NthExists
  <2> QED
    BY <2>1 DEF Nth, UpTo
<1>2. ASSUME NEW i \in K
      PROVE  \E n \in 1 .. Cardinality(K) : Nth(K, n) = i
  <2> DEFINE n == Cardinality(UpTo(K, i))
  <2>1. n # 0
    <3>1. i \in UpTo(K, i)
      BY DEF UpTo
    <3> QED
      BY <3>1, UpToFinite, FS_EmptySet
  <2>2. n \in 1 .. Cardinality(K)
    BY <2>1, UpToFinite
  <2>3. Nth(K, n) \in K /\ Cardinality(UpTo(K, Nth(K, n))) = n
    BY <1>1, <2>2
  <2>4. n \in Int /\ i \in Int /\ Nth(K, n) \in Int
    <3>1. K \subseteq Int
      OBVIOUS
    <3>2. n \in Nat
      BY UpToFinite
    <3>3. i \in Int /\ Nth(K, n) \in Int
      BY <2>3, <3>1
    <3> HIDE DEF n
    <3> QED
      BY <3>2, <3>3
  <2>5. /\ Nth(K, n) < i => Cardinality(UpTo(K, Nth(K, n))) < n
        /\ i < Nth(K, n) => n < Cardinality(UpTo(K, Nth(K, n)))
    BY <2>3, UpToGrows
  <2> HIDE DEF n
  <2>6. ~ (Nth(K, n) < i) /\ ~ (i < Nth(K, n))
    BY <2>3, <2>4, <2>5
  <2>7. Nth(K, n) = i
    BY <2>4, <2>6
  <2> QED
    BY <2>2, <2>7
<1> QED
  BY <1>1, <1>2

LEMMA NthUnique ==
    ASSUME NEW m \in Nat, NEW K \in SUBSET (1 .. m), NEW i \in K
    PROVE  Nth(K, Cardinality(UpTo(K, i))) = i
<1> DEFINE n == Cardinality(UpTo(K, i))
<1>1. PICK q \in 1 .. Cardinality(K) : Nth(K, q) = i
  BY NthProperties
<1>2. Cardinality(UpTo(K, Nth(K, q))) = q
  BY <1>1, NthProperties
<1> QED
  BY <1>1, <1>2

LEMMA SelectedProperties ==
    ASSUME NEW S, NEW s \in Seq(S), NEW K \in SUBSET (DOMAIN s)
    PROVE  /\ Selected(s, K) \in Seq(S)
           /\ Len(Selected(s, K)) = Cardinality(K)
           /\ \A n \in 1 .. Cardinality(K) : Selected(s, K)[n] = s[Nth(K, n)]
<1>1. K \in SUBSET (1 .. Len(s)) /\ Len(s) \in Nat
  OBVIOUS
<1>2. Cardinality(K) \in Nat
  BY <1>1, UpToFinite
<1>3. ASSUME NEW n \in 1 .. Cardinality(K)
      PROVE  s[Nth(K, n)] \in S
  <2>1. Nth(K, n) \in 1 .. Len(s)
    BY <1>1, NthProperties
  <2> QED
    BY <2>1
<1>4. Selected(s, K) \in [1 .. Cardinality(K) -> S]
  BY <1>3 DEF Selected
<1> QED
  BY <1>2, <1>4 DEF Selected

\* Removing from a selection leaves a selection.
LEMMA RemovedFromSelection ==
    ASSUME NEW S, NEW s \in Seq(S), NEW K \in SUBSET (DOMAIN s), NEW n \in 1 .. Cardinality(K)
    PROVE  RemoveAt(Selected(s, K), n) = Selected(s, K \ {Nth(K, n)})
<1> DEFINE x == Nth(K, n)
           L == K \ {x}
           m == Len(s)
<1>0. /\ m \in Nat /\ K \in SUBSET (1 .. m) /\ L \in SUBSET (1 .. m) /\ L \in SUBSET (DOMAIN s)
      /\ Cardinality(K) \in Nat /\ n \in Int /\ 1 <= n /\ n <= Cardinality(K) /\ K \subseteq Int
  <2>1. m \in Nat /\ K \in SUBSET (1 .. m)
    OBVIOUS
  <2>2. Cardinality(K) \in Nat
    BY <2>1, UpToFinite
  <2> QED
    BY <2>1, <2>2
<1>1. x \in K /\ Cardinality(UpTo(K, x)) = n
  BY <1>0, NthProperties
<1> HIDE DEF x, m
<1>2. Cardinality(L) = Cardinality(K) - 1
  BY <1>0, <1>1, UpToFinite, FS_RemoveElement
<1>3. ASSUME NEW q \in 1 .. Cardinality(K) - 1
      PROVE  Nth(L, q) = Nth(K, IF q < n THEN q ELSE q + 1)
  <2> DEFINE r == IF q < n THEN q ELSE q + 1
             i == Nth(K, r)
  <2>1. r \in 1 .. Cardinality(K) /\ r # n /\ r \in Int /\ q \in Int
    BY <1>0
  <2> HIDE DEF r
  <2>2. i \in K /\ Cardinality(UpTo(K, i)) = r
    BY <1>0, <2>1, NthProperties
  <2> HIDE DEF i
  <2>3. i \in L /\ i \in Int /\ x \in Int /\ i # x
    BY <1>0, <1>1, <2>1, <2>2
  <2>4. (x < i => n < r) /\ (i < x => r < n)
    BY <1>0, <1>1, <2>2, UpToGrows
  <2>5. Cardinality(UpTo(L, i)) = q
    <3>1. CASE q < n
      <4>1. ~ (x <= i)
        <5>1. r = q
          BY <3>1 DEF r
        <5> QED
          BY <1>0, <2>1, <2>3, <2>4, <3>1, <5>1
      <4>2. UpTo(L, i) = UpTo(K, i)
        BY <4>1 DEF UpTo
      <4> QED
        BY <2>2, <3>1, <4>2 DEF r
    <3>2. CASE ~ (q < n)
      <4>1. x <= i /\ r - 1 = q
        <5>1. r = q + 1
          BY <3>2 DEF r
        <5> QED
          BY <1>0, <2>1, <2>3, <2>4, <3>2, <5>1
      <4>2. UpTo(L, i) = UpTo(K, i) \ {x} /\ x \in UpTo(K, i)
        BY <1>1, <4>1 DEF UpTo
      <4>3. Cardinality(UpTo(K, i) \ {x}) = Cardinality(UpTo(K, i)) - 1
        BY <1>0, <4>2, UpToFinite, FS_RemoveElement
      <4> QED
        BY <2>2, <4>1, <4>2, <4>3
    <3> QED
      BY <3>1, <3>2
  <2>6. Nth(L, q) = i
    BY <1>0, <2>3, <2>5, NthUnique
  <2> QED
    BY <2>6 DEF i, r
<1>4. /\ Selected(s, K) \in Seq(S) /\ Len(Selected(s, K)) = Cardinality(K)
      /\ \A q \in 1 .. Cardinality(K) : Selected(s, K)[q] = s[Nth(K, q)]
  BY SelectedProperties
<1> HIDE DEF L
<1>5. /\ Selected(s, L) \in Seq(S) /\ Len(Selected(s, L)) = Cardinality(K) - 1
      /\ \A q \in 1 .. Cardinality(K) - 1 : Selected(s, L)[q] = s[Nth(L, q)]
  BY <1>0, <1>2, SelectedProperties
<1> DEFINE t == Selected(s, K)
<1> HIDE DEF t
<1>6. /\ RemoveAt(t, n) \in Seq(S) /\ Len(RemoveAt(t, n)) = Cardinality(K) - 1
      /\ \A q \in 1 .. Cardinality(K) - 1 : RemoveAt(t, n)[q] = t[IF q < n THEN q ELSE q + 1]
  <2>1. t \in Seq(S) /\ Len(t) = Cardinality(K) /\ n \in 1 .. Len(t)
    BY <1>4 DEF t
  <2> QED
    BY <2>1, RemoveAtProperties
<1>7. ASSUME NEW q \in 1 .. Cardinality(K) - 1
      PROVE  RemoveAt(t, n)[q] = Selected(s, L)[q]
  <2>1. (IF q < n THEN q ELSE q + 1) \in 1 .. Cardinality(K)
    BY <1>0
  <2>2. t[IF q < n THEN q ELSE q + 1] = s[Nth(K, IF q < n THEN q ELSE q + 1)]
    BY <1>4, <2>1 DEF t
  <2> QED
    BY <1>3, <1>5, <1>6, <2>2
<1>8. RemoveAt(t, n) = Selected(s, L)
  BY <1>5, <1>6, <1>7, SeqEqual
<1> QED
  BY <1>8 DEF t, L, x

=============================================================================
