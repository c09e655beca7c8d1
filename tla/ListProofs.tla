----------------------------- MODULE ListProofs -----------------------------
(***************************************************************************)
(* What the operators on lists return, for the proofs that need it: the    *)
(* sublists of the target discovery and the ranking of the retriever.      *)
(***************************************************************************)
EXTENDS Sublists, FiniteSetTheorems, SequenceTheorems, WellFoundedInduction, TLAPS

\* The smallest of some numbers, and the largest of some places.
LEMMA LeastNatural ==
    ASSUME NEW T, T \subseteq Nat, T # {}
    PROVE  \E n \in T : \A m \in T : n <= m
  <1>1. IsWellFoundedOn(OpToRel(<, Nat), Nat)
    BY NatLessThanWellFounded
  <1>2. PICK n \in T : \A m \in T : ~(<<m, n>> \in OpToRel(<, Nat))
    BY <1>1, WFMin
  <1>3. ASSUME NEW m \in T, m < n PROVE <<m, n>> \in OpToRel(<, Nat)
    BY <1>3 DEF OpToRel
  <1>4. ASSUME NEW m \in T PROVE n <= m
    <2>1. n \in Nat /\ m \in Nat /\ ~(m < n)
      BY <1>2, <1>3
    <2> QED
      BY <2>1
  <1> QED
    BY <1>4

LEMMA LargestPlace ==
    ASSUME NEW n \in Nat, NEW I \in SUBSET (1..n), I # {}
    PROVE  \E i \in I : \A j \in I : j <= i
  <1> DEFINE T == {n - i : i \in I}
  <1>1. T \subseteq Nat /\ T # {}
    <2>1. \A i \in I : i \in 1..n
      OBVIOUS
    <2>2. \A i \in I : n - i \in Nat
      BY <2>1
    <2>3. PICK i \in I : TRUE
      OBVIOUS
    <2>4. n - i \in T
      BY <2>3
    <2> QED
      BY <2>2, <2>4
  <1>2. PICK d \in T : \A m \in T : d <= m
    BY <1>1, LeastNatural
  <1>3. PICK i \in I : d = n - i
    BY <1>2
  <1>4. ASSUME NEW j \in I PROVE j <= i
    <2>1. d <= n - j
      BY <1>2
    <2> QED
      BY <1>3, <2>1
  <1> QED
    BY <1>4

\* The places of a sublist are counted without a gap.
LEMMA PlacesAreCounted ==
    ASSUME NEW n \in Nat, NEW I \in SUBSET (1..n)
    PROVE  /\ IsFiniteSet(I) /\ Cardinality(I) \in Nat
           /\ \A k \in 1..Cardinality(I) : Nth(I, k) \in I /\ Cardinality(UpTo(I, Nth(I, k))) = k
           /\ \A i \in I : \E k \in 1..Cardinality(I) : Nth(I, k) = i
  <1> DEFINE count == [i \in I |-> Cardinality(UpTo(I, i))]
             size == Cardinality(I)
  <1>1. IsFiniteSet(1..n)
    BY FS_Interval
  <1>2. IsFiniteSet(I) /\ size \in Nat
    BY <1>1, FS_Subset, FS_CardinalityType
  <1>3. ASSUME NEW i \in I
        PROVE  /\ UpTo(I, i) \in SUBSET I /\ IsFiniteSet(UpTo(I, i))
               /\ count[i] \in 1..size
    <2>1. UpTo(I, i) \in SUBSET I
      BY DEF UpTo
    <2>2. IsFiniteSet(UpTo(I, i)) /\ Cardinality(UpTo(I, i)) <= size
      BY <1>2, <2>1, FS_Subset
    <2>3. i \in UpTo(I, i)
      BY DEF UpTo
    <2>4. Cardinality(UpTo(I, i)) \in Nat /\ Cardinality(UpTo(I, i)) # 0
      BY <2>2, <2>3, FS_CardinalityType, FS_EmptySet
    <2> QED
      BY <1>2, <2>1, <2>2, <2>4
  <1>4. ASSUME NEW i \in I, NEW j \in I, i < j PROVE count[i] # count[j]
    <2>2. i \in Int /\ j \in Int
      OBVIOUS
    <2>1. UpTo(I, i) \in SUBSET UpTo(I, j)
      <3>1. ASSUME NEW k \in I, k <= i PROVE k <= j
        <4>1. k \in Int
          OBVIOUS
        <4> QED
          BY <1>4, <2>2, <3>1, <4>1
      <3> QED
        BY <3>1 DEF UpTo
    <2>3. j \in UpTo(I, j) /\ j \notin UpTo(I, i)
      BY <1>4, <2>2 DEF UpTo
    <2> QED
      BY <1>3, <2>1, <2>3, FS_Subset
  <1>5. count \in Injection(I, 1..size)
    <2>1. count \in [I -> 1..size]
      BY <1>3
    <2>2. \A i, j \in I : count[i] = count[j] => i = j
      <3>1. \A i, j \in I : i < j \/ j < i \/ i = j
        OBVIOUS
      <3> QED
        BY <1>4, <3>1
    <2> QED
      BY <2>1, <2>2 DEF Injection, IsInjective
  <1>6. count \in Surjection(I, 1..size)
    <2>1. IsFiniteSet(1..size) /\ Cardinality(1..size) = size
      BY <1>2, FS_Interval
    <2> QED
      BY <1>5, <2>1, FS_Injection
  <1>7. ASSUME NEW k \in 1..size
        PROVE  Nth(I, k) \in I /\ Cardinality(UpTo(I, Nth(I, k))) = k
    <2>1. \E i \in I : Cardinality(UpTo(I, i)) = k
      BY <1>6 DEF Surjection
    <2> QED
      BY <2>1 DEF Nth
  <1>8. ASSUME NEW i \in I PROVE \E k \in 1..size : Nth(I, k) = i
    <2>1. Nth(I, count[i]) \in I /\ count[Nth(I, count[i])] = count[i]
      BY <1>3, <1>7
    <2>2. Nth(I, count[i]) = i
      BY <1>5, <2>1 DEF Injection, IsInjective
    <2> QED
      BY <1>3, <2>2
  <1> QED
    BY <1>2, <1>7, <1>8

LEMMA ListFacts ==
    ASSUME NEW list, IsList(list)
    PROVE  /\ Len(list) \in Nat /\ DOMAIN list = 1..Len(list)
           /\ \A i \in DOMAIN list : list[i] \in Range(list)
           /\ list = [i \in 1..Len(list) |-> list[i]]
  BY LenProperties DEF IsList, Range

LEMMA ListOf ==
    ASSUME NEW S, NEW list \in Seq(S)
    PROVE  IsList(list) /\ Range(list) \subseteq S
  <1>1. Len(list) \in Nat /\ list \in [1..Len(list) -> S]
    BY LenProperties
  <1>2. list \in [1..Len(list) -> Range(list)]
    BY <1>1 DEF Range
  <1>3. list \in Seq(Range(list))
    BY <1>1, <1>2, SeqDef
  <1> QED
    BY <1>1, <1>3 DEF IsList, Range

LEMMA ListByPlaces ==
    ASSUME NEW n \in Nat, NEW list, DOMAIN list = 1..n, list = [i \in 1..n |-> list[i]]
    PROVE  IsList(list) /\ Len(list) = n
  <1>1. list \in [1..n -> Range(list)]
    BY DEF Range
  <1>2. list \in Seq(Range(list))
    BY <1>1, SeqDef
  <1>3. Len(list) \in Nat /\ DOMAIN list = 1..Len(list)
    BY <1>2, LenProperties
  <1>4. Len(list) = n
    BY <1>3
  <1> QED
    BY <1>2, <1>4 DEF IsList

LEMMA JoinedLists ==
    ASSUME NEW a, NEW b, IsList(a), IsList(b)
    PROVE  /\ IsList(a \o b) /\ Range(a \o b) = Range(a) \cup Range(b)
           /\ Len(a \o b) = Len(a) + Len(b)
           /\ \A i \in 1..Len(a) : (a \o b)[i] = a[i]
           /\ \A i \in 1..Len(b) : (a \o b)[Len(a) + i] = b[i]
  <1> DEFINE S == Range(a) \cup Range(b)
             c == a \o b
  <1>1. a \in Seq(S) /\ b \in Seq(S)
    BY SeqMonotonic DEF IsList
  <1>2. /\ c \in Seq(S) /\ Len(c) = Len(a) + Len(b)
        /\ \A i \in 1..Len(a) : c[i] = a[i]
        /\ \A i \in 1..Len(b) : c[Len(a) + i] = b[i]
        /\ Len(a) \in Nat /\ Len(b) \in Nat
    <2>1. \A i \in 1..Len(a) + Len(b) : c[i] = IF i <= Len(a) THEN a[i] ELSE b[i - Len(a)]
      BY <1>1, ConcatProperties
    <2>2. c \in Seq(S) /\ Len(c) = Len(a) + Len(b) /\ Len(a) \in Nat /\ Len(b) \in Nat
      BY <1>1, ConcatProperties, LenProperties
    <2> HIDE DEF c
    <2> QED
      BY <2>1, <2>2, SMTT(30)
  <1> HIDE DEF c
  <1>3. IsList(c) /\ Range(c) \subseteq S
    BY <1>2, ListOf
  <1>4. DOMAIN c = 1..Len(c) /\ DOMAIN a = 1..Len(a) /\ DOMAIN b = 1..Len(b)
    BY <1>1, <1>2, LenProperties
  <1>5. ASSUME NEW i \in DOMAIN a PROVE a[i] \in Range(c)
    <2>1. i \in DOMAIN c /\ c[i] = a[i]
      BY <1>2, <1>4
    <2> QED
      BY <2>1 DEF Range
  <1>6. ASSUME NEW i \in DOMAIN b PROVE b[i] \in Range(c)
    <2>1. Len(a) + i \in DOMAIN c /\ c[Len(a) + i] = b[i]
      BY <1>2, <1>4
    <2> QED
      BY <2>1 DEF Range
  <1>7. S \subseteq Range(c)
    BY <1>5, <1>6 DEF Range
  <1> QED
    BY <1>2, <1>3, <1>7 DEF c

LEMMA SublistFacts ==
    ASSUME NEW list, IsList(list), NEW I \in SUBSET DOMAIN list
    PROVE  LET s == Sublist(list, I)
           IN  /\ IsList(s) /\ Len(s) = Cardinality(I) /\ Range(s) = {list[i] : i \in I}
               /\ Len(s) \in Nat /\ DOMAIN s = 1..Len(s)
               /\ \A k \in DOMAIN s : Nth(I, k) \in I /\ s[k] = list[Nth(I, k)]
               /\ \A k, m \in DOMAIN s : Nth(I, k) = Nth(I, m) => k = m
  <1> DEFINE s == Sublist(list, I)
             size == Cardinality(I)
  <1>1. Len(list) \in Nat /\ I \in SUBSET (1..Len(list))
    BY ListFacts
  <1>2. /\ size \in Nat
        /\ \A k \in 1..size : Nth(I, k) \in I /\ Cardinality(UpTo(I, Nth(I, k))) = k
        /\ \A i \in I : \E k \in 1..size : Nth(I, k) = i
    BY <1>1, PlacesAreCounted
  <1>3. s = [k \in 1..size |-> list[Nth(I, k)]]
    BY DEF Sublist
  <1> HIDE DEF s, size
  <1>4. IsList(s) /\ Len(s) = size /\ DOMAIN s = 1..size
    BY <1>2, <1>3, ListByPlaces
  <1>5. \A k \in DOMAIN s : Nth(I, k) \in I /\ s[k] = list[Nth(I, k)]
    BY <1>2, <1>3
  <1>6. Range(s) = {list[i] : i \in I}
    <2>1. ASSUME NEW i \in I PROVE list[i] \in Range(s)
      <3>1. PICK k \in 1..size : Nth(I, k) = i
        BY <1>2
      <3> QED
        BY <1>4, <1>5, <3>1 DEF Range
    <2> QED
      BY <1>5, <2>1 DEF Range
  <1>7. \A k, m \in DOMAIN s : Nth(I, k) = Nth(I, m) => k = m
    BY <1>2, <1>4
  <1> QED
    BY <1>2, <1>4, <1>5, <1>6, <1>7 DEF s, size

-----------------------------------------------------------------------------
LEMMA SameLength ==
    ASSUME NEW m \in Nat, NEW n \in Nat, 1..m = 1..n
    PROVE  m = n
  <1>1. m <= n
    <2>1. m = 0 \/ m \in 1..n
      OBVIOUS
    <2> QED
      BY <2>1
  <1>2. n <= m
    <2>1. n = 0 \/ n \in 1..m
      OBVIOUS
    <2> QED
      BY <2>1
  <1> QED
    BY <1>1, <1>2

LEMMA PlacesCounted ==
    ASSUME NEW n \in Nat
    PROVE  IsFiniteSet(1..n) /\ Cardinality(1..n) = n
  BY FS_Interval

\* Sequences as functions on their places, and back.
LEMMA SeqFacts ==
    ASSUME NEW S, NEW list \in Seq(S)
    PROVE  /\ Len(list) \in Nat /\ DOMAIN list = 1..Len(list)
           /\ \A i \in DOMAIN list : list[i] \in S
  BY LenProperties

LEMMA SequenceOf ==
    ASSUME NEW S, NEW n \in Nat, NEW f \in [1..n -> S]
    PROVE  f \in Seq(S) /\ Len(f) = n /\ DOMAIN f = 1..n
  <1>1. f \in Seq(S) /\ DOMAIN f = 1..n
    BY SeqDef
  <1>2. Len(f) \in Nat /\ DOMAIN f = 1..Len(f)
    BY <1>1, LenProperties
  <1> QED
    BY <1>1, <1>2, SameLength

\* A sublist keeps what its list is over, and its order.
LEMMA SublistOf ==
    ASSUME NEW S, NEW list \in Seq(S), NEW I \in SUBSET DOMAIN list
    PROVE  LET s == Sublist(list, I)
           IN  /\ s \in Seq(S) /\ Len(s) \in Nat /\ DOMAIN s = 1..Len(s)
               /\ \A k \in DOMAIN s : Nth(I, k) \in I /\ s[k] = list[Nth(I, k)]
               /\ \A k, m \in DOMAIN s : k < m => Nth(I, k) < Nth(I, m)
               /\ \A i \in I : \E k \in DOMAIN s : Nth(I, k) = i
  <1> DEFINE s == Sublist(list, I)
             size == Cardinality(I)
  <1>1. /\ Len(list) \in Nat /\ I \in SUBSET (1..Len(list))
        /\ \A i \in DOMAIN list : list[i] \in S
    BY LenProperties
  <1>2. /\ size \in Nat
        /\ \A k \in 1..size : Nth(I, k) \in I /\ Cardinality(UpTo(I, Nth(I, k))) = k
        /\ \A i \in I : \E k \in 1..size : Nth(I, k) = i
    BY <1>1, PlacesAreCounted
  <1>3. s = [k \in 1..size |-> list[Nth(I, k)]]
    BY DEF Sublist
  <1>4. s \in [1..size -> S]
    BY <1>1, <1>2, <1>3
  <1>5. s \in Seq(S) /\ Len(s) = size /\ DOMAIN s = 1..size
    <2>1. s \in Seq(S)
      BY <1>2, <1>4, SeqDef
    <2>2. Len(s) \in Nat /\ DOMAIN s = 1..Len(s)
      BY <2>1, LenProperties
    <2>3. DOMAIN s = 1..size
      BY <1>4
    <2>4. size \in Nat
      BY <1>2
    <2> HIDE DEF s, size
    <2>5. Len(s) = size
      BY <2>2, <2>3, <2>4, SameLength
    <2> QED
      BY <2>1, <2>3, <2>5
  <1> HIDE DEF s, size
  <1>6. ASSUME NEW k \in DOMAIN s, NEW m \in DOMAIN s, k < m PROVE Nth(I, k) < Nth(I, m)
    <2> DEFINE a == Nth(I, k)
               b == Nth(I, m)
    <2>1. /\ a \in I /\ Cardinality(UpTo(I, a)) = k /\ a \in Int
          /\ b \in I /\ Cardinality(UpTo(I, b)) = m /\ b \in Int
      BY <1>1, <1>2, <1>5
    <2>2. k \in Int /\ m \in Int
      BY <1>5
    <2>3. ASSUME b <= a PROVE FALSE
      <3>1. UpTo(I, b) \in SUBSET UpTo(I, a)
        <4>1. \A i \in I : i <= b => i <= a
          <5>1. \A i \in I : i \in Int
            BY <1>1
          <5> HIDE DEF a, b
          <5> QED
            BY <2>1, <2>3, <5>1
        <4> QED
          BY <4>1 DEF UpTo
      <3>2. IsFiniteSet(UpTo(I, a))
        <4>1. UpTo(I, a) \in SUBSET I /\ IsFiniteSet(I)
          BY <1>1, PlacesAreCounted DEF UpTo
        <4> QED
          BY <4>1, FS_Subset
      <3>3. m <= k
        BY <2>1, <3>1, <3>2, FS_Subset
      <3> QED
        BY <1>6, <2>2, <3>3
    <2> HIDE DEF a, b
    <2>4. a < b
      BY <2>1, <2>3
    <2> QED
      BY <2>4 DEF a, b
  <1>7. \A k \in DOMAIN s : Nth(I, k) \in I /\ s[k] = list[Nth(I, k)]
    BY <1>2, <1>3, <1>5
  <1>8. \A i \in I : \E k \in DOMAIN s : Nth(I, k) = i
    BY <1>2, <1>5
  <1> QED
    BY <1>2, <1>5, <1>6, <1>7, <1>8 DEF s

\* The least of some places, and that there is none.
LEMMA FirstPlaceFacts ==
    ASSUME NEW n \in Nat, NEW I \in SUBSET (1..n)
    PROVE  /\ FirstPlace(I) \in 0..n /\ (FirstPlace(I) = 0 <=> I = {})
           /\ I # {} => FirstPlace(I) \in I /\ \A j \in I : FirstPlace(I) <= j
  <1>1. CASE I = {}
    BY <1>1 DEF FirstPlace
  <1>2. CASE I # {}
    <2>1. I \subseteq Nat
      OBVIOUS
    <2>2. \E i \in I : \A j \in I : i <= j
      BY <1>2, <2>1, LeastNatural
    <2>3. FirstPlace(I) \in I /\ \A j \in I : FirstPlace(I) <= j
      BY <1>2, <2>2 DEF FirstPlace
    <2>4. FirstPlace(I) \in 1..n
      BY <2>3
    <2>5. FirstPlace(I) \in 0..n /\ FirstPlace(I) # 0
      BY <2>4
    <2> QED
      BY <1>2, <2>3, <2>5
  <1> QED
    BY <1>1, <1>2

\* Every class has its first entry, and one only.
LEMMA FirstsFacts ==
    ASSUME NEW n \in Nat, NEW classes, DOMAIN classes = 1..n
    PROVE  /\ Firsts(classes) \in SUBSET (1..n)
           /\ \A i, j \in Firsts(classes) : classes[i] = classes[j] => i = j
           /\ \A i \in 1..n : \E j \in Firsts(classes) : j <= i /\ classes[j] = classes[i]
           /\ n > 0 => 1 \in Firsts(classes)
  <1> DEFINE I == Firsts(classes)
  <1>1. I \in SUBSET (1..n)
    BY DEF Firsts
  <1>2. ASSUME NEW i \in I, NEW j \in I, classes[i] = classes[j] PROVE i = j
    <2>1. i \in 1..n /\ j \in 1..n /\ ~(i < j) /\ ~(j < i)
      BY <1>2 DEF Firsts
    <2> QED
      BY <2>1
  <1>3. ASSUME NEW i \in 1..n PROVE \E j \in I : j <= i /\ classes[j] = classes[i]
    <2> DEFINE Same == {j \in 1..n : classes[j] = classes[i]}
    <2>1. Same \subseteq Nat /\ i \in Same
      OBVIOUS
    <2>2. PICK j \in Same : \A k \in Same : j <= k
      BY <2>1, LeastNatural
    <2>3. \A k \in 1..n : k < j => classes[k] # classes[j]
      <3>1. ASSUME NEW k \in 1..n, k < j, classes[k] = classes[j] PROVE FALSE
        <4>1. k \in Same /\ j \in 1..n
          BY <2>2, <3>1
        <4>2. j <= k
          BY <2>2, <4>1
        <4> QED
          BY <3>1, <4>1, <4>2
      <3> QED
        BY <3>1
    <2>4. j \in I
      BY <2>2, <2>3 DEF Firsts
    <2> QED
      BY <2>1, <2>2, <2>4
  <1>4. n > 0 => 1 \in I
    BY DEF Firsts
  <1> QED
    BY <1>1, <1>2, <1>3, <1>4

\* A slice is the front of its list.
LEMMA TakeFacts ==
    ASSUME NEW S, NEW list \in Seq(S), NEW n \in Nat
    PROVE  LET s == Take(list, n)
           IN  /\ s \in Seq(S) /\ Len(s) \in Nat /\ DOMAIN s = 1..Len(s)
               /\ Len(s) = IF n <= Len(list) THEN n ELSE Len(list)
               /\ DOMAIN s \subseteq DOMAIN list
               /\ \A k \in DOMAIN s : s[k] = list[k]
  <1> DEFINE s == Take(list, n)
             m == IF n <= Len(list) THEN n ELSE Len(list)
  <1>1. Len(list) \in Nat /\ DOMAIN list = 1..Len(list) /\ \A i \in 1..Len(list) : list[i] \in S
    BY LenProperties
  <1>2. m \in Nat /\ m <= Len(list)
    BY <1>1
  <1>3. s = SubSeq(list, 1, m)
    BY DEF Take
  <1> HIDE DEF s
  <1>4. DEFINE l == m
  <1>5. l \in 0..Len(list) /\ s = SubSeq(list, 1, l)
    BY <1>1, <1>2, <1>3
  <1> HIDE DEF l
  <1>6. \A i \in 1..l : i \in 1..Len(list) /\ list[i] \in S
    BY <1>1, <1>5
  <1>7. s \in Seq(S) /\ Len(s) = l /\ \A i \in 1..l : s[i] = list[i]
    <2>1. \A i \in 1..l : list[i] \in S
      BY <1>6
    <2>2. /\ SubSeq(list, 1, l) \in Seq(S)
          /\ Len(SubSeq(list, 1, l)) = IF 1 <= l THEN l - 1 + 1 ELSE 0
          /\ \A i \in 1..l - 1 + 1 : SubSeq(list, 1, l)[i] = list[1 + i - 1]
      BY <1>5, <2>1, SubSeqProperties
    <2>3. l - 1 + 1 = l /\ \A i \in 1..l : 1 + i - 1 = i
      BY <1>5
    <2> QED
      BY <1>5, <2>2, <2>3
  <1>8. DOMAIN s = 1..l
    BY <1>7, LenProperties
  <1>9. DOMAIN s \subseteq DOMAIN list
    BY <1>1, <1>6, <1>8
  <1>10. l = m /\ l \in Nat
    BY <1>5 DEF l
  <1> QED
    BY <1>7, <1>8, <1>9, <1>10 DEF s
-----------------------------------------------------------------------------
\* The order of the keys is strict and total.
SortKeys == Int \X Int \X Int \X Int

LEMMA KeysAreOrdered ==
    ASSUME NEW a \in SortKeys, NEW b \in SortKeys
    PROVE  /\ ~Precedes(a, a)
           /\ Precedes(a, b) => ~Precedes(b, a) /\ a[1] >= b[1]
           /\ a = b \/ Precedes(a, b) \/ Precedes(b, a)
           /\ a[1] > b[1] => Precedes(a, b)
  <1>1. PICK a1 \in Int, a2 \in Int, a3 \in Int, a4 \in Int : a = <<a1, a2, a3, a4>>
    BY DEF SortKeys
  <1>2. PICK b1 \in Int, b2 \in Int, b3 \in Int, b4 \in Int : b = <<b1, b2, b3, b4>>
    BY DEF SortKeys
  <1> QED
    BY <1>1, <1>2 DEF Precedes

LEMMA KeysAreTransitive ==
    ASSUME NEW a \in SortKeys, NEW b \in SortKeys, NEW c \in SortKeys, Precedes(a, b), Precedes(b, c)
    PROVE  Precedes(a, c)
  <1>1. PICK a1 \in Int, a2 \in Int, a3 \in Int, a4 \in Int : a = <<a1, a2, a3, a4>>
    BY DEF SortKeys
  <1>2. PICK b1 \in Int, b2 \in Int, b3 \in Int, b4 \in Int : b = <<b1, b2, b3, b4>>
    BY DEF SortKeys
  <1>3. PICK c1 \in Int, c2 \in Int, c3 \in Int, c4 \in Int : c = <<c1, c2, c3, c4>>
    BY DEF SortKeys
  <1> QED
    BY <1>1, <1>2, <1>3 DEF Precedes

LEMMA AheadIsAnOrder ==
    ASSUME NEW n \in Nat, NEW keys \in [1..n -> SortKeys],
           NEW i \in 1..n, NEW j \in 1..n
    PROVE  /\ ~Ahead(keys, i, i)
           /\ Ahead(keys, i, j) => ~Ahead(keys, j, i)
           /\ i = j \/ Ahead(keys, i, j) \/ Ahead(keys, j, i)
           /\ \A k \in 1..n : Ahead(keys, i, j) /\ Ahead(keys, j, k) => Ahead(keys, i, k)
  <1>1. keys[i] \in SortKeys /\ keys[j] \in SortKeys
    OBVIOUS
  <1>2. /\ ~Precedes(keys[i], keys[i])
        /\ Precedes(keys[i], keys[j]) => ~Precedes(keys[j], keys[i])
        /\ Precedes(keys[j], keys[i]) => ~Precedes(keys[i], keys[j])
        /\ keys[i] = keys[j] \/ Precedes(keys[i], keys[j]) \/ Precedes(keys[j], keys[i])
    BY <1>1, KeysAreOrdered
  <1>3. i < j \/ j < i \/ i = j
    OBVIOUS
  <1>4. ~(i < i) /\ (i < j => ~(j < i))
    OBVIOUS
  <1>5. ASSUME NEW k \in 1..n, Ahead(keys, i, j), Ahead(keys, j, k) PROVE Ahead(keys, i, k)
    <2>1. keys[k] \in SortKeys
      OBVIOUS
    <2>2. Precedes(keys[i], keys[j]) /\ Precedes(keys[j], keys[k]) => Precedes(keys[i], keys[k])
      BY <1>1, <2>1, KeysAreTransitive
    <2>3. i < j /\ j < k => i < k
      OBVIOUS
    <2> QED
      BY <1>5, <2>2, <2>3, Zenon DEF Ahead
  <1> QED
    BY <1>2, <1>3, <1>4, <1>5, Zenon DEF Ahead

\* Sorting is a permutation of the places, and it sorts.
LEMMA SortedPlaces ==
    ASSUME NEW n \in Nat, NEW keys \in [1..n -> SortKeys]
    PROVE  /\ \A k \in 1..n : SortedPlace(keys, k) \in 1..n
           /\ \A i \in 1..n : \E k \in 1..n : SortedPlace(keys, k) = i
           /\ \A k, m \in 1..n :
                k < m => Ahead(keys, SortedPlace(keys, k), SortedPlace(keys, m))
  <1> DEFINE count == [i \in 1..n |-> Cardinality(AheadOf(keys, i)) + 1]
  <1>1. IsFiniteSet(1..n) /\ Cardinality(1..n) = n
    BY FS_Interval
  <1>2. ASSUME NEW i \in 1..n
        PROVE  /\ AheadOf(keys, i) \in SUBSET (1..n) /\ IsFiniteSet(AheadOf(keys, i))
               /\ count[i] \in 1..n
    <2>1. AheadOf(keys, i) \in SUBSET (1..n)
      BY DEF AheadOf
    <2>2. i \notin AheadOf(keys, i)
      BY AheadIsAnOrder DEF AheadOf
    <2>3. IsFiniteSet(AheadOf(keys, i)) /\ Cardinality(AheadOf(keys, i)) <= n
      BY <1>1, <2>1, FS_Subset
    <2>4. Cardinality(AheadOf(keys, i)) # n
      BY <1>1, <2>1, <2>2, FS_Subset
    <2>5. Cardinality(AheadOf(keys, i)) \in Nat
      BY <2>3, FS_CardinalityType
    <2> QED
      BY <2>1, <2>3, <2>4, <2>5
  <1>3. ASSUME NEW i \in 1..n, NEW j \in 1..n, Ahead(keys, i, j) PROVE count[i] < count[j]
    <2>1. AheadOf(keys, i) \in SUBSET AheadOf(keys, j)
      BY <1>3, AheadIsAnOrder DEF AheadOf
    <2>2. i \in AheadOf(keys, j) /\ i \notin AheadOf(keys, i)
      BY <1>3, AheadIsAnOrder DEF AheadOf
    <2>3. Cardinality(AheadOf(keys, i)) <= Cardinality(AheadOf(keys, j))
      BY <1>2, <2>1, FS_Subset
    <2>4. Cardinality(AheadOf(keys, i)) # Cardinality(AheadOf(keys, j))
      BY <1>2, <2>1, <2>2, FS_Subset
    <2>5. Cardinality(AheadOf(keys, i)) \in Nat /\ Cardinality(AheadOf(keys, j)) \in Nat
      BY <1>2, FS_CardinalityType
    <2> QED
      BY <2>3, <2>4, <2>5
  <1> HIDE DEF count
  <1>4. count \in Injection(1..n, 1..n)
    <2>1. count \in [1..n -> 1..n]
      BY <1>2 DEF count
    <2>2. ASSUME NEW i \in 1..n, NEW j \in 1..n, count[i] = count[j] PROVE i = j
      <3>1. count[i] \in Int /\ count[j] \in Int
        BY <2>1
      <3>2. ~(count[i] < count[j]) /\ ~(count[j] < count[i])
        BY <2>2, <3>1
      <3>3. ~Ahead(keys, i, j) /\ ~Ahead(keys, j, i)
        BY <1>3, <3>2
      <3> QED
        BY <3>3, AheadIsAnOrder
    <2> QED
      BY <2>1, <2>2 DEF Injection, IsInjective
  <1>5. count \in Surjection(1..n, 1..n)
    BY <1>1, <1>4, FS_Injection
  <1>6. ASSUME NEW k \in 1..n
        PROVE  SortedPlace(keys, k) \in 1..n /\ count[SortedPlace(keys, k)] = k
    <2>1. PICK i \in 1..n : count[i] = k
      BY <1>5 DEF Surjection
    <2>2. DOMAIN keys = 1..n /\ Cardinality(AheadOf(keys, i)) = k - 1
      <3>1. Cardinality(AheadOf(keys, i)) \in Nat
        BY <1>2, FS_CardinalityType
      <3> QED
        BY <2>1, <3>1 DEF count
    <2>3. /\ SortedPlace(keys, k) \in 1..n
          /\ Cardinality(AheadOf(keys, SortedPlace(keys, k))) = k - 1
      BY <2>2 DEF SortedPlace
    <2> QED
      BY <2>3 DEF count
  <1>7. ASSUME NEW i \in 1..n PROVE \E k \in 1..n : SortedPlace(keys, k) = i
    <2>1. count[i] \in 1..n
      BY <1>2
    <2>2. SortedPlace(keys, count[i]) \in 1..n /\ count[SortedPlace(keys, count[i])] = count[i]
      BY <1>6, <2>1
    <2>3. SortedPlace(keys, count[i]) = i
      BY <1>4, <2>2 DEF Injection, IsInjective
    <2> QED
      BY <2>1, <2>3
  <1>8. ASSUME NEW k \in 1..n, NEW m \in 1..n, k < m
        PROVE  Ahead(keys, SortedPlace(keys, k), SortedPlace(keys, m))
    <2> DEFINE p == SortedPlace(keys, k)
               q == SortedPlace(keys, m)
    <2>1. p \in 1..n /\ q \in 1..n /\ count[p] = k /\ count[q] = m
      BY <1>6
    <2> HIDE DEF p, q
    <2>2. p # q /\ ~(count[q] < count[p])
      BY <1>8, <2>1
    <2>3. ~Ahead(keys, q, p)
      BY <1>3, <2>1, <2>2
    <2>4. Ahead(keys, p, q)
      BY <2>1, <2>2, <2>3, AheadIsAnOrder
    <2> QED
      BY <2>4 DEF p, q
  <1> QED
    BY <1>6, <1>7, <1>8

LEMMA SortedByFacts ==
    ASSUME NEW S, NEW list \in Seq(S), NEW keys \in [1..Len(list) -> SortKeys]
    PROVE  LET s == SortedBy(keys, list)
               place(k) == SortedPlace(keys, k)
           IN  /\ s \in Seq(S) /\ Len(s) = Len(list) /\ Len(s) \in Nat /\ DOMAIN s = 1..Len(s)
               /\ \A k \in DOMAIN s : place(k) \in DOMAIN list /\ s[k] = list[place(k)]
               /\ \A i \in DOMAIN list : \E k \in DOMAIN s : place(k) = i
               /\ \A k, m \in DOMAIN s : k # m => place(k) # place(m)
               /\ \A k, m \in DOMAIN s : k < m => keys[place(k)][1] >= keys[place(m)][1]
  <1> DEFINE s == SortedBy(keys, list)
             n == Len(list)
             place(k) == SortedPlace(keys, k)
  <1>1. n \in Nat /\ DOMAIN list = 1..n /\ \A i \in 1..n : list[i] \in S
    BY LenProperties
  <1>2. /\ \A k \in 1..n : place(k) \in 1..n
        /\ \A i \in 1..n : \E k \in 1..n : place(k) = i
        /\ \A k, m \in 1..n : k < m => Ahead(keys, place(k), place(m))
    BY <1>1, SortedPlaces
  <1>3. s = [k \in 1..n |-> list[place(k)]]
    BY DEF SortedBy
  <1>4. s \in [1..n -> S]
    BY <1>1, <1>2, <1>3
  <1> HIDE DEF s, n, place
  <1>5. s \in Seq(S) /\ Len(s) = n /\ DOMAIN s = 1..n
    <2>1. s \in Seq(S)
      BY <1>1, <1>4, SeqDef
    <2>2. Len(s) \in Nat /\ DOMAIN s = 1..Len(s)
      BY <2>1, LenProperties
    <2>3. DOMAIN s = 1..n
      BY <1>4
    <2> QED
      BY <1>1, <2>1, <2>2, <2>3, SameLength
  <1>6. ASSUME NEW k \in 1..n, NEW m \in 1..n, k < m
        PROVE  keys[place(k)][1] >= keys[place(m)][1] /\ place(k) # place(m)
    <2>1. place(k) \in 1..n /\ place(m) \in 1..n /\ Ahead(keys, place(k), place(m))
      BY <1>2, <1>6
    <2>2. keys[place(k)] \in SortKeys /\ keys[place(m)] \in SortKeys
      BY <2>1 DEF n
    <2>3. place(k) # place(m)
      BY <1>1, <2>1, AheadIsAnOrder DEF n
    <2>4. keys[place(k)][1] \in Int
      BY <2>2 DEF SortKeys
    <2>5. CASE keys[place(k)] = keys[place(m)]
      BY <2>3, <2>4, <2>5
    <2>6. CASE Precedes(keys[place(k)], keys[place(m)])
      BY <2>2, <2>3, <2>6, KeysAreOrdered
    <2> QED
      BY <2>1, <2>5, <2>6 DEF Ahead
  <1>7. \A k, m \in 1..n : k # m => place(k) # place(m)
    <2>1. \A k, m \in 1..n : k # m => k < m \/ m < k
      BY <1>1
    <2> QED
      BY <1>6, <2>1
  <1> QED
    BY <1>1, <1>2, <1>3, <1>5, <1>6, <1>7 DEF s, n, place

\* Of some numbers one is the largest; a list without repetition has as many
\* entries as they are.
LEMMA LargestNumber ==
    ASSUME NEW n \in Nat, n > 0, NEW f \in [1..n -> Int]
    PROVE  \E i \in 1..n : \A j \in 1..n : f[j] <= f[i]
  <1> DEFINE keys == [i \in 1..n |-> <<f[i], 0, 0, 0>>]
             p == SortedPlace(keys, 1)
  <1>1. keys \in [1..n -> SortKeys]
    BY DEF SortKeys
  <1>2. 1 \in 1..n
    OBVIOUS
  <1> HIDE DEF keys
  <1>3. p \in 1..n
    BY <1>1, <1>2, SortedPlaces
  <1>4. ASSUME NEW j \in 1..n PROVE f[j] <= f[p]
    <2>1. PICK k \in 1..n : SortedPlace(keys, k) = j
      BY <1>1, SortedPlaces
    <2>2. CASE k = 1
      BY <1>3, <2>1, <2>2
    <2>3. CASE k # 1
      <3>1. 1 < k
        BY <2>3
      <3>2. Ahead(keys, p, j)
        BY <1>1, <1>2, <2>1, <3>1, SortedPlaces
      <3> HIDE DEF p
      <3>3. keys[p] = <<f[p], 0, 0, 0>> /\ keys[j] = <<f[j], 0, 0, 0>>
        BY <1>3 DEF keys
      <3>4. f[p] \in Int /\ f[j] \in Int
        BY <1>3
      <3>5. keys[p][1] = f[p] /\ keys[p][2] = 0 /\ keys[p][3] = 0 /\ keys[p][4] = 0
            /\ keys[j][1] = f[j] /\ keys[j][2] = 0 /\ keys[j][3] = 0 /\ keys[j][4] = 0
        BY <3>3
      <3> QED
        BY <3>2, <3>4, <3>5 DEF Ahead, Precedes
    <2> QED
      BY <2>2, <2>3
  <1> QED
    BY <1>3, <1>4

LEMMA OnceCounted ==
    ASSUME NEW n \in Nat, NEW f, DOMAIN f = 1..n,
           \A i, j \in 1..n : f[i] = f[j] => i = j
    PROVE  Cardinality({f[i] : i \in 1..n}) = n
  <1> DEFINE g == [i \in 1..n |-> f[i]]
             U == {f[i] : i \in 1..n}
  <1>1. g \in Bijection(1..n, U)
    BY DEF Bijection, Injection, Surjection, IsInjective
  <1> QED
    BY <1>1, FS_CountingElements DEF ExistsBijection
=============================================================================
