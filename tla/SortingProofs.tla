---------------------------- MODULE SortingProofs ----------------------------
(* What SortedBy returns, for lists of any length.                         *)
EXTENDS Sorting, SequencesExt, FiniteSetTheorems, TLAPS

LEMMA BeforeFinite ==
    ASSUME NEW n \in Nat, NEW k \in [1 .. n -> Nat], NEW i \in 1 .. n
    PROVE  /\ IsFiniteSet(Before(k, i)) /\ Before(k, i) \subseteq 1 .. n
           /\ Place(k, i) \in 1 .. n
<1>1. Before(k, i) \subseteq 1 .. n /\ i \in Before(k, i)
  BY DEF Before
<1>2. IsFiniteSet(1 .. n) /\ Cardinality(1 .. n) = n
  BY FS_Interval
<1>3. IsFiniteSet(Before(k, i)) /\ Cardinality(Before(k, i)) <= n
  BY <1>1, <1>2, FS_Subset
<1>4. Cardinality(Before(k, i)) \in Nat /\ Cardinality(Before(k, i)) # 0
  BY <1>1, <1>3, FS_CardinalityType, FS_EmptySet
<1> QED BY <1>1, <1>3, <1>4 DEF Place

\* An element that comes before another gets a smaller place.
LEMMA PlaceMonotone ==
    ASSUME NEW n \in Nat, NEW k \in [1 .. n -> Nat], NEW i \in 1 .. n, NEW j \in 1 .. n,
           k[i] < k[j] \/ (k[i] = k[j] /\ i < j)
    PROVE  Place(k, i) < Place(k, j)
<1>1. Before(k, i) \subseteq Before(k, j) /\ j \in Before(k, j) /\ j \notin Before(k, i)
  BY DEF Before
<1>2. IsFiniteSet(Before(k, j)) /\ Place(k, i) \in Nat /\ Place(k, j) \in Nat
  BY BeforeFinite
<1>3. Place(k, i) <= Place(k, j) /\ Place(k, i) # Place(k, j)
  BY <1>1, <1>2, FS_Subset DEF Place
<1> QED BY <1>2, <1>3

LEMMA PlaceInjective ==
    ASSUME NEW n \in Nat, NEW k \in [1 .. n -> Nat], NEW i \in 1 .. n, NEW j \in 1 .. n,
           Place(k, i) = Place(k, j)
    PROVE  i = j
<1> SUFFICES ASSUME i # j PROVE FALSE
  OBVIOUS
<1>1. \/ k[i] < k[j] \/ (k[i] = k[j] /\ i < j)
      \/ k[j] < k[i] \/ (k[j] = k[i] /\ j < i)
  OBVIOUS
<1>2. Place(k, i) < Place(k, j) \/ Place(k, j) < Place(k, i)
  BY <1>1, PlaceMonotone
<1> QED BY <1>2, BeforeFinite

\* Every place is taken: there are as many as elements.
LEMMA PlaceOnto ==
    ASSUME NEW n \in Nat, NEW k \in [1 .. n -> Nat], NEW m \in 1 .. n
    PROVE  \E i \in 1 .. n : Place(k, i) = m
<1> SUFFICES ASSUME \A i \in 1 .. n : Place(k, i) # m PROVE FALSE
  OBVIOUS
<1> DEFINE T == (1 .. n) \ {m}
           f == [i \in 1 .. n |-> Place(k, i)]
<1>0. \A i \in 1 .. n : Place(k, i) \in T
  BY BeforeFinite
<1>1. f \in [1 .. n -> T]
  BY <1>0
<1>2. IsFiniteSet(1 .. n) /\ Cardinality(1 .. n) = n
  BY FS_Interval
<1>3. IsFiniteSet(T) /\ Cardinality(T) = n - 1
  BY <1>2, FS_RemoveElement
<1>4. \A i \in 1 .. n : f[i] = Place(k, i)
  OBVIOUS
<1> HIDE DEF T, f
<1>5. Cardinality(T) < Cardinality(1 .. n)
  BY <1>2, <1>3
<1>6. \E x, y \in 1 .. n : x # y /\ f[x] = f[y]
  BY <1>1, <1>2, <1>3, <1>5, FS_PigeonHole
<1> QED BY <1>4, <1>6, PlaceInjective

\* The element that goes to place m.
At(k, m) == CHOOSE i \in DOMAIN k : Place(k, i) = m

LEMMA AtPlace ==
    ASSUME NEW n \in Nat, NEW k \in [1 .. n -> Nat], NEW m \in 1 .. n
    PROVE  At(k, m) \in 1 .. n /\ Place(k, At(k, m)) = m
<1>1. \E i \in DOMAIN k : Place(k, i) = m
  BY PlaceOnto
<1> HIDE DEF Place
<1> QED BY <1>1 DEF At

LEMMA AtOf ==
    ASSUME NEW n \in Nat, NEW k \in [1 .. n -> Nat], NEW i \in 1 .. n
    PROVE  Place(k, i) \in 1 .. n /\ At(k, Place(k, i)) = i
<1>1. Place(k, i) \in 1 .. n
  BY BeforeFinite
<1>2. /\ At(k, Place(k, i)) \in 1 .. n
      /\ Place(k, At(k, Place(k, i))) = Place(k, i)
  BY <1>1, AtPlace
<1> QED BY <1>1, <1>2, PlaceInjective

LEMMA SortedAt ==
    ASSUME NEW S, NEW s \in Seq(S), NEW k \in [DOMAIN s -> Nat]
    PROVE  /\ SortedBy(s, k) = [m \in 1 .. Len(s) |-> s[At(k, m)]]
           /\ k \in [1 .. Len(s) -> Nat] /\ Len(s) \in Nat
BY DEF SortedBy, At

\* The sorted list has the length of the list and the same elements.
THEOREM SortKeeps ==
    ASSUME NEW S, NEW s \in Seq(S), NEW k \in [DOMAIN s -> Nat]
    PROVE  /\ SortedBy(s, k) \in Seq(S) /\ Len(SortedBy(s, k)) = Len(s)
           /\ {SortedBy(s, k)[m] : m \in DOMAIN SortedBy(s, k)} = {s[i] : i \in DOMAIN s}
<1> DEFINE t == SortedBy(s, k)
           n == Len(s)
<1>1. t = [m \in 1 .. n |-> s[At(k, m)]] /\ k \in [1 .. n -> Nat] /\ n \in Nat
  BY SortedAt
<1> HIDE DEF t
<1>2. \A m \in 1 .. n : At(k, m) \in 1 .. n
  BY <1>1, AtPlace
<1>3. t \in [1 .. n -> S]
  BY <1>1, <1>2
<1>4. t \in Seq(S) /\ Len(t) = n /\ DOMAIN t = 1 .. n /\ DOMAIN s = 1 .. n
  BY <1>1, <1>3
<1>5. ASSUME NEW i \in 1 .. n PROVE \E m \in 1 .. n : t[m] = s[i]
  <2>1. Place(k, i) \in 1 .. n /\ At(k, Place(k, i)) = i
    BY <1>1, AtOf
  <2> QED BY <1>1, <2>1
<1>6. {t[m] : m \in DOMAIN t} = {s[i] : i \in DOMAIN s}
  BY <1>1, <1>2, <1>4, <1>5
<1> QED BY <1>4, <1>6 DEF t

\* ... in the order of the keys, which nothing later undercuts.
THEOREM SortOrders ==
    ASSUME NEW S, NEW s \in Seq(S), NEW rank \in [S -> Nat],
           NEW l \in DOMAIN s, NEW m \in DOMAIN s, l <= m
    PROVE  LET t == SortedBy(s, [i \in DOMAIN s |-> rank[s[i]]])
           IN  rank[t[l]] <= rank[t[m]]
<1> DEFINE k == [i \in DOMAIN s |-> rank[s[i]]]
           t == SortedBy(s, k)
<1>1. k \in [DOMAIN s -> Nat]
  OBVIOUS
<1>2. /\ t = [q \in 1 .. Len(s) |-> s[At(k, q)]]
      /\ k \in [1 .. Len(s) -> Nat] /\ Len(s) \in Nat /\ DOMAIN s = 1 .. Len(s)
  BY <1>1, SortedAt
<1>h. k[At(k, l)] = rank[s[At(k, l)]] /\ k[At(k, m)] = rank[s[At(k, m)]]
  <2>1. At(k, l) \in DOMAIN s /\ At(k, m) \in DOMAIN s
    BY <1>2, AtPlace
  <2> QED BY <2>1
<1> HIDE DEF k, t
<1>3. /\ At(k, l) \in DOMAIN s /\ Place(k, At(k, l)) = l
      /\ At(k, m) \in DOMAIN s /\ Place(k, At(k, m)) = m
  BY <1>2, AtPlace, ZenonT(60)
<1>4. ~(k[At(k, m)] < k[At(k, l)])
  <2> SUFFICES ASSUME k[At(k, m)] < k[At(k, l)] PROVE FALSE
    OBVIOUS
  <2>1. m < l
    BY <1>2, <1>3, PlaceMonotone
  <2> QED BY <1>2, <2>1
<1>5. rank[t[l]] = k[At(k, l)] /\ rank[t[m]] = k[At(k, m)]
  BY <1>2, <1>h
<1>6. k[At(k, l)] \in Nat /\ k[At(k, m)] \in Nat
  BY <1>2, <1>3
<1> QED BY <1>4, <1>5, <1>6 DEF t, k

\* Two lists have the same elements, equally often.
Permuted(s, t) ==
    \E p \in Bijection(DOMAIN s, DOMAIN t) : \A i \in DOMAIN s : s[i] = t[p[i]]

\* Different elements have different keys.
Apart(rank) == \A c, e \in DOMAIN rank : rank[c] = rank[e] => c = e

\* The positions of elements with small keys: as many in two permuted lists.
Small(s, rank, a) == {m \in DOMAIN s : rank[s[m]] <= a}
AsManySmall(s, t, rank) ==
    \A c \in DOMAIN rank :
        Cardinality(Small(s, rank, rank[c])) = Cardinality(Small(t, rank, rank[c]))

LEMMA SmallFinite ==
    ASSUME NEW S, NEW s \in Seq(S), NEW rank, NEW a
    PROVE  IsFiniteSet(Small(s, rank, a))
<1>1. IsFiniteSet(1 .. Len(s)) /\ DOMAIN s = 1 .. Len(s)
  BY FS_Interval
<1>2. Small(s, rank, a) \in SUBSET (1 .. Len(s))
  BY <1>1 DEF Small
<1> QED BY <1>1, <1>2, FS_Subset

LEMMA SmallPermuted ==
    ASSUME NEW S, NEW s \in Seq(S), NEW t \in Seq(S), NEW rank \in [S -> Nat],
           Permuted(s, t)
    PROVE  AsManySmall(s, t, rank)
<1> SUFFICES ASSUME NEW a
             PROVE  Cardinality(Small(s, rank, a)) = Cardinality(Small(t, rank, a))
  BY DEF AsManySmall
<1>1. PICK p \in Bijection(DOMAIN s, DOMAIN t) : \A i \in DOMAIN s : s[i] = t[p[i]]
  BY DEF Permuted
<1> DEFINE A == Small(s, rank, a)
           B == Small(t, rank, a)
           f == [i \in A |-> p[i]]
<1>2. /\ p \in [DOMAIN s -> DOMAIN t]
      /\ \A i, j \in DOMAIN s : p[i] = p[j] => i = j
      /\ \A m \in DOMAIN t : \E i \in DOMAIN s : p[i] = m
  BY <1>1 DEF Bijection, Injection, Surjection, IsInjective
<1>3. f \in [A -> B] /\ \A m \in B : \E i \in A : f[i] = m
  BY <1>1, <1>2 DEF Small
<1>4. \A i, j \in A : f[i] = f[j] => i = j
  BY <1>1, <1>2 DEF Small
<1>5. IsFiniteSet(A)
  BY SmallFinite
<1> HIDE DEF A, B, f
<1>6. f \in Bijection(A, B)
  BY <1>3, <1>4 DEF Bijection, Injection, Surjection, IsInjective
<1>7. Cardinality(A) = Cardinality(B)
  BY <1>5, <1>6, FS_Bijection DEF ExistsBijection
<1> QED BY <1>7 DEF A, B

LEMMA NoSmaller ==
    ASSUME NEW S, NEW s \in Seq(S), NEW t \in Seq(S), NEW rank \in [S -> Nat],
           AsManySmall(s, t, rank),
           NEW i \in DOMAIN s, NEW j \in DOMAIN t,
           Place([m \in DOMAIN s |-> rank[s[m]]], i)
             = Place([m \in DOMAIN t |-> rank[t[m]]], j)
    PROVE  ~(rank[s[i]] < rank[t[j]])
<1> SUFFICES ASSUME rank[s[i]] < rank[t[j]] PROVE FALSE
  OBVIOUS
<1> DEFINE k == [m \in DOMAIN s |-> rank[s[m]]]
           l == [m \in DOMAIN t |-> rank[t[m]]]
           A == Small(s, rank, rank[s[i]])
           B == Small(t, rank, rank[s[i]])
<1>0. /\ DOMAIN s = 1 .. Len(s) /\ Len(s) \in Nat /\ k \in [1 .. Len(s) -> Nat]
      /\ DOMAIN t = 1 .. Len(t) /\ Len(t) \in Nat /\ l \in [1 .. Len(t) -> Nat]
      /\ rank[s[i]] \in Nat /\ rank[t[j]] \in Nat
  BY SMTT(30)
<1>1. Before(k, i) \in SUBSET A
  <2>1. DOMAIN k = DOMAIN s /\ \A m \in DOMAIN s : k[m] = rank[s[m]] /\ k[m] \in Nat
    BY <1>0
  <2> HIDE DEF k
  <2> QED BY <1>0, <2>1 DEF Before, Small
<1>2. B \in SUBSET Before(l, j) /\ j \in Before(l, j) /\ j \notin B
  BY <1>0 DEF Before, Small
<1>3. IsFiniteSet(A) /\ Cardinality(A) = Cardinality(B)
  <2>1. s[i] \in DOMAIN rank
    BY <1>0
  <2> QED BY <1>0, <2>1, SmallFinite DEF AsManySmall
<1>4. Place(k, i) = Place(l, j)
  OBVIOUS
<1> HIDE DEF A, B, k, l
<1>5. IsFiniteSet(Before(l, j)) /\ Place(k, i) \in Nat /\ Place(l, j) \in Nat
  <2>1. i \in 1 .. Len(s) /\ j \in 1 .. Len(t)
    BY <1>0
  <2>2. Place(k, i) \in 1 .. Len(s)
    BY <1>0, <2>1, BeforeFinite
  <2>3. IsFiniteSet(Before(l, j)) /\ Place(l, j) \in 1 .. Len(t)
    BY <1>0, <2>1, BeforeFinite
  <2> QED BY <2>2, <2>3
<1>6. Cardinality(Before(k, i)) <= Cardinality(A) /\ Cardinality(A) \in Nat
  BY <1>1, <1>3, FS_Subset, FS_CardinalityType
<1>7. /\ Cardinality(B) <= Cardinality(Before(l, j))
      /\ Cardinality(B) # Cardinality(Before(l, j))
  BY <1>2, <1>5, FS_Subset
<1> QED BY <1>3, <1>4, <1>5, <1>6, <1>7 DEF Place

\* Lists with the same counts, whose elements all have different keys, are
\* sorted into the same list.
LEMMA SameCounts ==
    ASSUME NEW S, NEW s \in Seq(S), NEW t \in Seq(S), NEW rank \in [S -> Nat],
           Apart(rank), Len(s) = Len(t), AsManySmall(s, t, rank)
    PROVE  SortedBy(s, [i \in DOMAIN s |-> rank[s[i]]])
             = SortedBy(t, [i \in DOMAIN t |-> rank[t[i]]])
<1> DEFINE k == [i \in DOMAIN s |-> rank[s[i]]]
           l == [i \in DOMAIN t |-> rank[t[i]]]
<1>1. /\ k \in [DOMAIN s -> Nat] /\ k \in [1 .. Len(s) -> Nat]
      /\ l \in [DOMAIN t -> Nat] /\ l \in [1 .. Len(t) -> Nat]
      /\ DOMAIN s = 1 .. Len(s) /\ DOMAIN t = 1 .. Len(t)
      /\ Len(s) \in Nat /\ Len(t) \in Nat
  OBVIOUS
<1>2. AsManySmall(s, t, rank) /\ AsManySmall(t, s, rank)
  BY DEF AsManySmall
<1>3. Len(s) = Len(t)
  OBVIOUS
<1>4. ASSUME NEW m \in 1 .. Len(s) PROVE s[At(k, m)] = t[At(l, m)]
  <2>1. /\ At(k, m) \in DOMAIN s /\ Place(k, At(k, m)) = m
        /\ At(l, m) \in DOMAIN t /\ Place(l, At(l, m)) = m
    BY <1>1, <1>3, AtPlace, ZenonT(60)
  <2> DEFINE i == At(k, m)
             j == At(l, m)
  <2> HIDE DEF i, j
  <2>2. i \in DOMAIN s /\ j \in DOMAIN t /\ Place(k, i) = Place(l, j)
    BY <2>1 DEF i, j
  <2>3. ~(rank[s[i]] < rank[t[j]])
    <3>1. ASSUME rank[s[i]] < rank[t[j]] PROVE FALSE
      BY <1>2, <2>2, <3>1, NoSmaller
    <3> QED BY <3>1
  <2>4. ~(rank[t[j]] < rank[s[i]])
    BY <1>2, <2>2, NoSmaller
  <2>5. s[i] \in S /\ t[j] \in S
    BY <2>2
  <2> QED BY <2>3, <2>4, <2>5 DEF Apart, i, j
<1> HIDE DEF k, l
<1>5. /\ SortedBy(s, k) = [m \in 1 .. Len(s) |-> s[At(k, m)]]
      /\ SortedBy(t, l) = [m \in 1 .. Len(t) |-> t[At(l, m)]]
  BY <1>1, SortedAt
<1>6. SortedBy(s, k) = SortedBy(t, l)
  BY <1>3, <1>4, <1>5
<1> QED BY <1>6 DEF k, l

\* Lists of the same elements, whose keys are all different, are sorted into the
\* same list, whatever their order was.
THEOREM SortIsCanonical ==
    ASSUME NEW S, NEW s \in Seq(S), NEW t \in Seq(S), NEW rank \in [S -> Nat],
           Apart(rank), Permuted(s, t)
    PROVE  SortedBy(s, [i \in DOMAIN s |-> rank[s[i]]])
             = SortedBy(t, [i \in DOMAIN t |-> rank[t[i]]])
<1>1. AsManySmall(s, t, rank)
  BY SmallPermuted
<1>2. Len(s) = Len(t)
  <2>1. \A n \in Nat : IsFiniteSet(1 .. n) /\ Cardinality(1 .. n) = n
    BY FS_Interval
  <2>2. /\ DOMAIN s = 1 .. Len(s) /\ DOMAIN t = 1 .. Len(t)
        /\ Len(s) \in Nat /\ Len(t) \in Nat
    OBVIOUS
  <2> QED BY <2>1, <2>2, FS_Bijection, ZenonT(60) DEF ExistsBijection, Permuted
<1> QED BY <1>1, <1>2, SameCounts, ZenonT(60)

\* A list and the sorted one have the same elements, equally often.
THEOREM SortPermutes ==
    ASSUME NEW S, NEW s \in Seq(S), NEW k \in [DOMAIN s -> Nat]
    PROVE  Permuted(s, SortedBy(s, k))
<1> DEFINE t == SortedBy(s, k)
           n == Len(s)
           p == [i \in DOMAIN s |-> Place(k, i)]
<1>1. /\ t = [m \in 1 .. n |-> s[At(k, m)]] /\ k \in [1 .. n -> Nat] /\ n \in Nat
      /\ DOMAIN s = 1 .. n /\ DOMAIN t = 1 .. n
  BY SortedAt
<1> HIDE DEF t
<1>2. \A i \in 1 .. n : Place(k, i) \in 1 .. n /\ At(k, Place(k, i)) = i
  BY <1>1, AtOf
<1>3. \A m \in 1 .. n : At(k, m) \in 1 .. n /\ Place(k, At(k, m)) = m
  BY <1>1, AtPlace
<1>4. p \in [DOMAIN s -> DOMAIN t] /\ \A i \in DOMAIN s : p[i] = Place(k, i)
  BY <1>1, <1>2
<1> HIDE DEF p
<1>5. p \in Bijection(DOMAIN s, DOMAIN t)
  <2>1. \A i, j \in DOMAIN s : p[i] = p[j] => i = j
    BY <1>1, <1>2, <1>4
  <2>2. \A m \in DOMAIN t : \E i \in DOMAIN s : p[i] = m
    BY <1>1, <1>3, <1>4
  <2> QED BY <1>4, <2>1, <2>2 DEF Bijection, Injection, Surjection, IsInjective
<1>6. \A i \in DOMAIN s : s[i] = t[p[i]]
  BY <1>1, <1>2, <1>4
<1> QED BY <1>5, <1>6 DEF Permuted, t

\* A list in order is its own sorted list.
LEMMA SortOfSorted ==
    ASSUME NEW S, NEW s \in Seq(S), NEW k \in [DOMAIN s -> Nat],
           \A i, j \in DOMAIN s : i < j => k[i] <= k[j]
    PROVE  SortedBy(s, k) = s
<1> DEFINE n == Len(s)
<1>1. /\ SortedBy(s, k) = [m \in 1 .. n |-> s[At(k, m)]] /\ DOMAIN s = 1 .. n
      /\ k \in [1 .. n -> Nat] /\ n \in Nat
  BY SortedAt
<1>2. ASSUME NEW i \in 1 .. n PROVE Place(k, i) = i
  <2>1. \A m \in 1 .. n : /\ m < i => k[m] <= k[i]
                          /\ i < m => k[i] <= k[m]
                          /\ k[m] \in Nat /\ k[i] \in Nat
    BY <1>1
  <2>2. Before(k, i) = 1 .. i
    <3>1. DOMAIN k = 1 .. n
      BY <1>1
    <3> QED BY <1>1, <2>1, <3>1 DEF Before
  <2>3. i \in Nat /\ Cardinality(1 .. i) = i
    BY <1>1, FS_Interval
  <2> QED BY <2>2, <2>3 DEF Place
<1>3. ASSUME NEW m \in 1 .. n PROVE At(k, m) = m
  <2>1. At(k, m) \in 1 .. n /\ Place(k, At(k, m)) = m
    BY <1>1, AtPlace
  <2> QED BY <1>2, <2>1
<1>4. SortedBy(s, k) = [m \in 1 .. n |-> s[m]]
  BY <1>1, <1>3
<1> QED BY <1>1, <1>4

\* Two lists in order with the same counts are one.
LEMMA OrderedUnique ==
    ASSUME NEW S, NEW s \in Seq(S), NEW t \in Seq(S), NEW rank \in [S -> Nat],
           Apart(rank), Len(s) = Len(t), AsManySmall(s, t, rank),
           \A i, j \in DOMAIN s : i < j => rank[s[i]] <= rank[s[j]],
           \A i, j \in DOMAIN t : i < j => rank[t[i]] <= rank[t[j]]
    PROVE  s = t
<1> DEFINE k == [i \in DOMAIN s |-> rank[s[i]]]
           l == [i \in DOMAIN t |-> rank[t[i]]]
<1>1. k \in [DOMAIN s -> Nat] /\ l \in [DOMAIN t -> Nat]
  OBVIOUS
<1>2. /\ \A i, j \in DOMAIN s : i < j => k[i] <= k[j]
      /\ \A i, j \in DOMAIN t : i < j => l[i] <= l[j]
  OBVIOUS
<1>3. SortedBy(s, k) = SortedBy(t, l)
  BY SameCounts
<1> HIDE DEF k, l
<1>4. SortedBy(s, k) = s /\ SortedBy(t, l) = t
  BY <1>1, <1>2, SortOfSorted
<1> QED BY <1>3, <1>4

-----------------------------------------------------------------------------
\* Sets listed in order.
Nth(S, rank, x) == Cardinality(UpTo(S, rank, x))

LEMMA NthInside ==
    ASSUME NEW T, NEW S \in SUBSET T, IsFiniteSet(S), NEW rank \in [T -> Nat],
           NEW x \in S
    PROVE  IsFiniteSet(UpTo(S, rank, x)) /\ Nth(S, rank, x) \in 1 .. Cardinality(S)
<1>1. UpTo(S, rank, x) \subseteq S /\ x \in UpTo(S, rank, x)
  BY DEF UpTo
<1>2. IsFiniteSet(UpTo(S, rank, x)) /\ Nth(S, rank, x) <= Cardinality(S)
  BY <1>1, FS_Subset DEF Nth
<1>3. Nth(S, rank, x) \in Nat /\ Nth(S, rank, x) # 0 /\ Cardinality(S) \in Nat
  BY <1>1, <1>2, FS_CardinalityType, FS_EmptySet DEF Nth
<1> QED BY <1>2, <1>3

LEMMA NthMonotone ==
    ASSUME NEW T, NEW S \in SUBSET T, IsFiniteSet(S), NEW rank \in [T -> Nat],
           NEW x \in S, NEW y \in S, rank[x] < rank[y]
    PROVE  Nth(S, rank, x) < Nth(S, rank, y)
<1>1. /\ UpTo(S, rank, x) \subseteq UpTo(S, rank, y)
      /\ y \in UpTo(S, rank, y) /\ y \notin UpTo(S, rank, x)
  BY DEF UpTo
<1>2. /\ IsFiniteSet(UpTo(S, rank, y))
      /\ Nth(S, rank, x) \in 1 .. Cardinality(S) /\ Nth(S, rank, y) \in 1 .. Cardinality(S)
      /\ Cardinality(S) \in Nat
  BY NthInside, FS_CardinalityType
<1>3. Nth(S, rank, x) <= Nth(S, rank, y) /\ Nth(S, rank, x) # Nth(S, rank, y)
  BY <1>1, <1>2, FS_Subset DEF Nth
<1> QED BY <1>2, <1>3

LEMMA NthApart ==
    ASSUME NEW T, NEW S \in SUBSET T, IsFiniteSet(S), NEW rank \in [T -> Nat],
           NEW x \in S, NEW y \in S,
           x # y => rank[x] # rank[y], Nth(S, rank, x) = Nth(S, rank, y)
    PROVE  x = y
<1> SUFFICES ASSUME x # y PROVE FALSE
  OBVIOUS
<1>1. rank[x] < rank[y] \/ rank[y] < rank[x]
  OBVIOUS
<1>2. Nth(S, rank, x) < Nth(S, rank, y) \/ Nth(S, rank, y) < Nth(S, rank, x)
  BY <1>1, NthMonotone
<1>3. /\ Nth(S, rank, x) \in 1 .. Cardinality(S) /\ Nth(S, rank, y) \in 1 .. Cardinality(S)
      /\ Cardinality(S) \in Nat
  BY NthInside, FS_CardinalityType
<1> QED BY <1>2, <1>3

LEMMA NthOnto ==
    ASSUME NEW T, NEW S \in SUBSET T, IsFiniteSet(S), NEW rank \in [T -> Nat],
           Apart(rank), NEW n \in 1 .. Cardinality(S)
    PROVE  \E x \in S : Nth(S, rank, x) = n
<1> SUFFICES ASSUME \A x \in S : Nth(S, rank, x) # n PROVE FALSE
  OBVIOUS
<1> DEFINE R == (1 .. Cardinality(S)) \ {n}
           f == [x \in S |-> Nth(S, rank, x)]
<1>1. \A x \in S : Nth(S, rank, x) \in R
  BY NthInside
<1>2. Cardinality(S) \in Nat
  BY FS_CardinalityType
<1>3. IsFiniteSet(1 .. Cardinality(S)) /\ Cardinality(1 .. Cardinality(S)) = Cardinality(S)
  BY <1>2, FS_Interval
<1>4. IsFiniteSet(R) /\ Cardinality(R) = Cardinality(S) - 1
  <2>1. PICK I : I = 1 .. Cardinality(S)
    OBVIOUS
  <2>2. n \in I /\ IsFiniteSet(I) /\ Cardinality(I) = Cardinality(S) /\ R = I \ {n}
    BY <1>3, <2>1
  <2> HIDE DEF R
  <2> QED BY <2>2, FS_RemoveElement
<1>5. f \in [S -> R] /\ \A x \in S : f[x] = Nth(S, rank, x)
  BY <1>1
<1> HIDE DEF R, f
<1>6. Cardinality(R) < Cardinality(S)
  BY <1>2, <1>4
<1>7. \E x, y \in S : x # y /\ f[x] = f[y]
  BY <1>4, <1>5, <1>6, FS_PigeonHole
<1> QED BY <1>5, <1>7, NthApart DEF Apart

\* Every member is listed, once, and the list is in strict order.
THEOREM ListedOnce ==
    ASSUME NEW T, NEW S \in SUBSET T, IsFiniteSet(S), NEW rank \in [T -> Nat],
           Apart(rank)
    PROVE  /\ Listed(S, rank) \in [1 .. Cardinality(S) -> S]
           /\ \A x \in S : \E n \in 1 .. Cardinality(S) : Listed(S, rank)[n] = x
           /\ \A m, n \in 1 .. Cardinality(S) :
                m < n => rank[Listed(S, rank)[m]] < rank[Listed(S, rank)[n]]
<1> DEFINE L == Listed(S, rank)
           N == 1 .. Cardinality(S)
<1>0. L = [n \in N |-> CHOOSE x \in S : Nth(S, rank, x) = n]
  BY DEF Listed, Nth
<1>1. ASSUME NEW n \in N PROVE L[n] \in S /\ Nth(S, rank, L[n]) = n
  <2>1. L[n] = CHOOSE x \in S : Nth(S, rank, x) = n
    BY <1>0
  <2>2. \E x \in S : Nth(S, rank, x) = n
    BY NthOnto
  <2> QED BY <2>1, <2>2
<1>2. ASSUME NEW x \in S PROVE Nth(S, rank, x) \in N /\ L[Nth(S, rank, x)] = x
  <2>1. Nth(S, rank, x) \in N
    BY NthInside
  <2>2. /\ L[Nth(S, rank, x)] \in S
        /\ Nth(S, rank, L[Nth(S, rank, x)]) = Nth(S, rank, x)
    BY <1>1, <2>1
  <2> QED BY <2>1, <2>2, NthApart DEF Apart
<1>3. ASSUME NEW m \in N, NEW n \in N, m < n PROVE rank[L[m]] < rank[L[n]]
  <2>1. L[m] \in S /\ L[n] \in S /\ Nth(S, rank, L[m]) = m /\ Nth(S, rank, L[n]) = n
    BY <1>1
  <2>2. rank[L[n]] < rank[L[m]] => n < m
    BY <2>1, NthMonotone
  <2>3. rank[L[m]] # rank[L[n]]
    BY <1>3, <2>1 DEF Apart
  <2>4. rank[L[m]] \in Nat /\ rank[L[n]] \in Nat /\ m \in Nat /\ n \in Nat
    BY <2>1
  <2> HIDE DEF L
  <2> QED BY <1>3, <2>2, <2>3, <2>4
<1>4. L \in [N -> S]
  BY <1>0, <1>1
<1> QED BY <1>2, <1>3, <1>4

-----------------------------------------------------------------------------
(* The lists that filters and joins leave, by the positions they keep.     *)

\* A function lists the positions I: each once, in their order.
Lists(at, I) ==
    /\ at \in [1 .. Cardinality(I) -> I]
    /\ \A x \in I : \E n \in 1 .. Cardinality(I) : at[n] = x
    /\ \A m, n \in 1 .. Cardinality(I) : m < n => at[m] < at[n]

LEMMA PositionsListed ==
    ASSUME NEW n \in Nat, NEW I \in SUBSET (1 .. n)
    PROVE  /\ IsFiniteSet(I) /\ Cardinality(I) \in Nat
           /\ Lists(Listed(I, [i \in 1 .. n |-> i]), I)
<1> DEFINE rank == [i \in 1 .. n |-> i]
<1>1. IsFiniteSet(1 .. n)
  BY FS_Interval
<1>2. IsFiniteSet(I) /\ Cardinality(I) \in Nat
  BY <1>1, FS_Subset, FS_CardinalityType
<1>3. rank \in [1 .. n -> Nat] /\ Apart(rank)
  BY DEF Apart
<1>4. \A i \in I : rank[i] = i
  OBVIOUS
<1> HIDE DEF rank
<1>5. /\ Listed(I, rank) \in [1 .. Cardinality(I) -> I]
      /\ \A x \in I : \E m \in 1 .. Cardinality(I) : Listed(I, rank)[m] = x
      /\ \A l, m \in 1 .. Cardinality(I) :
           l < m => rank[Listed(I, rank)[l]] < rank[Listed(I, rank)[m]]
  BY <1>2, <1>3, ListedOnce
<1>6. \A l, m \in 1 .. Cardinality(I) : l < m => Listed(I, rank)[l] < Listed(I, rank)[m]
  BY <1>4, <1>5
<1>7. Lists(Listed(I, rank), I)
  BY <1>5, <1>6 DEF Lists
<1> QED BY <1>2, <1>7 DEF rank

LEMMA FirstAndLast ==
    ASSUME NEW n \in Nat, NEW I \in SUBSET (1 .. n), I # {}
    PROVE  /\ FirstOf(I) \in I /\ \A k \in I : FirstOf(I) <= k
           /\ LastOf(I) \in I /\ \A k \in I : k <= LastOf(I)
<1>1. /\ IsFiniteSet(I) /\ Cardinality(I) \in Nat
      /\ \E at : Lists(at, I)
  BY PositionsListed
<1>2. PICK at : Lists(at, I)
  BY <1>1
<1>3. Cardinality(I) # 0
  BY <1>1, FS_EmptySet
<1>4. at[1] \in I /\ at[Cardinality(I)] \in I
  BY <1>1, <1>2, <1>3 DEF Lists
<1>5. ASSUME NEW k \in I PROVE at[1] <= k /\ k <= at[Cardinality(I)]
  <2>1. PICK m \in 1 .. Cardinality(I) : at[m] = k
    BY <1>2 DEF Lists
  <2>2. (1 < m => at[1] < at[m]) /\ (m < Cardinality(I) => at[m] < at[Cardinality(I)])
    BY <1>1, <1>2, <1>3 DEF Lists
  <2>3. k \in Nat /\ at[1] \in Nat /\ at[Cardinality(I)] \in Nat /\ m \in Nat
        /\ 1 <= m /\ m <= Cardinality(I)
    <3>1. \A i \in I : i \in Nat
      OBVIOUS
    <3>2. m \in Nat /\ 1 <= m /\ m <= Cardinality(I)
      BY <1>1, <2>1
    <3> QED BY <1>4, <3>1, <3>2
  <2>4. (m = 1 \/ 1 < m) /\ (m = Cardinality(I) \/ m < Cardinality(I))
    BY <1>1, <2>3
  <2> QED BY <2>1, <2>2, <2>3, <2>4
<1>6. \E i \in I : \A k \in I : i <= k
  BY <1>4, <1>5
<1>7. \E i \in I : \A k \in I : k <= i
  BY <1>4, <1>5
<1> QED BY <1>6, <1>7 DEF FirstOf, LastOf

LEMMA StrictSame ==
    ASSUME NEW S, NEW s \in Seq(S) PROVE Strict(s) = s
BY DEF Strict

\* Filtering keeps the elements at the positions, in their order, and no other.
THEOREM PickedIs ==
    ASSUME NEW S, NEW s \in Seq(S), NEW I \in SUBSET DOMAIN s
    PROVE  /\ IsFiniteSet(I) /\ Cardinality(I) \in Nat
           /\ \E at : /\ Lists(at, I)
                      /\ Picked(s, I) = [n \in 1 .. Cardinality(I) |-> s[at[n]]]
           /\ Picked(s, I) \in Seq(S) /\ Len(Picked(s, I)) = Cardinality(I)
           /\ {Picked(s, I)[n] : n \in DOMAIN Picked(s, I)} = {s[i] : i \in I}
<1> DEFINE rank == [i \in DOMAIN s |-> i]
           at == Listed(I, rank)
           t == [n \in 1 .. Cardinality(I) |-> s[at[n]]]
<1>1. DOMAIN s = 1 .. Len(s) /\ Len(s) \in Nat
  OBVIOUS
<1>2. IsFiniteSet(I) /\ Cardinality(I) \in Nat /\ Lists(at, I)
  BY <1>1, PositionsListed
<1>d. Picked(s, I) = Strict([n \in 1 .. Cardinality(I) |-> s[Strict(at)[n]]])
  BY DEF Picked
<1> HIDE DEF at
<1>3. at \in [1 .. Cardinality(I) -> I] /\ at \in Seq(I)
  BY <1>2 DEF Lists
<1>4. Strict(at) = at
  BY <1>3, StrictSame
<1>5. \A n \in 1 .. Cardinality(I) : s[at[n]] \in S
  BY <1>1, <1>3
<1>6. t \in [1 .. Cardinality(I) -> S] /\ t \in Seq(S) /\ Len(t) = Cardinality(I)
  BY <1>2, <1>5
<1>7. Picked(s, I) = t
  <2>1. Strict(t) = t
    BY <1>6, StrictSame
  <2> QED BY <1>d, <1>4, <2>1
<1>8. {t[n] : n \in DOMAIN t} = {s[i] : i \in I}
  <2>1. DOMAIN t = 1 .. Cardinality(I)
    OBVIOUS
  <2>2. \A n \in DOMAIN t : t[n] = s[at[n]] /\ at[n] \in I
    BY <1>3
  <2>3. \A i \in I : \E n \in DOMAIN t : t[n] = s[i]
    BY <1>2, <2>1, <2>2 DEF Lists
  <2> QED BY <2>2, <2>3
<1>9. \E f : Lists(f, I) /\ Picked(s, I) = [n \in 1 .. Cardinality(I) |-> s[f[n]]]
  BY <1>2, <1>7
<1> HIDE DEF t
<1> QED BY <1>2, <1>6, <1>7, <1>8, <1>9, ZenonT(60)

\* Joining keeps the elements of all lists, and no other.
LEMMA CellsFinite ==
    ASSUME NEW S, NEW ss \in Seq(Seq(S))
    PROVE  /\ IsFiniteSet(Cells(ss)) /\ Cardinality(Cells(ss)) \in Nat
           /\ \A q \in Cells(ss) : q = <<q[1], q[2]>> /\ q[1] \in DOMAIN ss /\ q[2] \in DOMAIN ss[q[1]]
           /\ \A i \in DOMAIN ss : \A k \in DOMAIN ss[i] :
                <<i, k>> \in Cells(ss) /\ k <= Cardinality(Cells(ss)) /\ ss[i][k] \in S
<1> DEFINE row(i) == {i} \X DOMAIN ss[i]
           rows == {row(i) : i \in DOMAIN ss}
<1>1. DOMAIN ss = 1 .. Len(ss) /\ Len(ss) \in Nat /\ \A i \in DOMAIN ss : ss[i] \in Seq(S)
  OBVIOUS
<1>2. \A i \in DOMAIN ss : /\ DOMAIN ss[i] = 1 .. Len(ss[i]) /\ Len(ss[i]) \in Nat
                           /\ \A k \in DOMAIN ss[i] : ss[i][k] \in S
  BY <1>1
<1>3. ASSUME NEW i \in DOMAIN ss
      PROVE  IsFiniteSet(row(i)) /\ Cardinality(row(i)) = Len(ss[i])
  <2>1. IsFiniteSet(DOMAIN ss[i]) /\ Cardinality(DOMAIN ss[i]) = Len(ss[i])
    <3>1. \A n \in Nat : IsFiniteSet(1 .. n) /\ Cardinality(1 .. n) = n
      BY FS_Interval
    <3> QED BY <1>2, <3>1
  <2>2. IsFiniteSet({i}) /\ Cardinality({i}) = 1
    BY FS_Singleton
  <2>3. Cardinality(row(i)) = 1 * Len(ss[i]) /\ IsFiniteSet(row(i))
    BY <2>1, <2>2, FS_Product
  <2> QED BY <1>2, <2>3
<1>4. IsFiniteSet(rows)
  <2> DEFINE f == [i \in DOMAIN ss |-> row(i)]
  <2>1. f \in Surjection(DOMAIN ss, rows)
    BY DEF Surjection
  <2>2. IsFiniteSet(DOMAIN ss)
    BY <1>1, FS_Interval
  <2> QED BY <2>1, <2>2, FS_Surjection
<1>5. Cells(ss) = UNION rows
  BY DEF Cells
<1>6. \A T \in rows : IsFiniteSet(T)
  BY <1>3
<1>7. IsFiniteSet(Cells(ss))
  BY <1>4, <1>5, <1>6, FS_UNION
<1>8. Cardinality(Cells(ss)) \in Nat
  BY <1>7, FS_CardinalityType
<1>9. \A q \in Cells(ss) : q = <<q[1], q[2]>> /\ q[1] \in DOMAIN ss /\ q[2] \in DOMAIN ss[q[1]]
  BY DEF Cells
<1>10. ASSUME NEW i \in DOMAIN ss, NEW k \in DOMAIN ss[i]
       PROVE  <<i, k>> \in Cells(ss) /\ k <= Cardinality(Cells(ss)) /\ ss[i][k] \in S
  <2>1. <<i, k>> \in Cells(ss) /\ row(i) \subseteq Cells(ss)
    BY DEF Cells
  <2>2. Cardinality(row(i)) <= Cardinality(Cells(ss))
    BY <1>7, <2>1, FS_Subset
  <2>3. k <= Len(ss[i])
    BY <1>2
  <2>4. Len(ss[i]) <= Cardinality(Cells(ss))
    BY <1>3, <2>2
  <2> QED BY <1>2, <1>8, <2>1, <2>3, <2>4
<1> HIDE DEF rows
<1> QED BY <1>7, <1>8, <1>9, <1>10

LEMMA ByRowApart ==
    ASSUME NEW S, NEW ss \in Seq(Seq(S))
    PROVE  ByRow(ss) \in [Cells(ss) -> Nat] /\ Apart(ByRow(ss))
<1> DEFINE w == Cardinality(Cells(ss)) + 1
<1>1. w \in Nat
  BY CellsFinite
<1>2. ByRow(ss) = [q \in Cells(ss) |-> q[1] * w + q[2]]
  BY DEF ByRow
<1>3. \A q \in Cells(ss) : q = <<q[1], q[2]>> /\ q[1] \in Nat /\ q[2] \in Nat /\ q[2] < w
  <2>1. \A q \in Cells(ss) : q = <<q[1], q[2]>> /\ q[1] \in DOMAIN ss /\ q[2] \in DOMAIN ss[q[1]]
    BY CellsFinite
  <2>2. \A i \in DOMAIN ss : i \in Nat /\ \A k \in DOMAIN ss[i] : k \in Nat
    OBVIOUS
  <2>3. \A i \in DOMAIN ss : \A k \in DOMAIN ss[i] : k <= Cardinality(Cells(ss))
    BY CellsFinite
  <2>4. Cardinality(Cells(ss)) \in Nat
    BY CellsFinite
  <2> QED BY <2>1, <2>2, <2>3, <2>4
<1> HIDE DEF w
<1>4. \A q \in Cells(ss) : q[1] * w + q[2] \in Nat
  <2>1. \A i \in Nat : i * w \in Nat
    BY <1>1
  <2> QED BY <1>3, <2>1
<1>5. ASSUME NEW p \in Cells(ss), NEW q \in Cells(ss), p[1] * w + p[2] = q[1] * w + q[2]
      PROVE  p = q
  <2>1. ASSUME NEW i \in Nat, NEW j \in Nat, NEW k \in Nat, NEW l \in Nat,
               k < w, l < w, i * w + k = j * w + l
        PROVE  ~(i < j)
    <3> SUFFICES ASSUME i < j PROVE FALSE
      OBVIOUS
    <3>1. PICK d \in Nat : j = i + 1 + d
      <4>1. j - i - 1 \in Nat /\ j = i + 1 + (j - i - 1)
        OBVIOUS
      <4> QED BY <4>1
    <3>2. j * w = i * w + w + d * w
      BY <1>1, <3>1
    <3>3. d * w \in Nat /\ i * w \in Nat
      BY <1>1
    <3> QED BY <1>1, <2>1, <3>2, <3>3
  <2>2. /\ p[1] \in Nat /\ p[2] \in Nat /\ p[2] < w
        /\ q[1] \in Nat /\ q[2] \in Nat /\ q[2] < w
        /\ p = <<p[1], p[2]>> /\ q = <<q[1], q[2]>>
    BY <1>3
  <2>3. ~(p[1] < q[1]) /\ ~(q[1] < p[1])
    BY <1>5, <2>1, <2>2
  <2>4. p[1] = q[1]
    BY <2>2, <2>3
  <2>5. p[2] = q[2]
    <3>1. p[1] * w \in Nat
      BY <1>1, <2>2
    <3>2. p[1] * w + p[2] = p[1] * w + q[2]
      BY <1>5, <2>4
    <3> QED BY <2>2, <3>1, <3>2
  <2> QED BY <2>2, <2>4, <2>5
<1> QED BY <1>2, <1>4, <1>5 DEF Apart

LEMMA AllListed ==
    ASSUME NEW C, IsFiniteSet(C), NEW r \in [C -> Nat], Apart(r)
    PROVE  /\ Listed(C, r) \in [1 .. Cardinality(C) -> C]
           /\ \A q \in C : \E n \in 1 .. Cardinality(C) : Listed(C, r)[n] = q
<1>1. PICK D : D = C
  OBVIOUS
<1>2. C \in SUBSET D /\ r \in [D -> Nat]
  BY <1>1
<1>3. /\ Listed(C, r) \in [1 .. Cardinality(C) -> C]
      /\ \A x \in C : \E n \in 1 .. Cardinality(C) : Listed(C, r)[n] = x
      /\ \A m, n \in 1 .. Cardinality(C) : m < n => r[Listed(C, r)[m]] < r[Listed(C, r)[n]]
  BY <1>2, ListedOnce
<1> QED BY <1>3

\* A flattened list of lists holds what its lists hold, with one place for each place
\* in one of them.
THEOREM FlattenedIs ==
    ASSUME NEW S, NEW ss \in Seq(Seq(S))
    PROVE  /\ Flattened(ss) \in Seq(S) /\ Len(Flattened(ss)) = Cardinality(Cells(ss))
           /\ {Flattened(ss)[n] : n \in DOMAIN Flattened(ss)}
                = UNION {{ss[i][k] : k \in DOMAIN ss[i]} : i \in DOMAIN ss}
<1> DEFINE C == Cells(ss)
           at == Listed(C, ByRow(ss))
           t == [n \in 1 .. Cardinality(C) |-> ss[at[n][1]][at[n][2]]]
<1>1. /\ IsFiniteSet(C) /\ Cardinality(C) \in Nat
      /\ \A q \in C : q = <<q[1], q[2]>> /\ q[1] \in DOMAIN ss /\ q[2] \in DOMAIN ss[q[1]]
      /\ \A i \in DOMAIN ss : \A k \in DOMAIN ss[i] : <<i, k>> \in C /\ ss[i][k] \in S
  BY CellsFinite
<1>d. Flattened(ss) = Strict([n \in 1 .. Cardinality(C) |-> ss[Strict(at)[n][1]][Strict(at)[n][2]]])
  BY DEF Flattened
<1> HIDE DEF C
<1>2. ByRow(ss) \in [C -> Nat] /\ Apart(ByRow(ss))
  BY ByRowApart DEF C
<1>3. /\ at \in [1 .. Cardinality(C) -> C]
      /\ \A q \in C : \E n \in 1 .. Cardinality(C) : at[n] = q
  BY <1>1, <1>2, AllListed
<1> HIDE DEF at
<1>4. at \in Seq(C)
  <2>1. Cardinality(C) \in Nat /\ at \in [1 .. Cardinality(C) -> C]
    BY <1>1, <1>3
  <2> QED BY <2>1
<1>5. Strict(at) = at
  BY <1>4, StrictSame
<1>6. \A n \in 1 .. Cardinality(C) : ss[at[n][1]][at[n][2]] \in S
  BY <1>1, <1>3
<1>7. t \in [1 .. Cardinality(C) -> S] /\ t \in Seq(S) /\ Len(t) = Cardinality(C)
  <2>1. Cardinality(C) \in Nat
    BY <1>1
  <2>2. t \in [1 .. Cardinality(C) -> S]
    BY <1>6
  <2> HIDE DEF t
  <2> QED BY <2>1, <2>2
<1>8. Flattened(ss) = t
  <2>1. Strict(t) = t
    BY <1>7, StrictSame
  <2> QED BY <1>d, <1>5, <2>1
<1>9. {t[n] : n \in DOMAIN t} = UNION {{ss[i][k] : k \in DOMAIN ss[i]} : i \in DOMAIN ss}
  <2>1. DOMAIN t = 1 .. Cardinality(C)
    OBVIOUS
  <2>2. \A n \in DOMAIN t : \E i \in DOMAIN ss : \E k \in DOMAIN ss[i] : t[n] = ss[i][k]
    BY <1>1, <1>3
  <2>3. ASSUME NEW i \in DOMAIN ss, NEW k \in DOMAIN ss[i]
        PROVE  \E n \in DOMAIN t : t[n] = ss[i][k]
    <3>1. <<i, k>> \in C
      BY <1>1
    <3>2. PICK n \in 1 .. Cardinality(C) : at[n] = <<i, k>>
      BY <1>3, <3>1
    <3>3. t[n] = ss[i][k]
      BY <3>2
    <3> QED BY <2>1, <3>3
  <2> HIDE DEF t
  <2> QED BY <2>2, <2>3
<1> HIDE DEF t
<1> QED BY <1>7, <1>8, <1>9 DEF C

\* Sorting is stable.
THEOREM SortIsStable ==
    ASSUME NEW S, NEW s \in Seq(S), NEW k \in [DOMAIN s -> Nat]
    PROVE  \E at \in [DOMAIN s -> DOMAIN s] :
             /\ SortedBy(s, k) = [m \in DOMAIN s |-> s[at[m]]]
             /\ \A m, n \in DOMAIN s :
                  m < n => k[at[m]] < k[at[n]] \/ (k[at[m]] = k[at[n]] /\ at[m] < at[n])
<1> DEFINE at == [m \in DOMAIN s |-> At(k, m)]
<1>1. /\ SortedBy(s, k) = [m \in 1 .. Len(s) |-> s[At(k, m)]] /\ DOMAIN s = 1 .. Len(s)
      /\ k \in [1 .. Len(s) -> Nat] /\ Len(s) \in Nat
  BY SortedAt
<1>2. \A m \in DOMAIN s : At(k, m) \in DOMAIN s /\ Place(k, At(k, m)) = m
  BY <1>1, AtPlace, ZenonT(60)
<1>3. ASSUME NEW m \in DOMAIN s, NEW n \in DOMAIN s, m < n
      PROVE  k[At(k, m)] < k[At(k, n)] \/ (k[At(k, m)] = k[At(k, n)] /\ At(k, m) < At(k, n))
  <2> DEFINE i == At(k, m)
             j == At(k, n)
  <2>1. i \in 1 .. Len(s) /\ j \in 1 .. Len(s) /\ Place(k, i) = m /\ Place(k, j) = n
    BY <1>1, <1>2
  <2> HIDE DEF i, j
  <2>2. k[j] < k[i] \/ (k[j] = k[i] /\ j < i) => Place(k, j) < Place(k, i)
    BY <1>1, <2>1, PlaceMonotone
  <2>3. i # j
    BY <1>3, <2>1
  <2>4. m \in Nat /\ n \in Nat /\ k[i] \in Nat /\ k[j] \in Nat
    BY <1>1, <2>1
  <2>5. k[i] < k[j] \/ (k[i] = k[j] /\ i < j)
    BY <1>3, <2>1, <2>2, <2>3, <2>4
  <2> QED BY <2>5 DEF i, j
<1>4. at \in [DOMAIN s -> DOMAIN s] /\ SortedBy(s, k) = [m \in DOMAIN s |-> s[at[m]]]
  BY <1>1, <1>2
<1>5. \A m, n \in DOMAIN s :
        m < n => k[at[m]] < k[at[n]] \/ (k[at[m]] = k[at[n]] /\ at[m] < at[n])
  BY <1>3
<1> QED BY <1>4, <1>5

-----------------------------------------------------------------------------
(* Lists without repetition.                                             *)

LEMMA ToSetIs == \A s : ToSet(s) = {s[i] : i \in DOMAIN s}
BY DEF ToSet

LEMMA InToSet ==
    ASSUME NEW s PROVE /\ \A i \in DOMAIN s : s[i] \in ToSet(s)
                       /\ \A x \in ToSet(s) : \E i \in DOMAIN s : x = s[i]
<1>1. ToSet(s) = {s[i] : i \in DOMAIN s}
  BY ToSetIs
<1> QED BY <1>1

LEMMA PickedElements ==
    ASSUME NEW S, NEW s \in Seq(S), NEW I \in SUBSET DOMAIN s
    PROVE  /\ Picked(s, I) \in Seq(S)
           /\ ToSet(Picked(s, I)) = {s[i] : i \in I}
BY PickedIs, ToSetIs

LEMMA FlattenedElements ==
    ASSUME NEW S, NEW ss \in Seq(Seq(S))
    PROVE  /\ Flattened(ss) \in Seq(S)
           /\ ToSet(Flattened(ss)) = UNION {ToSet(ss[i]) : i \in DOMAIN ss}
<1>1. Flattened(ss) \in Seq(S)
  BY FlattenedIs
<1>2. {Flattened(ss)[n] : n \in DOMAIN Flattened(ss)}
        = UNION {{ss[i][k] : k \in DOMAIN ss[i]} : i \in DOMAIN ss}
  BY FlattenedIs
<1>3. \A i \in DOMAIN ss : ToSet(ss[i]) = {ss[i][k] : k \in DOMAIN ss[i]}
  BY ToSetIs
<1>4. ToSet(Flattened(ss)) = {Flattened(ss)[n] : n \in DOMAIN Flattened(ss)}
  BY ToSetIs
<1>5. UNION {{ss[i][k] : k \in DOMAIN ss[i]} : i \in DOMAIN ss}
        = UNION {ToSet(ss[i]) : i \in DOMAIN ss}
  BY <1>3
<1> QED BY <1>1, <1>2, <1>4, <1>5

LEMMA FlatPickedElements ==
    ASSUME NEW S, NEW ss \in Seq(Seq(S)), NEW I \in SUBSET DOMAIN ss
    PROVE  /\ Flattened(Picked(ss, I)) \in Seq(S)
           /\ \A x : x \in ToSet(Flattened(Picked(ss, I))) <=> \E i \in I : x \in ToSet(ss[i])
<1> DEFINE t == Picked(ss, I)
<1>1. t \in Seq(Seq(S)) /\ ToSet(t) = {ss[i] : i \in I}
  BY PickedElements
<1> HIDE DEF t
<1>2. Flattened(t) \in Seq(S) /\ ToSet(Flattened(t)) = UNION {ToSet(t[n]) : n \in DOMAIN t}
  BY <1>1, FlattenedElements
<1>3. \A n \in DOMAIN t : \E i \in I : t[n] = ss[i]
  BY <1>1, InToSet
<1>4. \A i \in I : \E n \in DOMAIN t : t[n] = ss[i]
  BY <1>1, InToSet
<1>5. \A x : x \in ToSet(Flattened(t)) <=> \E i \in I : x \in ToSet(ss[i])
  BY <1>2, <1>3, <1>4
<1> QED BY <1>2, <1>5 DEF t

LEMMA SortedElements ==
    ASSUME NEW S, NEW s \in Seq(S), NEW k \in [DOMAIN s -> Nat]
    PROVE  /\ SortedBy(s, k) \in Seq(S) /\ Len(SortedBy(s, k)) = Len(s)
           /\ DOMAIN SortedBy(s, k) = DOMAIN s
           /\ ToSet(SortedBy(s, k)) = ToSet(s)
<1>1. /\ SortedBy(s, k) \in Seq(S) /\ Len(SortedBy(s, k)) = Len(s)
      /\ {SortedBy(s, k)[m] : m \in DOMAIN SortedBy(s, k)} = {s[i] : i \in DOMAIN s}
  BY SortKeeps
<1>2. DOMAIN SortedBy(s, k) = DOMAIN s
  BY <1>1
<1>3. ToSet(SortedBy(s, k)) = ToSet(s)
  BY <1>1, ToSetIs
<1> QED BY <1>1, <1>2, <1>3

\* Once a duplicate is dropped every element is there, and once.
LEMMA DedupIs ==
    ASSUME NEW S, NEW s \in Seq(S)
    PROVE  Dedup(s) \in Seq(S) /\ ToSet(Dedup(s)) = ToSet(s) /\ Once(Dedup(s))
<1> DEFINE I == {i \in DOMAIN s : \A k \in 1 .. i - 1 : s[k] # s[i]}
           t == Picked(s, I)
<1>0. Dedup(s) = t /\ DOMAIN s = 1 .. Len(s) /\ Len(s) \in Nat /\ I \in SUBSET DOMAIN s
  BY DEF Dedup
<1>1. ASSUME NEW i \in DOMAIN s PROVE \E f \in I : s[f] = s[i]
  <2> DEFINE J == {k \in 1 .. Len(s) : s[k] = s[i]}
             f == FirstOf(J)
  <2>1. J \in SUBSET (1 .. Len(s)) /\ J # {}
    BY <1>0
  <2>2. f \in J /\ \A k \in J : f <= k
    BY <1>0, <2>1, FirstAndLast
  <2> HIDE DEF f
  <2>3. f \in 1 .. Len(s) /\ s[f] = s[i]
    BY <2>2
  <2>4. \A k \in 1 .. f - 1 : k \in 1 .. Len(s) /\ ~(f <= k)
    BY <1>0, <2>3
  <2>5. \A k \in 1 .. f - 1 : s[k] # s[f]
    BY <2>2, <2>3, <2>4
  <2>6. f \in I
    BY <1>0, <2>3, <2>5
  <2> QED BY <2>3, <2>6
<1> HIDE DEF I
<1>2. t \in Seq(S) /\ ToSet(t) = {s[i] : i \in I}
  BY <1>0, PickedElements
<1>3. ToSet(t) = ToSet(s)
  BY <1>0, <1>1, <1>2, ToSetIs
<1>4. Once(t)
  <2>1. PICK at : Lists(at, I) /\ t = [n \in 1 .. Cardinality(I) |-> s[at[n]]]
    BY <1>0, PickedIs
  <2>2. Cardinality(I) \in Nat
    BY <1>0, PickedIs
  <2> HIDE DEF t
  <2>3. ASSUME NEW m \in 1 .. Cardinality(I), NEW n \in 1 .. Cardinality(I), m < n
        PROVE  s[at[m]] # s[at[n]]
    <3>1. at[m] \in I /\ at[n] \in I /\ at[m] < at[n]
      BY <2>1, <2>3 DEF Lists
    <3>2. at[m] \in 1 .. at[n] - 1
      BY <1>0, <3>1
    <3> QED BY <3>1, <3>2 DEF I
  <2>4. ASSUME NEW m \in DOMAIN t, NEW n \in DOMAIN t, t[m] = t[n] PROVE m = n
    <3>1. m \in 1 .. Cardinality(I) /\ n \in 1 .. Cardinality(I)
      BY <2>1
    <3>2. t[m] = s[at[m]] /\ t[n] = s[at[n]]
      BY <2>1, <3>1
    <3>3. ~(m < n) /\ ~(n < m)
      BY <2>3, <2>4, <3>1, <3>2
    <3> QED BY <3>1, <3>3
  <2> QED BY <2>4 DEF Once
<1> QED BY <1>0, <1>2, <1>3, <1>4

-----------------------------------------------------------------------------
(* Lists of anything.                                                    *)

LEMMA ListOf == ASSUME NEW S, NEW s \in Seq(S) PROVE IsList(s)
BY DEF IsList

LEMMA ListIs ==
    ASSUME NEW s, IsList(s)
    PROVE  s \in Seq(ToSet(s)) /\ Len(s) \in Nat /\ DOMAIN s = 1 .. Len(s)
<1>1. s \in Seq(ToSet(s))
  BY ToSetIs DEF IsList
<1> QED BY <1>1

LEMMA BuiltList ==
    ASSUME NEW n \in Nat, NEW s, s = [i \in 1 .. n |-> s[i]]
    PROVE  IsList(s) /\ Len(s) = n /\ DOMAIN s = 1 .. n
<1> DEFINE S == {s[i] : i \in DOMAIN s}
<1>1. DOMAIN s = 1 .. n /\ \A i \in 1 .. n : s[i] \in S
  OBVIOUS
<1> HIDE DEF S
<1>2. s \in [1 .. n -> S]
  BY <1>1
<1>3. s \in Seq(S) /\ Len(s) = n
  BY <1>1, <1>2
<1> QED BY <1>1, <1>3, ListOf

LEMMA CatLists ==
    ASSUME NEW s, NEW t, IsList(s), IsList(t)
    PROVE  /\ IsList(s \o t) /\ ToSet(s \o t) = ToSet(s) \cup ToSet(t)
           /\ Len(s \o t) = Len(s) + Len(t)
           /\ \A i \in DOMAIN s : (s \o t)[i] = s[i]
           /\ \A i \in DOMAIN t : (s \o t)[Len(s) + i] = t[i]
<1> DEFINE S == ToSet(s) \cup ToSet(t)
<1>1. s \in Seq(S) /\ t \in Seq(S)
  BY ListIs
<1> HIDE DEF S
<1>2. s \o t \in Seq(S) /\ Len(s \o t) = Len(s) + Len(t) /\ Len(s) \in Nat /\ Len(t) \in Nat
      /\ DOMAIN s = 1 .. Len(s) /\ DOMAIN t = 1 .. Len(t)
      /\ DOMAIN (s \o t) = 1 .. Len(s) + Len(t)
  BY <1>1
<1>3. \A i \in DOMAIN s : (s \o t)[i] = s[i] /\ i \in DOMAIN (s \o t)
  BY <1>1, <1>2
<1>4. \A i \in DOMAIN t : (s \o t)[Len(s) + i] = t[i] /\ Len(s) + i \in DOMAIN (s \o t)
  BY <1>1, <1>2
<1>5. ASSUME NEW x \in ToSet(s \o t) PROVE x \in ToSet(s) \cup ToSet(t)
  <2>1. PICK i \in DOMAIN (s \o t) : x = (s \o t)[i]
    BY InToSet
  <2>2. CASE i <= Len(s)
    <3>1. i \in DOMAIN s
      BY <1>2, <2>2
    <3> QED BY <2>1, <3>1, <1>3, InToSet
  <2>3. CASE ~(i <= Len(s))
    <3>1. i - Len(s) \in DOMAIN t /\ Len(s) + (i - Len(s)) = i
      BY <1>2, <2>3
    <3>2. x = t[i - Len(s)]
      BY <2>1, <3>1, <1>4
    <3> QED BY <3>1, <3>2, InToSet
  <2> QED BY <2>2, <2>3
<1>6. ASSUME NEW x \in ToSet(s) PROVE x \in ToSet(s \o t)
  <2>1. PICK i \in DOMAIN s : x = s[i]
    BY InToSet
  <2>2. x = (s \o t)[i] /\ i \in DOMAIN (s \o t)
    BY <2>1, <1>3
  <2> QED BY <2>2, InToSet
<1>7. ASSUME NEW x \in ToSet(t) PROVE x \in ToSet(s \o t)
  <2>1. PICK i \in DOMAIN t : x = t[i]
    BY InToSet
  <2>2. x = (s \o t)[Len(s) + i] /\ Len(s) + i \in DOMAIN (s \o t)
    BY <2>1, <1>4
  <2> QED BY <2>2, InToSet
<1>8. IsList(s \o t)
  BY <1>2, ListOf
<1> QED BY <1>2, <1>3, <1>4, <1>5, <1>6, <1>7, <1>8

LEMMA FlatList ==
    ASSUME NEW ss, IsList(ss), \A i \in DOMAIN ss : IsList(ss[i])
    PROVE  /\ IsList(Flattened(ss))
           /\ ToSet(Flattened(ss)) = UNION {ToSet(ss[i]) : i \in DOMAIN ss}
<1> DEFINE S == UNION {ToSet(ss[i]) : i \in DOMAIN ss}
<1>1. \A i \in DOMAIN ss : ss[i] \in Seq(S)
  <2>1. ASSUME NEW i \in DOMAIN ss PROVE ss[i] \in Seq(S)
    <3>1. ToSet(ss[i]) \subseteq S
      OBVIOUS
    <3>2. ss[i] \in Seq(ToSet(ss[i]))
      BY ListIs
    <3> HIDE DEF S
    <3> QED BY <3>1, <3>2
  <2> QED BY <2>1
<1> HIDE DEF S
<1>2. ss \in Seq(Seq(S))
  <2>1. ss \in Seq(ToSet(ss)) /\ DOMAIN ss = 1 .. Len(ss) /\ Len(ss) \in Nat
    BY ListIs
  <2> QED BY <1>1, <2>1
<1>3. Flattened(ss) \in Seq(S) /\ ToSet(Flattened(ss)) = UNION {ToSet(ss[i]) : i \in DOMAIN ss}
  BY <1>2, FlattenedElements
<1> QED BY <1>3, ListOf

LEMMA PickedList ==
    ASSUME NEW s, IsList(s), NEW I \in SUBSET DOMAIN s
    PROVE  /\ IsList(Picked(s, I)) /\ ToSet(Picked(s, I)) = {s[i] : i \in I}
           /\ Len(Picked(s, I)) = Cardinality(I) /\ IsFiniteSet(I)
           /\ \E at : /\ Lists(at, I)
                      /\ Picked(s, I) = [n \in 1 .. Cardinality(I) |-> s[at[n]]]
<1>1. s \in Seq(ToSet(s))
  BY ListIs
<1>2. Picked(s, I) \in Seq(ToSet(s)) /\ ToSet(Picked(s, I)) = {s[i] : i \in I}
  BY <1>1, PickedElements
<1>3. IsList(Picked(s, I))
  BY <1>2, ListOf
<1> QED BY <1>1, <1>2, <1>3, PickedIs

-----------------------------------------------------------------------------
(* Keys of several digits.                                               *)

LEMMA Digits ==
    ASSUME NEW w \in Nat, NEW x \in Nat, NEW y \in Nat, NEW p \in Nat, NEW q \in Nat, p < w, q < w
    PROVE  /\ x * w + p \in Nat /\ y * w + q \in Nat
           /\ x * w + p < y * w + q <=> x < y \/ (x = y /\ p < q)
           /\ x * w + p = y * w + q <=> x = y /\ p = q
<1>1. ASSUME NEW i \in Nat, NEW j \in Nat, NEW k \in Nat, NEW l \in Nat,
             k < w, l < w, i < j
      PROVE  i * w + k < j * w + l
  <2>1. PICK d \in Nat : j = i + 1 + d
    <3>1. j - i - 1 \in Nat /\ j = i + 1 + (j - i - 1)
      BY <1>1
    <3> QED BY <3>1
  <2>2. j * w = i * w + w + d * w
    BY <2>1
  <2>3. d * w \in Nat /\ i * w \in Nat
    OBVIOUS
  <2> QED BY <1>1, <2>2, <2>3
<1>2. x * w \in Nat /\ y * w \in Nat
  OBVIOUS
<1>3. CASE x < y
  BY <1>1, <1>2, <1>3
<1>4. CASE y < x
  BY <1>1, <1>2, <1>4
<1>5. CASE x = y
  <2>1. x * w = y * w
    BY <1>5
  <2> QED BY <1>2, <1>5, <2>1
<1> QED BY <1>3, <1>4, <1>5

\* Two keys that put elements in the same order sort in the same way.
LEMMA SameOrder ==
    ASSUME NEW s, NEW k, NEW l, DOMAIN k = DOMAIN s, DOMAIN l = DOMAIN s,
           \A i, m \in DOMAIN s : k[m] < k[i] \/ (k[m] = k[i] /\ m <= i)
                                    <=> l[m] < l[i] \/ (l[m] = l[i] /\ m <= i)
    PROVE  SortedBy(s, k) = SortedBy(s, l)
<1>1. \A i \in DOMAIN s : Before(k, i) = Before(l, i)
  BY DEF Before
<1>2. \A i \in DOMAIN s : Place(k, i) = Place(l, i)
  BY <1>1 DEF Place
<1> DEFINE a(n) == CHOOSE i \in DOMAIN s : Place(k, i) = n
           b(n) == CHOOSE i \in DOMAIN s : Place(l, i) = n
<1>3. ASSUME NEW n PROVE a(n) = b(n)
  BY <1>2
<1>4. /\ SortedBy(s, k) = [n \in DOMAIN s |-> s[a(n)]]
      /\ SortedBy(s, l) = [n \in DOMAIN s |-> s[b(n)]]
  BY DEF SortedBy
<1> HIDE DEF a, b
<1> QED BY <1>3, <1>4

\* Two lists sorted by the same keys are put in the same order.
LEMMA SortedAlike ==
    ASSUME NEW s, NEW t, IsList(s), IsList(t), DOMAIN s = DOMAIN t, NEW k \in [DOMAIN s -> Nat]
    PROVE  /\ DOMAIN SortedBy(s, k) = DOMAIN s /\ DOMAIN SortedBy(t, k) = DOMAIN s
           /\ \A n \in DOMAIN s : \E i \in DOMAIN s : SortedBy(s, k)[n] = s[i] /\ SortedBy(t, k)[n] = t[i]
<1>1. SortedBy(s, k) = [m \in DOMAIN s |-> s[At(k, m)]]
      /\ SortedBy(t, k) = [m \in DOMAIN s |-> t[At(k, m)]]
  BY DEF SortedBy, At
<1>2. DOMAIN s = 1 .. Len(s) /\ Len(s) \in Nat
  BY ListIs
<1>3. \A n \in DOMAIN s : At(k, n) \in DOMAIN s
  BY <1>2, AtPlace
<1> QED BY <1>1, <1>3
=============================================================================
