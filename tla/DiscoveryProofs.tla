---------------------------- MODULE DiscoveryProofs ----------------------------
(* Theorems about Discovery: any tree, any targets, any limit, any number of *)
(* walkers.                                                                  *)
EXTENDS Discovery, SortingProofs

\* What a walker has come by is finite, and of the entries.
LEMMA WantsFinite ==
    /\ IsFiniteSet(Wants)
    /\ \A w \in Walkers : Walked(w) \subseteq Wants /\ IsFiniteSet(Walked(w))
    /\ DOMAIN Targets = 1 .. Len(Targets) /\ Len(Targets) \in Nat
<1>1. DOMAIN Targets = 1 .. Len(Targets) /\ Len(Targets) \in Nat
  BY DiscoveryAssumption
<1>2. IsFiniteSet((DOMAIN Targets) \X Entries)
  <2>1. IsFiniteSet(DOMAIN Targets)
    BY <1>1, FS_Interval
  <2> QED BY <2>1, DiscoveryAssumption, FS_Product
<1>3. Wants \in SUBSET ((DOMAIN Targets) \X Entries)
  BY DEF Wants
<1>4. IsFiniteSet(Wants)
  BY <1>2, <1>3, FS_Subset
<1>5. \A w \in Walkers : Walked(w) \in SUBSET Wants
  BY DEF Walked
<1> QED BY <1>1, <1>4, <1>5, FS_Subset

\* The elements of a list are entries.
LEMMA ListType ==
    ASSUME NEW s \in Seq(Php)
    PROVE  /\ s \in Seq(Entries) /\ Len(s) \in Nat /\ DOMAIN s = 1 .. Len(s)
           /\ \A i \in DOMAIN s : s[i] \in Php /\ s[i] \in Entries
           /\ [i \in DOMAIN s |-> PathOrder[s[i]]] \in [DOMAIN s -> Nat]
<1>1. /\ Len(s) \in Nat /\ DOMAIN s = 1 .. Len(s) /\ \A i \in DOMAIN s : s[i] \in Php
  OBVIOUS
<1>2. \A i \in DOMAIN s : s[i] \in Entries /\ PathOrder[s[i]] \in Nat
  BY <1>1, DiscoveryAssumption
<1> QED BY <1>1, <1>2

\* Two lists whose counts are those of one set of finds.
Agrees(s, W) ==
    /\ Len(s) = Cardinality(W)
    /\ Elements(s) = {x[2] : x \in W}
    /\ \A e \in Entries :
         Cardinality({i \in DOMAIN s : PathOrder[s[i]] <= PathOrder[e]})
           = Cardinality({x \in W : PathOrder[x[2]] <= PathOrder[e]})

LEMMA TalliedIs == \A w \in Walkers : Tallied(w) <=> Agrees(found[w], Walked(w))
BY DEF Tallied, Agrees

\* Sorting a list leaves its tally as it is, and brings it in order.
LEMMA SortTally ==
    ASSUME NEW s \in Seq(Php), NEW W, Agrees(s, W)
    PROVE  /\ Sorted(s) \in Seq(Php) /\ Len(Sorted(s)) = Len(s)
           /\ Agrees(Sorted(s), W) /\ InOrder(Sorted(s))
<1> DEFINE k == [i \in DOMAIN s |-> PathOrder[s[i]]]
           t == Sorted(s)
<1>1. k \in [DOMAIN s -> Nat] /\ s \in Seq(Entries) /\ PathOrder \in [Entries -> Nat]
  BY ListType, DiscoveryAssumption
<1>2. t = SortedBy(s, k)
  BY DEF Sorted
<1>3. /\ t \in Seq(Php) /\ Len(t) = Len(s) /\ Elements(t) = Elements(s)
  <2> HIDE DEF k
  <2>1. /\ SortedBy(s, k) \in Seq(Php) /\ Len(SortedBy(s, k)) = Len(s)
        /\ {SortedBy(s, k)[m] : m \in DOMAIN SortedBy(s, k)} = {s[i] : i \in DOMAIN s}
    BY <1>1, SortKeeps, ZenonT(60)
  <2> HIDE DEF t
  <2> QED BY <1>2, <2>1 DEF Elements
<1>4. Permuted(s, t)
  <2> HIDE DEF k
  <2> QED BY <1>1, <1>2, SortPermutes
<1>5. AsManySmall(s, t, PathOrder)
  BY <1>1, <1>3, <1>4, ListType, SmallPermuted
<1>6. ASSUME NEW e \in Entries
      PROVE  Cardinality({i \in DOMAIN t : PathOrder[t[i]] <= PathOrder[e]})
               = Cardinality({i \in DOMAIN s : PathOrder[s[i]] <= PathOrder[e]})
  BY <1>1, <1>5 DEF AsManySmall, Small
<1>7. InOrder(t)
  <2>1. DOMAIN t = DOMAIN s /\ DOMAIN s = 1 .. Len(s) /\ Len(s) \in Nat
    BY <1>3, ListType
  <2>2. ASSUME NEW i \in DOMAIN s, NEW j \in DOMAIN s, i <= j
        PROVE  PathOrder[t[i]] <= PathOrder[t[j]]
    BY <1>1, <1>2, <2>2, SortOrders
  <2>3. \A i, j \in DOMAIN s : i < j => i <= j
    BY <2>1
  <2> QED BY <2>1, <2>2, <2>3 DEF InOrder
<1> QED BY <1>3, <1>6, <1>7 DEF Agrees

\* One more find is one more element of the list.
LEMMA AppendTally ==
    ASSUME NEW s \in Seq(Php), NEW W, IsFiniteSet(W), W \subseteq Wants, Agrees(s, W),
           NEW x \in Wants \ W, x[2] \in Php
    PROVE  /\ Append(s, x[2]) \in Seq(Php) /\ Len(Append(s, x[2])) = Len(s) + 1
           /\ Agrees(Append(s, x[2]), W \cup {x})
<1> DEFINE t == Append(s, x[2])
           n == Len(s)
<1>1. /\ t \in Seq(Php) /\ Len(t) = n + 1 /\ n \in Nat
      /\ DOMAIN s = 1 .. n /\ DOMAIN t = 1 .. (n + 1)
      /\ t[n + 1] = x[2] /\ \A i \in 1 .. n : t[i] = s[i]
  OBVIOUS
<1>2. Len(t) = Cardinality(W \cup {x})
  BY <1>1, FS_AddElement DEF Agrees
<1> HIDE DEF t, n
<1>3. Elements(t) = {y[2] : y \in W \cup {x}}
  <2>1. Elements(t) = Elements(s) \cup {x[2]}
    <3>1. 1 .. (n + 1) = (1 .. n) \cup {n + 1}
      BY <1>1
    <3> QED BY <1>1, <3>1 DEF Elements
  <2>2. {y[2] : y \in W \cup {x}} = {y[2] : y \in W} \cup {x[2]}
    OBVIOUS
  <2> QED BY <2>1, <2>2 DEF Agrees
<1>4. ASSUME NEW e \in Entries
      PROVE  Cardinality({i \in DOMAIN t : PathOrder[t[i]] <= PathOrder[e]})
               = Cardinality({y \in W \cup {x} : PathOrder[y[2]] <= PathOrder[e]})
  <2> DEFINE A == {i \in DOMAIN s : PathOrder[s[i]] <= PathOrder[e]}
             B == {y \in W : PathOrder[y[2]] <= PathOrder[e]}
             A2 == {i \in DOMAIN t : PathOrder[t[i]] <= PathOrder[e]}
             B2 == {y \in W \cup {x} : PathOrder[y[2]] <= PathOrder[e]}
  <2>1. Cardinality(A) = Cardinality(B)
    BY DEF Agrees
  <2>2. IsFiniteSet(A) /\ IsFiniteSet(B) /\ n + 1 \notin A /\ x \notin B
    <3>1. A \in SUBSET (1 .. n) /\ B \in SUBSET W
      BY <1>1
    <3>2. IsFiniteSet(1 .. n)
      BY <1>1, FS_Interval
    <3>3. n + 1 \notin 1 .. n
      BY <1>1
    <3> HIDE DEF A, B
    <3> QED BY <3>1, <3>2, <3>3, FS_Subset
  <2>3. CASE PathOrder[x[2]] <= PathOrder[e]
    <3>1. A2 = A \cup {n + 1}
      BY <1>1, <2>3
    <3>2. B2 = B \cup {x}
      BY <2>3
    <3> HIDE DEF A, B, A2, B2
    <3>3. /\ Cardinality(A \cup {n + 1}) = Cardinality(A) + 1
          /\ Cardinality(B \cup {x}) = Cardinality(B) + 1
      BY <2>2, FS_AddElement
    <3>4. Cardinality(A2) = Cardinality(B2)
      BY <2>1, <3>1, <3>2, <3>3
    <3> QED BY <3>4 DEF A2, B2
  <2>4. CASE ~(PathOrder[x[2]] <= PathOrder[e])
    <3>1. A2 = A
      BY <1>1, <2>4
    <3>2. B2 = B
      BY <2>4
    <3> HIDE DEF A, B
    <3> QED BY <2>1, <3>1, <3>2
  <2> QED BY <2>3, <2>4
<1> QED BY <1>1, <1>2, <1>3, <1>4 DEF Agrees, t, n

-----------------------------------------------------------------------------
\* A walker that does nothing stays as sound as it was.
LEMMA WalkFrame ==
    ASSUME NEW v \in Walkers, UNCHANGED world, status'[v] = status[v],
           target'[v] = target[v], left'[v] = left[v], found'[v] = found[v],
           partial'[v] = partial[v]
    PROVE  Walked(v)' = Walked(v) /\ (WalkSound(v) => WalkSound(v)')
<1>1. Walked(v)' = Walked(v)
  BY DEF Walked
<1>2. Tallied(v)' = Tallied(v)
  BY <1>1 DEF Tallied
<1> QED BY <1>1, <1>2 DEF WalkSound, world

\* Walker w does the step, the others stay.
Alone(w) ==
    \A v \in Walkers \ {w} : /\ status'[v] = status[v] /\ target'[v] = target[v]
                             /\ left'[v] = left[v] /\ found'[v] = found[v]
                             /\ partial'[v] = partial[v]

LEMMA OneWalker ==
    ASSUME WalkInv, TypeOK', UNCHANGED world, NEW w \in Walkers, Alone(w),
           WalkSound(w)',
           status'[w] = "done" =>
             /\ Len(found'[w]) <= max_files
             /\ partial'[w] <=> Len(found'[w]) = max_files
    PROVE  WalkInv'
<1>1. LimitHolds'
  BY DEF WalkInv, LimitHolds, Alone, world
<1>2. \A v \in Walkers : WalkSound(v)'
  BY WalkFrame DEF WalkInv, Alone
<1> QED BY <1>1, <1>2 DEF WalkInv

LEMMA ListKept ==
    ASSUME TypeOK, NEW w \in Walkers
    PROVE  /\ found[w] \in Seq(Php) /\ Len(found[w]) \in Nat
           /\ target[w] \in Nat /\ target[w] \in 1 .. Len(Targets) + 1
           /\ max_files \in Nat \ {0} /\ Len(Targets) \in Nat
BY WantsFinite, DiscoveryAssumption DEF TypeOK

LEMMA InitD == Init => WalkInv
<1> SUFFICES ASSUME Init PROVE WalkInv
  OBVIOUS
<1>1. TypeOK
  BY WantsFinite DEF Init, TypeOK
<1>2. ASSUME NEW w \in Walkers PROVE WalkSound(w)
  <2>1. Walked(w) = {}
    BY <1>1, WantsFinite DEF Init, Walked, Wants
  <2>2. found[w] = <<>> /\ status[w] = "scan" /\ ~partial[w] /\ max_files \in Nat \ {0}
    BY DiscoveryAssumption DEF Init
  <2>3. Agrees(<<>>, {})
    <3>1. Elements(<<>>) = {}
      BY DEF Elements
    <3> QED BY <3>1, FS_EmptySet DEF Agrees
  <2>4. Tallied(w)
    BY <2>1, <2>2, <2>3, TalliedIs
  <2>5. Len(found[w]) < max_files
    BY <2>2
  <2> QED BY <2>2, <2>4, <2>5 DEF WalkSound
<1>3. LimitHolds
  BY DEF Init, LimitHolds
<1> QED BY <1>1, <1>2, <1>3 DEF WalkInv

LEMMA OpenTargetD ==
    ASSUME WalkInv, NEW w \in Walkers, OpenTarget(w), UNCHANGED world
    PROVE  WalkInv'
<1> USE DEF WalkInv
<1>0. /\ status[w] = "scan" /\ target[w] \in 1 .. Len(Targets) /\ target[w] \in DOMAIN Targets
      /\ UNCHANGED <<found, partial>> /\ Alone(w) /\ Len(Targets) \in Nat
  BY ListKept, WantsFinite DEF OpenTarget, TypeOK, Alone
<1>1. CASE /\ Targets[target[w]] \in Present
           /\ left' = [left EXCEPT ![w] = Below[Targets[target[w]]]]
           /\ status' = [status EXCEPT ![w] = "walk"]
           /\ UNCHANGED target
  <2>1. Below[Targets[target[w]]] \in SUBSET Entries
    <3>1. Targets[target[w]] \in DOMAIN Below
      BY <1>0, DiscoveryAssumption
    <3> QED BY <3>1, DiscoveryAssumption
  <2>2. TypeOK'
    BY <1>0, <1>1, <2>1 DEF TypeOK, world
  <2>3. status'[w] = "walk" /\ left'[w] = Below[Targets[target[w]]]
    BY <1>1 DEF TypeOK
  <2>4. Walked(w)' = Walked(w)
    BY <1>0, <1>1, <2>3 DEF Walked, Wants
  <2>5. Tallied(w)'
    BY <1>0, <2>4, ZenonT(60) DEF WalkSound, Tallied
  <2>6. WalkSound(w)'
    BY <1>0, <1>1, <2>3, <2>5, ListKept DEF WalkSound, world
  <2> QED BY <1>0, <2>2, <2>3, <2>6, OneWalker
<1>2. CASE /\ Targets[target[w]] \notin Present
           /\ target' = [target EXCEPT ![w] = @ + 1]
           /\ UNCHANGED <<left, status>>
  <2>1. TypeOK'
    BY <1>0, <1>2 DEF TypeOK, world
  <2>2. target'[w] = target[w] + 1
    BY <1>2 DEF TypeOK
  <2>3. Walked(w)' = Walked(w)
    <3>1. \A x \in Wants : x[1] \in Nat /\ x[1] # target[w]
      BY <1>2, WantsFinite DEF Wants
    <3>2. \A x \in Wants : x[1] < target[w] + 1 <=> x[1] < target[w]
      BY <1>0, <3>1
    <3>3. \A x \in Wants : x[1] < target'[w] <=> x[1] < target[w]
      BY <2>2, <3>2
    <3>4. UNCHANGED Wants
      BY DEF Wants
    <3> QED BY <1>0, <1>2, <3>1, <3>3, <3>4 DEF Walked
  <2>4. Tallied(w)'
    BY <1>0, <2>3 DEF WalkSound, Tallied
  <2>5. WalkSound(w)'
    BY <1>0, <1>2, <2>4 DEF WalkSound, world
  <2> QED BY <1>0, <1>2, <2>1, <2>5, OneWalker
<1> QED BY <1>1, <1>2 DEF OpenTarget

LEMMA WalkEntryD ==
    ASSUME WalkInv, NEW w \in Walkers, WalkEntry(w), UNCHANGED world
    PROVE  WalkInv'
<1> USE DEF WalkInv
<1>0. /\ status[w] = "walk" /\ target' = target /\ TypeOK /\ WalkSound(w)
      /\ Tallied(w) /\ ~partial[w] /\ Len(found[w]) < max_files
      /\ target[w] \in DOMAIN Targets /\ Targets[target[w]] \in Present /\ target[w] \in Nat
      /\ left[w] \subseteq Below[Targets[target[w]]] /\ left[w] \subseteq Entries
      /\ found[w] \in Seq(Php) /\ Len(found[w]) \in Nat /\ max_files \in Nat
  BY ListKept, WantsFinite DEF WalkEntry, WalkSound, TypeOK
<1>1. PICK e \in left[w] :
         /\ left' = [left EXCEPT ![w] = @ \ {e}]
         /\ \/ /\ status' = [status EXCEPT ![w] = "failed"]
               /\ UNCHANGED <<found, partial>>
            \/ /\ ~Wanted(e)
               /\ UNCHANGED <<status, found, partial>>
            \/ /\ Wanted(e)
               /\ IF Full(Len(found[w]) + 1)
                  THEN /\ Cut(w)
                       /\ Finish(w, Append(found[w], e))
                  ELSE /\ found' = [found EXCEPT ![w] = Append(@, e)]
                       /\ UNCHANGED <<status, partial>>
  BY DEF WalkEntry
<1> DEFINE x == <<target[w], e>>
<1>2. left'[w] = left[w] \ {e} /\ e \in Entries /\ left' \in [Walkers -> SUBSET Entries]
  BY <1>0, <1>1 DEF TypeOK
<1>3. x \notin Walked(w) /\ (x \in Wants <=> Wanted(e))
  <2>1. x[1] = target[w] /\ x[2] = e
    OBVIOUS
  <2>4. ~(target[w] < target[w]) /\ e \in left[w]
    BY <1>0, <1>1
  <2>2. x \notin Walked(w)
    BY <2>1, <2>4 DEF Walked
  <2>3. x \in (DOMAIN Targets) \X Entries /\ e \in Below[Targets[target[w]]]
    BY <1>0, <1>2
  <2> HIDE DEF x
  <2> QED BY <1>0, <2>1, <2>2, <2>3 DEF Wants
<1>4. ASSUME status'[w] # "scan" PROVE Walked(w)' = Walked(w) \cup ({x} \cap Wants)
  <2>1. \A y \in Wants : y = <<y[1], y[2]>>
    BY DEF Wants
  <2>2. \A y \in Wants : y[1] = target[w] /\ y[2] = e <=> y = x
    BY <2>1
  <2>3. UNCHANGED Wants
    BY DEF Wants
  <2> QED BY <1>0, <1>2, <1>4, <2>2, <2>3 DEF Walked
<1>5. CASE /\ status' = [status EXCEPT ![w] = "failed"]
           /\ UNCHANGED <<found, partial>>
  <2>1. TypeOK' /\ Alone(w) /\ status'[w] = "failed"
    BY <1>0, <1>1, <1>2, <1>5 DEF TypeOK, Alone, world
  <2>2. WalkSound(w)'
    BY <2>1 DEF WalkSound
  <2> QED BY <2>1, <2>2, OneWalker
<1>6. CASE ~Wanted(e) /\ UNCHANGED <<status, found, partial>>
  <2>1. TypeOK' /\ Alone(w)
    BY <1>0, <1>1, <1>2, <1>6 DEF TypeOK, Alone, world
  <2>2. Walked(w)' = Walked(w)
    BY <1>0, <1>3, <1>4, <1>6
  <2>3. Tallied(w)'
    BY <1>0, <1>6, <2>2 DEF Tallied
  <2>4. WalkSound(w)'
    BY <1>0, <1>2, <1>6, <2>3 DEF WalkSound, world
  <2> QED BY <1>0, <1>6, <2>1, <2>4, OneWalker
<1>7. CASE /\ Wanted(e)
           /\ IF Full(Len(found[w]) + 1)
              THEN Cut(w) /\ Finish(w, Append(found[w], e))
              ELSE /\ found' = [found EXCEPT ![w] = Append(@, e)]
                   /\ UNCHANGED <<status, partial>>
  <2> DEFINE s == Append(found[w], e)
             W == Walked(w) \cup {x}
  <2>1. /\ s \in Seq(Php) /\ Len(s) = Len(found[w]) + 1 /\ Agrees(s, W)
    <3>1. Agrees(found[w], Walked(w)) /\ IsFiniteSet(Walked(w)) /\ Walked(w) \subseteq Wants
      BY <1>0, TalliedIs, WantsFinite
    <3>2. x \in Wants \ Walked(w) /\ x[2] = e /\ e \in Php
      BY <1>3, <1>7 DEF Wanted
    <3> QED BY <1>0, <3>1, <3>2, AppendTally
  <2>2. status'[w] # "scan" => Walked(w)' = W
    BY <1>3, <1>4, <1>7
  <2> HIDE DEF s, W
  <2>3. CASE /\ Full(Len(found[w]) + 1)
             /\ Cut(w) /\ Finish(w, s)
    <3>1. /\ status'[w] = "done" /\ partial'[w] = TRUE /\ found'[w] = Sorted(s)
          /\ Alone(w)
      BY <1>0, <1>1, <2>3 DEF Cut, Finish, TypeOK, Alone
    <3>2. /\ Sorted(s) \in Seq(Php) /\ Len(Sorted(s)) = Len(s)
          /\ Agrees(Sorted(s), W) /\ InOrder(Sorted(s))
      BY <2>1, SortTally
    <3>3. TypeOK'
      BY <1>0, <1>2, <2>3, <3>2 DEF Cut, Finish, TypeOK, world
    <3>4. Agrees(found[w], Walked(w))'
      BY <2>2, <3>1, <3>2 DEF Agrees
    <3>5. Tallied(w)'
      BY <3>4, TalliedIs DEF Tallied, Agrees
    <3>6. InOrder(found[w])'
      BY <3>1, <3>2 DEF InOrder
    <3>7. WalkSound(w)'
      BY <3>1, <3>5, <3>6 DEF WalkSound
    <3>8. Len(found'[w]) <= max_files /\ Len(found'[w]) = max_files
      BY <1>0, <2>1, <2>3, <3>1, <3>2 DEF Full
    <3> QED BY <3>1, <3>3, <3>7, <3>8, OneWalker
  <2>4. CASE /\ ~Full(Len(found[w]) + 1)
             /\ found' = [found EXCEPT ![w] = s]
             /\ UNCHANGED <<status, partial>>
    <3>1. found'[w] = s /\ Alone(w) /\ TypeOK'
      BY <1>0, <1>1, <1>2, <2>1, <2>4 DEF TypeOK, Alone, world
    <3>2. Agrees(found[w], Walked(w))'
      BY <1>0, <2>1, <2>2, <2>4, <3>1 DEF Agrees
    <3>3. Tallied(w)'
      BY <3>2 DEF Tallied, Agrees
    <3>4. Len(found'[w]) < max_files
      BY <1>0, <2>1, <2>4, <3>1 DEF Full
    <3>5. WalkSound(w)'
      BY <1>0, <1>2, <2>4, <3>3, <3>4 DEF WalkSound, world
    <3> QED BY <1>0, <2>4, <3>1, <3>5, OneWalker
  <2> QED BY <1>7, <2>3, <2>4 DEF s
<1> QED BY <1>1, <1>5, <1>6, <1>7

LEMMA NoMoreTargetsD ==
    ASSUME WalkInv, NEW w \in Walkers, NoMoreTargets(w), UNCHANGED world
    PROVE  WalkInv'
<1> USE DEF WalkInv
<1>0. /\ status[w] = "scan" /\ UNCHANGED <<target, left, partial>>
      /\ Finish(w, found[w]) /\ target[w] > Len(Targets) /\ TypeOK /\ WalkSound(w)
      /\ Tallied(w) /\ ~partial[w] /\ Len(found[w]) < max_files
      /\ found[w] \in Seq(Php) /\ Len(found[w]) \in Nat /\ max_files \in Nat
      /\ target[w] \in Nat /\ Len(Targets) \in Nat
  BY ListKept DEF NoMoreTargets, WalkSound
<1> DEFINE s == found[w]
<1>1. /\ Sorted(s) \in Seq(Php) /\ Len(Sorted(s)) = Len(s)
      /\ Agrees(Sorted(s), Walked(w)) /\ InOrder(Sorted(s))
  <2>1. Agrees(s, Walked(w))
    BY <1>0, TalliedIs
  <2> QED BY <1>0, <2>1, SortTally
<1>2. /\ status'[w] = "done" /\ found'[w] = Sorted(s) /\ Alone(w)
  BY <1>0 DEF Finish, TypeOK, Alone
<1>3. TypeOK'
  BY <1>0, <1>1 DEF Finish, TypeOK, world
<1>4. Walked(w)' = Walked(w)
  <2>1. \A x \in Wants : x[1] \in 1 .. Len(Targets)
    BY WantsFinite DEF Wants
  <2>2. \A x \in Wants : x[1] < target[w]
    BY <1>0, <2>1
  <2>3. UNCHANGED Wants
    BY DEF Wants
  <2> QED BY <1>0, <2>2, <2>3 DEF Walked
<1>5. Tallied(w)'
  BY <1>1, <1>2, <1>4 DEF Tallied, Agrees
<1>6. InOrder(found[w])'
  BY <1>1, <1>2 DEF InOrder
<1>7. WalkSound(w)'
  BY <1>0, <1>2, <1>5, <1>6 DEF WalkSound
<1>8. Len(found'[w]) < max_files
  BY <1>0, <1>1, <1>2
<1> HIDE DEF s
<1>9. Len(found'[w]) <= max_files /\ (partial'[w] <=> Len(found'[w]) = max_files)
  <2>1. Len(found'[w]) \in Nat
    BY <1>2, <1>3, <1>0 DEF TypeOK
  <2> QED BY <1>0, <1>8, <2>1
<1> QED BY <1>2, <1>3, <1>7, <1>9, OneWalker

\* The limit was looked at after every file, so it is not reached here.
LEMMA CloseTargetD ==
    ASSUME WalkInv, NEW w \in Walkers, CloseTarget(w), UNCHANGED world
    PROVE  WalkInv'
<1> USE DEF WalkInv
<1>0. /\ status[w] = "walk" /\ left[w] = {} /\ UNCHANGED <<left, partial>>
      /\ TypeOK /\ WalkSound(w) /\ Tallied(w) /\ ~partial[w] /\ Len(found[w]) < max_files
      /\ Len(found[w]) \in Nat /\ max_files \in Nat
      /\ target[w] \in Nat /\ target[w] \in 1 .. Len(Targets) /\ Len(Targets) \in Nat
  BY ListKept DEF CloseTarget, WalkSound
<1>1. /\ target' = [target EXCEPT ![w] = @ + 1] /\ UNCHANGED found
      /\ status' = [status EXCEPT ![w] = "scan"]
  BY <1>0 DEF CloseTarget, Full
<1>2. /\ TypeOK' /\ Alone(w) /\ status'[w] = "scan" /\ target'[w] = target[w] + 1
  BY <1>0, <1>1 DEF TypeOK, Alone, world
<1>3. Walked(w)' = Walked(w)
  <2>1. \A x \in Wants : x[1] \in Nat
    BY WantsFinite DEF Wants
  <2>2. \A x \in Wants : x[1] < target[w] + 1 <=> x[1] < target[w] \/ x[1] = target[w]
    BY <1>0, <2>1
  <2>3. UNCHANGED Wants
    BY DEF Wants
  <2>4. \A x \in Wants : x[1] < target'[w] <=> x[1] < target[w] \/ x[1] = target[w]
    BY <1>2, <2>2
  <2> QED BY <1>0, <1>2, <2>3, <2>4 DEF Walked
<1>4. Tallied(w)'
  BY <1>0, <1>1, <1>3 DEF Tallied
<1>5. WalkSound(w)'
  BY <1>0, <1>1, <1>2, <1>4 DEF WalkSound, world
<1> QED BY <1>2, <1>5, OneWalker

LEMMA NextD == WalkInv /\ [Next]_vars => WalkInv'
<1> SUFFICES ASSUME WalkInv, [Next]_vars PROVE WalkInv'
  OBVIOUS
<1>1. CASE UNCHANGED vars
  <2>1. TypeOK' /\ LimitHolds'
    BY <1>1 DEF vars, world, WalkInv, TypeOK, LimitHolds
  <2>2. \A w \in Walkers : WalkSound(w)'
    BY <1>1, WalkFrame DEF vars, WalkInv
  <2> QED BY <2>1, <2>2 DEF WalkInv
<1> QED BY <1>1, OpenTargetD, WalkEntryD, CloseTargetD, NoMoreTargetsD DEF Next, Stop

\* Every variable of every reachable state has its type: what is listed is a PHP
\* file and nothing else.
THEOREM DiscoveryTypeCorrect == Spec => []TypeOK
<1>1. WalkInv => TypeOK
  BY DEF WalkInv
<1> QED BY <1>1, InitD, NextD, PTL DEF Spec

\* The list is never longer than limits.max_files, and the result is called
\* partial exactly if it is that long.
THEOREM LimitIsHeld == Spec => []LimitHolds
<1>1. WalkInv => LimitHolds
  BY DEF WalkInv
<1> QED BY <1>1, InitD, NextD, PTL DEF Spec

\* A complete walk came by everything there is to be found.
LEMMA WalkedAll ==
    ASSUME WalkInv, NEW w \in Walkers, status[w] = "done", ~partial[w]
    PROVE  Walked(w) = Wants /\ Agrees(found[w], Wants)
<1>1. target[w] > Len(Targets) /\ target[w] \in Nat /\ Len(Targets) \in Nat
  BY ListKept DEF WalkInv, WalkSound
<1>2. \A x \in Wants : x[1] \in 1 .. Len(Targets)
  BY WantsFinite DEF Wants
<1>3. \A x \in Wants : x[1] < target[w]
  BY <1>1, <1>2
<1>4. Walked(w) = Wants
  BY <1>3 DEF Walked
<1> QED BY <1>4, TalliedIs DEF WalkInv, WalkSound

\* A scan that does not call itself partial lists every file there is to be
\* found below the targets.
THEOREM CompleteUnlessPartial == Spec => []PartialIsHonest
<1>1. ASSUME WalkInv PROVE PartialIsHonest
  <2> SUFFICES ASSUME NEW w \in Walkers, status[w] = "done", ~partial[w]
               PROVE  Elements(found[w]) = Reachable
    BY DEF PartialIsHonest
  <2>1. Elements(found[w]) = {x[2] : x \in Wants}
    BY <1>1, WalkedAll DEF Agrees
  <2>2. {x[2] : x \in Wants} \subseteq Reachable
    BY DEF Wants, Reachable
  <2>3. ASSUME NEW e \in Reachable PROVE \E x \in Wants : x[2] = e
    <3>1. PICK i \in DOMAIN Targets : /\ Targets[i] \in Present /\ Wanted(e)
                                      /\ e \in Below[Targets[i]]
      BY <2>3 DEF Reachable
    <3>2. e \in Entries
      <4>1. Targets[i] \in DOMAIN Below
        BY <3>1, DiscoveryAssumption
      <4> QED BY <3>1, <4>1, DiscoveryAssumption
    <3>3. <<i, e>> \in Wants /\ <<i, e>>[2] = e
      BY <3>1, <3>2 DEF Wants
    <3> QED BY <3>3
  <2> QED BY <2>1, <2>2, <2>3
<1> QED BY <1>1, InitD, NextD, PTL DEF Spec

\* Two complete lists are one, and no scan is partial where another is complete:
\* neither the order a directory is read in nor that of the targets' files shows.
THEOREM ListsAgree == Spec => []SameListUnlessPartial
<1>1. ASSUME WalkInv PROVE SameListUnlessPartial
  <2> SUFFICES ASSUME NEW v \in Walkers, NEW w \in Walkers,
                      status[v] = "done", status[w] = "done", ~partial[v]
               PROVE  found[v] = found[w] /\ partial[v] = partial[w]
    BY DEF SameListUnlessPartial
  <2>1. /\ found[v] \in Seq(Php) /\ found[w] \in Seq(Php) /\ max_files \in Nat
        /\ Len(found[v]) \in Nat /\ Len(found[w]) \in Nat
    BY <1>1, ListKept DEF WalkInv
  <2>2. Walked(v) = Wants /\ Agrees(found[v], Wants)
    BY <1>1, WalkedAll
  <2>3. ~partial[w]
    <3> SUFFICES ASSUME partial[w] PROVE FALSE
      OBVIOUS
    <3>1. /\ Len(found[w]) = max_files /\ Len(found[v]) <= max_files
          /\ Len(found[v]) # max_files
      BY <1>1 DEF WalkInv, LimitHolds
    <3>2. Len(found[w]) = Cardinality(Walked(w)) /\ Len(found[v]) = Cardinality(Wants)
      BY <1>1, <2>2 DEF WalkInv, WalkSound, Tallied, Agrees
    <3>3. Cardinality(Walked(w)) <= Cardinality(Wants)
      BY WantsFinite, FS_Subset
    <3> QED BY <2>1, <3>1, <3>2, <3>3
  <2>4. Agrees(found[w], Wants) /\ InOrder(found[v]) /\ InOrder(found[w])
    BY <1>1, <2>3, WalkedAll DEF WalkInv, WalkSound
  <2>5. /\ found[v] \in Seq(Entries) /\ found[w] \in Seq(Entries)
        /\ PathOrder \in [Entries -> Nat] /\ DOMAIN PathOrder = Entries
    BY <2>1, ListType, DiscoveryAssumption
  <2>6. Apart(PathOrder)
    BY <2>5, DiscoveryAssumption DEF Apart
  <2>7. AsManySmall(found[v], found[w], PathOrder)
    BY <2>2, <2>4, <2>5 DEF AsManySmall, Small, Agrees
  <2>8. Len(found[v]) = Len(found[w])
    BY <2>2, <2>4 DEF Agrees
  <2>9. found[v] = found[w]
    BY <2>4, <2>5, <2>6, <2>7, <2>8, OrderedUnique DEF InOrder
  <2>10. partial[v] = partial[w]
    BY <1>1, <2>3 DEF WalkInv, TypeOK
  <2> QED BY <2>9, <2>10
<1> QED BY <1>1, InitD, NextD, PTL DEF Spec
=============================================================================
