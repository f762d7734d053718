------------------------------- MODULE Sorting -------------------------------
(***************************************************************************)
(* Stable sorting by a key, as slice::sort_by and sort_unstable_by of the  *)
(* Rust standard library are used by oxinfer: discover_php_files and       *)
(* analyze_files sort lists whose elements are compared by their path; and *)
(* sets of keys listed in order, as the response lists the matched actions. *)
(* The loops that filter and join lists, and the searches for a first or a *)
(* last element, are here by the positions they keep, so that what they    *)
(* return can be proved.                                                   *)
(***************************************************************************)
EXTENDS Naturals, Sequences, FiniteSets

\* Where an element goes: after those with a smaller key, and after those with
\* its own key that were before it.  k is the list of the keys.
Before(k, i) == {m \in DOMAIN k : k[m] < k[i] \/ (k[m] = k[i] /\ m <= i)}
Place(k, i)  == Cardinality(Before(k, i))

SortedBy(s, k) == [n \in DOMAIN s |-> s[CHOOSE i \in DOMAIN s : Place(k, i) = n]]

\* The members of a set, in the order of their ranks, which are all different.
UpTo(S, rank, x) == {y \in S : rank[y] <= rank[x]}
Listed(S, rank) ==
    [n \in 1 .. Cardinality(S) |->
       CHOOSE x \in S : Cardinality(UpTo(S, rank, x)) = n]

\* A list, of whatever.
IsList(s) == s \in Seq({s[i] : i \in DOMAIN s})

\* The same list: TLC computes its elements here, once, and not whenever one is
\* asked for.
Strict(s) == s \o <<>>

\* The elements of s at the positions I, in their order.
Picked(s, I) ==
    LET at == Strict(Listed(I, [i \in DOMAIN s |-> i]))
    IN  Strict([n \in 1 .. Cardinality(I) |-> s[at[n]]])

\* The first of each element stays.
Once(s) == \A i, k \in DOMAIN s : s[i] = s[k] => i = k
Dedup(s) == Picked(s, {i \in DOMAIN s : \A k \in 1 .. i - 1 : s[k] # s[i]})

\* The lists of a list of lists, one behind the other.
Cells(ss) == UNION {{i} \X DOMAIN ss[i] : i \in DOMAIN ss}
ByRow(ss) == LET width == Cardinality(Cells(ss)) + 1
             IN  [q \in Cells(ss) |-> q[1] * width + q[2]]
Flattened(ss) ==
    LET at == Strict(Listed(Cells(ss), ByRow(ss)))
    IN  Strict([n \in 1 .. Cardinality(Cells(ss)) |-> ss[at[n][1]][at[n][2]]])

FirstOf(I) == CHOOSE i \in I : \A k \in I : i <= k
LastOf(I)  == CHOOSE i \in I : \A k \in I : k <= i
=============================================================================
