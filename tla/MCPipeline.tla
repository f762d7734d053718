------------------------------ MODULE MCPipeline ------------------------------
(* Instances of Pipeline for TLC: runs over a controller file "a" that names *)
(* the model file "b".                                                       *)
EXTENDS Pipeline, TLC

CONSTANTS r1, d1, f1, a, b, c1, c2, A, B, s1, s2

MCSize  == [c \in Contents |-> 1]
MCLinks == [c \in Contents |-> IF c = c1 THEN {b} \cap Paths ELSE {}]
MCRank  == [p \in Paths |-> IF p = a THEN 1 ELSE 2]

\* Contents c1 and c2 differ in the scopes they call and declare.
MCUses     == [c \in Contents |-> {s1, s2}]
MCDeclares == [c \in Contents |-> IF c = c1 THEN {s1} ELSE {s2}]

Distinct  == [r \in Runs |-> <<b, a>>]
Duplicate == [r \in Runs |-> <<a, a>>]

MCJobs == UNION {JobsOf(r) : r \in Runs}
MCTask == [j \in MCJobs |-> [root |-> r1, dir |-> d1, path |-> Found[j[1]][j[2]],
                             feat |-> f1, kind |-> "sha256+mtime"]]

\* Runs over the same files are interchangeable.
RunSymmetry == Permutations(Runs)
=============================================================================
