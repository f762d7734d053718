------------------------------- MODULE Discovery -------------------------------
(***************************************************************************)
(* discover_php_files (src/src/discovery.rs): the scan targets are walked  *)
(* one after the other and the PHP files found are collected, up to        *)
(* limits.max_files, and sorted.  A directory is listed in the order the   *)
(* file system returns, which is not fixed: here, any order.               *)
(*                                                                         *)
(* Two walkers scan the same unchanging tree, so that what one of them     *)
(* finds can be compared with what the other does.                         *)
(***************************************************************************)
EXTENDS Naturals, Sequences, FiniteSets, Sorting

CONSTANTS
    Walkers,
    Entries,      \* files and directories below the targets
    Targets,      \* manifest.scan.targets: a sequence of names
    Present,      \* the targets that exist
    Below,        \* [names -> SUBSET Entries]: what lies in each, within max_depth
    Php,          \* SUBSET Entries: regular files with extension .php
    Vendored,     \* SUBSET Entries: those under a vendor directory
    Whitelisted,  \* SUBSET Entries: those with a prefix in scan.vendor_whitelist
    Faults,       \* sets of entries the walker may report an error for
    PathOrder,    \* [Entries -> Nat]
    Limits        \* values of limits.max_files

ASSUME DiscoveryAssumption ==
    /\ IsFiniteSet(Entries)
    /\ Targets \in Seq(DOMAIN Below)
    /\ Below \in [DOMAIN Below -> SUBSET Entries]
    /\ Php \subseteq Entries
    /\ PathOrder \in [Entries -> Nat]
    /\ \A e, f \in Entries : e # f => PathOrder[e] # PathOrder[f]
    /\ Limits \subseteq Nat \ {0}   \* the manifest schema's minimum is 1
    /\ \A u \in Faults : u \subseteq Entries

VARIABLES
    status,   \* [Walkers -> "scan", "walk", "done" or "failed"]
    target,   \* [Walkers -> index of the target]
    left,     \* [Walkers -> entries of the target still to be listed]
    found,    \* [Walkers -> Seq(Entries)]: files
    partial,  \* [Walkers -> BOOLEAN]
    max_files,   \* what the manifest says; it does not change
    unreadable   \* entries the walker reports an error for; they do not change

world == <<max_files, unreadable>>
vars  == <<status, target, left, found, partial, world>>

Init ==
    /\ status = [w \in Walkers |-> "scan"]
    /\ target = [w \in Walkers |-> 1]
    /\ left = [w \in Walkers |-> {}]
    /\ found = [w \in Walkers |-> <<>>]
    /\ partial = [w \in Walkers |-> FALSE]
    /\ max_files \in Limits
    /\ unreadable \in Faults

\* is_php_file and should_skip_vendor
\* (Mutant: any file type.)
NotVendored(e) == e \in Vendored => e \in Whitelisted

Wanted(e) == e \in Php /\ (e \in Vendored => e \in Whitelisted)

\* The limit is looked at after a file is taken, and after a target.
\* (Mutant: one more than the limit.)
Overfull(n) == n > max_files

Full(n) == n >= max_files

Sorted(s) == SortedBy(s, [i \in DOMAIN s |-> PathOrder[s[i]]])

\* (Mutant: in the order of the walk.)
FinishUnsorted(w, s) ==
    /\ status' = [status EXCEPT ![w] = "done"]
    /\ found' = [found EXCEPT ![w] = s]

Finish(w, s) ==
    /\ status' = [status EXCEPT ![w] = "done"]
    /\ found' = [found EXCEPT ![w] = Sorted(s)]

Cut(w) == partial' = [partial EXCEPT ![w] = TRUE]

\* The next target, if it exists.  (Mutant: a missing target ends the scan.)
OpenOrFinish(w) ==
    /\ status[w] = "scan" /\ target[w] <= Len(Targets)
    /\ IF Targets[target[w]] \in Present
       THEN /\ left' = [left EXCEPT ![w] = Below[Targets[target[w]]]]
            /\ status' = [status EXCEPT ![w] = "walk"]
            /\ UNCHANGED found
       ELSE Finish(w, found[w]) /\ UNCHANGED left
    /\ UNCHANGED <<target, partial>>

OpenTarget(w) ==
    /\ status[w] = "scan" /\ target[w] <= Len(Targets)
    /\ IF Targets[target[w]] \in Present
       THEN /\ left' = [left EXCEPT ![w] = Below[Targets[target[w]]]]
            /\ status' = [status EXCEPT ![w] = "walk"]
            /\ UNCHANGED target
       ELSE /\ target' = [target EXCEPT ![w] = @ + 1]
            /\ UNCHANGED <<left, status>>
    /\ UNCHANGED <<found, partial>>

\* The walker's next entry: an error ends the scan, what is not wanted is
\* skipped, and the file that fills the list ends the loops.
WalkEntry(w) ==
    /\ status[w] = "walk"
    /\ \E e \in left[w] :
         /\ left' = [left EXCEPT ![w] = @ \ {e}]
         /\ \/ /\ e \in unreadable
               /\ status' = [status EXCEPT ![w] = "failed"]
               /\ UNCHANGED <<found, partial>>
            \/ /\ e \notin unreadable /\ ~Wanted(e)
               /\ UNCHANGED <<status, found, partial>>
            \/ /\ e \notin unreadable /\ Wanted(e)
               /\ IF Full(Len(found[w]) + 1)
                  THEN /\ Cut(w)
                       /\ Finish(w, Append(found[w], e))
                  ELSE /\ found' = [found EXCEPT ![w] = Append(@, e)]
                       /\ UNCHANGED <<status, partial>>
    /\ UNCHANGED target

\* The target is exhausted.
CloseTarget(w) ==
    /\ status[w] = "walk" /\ left[w] = {}
    /\ IF Full(Len(found[w]))
       THEN Finish(w, found[w]) /\ UNCHANGED target
       ELSE /\ target' = [target EXCEPT ![w] = @ + 1]
            /\ status' = [status EXCEPT ![w] = "scan"]
            /\ UNCHANGED found
    /\ UNCHANGED <<left, partial>>

NoMoreTargets(w) ==
    /\ status[w] = "scan" /\ target[w] > Len(Targets)
    /\ Finish(w, found[w])
    /\ UNCHANGED <<target, left, partial>>

Stop == (\A w \in Walkers : status[w] \in {"done", "failed"}) /\ UNCHANGED vars

Next ==
    \/ \E w \in Walkers :
         /\ OpenTarget(w) \/ WalkEntry(w) \/ CloseTarget(w) \/ NoMoreTargets(w)
         /\ UNCHANGED world
    \/ Stop

Spec == Init /\ [][Next]_vars

-----------------------------------------------------------------------------
\* The types of the variables; what is found is a PHP file, no other entry.
TypeOK ==
    /\ status \in [Walkers -> {"scan", "walk", "done", "failed"}]
    /\ target \in [Walkers -> 1 .. Len(Targets) + 1]
    /\ left \in [Walkers -> SUBSET Entries]
    /\ found \in [Walkers -> Seq(Php)]
    /\ partial \in [Walkers -> BOOLEAN]
    /\ max_files \in Limits
    /\ unreadable \in Faults

Elements(s) == {s[i] : i \in DOMAIN s}
Reachable == {e \in UNION {Below[Targets[i]] : i \in {k \in DOMAIN Targets :
                                                        Targets[k] \in Present}} :
                 Wanted(e)}

\* A scan that does not say it is partial has found every wanted file.
PartialIsHonest ==
    \A w \in Walkers : status[w] = "done" /\ ~partial[w] =>
        Elements(found[w]) = Reachable

\* max_files bounds the list, and a partial scan is one that reached it.
LimitHolds ==
    \A w \in Walkers : status[w] = "done" =>
        /\ Len(found[w]) <= max_files
        /\ partial[w] <=> Len(found[w]) = max_files

\* Discovery is deterministic: two scans of one tree return the same list.
SameList ==
    \A v, w \in Walkers : status[v] = "done" /\ status[w] = "done" =>
        found[v] = found[w]

\* ... which holds of the scans that were not cut short.
SameListUnlessPartial ==
    \A v, w \in Walkers :
        status[v] = "done" /\ status[w] = "done" /\ ~partial[v] =>
            found[v] = found[w] /\ partial[v] = partial[w]

-----------------------------------------------------------------------------
\* What is to be found: a file below two targets is found twice.
Wants == {x \in (DOMAIN Targets) \X Entries :
            /\ Targets[x[1]] \in Present
            /\ x[2] \in Below[Targets[x[1]]]
            /\ Wanted(x[2])}

\* ... and what of it a walker has come by.
Walked(w) == {x \in Wants : \/ x[1] < target[w]
                            \/ /\ x[1] = target[w] /\ status[w] # "scan"
                               /\ x[2] \notin left[w]}

\* The list holds what the walker came by, as often, whatever its order.
Tallied(w) ==
    /\ Len(found[w]) = Cardinality(Walked(w))
    /\ Elements(found[w]) = {x[2] : x \in Walked(w)}
    /\ \A e \in Entries :
         Cardinality({i \in DOMAIN found[w] : PathOrder[found[w][i]] <= PathOrder[e]})
           = Cardinality({x \in Walked(w) : PathOrder[x[2]] <= PathOrder[e]})

InOrder(s) == \A i, j \in DOMAIN s : i < j => PathOrder[s[i]] <= PathOrder[s[j]]

WalkSound(w) ==
    /\ status[w] # "failed" => Tallied(w)
    /\ status[w] \in {"scan", "walk"} => ~partial[w] /\ Len(found[w]) < max_files
    /\ status[w] = "walk" => /\ target[w] <= Len(Targets)
                             /\ Targets[target[w]] \in Present
                             /\ left[w] \subseteq Below[Targets[target[w]]]
    /\ status[w] = "done" => /\ InOrder(found[w])
                             /\ ~partial[w] => target[w] > Len(Targets)

\* The inductive invariant behind the properties of the list.
WalkInv == TypeOK /\ LimitHolds /\ \A w \in Walkers : WalkSound(w)
=============================================================================
