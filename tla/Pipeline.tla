------------------------------- MODULE Pipeline -------------------------------
(***************************************************************************)
(* One run of oxinfer after discovery: analyze_project and analyze_files   *)
(* (src/src/pipeline.rs).  The run reads every discovered file once to     *)
(* build the dependency index, hands the files to a pool of workers, each  *)
(* of which runs analyze_single_file with the cache (module CacheStore),   *)
(* and joins the answers.  Several runs share the project and the cache.   *)
(*                                                                         *)
(* Jobs are <<run, position in the list of discovered files>>.             *)
(***************************************************************************)
EXTENDS CacheStore, Sequences, FiniteSets, Sorting

CONSTANTS
    Runs,      \* processes
    Found,     \* [Runs -> Seq(Paths)]: what discovery returned
    Workers,   \* threads of the pool (limits.max_workers)
    Rank,      \* [Paths -> Nat]: order of the relative paths as text
    Scopes,    \* names of query scopes
    Uses,      \* [Contents -> SUBSET Scopes]: scopes its controllers call
    Declares,  \* [Contents -> SUBSET Scopes]: scopes its models declare
    NoOutput,
    Overlap    \* runs may overlap in time

JobsOf(r) == {<<r, i>> : i \in DOMAIN Found[r]}
RootOf(r) == Task[<<r, 1>>].root

ASSUME PipelineAssumption ==
    /\ Found \in [Runs -> Seq(Paths)]
    /\ Jobs = UNION {JobsOf(r) : r \in Runs}
    /\ \A r \in Runs : Found[r] # <<>>
    /\ \A r \in Runs : \A j \in JobsOf(r) :
         Task[j] = [Task[<<r, 1>>] EXCEPT !.path = Found[r][j[2]]]
    /\ Workers \in Nat \ {0}
    /\ Rank \in [Paths -> Nat]
    /\ Uses \in [Contents -> SUBSET Scopes]
    /\ Declares \in [Contents -> SUBSET Scopes]
    /\ Overlap \in BOOLEAN

\* FileResult stands for an analysed file after filtering, PipelineResult for
\* what analyze_project returns.
FileResults == [path: Paths, content: Contents, scopes: SUBSET Scopes]
PipelineResult == [files: Seq(FileResults), hits: Nat, misses: Nat]

ASSUME OutputAssumption == NoOutput \notin PipelineResult

VARIABLES
    run,     \* [Runs -> "idle", "index", "work", "ok", "error" or "dead"]
    next,    \* [Runs -> position of the next file to index]
    idx,     \* [Runs -> [Paths -> Versions]]: the dependency index
    output   \* [Runs -> NoOutput or the PipelineResult]

pipe  == <<run, next, idx, output>>
pvars == <<vars, pipe>>

Active(r) == run[r] \in {"index", "work"}
Failed(r) == \E j \in JobsOf(r) : pc[j] = "failed"
Busy(r)   == {j \in JobsOf(r) : Live(j)}

PInit ==
    /\ Init
    /\ run = [r \in Runs |-> "idle"]
    /\ next = [r \in Runs |-> 1]
    /\ idx = [r \in Runs |-> [p \in Paths |-> Absent]]
    /\ output = [r \in Runs |-> NoOutput]

\* Discovery has returned Found[r]; the files were there then.
Launch(r) ==
    /\ run[r] = "idle"
    /\ Overlap \/ \A s \in Runs : ~Active(s)
    /\ \A j \in JobsOf(r) : IsFile(j, Task[j].path)
    /\ run' = [run EXCEPT ![r] = "index"]
    /\ UNCHANGED <<vars, next, idx, output>>

\* build_dependency_index reads the files one after the other.
IndexFile(r) ==
    /\ run[r] = "index" /\ next[r] <= Len(Found[r])
    /\ LET p == Found[r][next[r]]
           v == disk[<<RootOf(r), p>>].content
       IN  IF v = Absent
           THEN run' = [run EXCEPT ![r] = "error"] /\ UNCHANGED <<next, idx>>
           ELSE /\ idx' = [idx EXCEPT ![r][p] = v]
                /\ next' = [next EXCEPT ![r] = @ + 1]
                /\ UNCHANGED run
    /\ UNCHANGED <<vars, output>>

BuildPool(r) ==
    /\ run[r] = "index" /\ next[r] > Len(Found[r])
    /\ run' = [run EXCEPT ![r] = "work"]
    /\ UNCHANGED <<vars, next, idx, output>>

\* An idle worker takes a file, in any order; after an error nobody takes one
\* (collect into a Result stops the parallel iterator).
Free(r) == Cardinality(Busy(r)) < Workers

Take(r) ==
    /\ run[r] = "work" /\ ~Failed(r) /\ Free(r)
    /\ \E j \in JobsOf(r) : StartWith(j, idx[r])
    /\ UNCHANGED pipe

Work(r) == (\E j \in JobsOf(r) : Step(j)) /\ UNCHANGED pipe

\* filter_controller_scopes: a controller keeps the scopes some model of the
\* run declares.
\* (Mutant: models served from the cache are overlooked.)
ScopesOfMisses(r) ==
    UNION {Declares[facts[j].content] : j \in {k \in JobsOf(r) : pc[k] = "miss"}}

KnownScopes(r) == UNION {Declares[facts[j].content] : j \in JobsOf(r)}

\* (Mutant: scopes are kept unfiltered.)
Unfiltered(r, j) == [path    |-> facts[j].path,
                     content |-> facts[j].content,
                     scopes  |-> Uses[facts[j].content]]

FileResult(r, j) == [path    |-> facts[j].path,
                     content |-> facts[j].content,
                     scopes  |-> Uses[facts[j].content] \cap KnownScopes(r)]

Results(r) == [i \in DOMAIN Found[r] |-> FileResult(r, <<r, i>>)]

\* The sort by relative path keeps files of equal paths as they were found.
ByPath(results) == SortedBy(results, [i \in DOMAIN results |-> Rank[results[i].path]])

\* The workers are done: analyze_files counts, filters and sorts, or returns
\* an error of one of them.
Summary(r) ==
    [files  |-> ByPath(Results(r)),
     hits   |-> Cardinality({j \in JobsOf(r) : pc[j] = "hit"}),
     misses |-> Cardinality({j \in JobsOf(r) : pc[j] # "hit"})]

\* (Mutants: only when all files are answered; an error returns a result.)
ReduceWhenAllAnswered(r) ==
    /\ run[r] = "work" /\ Busy(r) = {}
    /\ \A j \in JobsOf(r) : pc[j] \in {"hit", "miss"}
    /\ run' = [run EXCEPT ![r] = "ok"]
    /\ output' = [output EXCEPT ![r] = Summary(r)]
    /\ UNCHANGED <<vars, next, idx>>
ReduceToNothing(r) ==
    /\ run[r] = "work" /\ Busy(r) = {} /\ Failed(r)
    /\ run' = [run EXCEPT ![r] = "error"]
    /\ output' = [output EXCEPT ![r] = [files |-> <<>>, hits |-> 0, misses |-> 0]]
    /\ UNCHANGED <<vars, next, idx>>

Reduce(r) ==
    /\ run[r] = "work" /\ Busy(r) = {}
    /\ \/ /\ Failed(r)
          /\ run' = [run EXCEPT ![r] = "error"]
          /\ UNCHANGED output
       \/ /\ \A j \in JobsOf(r) : pc[j] \in {"hit", "miss"}
          /\ run' = [run EXCEPT ![r] = "ok"]
          /\ output' = [output EXCEPT ![r] = Summary(r)]
    /\ UNCHANGED <<vars, next, idx>>

\* The process dies with all its workers; what they were writing stays.
Die(r) ==
    /\ Active(r)
    /\ run' = [run EXCEPT ![r] = "dead"]
    /\ \E cut \in SUBSET {fd[j] : j \in {k \in JobsOf(r) : pc[k] = "write"}} :
         data' = [i \in Inodes |-> IF i \in cut THEN Torn ELSE data[i]]
    /\ LET gone(j) == j \in Busy(r) IN
       /\ pc'    = [j \in Jobs |-> IF gone(j) THEN "crashed" ELSE pc[j]]
       /\ entry' = [j \in Jobs |-> IF gone(j) THEN NoEntry ELSE entry[j]]
       /\ facts' = [j \in Jobs |-> IF gone(j) THEN NoFacts ELSE facts[j]]
       /\ fd'    = [j \in Jobs |-> IF gone(j) THEN NoInode ELSE fd[j]]
       /\ at'    = [j \in Jobs |-> IF gone(j) THEN NoPath ELSE at[j]]
       /\ part'  = [j \in Jobs |-> IF gone(j) THEN NoStamp ELSE part[j]]
       /\ stamp' = [j \in Jobs |-> IF gone(j) THEN NoStamp ELSE stamp[j]]
       /\ todo'  = [j \in Jobs |-> IF gone(j) THEN {} ELSE todo[j]]
       /\ deps'  = [j \in Jobs |-> IF gone(j) THEN {} ELSE deps[j]]
    /\ UNCHANGED <<files, slot, temp, index, history, next, idx, output>>

Change == (\E r \in Roots, p \in Paths : Edit(r, p)) /\ UNCHANGED pipe

\* All runs are over, or cannot begin since a file discovery would list is gone.
Quiescent ==
    /\ \A r \in Runs : ~Active(r)
    /\ \A r \in Runs : run[r] = "idle" =>
         \E j \in JobsOf(r) : ~IsFile(j, Task[j].path)
    /\ UNCHANGED pvars

Advance(r) == IndexFile(r) \/ BuildPool(r) \/ Take(r) \/ Work(r) \/ Reduce(r)

PNext ==
    \/ \E r \in Runs : Launch(r) \/ Advance(r) \/ Die(r)
    \/ Change
    \/ Quiescent

PSpec == PInit /\ [][PNext]_pvars

\* The operating system schedules the threads of a process.
FairPSpec == PSpec /\ \A r \in Runs : WF_pvars(Advance(r))

-----------------------------------------------------------------------------
\* The types of the variables; a run has an output exactly when it succeeded.
PTypeOK ==
    /\ TypeOK
    /\ run \in [Runs -> {"idle", "index", "work", "ok", "error", "dead"}]
    /\ next \in [Runs -> Nat \ {0}]
    /\ idx \in [Runs -> [Paths -> Versions]]
    /\ output \in [Runs -> PipelineResult \cup {NoOutput}]
    /\ \A r \in Runs : output[r] # NoOutput <=> run[r] = "ok"

\* What a run without workers and cache makes of the files as they are.
ColdFiles(r) ==
    LET c(i) == disk[<<RootOf(r), Found[r][i]>>].content
        known == UNION {Declares[c(i)] : i \in DOMAIN Found[r]}
    IN  ByPath([i \in DOMAIN Found[r] |-> [path    |-> Found[r][i],
                                           content |-> c(i),
                                           scopes  |-> Uses[c(i)] \cap known]])

\* The output of a run over files that did not change is the same as without a
\* cache, whichever worker did what and when, and whatever is in the cache.
OutputIsCold ==
    \A r \in Runs : run[r] = "ok" /\ (\A j \in JobsOf(r) : quiet[j]) =>
        output[r].files = ColdFiles(r)

\* Every file is counted once, and only those served from the cache as hits:
\* a run after a completed one, over unchanged files, has no misses.
WarmRunHits ==
    \A r \in Runs : run[r] = "ok" =>
        /\ output[r].hits + output[r].misses = Len(output[r].files)
        /\ (\A j \in JobsOf(r) : warm[j]) => output[r].misses = 0

\* Analysing a project that nobody edits does not fail.
UneditedSucceeds == \A r \in Runs : run[r] = "error" => clock > 0

\* The output is deterministic for the same request: two runs over the same
\* unedited files end alike and return the same files.
RunsAgree ==
    \A r, s \in Runs :
        (/\ run[r] \in {"ok", "error"} /\ run[s] \in {"ok", "error"}
         /\ Found[r] = Found[s] /\ RootOf(r) = RootOf(s) /\ clock = 0) =>
            /\ run[r] = run[s]
            /\ run[r] = "ok" => output[r].files = output[s].files

\* Every run ends, whatever its workers meet.
RunsEnd == \A r \in Runs : (run[r] = "index") ~> ~Active(r)

-----------------------------------------------------------------------------
\* Where the jobs of a run are, in any environment.
RunShape(r) ==
    /\ run[r] = "idle" => next[r] = 1
    /\ run[r] \in {"idle", "index"} => \A j \in JobsOf(r) : pc[j] = "idle"
    /\ run[r] = "work" => next[r] > Len(Found[r])
    /\ run[r] # "work" => Busy(r) = {}
    /\ run[r] = "ok" => \A j \in JobsOf(r) : pc[j] \in {"hit", "miss"}
    /\ \A j \in JobsOf(r) : pc[j] # "idle" => index[j] = idx[r]

PInv == PTypeOK /\ \A r \in Runs : RunShape(r)

\* While a job is quiet, its file has held one version since it started.
QuietSeen == \A j \in Jobs : quiet[j] /\ pc[j] # "idle" =>
                 seen[j][Task[j].path] = {Now(j, Task[j].path).content}

\* The inductive invariant behind OutputIsCold.
ColdInv == PInv /\ IInv /\ QuietSeen /\ OutputIsCold

\* One run at a time, each over distinct files, on a disk that works.
Orderly ==
    /\ ~Overlap /\ ~DiskFaults
    /\ \A r \in Runs : \A i, k \in DOMAIN Found[r] : Found[r][i] = Found[r][k] => i = k

Single == \A r, s \in Runs : Active(r) /\ Active(s) => r = s

\* What a run has indexed is what the jobs behind the cache's entries saw.
IndexAgrees(r) ==
    Active(r) => \A i \in Jobs, j \in JobsOf(r) :
        Stored(i) /\ Task[i] = Task[j] /\ j[2] < next[r] =>
            idx[r][Task[j].path] = index[i][Task[i].path]

\* Until the first edit every file is as it was.
Unedited ==
    clock = 0 => /\ \A f \in Files : disk[f].content = Content0
                 /\ \A j \in Jobs, p \in Paths : Absent \notin seen[j][p]

\* The inductive invariant behind WarmRunHits and UneditedSucceeds.
OrderlyInv ==
    /\ PInv /\ FailInv /\ WarmInv /\ Unedited /\ UneditedSucceeds /\ WarmRunHits
    /\ Single /\ \A r \in Runs : IndexAgrees(r)

\* Both at once.
PipelineInv == ColdInv /\ OrderlyInv
=============================================================================
