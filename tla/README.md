# A TLA+ verification of oxinfer

oxinfer analyses a Laravel project statically: it finds the PHP files of the
project, extracts facts from each, and reduces them to one JSON document (manifest
mode) or joins them with a snapshot of the application's runtime routes (request
mode).  This directory holds the TLA+ modules that model it, the TLC
configurations that check them, and the TLAPS proofs.  Paths of the code below are
relative to the repository; in `PROJECT.json` they carry the prefix `src/` of the
checkout.

## 1. The system

### Components, state and operations

| Component | Code | State it keeps | Operations |
|---|---|---|---|
| cache | `src/cache.rs` | `<dir>/<xx>/<key>.json` and a temporary name next to it; per call: the entry read, the fingerprints taken so far | `for_manifest`, `load_file`, `store_file`, `snapshot_file`, `snapshot_paths` |
| pipeline | `src/pipeline.rs` | the dependency index, the pool's workers, the results | `analyze_project`, `analyze_files`, `analyze_single_file`, `build_dependency_index`, `dependency_paths_for_file`, `filter_controller_scopes` |
| discovery | `src/discovery.rs` | the list found so far, `partial` | `discover_php_files` |
| request contract, route join | `src/contracts.rs` 557-855 | matches, diagnostics, matched actions, `partial` | `load_analysis_request_from_slice`, `normalize`, `build_analysis_response` |
| output reduction | `src/output.rs` | controllers, models, groups and channels under construction | `build_delta` |
| contract schemas | `src/contracts.rs` 857- | authorization items, field lists per request, shapes per response | `build_contract_request`, `build_contract_responses`, `collect_models`, `collect_resources` |
| routes, matchers, parser, source index | `src/routes.rs`, `src/matchers.rs`, `src/parser.rs`, `src/source_index.rs` | none (functions of one file's text) | `extract_route_bindings`, `analyze_file`, `parse_file`, `parse_source_class` |
| manifest, model types | `src/manifest.rs`, `src/model.rs` | none | deserialisation, path resolution |
| authorization, error responses, Inertia, query builder | `src/contract_*.rs` | none (functions of a method body) | |
| command line | `src/main.rs` | the output file, from one invocation to the next | modes, input, root, exit codes, output |

### How they interact

`main` calls `analyze_project`, which calls discovery, builds the dependency index
by reading every file once, and starts a Rayon pool.  Every worker runs
`analyze_single_file`: `load_file`; on a miss `parse_file`, `analyze_file` and
`store_file`.  The workers share nothing in memory but read-only values; they meet
in the **file system**: the project files, which an editor, `git` or `composer`
may change at any moment, and the cache directory, which they share with every
other oxinfer process of the project and, through `OXINFER_CACHE_DIR`, of other
projects.  When the pool is done one thread counts, filters, sorts and either
reduces (`build_delta`) or joins with the runtime routes
(`build_analysis_response`), whose Delta it builds with code of its own.  `main`
then prints the result or writes it in place to the output file.

### What is hard

* **Concurrency**: workers of a pool and processes side by side, with no lock at all.
* **Staleness**: a fingerprint is read after the content it stands for, dependencies
  one by one, the index before everything.
* **Failure**: a crash at any system call; an error of the cache is an error of the
  run; one bad file ends the run while other workers are storing.
* **Ordering**: workers finish, directories list, and files declare in any order,
  and the output is to be the same.
* **Agreement**: status, partial flags, counts, matches and diagnostics are set
  in different places, and the two modes reduce one analysis with two pieces of code.
* **Heuristics**: three passes over a routes file share what they have bound, a
  channel takes the next function of the file, the first source of a fact wins.

`PROJECT.json` lists the hazards at their lines with the properties that cover them.

### What makes each component correct

* cache: an answer is the analysis of a content the file had during the call; a
  cache file is whole; the cache never makes a run fail; a warm file hits.
* pipeline: the output is the one a run without a cache gives; hits and misses
  count each file once; a run ends.
* discovery: complete unless partial, partial exactly at the limit, the same list
  every time.
* route join: one match per route, one diagnostic per route that is not matched,
  a status that says just that, controllers exactly for the matched actions.
* command line: the exit code tells what became of the output, whatever an earlier
  run left; the directory that is analysed is the one the host names.
* routes: a method has a verb exactly if a routes file says so, in whatever order
  its statements come.
* matchers: a channel is found, with the right kind, if it and the one before it in the
  file carry a function; none is invented.
* output reduction: nothing is lost or invented by merging, filtering and
  reordering; the two modes tell one story of a project.
* contract schemas: fields and shapes describe one request; no source undoes what
  another said of a field; every member of a data class is listed; who is refused
  and what is validated is answered; a model looks the same wherever it is answered,
  and hides what it says it hides; the order of the routes changes nothing.


## 2. Plan

In the order of importance.  The cache comes first: it is the part of oxinfer
that keeps state between runs, where processes meet without a lock, and where a
mistake shows only later, in another run.

| Step | Modules | State |
|---|---|---|
| 1. cache and its abstract specification | `AnalysisService`, `CacheStore`; `CacheStoreProofs`, `CacheWarmProofs` | done, proved |
| 2. a run: index, pool, reduction of the answers | `Pipeline` (extends `CacheStore`, `Sorting`); `PipelineProofs` | done, safety proved |
| 3. discovery | `Discovery` (extends `Sorting`); `DiscoveryProofs` | done, proved |
| 4. manifest mode's reduction | `Output` (extends `Matchers`); `OutputProofs` | done, proved |
| 5. request mode's join | `RouteJoin` (extends `Sorting`); proofs with step 11 | done, proved |
| 6. request schemas: field facts from six sources and their merging (`build_contract_request`, `register_request_field`) | `RequestFields` (extends `ContractForms`, `Sorting`), `DataClasses`; proofs with step 7 | done, proved but for `DataFieldsComplete` |
| 7. authorization and responses of an action, composed with its request (`build_static_authorization`, `build_contract_responses`) | `ActionContract` (extends `RequestFields`); `ContractProofs` | done, proved |
| 8. routes: imports, resources, pairs, invokable controllers and their precedence (`routes.rs`) | `Routes` (extends `Sorting`), composed into `Output`; proofs with step 4 | done, proved |
| 9. the facts of a file: methods, relations, polymorphic groups, channels (`matchers.rs`) | `Matchers` (extends `Routes`), composed into `Output`; proofs with step 4 | done, proved |
| 10. request mode's Delta against manifest mode's (`collect_models`, `collect_top_level_polymorphic`, `collect_broadcast`, `collect_static_controllers`) | `ContractDelta` (extends `Output`); proofs with step 4 | done, proved |
| 11. command line: modes, root, exit codes, the output file written in place | `CommandLine` (extends `RouteJoin`); `CommandLineProofs` | done, proved |
| 12. schemas of payloads, models and resources | `Schemas` (extends `ContractForms`); `Contract` composes it and `DataClasses` with `ActionContract` | done, model-checked |
| 13. class hierarchy walks (`is_spatie_data_class`, `is_eloquent_model_class`), which follow `extends` without a set of visited classes | `ClassHierarchy` | to do |
| 14. scanners of balanced regions, strings and comments, against a reference definition | `Scanner` | to do |

`Sorting` and its lemmas, `SortingProofs`, serve steps 2 to 11.

Steps 13 and 14 are open.  Theorems to come: what the recursive operators
compute (section 6) is beyond the prover until it can do induction over data.

## 3. The modules and the code

### CacheStore: `cache.rs` and `analyze_single_file`

A **job** is one call of `analyze_single_file`.  Jobs differ only in when they
start, so one set of jobs stands for the workers of a pool, for processes side by
side and for runs one after the other.  A step is what happens between two system
calls that something else can come between:

| Action | Code |
|---|---|
| `Start` | the call, with the dependency index of its run |
| `ReadEntry`, `Purge` | `load_file`: read and parse the entry; `remove_file` if it does not parse, or has another kind or other features |
| `Stat`, `Hash` | `snapshot_file`: `metadata`, then, for kind `sha256+mtime`, the read that is hashed |
| `NextDep` | `snapshot_paths`: `exists()` of the next dependency |
| `Validate` | the comparison of the dependencies: a hit or a miss |
| `Parse` | `parse_file` and `analyze_file`, which read the file once |
| `Create`, `Write`, `Rename` | `store_file`: open or truncate the temporary name, write it, rename it |
| `StoreFails`, `Crash` | an I/O error; the end of the process; the temporary file stays |
| `Edit` | somebody changes, creates or deletes a project file |

The comparison of a job's own fingerprint with the entry, and the choice of the
files to fingerprint next, are part of the step that completes the fingerprint
(`Record`).  Cache files are inodes: a name can be replaced while a reader or a
writer still has the old file, and two writers that open one temporary name have
one inode.

Variables: `disk` and `clock` are the project files; `slot`, `temp` and `data` the
cache directory; `pc`, `index`, `entry`, `at`, `part`, `stamp`, `todo`, `deps`,
`facts`, `fd` the local variables of each call.  `seen`, `quiet` and `warm` record
history for the properties; only `Start` and `Edit` write them.  A job starts *warm* if
a job for the same file has stored its answer (`Stored`: it ended in a miss, with the
cache on, and nothing it read was touched since), and ceases to be at the first edit of
what it depends on.

What the data became: a content stands for a whole file; its SHA-256 is the
content itself (no collisions); its size is a function of it, and TLC's instances
give all contents one size, so that size never helps; which files a content names
(`Links`) is a function of it, where the code takes imports, parents, route
controllers, resources, requests and relations.  `AnalyzedFile.path` is absolute
in the code and is not used after a hit.  `read_dir`, directory creation and JSON
are not steps of their own.

### AnalysisService: what the cache promises

A call answers with the analysis of a content its file had between the beginning
and the end of the call, or fails, or dies.  `CacheStore` maps `disk` to `source`,
`seen` to `held`, `pc` to `status` and `facts` to `answer`.

### Pipeline: `analyze_project` and `analyze_files`

`Pipeline` extends `CacheStore`: its jobs are `<<run, position in the list of
files>>`, and a job starts when a worker of its run is free (`Take`), with the
index its run built (`IndexFile`, file by file).  `Reduce` is what happens after
the pool: hits and misses are counted, scopes filtered by the models of the whole
run, files sorted, or one of the errors returned.  `Die` ends a process with all
its workers.  After an error no worker takes another file, and the others finish:
that is how `collect` into a `Result` ends a parallel iterator.

### Discovery: `discover_php_files`

One step per target opened or closed and per entry of the directory walk, in any
order, which is what a file system guarantees.  Two walkers over one tree make it
possible to compare two scans.  `max_files` and the unreadable entries are chosen
initially and stay.

### Sorting: `slice::sort_by`

`SortedBy(s, k)` puts the elements of a list where a stable sort by the keys `k` puts
them: each after those with a smaller key and those with its own key that stood
before it.  Discovery sorts its list by path with it, the pipeline its results.
`Listed(S, rank)` is a set in the order of ranks that are all different, as a
`BTreeSet` is walked: the controllers of a response.  `Picked(s, I)` is what a loop that
filters keeps of a list, `Flattened(ss)` what one that appends lists makes of them, and
`FirstOf`, `LastOf` are searches.  All of them say where each element of the result comes
from and do not run through the list, so that they can be proved about; `Strict` changes
nothing but when TLC computes a list.

### Routes and Matchers: `extract_route_bindings`, `analyze_file`

Two modules of operators, from what is written in a file to what is known of it.
A **file** keeps of its text its use statements, its `Route::` statements, its class
declarations and its `Broadcast::channel` calls, each as the regular expressions
and the syntax tree see it; their comments list the components of each record.
`Routes` resolves short names (`ImportKeys`, `ResolveClassName`: grouped and aliased
imports resolve nothing), and makes the bindings of the three passes:
`ResourceBindings`, `PairBindings` and `InvokableBindings`, which also sees the pairs
and leaves a class alone that is bound already.  `Matchers` finds the methods that
answer, the relations with the name of their polymorphic group and their pivot
columns, the facts of the groups, and the channels: `Broadcasts` is the search that
takes the next function of the file for a channel's callback and goes on behind it.

The sets `Imports`, `Statements`, `Texts` and their parts say what such a record is; names
are any set with an injective rank (`NamesAssumption`), because the code
compares them as text.

### Output: `analyze_files`, `collect_route_bindings`, `build_delta`

| Stage | Action | Code |
|---|---|---|
| `analyze` | `Analyze` | `analyze_file` of every file (module `Matchers`); the workers' interleaving is `Pipeline`'s |
| `routes` | `CollectRoutes` | `collect_route_bindings` (module `Routes`), duplicates removed over all files |
| `collect` | `MergeController`, `MergeModel`, `MergeFacts` | one method of a file merged, with its verbs, status and scope owners; one model; then the file's other facts (`next` is the file, `item` the place in it) |
| `collect` | `Arrange` | the loops that sort and remove repeats, and where the walk over the models starts |
| `order` | `Visit`, `Emit` | one call of `visit_model` (the recursion is the sequence of calls still to come); the models that no visit met |

Request and resource usage, channel parameters and discriminators are left out.  The paths
of a project's files differ (`ProjectsAssumption`): discovery lists each path once unless
targets overlap, which is finding 2's subject and not this module's.

### ContractDelta: the same result in request mode

A module of operators: what `contracts.rs` says of the models, polymorphic groups,
channels and actions of the very result `Output` reduces.  `ModesAgree` compares the
two when the reduction is done.  What the code sorts and frees of repeats is a set.
The members of a polymorphic group (`RelatedByMorph`) are, as in the code, the
classes related to, not those that carry the relation.

### RouteJoin: `load_analysis_request_from_slice`, `build_analysis_response`

`Load` normalises and validates, `Join` answers one route, `Respond` builds the
response.  Of the payload of a controller, its action key, its status and its file
are kept.  The base path of a request is what it names as it is written (`Places`):
`Valid` compares it with the root as resolved, and asks for an absolute one.  The
module has no specification of its own: its actions are phases of `CommandLine`.

### CommandLine: `main.rs`, `manifest.rs`

A behaviour is a command line run once or several times, one invocation after the
other.

| Action | Code |
|---|---|
| `ParseArgs`, `ReadInput` | clap and `try_main`; `read_input_file` and the decoding of its JSON |
| `LoadManifest`, `LoadRequest` | `resolve_paths`; in request mode also `Load` of `RouteJoin` |
| `ValidateRoot`, `Analyze` | `validate_manifest`; `analyze_project`, which may fail |
| `BuildDelta`, `BuildResponse` | `build_delta`; `Join` and `Respond` of `RouteJoin` |
| `PrintOutput`, `OpenOutput`, `WriteOutput` | `emit_output`: `println!`, which puts the result on stdout block by block, or `create_dir_all` and `fs::write`, which empties the file and then writes it block by block; behind the last block, in a step of its own, the end of the process with 0 |
| `Kill`, `Rerun` | the end of the process at any point; the next invocation, which finds the output file as it is |

`root` is a place (`empty`: the empty path; `home`: the directory of the input file; `cwd`, `dir`: what a
relative root is below; `absolute`), and `cmd.kind` says what lies there.  Exit codes are
the program's (0, 1, 2), clap's (2), that of a panic (101, when nobody reads stdout)
and 137 for a killed process.

### RequestFields, ActionContract, Contract: `collect_static_controllers`

One behaviour builds the contract of one action, in the code's order: the
authorization (`ExplicitAuthorization`, `RouteAuthorization` for each route,
`SortAuthorization`), the request (`BeginRequest`, `Register` for each fact,
`EndRequest`), the responses (`AnswerBody`, `AnswerOtherwise`, `AnswerForbidden`,
`AnswerInvalid`, `OrderResponses`).  `stage` is the place in the code.  An action of
the model is what the regular expressions find in a method and the classes it names:
rules, data classes, uses of the request, calls that authorize, answers.

A path such as `orders[].sku` is a sequence of names.  Of a field's attributes
`nullable`, `format` and `via` are left out; `is_array` and `collection`, which are
always set together, are one, and so are `allowed_values` and `wrappers`.  The path `*`
(a rule for everything) is a field and counts for the content types, but has no place in a
shape (`Everything`, `Inserted`); a query parameter keeps its brackets as part of one name.
`seen` is
replaced by the attribute `of` of an item, the part of the key the item lacks.  An
item's target and parameter follow from its ability and are left out, as are headers
and the details of redirects, downloads and Inertia pages.

`ContractForms` has the forms the modules share: the facts about a field, and schemas.
What the code computes by recursion is a parameter of the two modules: `DataFieldsOf`, the
fields of the data classes an action takes, and `PayloadSchemaOf` and `UsageSchemaOf`, what
an answer looks like.  `RequestAssumption` says what is known of the first: it is a list of
facts that name the data classes as their source; of the schemas nothing is assumed.
`DataClasses` and `Schemas` are the code that computes them, `Contract` puts all
together and states the properties that need them, and `MCContract` is its instance.  So
what is proved of `ActionContract` holds whatever data classes and schemas there are.

### DataClasses: `parse_spatie_data_request_fields`

A module of operators: `IsData` follows `extends`, `MemberField` is one member, and
`DataFields` the fields of a class with those of its parent and of the classes it holds.
The set of classes being visited is passed from call to call, as in the code, and
`Leave` takes a class out again when it is done.

### Schemas: what an answer looks like

A module of operators that `Contract` uses for the answers of a body and for
the resources a method returns.  An **expression** is what the code recognises the
text as: a literal, an array, a new resource or a collection, a property of `$this`,
a query, a variable, and so on.  `PayloadSchema` is `infer_schema_from_expression`,
`ArraySchema` and `ValueSchema` follow nested arrays, `ResourceSchema` the classes whose
`toArray` they are in, and `ModelSchema` the relations loaded into a model; the sets
of visited classes and models that end the recursion are parameters, as in the code.
`ResourceUsage` is the order in which resource classes are found.  A schema keeps its
type, properties, items, reference and `nullable`; formats are left out.

The model follows some heuristics that no document restricts.  `->count()` anywhere in
an expression makes all of it an integer; a key of an array that mentions a resource is
that resource; a relation is shown when it is loaded even if the model hides it, and
one to the model itself is shown without attributes.

### Mutants

Operators under a comment that begins with "Mutant" change one definition the way
a slip in the code would.  No specification uses them; every property is known to
be violated by at least one.

## 4. The runs

| Run | Instance | Shows |
|---|---|---|
| `cache_concurrent` | 3 jobs, one file that names another, 1 edit, I/O errors, crashes | types, the inductive invariant, `HitDepsWitnessed`, refinement of `AnalysisService` |
| `cache_exclusive` | 3 jobs of both kinds, 2 edits, one writer per entry | `ExclusiveInv` (the inductive invariants of section 6), `PublishedComplete`, `FailsOnlyIfFileVanished`, `WarmHit` |
| `cache_shared_dir` | 2 projects with one cache directory, kind `mtime`; a job without cache; 2 edits | `Fresh`, the inductive invariant |
| `pipeline_warm` | 2 runs of 2 workers over 2 files, one after the other, 1 edit, crashes | types; `PipelineInv`, the inductive invariants of section 6, `OutputIsCold` among them; the second run is warm and does not fail |
| `pipeline_ends` | 2 processes at once, I/O errors, crashes | every run ends; its output is that of a run without a cache |
| `discovery` | 3 targets (one missing, two overlapping), 8 entries, `max_files` below, at and above the number of files | completeness, the limit, determinism |
| `output` | every graph of relations over 3 classes, in 3 files; up to 3 of 9 route statements, with three kinds of imports, over methods of 2 controllers; up to 3 channel calls; polymorphic groups; shared scopes and pivots | nothing lost, routes and channels found, orders, both modes agree, every step leaves less to do |
| `route_join` | every request of up to 3 routes of 10 shapes with 16 static results; every mode, input, root (3 kinds in 3 places) and output (none, or an older and longer one), with I/O errors and kills; those with an output run twice | status, diagnostics, matches, controllers, exit code and output file agree; the root is the host's |
| `action_contract` | 3 data classes that inherit from and hold each other in every way; a field named by up to five sources; 2 routes with 4 lists of middleware; every mix of answers, errors and statuses; 2 models that relate to themselves and each other, in every query, and resources over them | fields, shapes, authorization, responses and schemas agree |
| `edit_while_storing`, `overlapping_targets`, `discovery_truncated` | smallest instances | the disagreements of section 5 |

Why these bounds are enough to be interesting.  *Cache*: a race needs two jobs,
and a third sees its result; one edit makes an entry stale, two bring a content
back (A, B, A) with another or the same modification time; an entry's own file
and one dependency are the two roles the code distinguishes; the number of inodes
is one more than the jobs can hold open, so that `Create` never waits.
*Pipeline*: a second worker and a second run, which may change places, as both
have the same files and no property of `pipeline_warm` names a run or is a liveness
property (`RunSymmetry`); two contents that call and declare
different scopes.  *Discovery*: four targets' worth of cases, and a limit that
falls on a file, on the end of a target and beyond.  *Output*: circles of one, two
and three classes, and a class declared twice; three statements put a statement of
every form before, between and after two others, and the same method is bound from
two files; three channel calls put one without a function before, between and after
others.  *RouteJoin*: two routes for one
action in either order, with a third between.  *CommandLine*: a result is two blocks,
the least that can be cut; the older file has none or three, so that it can be longer;
two invocations (`cmd.runs`) let the second meet what the first left.  *Contract*: three data classes
make circles of holding of every length up to three, with inheritance across them;
two routes suffice for every way to share or repeat middleware, which is looked at
one by one; a model with a relation to itself, with two relations of one name and with
hidden attributes that have casts, and one that leads back to it, close every circle
a schema can run in; arrays are nested twice.

Assumptions about the environment are constants, so that it is visible which run
makes them.  `StableWhileStoring`: nobody edits a file between its analysis and
its fingerprint (without it: finding 1).  `MtimeAdvances`: no modification time is
used twice; only entries of kind `mtime` need it.  `OneWriterPerEntry`: jobs with
one cache key do not overlap (without it: finding 2).  `DiskFaults`: cache
reads and writes may fail.  `Overlap`: runs may overlap.

### Fairness

`pipeline_ends` assumes weak fairness of `Advance(r)`, the steps of process `r`:
the operating system schedules the threads of a process that is running, and none
of them waits for a lock or for another process.  It assumes nothing of crashes,
edits or the launch of a run.  The other runs check safety only and assume
nothing: that the reduction of `output` ends is the action property `Ends`, by which every
step leaves less to do in a well-founded order (`Left`).

## 5. Where the code and its documents disagree

1. **`edit_while_storing`**: `store_file` (`src/cache.rs:151`) takes the fingerprint
   by a second read after the analysis.  An edit in between stores the old facts
   under the new fingerprint, and every later run is served them, until the file
   changes again.  README.md:156 promises results of the fingerprinted file.
2. **`overlapping_targets`**: with targets such as `app` and `app/Http` files are
   listed twice and two workers store one entry; the second rename may find no
   file, and then the run fails (`src/pipeline.rs:81`).  docs/analysis-contract-v2.md:61
   promises the same output for the same request.  The cause is the temporary name,
   which depends on the key alone (`src/cache.rs:161`).  A second writer may also
   truncate the file the first is about to rename; a reader survives that, as it
   removes a partial entry and parses the file, but `PublishedComplete` holds only
   with one writer per entry.
3. **`discovery_truncated`**: `max_files` cuts the walk before the sort
   (`src/discovery.rs:51`), so which files are kept depends on directory order;
   ARCHITECTURE.md:32 calls discovery deterministic.

Two remarks without a run of their own.  `--manifest` and `--request` exclude each other
(`src/main.rs:20`), and clap itself ends the program, with 2, where
docs/analysis-contract-v2.md:114 gives flag errors the exit code 1 and keeps 2 for
internal errors; `ParseArgs` does what clap does, and `ExitTellsOutput` says of 2 only what
holds of both.  And docs/analysis-contract-v2.md:57 explains `status` by the
routes alone, while the code also answers `partial` when static analysis was
(`contracts.rs:618`); `StatusExplained` states what the code does.

## 6. What is proved

Eight modules hold the proofs: 43 theorems that a reader should know of, for every
value of the constants, and the lemmas they rest on.  All rest on the assumptions the
modules state about their constants; where a theorem needs a particular environment
its statement says so, with the constants of section 4.  Every inductive invariant
below was first checked by TLC, on the instance of the run that is named with it; where
it says "apart", the run itself lists the properties and not the invariant.

### The cache: `CacheStoreProofs`, `CacheWarmProofs`

| Theorem | Environment | Inductive invariant | Run |
|---|---|---|---|
| `TypeCorrect` | any | `TInv` | `cache_concurrent` |
| `Invariant`, `NeverStale`, `Implementation` | `SafeEnvironment` | `IInv` | `cache_concurrent`, `cache_shared_dir` |
| `HitsAreWitnessed` | any | `WitnessInv` | `cache_concurrent`, apart from its own invariants |
| `EntriesAreWhole` | `OneWriterPerEntry` | `PublishInv` | `cache_exclusive` |
| `OnlyVanishedFilesFail` | `OneWriterPerEntry`, no disk faults | `FailInv` | `cache_exclusive` |
| `WarmJobsHit` | `OneWriterPerEntry`, no disk faults | `WarmInv` | `cache_exclusive` |
| `ExclusiveAlways` | `OneWriterPerEntry`, no disk faults | `ExclusiveInv`, the last three together | `cache_exclusive` |

* `TypeCorrect`.  The types alone are not inductive: that `facts` never hold an
  analysis of nothing, and that `stamp` is a fingerprint when it is stored, depends on
  which local variables are in use where.  `Shape(j)` says so for each value of `pc`,
  and `TInv` (types and shapes) is inductive, one lemma per action (`StatT` to `EditT`).
* `Invariant`, `NeverStale`: `Fresh` holds if nobody edits a file between its analysis
  and its fingerprint and, for kind `mtime`, no modification time comes twice.  A
  fingerprint *vouches* for a content if a file that matches it can hold nothing else
  (`Vouches`: by the hash, or because times tell contents apart, `TimesTell`); every
  whole cache file, linked or not, holds facts its fingerprint vouches for
  (`DataSound`: also the temporary files, and those another job is still reading);
  what a job has in hand is as sound (`JobSound`); and the contents recorded for a
  live job include those its files hold now (`WindowOpen`).  So when the fingerprint
  taken now equals the stored one, the facts are of a content the file has now.  The
  hash of one fingerprint is read after its metadata, and the argument does not need
  them to belong together.
* `Implementation`: `CacheStore` implements `AnalysisService`.  `Start` is `Begin`,
  an `Edit` is an `Edit`, the steps that end a job are `Answer` or `GiveUp`, the others
  stutter (`StepR`, `StartR`, `EditR`); `IInv` supplies what `Answer` needs.
* `HitsAreWitnessed` needs nothing of the environment: each fingerprint a validation
  has taken is of a content its file had since the job started, and only those of a
  hit are compared with the entry.
* `EntriesAreWhole`: while one job at a time works on an entry, a temporary file is its
  writer's alone until it is renamed (`TempsApart`, `WriterAlone`), also if an earlier
  writer died and left one; so what is renamed is the whole payload.
* `OnlyVanishedFilesFail`: a file about to be fingerprinted is the job's own or was seen
  to be there; with a disk that works, only its disappearance makes the job fail.
* `WarmJobsHit`: a job whose files nobody touched computes what is still so
  (`QuietSound`), hence its entry is current when it is published; a warm job finds it,
  and whatever it has compared so far agrees (`WarmSound`).  `OthersWarm` is what
  makes this inductive: whoever else works on that entry is warm too, and removes or
  replaces nothing.

### A run: `PipelineProofs`

| Theorem | Environment | Inductive invariant | Run |
|---|---|---|---|
| `PipelineTypeCorrect` | any | `PInv` | `pipeline_warm` |
| `CacheIsInvisible` | `SafeEnvironment` | `ColdInv` | `pipeline_warm` |
| `WarmRunsHit`, `UneditedRunsSucceed` | `Orderly` | `OrderlyInv` | `pipeline_warm` |
| `PipelineAlways` | `SafeEnvironment`, `Orderly` | `PipelineInv`, the three together | `pipeline_warm` |

A step of a run is a step of a job, or leaves the cache alone, so that the lemmas about
the jobs carry over; `PInv` adds where the jobs of a run are in each of its phases.

* `CacheIsInvisible`: a run whose files stayed as they were returns what one worker
  without a cache would.  By `IInv` the facts of each job are of a content its file had
  during the call, by `QuietSeen` there was only one; the rest is that counting,
  filtering and sorting (`SortIsCanonical` of `SortingProofs`) do not depend on the
  order in which the workers finish.  Runs may overlap, crash and share their cache.
* `WarmRunsHit`, `UneditedRunsSucceed`: `Orderly` stands for runs that follow one
  another, each over a list without repeats, on a disk that works.  This gives the one
  writer per entry that `FailInv` and `WarmInv` want (`Single`: one run is active, and
  its jobs have different keys) instead of assuming it.  `IndexAgrees` says that what a
  run has indexed is what the jobs behind the entries saw: the dependencies of an entry
  were computed from the index of another run.

### Sorting and discovery: `SortingProofs`, `DiscoveryProofs`

`SortKeeps`, `SortOrders`, `SortPermutes`: the sorted list has the same elements,
equally often, in order; by `SortIsStable`, elements with one key stay in their
order.  `SortIsCanonical`: two lists with the same elements equally often are sorted to
one list, if the keys tell the elements apart.  `ListedOnce`: a
finite set is listed once, in strict order.  `PickedIs` and `FlattenedIs`: filtering keeps
the elements at the positions kept, in their order; flattening has a place for each
place of each list.  With them are the lemmas about lists that the later modules share: what
a list is made of, and what `Dedup` keeps of one.  The proofs count: the place of an element
is the number of those before it, places are all different and none is beyond the
length, so that they are a permutation.

`DiscoveryTypeCorrect`, `LimitIsHeld`, `CompleteUnlessPartial` and `ListsAgree` follow
from `WalkInv`, in any order of the directory entries and for any number of walkers.
Its core is a count: the list holds exactly what the walker came by (`Walked`, a subset
of what there is to find, `Wants`), each as often as targets contain it (`Tallied`).
A walk that ends without being partial has come by all of `Wants`; two lists with
equal counts, in order, are equal.  TLC checked `WalkInv` on the instance of
`discovery`, apart.

### Request mode and the command line: `CommandLineProofs`

`StatusIsExplained`, `RoutesAreExplained` and `ControllersAreMatched` follow from
`JoinInv`: the matches mirror the routes joined so far (`Mirrored`), the matched actions
and the partial flag are what the matches say (`MatchesTell`), and each match that is
none has exactly one diagnostic (`DiagnosticsTell`, which needs that identifiers of
routes are unique, as `Valid` checks).  `ExitCodeTells` and `RootsAgree` follow from
`CommandInv`, which adds how far a request is in each phase (`StageOf`), what is in the
output file while it is written (`OutputTells`) and what is known of the root
(`RootTells`).  A process that is killed may have printed all, some or nothing of its
result: what `ExitTellsOutput` says of stdout is that nothing of an unfinished analysis is
on it, that 0 stands behind a whole result, and that 1 and 2 stand behind none.  They hold for every list of routes, every result of analysis, every
content of the output file and any number of invocations, killed anywhere.  TLC checked
`CommandInv` on the instance of `route_join`, apart.

### Manifest mode's reduction: `OutputProofs`

| Theorem | Inductive invariant |
|---|---|
| `NothingLostAlways`, `MethodsFollowRoutesAlways`, `ModesAgreeAlways` | `MergeInv` |
| `EndsAlways` | `WalkInv` |
| `ChannelsFoundAlways`, `RoutedMethodsShownAlways` | `FactsInv` |
| `RootsFirstAlways` | `OrderInv` |

They hold for every project: any number of files, classes, relations, routes and channels.

* `MergeInv`: a *cell* is a method or a model at its place in a file.  The entries merged so
  far are the sum of the cells in front of the next one (`MethodsDone`, `ModelsDone`), one
  entry per class and file (`MethodJoined`, `ModelJoined` add one cell).  While models are
  put in order they are in one of two lists that together are the merged ones (`Pooled`), and
  a visit moves one over, which is why nothing is lost whatever the walk does.  At the end
  all cells are done: `NothingLost`.  Of a polymorphic group it says which relations are in
  it and not how often: `dedup_by` (`output.rs:181`) removes equal ones side by side, and
  two declarations of a class with another relation between them stay.  `ModesAgree` follows without a word about the
  code of request mode beyond its definitions, because both sides are the same sum.
* `Ends`: `Left` is a lexicographic variant of five numbers.  A visit that finds a model
  makes `remaining` shorter, and it may add as many calls as the model has relations; one
  that finds none makes the list of calls shorter.  So circles of models end.
* `FactsInv` adds that the facts merged are those of the files' texts (`Analyzed`), and
  that the first of several channels with one name is the one listed (`FirstListed`).  The
  rest is about one file: what the search for callbacks finds (`BroadcastsAre`), and what
  the passes over the route statements bind in whatever order they stand (`BindingsSay`).
* `OrderInv`: where no class is declared twice and no group is polymorphic, `Walk` says what
  a depth-first walk has done halfway: what a model that has moved relates to has moved or
  is to be visited, what is to be visited was asked for by a controller or by a model that
  has moved, and what has not moved is still in its old order.

TLC checked `MergeInv`, `FactsInv` and `OrderInv` on part of the projects of `output`, apart.

### The contract of an action: `ContractProofs`

| Theorem | Inductive invariant |
|---|---|
| `FirstSourceWinsAlways` | `Named` |
| `FieldsFitAlways` | `RequestInv` |
| `RouteGuardsShownAlways`, `RouteOrderIrrelevantAlways` | `AuthInv` |
| `FailuresAnsweredAlways` | `RequestInv`, `AuthInv`, `ResponseInv` |

They hold for every set of actions that `RankAssumption`, `RequestAssumption` and
`ContractAssumption` admit, with any number of fields, routes and answers; TLC evaluates
the three on every action of `action_contract`.

* `FirstSourceWins`: `Merge` takes from a later fact only what is not set yet, and no other
  step touches a field.  `Named` says that all fields have the same attributes.
* `FieldsFitShapes`: `Shaped` cannot say that every leaf of a shape is a field while the
  sources are registered without saying what a longer path does to it.  It says that
  every path leads to one that *stands* for a field, the field itself or its items, and a
  leaf leads nowhere but to itself; the path `*` has no place to lead to.  `Pending` says what is still to be registered is
  of the sources that were collected (`FactsAre`), six of them, each with a lemma.
* `RouteGuardsShown`: while the loop over the routes runs, the list is the items of the
  action followed by items of routes, each once (`Found`), and it has all those of the
  routes the loop is done with (`OnRoutes`).  Whether a guard is suppressed was decided
  before the loop and is the same for all routes, so the list is complete at the end;
  sorting moves items and loses none.
* `RouteOrderIrrelevant` is about what is shown, that is without the route an item was
  found for.  Two orders of the routes give two complete lists that differ in the order of
  the routes' items only (`PlacedAlike`), but the sort is stable and its key does not tell
  all items apart: an item of the action could have the key of a route's.  The place among
  the items of the action, which is in front of all others, is added to the key
  (`PlacedKey`); this leaves the sorted list as it is (`SortPlaced`), and two items that
  share the longer key look the same (`PlacedApart`).  So the sorted lists are equal.
* `FailuresAnswered`: a response that was added has the status it was added for, no
  other response has it (`Single`), because it is added only if none has, and there is a
  reason for it (`Reason`): an item that enforces, or a source that asks for a validation
  (`ValidatedBy`, which `ValidationIs` finds in the code's search).  Removing
  repeats and two stable sorts keep that (`KeptAnswers`).  A field of a form request or of
  `validate` comes of a use of the request that asks for a validation (`Sources`, part of
  `RequestInv`).  The fields of a data class and of `$this->validate` are no such reason:
  the code answers no 422 for them alone (`contracts.rs:1265`).

TLC checked the three invariants on the instance of `action_contract`, apart.

### What is only model-checked

* Liveness (`RunsEnd`): the prover does not reach fairness.
* `DataFieldsComplete`, `SuccessAnswered` and `ModelsShownAlike`: they say what the fields
  of a data class and the schema of a payload are, which recursive operators compute;
  that takes induction over data, and the prover takes no module with such an operator.
* `RunsAgree`, `SameList` and, without `StableWhileStoring`, `Fresh` do not hold (section 5).

## 7. What is not modelled

* **Text.**  The parser calls tree-sitter; the matchers, the route extraction and the
  contract modules read PHP with regular expressions and small scanners.  What these
  recognise is the input of the modules; what the code makes of it, and in which order,
  is modelled.  The source index (`source_index.rs`) is a map from class names to
  their text with scanners for it and has no control of its own; `contract_inertia.rs`
  looks for one call in a method's text, and that there is an Inertia answer is input.
  The scanners are step 14 of the plan.
* **Which files are asked.**  `collect_route_bindings` looks at files under `routes/` only
  (`pipeline.rs:165`), and `analyze_file` looks for channels only in files that end with
  `routes/channels.php` (`matchers.rs:34`).  Both are conditions on a path, which is a
  number in `Output`; they are part of the input: any other file has no route statements and no
  channel calls.
* **Circles of inheritance.**  `is_spatie_data_class` and `is_eloquent_model_class` follow
  `extends` without remembering where they were and do not end on two classes that
  extend each other.  PHP refuses such classes, an analyser that only reads them meets
  them all the same; the modules leave them out (step 13).
* **Facts of a file**: which requests and resources a method uses, the parameters of a
  channel and the discriminators of a polymorphic group in manifest mode, attributes of
  models in `ContractDelta`, translatable ones included.
* **Schemas**: formats, headers, the details of redirects, downloads and pages, the
  top-level list of resources.
* **Command line**: the cache directory override, warnings, the hash and the time stamp.
* `model.rs` holds data types only; of `manifest.rs` the resolution of the root is
  modelled, and its other values are the CONSTANTS of the modules.
* A file that is not UTF-8 (the index reads text, the analysis bytes) and `max_files: 0`
  are outside the modules' states; `PROJECT.json` lists both among the hazards.
