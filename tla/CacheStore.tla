------------------------------ MODULE CacheStore ------------------------------
(***************************************************************************)
(* The per-file analysis cache of oxinfer (src/src/cache.rs) as it is      *)
(* driven by analyze_single_file (src/src/pipeline.rs).                    *)
(*                                                                         *)
(* A job is one call of analyze_single_file: some worker of some oxinfer   *)
(* process analysing one PHP file.  Jobs of one process, of processes that *)
(* run side by side, and of processes that run one after the other differ  *)
(* only in when they Start.  They share the project files, which an editor *)
(* changes at any moment, and the cache directory.  Every system call that *)
(* another job or the editor can come between is an action of its own.     *)
(*                                                                         *)
(* Contents stand for whole source files.  The SHA-256 of a content is the *)
(* content itself (no collisions); the size is a function of it, so two    *)
(* contents may have the same size.                                        *)
(***************************************************************************)
EXTENDS Naturals

CONSTANTS
    Roots,        \* project roots
    Dirs,         \* cache directories (one per root, or OXINFER_CACHE_DIR shared)
    Features,     \* feature signatures
    Paths,        \* paths relative to a project root
    Contents,     \* what a source file may hold
    Absent,       \* "content" of a file that does not exist
    Content0,     \* what every file holds initially
    Size,         \* [Contents -> Nat]
    Links,        \* [Contents -> SUBSET Paths]: the files whose classes it names
    Jobs,         \* calls of analyze_single_file
    Task,         \* [Jobs -> Config]: what each job is asked to analyse
    Inodes,       \* files the cache directories may hold
    NoInode, NoHash, NoStamp, NoEntry, NoFacts, NoPath,
    Empty, Torn,  \* a cache file just truncated, or cut short
    MaxEdits,     \* bound: how many times the project files change
    MtimeAdvances,      \* every edit gets a modification time never used before
    StableWhileStoring, \* no edit between reading a file and fingerprinting it
    OneWriterPerEntry,  \* jobs with the same cache key do not overlap
    DiskFaults          \* cache reads and writes may fail

Kinds   == {"mtime", "sha256+mtime"}
Config  == [root: Roots, dir: Dirs, path: Paths, feat: Features,
            kind: Kinds \cup {"off"}]
Versions == Contents \cup {Absent}
Files    == Roots \X Paths
Keys     == Dirs \X Features \X Paths

\* CachedFileState, AnalyzedFile and FileCacheEntry.
Stamp == [path: Paths, mtime: Nat, size: Nat, sha: Contents \cup {NoHash}]
Facts == [content: Contents, path: Paths, feat: Features]
Entry == [kind: Kinds, feat: Features, file: Stamp, deps: SUBSET Stamp,
          facts: Facts]

ASSUME FilesAssumption ==
    /\ Absent \notin Contents
    /\ Content0 \in Contents
    /\ Size \in [Contents -> Nat]
    /\ Links \in [Contents -> SUBSET Paths]
ASSUME JobsAssumption ==
    /\ Task \in [Jobs -> Config]
    /\ MaxEdits \in Nat
    /\ {MtimeAdvances, StableWhileStoring, OneWriterPerEntry, DiskFaults}
         \subseteq BOOLEAN
ASSUME SentinelAssumption ==
    /\ NoInode \notin Inodes
    /\ NoHash \notin Contents
    /\ NoStamp \notin Stamp
    /\ NoFacts \notin Facts
    /\ NoPath \notin Paths
    /\ {NoEntry, Empty, Torn} \cap Entry = {}
    /\ NoEntry \notin {Empty, Torn}

VARIABLES
    disk,    \* [Files -> [content, mtime]]: the project files
    clock,   \* the time: how many edits there were
    slot,    \* [Keys -> inode]: <cache>/<xx>/<key>.json
    temp,    \* [Keys -> inode]: the temporary name next to it
    data,    \* [Inodes -> Entry, Empty or Torn]
    pc,      \* where each job is
    index,   \* the dependency index the job's run was started with
    entry,   \* the cache entry load_file is validating
    at,      \* the file being fingerprinted
    part,    \* its metadata, read before its bytes are hashed
    stamp,   \* fingerprint of the job's own file
    todo,    \* dependencies still to fingerprint
    deps,    \* fingerprints of the dependencies
    facts,   \* the AnalyzedFile the job holds
    fd,      \* the temporary file the job has open
    \* History, read by properties and by the environment's guards only:
    seen,    \* [Jobs -> [Paths -> SUBSET Versions]]: versions since Start
    quiet,   \* the files behind the job's answer did not change since it started
    warm     \* the job started after one like it had stored an entry, and nothing
             \* behind that entry has changed

files   == <<disk, clock>>
store   == <<slot, temp, data>>
work    == <<entry, at, part, stamp, todo, deps>>
history == <<seen, quiet, warm>>
vars    == <<disk, clock, slot, temp, data, pc, index, entry, at, part, stamp,
             todo, deps, facts, fd, seen, quiet, warm>>

Ended(j) == pc[j] \in {"hit", "miss", "failed", "crashed"}
Live(j)  == pc[j] # "idle" /\ ~Ended(j)

Now(j, p) == disk[<<Task[j].root, p>>]
IsFile(j, p) == Now(j, p).content # Absent
Key(j) == <<Task[j].dir, Task[j].feat, Task[j].path>>

Init ==
    /\ disk = [f \in Files |-> [content |-> Content0, mtime |-> 0]]
    /\ clock = 0
    /\ slot = [k \in Keys |-> NoInode]
    /\ temp = [k \in Keys |-> NoInode]
    /\ data = [i \in Inodes |-> Empty]
    /\ pc = [j \in Jobs |-> "idle"]
    /\ index = [j \in Jobs |-> [p \in Paths |-> Absent]]
    /\ entry = [j \in Jobs |-> NoEntry]
    /\ at = [j \in Jobs |-> NoPath]
    /\ part = [j \in Jobs |-> NoStamp]
    /\ stamp = [j \in Jobs |-> NoStamp]
    /\ todo = [j \in Jobs |-> {}]
    /\ deps = [j \in Jobs |-> {}]
    /\ facts = [j \in Jobs |-> NoFacts]
    /\ fd = [j \in Jobs |-> NoInode]
    /\ seen = [j \in Jobs |-> [p \in Paths |-> {}]]
    /\ quiet = [j \in Jobs |-> FALSE]
    /\ warm = [j \in Jobs |-> FALSE]

-----------------------------------------------------------------------------
\* The steps load_file and store_file share.

Goto(j, l) == pc' = [pc EXCEPT ![j] = l]

\* Start fingerprinting file p of the job's project (snapshot_file).
Snapshot(j, p) == at' = [at EXCEPT ![j] = p] /\ Goto(j, "stat")

\* The local variables of load_file and store_file go out of scope.
DropWork(j) ==
    /\ at' = [at EXCEPT ![j] = NoPath]
    /\ part' = [part EXCEPT ![j] = NoStamp]
    /\ stamp' = [stamp EXCEPT ![j] = NoStamp]
    /\ todo' = [todo EXCEPT ![j] = {}]
    /\ deps' = [deps EXCEPT ![j] = {}]

\* An error: `?` carries it out of analyze_single_file and the run fails.
Fail(j) ==
    /\ Goto(j, "failed")
    /\ entry' = [entry EXCEPT ![j] = NoEntry]
    /\ facts' = [facts EXCEPT ![j] = NoFacts]
    /\ fd' = [fd EXCEPT ![j] = NoInode]
    /\ DropWork(j)

\* load_file returned None: the file is to be parsed.
\* (Mutant: what load_file computed so far is kept.)
MissKeepsWork(j) ==
    /\ Goto(j, "parse")
    /\ entry' = [entry EXCEPT ![j] = NoEntry]
    /\ UNCHANGED <<at, part, stamp, todo, deps>>

Miss(j) ==
    /\ Goto(j, "parse")
    /\ entry' = [entry EXCEPT ![j] = NoEntry]
    /\ DropWork(j)

Loading(j) == entry[j] # NoEntry

\* dependency_paths_for_file: what the index knows the file names (imports,
\* extends, route controllers) and what the facts use (resources, requests,
\* related models), as far as the index knows a file declaring the class.
\* (Mutant: every file of the index is a dependency.)
EveryIndexedPath(j) ==
    {p \in Paths : index[j][p] # Absent} \ {Task[j].path}

DependencyPaths(j) ==
    LET named == Links[index[j][Task[j].path]] \cup Links[facts[j].content]
        known == {p \in Paths : index[j][p] # Absent}
    IN  (named \cap known) \ {Task[j].path}

\* cached_dependency_paths
\* (Mutant: the file itself, too.)
WithOwnPath(e) == {e.file.path} \cup {d.path : d \in e.deps}

CachedDependencyPaths(e) == {d.path : d \in e.deps}

\* The fingerprint s of file at[j] is complete.  The job's own file comes
\* first; load_file compares it before it looks at any dependency.
\* (Mutants: the hash is not compared; only the size is.)
SameTimeAndSize(e, s) == e.file.mtime = s.mtime /\ e.file.size = s.size
SameSize(e, s) == e.file.size = s.size

SameFile(e, s) == e.file = s

Record(j, s) ==
    IF stamp[j] = NoStamp
    THEN IF Loading(j) /\ ~SameFile(entry[j], s)
         THEN Miss(j)
         ELSE /\ stamp' = [stamp EXCEPT ![j] = s]
              /\ todo' = [todo EXCEPT ![j] =
                            IF Loading(j) THEN CachedDependencyPaths(entry[j])
                                          ELSE DependencyPaths(j)]
              /\ part' = [part EXCEPT ![j] = NoStamp]
              /\ Goto(j, "next")
              /\ UNCHANGED <<entry, at, deps>>
    ELSE /\ deps' = [deps EXCEPT ![j] = @ \cup {s}]
         /\ part' = [part EXCEPT ![j] = NoStamp]
         /\ Goto(j, "next")
         /\ UNCHANGED <<entry, at, stamp, todo>>

\* fs::metadata; without a hash the fingerprint is then complete.
\* (Mutant: times in seconds instead of milliseconds.)
Coarse(j, p) == [path |-> p, mtime |-> Now(j, p).mtime \div 2,
                 size |-> Size[Now(j, p).content], sha |-> NoHash]

Metadata(j, p) == [path |-> p, mtime |-> Now(j, p).mtime,
                   size |-> Size[Now(j, p).content], sha |-> NoHash]

Hashed(m, c) == [path |-> m.path, mtime |-> m.mtime, size |-> m.size, sha |-> c]

Stat(j) ==
    /\ pc[j] = "stat"
    /\ \/ /\ ~IsFile(j, at[j])
          /\ Fail(j)
       \/ /\ IsFile(j, at[j])
          /\ Task[j].kind = "mtime"
          /\ Record(j, Metadata(j, at[j]))
          /\ UNCHANGED <<facts, fd>>
       \/ /\ IsFile(j, at[j])
          /\ Task[j].kind = "sha256+mtime"
          /\ part' = [part EXCEPT ![j] = Metadata(j, at[j])]
          /\ Goto(j, "hash")
          /\ UNCHANGED <<entry, at, stamp, todo, deps, facts, fd>>
    /\ UNCHANGED <<files, store, index, history>>

\* fs::read of the same file, by another system call.
Hash(j) ==
    /\ pc[j] = "hash"
    /\ \/ /\ ~IsFile(j, at[j])
          /\ Fail(j)
       \/ /\ IsFile(j, at[j])
          /\ Record(j, Hashed(part[j], Now(j, at[j]).content))
          /\ UNCHANGED <<facts, fd>>
    /\ UNCHANGED <<files, store, index, history>>

\* snapshot_paths takes the next dependency: one that does not exist is
\* skipped, and one that does may still vanish before it is fingerprinted.
\* (Mutant: it is fingerprinted without a look whether it exists.)
NextDepUnchecked(j) ==
    /\ pc[j] = "next"
    /\ \E p \in todo[j] : /\ todo' = [todo EXCEPT ![j] = @ \ {p}]
                          /\ Snapshot(j, p)
    /\ UNCHANGED <<files, store, index, entry, part, stamp, deps, facts, fd,
                   history>>

NextDep(j) ==
    /\ pc[j] = "next"
    /\ \E p \in todo[j] :
         /\ todo' = [todo EXCEPT ![j] = @ \ {p}]
         /\ IF IsFile(j, p)
            THEN Snapshot(j, p)
            ELSE UNCHANGED <<pc, at>>
    /\ UNCHANGED <<files, store, index, entry, part, stamp, deps, facts, fd,
                   history>>

-----------------------------------------------------------------------------
\* load_file

\* The cache file is opened and read.  Something that does not parse, or was
\* written for another kind or other features, is removed by the next step.
Usable(j, e) ==
    /\ e \notin {Empty, Torn}
    /\ e.kind = Task[j].kind
    /\ e.feat = Task[j].feat

ReadEntry(j) ==
    /\ pc[j] = "read"
    /\ LET i == slot[Key(j)]
       IN  \/ /\ i = NoInode \/ DiskFaults
              /\ Goto(j, "parse")
              /\ UNCHANGED <<entry, at>>
           \/ /\ i # NoInode
              /\ ~Usable(j, data[i])
              /\ Goto(j, "purge")
              /\ UNCHANGED <<entry, at>>
           \/ /\ i # NoInode
              /\ Usable(j, data[i])
              /\ entry' = [entry EXCEPT ![j] = data[i]]
              /\ Snapshot(j, Task[j].path)
    /\ UNCHANGED <<files, store, index, part, stamp, todo, deps, facts, fd,
                   history>>

\* remove_file takes whatever the name holds by now; its error is ignored.
Purge(j) ==
    /\ pc[j] = "purge"
    /\ slot' = [slot EXCEPT ![Key(j)] = NoInode]
    /\ Goto(j, "parse")
    /\ UNCHANGED <<files, temp, data, index, work, facts, fd, history>>

\* Every recorded dependency has been looked at: a hit, or a miss.
\* (Mutant: a dependency that is gone counts as unchanged.)
NoNewDeps(e, ds) == ds \subseteq e.deps

SameDeps(e, ds) == e.deps = ds

Validate(j) ==
    /\ pc[j] = "next" /\ todo[j] = {} /\ Loading(j)
    /\ \/ /\ SameDeps(entry[j], deps[j])
          /\ facts' = [facts EXCEPT ![j] = entry[j].facts]
          /\ Goto(j, "hit")
          /\ DropWork(j)
          /\ UNCHANGED entry
       \/ /\ ~SameDeps(entry[j], deps[j])
          /\ Miss(j)
          /\ UNCHANGED facts
    /\ UNCHANGED <<files, store, index, fd, history>>

-----------------------------------------------------------------------------
\* A miss: parse_file, analyze_file, then store_file.

Analysis(j, c) == [content |-> c, path |-> Task[j].path, feat |-> Task[j].feat]

\* (Mutant: a file that cannot be read is analysed all the same.)
ParseAnything(j) ==
    /\ pc[j] = "parse"
    /\ facts' = [facts EXCEPT ![j] = Analysis(j, Now(j, Task[j].path).content)]
    /\ IF Task[j].kind = "off"
       THEN Goto(j, "miss") /\ UNCHANGED at
       ELSE Snapshot(j, Task[j].path)
    /\ UNCHANGED <<files, store, index, entry, part, stamp, todo, deps, fd,
                   history>>

Parse(j) ==
    /\ pc[j] = "parse"
    /\ \/ /\ ~IsFile(j, Task[j].path)
          /\ Fail(j)
       \/ /\ IsFile(j, Task[j].path)
          /\ facts' = [facts EXCEPT ![j] =
                         Analysis(j, Now(j, Task[j].path).content)]
          /\ IF Task[j].kind = "off"
             THEN Goto(j, "miss") /\ UNCHANGED at
             ELSE Snapshot(j, Task[j].path)
          /\ UNCHANGED <<entry, part, stamp, todo, deps, fd>>
    /\ UNCHANGED <<files, store, index, history>>

Payload(j) == [kind |-> Task[j].kind, feat |-> Task[j].feat, file |-> stamp[j],
               deps |-> deps[j], facts |-> facts[j]]

Linked(i) == \/ \E k \in Keys : i \in {slot[k], temp[k]}
             \/ \E j \in Jobs : fd[j] = i

\* Which unused inode a new file gets makes no difference.
NewInode == CHOOSE i \in Inodes : ~Linked(i)

\* fs::write opens the temporary name, creating or truncating the file.  The
\* name depends on the key alone, so jobs with one key share it.
\* (Mutant: one temporary name for the whole directory.)
OneTempName(j) == [Key(j) EXCEPT ![3] = CHOOSE p \in Paths : TRUE]

TempKey(j) == Key(j)

\* (Mutant: the entry's own name is opened.)
CreateInPlace(j) ==
    /\ pc[j] = "next" /\ todo[j] = {} /\ ~Loading(j)
    /\ \E i \in Inodes :
         /\ ~Linked(i) /\ i = NewInode
         /\ slot' = [slot EXCEPT ![Key(j)] = i]
         /\ temp' = [temp EXCEPT ![TempKey(j)] = i]
         /\ data' = [data EXCEPT ![i] = Empty]
         /\ fd' = [fd EXCEPT ![j] = i]
    /\ Goto(j, "write")
    /\ UNCHANGED <<files, index, work, facts, history>>

Create(j) ==
    /\ pc[j] = "next" /\ todo[j] = {} /\ ~Loading(j)
    /\ \E i \in Inodes :
         /\ IF temp[TempKey(j)] = NoInode THEN ~Linked(i) /\ i = NewInode
                                          ELSE i = temp[TempKey(j)]
         /\ temp' = [temp EXCEPT ![TempKey(j)] = i]
         /\ data' = [data EXCEPT ![i] = Empty]
         /\ fd' = [fd EXCEPT ![j] = i]
    /\ Goto(j, "write")
    /\ UNCHANGED <<files, slot, index, work, facts, history>>

\* ... and writes from offset 0.  Another writer's bytes beyond the end of
\* this payload stay, unless the payloads are the same.
Write(j) ==
    /\ pc[j] = "write"
    /\ \E d \in {Payload(j)} \cup
                (IF data[fd[j]] \in {Empty, Payload(j)} THEN {} ELSE {Torn}) :
         data' = [data EXCEPT ![fd[j]] = d]
    /\ fd' = [fd EXCEPT ![j] = NoInode]
    /\ Goto(j, "rename")
    /\ UNCHANGED <<files, slot, temp, index, work, facts, history>>

\* fs::rename; it fails when another job has renamed the file already.
Rename(j) ==
    /\ pc[j] = "rename"
    /\ \/ /\ temp[TempKey(j)] = NoInode
          /\ Fail(j)
          /\ UNCHANGED <<slot, temp>>
       \/ /\ temp[TempKey(j)] # NoInode
          /\ slot' = [slot EXCEPT ![Key(j)] = temp[TempKey(j)]]
          /\ temp' = [temp EXCEPT ![TempKey(j)] = NoInode]
          /\ Goto(j, "miss")
          /\ DropWork(j)
          /\ UNCHANGED <<entry, facts, fd>>
    /\ UNCHANGED <<files, data, index, history>>

\* A cache write fails, or the process dies: the temporary file stays behind,
\* perhaps half written.
LeaveTemp(j) ==
    IF pc[j] = "write"
    THEN \E d \in {data[fd[j]], Torn} : data' = [data EXCEPT ![fd[j]] = d]
    ELSE UNCHANGED data

StoreFails(j) ==
    /\ DiskFaults
    /\ \/ pc[j] \in {"write", "rename"}
       \/ pc[j] = "next" /\ todo[j] = {} /\ ~Loading(j)
    /\ LeaveTemp(j)
    /\ Fail(j)
    /\ UNCHANGED <<files, slot, temp, index, history>>

Crash(j) ==
    /\ Live(j)
    /\ LeaveTemp(j)
    /\ Goto(j, "crashed")
    /\ entry' = [entry EXCEPT ![j] = NoEntry]
    /\ facts' = [facts EXCEPT ![j] = NoFacts]
    /\ fd' = [fd EXCEPT ![j] = NoInode]
    /\ DropWork(j)
    /\ UNCHANGED <<files, slot, temp, index, history>>

-----------------------------------------------------------------------------
\* A job starts on a file that discovery listed and the dependency index idx
\* was built from.  (The file may have changed or vanished since.)
Related(j, idx) == {Task[j].path} \cup Links[idx[Task[j].path]]

\* cache_path is None without a cache directory: load_file returns at once.
\* (Mutant: the cache is read even if it is off.)
ReadFirst(j) == "read"
Entrance(j) == IF Task[j].kind = "off" THEN "parse" ELSE "read"

\* The entry of job i is the one the files ask for: it was a miss, and quiet.
Stored(i) == pc[i] = "miss" /\ quiet[i] /\ Task[i].kind # "off"

StartWith(j, idx) ==
    /\ pc[j] = "idle"
    /\ idx[Task[j].path] # Absent
    /\ OneWriterPerEntry => \A i \in Jobs : Live(i) => Key(i) # Key(j)
    /\ Goto(j, Entrance(j))
    /\ index' = [index EXCEPT ![j] = idx]
    /\ seen' = [seen EXCEPT ![j] = [p \in Paths |-> {Now(j, p).content}]]
    /\ warm' = [warm EXCEPT ![j] = \E i \in Jobs : Stored(i) /\ Task[i] = Task[j]]
    /\ quiet' = [i \in Jobs |->
                   IF i = j THEN idx[Task[j].path] = Now(j, Task[j].path).content
                   ELSE quiet[i] /\ (Key(i) = Key(j) => Task[i] = Task[j])]
    /\ UNCHANGED <<files, store, work, facts, fd>>

Start(j) == StartWith(j, [p \in Paths |-> Now(j, p).content])

\* The editor replaces, touches, creates or deletes a file.  Unless
\* MtimeAdvances, the new file may have any modification time up to now.
EditTimes == IF MtimeAdvances THEN {clock + 1} ELSE 0 .. (clock + 1)

ParsedOnly(j, f) ==
    /\ f = <<Task[j].root, Task[j].path>>
    /\ pc[j] \in {"stat", "hash"} /\ ~Loading(j) /\ stamp[j] = NoStamp

\* Whether the answer of job j, or the cache entry behind it, depends on a file.
Touches(j, r, p) == /\ pc[j] # "idle" /\ Task[j].root = r
                    /\ p \in Related(j, index[j])

Edit(r, p) ==
    /\ \E j \in Jobs : ~Ended(j)
    /\ StableWhileStoring => \A j \in Jobs : ~ParsedOnly(j, <<r, p>>)
    /\ clock < MaxEdits
    /\ clock' = clock + 1
    /\ \E c \in Versions, m \in EditTimes :
         /\ c = Absent => disk[<<r, p>>].content # Absent
         /\ disk' = [disk EXCEPT ![<<r, p>>] = [content |-> c, mtime |-> m]]
         /\ seen' = [j \in Jobs |->
                       IF Live(j) /\ Task[j].root = r
                       THEN [seen[j] EXCEPT ![p] = @ \cup {c}] ELSE seen[j]]
    /\ quiet' = [j \in Jobs |-> quiet[j] /\ ~Touches(j, r, p)]
    /\ warm' = [j \in Jobs |-> warm[j] /\ ~Touches(j, r, p)]
    /\ UNCHANGED <<store, pc, index, work, facts, fd>>

\* Nothing is left to do; a file that is gone is not analysed.
Finished ==
    /\ \A j \in Jobs : Ended(j) \/ (pc[j] = "idle" /\ ~IsFile(j, Task[j].path))
    /\ UNCHANGED vars

Step(j) ==
    \/ Stat(j) \/ Hash(j) \/ NextDep(j)
    \/ ReadEntry(j) \/ Purge(j) \/ Validate(j)
    \/ Parse(j) \/ Create(j) \/ Write(j) \/ Rename(j)
    \/ StoreFails(j)

Next ==
    \/ \E j \in Jobs : Start(j) \/ Step(j) \/ Crash(j)
    \/ \E r \in Roots, p \in Paths : Edit(r, p)
    \/ Finished

Spec == Init /\ [][Next]_vars

-----------------------------------------------------------------------------
\* The types of the variables.  That facts never hold the analysis of a file
\* that is not there (Absent) is the part the error paths must get right.
TypeOK ==
    /\ disk \in [Files -> [content: Versions, mtime: 0 .. MaxEdits]]
    /\ clock \in 0 .. MaxEdits
    /\ slot \in [Keys -> Inodes \cup {NoInode}]
    /\ temp \in [Keys -> Inodes \cup {NoInode}]
    /\ data \in [Inodes -> Entry \cup {Empty, Torn}]
    /\ pc \in [Jobs -> {"idle", "read", "purge", "stat", "hash", "next", "parse",
                        "write", "rename", "hit", "miss", "failed", "crashed"}]
    /\ index \in [Jobs -> [Paths -> Versions]]
    /\ entry \in [Jobs -> Entry \cup {NoEntry}]
    /\ at \in [Jobs -> Paths \cup {NoPath}]
    /\ part \in [Jobs -> Stamp \cup {NoStamp}]
    /\ stamp \in [Jobs -> Stamp \cup {NoStamp}]
    /\ todo \in [Jobs -> SUBSET Paths]
    /\ deps \in [Jobs -> SUBSET Stamp]
    /\ facts \in [Jobs -> Facts \cup {NoFacts}]
    /\ fd \in [Jobs -> Inodes \cup {NoInode}]
    /\ seen \in [Jobs -> [Paths -> SUBSET Versions]]
    /\ quiet \in [Jobs -> BOOLEAN]
    /\ warm \in [Jobs -> BOOLEAN]
-----------------------------------------------------------------------------
\* x is the analysis of a content the job's file held while the job ran.
Answered(j, x) ==
    /\ x.path = Task[j].path
    /\ x.feat = Task[j].feat
    /\ x.content \in seen[j][Task[j].path]

\* An answer, hit or miss, is the analysis of a content the file held while the
\* job ran: for the path and the features it was asked for, whoever wrote the
\* entry and whatever happened to the file since.
Fresh == \A j \in Jobs : pc[j] \in {"hit", "miss"} => Answered(j, facts[j])

\* A hit is served only if every dependency recorded with the entry held the
\* recorded content at some moment of the job: the check reads them one by one,
\* while the editor is at work.
HitDepsWitnessed ==
    \A j \in Jobs : pc[j] = "hit" /\ Task[j].kind = "sha256+mtime" =>
        \A d \in entry[j].deps : d.sha \in seen[j][d.path]

\* What a reader finds under <key>.json is a whole entry, whatever crashed and
\* whoever is writing: the temporary file and the rename are there for this.
PublishedComplete ==
    \A k \in Keys : slot[k] # NoInode => data[slot[k]] \notin {Empty, Torn}

\* A run does not fail because of the cache: only a source file that vanished
\* while the job ran makes load_file or store_file return an error.
FailsOnlyIfFileVanished ==
    \A j \in Jobs : pc[j] = "failed" =>
        \E p \in Paths : /\ Absent \in seen[j][p]
                         /\ p = Task[j].path \/ seen[j][p] # {Absent}

\* The cache works, file by file: a job like one that stored its answer before
\* is a hit unless its own file or one it names changed since that one started,
\* whatever else did.
WarmHit == \A j \in Jobs : pc[j] = "miss" => ~warm[j]

-----------------------------------------------------------------------------
\* Which variables a job has in use at each step.
Storing(j) == pc[j] \in {"stat", "hash", "next", "write", "rename"} /\ ~Loading(j)

Shape(j) ==
    /\ Loading(j) => /\ pc[j] \in {"stat", "hash", "next", "hit"}
                     /\ entry[j].kind = Task[j].kind
                     /\ entry[j].feat = Task[j].feat
    /\ Storing(j) \/ pc[j] \in {"hit", "miss"} => facts[j] \in Facts
    /\ Storing(j) \/ Loading(j) \/ pc[j] = "read" => Task[j].kind # "off"
    /\ pc[j] \in {"idle", "read", "purge", "parse"} => stamp[j] = NoStamp
    /\ pc[j] \in {"next", "write", "rename"} => stamp[j] # NoStamp
    /\ stamp[j] # NoStamp => stamp[j].path = Task[j].path
    /\ pc[j] \in {"stat", "hash"} => at[j] \in Paths
    /\ pc[j] \in {"stat", "hash"} /\ stamp[j] = NoStamp => at[j] = Task[j].path
    /\ pc[j] = "hash" => /\ Task[j].kind = "sha256+mtime"
                         /\ part[j] \in Stamp /\ part[j].path = at[j]
    /\ pc[j] = "write" => fd[j] \in Inodes

TInv == TypeOK /\ \A j \in Jobs : Shape(j)

\* Why hits are fresh.  A fingerprint vouches for a content if a file that
\* matches it can only hold that content: by the hash, or, with the "mtime"
\* kind, because no two contents ever share a modification time.
Vouches(s, kind, c) ==
    IF kind = "sha256+mtime"
    THEN s.sha = c
    ELSE /\ MtimeAdvances
         /\ s.mtime <= clock
         /\ \A f \in Files : disk[f].mtime = s.mtime => disk[f].content = c

SoundEntry(e) ==
    /\ Vouches(e.file, e.kind, e.facts.content)
    /\ e.facts.path = e.file.path
    /\ e.facts.feat = e.feat

\* Every whole cache file is sound, linked or not.
DataSound == \A i \in Inodes : data[i] \in Entry => SoundEntry(data[i])

\* Modification times tell contents apart, when edits advance them.
TimesTell ==
    MtimeAdvances =>
        /\ \A f \in Files : disk[f].mtime <= clock
        /\ \A f, g \in Files :
             disk[f].mtime = disk[g].mtime => disk[f].content = disk[g].content

\* The window of a live job holds the versions its files have now.
WindowOpen ==
    \A j \in Jobs : Live(j) =>
        \A p \in Paths : Now(j, p).content \in seen[j][p]

JobSound(j) ==
    /\ Loading(j) => /\ SoundEntry(entry[j])
                     /\ stamp[j] # NoStamp => Answered(j, entry[j].facts)
    /\ Storing(j) =>
         /\ Answered(j, facts[j])
         /\ IF stamp[j] = NoStamp
            THEN Now(j, Task[j].path).content = facts[j].content
            ELSE Vouches(stamp[j], Task[j].kind, facts[j].content)

\* The inductive invariant behind Fresh and ImplementsService.
IInv == /\ TInv /\ TimesTell /\ DataSound /\ WindowOpen /\ Fresh
        /\ \A j \in Jobs : JobSound(j)

\* What IInv needs of the environment.
SafeEnvironment ==
    /\ StableWhileStoring
    /\ \A j \in Jobs : Task[j].kind = "mtime" => MtimeAdvances

-----------------------------------------------------------------------------
\* What holds in every environment: the dependencies a validation has taken the
\* fingerprints of held what the fingerprints say.
Witnessed(j, ds) ==
    Task[j].kind = "sha256+mtime" => \A d \in ds : d.sha \in seen[j][d.path]

WitnessInv ==
    /\ TInv /\ WindowOpen /\ HitDepsWitnessed
    /\ \A j \in Jobs : /\ pc[j] \in {"idle", "read"} => deps[j] = {}
                       /\ pc[j] = "hit" => Loading(j)
                       /\ Loading(j) => Witnessed(j, deps[j])

\* What holds while no two jobs work on one entry at a time, as jobs of one run,
\* or of runs that follow one another, over distinct files do.
Exclusive == \A i, j \in Jobs : Live(i) /\ Live(j) /\ Key(i) = Key(j) => i = j

\* A temporary file is its writer's alone until it is renamed, and what is
\* renamed is the whole payload.
TempsApart ==
    \A k, l \in Keys : temp[k] # NoInode => /\ temp[k] # slot[l]
                                            /\ temp[k] = temp[l] => k = l

WriterAlone(j) ==
    /\ pc[j] = "write" => fd[j] = temp[Key(j)] /\ data[fd[j]] = Empty
    /\ pc[j] = "rename" => /\ temp[Key(j)] # NoInode
                           /\ data[temp[Key(j)]] = Payload(j)

PublishInv ==
    /\ TInv /\ Exclusive /\ TempsApart
    /\ \A k \in Keys : slot[k] # NoInode => data[slot[k]] \in Entry
    /\ \A j \in Jobs : WriterAlone(j)

\* A file about to be fingerprinted is the job's own or was there when looked at.
FailInv ==
    /\ PublishInv /\ WindowOpen /\ FailsOnlyIfFileVanished
    /\ \A j \in Jobs : pc[j] \in {"stat", "hash"} =>
         at[j] = Task[j].path \/ seen[j][at[j]] \ {Absent} # {}

\* The fingerprint of a file as it is.
Fingerprint(j, p) ==
    IF Task[j].kind = "mtime" THEN Metadata(j, p)
    ELSE Hashed(Metadata(j, p), Now(j, p).content)

\* s is the fingerprint, taken now, of a file job j depends on.
UpToDate(j, s) == /\ s.path \in Related(j, index[j])
                  /\ IsFile(j, s.path)
                  /\ s = Fingerprint(j, s.path)

\* Job j, validating e now, would find nothing changed.
EntryCurrent(j, e) ==
    /\ e \in Entry /\ e.kind = Task[j].kind /\ e.feat = Task[j].feat
    /\ e.file.path = Task[j].path
    /\ \A s \in {e.file} \cup e.deps : UpToDate(j, s)

\* A job has the file in its index, and looks at dependencies after it.
Tidy(j) == /\ pc[j] # "idle" => index[j][Task[j].path] \in Contents
           /\ stamp[j] = NoStamp => todo[j] = {} /\ deps[j] = {}

\* What a quiet job has computed so far is still so.
QuietSound(j) ==
    /\ quiet[j] /\ pc[j] # "idle" =>
         Now(j, Task[j].path).content = index[j][Task[j].path]
    /\ quiet[j] /\ Storing(j) =>
         /\ facts[j].content = index[j][Task[j].path]
         /\ todo[j] \cup {at[j]} \subseteq Related(j, index[j])
         /\ \A s \in deps[j] : UpToDate(j, s)
         /\ stamp[j] # NoStamp => UpToDate(j, stamp[j])
         /\ pc[j] = "hash" => part[j] = Metadata(j, at[j])
    /\ Stored(j) => slot[Key(j)] # NoInode /\ EntryCurrent(j, data[slot[Key(j)]])

\* A warm job is on its way to a hit.
WarmSound(j) ==
    /\ warm[j] => pc[j] \notin {"idle", "miss"}
    /\ warm[j] /\ Live(j) =>
         /\ pc[j] = "read" => slot[Key(j)] # NoInode /\ EntryCurrent(j, data[slot[Key(j)]])
         /\ pc[j] # "read" =>
              /\ Loading(j) /\ EntryCurrent(j, entry[j])
              /\ pc[j] = "hash" => part[j] = Metadata(j, at[j])
              /\ stamp[j] # NoStamp =>
                   LET left == todo[j] \cup (IF pc[j] = "next" THEN {} ELSE {at[j]})
                   IN  /\ deps[j] \subseteq entry[j].deps
                       /\ left \subseteq CachedDependencyPaths(entry[j])
                       /\ \A d \in entry[j].deps \ deps[j] : d.path \in left

\* Whoever works on the entry a quiet job stored is like it, and warm.
OthersWarm ==
    \A i, j \in Jobs : Stored(i) /\ Live(j) /\ Key(i) = Key(j) =>
        /\ Task[i] = Task[j] /\ warm[j]
        /\ index[i][Task[i].path] = index[j][Task[j].path]

WarmInv == /\ PublishInv /\ OthersWarm
           /\ \A j \in Jobs : Tidy(j) /\ QuietSound(j) /\ WarmSound(j)

\* The inductive invariants behind PublishedComplete, FailsOnlyIfFileVanished
\* and WarmHit.
ExclusiveInv == FailInv /\ WarmInv

-----------------------------------------------------------------------------
\* analyze_single_file implements the service that has no cache.
StatusOf(j) == IF pc[j] \in {"idle", "failed", "crashed"} THEN pc[j]
               ELSE IF pc[j] \in {"hit", "miss"} THEN "done" ELSE "pending"
AnswerOf(j) == IF pc[j] \in {"hit", "miss"} THEN facts[j] ELSE NoFacts

Sources  == [f \in Files |-> disk[f].content]
Windows  == [j \in Jobs |-> seen[j][Task[j].path]]
Statuses == [j \in Jobs |-> StatusOf(j)]
Answers  == [j \in Jobs |-> AnswerOf(j)]

Service == INSTANCE AnalysisService
           WITH source <- Sources, held <- Windows,
                status <- Statuses, answer <- Answers

\* Every behaviour of the cache is one of the service.
ImplementsService == Service!Spec
=============================================================================
