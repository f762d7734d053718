--------------------------- MODULE CacheStoreProofs ---------------------------
(* Theorems about CacheStore, for every value of its constants.            *)
EXTENDS CacheStore, TLAPS

USE DEF Goto, Snapshot, Key, Now, IsFile, files, store, work, history

\* Another job's step leaves this job's variables, and so its shape, alone.
LEMMA ShapeFrame ==
    ASSUME NEW j \in Jobs, Shape(j),
           pc'[j] = pc[j], entry'[j] = entry[j], at'[j] = at[j],
           part'[j] = part[j], stamp'[j] = stamp[j], facts'[j] = facts[j],
           fd'[j] = fd[j]
    PROVE  Shape(j)'
BY DEF Shape, Loading, Storing

LEMMA InitT == Init => TInv
<1> SUFFICES ASSUME Init PROVE TInv
  OBVIOUS
<1>1. TypeOK
  BY FilesAssumption, JobsAssumption DEF Init, TypeOK, Files, Versions, Keys
<1>2. ASSUME NEW j \in Jobs PROVE Shape(j)
  BY SentinelAssumption DEF Init, Shape, Loading, Storing
<1> QED BY <1>1, <1>2 DEF TInv

\* What the project files hold, as the steps read it.
LEMMA DiskType ==
    ASSUME TypeOK, NEW j \in Jobs, NEW p \in Paths
    PROVE  Now(j, p) \in [content: Versions, mtime: 0 .. MaxEdits]
BY JobsAssumption DEF TypeOK, Files, Config

LEMMA MetadataType ==
    ASSUME TypeOK, NEW j \in Jobs, NEW p \in Paths, IsFile(j, p)
    PROVE  Metadata(j, p) \in Stamp /\ Metadata(j, p).path = p
<1>1. Now(j, p).content \in Contents /\ Now(j, p).mtime \in Nat
  BY DiskType, JobsAssumption DEF Versions
<1> QED BY <1>1, FilesAssumption DEF Metadata, Stamp

LEMMA TaskType == ASSUME NEW j \in Jobs
                  PROVE  /\ Task[j] \in Config
                         /\ Key(j) \in Keys
                         /\ Task[j].path \in Paths
                         /\ <<Task[j].root, Task[j].path>> \in Files
BY JobsAssumption DEF Config, Keys, Files

LEMMA EntryFields ==
    ASSUME NEW e \in Entry
    PROVE  /\ e.file \in Stamp /\ e.deps \in SUBSET Stamp /\ e.facts \in Facts
           /\ CachedDependencyPaths(e) \in SUBSET Paths
BY DEF Entry, CachedDependencyPaths, Stamp

\* An error ends the job and keeps the types.
LEMMA FailT ==
    ASSUME TInv, NEW j \in Jobs, Fail(j), UNCHANGED <<files, index, history>>,
           slot' \in [Keys -> Inodes \cup {NoInode}],
           temp' \in [Keys -> Inodes \cup {NoInode}],
           data' \in [Inodes -> Entry \cup {Empty, Torn}]
    PROVE  TInv'
<1>1. TypeOK'
  BY DEF TInv, TypeOK, Fail, DropWork
<1>2. ASSUME NEW i \in Jobs PROVE Shape(i)'
  <2>1. CASE i = j
    BY <2>1 DEF TInv, TypeOK, Shape, Loading, Storing, Fail, DropWork
  <2>2. CASE i # j
    BY <2>2, ShapeFrame DEF TInv, TypeOK, Fail, DropWork
  <2> QED BY <2>1, <2>2
<1> QED BY <1>1, <1>2 DEF TInv

LEMMA RecordT ==
    ASSUME TInv, NEW j \in Jobs, NEW s \in Stamp, s.path = at[j],
           pc[j] \in {"stat", "hash"}, Record(j, s),
           UNCHANGED <<files, store, index, facts, fd, history>>
    PROVE  TInv'
<1> USE TaskType
<1>1. TypeOK'
  <2>1. /\ Loading(j) => CachedDependencyPaths(entry[j]) \in SUBSET Paths
        /\ DependencyPaths(j) \in SUBSET Paths
    BY EntryFields DEF TInv, TypeOK, Loading, DependencyPaths
  <2>2. CASE stamp[j] # NoStamp
    <3>1. deps[j] \cup {s} \in SUBSET Stamp
      BY DEF TInv, TypeOK
    <3>2. deps' \in [Jobs -> SUBSET Stamp]
      BY <2>2, <3>1, ZenonT(60) DEF TInv, TypeOK, Record
    <3> QED BY <2>2, <3>2 DEF TInv, TypeOK, Record
  <2>3. CASE stamp[j] = NoStamp /\ Loading(j) /\ ~SameFile(entry[j], s)
    BY <2>3, ZenonT(60) DEF TInv, TypeOK, Record, Miss, DropWork
  <2>4. CASE stamp[j] = NoStamp /\ ~(Loading(j) /\ ~SameFile(entry[j], s))
    <3> DEFINE ps == IF Loading(j) THEN CachedDependencyPaths(entry[j])
                                   ELSE DependencyPaths(j)
    <3>1. ps \in SUBSET Paths
      BY <2>1
    <3>2. /\ stamp' = [stamp EXCEPT ![j] = s] /\ todo' = [todo EXCEPT ![j] = ps]
          /\ part' = [part EXCEPT ![j] = NoStamp] /\ pc' = [pc EXCEPT ![j] = "next"]
          /\ UNCHANGED <<entry, at, deps>>
      BY <2>4 DEF Record
    <3> HIDE DEF ps
    <3> QED BY <3>1, <3>2 DEF TInv, TypeOK
  <2> QED BY <2>2, <2>3, <2>4
<1>2. ASSUME NEW i \in Jobs PROVE Shape(i)'
  <2>1. CASE i = j
    <3>1. s # NoStamp
      BY SentinelAssumption
    <3> QED BY <2>1, <3>1 DEF TInv, TypeOK, Shape, Loading, Storing, Record,
                              Miss, DropWork
  <2>2. CASE i # j
    BY <2>2, ShapeFrame DEF TInv, TypeOK, Record, Miss, DropWork
  <2> QED BY <2>1, <2>2
<1> QED BY <1>1, <1>2 DEF TInv

LEMMA StatT == ASSUME TInv, NEW j \in Jobs, Stat(j) PROVE TInv'
<1> USE TaskType
<1>0. at[j] \in Paths
  BY DEF Stat, TInv, Shape
<1>1. CASE ~IsFile(j, at[j])
  BY <1>1, FailT DEF Stat, TInv, TypeOK
<1>2. CASE IsFile(j, at[j]) /\ Task[j].kind = "mtime"
  BY <1>0, <1>2, MetadataType, RecordT DEF Stat, TInv
<1>3. CASE IsFile(j, at[j]) /\ Task[j].kind = "sha256+mtime"
  <2> DEFINE m == Metadata(j, at[j])
  <2>0. m \in Stamp /\ m.path = at[j]
    BY <1>0, <1>3, MetadataType DEF TInv
  <2>1. part' = [part EXCEPT ![j] = m] /\ pc' = [pc EXCEPT ![j] = "hash"]
        /\ UNCHANGED <<disk, clock, slot, temp, data, index, entry, at, stamp,
                       todo, deps, facts, fd, seen, quiet, warm>>
    BY <1>3 DEF Stat
  <2> HIDE DEF m
  <2>2. TypeOK'
    BY <2>0, <2>1 DEF TInv, TypeOK
  <2>3. ASSUME NEW i \in Jobs PROVE Shape(i)'
    <3>1. CASE i = j
      BY <2>0, <2>1, <3>1, <1>3 DEF TInv, TypeOK, Shape, Loading, Storing, Stat
    <3>2. CASE i # j
      BY <2>1, <3>2, ShapeFrame DEF TInv, TypeOK
    <3> QED BY <3>1, <3>2
  <2> QED BY <2>2, <2>3 DEF TInv
<1> QED BY <1>1, <1>2, <1>3 DEF Stat

LEMMA HashT == ASSUME TInv, NEW j \in Jobs, Hash(j) PROVE TInv'
<1> USE TaskType
<1>0. at[j] \in Paths /\ part[j] \in Stamp /\ part[j].path = at[j]
  BY DEF Hash, TInv, Shape
<1>1. CASE ~IsFile(j, at[j])
  BY <1>1, FailT DEF Hash, TInv, TypeOK
<1>2. CASE IsFile(j, at[j])
  <2> DEFINE s == Hashed(part[j], Now(j, at[j]).content)
  <2>1. s \in Stamp /\ s.path = at[j]
    BY <1>0, <1>2, DiskType DEF TInv, Stamp, Versions, Hashed
  <2>2. Record(j, s) /\ UNCHANGED <<files, store, index, facts, fd, history>>
    BY <1>2 DEF Hash
  <2> HIDE DEF s
  <2> QED BY <2>1, <2>2, RecordT DEF Hash
<1> QED BY <1>1, <1>2

LEMMA NextDepT == ASSUME TInv, NEW j \in Jobs, NextDep(j) PROVE TInv'
<1>1. PICK p \in todo[j] : /\ todo' = [todo EXCEPT ![j] = @ \ {p}]
                           /\ IF IsFile(j, p) THEN Snapshot(j, p)
                                              ELSE UNCHANGED <<pc, at>>
  BY DEF NextDep
<1>2. p \in Paths /\ todo[j] \ {p} \in SUBSET Paths
  BY DEF TInv, TypeOK
<1>3. TypeOK'
  <2>1. todo' \in [Jobs -> SUBSET Paths]
    BY <1>1, <1>2 DEF TInv, TypeOK
  <2>2. at' \in [Jobs -> Paths \cup {NoPath}]
    BY <1>1, <1>2 DEF TInv, TypeOK
  <2>3. pc' = pc \/ pc' = [pc EXCEPT ![j] = "stat"]
    BY <1>1
  <2> QED BY <2>1, <2>2, <2>3 DEF TInv, TypeOK, NextDep
<1>4. ASSUME NEW i \in Jobs PROVE Shape(i)'
  <2>1. CASE i = j
    BY <2>1, <1>1, <1>2 DEF TInv, TypeOK, Shape, Loading, Storing, NextDep
  <2>2. CASE i # j
    BY <2>2, <1>1, ShapeFrame DEF TInv, TypeOK, NextDep
  <2> QED BY <2>1, <2>2
<1> QED BY <1>3, <1>4 DEF TInv

LEMMA ReadEntryT == ASSUME TInv, NEW j \in Jobs, ReadEntry(j) PROVE TInv'
<1> USE TaskType
<1> DEFINE i == slot[Key(j)]
<1>0. i # NoInode => data[i] \in Entry \cup {Empty, Torn}
  BY DEF TInv, TypeOK
<1>1. TypeOK'
  BY <1>0 DEF TInv, TypeOK, ReadEntry, Usable
<1>2. ASSUME NEW k \in Jobs PROVE Shape(k)'
  <2>1. CASE k = j
    <3>1. CASE pc' = [pc EXCEPT ![j] = "parse"] /\ UNCHANGED <<entry, at>>
      BY <2>1, <3>1 DEF TInv, TypeOK, Shape, Loading, Storing, ReadEntry
    <3>2. CASE pc' = [pc EXCEPT ![j] = "purge"] /\ UNCHANGED <<entry, at>>
      BY <2>1, <3>2 DEF TInv, TypeOK, Shape, Loading, Storing, ReadEntry
    <3>3. CASE /\ i # NoInode /\ Usable(j, data[i])
               /\ entry' = [entry EXCEPT ![j] = data[i]]
               /\ pc' = [pc EXCEPT ![j] = "stat"]
               /\ at' = [at EXCEPT ![j] = Task[j].path]
      <4>1. entry'[j] = data[i] /\ pc'[j] = "stat" /\ at'[j] = Task[j].path
        BY <3>3 DEF TInv, TypeOK
      <4>2. /\ stamp'[j] = NoStamp /\ Task[j].kind # "off"
            /\ data[i].kind = Task[j].kind /\ data[i].feat = Task[j].feat
        BY <3>3 DEF TInv, Shape, ReadEntry, Usable
      <4>3. data[i] # NoEntry
        BY <1>0, <3>3, SentinelAssumption DEF Usable
      <4> QED BY <2>1, <4>1, <4>2, <4>3 DEF Shape, Loading, Storing
    <3> QED BY <3>1, <3>2, <3>3 DEF ReadEntry
  <2>2. CASE k # j
    BY <2>2, ShapeFrame DEF TInv, TypeOK, ReadEntry
  <2> QED BY <2>1, <2>2
<1> QED BY <1>1, <1>2 DEF TInv

LEMMA PurgeT == ASSUME TInv, NEW j \in Jobs, Purge(j) PROVE TInv'
<1> USE TaskType
<1>1. TypeOK'
  BY DEF TInv, TypeOK, Purge
<1>2. ASSUME NEW k \in Jobs PROVE Shape(k)'
  <2>1. CASE k = j
    BY <2>1 DEF TInv, TypeOK, Shape, Loading, Storing, Purge
  <2>2. CASE k # j
    BY <2>2, ShapeFrame DEF TInv, TypeOK, Purge
  <2> QED BY <2>1, <2>2
<1> QED BY <1>1, <1>2 DEF TInv

LEMMA ValidateT == ASSUME TInv, NEW j \in Jobs, Validate(j) PROVE TInv'
<1>0. entry[j] \in Entry /\ entry[j].facts \in Facts
  BY EntryFields DEF TInv, TypeOK, Validate, Loading
<1>1. TypeOK'
  BY <1>0, ZenonT(60) DEF TInv, TypeOK, Validate, Miss, DropWork
<1>2. ASSUME NEW k \in Jobs PROVE Shape(k)'
  <2>1. CASE k = j
    BY <2>1, <1>0 DEF TInv, TypeOK, Shape, Loading, Storing, Validate, Miss, DropWork
  <2>2. CASE k # j
    BY <2>2, ShapeFrame DEF TInv, TypeOK, Validate, Miss, DropWork
  <2> QED BY <2>1, <2>2
<1> QED BY <1>1, <1>2 DEF TInv

LEMMA ParseT == ASSUME TInv, NEW j \in Jobs, Parse(j) PROVE TInv'
<1> USE TaskType
<1>1. CASE ~IsFile(j, Task[j].path)
  BY <1>1, FailT DEF Parse, TInv, TypeOK
<1>2. CASE IsFile(j, Task[j].path)
  <2> DEFINE x == Analysis(j, Now(j, Task[j].path).content)
  <2>1. x \in Facts
    BY <1>2, DiskType DEF TInv, Analysis, Facts, Versions, Config
  <2>2. /\ facts' = [facts EXCEPT ![j] = x]
        /\ IF Task[j].kind = "off" THEN Goto(j, "miss") /\ UNCHANGED at
                                   ELSE Snapshot(j, Task[j].path)
        /\ UNCHANGED <<files, store, index, history, entry, part, stamp, todo,
                       deps, fd>>
    BY <1>2 DEF Parse
  <2> HIDE DEF x
  <2>3. TypeOK'
    BY <2>1, <2>2 DEF TInv, TypeOK
  <2>4. ASSUME NEW k \in Jobs PROVE Shape(k)'
    <3>1. CASE k = j
      <4>1. entry'[j] = NoEntry /\ stamp'[j] = NoStamp /\ facts'[j] \in Facts
        BY <2>1, <2>2 DEF TInv, TypeOK, Shape, Loading, Parse
      <4>2. \/ pc'[j] = "miss"
            \/ pc'[j] = "stat" /\ at'[j] = Task[j].path /\ Task[j].kind # "off"
        BY <2>2 DEF TInv, TypeOK
      <4> QED BY <3>1, <4>1, <4>2 DEF Shape, Loading, Storing
    <3>2. CASE k # j
      BY <3>2, <2>2, ShapeFrame DEF TInv, TypeOK
    <3> QED BY <3>1, <3>2
  <2> QED BY <2>3, <2>4 DEF TInv
<1> QED BY <1>1, <1>2

LEMMA PayloadType ==
    ASSUME TInv, NEW j \in Jobs, pc[j] \in {"write", "rename"} \/
                                 (pc[j] = "next" /\ ~Loading(j))
    PROVE  Payload(j) \in Entry
<1>1. Storing(j) /\ stamp[j] \in Stamp /\ deps[j] \in SUBSET Stamp
  BY DEF TInv, TypeOK, Shape, Storing
<1>2. facts[j] \in Facts /\ Task[j].kind \in Kinds /\ Task[j].feat \in Features
  BY <1>1, TaskType DEF TInv, Shape, Config
<1> QED BY <1>1, <1>2 DEF Payload, Entry

LEMMA CreateT == ASSUME TInv, NEW j \in Jobs, Create(j) PROVE TInv'
<1> USE TaskType DEF TempKey
<1>1. PICK i \in Inodes : /\ temp' = [temp EXCEPT ![TempKey(j)] = i]
                          /\ data' = [data EXCEPT ![i] = Empty]
                          /\ fd' = [fd EXCEPT ![j] = i]
  BY DEF Create
<1>2. TypeOK'
  BY <1>1 DEF TInv, TypeOK, Create
<1>3. ASSUME NEW k \in Jobs PROVE Shape(k)'
  <2>1. CASE k = j
    BY <2>1, <1>1 DEF TInv, TypeOK, Shape, Loading, Storing, Create
  <2>2. CASE k # j
    BY <2>2, <1>1, ShapeFrame DEF TInv, TypeOK, Create
  <2> QED BY <2>1, <2>2
<1> QED BY <1>2, <1>3 DEF TInv

LEMMA WriteT == ASSUME TInv, NEW j \in Jobs, Write(j) PROVE TInv'
<1> DEFINE e == Payload(j)
<1>0. e \in Entry
  BY PayloadType DEF Write
<1>1. PICK d \in {e, Torn} : data' = [data EXCEPT ![fd[j]] = d]
  BY DEF Write
<1> HIDE DEF e
<1>2. TypeOK'
  BY <1>0, <1>1 DEF TInv, TypeOK, Write
<1>3. ASSUME NEW k \in Jobs PROVE Shape(k)'
  <2>1. CASE k = j
    BY <2>1 DEF TInv, TypeOK, Shape, Loading, Storing, Write
  <2>2. CASE k # j
    BY <2>2, ShapeFrame DEF TInv, TypeOK, Write
  <2> QED BY <2>1, <2>2
<1> QED BY <1>2, <1>3 DEF TInv

LEMMA RenameT == ASSUME TInv, NEW j \in Jobs, Rename(j) PROVE TInv'
<1> USE TaskType DEF TempKey
<1>1. CASE temp[TempKey(j)] = NoInode
  BY <1>1, FailT DEF Rename, TInv, TypeOK
<1>2. CASE temp[TempKey(j)] # NoInode
  <2>1. TypeOK'
    BY <1>2, ZenonT(60) DEF TInv, TypeOK, Rename, DropWork
  <2>2. ASSUME NEW k \in Jobs PROVE Shape(k)'
    <3>1. CASE k = j
      <4>1. /\ pc'[j] = "miss" /\ stamp'[j] = NoStamp
            /\ UNCHANGED <<entry, facts>>
        BY <1>2 DEF TInv, TypeOK, Rename, DropWork
      <4>2. entry[j] = NoEntry /\ facts[j] \in Facts
        BY DEF TInv, Shape, Loading, Storing, Rename
      <4> QED BY <3>1, <4>1, <4>2 DEF Shape, Loading, Storing
    <3>2. CASE k # j
      BY <3>2, <1>2, ShapeFrame DEF TInv, TypeOK, Rename, DropWork
    <3> QED BY <3>1, <3>2
  <2> QED BY <2>1, <2>2 DEF TInv
<1> QED BY <1>1, <1>2

LEMMA LeaveTempT ==
    ASSUME TInv, NEW j \in Jobs, LeaveTemp(j)
    PROVE  data' \in [Inodes -> Entry \cup {Empty, Torn}]
<1>1. CASE pc[j] = "write"
  <2>1. PICK d \in {data[fd[j]], Torn} : data' = [data EXCEPT ![fd[j]] = d]
    BY <1>1 DEF LeaveTemp
  <2>2. fd[j] \in Inodes
    BY <1>1 DEF TInv, Shape
  <2> QED BY <2>1, <2>2 DEF TInv, TypeOK
<1>2. CASE pc[j] # "write"
  BY <1>2 DEF TInv, TypeOK, LeaveTemp
<1> QED BY <1>1, <1>2

LEMMA StoreFailsT == ASSUME TInv, NEW j \in Jobs, StoreFails(j) PROVE TInv'
BY LeaveTempT, FailT DEF StoreFails, TInv, TypeOK

LEMMA CrashT == ASSUME TInv, NEW j \in Jobs, Crash(j) PROVE TInv'
<1>1. TypeOK'
  BY LeaveTempT DEF TInv, TypeOK, Crash, DropWork
<1>2. ASSUME NEW i \in Jobs PROVE Shape(i)'
  <2>1. CASE i = j
    BY <2>1 DEF TInv, TypeOK, Shape, Loading, Storing, Crash, DropWork
  <2>2. CASE i # j
    BY <2>2, ShapeFrame DEF TInv, TypeOK, Crash, DropWork
  <2> QED BY <2>1, <2>2
<1> QED BY <1>1, <1>2 DEF TInv

\* A job may start with any index, not only that of the moment.
LEMMA StartWithT ==
    ASSUME TInv, NEW j \in Jobs, NEW idx \in [Paths -> Versions], StartWith(j, idx)
    PROVE  TInv'
<1>0. ASSUME NEW p \in Paths PROVE Now(j, p).content \in Versions
  BY DiskType DEF TInv
<1>1. TypeOK'
  <2>1. [p \in Paths |-> {Now(j, p).content}] \in [Paths -> SUBSET Versions]
    BY <1>0
  <2>2. index' \in [Jobs -> [Paths -> Versions]]
    BY DEF TInv, TypeOK, StartWith, Entrance
  <2>3. seen' \in [Jobs -> [Paths -> SUBSET Versions]]
    BY <2>1 DEF TInv, TypeOK, StartWith, Entrance
  <2>4. warm' \in [Jobs -> BOOLEAN] /\ quiet' \in [Jobs -> BOOLEAN]
    BY DEF TInv, TypeOK, StartWith, Entrance
  <2>5. pc' \in [Jobs -> {"idle", "read", "purge", "stat", "hash", "next",
                         "parse", "write", "rename", "hit", "miss", "failed",
                         "crashed"}]
    BY DEF TInv, TypeOK, StartWith, Entrance
  <2> QED BY <2>2, <2>3, <2>4, <2>5 DEF TInv, TypeOK, StartWith, Entrance
<1>2. ASSUME NEW i \in Jobs PROVE Shape(i)'
  <2>1. CASE i = j
    BY <2>1 DEF TInv, TypeOK, Shape, Loading, Storing, StartWith, Entrance
  <2>2. CASE i # j
    BY <2>2, ShapeFrame DEF TInv, TypeOK, StartWith, Entrance
  <2> QED BY <2>1, <2>2
<1> QED BY <1>1, <1>2 DEF TInv

LEMMA StartIndex ==
    ASSUME TypeOK, NEW j \in Jobs
    PROVE  [p \in Paths |-> Now(j, p).content] \in [Paths -> Versions]
BY DiskType

LEMMA StartT == ASSUME TInv, NEW j \in Jobs, Start(j) PROVE TInv'
BY StartWithT, StartIndex DEF Start, TInv

LEMMA EditT ==
    ASSUME TInv, NEW r \in Roots, NEW p \in Paths, Edit(r, p) PROVE TInv'
<1>1. PICK c \in Versions, m \in EditTimes :
         /\ disk' = [disk EXCEPT ![<<r, p>>] = [content |-> c, mtime |-> m]]
         /\ seen' = [j \in Jobs |->
                       IF Live(j) /\ Task[j].root = r
                       THEN [seen[j] EXCEPT ![p] = @ \cup {c}] ELSE seen[j]]
  BY DEF Edit
<1>2. clock' \in 0 .. MaxEdits /\ m \in 0 .. MaxEdits
  BY JobsAssumption DEF TInv, TypeOK, Edit, EditTimes
<1>3. disk' \in [Files -> [content: Versions, mtime: 0 .. MaxEdits]]
  BY <1>1, <1>2 DEF TInv, TypeOK
<1>4. seen' \in [Jobs -> [Paths -> SUBSET Versions]]
  <2>1. ASSUME NEW j \in Jobs
        PROVE  /\ seen[j] \in [Paths -> SUBSET Versions]
               /\ [seen[j] EXCEPT ![p] = @ \cup {c}] \in [Paths -> SUBSET Versions]
    BY DEF TInv, TypeOK
  <2> QED BY <1>1, <2>1
<1>5. quiet' \in [Jobs -> BOOLEAN] /\ warm' \in [Jobs -> BOOLEAN]
  BY DEF TInv, TypeOK, Edit
<1>6. TypeOK'
  BY <1>2, <1>3, <1>4, <1>5 DEF TInv, TypeOK, Edit
<1>7. ASSUME NEW i \in Jobs PROVE Shape(i)'
  BY ShapeFrame DEF TInv, Edit
<1> QED BY <1>6, <1>7 DEF TInv

LEMMA NextT == TInv /\ [Next]_vars => TInv'
<1> SUFFICES ASSUME TInv, [Next]_vars PROVE TInv'
  OBVIOUS
<1>1. ASSUME NEW j \in Jobs, Step(j) PROVE TInv'
  BY <1>1, StatT, HashT, NextDepT, ReadEntryT, PurgeT, ValidateT, ParseT,
     CreateT, WriteT, RenameT, StoreFailsT DEF Step
<1>2. CASE UNCHANGED vars
  <2>1. TypeOK'
    BY <1>2 DEF vars, TInv, TypeOK
  <2>2. ASSUME NEW i \in Jobs PROVE Shape(i)'
    BY <1>2, ShapeFrame DEF vars, TInv
  <2> QED BY <2>1, <2>2 DEF TInv
<1> QED BY <1>1, <1>2, StartT, CrashT, EditT DEF Next, Finished

\* Every variable of every reachable state has its type.
THEOREM TypeCorrect == Spec => []TypeOK
<1>1. TInv => TypeOK
  BY DEF TInv
<1> QED BY <1>1, InitT, NextT, PTL DEF Spec

-----------------------------------------------------------------------------
\* What a fingerprint just taken says of the file.
Current(j, s) ==
    IF Task[j].kind = "sha256+mtime" THEN s.sha = Now(j, at[j]).content
                                     ELSE s.mtime = Now(j, at[j]).mtime

LEMMA SoundFrame ==
    ASSUME NEW e, UNCHANGED <<disk, clock>>, SoundEntry(e)
    PROVE  SoundEntry(e)'
BY DEF SoundEntry, Vouches

LEMMA JobSoundFrame ==
    ASSUME NEW j \in Jobs, JobSound(j), UNCHANGED <<disk, clock, seen>>,
           pc'[j] = pc[j], entry'[j] = entry[j], stamp'[j] = stamp[j],
           facts'[j] = facts[j]
    PROVE  JobSound(j)'
BY SoundFrame DEF JobSound, Loading, Storing, Answered, Vouches

\* A step of job j that leaves the project files alone has only j itself and
\* the cache files to answer for.
LEMMA StepFrame ==
    ASSUME IInv, TInv', NEW j \in Jobs, Live(j), UNCHANGED <<disk, clock, seen>>,
           \A i \in Jobs \ {j} : /\ pc'[i] = pc[i] /\ entry'[i] = entry[i]
                                 /\ stamp'[i] = stamp[i] /\ facts'[i] = facts[i],
           DataSound', JobSound(j)',
           pc'[j] \in {"hit", "miss"} => Answered(j, facts'[j])
    PROVE  IInv'
<1>1. TimesTell'
  BY DEF IInv, TimesTell
<1>2. WindowOpen'
  BY DEF IInv, WindowOpen, Live, Ended
<1>3. Fresh'
  BY DEF IInv, Fresh, Answered
<1>4. ASSUME NEW i \in Jobs PROVE JobSound(i)'
  BY JobSoundFrame DEF IInv
<1> QED BY <1>1, <1>2, <1>3, <1>4 DEF IInv

\* ... and if it also leaves the cache files alone, only j.
LEMMA DataFrame ==
    ASSUME IInv, UNCHANGED <<disk, clock>>,
           \A i \in Inodes : data'[i] \in {data[i], Empty, Torn}
    PROVE  DataSound'
<1> SUFFICES ASSUME NEW i \in Inodes, data'[i] \in Entry PROVE SoundEntry(data[i])'
  BY DEF DataSound
<1>1. data'[i] = data[i]
  BY SentinelAssumption
<1>2. SoundEntry(data[i])
  BY <1>1 DEF IInv, DataSound
<1> QED BY <1>1, <1>2 DEF SoundEntry, Vouches

LEMMA FailS ==
    ASSUME IInv, TInv', NEW j \in Jobs, Live(j), UNCHANGED <<disk, clock, seen>>,
           DataSound', pc'[j] \in {"failed", "crashed", "parse", "purge", "read"},
           entry'[j] = NoEntry,
           \A i \in Jobs \ {j} : /\ pc'[i] = pc[i] /\ entry'[i] = entry[i]
                                 /\ stamp'[i] = stamp[i] /\ facts'[i] = facts[i]
    PROVE  IInv'
<1>1. JobSound(j)'
  BY DEF JobSound, Loading, Storing
<1> QED BY <1>1, StepFrame

LEMMA RecordS ==
    ASSUME SafeEnvironment, IInv, TInv', NEW j \in Jobs, NEW s \in Stamp,
           s.path = at[j], pc[j] \in {"stat", "hash"}, Record(j, s),
           stamp[j] = NoStamp => Current(j, s),
           UNCHANGED <<files, store, index, facts, fd, history>>
    PROVE  IInv'
<1> USE TaskType
<1>0. /\ Live(j) /\ DataSound' /\ Shape(j) /\ JobSound(j)
      /\ s # NoStamp /\ Task[j].kind \in Kinds
  BY DataFrame, SentinelAssumption DEF IInv, Live, Ended, TInv, Shape, Loading,
                                       Storing, Config
<1>1. CASE stamp[j] # NoStamp
  <2>1. JobSound(j)'
    BY <1>0, <1>1 DEF Record, JobSound, Loading, Storing, SoundEntry, Vouches,
                      Answered, IInv, TInv, TypeOK
  <2> QED BY <1>0, <1>1, <2>1, StepFrame DEF Record, IInv, TInv, TypeOK
<1>2. CASE stamp[j] = NoStamp /\ Loading(j) /\ ~SameFile(entry[j], s)
  <2>1. /\ entry'[j] = NoEntry /\ pc'[j] = "parse"
        /\ \A i \in Jobs \ {j} : /\ pc'[i] = pc[i] /\ entry'[i] = entry[i]
                                 /\ stamp'[i] = stamp[i] /\ facts'[i] = facts[i]
    BY <1>2 DEF Record, Miss, DropWork, IInv, TInv, TypeOK
  <2> QED BY <1>0, <2>1, FailS
<1>3. CASE stamp[j] = NoStamp /\ ~(Loading(j) /\ ~SameFile(entry[j], s))
  <2>0. /\ stamp'[j] = s /\ pc'[j] = "next" /\ UNCHANGED entry
        /\ \A i \in Jobs \ {j} : pc'[i] = pc[i] /\ stamp'[i] = stamp[i]
    BY <1>3 DEF Record, IInv, TInv, TypeOK
  <2> DEFINE c == Now(j, Task[j].path).content
  <2>1. at[j] = Task[j].path /\ c \in seen[j][Task[j].path]
    BY <1>0, <1>3 DEF Shape, IInv, WindowOpen
  <2>2. CASE Loading(j)
    <3>1. /\ SoundEntry(entry[j]) /\ entry[j].file = s
          /\ entry[j].kind = Task[j].kind /\ entry[j].feat = Task[j].feat
      BY <1>0, <1>3, <2>2 DEF JobSound, Shape, SameFile
    <3>2. entry[j].facts.content = c
      BY <1>0, <1>3, <2>1, <3>1 DEF SoundEntry, Vouches, Current, Kinds, Files
    <3>3. Answered(j, entry[j].facts)
      BY <2>1, <3>1, <3>2 DEF SoundEntry, Answered
    <3>4. JobSound(j)'
      BY <2>0, <2>2, <3>1, <3>3, SoundFrame DEF JobSound, Loading, Storing, Answered
    <3> QED BY <1>0, <2>0, <3>4, StepFrame
  <2>3. CASE ~Loading(j)
    <3>1. Answered(j, facts[j]) /\ c = facts[j].content
      BY <1>0, <1>3, <2>3 DEF JobSound, Storing
    <3>2. Vouches(s, Task[j].kind, c)
      <4>1. CASE Task[j].kind = "sha256+mtime"
        BY <4>1, <1>3, <2>1 DEF Vouches, Current
      <4>2. CASE Task[j].kind = "mtime"
        BY <4>2, <1>3, <2>1 DEF Vouches, Current, SafeEnvironment, IInv, TimesTell
      <4> QED BY <1>0, <4>1, <4>2 DEF Kinds
    <3>3. JobSound(j)'
      BY <1>0, <2>0, <2>3, <3>1, <3>2 DEF JobSound, Loading, Storing, Answered, Vouches
    <3> QED BY <1>0, <2>0, <3>3, StepFrame
  <2> QED BY <2>2, <2>3
<1> QED BY <1>1, <1>2, <1>3

LEMMA StatS ==
    ASSUME SafeEnvironment, IInv, TInv', NEW j \in Jobs, Stat(j) PROVE IInv'
<1>0. at[j] \in Paths /\ Live(j)
  BY DEF Stat, IInv, TInv, Shape, Live, Ended
<1>1. CASE ~IsFile(j, at[j])
  <2>1. DataSound'
    BY <1>1, DataFrame DEF Stat
  <2> QED BY <1>0, <1>1, <2>1, FailS DEF Stat, Fail, DropWork, IInv, TInv, TypeOK
<1>2. CASE IsFile(j, at[j]) /\ Task[j].kind = "mtime"
  <2> DEFINE m == Metadata(j, at[j])
  <2>1. m \in Stamp /\ m.path = at[j] /\ Current(j, m)
    BY <1>0, <1>2, MetadataType DEF IInv, TInv, Current, Metadata
  <2>2. Record(j, m)
    BY <1>2 DEF Stat
  <2> HIDE DEF m
  <2> QED BY <1>2, <2>1, <2>2, RecordS DEF Stat
<1>3. CASE IsFile(j, at[j]) /\ Task[j].kind = "sha256+mtime"
  <2>1. /\ pc' = [pc EXCEPT ![j] = "hash"]
        /\ UNCHANGED <<disk, clock, data, entry, stamp, facts, seen>>
    BY <1>3 DEF Stat
  <2>2. DataSound'
    BY <2>1, DataFrame
  <2>3. JobSound(j)'
    <3>1. /\ JobSound(j) /\ pc[j] = "stat" /\ pc'[j] = "hash"
          /\ entry'[j] = entry[j] /\ stamp'[j] = stamp[j] /\ facts'[j] = facts[j]
      BY <2>1 DEF Stat, IInv, TInv, TypeOK
    <3> QED BY <2>1, <3>1 DEF JobSound, Loading, Storing, SoundEntry, Vouches,
                              Answered
  <2> QED BY <1>0, <2>1, <2>2, <2>3, StepFrame DEF IInv, TInv, TypeOK
<1> QED BY <1>1, <1>2, <1>3 DEF Stat

LEMMA HashS ==
    ASSUME SafeEnvironment, IInv, TInv', NEW j \in Jobs, Hash(j) PROVE IInv'
<1>0. /\ at[j] \in Paths /\ Live(j)
      /\ part[j] \in Stamp /\ part[j].path = at[j]
  BY DEF Hash, IInv, TInv, Shape, Live, Ended
<1>1. CASE ~IsFile(j, at[j])
  <2>1. DataSound'
    BY <1>1, DataFrame DEF Hash
  <2> QED BY <1>0, <1>1, <2>1, FailS DEF Hash, Fail, DropWork, IInv, TInv, TypeOK
<1>2. CASE IsFile(j, at[j])
  <2> DEFINE s == Hashed(part[j], Now(j, at[j]).content)
  <2>1. s \in Stamp /\ s.path = at[j]
    BY <1>0, <1>2, DiskType DEF IInv, TInv, Stamp, Versions, Hashed
  <2>2. Current(j, s)
    <3>1. Task[j].kind = "sha256+mtime"
      BY DEF Hash, IInv, TInv, Shape
    <3> QED BY <3>1 DEF Current, Hashed
  <2>3. Record(j, s)
    BY <1>2 DEF Hash
  <2> HIDE DEF s
  <2> QED BY <1>2, <2>1, <2>2, <2>3, RecordS DEF Hash
<1> QED BY <1>1, <1>2

\* A step that changes none of the variables JobSound speaks of, except that it
\* moves on within load_file or store_file.
LEMMA MoveS ==
    ASSUME IInv, TInv', NEW j \in Jobs, Live(j),
           UNCHANGED <<disk, clock, seen, entry, stamp, facts>>, DataSound',
           Loading(j) \/ Storing(j),
           pc' = pc \/ \E l \in {"stat", "hash", "next", "write", "rename"} :
                           pc' = [pc EXCEPT ![j] = l]
    PROVE  IInv'
<1>1. JobSound(j)'
  BY DEF IInv, TInv, TypeOK, JobSound, Loading, Storing, SoundEntry, Vouches,
         Answered
<1> QED BY <1>1, StepFrame DEF IInv, TInv, TypeOK, Live, Ended

LEMMA NextDepS ==
    ASSUME IInv, TInv', NEW j \in Jobs, NextDep(j) PROVE IInv'
<1>1. DataSound'
  BY DataFrame DEF NextDep
<1>2. Live(j) /\ (Loading(j) \/ Storing(j))
  BY DEF NextDep, Live, Ended, Storing
<1> QED BY <1>1, <1>2, MoveS DEF NextDep

LEMMA ReadEntryS ==
    ASSUME IInv, TInv', NEW j \in Jobs, ReadEntry(j) PROVE IInv'
<1> USE TaskType
<1> DEFINE i == slot[Key(j)]
<1>0. /\ Live(j) /\ DataSound' /\ entry[j] = NoEntry /\ stamp[j] = NoStamp
      /\ UNCHANGED <<disk, clock, seen, stamp, facts>>
  BY DataFrame DEF ReadEntry, Live, Ended, IInv, TInv, Shape, Loading
<1>1. CASE entry' = entry /\ \E l \in {"parse", "purge"} : pc' = [pc EXCEPT ![j] = l]
  <2>1. /\ pc'[j] \in {"parse", "purge"} /\ entry'[j] = NoEntry
        /\ \A k \in Jobs \ {j} : pc'[k] = pc[k] /\ entry'[k] = entry[k]
    BY <1>0, <1>1, SMTT(30) DEF IInv, TInv, TypeOK
  <2> QED BY <1>0, <2>1, FailS
<1>2. CASE /\ i # NoInode /\ Usable(j, data[i])
           /\ entry' = [entry EXCEPT ![j] = data[i]]
           /\ Snapshot(j, Task[j].path)
  <2>1. data[i] \in Entry /\ SoundEntry(data[i])
    <3>0. i # NoInode
      BY <1>2
    <3>1. i \in Inodes /\ data[i] \in Entry \cup {Empty, Torn}
      BY <3>0 DEF IInv, TInv, TypeOK
    <3> QED BY <1>2, <3>1 DEF IInv, Usable, DataSound
  <2>2. entry'[j] = data[i] /\ pc'[j] = "stat" /\ entry'[j] # NoEntry
    BY <1>2, <2>1, SentinelAssumption DEF IInv, TInv, TypeOK
  <2>3. JobSound(j)'
    BY <1>0, <2>1, <2>2 DEF JobSound, Loading, Storing, SoundEntry, Vouches
  <2> QED BY <1>0, <1>2, <2>2, <2>3, StepFrame DEF IInv, TInv, TypeOK
<1> QED BY <1>1, <1>2 DEF ReadEntry

LEMMA PurgeS == ASSUME IInv, TInv', NEW j \in Jobs, Purge(j) PROVE IInv'
<1>1. Live(j) /\ DataSound' /\ entry'[j] = NoEntry
  BY DataFrame DEF Purge, Live, Ended, IInv, TInv, Shape, Loading
<1> QED BY <1>1, FailS DEF Purge, IInv, TInv, TypeOK

LEMMA ValidateS == ASSUME IInv, TInv', NEW j \in Jobs, Validate(j) PROVE IInv'
<1>0. Live(j) /\ DataSound' /\ UNCHANGED <<disk, clock, seen>>
  BY DataFrame DEF Validate, Live, Ended
<1>1. CASE SameDeps(entry[j], deps[j])
  <2>1. /\ SoundEntry(entry[j]) /\ Answered(j, entry[j].facts)
        /\ facts'[j] = entry[j].facts /\ pc'[j] = "hit" /\ stamp'[j] = NoStamp
        /\ UNCHANGED entry
    <3>1. JobSound(j) /\ Loading(j) /\ stamp[j] # NoStamp
      BY DEF Validate, IInv, TInv, Shape
    <3>2. /\ facts'[j] = entry[j].facts /\ pc'[j] = "hit" /\ stamp'[j] = NoStamp
          /\ UNCHANGED entry
      BY <1>1 DEF Validate, IInv, TInv, TypeOK, DropWork
    <3> QED BY <3>1, <3>2 DEF JobSound
  <2>2. JobSound(j)'
    BY <1>0, <2>1 DEF JobSound, Loading, Storing, SoundEntry, Vouches
  <2> QED BY <1>0, <1>1, <2>1, <2>2, StepFrame
         DEF Validate, DropWork, IInv, TInv, TypeOK
<1>2. CASE ~SameDeps(entry[j], deps[j])
  BY <1>0, <1>2, FailS DEF Validate, Miss, DropWork, IInv, TInv, TypeOK
<1> QED BY <1>1, <1>2

LEMMA ParseS == ASSUME IInv, TInv', NEW j \in Jobs, Parse(j) PROVE IInv'
<1> USE TaskType
<1>0. /\ Live(j) /\ DataSound' /\ UNCHANGED <<disk, clock, seen>>
      /\ entry[j] = NoEntry /\ stamp[j] = NoStamp
  BY DataFrame DEF Parse, Live, Ended, IInv, TInv, Shape, Loading
<1>1. CASE ~IsFile(j, Task[j].path)
  <2>1. /\ pc'[j] = "failed" /\ entry'[j] = NoEntry
        /\ \A i \in Jobs \ {j} : /\ pc'[i] = pc[i] /\ entry'[i] = entry[i]
                                 /\ stamp'[i] = stamp[i] /\ facts'[i] = facts[i]
    BY <1>1 DEF Parse, Fail, DropWork, IInv, TInv, TypeOK
  <2> QED BY <1>0, <2>1, FailS
<1>2. CASE IsFile(j, Task[j].path)
  <2> DEFINE c == Now(j, Task[j].path).content
  <2>1. /\ facts'[j] = Analysis(j, c) /\ UNCHANGED <<entry, stamp>>
        /\ \A i \in Jobs \ {j} : pc'[i] = pc[i] /\ facts'[i] = facts[i]
    BY <1>2 DEF Parse, IInv, TInv, TypeOK
  <2>2. Answered(j, Analysis(j, c))
    BY <1>0 DEF Answered, Analysis, IInv, WindowOpen
  <2>3. JobSound(j)'
    BY <1>0, <2>1, <2>2 DEF JobSound, Loading, Storing, Answered, Analysis
  <2> QED BY <1>0, <2>1, <2>2, <2>3, StepFrame
<1> QED BY <1>1, <1>2

LEMMA CreateS == ASSUME IInv, TInv', NEW j \in Jobs, Create(j) PROVE IInv'
<1>1. PICK i \in Inodes : data' = [data EXCEPT ![i] = Empty]
  BY DEF Create
<1>2. DataSound'
  BY <1>1, DataFrame DEF Create, IInv, TInv, TypeOK
<1>3. Live(j) /\ Storing(j)
  BY DEF Create, Live, Ended, Storing
<1> QED BY <1>2, <1>3, MoveS DEF Create

LEMMA WriteS == ASSUME IInv, TInv', NEW j \in Jobs, Write(j) PROVE IInv'
<1> DEFINE e == Payload(j)
<1>1. PICK d \in {e, Torn} : data' = [data EXCEPT ![fd[j]] = d]
  BY DEF Write
<1>2. Storing(j) /\ Live(j) /\ UNCHANGED <<disk, clock>>
  BY DEF Write, Storing, Live, Ended, IInv, TInv, Shape, Loading
<1>3. SoundEntry(e)
  <2>1. stamp[j] # NoStamp /\ stamp[j].path = Task[j].path
    BY DEF Write, IInv, TInv, Shape
  <2>2. Answered(j, facts[j]) /\ Vouches(stamp[j], Task[j].kind, facts[j].content)
    BY <1>2, <2>1 DEF IInv, JobSound
  <2> QED BY <2>1, <2>2 DEF Answered, SoundEntry, Payload
<1>4. DataSound'
  <2> HIDE DEF e
  <2> SUFFICES ASSUME NEW i \in Inodes, data'[i] \in Entry
               PROVE  SoundEntry(data[i])'
    BY DEF DataSound
  <2>1. data'[i] = e \/ data'[i] = data[i]
    BY <1>1, SentinelAssumption DEF IInv, TInv, TypeOK
  <2>2. data'[i] = data[i] => SoundEntry(data[i])
    BY DEF IInv, DataSound
  <2> QED BY <1>2, <1>3, <2>1, <2>2 DEF SoundEntry, Vouches
<1> QED BY <1>2, <1>4, MoveS DEF Write

LEMMA RenameS == ASSUME IInv, TInv', NEW j \in Jobs, Rename(j) PROVE IInv'
<1>0. /\ Live(j) /\ DataSound' /\ UNCHANGED <<disk, clock, seen>>
      /\ entry[j] = NoEntry /\ Answered(j, facts[j])
  BY DataFrame DEF Rename, Live, Ended, IInv, TInv, Shape, Loading, Storing, JobSound
<1>1. CASE temp[TempKey(j)] = NoInode
  BY <1>0, <1>1, FailS DEF Rename, Fail, DropWork, IInv, TInv, TypeOK
<1>2. CASE temp[TempKey(j)] # NoInode
  <2>1. pc'[j] = "miss" /\ UNCHANGED <<entry, facts>>
    BY <1>2 DEF Rename, IInv, TInv, TypeOK
  <2>2. JobSound(j)'
    BY <1>0, <2>1 DEF JobSound, Loading, Storing
  <2> QED BY <1>0, <1>2, <2>1, <2>2, StepFrame DEF Rename, DropWork, IInv, TInv, TypeOK
<1> QED BY <1>1, <1>2

LEMMA LeaveTempS ==
    ASSUME IInv, NEW j \in Jobs, LeaveTemp(j), UNCHANGED <<disk, clock>>
    PROVE  DataSound'
<1>1. \A i \in Inodes : data'[i] \in {data[i], Empty, Torn}
  <2>1. CASE pc[j] = "write"
    BY <2>1 DEF LeaveTemp, IInv, TInv, TypeOK, Shape
  <2>2. CASE pc[j] # "write"
    BY <2>2 DEF LeaveTemp
  <2> QED BY <2>1, <2>2
<1> QED BY <1>1, DataFrame

LEMMA StoreFailsS == ASSUME IInv, TInv', NEW j \in Jobs, StoreFails(j) PROVE IInv'
<1>1. Live(j) /\ DataSound'
  BY LeaveTempS DEF StoreFails, Live, Ended
<1> QED BY <1>1, FailS DEF StoreFails, Fail, DropWork, IInv, TInv, TypeOK

LEMMA CrashS == ASSUME IInv, TInv', NEW j \in Jobs, Crash(j) PROVE IInv'
<1>1. Live(j) /\ DataSound'
  BY LeaveTempS DEF Crash
<1> QED BY <1>1, FailS DEF Crash, DropWork, IInv, TInv, TypeOK

LEMMA StartWithS ==
    ASSUME IInv, TInv', NEW j \in Jobs, NEW idx, StartWith(j, idx) PROVE IInv'
<1> USE TaskType
<1>1. /\ pc'[j] \in {"parse", "read"} /\ seen'[j] = [p \in Paths |-> {Now(j, p).content}]
      /\ entry[j] = NoEntry
      /\ UNCHANGED <<disk, clock, data, entry, stamp, facts>>
      /\ \A i \in Jobs \ {j} : pc'[i] = pc[i] /\ seen'[i] = seen[i]
  BY DEF StartWith, Entrance, IInv, TInv, TypeOK, Shape, Loading
<1>2. TimesTell' /\ DataSound'
  BY <1>1, DataFrame DEF IInv, TimesTell
<1>3. WindowOpen'
  BY <1>1 DEF IInv, WindowOpen, Live, Ended
<1>4. Fresh'
  BY <1>1 DEF IInv, Fresh, Answered
<1>5. ASSUME NEW i \in Jobs PROVE JobSound(i)'
  <2>1. CASE i = j
    BY <1>1, <2>1 DEF JobSound, Loading, Storing
  <2>2. CASE i # j
    <3>1. JobSound(i)
      BY DEF IInv
    <3> QED BY <1>1, <2>2, <3>1 DEF JobSound, Loading, Storing, Answered,
                                    SoundEntry, Vouches
  <2> QED BY <2>1, <2>2
<1> QED BY <1>2, <1>3, <1>4, <1>5 DEF IInv

LEMMA StartS == ASSUME IInv, TInv', NEW j \in Jobs, Start(j) PROVE IInv'
BY StartWithS DEF Start

\* What Vouches says after a step, of a fingerprint that did not change.
StillVouches(s, k, c) ==
    IF k = "sha256+mtime"
    THEN s.sha = c
    ELSE /\ MtimeAdvances /\ s.mtime <= clock'
         /\ \A f \in Files : disk'[f].mtime = s.mtime => disk'[f].content = c

\* An edit gives the file a modification time no fingerprint has.
LEMMA VouchesEdit ==
    ASSUME IInv, NEW r \in Roots, NEW q \in Paths, Edit(r, q),
           NEW s \in Stamp, NEW k, NEW c, Vouches(s, k, c)
    PROVE  StillVouches(s, k, c)
<1>1. CASE k = "sha256+mtime"
  BY <1>1 DEF Vouches, StillVouches
<1>2. CASE k # "sha256+mtime"
  <2>1. PICK v \in Versions :
          disk' = [disk EXCEPT ![<<r, q>>] = [content |-> v, mtime |-> clock + 1]]
    BY <1>2 DEF Edit, EditTimes, Vouches
  <2>2. /\ clock' = clock + 1 /\ clock \in Nat
        /\ MtimeAdvances /\ s.mtime <= clock
        /\ \A f \in Files : disk[f].mtime = s.mtime => disk[f].content = c
    BY <1>2 DEF Edit, Vouches, IInv, TInv, TypeOK
  <2>3. ASSUME NEW f \in Files, disk'[f].mtime = s.mtime PROVE disk'[f].content = c
    <3>1. f # <<r, q>>
      <4> SUFFICES ASSUME f = <<r, q>> PROVE FALSE
        OBVIOUS
      <4>1. s.mtime = clock + 1
        BY <2>1, <2>3 DEF IInv, TInv, TypeOK
      <4> QED BY <2>2, <4>1
    <3> QED BY <2>1, <2>2, <2>3, <3>1 DEF IInv, TInv, TypeOK
  <2>4. s.mtime <= clock'
    BY <2>2 DEF Stamp
  <2> QED BY <1>2, <2>2, <2>3, <2>4 DEF StillVouches
<1> QED BY <1>1, <1>2

LEMMA EditS ==
    ASSUME SafeEnvironment, IInv, TInv', NEW r \in Roots, NEW q \in Paths,
           Edit(r, q)
    PROVE  IInv'
<1> USE TaskType
<1>1. PICK v \in Versions, m \in EditTimes :
         /\ disk' = [disk EXCEPT ![<<r, q>>] = [content |-> v, mtime |-> m]]
         /\ seen' = [j \in Jobs |->
                       IF Live(j) /\ Task[j].root = r
                       THEN [seen[j] EXCEPT ![q] = @ \cup {v}] ELSE seen[j]]
  BY DEF Edit
<1>2. /\ clock' = clock + 1 /\ clock \in Nat
      /\ MtimeAdvances => m = clock + 1
      /\ UNCHANGED <<data, pc, entry, stamp, facts>>
      /\ disk \in [Files -> [content: Versions, mtime: 0 .. MaxEdits]]
      /\ <<r, q>> \in Files
  BY DEF Edit, EditTimes, IInv, TInv, TypeOK, Files
<1>3. \A f \in Files : disk'[f] = IF f = <<r, q>> THEN [content |-> v, mtime |-> m]
                                                  ELSE disk[f]
  BY <1>1, <1>2
<1>4. TimesTell'
  <2> SUFFICES ASSUME MtimeAdvances
               PROVE  /\ \A f \in Files : disk'[f].mtime <= clock'
                      /\ \A f, g \in Files : disk'[f].mtime = disk'[g].mtime
                                             => disk'[f].content = disk'[g].content
    BY DEF TimesTell
  <2>1. /\ \A f \in Files : disk[f].mtime \in Nat /\ disk[f].mtime <= clock
        /\ \A f, g \in Files : disk[f].mtime = disk[g].mtime
                               => disk[f].content = disk[g].content
    BY <1>2 DEF IInv, TimesTell
  <2> QED BY <1>2, <1>3, <2>1
<1>5. DataSound'
  <2> SUFFICES ASSUME NEW i \in Inodes, data[i] \in Entry PROVE SoundEntry(data[i])'
    BY <1>2 DEF DataSound
  <2> DEFINE e == data[i]
  <2>1. Vouches(e.file, e.kind, e.facts.content)'
    <3>1. e.file \in Stamp /\ Vouches(e.file, e.kind, e.facts.content)
      BY EntryFields DEF IInv, DataSound, SoundEntry
    <3>2. StillVouches(e.file, e.kind, e.facts.content)
      BY <3>1, VouchesEdit
    <3> QED BY <1>2, <3>2 DEF Vouches, StillVouches
  <2> QED BY <1>2, <2>1 DEF IInv, DataSound, SoundEntry
<1>6. ASSUME NEW j \in Jobs, NEW p \in Paths PROVE seen[j][p] \subseteq seen'[j][p]
  BY <1>1 DEF IInv, TInv, TypeOK
<1>7. WindowOpen'
  <2> SUFFICES ASSUME NEW j \in Jobs, Live(j), NEW p \in Paths
               PROVE  disk'[<<Task[j].root, p>>].content \in seen'[j][p]
    BY <1>2 DEF WindowOpen, Live, Ended
  <2>0. <<Task[j].root, p>> \in Files /\ seen[j] \in [Paths -> SUBSET Versions]
    BY DEF Files, Config, IInv, TInv, TypeOK
  <2>1. CASE Task[j].root = r /\ p = q
    BY <1>1, <1>3, <2>0, <2>1
  <2>2. CASE ~(Task[j].root = r /\ p = q)
    BY <1>3, <1>6, <2>0, <2>2 DEF IInv, WindowOpen
  <2> QED BY <2>1, <2>2
<1>8. ASSUME NEW j \in Jobs, NEW x, Answered(j, x)
      PROVE  x.content \in seen'[j][Task[j].path]
  BY <1>6, <1>8 DEF Answered
<1>9. Fresh'
  BY <1>2, <1>8 DEF IInv, Fresh, Answered
<1>10. ASSUME NEW j \in Jobs PROVE JobSound(j)'
  <2>0. JobSound(j) /\ TypeOK /\ Shape(j)
    BY DEF IInv, TInv
  <2>1. ASSUME Loading(j)
        PROVE  SoundEntry(entry[j])' /\ (stamp'[j] # NoStamp => Answered(j, entry[j].facts)')
    <3> DEFINE e == entry[j]
    <3>1. e \in Entry /\ e.file \in Stamp /\ SoundEntry(e)
      BY <2>0, <2>1, EntryFields DEF JobSound, Loading, TypeOK
    <3>2. StillVouches(e.file, e.kind, e.facts.content)
      BY <3>1, VouchesEdit DEF SoundEntry
    <3>3. SoundEntry(entry[j])'
      BY <1>2, <3>1, <3>2 DEF SoundEntry, Vouches, StillVouches
    <3>4. stamp'[j] # NoStamp => Answered(j, entry[j].facts)'
      BY <1>2, <1>8, <2>0, <2>1 DEF JobSound, Answered
    <3> QED BY <3>3, <3>4
  <2>2. ASSUME Storing(j), stamp[j] = NoStamp
        PROVE  disk'[<<Task[j].root, Task[j].path>>].content = facts[j].content
    <3>1. Now(j, Task[j].path).content = facts[j].content
      BY <2>0, <2>2 DEF JobSound
    <3>2. ParsedOnly(j, <<Task[j].root, Task[j].path>>)
      BY <2>0, <2>2 DEF ParsedOnly, Storing, Shape
    <3>3. <<Task[j].root, Task[j].path>> # <<r, q>>
      BY <3>2 DEF Edit, SafeEnvironment
    <3> QED BY <1>3, <3>1, <3>3
  <2>3. ASSUME Storing(j), stamp[j] # NoStamp
        PROVE  Vouches(stamp[j], Task[j].kind, facts[j].content)'
    <3>1. stamp[j] \in Stamp /\ Vouches(stamp[j], Task[j].kind, facts[j].content)
      BY <2>0, <2>3 DEF JobSound, TypeOK
    <3>2. StillVouches(stamp[j], Task[j].kind, facts[j].content)
      BY <3>1, VouchesEdit
    <3> QED BY <1>2, <3>2 DEF Vouches, StillVouches
  <2>4. Storing(j) => Answered(j, facts[j])'
    BY <1>2, <1>8, <2>0 DEF JobSound, Answered
  <2> QED BY <1>2, <2>1, <2>2, <2>3, <2>4 DEF JobSound, Loading, Storing
<1> QED BY <1>4, <1>5, <1>7, <1>9, <1>10 DEF IInv

LEMMA InitS == Init => IInv
<1> SUFFICES ASSUME Init PROVE IInv
  OBVIOUS
<1>1. TInv
  BY InitT
<1>2. TimesTell /\ WindowOpen /\ Fresh
  BY DEF Init, TimesTell, WindowOpen, Fresh, Live, Ended
<1>3. DataSound
  BY SentinelAssumption DEF Init, DataSound
<1>4. ASSUME NEW j \in Jobs PROVE JobSound(j)
  BY DEF Init, JobSound, Loading, Storing
<1> QED BY <1>1, <1>2, <1>3, <1>4 DEF IInv

LEMMA NextS == SafeEnvironment /\ IInv /\ [Next]_vars => IInv'
<1> SUFFICES ASSUME SafeEnvironment, IInv, [Next]_vars PROVE IInv'
  OBVIOUS
<1>0. TInv'
  BY NextT DEF IInv
<1>1. ASSUME NEW j \in Jobs, Step(j) PROVE IInv'
  BY <1>0, <1>1, StatS, HashS, NextDepS, ReadEntryS, PurgeS, ValidateS, ParseS,
     CreateS, WriteS, RenameS, StoreFailsS DEF Step
<1>2. CASE UNCHANGED vars
  <2>1. TimesTell' /\ WindowOpen' /\ Fresh'
    BY <1>2 DEF vars, IInv, TimesTell, WindowOpen, Fresh, Live, Ended, Answered
  <2>2. DataSound'
    BY <1>2, DataFrame DEF vars
  <2>3. ASSUME NEW j \in Jobs PROVE JobSound(j)'
    BY <1>2, JobSoundFrame DEF vars, IInv
  <2> QED BY <1>0, <2>1, <2>2, <2>3 DEF IInv
<1> QED BY <1>0, <1>1, <1>2, StartS, CrashS, EditS DEF Next, Finished

\* The invariant holds whenever no file is edited between being read and being
\* fingerprinted, and the "mtime" kind is used only where times advance.  It
\* holds with any number of writers of an entry, with crashes and disk faults.
THEOREM Invariant == ASSUME SafeEnvironment PROVE Spec => []IInv
<1>1. Init => IInv
  BY InitS
<1>2. IInv /\ [Next]_vars => IInv'
  BY NextS
<1> QED BY <1>1, <1>2, PTL DEF Spec

\* Under the same conditions an answer is never stale: it is the analysis of a
\* content the file held while the job ran.
THEOREM NeverStale == ASSUME SafeEnvironment PROVE Spec => []Fresh
<1>1. IInv => Fresh
  BY DEF IInv
<1> QED BY <1>1, Invariant, PTL

-----------------------------------------------------------------------------
\* The refinement.  A step of one job changes at most that job's status and
\* answer; the sources and windows change by Start and Edit alone.
LEMMA ViewFrame ==
    ASSUME NEW j \in Jobs, UNCHANGED <<disk, seen>>,
           \A i \in Jobs \ {j} : pc'[i] = pc[i] /\ facts'[i] = facts[i]
    PROVE  /\ UNCHANGED <<Sources, Windows>>
           /\ Statuses' = [Statuses EXCEPT ![j] = StatusOf(j)']
           /\ Answers' = [Answers EXCEPT ![j] = AnswerOf(j)']
<1>1. UNCHANGED <<Sources, Windows>>
  BY DEF Sources, Windows
<1>2. Statuses' = [Statuses EXCEPT ![j] = StatusOf(j)']
  BY DEF Statuses, StatusOf
<1>3. Answers' = [Answers EXCEPT ![j] = AnswerOf(j)']
  BY DEF Answers, AnswerOf
<1> QED BY <1>1, <1>2, <1>3

\* A job on its way to an answer: nothing happens that a caller could see.
LEMMA StutterR ==
    ASSUME NEW j \in Jobs, Live(j), Live(j)', UNCHANGED <<disk, seen>>,
           \A i \in Jobs \ {j} : pc'[i] = pc[i] /\ facts'[i] = facts[i]
    PROVE  UNCHANGED Service!svars
<1>1. StatusOf(j)' = StatusOf(j) /\ AnswerOf(j)' = AnswerOf(j)
  BY DEF Live, Ended, StatusOf, AnswerOf
<1>2. Statuses' = Statuses /\ Answers' = Answers
  BY <1>1, ViewFrame DEF Statuses, Answers
<1> QED BY <1>2, ViewFrame DEF Service!svars

\* An error or a crash.
LEMMA GiveUpR ==
    ASSUME NEW j \in Jobs, Live(j), pc'[j] \in {"failed", "crashed"},
           UNCHANGED <<disk, seen>>,
           \A i \in Jobs \ {j} : pc'[i] = pc[i] /\ facts'[i] = facts[i]
    PROVE  Service!Next
<1>1. StatusOf(j) = "pending" /\ StatusOf(j)' = pc'[j] /\ AnswerOf(j)' = AnswerOf(j)
  BY DEF Live, Ended, StatusOf, AnswerOf
<1>2. Answers' = Answers
  BY <1>1, ViewFrame DEF Answers
<1>3. Service!GiveUp(j)
  BY <1>1, <1>2, ViewFrame DEF Service!GiveUp, Statuses
<1> QED BY <1>3 DEF Service!Next

\* A hit or a miss.
LEMMA AnswerR ==
    ASSUME IInv, IInv', NEW j \in Jobs, Live(j), pc'[j] \in {"hit", "miss"},
           UNCHANGED <<disk, seen>>,
           \A i \in Jobs \ {j} : pc'[i] = pc[i] /\ facts'[i] = facts[i]
    PROVE  Service!Next
<1>1. StatusOf(j) = "pending" /\ StatusOf(j)' = "done" /\ AnswerOf(j)' = facts'[j]
  BY DEF Live, Ended, StatusOf, AnswerOf
<1>2. facts'[j] \in Facts
  BY DEF IInv, TInv, Shape
<1>3. /\ facts'[j].path = Task[j].path /\ facts'[j].feat = Task[j].feat
      /\ facts'[j].content \in seen[j][Task[j].path]
  BY DEF IInv, Fresh, Answered
<1> DEFINE c == facts'[j].content
<1>4. c \in Windows[j] \ {Absent} /\ facts'[j] = Service!Of(j, c)
  BY <1>2, <1>3, FilesAssumption DEF Windows, Facts, Service!Of
<1>5. Service!Answer(j)
  BY <1>1, <1>4, ViewFrame DEF Service!Answer, Statuses
<1> QED BY <1>5 DEF Service!Next

LEMMA StepR ==
    ASSUME IInv, IInv', NEW j \in Jobs, Step(j) \/ Crash(j)
    PROVE  Service!Next \/ UNCHANGED Service!svars
<1>1. /\ Live(j) /\ UNCHANGED <<disk, seen>>
      /\ \A i \in Jobs \ {j} : pc'[i] = pc[i] /\ facts'[i] = facts[i]
  <2>1. CASE Stat(j)
    BY <2>1 DEF IInv, TInv, TypeOK, Stat, Record, Fail, Miss, Live, Ended
  <2>2. CASE Hash(j)
    BY <2>2 DEF IInv, TInv, TypeOK, Hash, Record, Fail, Miss, Live, Ended
  <2>3. CASE NextDep(j) \/ ReadEntry(j) \/ Purge(j)
    BY <2>3, ZenonT(60) DEF IInv, TInv, TypeOK, NextDep, ReadEntry, Purge, Live, Ended
  <2>4. CASE Validate(j) \/ Parse(j)
    BY <2>4 DEF IInv, TInv, TypeOK, Validate, Parse, Fail, Miss, Live, Ended
  <2>5. CASE Create(j) \/ Write(j) \/ Rename(j)
    BY <2>5 DEF IInv, TInv, TypeOK, Create, Write, Rename, Fail, Live, Ended
  <2>6. CASE StoreFails(j) \/ Crash(j)
    BY <2>6 DEF IInv, TInv, TypeOK, StoreFails, Crash, Fail, Live, Ended
  <2> QED BY <2>1, <2>2, <2>3, <2>4, <2>5, <2>6 DEF Step
<1>2. CASE Live(j)'
  BY <1>1, <1>2, StutterR
<1>3. CASE pc'[j] \in {"failed", "crashed"}
  BY <1>1, <1>3, GiveUpR
<1>4. CASE pc'[j] \in {"hit", "miss"}
  BY <1>1, <1>4, AnswerR
<1>5. pc'[j] # "idle"
  <2>1. pc'[j] \in {"stat", "hash", "next", "parse", "purge", "write", "rename",
                    "hit", "miss", "failed", "crashed"}
    <3>1. CASE Stat(j)
      BY <3>1 DEF IInv, TInv, TypeOK, Stat, Record, Fail, Miss
    <3>2. CASE Hash(j)
      BY <3>2 DEF IInv, TInv, TypeOK, Hash, Record, Fail, Miss
    <3>3. CASE NextDep(j) \/ ReadEntry(j) \/ Purge(j)
      BY <3>3, ZenonT(60) DEF IInv, TInv, TypeOK, NextDep, ReadEntry, Purge
    <3>4. CASE Validate(j) \/ Parse(j)
      BY <3>4 DEF IInv, TInv, TypeOK, Validate, Parse, Fail, Miss
    <3>5. CASE Create(j) \/ Write(j) \/ Rename(j)
      BY <3>5 DEF IInv, TInv, TypeOK, Create, Write, Rename, Fail
    <3>6. CASE StoreFails(j) \/ Crash(j)
      BY <3>6 DEF IInv, TInv, TypeOK, StoreFails, Crash, Fail
    <3> QED BY <3>1, <3>2, <3>3, <3>4, <3>5, <3>6 DEF Step
  <2> QED BY <2>1
<1> QED BY <1>2, <1>3, <1>4, <1>5 DEF Live, Ended

LEMMA StartR == ASSUME IInv, NEW j \in Jobs, Start(j) PROVE Service!Next
<1> DEFINE c == Now(j, Task[j].path).content
<1>1. /\ Sources[Service!File(j)] = c /\ c # Absent /\ Statuses[j] = "idle"
  BY TaskType DEF Start, StartWith, Entrance, Sources, Service!File, Statuses, StatusOf
<1>2. Sources' = Sources /\ Answers' = Answers
  BY DEF Start, StartWith, Entrance, Sources, Answers, AnswerOf, IInv, TInv, TypeOK
<1>3. Statuses' = [Statuses EXCEPT ![j] = "pending"]
  <2>1. pc'[j] \in {"parse", "read"} /\ \A i \in Jobs \ {j} : pc'[i] = pc[i]
    BY DEF Start, StartWith, Entrance, IInv, TInv, TypeOK
  <2> QED BY <2>1 DEF Statuses, StatusOf
<1>4. Windows' = [Windows EXCEPT ![j] = {c}]
  <2>1. /\ seen'[j] = [p \in Paths |-> {Now(j, p).content}]
        /\ \A i \in Jobs \ {j} : seen'[i] = seen[i]
    BY DEF Start, StartWith, Entrance, IInv, TInv, TypeOK
  <2> QED BY <2>1, TaskType, ZenonT(60) DEF Windows
<1>5. Service!Begin(j)
  BY <1>1, <1>2, <1>3, <1>4 DEF Service!Begin
<1> QED BY <1>5 DEF Service!Next

LEMMA EditR ==
    ASSUME IInv, NEW r \in Roots, NEW q \in Paths, Edit(r, q) PROVE Service!Next
<1>1. PICK v \in Versions, m \in EditTimes :
         /\ disk' = [disk EXCEPT ![<<r, q>>] = [content |-> v, mtime |-> m]]
         /\ seen' = [j \in Jobs |->
                       IF Live(j) /\ Task[j].root = r
                       THEN [seen[j] EXCEPT ![q] = @ \cup {v}] ELSE seen[j]]
  BY DEF Edit
<1>2. Sources' = [Sources EXCEPT ![<<r, q>>] = v]
  BY <1>1 DEF Sources, Files, IInv, TInv, TypeOK
<1>3. Statuses' = Statuses /\ Answers' = Answers
  BY DEF Edit, Statuses, StatusOf, Answers, AnswerOf
<1>4. Windows' = [j \in Jobs |->
                    IF Statuses[j] = "pending" /\ Service!File(j) = <<r, q>>
                    THEN Windows[j] \cup {v} ELSE Windows[j]]
  <2>1. ASSUME NEW j \in Jobs
        PROVE  Windows'[j] = IF Statuses[j] = "pending" /\ Service!File(j) = <<r, q>>
                             THEN Windows[j] \cup {v} ELSE Windows[j]
    <3>1. Statuses[j] = "pending" <=> Live(j)
      BY DEF Statuses, StatusOf, Live, Ended
    <3>2. Service!File(j) = <<r, q>> <=> Task[j].root = r /\ Task[j].path = q
      BY DEF Service!File
    <3>3. /\ Windows'[j] = seen'[j][Task[j].path] /\ Windows[j] = seen[j][Task[j].path]
          /\ seen[j] \in [Paths -> SUBSET Versions] /\ Task[j].path \in Paths
      BY TaskType DEF Windows, IInv, TInv, TypeOK
    <3>4. seen'[j] = IF Live(j) /\ Task[j].root = r
                     THEN [seen[j] EXCEPT ![q] = @ \cup {v}] ELSE seen[j]
      BY <1>1
    <3> QED BY <3>1, <3>2, <3>3, <3>4
  <2> QED BY <2>1 DEF Windows
<1>5. Service!Edit(<<r, q>>, v)
  BY <1>2, <1>3, <1>4 DEF Service!Edit
<1> QED BY <1>5 DEF Service!Next, Versions

\* Every step of the cache is a step of the service, or one nobody can see.
LEMMA NextR == IInv /\ IInv' /\ [Next]_vars => [Service!Next]_(Service!svars)
<1> SUFFICES ASSUME IInv, IInv', [Next]_vars
             PROVE  Service!Next \/ UNCHANGED Service!svars
  OBVIOUS
<1>1. CASE UNCHANGED vars
  BY <1>1 DEF vars, Service!svars, Sources, Windows, Statuses, StatusOf, Answers,
              AnswerOf
<1> QED BY <1>1, StepR, StartR, EditR DEF Next, Finished

\* analyze_single_file with its cache implements the service without one.
THEOREM Implementation == ASSUME SafeEnvironment PROVE Spec => ImplementsService
<1>1. Init => Service!Init
  <2> SUFFICES ASSUME Init PROVE Service!Init
    OBVIOUS
  <2>1. Sources = [f \in Roots \X Paths |-> Content0]
    BY DEF Init, Sources, Files
  <2>2. Windows = [j \in Jobs |-> {}]
    BY TaskType DEF Init, Windows
  <2>3. Statuses = [j \in Jobs |-> "idle"] /\ Answers = [j \in Jobs |-> NoFacts]
    BY DEF Init, Statuses, StatusOf, Answers, AnswerOf
  <2> QED BY <2>1, <2>2, <2>3 DEF Service!Init
<1>2. IInv /\ IInv' /\ [Next]_vars => [Service!Next]_(Service!svars)
  BY NextR
<1> QED BY <1>1, <1>2, Invariant, PTL DEF Spec, ImplementsService, Service!Spec

=============================================================================
