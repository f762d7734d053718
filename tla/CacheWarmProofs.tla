---------------------------- MODULE CacheWarmProofs ----------------------------
(* Theorems about CacheStore: what the recorded dependencies are worth, and  *)
(* what holds while no two jobs work on one cache entry at a time.           *)
EXTENDS CacheStoreProofs

USE DEF Goto, Snapshot, Key, Now, IsFile, files, store, work, history

-----------------------------------------------------------------------------
\* A step of job j leaves the project files and the other jobs alone.
LEMMA StepLocal ==
    ASSUME TypeOK, NEW j \in Jobs, Step(j) \/ Crash(j)
    PROVE  /\ Live(j)
           /\ UNCHANGED <<disk, clock, index, seen, quiet, warm>>
           /\ \A i \in Jobs \ {j} :
                /\ pc'[i] = pc[i] /\ entry'[i] = entry[i] /\ at'[i] = at[i]
                /\ part'[i] = part[i] /\ stamp'[i] = stamp[i]
                /\ todo'[i] = todo[i] /\ deps'[i] = deps[i]
                /\ facts'[i] = facts[i] /\ fd'[i] = fd[i]
<1> USE DEF TypeOK, Live, Ended
<1>1. CASE Stat(j)
  BY <1>1 DEF Stat, Record, Fail, Miss, DropWork
<1>2. CASE Hash(j)
  BY <1>2 DEF Hash, Record, Fail, Miss, DropWork
<1>3. CASE NextDep(j)
  BY <1>3 DEF NextDep
<1>4. CASE ReadEntry(j) \/ Purge(j)
  BY <1>4 DEF ReadEntry, Purge
<1>5. CASE Validate(j)
  BY <1>5 DEF Validate, Miss, DropWork
<1>6. CASE Parse(j)
  BY <1>6 DEF Parse, Fail, DropWork
<1>7. CASE Create(j) \/ Write(j)
  BY <1>7 DEF Create, Write
<1>8. CASE Rename(j)
  BY <1>8 DEF Rename, Fail, DropWork
<1>9. CASE StoreFails(j) \/ Crash(j)
  BY <1>9 DEF StoreFails, Crash, Fail, DropWork
<1> QED BY <1>1, <1>2, <1>3, <1>4, <1>5, <1>6, <1>7, <1>8, <1>9 DEF Step

\* ... and the names of the other entries.
LEMMA NamesLocal ==
    ASSUME TypeOK, NEW j \in Jobs, Step(j) \/ Crash(j), NEW k \in Keys \ {Key(j)}
    PROVE  slot'[k] = slot[k] /\ temp'[k] = temp[k]
<1> USE DEF TypeOK, TempKey
<1>1. CASE Stat(j) \/ Hash(j) \/ NextDep(j) \/ ReadEntry(j) \/ Validate(j) \/ Parse(j)
  BY <1>1 DEF Stat, Hash, NextDep, ReadEntry, Validate, Parse
<1>2. CASE Purge(j) \/ Write(j)
  BY <1>2 DEF Purge, Write
<1>3. CASE Create(j)
  BY <1>3 DEF Create
<1>4. CASE Rename(j)
  BY <1>4 DEF Rename
<1>5. CASE StoreFails(j) \/ Crash(j)
  BY <1>5 DEF StoreFails, Crash
<1> QED BY <1>1, <1>2, <1>3, <1>4, <1>5 DEF Step

\* Where a step leads.
LEMMA StepGoto ==
    ASSUME TypeOK, NEW j \in Jobs, Step(j) \/ Crash(j)
    PROVE  /\ pc'[j] = "write" => Create(j)
           /\ pc'[j] = "rename" => Write(j)
           /\ pc'[j] = "hit" => Validate(j)
           /\ pc'[j] = "miss" => Parse(j) \/ Rename(j)
           /\ pc'[j] # "idle" /\ pc'[j] # "read"
<1> USE DEF TypeOK
<1>1. CASE Stat(j)
  BY <1>1 DEF Stat, Record, Fail, Miss
<1>2. CASE Hash(j)
  BY <1>2 DEF Hash, Record, Fail, Miss
<1>3. CASE NextDep(j)
  BY <1>3 DEF NextDep
<1>4. CASE ReadEntry(j) \/ Purge(j)
  BY <1>4 DEF ReadEntry, Purge
<1>5. CASE Validate(j)
  BY <1>5 DEF Validate, Miss
<1>6. CASE Parse(j)
  BY <1>6 DEF Parse, Fail
<1>7. CASE Create(j) \/ Write(j)
  BY <1>7 DEF Create, Write
<1>8. CASE Rename(j)
  BY <1>8 DEF Rename, Fail
<1>9. CASE StoreFails(j) \/ Crash(j)
  BY <1>9 DEF StoreFails, Crash, Fail
<1> QED BY <1>1, <1>2, <1>3, <1>4, <1>5, <1>6, <1>7, <1>8, <1>9 DEF Step

-----------------------------------------------------------------------------
\* What a job has seen it does not forget.
LEMMA EditSeen ==
    ASSUME TInv, NEW r \in Roots, NEW q \in Paths, Edit(r, q)
    PROVE  /\ UNCHANGED <<slot, temp, data, pc, index, entry, at, part, stamp,
                          todo, deps, facts, fd>>
           /\ \A j \in Jobs : \A p \in Paths : seen[j][p] \subseteq seen'[j][p]
           /\ \A f \in Files \ {<<r, q>>} : disk'[f] = disk[f]
           /\ WindowOpen => WindowOpen'
<1>1. PICK v \in Versions, m \in EditTimes :
         /\ disk' = [disk EXCEPT ![<<r, q>>] = [content |-> v, mtime |-> m]]
         /\ seen' = [j \in Jobs |->
                       IF Live(j) /\ Task[j].root = r
                       THEN [seen[j] EXCEPT ![q] = @ \cup {v}] ELSE seen[j]]
  BY DEF Edit
<1>2. UNCHANGED <<slot, temp, data, pc, index, entry, at, part, stamp, todo, deps,
                  facts, fd>>
  BY DEF Edit
<1>3. ASSUME NEW j \in Jobs, NEW p \in Paths PROVE seen[j][p] \subseteq seen'[j][p]
  BY <1>1 DEF TInv, TypeOK
<1>4. ASSUME NEW f \in Files PROVE disk'[f] = IF f = <<r, q>>
                                             THEN [content |-> v, mtime |-> m]
                                             ELSE disk[f]
  BY <1>1 DEF TInv, TypeOK
<1>5. ASSUME WindowOpen, NEW j \in Jobs, Live(j)', NEW p \in Paths
      PROVE  Now(j, p).content' \in seen'[j][p]
  <2>0. Live(j) /\ <<Task[j].root, p>> \in Files /\ seen[j] \in [Paths -> SUBSET Versions]
    BY <1>2, <1>5, TaskType DEF Live, Ended, Files, Config, TInv, TypeOK
  <2>1. CASE Task[j].root = r /\ p = q
    BY <1>1, <1>4, <2>0, <2>1
  <2>2. CASE ~(Task[j].root = r /\ p = q)
    BY <1>3, <1>4, <1>5, <2>0, <2>2 DEF WindowOpen
  <2> QED BY <2>1, <2>2
<1> QED BY <1>2, <1>3, <1>4, <1>5 DEF WindowOpen

LEMMA StepWindow ==
    ASSUME TypeOK, WindowOpen, NEW j \in Jobs, Step(j) \/ Crash(j)
    PROVE  WindowOpen'
BY StepLocal DEF WindowOpen, Live, Ended

LEMMA StartWindow ==
    ASSUME TypeOK, WindowOpen, NEW j \in Jobs, NEW idx, StartWith(j, idx)
    PROVE  WindowOpen'
BY DEF TypeOK, WindowOpen, StartWith, Live, Ended

LEMMA RecordW ==
    ASSUME TInv, NEW j \in Jobs, NEW s, Record(j, s),
           Loading(j) => Witnessed(j, deps[j]) /\ Witnessed(j, {s})
    PROVE  Loading(j)' => Witnessed(j, deps'[j])
BY DEF TInv, TypeOK, Record, Miss, DropWork, Loading, Witnessed

LEMMA StepW ==
    ASSUME WitnessInv, TInv', NEW j \in Jobs, Step(j) \/ Crash(j)
    PROVE  WitnessInv'
<1> USE DEF WitnessInv, TInv
<1>1. WindowOpen'
  BY StepWindow
<1>2. UNCHANGED seen
  BY StepLocal
<1>3. ASSUME pc'[j] = "hit"
      PROVE  Loading(j)' /\ Witnessed(j, entry'[j].deps)
  <2>1. Validate(j)
    BY <1>3, StepGoto
  <2> QED BY <1>3, <2>1 DEF Validate, SameDeps, Miss, Loading, Witnessed, TypeOK
<1>4. ASSUME Loading(j)' PROVE Witnessed(j, deps'[j])
  <2>1. CASE Stat(j)
    <3>1. CASE Task[j].kind = "sha256+mtime"
      BY <2>1, <3>1, <1>4 DEF Stat, TypeOK, Loading, Fail, DropWork
    <3>2. CASE Task[j].kind # "sha256+mtime"
      BY <3>2 DEF Witnessed
    <3> QED BY <3>1, <3>2
  <2>2. CASE Hash(j)
    <3>1. CASE ~IsFile(j, at[j])
      BY <1>4, <2>2, <3>1 DEF Hash, Fail, DropWork, TypeOK, Loading
    <3>2. CASE IsFile(j, at[j])
      <4> DEFINE s == Hashed(part[j], Now(j, at[j]).content)
      <4>1. at[j] \in Paths /\ part[j].path = at[j] /\ Live(j)
        BY <2>2 DEF Hash, Shape, Live, Ended
      <4>2. s.path = at[j] /\ s.sha = Now(j, at[j]).content
        BY <4>1 DEF Hashed
      <4>3. Witnessed(j, {s})
        BY <4>1, <4>2 DEF WindowOpen, Witnessed
      <4>4. Record(j, s)
        BY <2>2, <3>2 DEF Hash
      <4> HIDE DEF s
      <4> QED BY <1>4, <4>3, <4>4, RecordW
    <3> QED BY <3>1, <3>2
  <2>3. CASE NextDep(j) \/ Purge(j) \/ Parse(j)
    <3>1. CASE NextDep(j)
      BY <1>4, <3>1 DEF NextDep, Loading, TypeOK
    <3>2. CASE Purge(j)
      BY <1>4, <3>2 DEF Purge, Loading, TypeOK
    <3>3. CASE Parse(j)
      BY <1>4, <3>3 DEF Parse, Fail, DropWork, Loading, TypeOK, Shape
    <3> QED BY <2>3, <3>1, <3>2, <3>3
  <2>4. CASE ReadEntry(j)
    BY <2>4 DEF ReadEntry, Witnessed
  <2>5. CASE Validate(j)
    BY <2>5 DEF Validate, Miss, DropWork, Witnessed, TypeOK
  <2>6. CASE Create(j) \/ Write(j) \/ Rename(j)
    <3>1. CASE Create(j) \/ Write(j)
      <4>1. Shape(j) /\ entry' = entry
        BY <3>1 DEF Create, Write
      <4>2. \/ pc[j] = "next" /\ ~Loading(j)
           \/ pc[j] = "write"
        BY <3>1 DEF Create, Write
      <4>3. entry[j] = NoEntry
        BY <4>1, <4>2 DEF Loading, Shape
      <4> QED BY ONLY <1>4, <4>1, <4>3 DEF Loading
    <3>2. CASE Rename(j)
      <4>1. deps'[j] = {}
        BY <3>2 DEF Rename, Fail, DropWork, TypeOK
      <4> QED BY ONLY <4>1 DEF Witnessed
    <3> QED BY <2>6, <3>1, <3>2
  <2>7. CASE StoreFails(j) \/ Crash(j)
    <3>1. deps'[j] = {}
      BY <2>7 DEF StoreFails, Crash, Fail, DropWork, TypeOK
    <3> QED BY ONLY <3>1 DEF Witnessed
  <2> QED BY <2>1, <2>2, <2>3, <2>4, <2>5, <2>6, <2>7 DEF Step
<1>5. pc'[j] \notin {"idle", "read"}
  BY StepGoto
<1>6. ASSUME NEW i \in Jobs \ {j}
      PROVE  pc'[i] = pc[i] /\ entry'[i] = entry[i] /\ deps'[i] = deps[i]
  BY StepLocal
<1> QED BY <1>1, <1>2, <1>3, <1>4, <1>5, <1>6
     DEF Witnessed, HitDepsWitnessed, Loading

LEMMA StartW ==
    ASSUME WitnessInv, TInv', NEW j \in Jobs, NEW idx, StartWith(j, idx)
    PROVE  WitnessInv'
<1> USE DEF WitnessInv, TInv
<1>1. WindowOpen'
  BY StartWindow
<1>2. /\ pc[j] = "idle" /\ entry[j] = NoEntry /\ pc'[j] \in {"read", "parse"}
      /\ UNCHANGED <<entry, deps>> /\ deps[j] = {}
      /\ \A i \in Jobs \ {j} : pc'[i] = pc[i] /\ seen'[i] = seen[i]
  BY DEF StartWith, Entrance, TypeOK, Shape, Loading
<1> QED BY <1>1, <1>2 DEF Witnessed, HitDepsWitnessed, Loading

LEMMA EditW ==
    ASSUME WitnessInv, TInv', NEW r \in Roots, NEW q \in Paths, Edit(r, q)
    PROVE  WitnessInv'
<1> USE DEF WitnessInv
<1>1. /\ WindowOpen' /\ UNCHANGED <<pc, entry, deps>>
      /\ \A j \in Jobs : \A p \in Paths : seen[j][p] \subseteq seen'[j][p]
  BY EditSeen
<1>2. ASSUME NEW j \in Jobs, NEW d \in Stamp, d.sha \in seen[j][d.path]
      PROVE  d.sha \in seen'[j][d.path]
  BY <1>1, <1>2 DEF Stamp
<1>3. ASSUME NEW j \in Jobs, Loading(j), Task[j].kind = "sha256+mtime",
             NEW d \in deps[j]
      PROVE  d.sha \in seen'[j][d.path]
  BY <1>2, <1>3 DEF TInv, TypeOK, Witnessed
<1>4. ASSUME NEW j \in Jobs, pc[j] = "hit", Task[j].kind = "sha256+mtime",
             NEW d \in entry[j].deps
      PROVE  d.sha \in seen'[j][d.path]
  <2>1. entry[j].deps \in SUBSET Stamp
    BY <1>4, EntryFields DEF TInv, TypeOK, Loading
  <2> QED BY <1>2, <1>4, <2>1 DEF HitDepsWitnessed
<1> QED BY <1>1, <1>3, <1>4 DEF HitDepsWitnessed, Loading, Witnessed

LEMMA InitW == Init => WitnessInv
<1> SUFFICES ASSUME Init PROVE WitnessInv
  OBVIOUS
<1>1. WindowOpen
  BY DEF Init, WindowOpen, Live
<1> QED BY <1>1, InitT DEF Init, WitnessInv, HitDepsWitnessed, Loading

LEMMA NextW == WitnessInv /\ [Next]_vars => WitnessInv'
<1> SUFFICES ASSUME WitnessInv, [Next]_vars PROVE WitnessInv'
  OBVIOUS
<1>0. TInv'
  BY NextT DEF WitnessInv
<1>1. CASE UNCHANGED vars
  BY <1>0, <1>1 DEF vars, WitnessInv, WindowOpen, Live, Ended, HitDepsWitnessed,
                    Loading, Witnessed
<1> QED BY <1>0, <1>1, StepW, StartW, EditW DEF Next, Start, Finished

\* A hit is served only if every recorded dependency held its recorded content
\* at some moment of the job: under any interleaving, with crashes, disk faults,
\* any number of writers and edits at any moment.
THEOREM HitsAreWitnessed == Spec => []HitDepsWitnessed
<1>1. WitnessInv => HitDepsWitnessed
  BY DEF WitnessInv
<1> QED BY <1>1, InitW, NextW, PTL DEF Spec

-----------------------------------------------------------------------------
\* One writer per entry.
LEMMA StepExclusive ==
    ASSUME TypeOK, Exclusive, NEW j \in Jobs, Step(j) \/ Crash(j)
    PROVE  Exclusive'
BY StepLocal DEF Exclusive, Live, Ended

LEMMA StartExclusive ==
    ASSUME TypeOK, Exclusive, NEW j \in Jobs, NEW idx, StartWith(j, idx),
           \A i \in Jobs : Live(i) => Key(i) # Key(j)
    PROVE  Exclusive'
BY DEF TypeOK, StartWith, Exclusive, Live, Ended

\* A step writes to the temporary file of its own key or to a new file.
LEMMA DataLocal ==
    ASSUME PublishInv, NEW j \in Jobs, Step(j) \/ Crash(j),
           NEW i \in Inodes, data'[i] # data[i]
    PROVE  /\ i = temp'[Key(j)]
           /\ \/ i = temp[Key(j)]
              \/ \A k \in Keys : i # slot[k] /\ i # temp[k]
<1> USE TaskType DEF PublishInv, TInv, TempKey
<1>1. CASE Stat(j) \/ Hash(j) \/ NextDep(j) \/ ReadEntry(j) \/ Validate(j) \/ Parse(j)
  BY <1>1 DEF Stat, Hash, NextDep, ReadEntry, Validate, Parse
<1>2. CASE Purge(j) \/ Rename(j)
  BY <1>2 DEF Purge, Rename
<1>3. CASE Create(j)
  <2>1. PICK n \in Inodes :
          /\ IF temp[Key(j)] = NoInode THEN ~Linked(n) ELSE n = temp[Key(j)]
          /\ temp' = [temp EXCEPT ![Key(j)] = n]
          /\ data' = [data EXCEPT ![n] = Empty]
    BY <1>3 DEF Create
  <2>2. i = n /\ temp'[Key(j)] = n
    BY <2>1 DEF TypeOK
  <2> QED BY <2>1, <2>2 DEF Linked
<1>4. CASE Write(j)
  <2>1. i = fd[j] /\ temp' = temp
    BY <1>4 DEF Write, TypeOK
  <2> QED BY <1>4, <2>1 DEF Write, WriterAlone
<1>5. CASE StoreFails(j) \/ Crash(j)
  <2>1. pc[j] = "write" /\ i = fd[j] /\ temp' = temp
    BY <1>5 DEF StoreFails, Crash, LeaveTemp, TypeOK
  <2> QED BY <2>1 DEF WriterAlone
<1> QED BY <1>1, <1>2, <1>3, <1>4, <1>5 DEF Step

\* So no entry changes under its name, nor the temporary file of another key.
LEMMA DataKept ==
    ASSUME PublishInv, NEW j \in Jobs, Step(j) \/ Crash(j), NEW k \in Keys
    PROVE  /\ slot[k] # NoInode => data'[slot[k]] = data[slot[k]]
           /\ temp[k] # NoInode /\ k # Key(j) => data'[temp[k]] = data[temp[k]]
<1> USE TaskType DEF PublishInv, TInv, TypeOK, TempsApart
<1>1. ASSUME slot[k] # NoInode PROVE data'[slot[k]] = data[slot[k]]
  <2>1. slot[k] \in Inodes
    BY <1>1
  <2>2. ASSUME data'[slot[k]] # data[slot[k]] PROVE FALSE
    <3>1. \/ slot[k] = temp[Key(j)]
          \/ \A l \in Keys : slot[k] # slot[l] /\ slot[k] # temp[l]
      BY <2>1, <2>2, DataLocal
    <3> QED BY <1>1, <3>1
  <2> QED BY <2>2
<1>2. ASSUME temp[k] # NoInode, k # Key(j) PROVE data'[temp[k]] = data[temp[k]]
  <2>1. temp[k] \in Inodes
    BY <1>2
  <2> QED BY <1>2, <2>1, DataLocal, ZenonT(60)
<1> QED BY <1>1, <1>2

\* How the names of the job's own key change.
LEMMA NamesChange ==
    ASSUME TypeOK, NEW j \in Jobs, Step(j) \/ Crash(j)
    PROVE  \/ slot' = slot /\ temp' = temp
           \/ Purge(j) /\ slot' = [slot EXCEPT ![Key(j)] = NoInode] /\ temp' = temp
           \/ /\ Create(j) /\ slot' = slot
              /\ \E n \in Inodes :
                   /\ n = temp[Key(j)] \/ \A k \in Keys : n # slot[k] /\ n # temp[k]
                   /\ temp' = [temp EXCEPT ![Key(j)] = n]
                   /\ data' = [data EXCEPT ![n] = Empty]
                   /\ fd' = [fd EXCEPT ![j] = n]
           \/ /\ pc[j] = "rename" /\ data' = data /\ temp[Key(j)] # NoInode
              /\ slot' = [slot EXCEPT ![Key(j)] = temp[Key(j)]]
              /\ temp' = [temp EXCEPT ![Key(j)] = NoInode]
<1> USE DEF TempKey
<1>1. CASE Stat(j) \/ Hash(j) \/ NextDep(j) \/ ReadEntry(j) \/ Validate(j) \/ Parse(j)
  BY <1>1 DEF Stat, Hash, NextDep, ReadEntry, Validate, Parse
<1>2. CASE Purge(j) \/ Write(j)
  BY <1>2 DEF Purge, Write
<1>3. CASE Create(j)
  BY <1>3 DEF Create, Linked
<1>4. CASE Rename(j)
  BY <1>4 DEF Rename
<1>5. CASE StoreFails(j) \/ Crash(j)
  BY <1>5 DEF StoreFails, Crash
<1> QED BY <1>1, <1>2, <1>3, <1>4, <1>5 DEF Step

LEMMA StepP ==
    ASSUME PublishInv, TInv', NEW j \in Jobs, Step(j) \/ Crash(j)
    PROVE  PublishInv'
<1> USE TaskType DEF PublishInv, TInv
<1>1. Exclusive'
  BY StepExclusive
<1>2. TempsApart'
  <2> SUFFICES ASSUME NEW k \in Keys, NEW l \in Keys, temp'[k] # NoInode
               PROVE  temp'[k] # slot'[l] /\ (temp'[k] = temp'[l] => k = l)
    BY DEF TempsApart
  <2>1. CASE slot' = slot /\ temp' = temp
    BY <2>1 DEF TempsApart
  <2>2. CASE slot' = [slot EXCEPT ![Key(j)] = NoInode] /\ temp' = temp
    BY <2>2 DEF TempsApart, TypeOK
  <2>3. ASSUME slot' = slot, NEW n \in Inodes, temp' = [temp EXCEPT ![Key(j)] = n],
               n = temp[Key(j)] \/ \A m \in Keys : n # slot[m] /\ n # temp[m]
        PROVE  temp'[k] # slot'[l] /\ (temp'[k] = temp'[l] => k = l)
    <3>1. n # NoInode
      BY SentinelAssumption
    <3> HIDE DEF Key
    <3> QED BY <2>3, <3>1 DEF TempsApart, TypeOK
  <2>4. CASE /\ temp[Key(j)] # NoInode
             /\ slot' = [slot EXCEPT ![Key(j)] = temp[Key(j)]]
             /\ temp' = [temp EXCEPT ![Key(j)] = NoInode]
    <3> HIDE DEF Key
    <3> QED BY <2>4 DEF TempsApart, TypeOK
  <2> QED BY <2>1, <2>2, <2>3, <2>4, NamesChange
<1>3. ASSUME NEW k \in Keys, slot'[k] # NoInode PROVE data'[slot'[k]] \in Entry
  <2>1. CASE slot'[k] = slot[k]
    BY <1>3, <2>1, DataKept
  <2>2. CASE slot'[k] # slot[k]
    <3>1. /\ pc[j] = "rename" /\ data' = data /\ temp[Key(j)] # NoInode
          /\ k = Key(j) /\ slot'[k] = temp[Key(j)]
      <4>1. k = Key(j)
        BY <2>2, NamesLocal
      <4>2. slot' # slot /\ slot' # [slot EXCEPT ![Key(j)] = NoInode]
        BY <1>3, <2>2, <4>1 DEF TypeOK
      <4>3. /\ pc[j] = "rename" /\ data' = data /\ temp[Key(j)] # NoInode
            /\ slot' = [slot EXCEPT ![Key(j)] = temp[Key(j)]]
        BY <4>2, NamesChange
      <4> HIDE DEF Key
      <4> QED BY <4>1, <4>3 DEF TypeOK
    <3>2. data[temp[Key(j)]] = Payload(j)
      BY <3>1 DEF WriterAlone
    <3> QED BY <3>1, <3>2, PayloadType
  <2> QED BY <2>1, <2>2
<1>4. ASSUME NEW i \in Jobs \ {j} PROVE WriterAlone(i)'
  <2>1. /\ pc'[i] = pc[i] /\ fd'[i] = fd[i] /\ stamp'[i] = stamp[i]
        /\ deps'[i] = deps[i] /\ facts'[i] = facts[i] /\ WriterAlone(i)
    BY StepLocal
  <2>2. ASSUME pc[i] \in {"write", "rename"}
        PROVE  temp'[Key(i)] = temp[Key(i)] /\ data'[temp[Key(i)]] = data[temp[Key(i)]]
    <3>1. Key(i) # Key(j)
      BY <2>2, StepLocal DEF Exclusive, Live, Ended
    <3>2. temp[Key(i)] # NoInode
      BY <2>2, <2>1, SentinelAssumption DEF WriterAlone, Shape
    <3> QED BY <3>1, <3>2, NamesLocal, DataKept, ZenonT(60)
  <2> QED BY <2>1, <2>2 DEF WriterAlone, Payload
<1>5. WriterAlone(j)'
  <2>1. ASSUME pc'[j] = "write" PROVE fd'[j] = temp'[Key(j)] /\ data'[fd'[j]] = Empty
    <3>1. Create(j)
      BY <2>1, StepGoto
    <3> QED BY <3>1 DEF Create, TypeOK, TempKey
  <2>2. ASSUME pc'[j] = "rename"
        PROVE  temp'[Key(j)] # NoInode /\ data'[temp'[Key(j)]] = Payload(j)'
    <3>1. Write(j)
      BY <2>2, StepGoto
    <3>2. /\ fd[j] = temp[Key(j)] /\ data[fd[j]] = Empty /\ fd[j] \in Inodes
          /\ fd[j] # NoInode
      BY <3>1, SentinelAssumption DEF Write, WriterAlone, Shape
    <3>3. data' = [data EXCEPT ![fd[j]] = Payload(j)] /\ temp' = temp
      BY <3>1, <3>2 DEF Write
    <3>4. Payload(j)' = Payload(j)
      BY <3>1 DEF Write, Payload
    <3> QED BY <3>2, <3>3, <3>4 DEF TypeOK
  <2> QED BY <2>1, <2>2 DEF WriterAlone
<1> QED BY <1>1, <1>2, <1>3, <1>4, <1>5

LEMMA StartP ==
    ASSUME PublishInv, TInv', NEW j \in Jobs, NEW idx, StartWith(j, idx),
           \A i \in Jobs : Live(i) => Key(i) # Key(j)
    PROVE  PublishInv'
<1> USE DEF PublishInv, TInv
<1>1. Exclusive'
  BY StartExclusive
<1>2. /\ UNCHANGED <<slot, temp, data, fd, stamp, deps, facts>>
      /\ pc'[j] \in {"read", "parse"} /\ \A i \in Jobs \ {j} : pc'[i] = pc[i]
  BY DEF StartWith, Entrance, TypeOK
<1> QED BY <1>1, <1>2 DEF TempsApart, WriterAlone, Payload

LEMMA EditP ==
    ASSUME PublishInv, TInv', NEW r \in Roots, NEW q \in Paths, Edit(r, q)
    PROVE  PublishInv'
BY EditSeen DEF PublishInv, Exclusive, Live, Ended, TempsApart, WriterAlone, Payload

LEMMA InitP == Init => PublishInv
BY InitT DEF Init, PublishInv, Exclusive, Live, TempsApart, WriterAlone

LEMMA StutterP == PublishInv /\ UNCHANGED vars => PublishInv'
BY NextT DEF vars, PublishInv, Exclusive, Live, Ended, TempsApart, WriterAlone, Payload

LEMMA NextP == OneWriterPerEntry /\ PublishInv /\ [Next]_vars => PublishInv'
<1> SUFFICES ASSUME OneWriterPerEntry, PublishInv, [Next]_vars PROVE PublishInv'
  OBVIOUS
<1>0. TInv'
  BY NextT DEF PublishInv
<1>1. CASE UNCHANGED vars
  BY <1>1, StutterP
<1>2. ASSUME NEW j \in Jobs, Start(j) PROVE PublishInv'
  BY <1>0, <1>2, StartP DEF Start, StartWith
<1> QED BY <1>0, <1>1, <1>2, StepP, EditP DEF Next, Finished

\* Whatever crashed, and whichever write failed, a reader finds a whole entry
\* under <key>.json, as long as an entry has one writer at a time.
THEOREM EntriesAreWhole == ASSUME OneWriterPerEntry PROVE Spec => []PublishedComplete
<1>1. PublishInv => PublishedComplete
  BY SentinelAssumption DEF PublishInv, PublishedComplete
<1> QED BY <1>1, InitP, NextP, PTL DEF Spec

-----------------------------------------------------------------------------
\* What makes a job fail, and what brings it to fingerprint a file.
LEMMA FailGoto ==
    ASSUME TypeOK, NEW j \in Jobs, Step(j) \/ Crash(j), pc'[j] = "failed"
    PROVE  \/ pc[j] \in {"stat", "hash"} /\ ~IsFile(j, at[j])
           \/ ~IsFile(j, Task[j].path)
           \/ pc[j] = "rename" /\ temp[Key(j)] = NoInode
           \/ DiskFaults
<1> USE DEF TypeOK
<1>1. CASE Stat(j)
  BY <1>1 DEF Stat, Record, Miss
<1>2. CASE Hash(j)
  BY <1>2 DEF Hash, Record, Miss
<1>3. CASE NextDep(j)
  BY <1>3 DEF NextDep
<1>4. CASE ReadEntry(j) \/ Purge(j)
  BY <1>4 DEF ReadEntry, Purge
<1>5. CASE Validate(j)
  BY <1>5 DEF Validate, Miss
<1>6. CASE Parse(j)
  BY <1>6 DEF Parse
<1>7. CASE Create(j) \/ Write(j)
  BY <1>7 DEF Create, Write
<1>8. CASE Rename(j)
  BY <1>8 DEF Rename, TempKey
<1>9. CASE StoreFails(j) \/ Crash(j)
  BY <1>9 DEF StoreFails, Crash
<1> QED BY <1>1, <1>2, <1>3, <1>4, <1>5, <1>6, <1>7, <1>8, <1>9 DEF Step

LEMMA SnapshotGoto ==
    ASSUME TypeOK, NEW j \in Jobs, Step(j) \/ Crash(j), pc'[j] \in {"stat", "hash"}
    PROVE  \/ pc[j] \in {"stat", "hash"} /\ at'[j] = at[j]
           \/ at'[j] = Task[j].path
           \/ at'[j] \in todo[j] /\ IsFile(j, at'[j])
<1> USE DEF TypeOK
<1>1. CASE Stat(j)
  BY <1>1 DEF Stat, Record, Fail, Miss
<1>2. CASE Hash(j)
  BY <1>2 DEF Hash, Record, Fail, Miss
<1>3. CASE NextDep(j)
  BY <1>3 DEF NextDep
<1>4. CASE ReadEntry(j) \/ Purge(j)
  BY <1>4 DEF ReadEntry, Purge
<1>5. CASE Validate(j)
  BY <1>5 DEF Validate, Miss
<1>6. CASE Parse(j)
  BY <1>6 DEF Parse, Fail
<1>7. CASE Create(j) \/ Write(j)
  BY <1>7 DEF Create, Write
<1>8. CASE Rename(j)
  BY <1>8 DEF Rename, Fail
<1>9. CASE StoreFails(j) \/ Crash(j)
  BY <1>9 DEF StoreFails, Crash, Fail
<1> QED BY <1>1, <1>2, <1>3, <1>4, <1>5, <1>6, <1>7, <1>8, <1>9 DEF Step

LEMMA StepF ==
    ASSUME ~DiskFaults, FailInv, TInv', NEW j \in Jobs, Step(j) \/ Crash(j)
    PROVE  FailInv'
<1> USE TaskType DEF FailInv
<1>0. PublishInv' /\ WindowOpen'
  BY StepP, StepWindow DEF PublishInv, TInv
<1>1. /\ Live(j) /\ UNCHANGED seen /\ TypeOK /\ Shape(j) /\ WriterAlone(j)
      /\ \A i \in Jobs \ {j} : pc'[i] = pc[i] /\ at'[i] = at[i]
  BY StepLocal DEF PublishInv, TInv
<1>2. ASSUME NEW p \in Paths PROVE Now(j, p).content \in seen[j][p]
  BY <1>1 DEF WindowOpen
<1>3. ASSUME pc'[j] = "failed"
      PROVE  \E p \in Paths : /\ Absent \in seen[j][p]
                              /\ p = Task[j].path \/ seen[j][p] # {Absent}
  <2>1. CASE pc[j] \in {"stat", "hash"} /\ ~IsFile(j, at[j])
    <3>1. at[j] \in Paths
      BY <1>1, <2>1 DEF Shape
    <3>2. Absent \in seen[j][at[j]]
      BY <1>2, <2>1, <3>1
    <3>3. at[j] = Task[j].path \/ seen[j][at[j]] # {Absent}
      BY <2>1
    <3> QED BY <3>1, <3>2, <3>3
  <2>2. CASE ~IsFile(j, Task[j].path)
    <3>1. Task[j].path \in Paths
      BY TaskType
    <3>2. Absent \in seen[j][Task[j].path]
      BY <1>2, <2>2, <3>1
    <3> QED BY <3>1, <3>2
  <2>3. ~(pc[j] = "rename" /\ temp[Key(j)] = NoInode)
    BY <1>1 DEF WriterAlone
  <2> QED BY <1>1, <1>3, <2>1, <2>2, <2>3, FailGoto
<1>4. ASSUME pc'[j] \in {"stat", "hash"}
      PROVE  at'[j] = Task[j].path \/ seen[j][at'[j]] \ {Absent} # {}
  <2>1. CASE pc[j] \in {"stat", "hash"} /\ at'[j] = at[j]
    BY <2>1
  <2>2. CASE at'[j] \in todo[j] /\ IsFile(j, at'[j])
    <3>1. at'[j] \in Paths
      BY <1>1, <2>2 DEF TypeOK
    <3>2. Now(j, at'[j]).content \in seen[j][at'[j]] \ {Absent}
      BY <1>2, <2>2, <3>1
    <3> QED BY <3>2
  <2> QED BY <1>1, <1>4, <2>1, <2>2, SnapshotGoto
<1> QED BY <1>0, <1>1, <1>3, <1>4 DEF FailsOnlyIfFileVanished

LEMMA StartF ==
    ASSUME FailInv, TInv', NEW j \in Jobs, NEW idx, StartWith(j, idx),
           \A i \in Jobs : Live(i) => Key(i) # Key(j)
    PROVE  FailInv'
<1> USE DEF FailInv
<1>0. PublishInv' /\ WindowOpen'
  BY StartP, StartWindow DEF PublishInv, TInv
<1>1. /\ pc'[j] \in {"read", "parse"} /\ UNCHANGED at
      /\ \A i \in Jobs \ {j} : pc'[i] = pc[i] /\ seen'[i] = seen[i]
  BY DEF StartWith, Entrance, PublishInv, TInv, TypeOK
<1> QED BY <1>0, <1>1 DEF FailsOnlyIfFileVanished

LEMMA EditF ==
    ASSUME FailInv, TInv', NEW r \in Roots, NEW q \in Paths, Edit(r, q)
    PROVE  FailInv'
<1> USE DEF FailInv
<1>0. TInv /\ PublishInv'
  BY EditP DEF PublishInv
<1>1. /\ WindowOpen' /\ UNCHANGED <<pc, at>>
      /\ \A j \in Jobs : \A p \in Paths : seen[j][p] \subseteq seen'[j][p]
  BY <1>0, EditSeen
<1>2. FailsOnlyIfFileVanished'
  <2> SUFFICES ASSUME NEW j \in Jobs, pc[j] = "failed"
               PROVE  \E p \in Paths : /\ Absent \in seen'[j][p]
                                       /\ p = Task[j].path \/ seen'[j][p] # {Absent}
    BY <1>1 DEF FailsOnlyIfFileVanished
  <2>1. PICK p \in Paths : /\ Absent \in seen[j][p]
                           /\ p = Task[j].path \/ seen[j][p] # {Absent}
    BY DEF FailsOnlyIfFileVanished
  <2>2. seen[j][p] \subseteq seen'[j][p]
    BY <1>1
  <2>3. seen[j][p] # {Absent} => seen'[j][p] # {Absent}
    BY <2>1, <2>2
  <2> QED BY <2>1, <2>2, <2>3
<1>3. ASSUME NEW j \in Jobs, pc[j] \in {"stat", "hash"}
      PROVE  at[j] = Task[j].path \/ seen'[j][at[j]] \ {Absent} # {}
  <2>1. at[j] \in Paths
    BY <1>0, <1>3 DEF TInv, Shape
  <2> QED BY <1>1, <1>3, <2>1
<1> QED BY <1>0, <1>1, <1>2, <1>3

LEMMA InitF == Init => FailInv
BY InitP, InitW DEF Init, FailInv, WitnessInv, FailsOnlyIfFileVanished

LEMMA StutterF == FailInv /\ UNCHANGED vars => FailInv'
BY StutterP DEF vars, FailInv, WindowOpen, Live, Ended, FailsOnlyIfFileVanished

LEMMA NextF == ~DiskFaults /\ OneWriterPerEntry /\ FailInv /\ [Next]_vars => FailInv'
<1> SUFFICES ASSUME ~DiskFaults, OneWriterPerEntry, FailInv, [Next]_vars PROVE FailInv'
  OBVIOUS
<1>0. TInv' /\ PublishInv'
  BY NextT, NextP DEF FailInv, PublishInv
<1>1. CASE UNCHANGED vars
  BY <1>1, StutterF
<1>2. ASSUME NEW j \in Jobs, Start(j) PROVE FailInv'
  BY <1>0, <1>2, StartF DEF Start, StartWith
<1> QED BY <1>0, <1>1, <1>2, StepF, EditF DEF Next, Finished

\* With one writer per entry and a disk that works, a job fails only because a
\* source file vanished while it ran: no rename finds its file gone.
THEOREM OnlyVanishedFilesFail ==
    ASSUME OneWriterPerEntry, ~DiskFaults PROVE Spec => []FailsOnlyIfFileVanished
<1>1. FailInv => FailsOnlyIfFileVanished
  BY DEF FailInv
<1> QED BY <1>1, InitF, NextF, PTL DEF Spec

-----------------------------------------------------------------------------
\* Stat and Hash record the fingerprint of the file as it is, if it did not
\* change since the metadata were read.
LEMMA Fingerprinting ==
    ASSUME TInv, NEW j \in Jobs, Stat(j) \/ Hash(j), IsFile(j, at[j]),
           pc[j] = "hash" => part[j] = Metadata(j, at[j])
    PROVE  /\ pc[j] \in {"stat", "hash"} /\ at[j] \in Paths
           /\ UNCHANGED <<facts, fd>>
           /\ \/ /\ part' = [part EXCEPT ![j] = Metadata(j, at[j])]
                 /\ pc' = [pc EXCEPT ![j] = "hash"]
                 /\ UNCHANGED <<entry, at, stamp, todo, deps>>
              \/ Record(j, Fingerprint(j, at[j]))
BY DEF TInv, Shape, Stat, Hash, Fingerprint

LEMMA FingerprintType ==
    ASSUME TInv, NEW j \in Jobs, NEW p \in Paths, IsFile(j, p)
    PROVE  Fingerprint(j, p) \in Stamp /\ Fingerprint(j, p).path = p
<1>1. Metadata(j, p) \in Stamp /\ Metadata(j, p).path = p
  BY MetadataType DEF TInv
<1>2. Now(j, p).content \in Contents
  BY DiskType DEF TInv, Versions
<1> QED BY <1>1, <1>2 DEF Fingerprint, Hashed, Stamp

\* What a recorded fingerprint says of a file that did not change.
LEMMA UpToDateKept ==
    ASSUME NEW j \in Jobs, NEW s, UpToDate(j, s), index'[j] = index[j],
           \A p \in Related(j, index[j]) : Now(j, p)' = Now(j, p)
    PROVE  UpToDate(j, s)'
BY DEF UpToDate, Fingerprint, Metadata, Related

LEMMA EntryKept ==
    ASSUME NEW j \in Jobs, NEW e, EntryCurrent(j, e), index'[j] = index[j],
           \A p \in Related(j, index[j]) : Now(j, p)' = Now(j, p)
    PROVE  EntryCurrent(j, e)'
BY UpToDateKept DEF EntryCurrent

\* Nothing job i relies on changed.
LEMMA QuietFrame ==
    ASSUME NEW i \in Jobs, QuietSound(i), TInv, index'[i] = index[i], quiet'[i] => quiet[i],
           pc'[i] = pc[i], entry'[i] = entry[i], at'[i] = at[i], part'[i] = part[i],
           stamp'[i] = stamp[i], todo'[i] = todo[i], deps'[i] = deps[i],
           facts'[i] = facts[i],
           quiet'[i] /\ pc[i] # "idle" =>
             \A p \in Related(i, index[i]) : Now(i, p)' = Now(i, p),
           Stored(i) /\ quiet'[i] => /\ slot'[Key(i)] = slot[Key(i)]
                                    /\ data'[slot[Key(i)]] = data[slot[Key(i)]]
    PROVE  QuietSound(i)'
<1> SUFFICES ASSUME quiet'[i], pc[i] # "idle" PROVE QuietSound(i)'
  BY DEF QuietSound, Stored, Storing
<1>0. quiet[i] /\ \A p \in Related(i, index[i]) : Now(i, p)' = Now(i, p)
  OBVIOUS
<1>1. Now(i, Task[i].path)'.content = index[i][Task[i].path]
  BY <1>0 DEF QuietSound, Related
<1>2. ASSUME Storing(i)
      PROVE  /\ \A s \in deps[i] : UpToDate(i, s)'
             /\ pc[i] = "hash" => part[i] = Metadata(i, at[i])'
  <2>1. \A s \in deps[i] : UpToDate(i, s)
    BY <1>0, <1>2 DEF QuietSound
  <2>2. \A s \in deps[i] : UpToDate(i, s)'
    BY <1>0, <2>1, UpToDateKept
  <2>3. pc[i] = "hash" => part[i] = Metadata(i, at[i]) /\ at[i] \in Related(i, index[i])
    BY <1>0, <1>2 DEF QuietSound
  <2>4. pc[i] = "hash" => part[i] = Metadata(i, at[i])'
    BY <1>0, <2>3 DEF Metadata
  <2> QED BY <2>2, <2>4
<1>3. ASSUME Storing(i), stamp[i] # NoStamp PROVE UpToDate(i, stamp[i])'
  <2>1. PICK s : s = stamp[i]
    OBVIOUS
  <2>2. UpToDate(i, s)'
    BY <1>0, <1>3, <2>1, UpToDateKept DEF QuietSound
  <2> QED BY <2>1, <2>2
<1>4. ASSUME Stored(i) PROVE slot'[Key(i)] # NoInode /\ EntryCurrent(i, data[slot[Key(i)]])'
  <2>1. PICK e : e = data[slot[Key(i)]]
    OBVIOUS
  <2>2. EntryCurrent(i, e)' /\ slot[Key(i)] # NoInode
    BY <1>0, <1>4, <2>1, EntryKept DEF QuietSound
  <2> QED BY <1>4, <2>1, <2>2
<1> QED BY <1>0, <1>1, <1>2, <1>3, <1>4 DEF QuietSound, Stored, Storing, Loading, Related

LEMMA WarmFrame ==
    ASSUME NEW i \in Jobs, WarmSound(i), TInv, index'[i] = index[i], warm'[i] => warm[i],
           pc'[i] = pc[i], entry'[i] = entry[i], at'[i] = at[i], part'[i] = part[i],
           stamp'[i] = stamp[i], todo'[i] = todo[i], deps'[i] = deps[i],
           warm'[i] /\ pc[i] # "idle" =>
             \A p \in Related(i, index[i]) : Now(i, p)' = Now(i, p),
           pc[i] = "read" => /\ slot'[Key(i)] = slot[Key(i)]
                             /\ slot[Key(i)] # NoInode =>
                                  data'[slot[Key(i)]] = data[slot[Key(i)]]
    PROVE  WarmSound(i)'
<1> SUFFICES ASSUME warm'[i] PROVE WarmSound(i)'
  BY DEF WarmSound
<1>0. /\ warm[i] /\ pc[i] \notin {"idle", "miss"} /\ TypeOK /\ Shape(i)
      /\ \A p \in Related(i, index[i]) : Now(i, p)' = Now(i, p)
  BY DEF WarmSound, TInv
<1>1. ASSUME pc[i] = "read"
      PROVE  slot'[Key(i)] # NoInode /\ EntryCurrent(i, data[slot[Key(i)]])'
  <2>1. PICK e : e = data[slot[Key(i)]]
    OBVIOUS
  <2>2. slot[Key(i)] # NoInode /\ EntryCurrent(i, e)
    BY <1>0, <1>1, <2>1 DEF WarmSound, Live, Ended
  <2>3. EntryCurrent(i, e)'
    BY <1>0, <2>2, EntryKept
  <2> QED BY <1>1, <2>1, <2>2, <2>3
<1>2. ASSUME Live(i), pc[i] # "read" PROVE Loading(i) /\ EntryCurrent(i, entry[i])'
  <2>1. PICK e : e = entry[i]
    OBVIOUS
  <2>2. Loading(i) /\ EntryCurrent(i, e)
    BY <1>0, <1>2, <2>1 DEF WarmSound
  <2>3. EntryCurrent(i, e)'
    BY <1>0, <2>2, EntryKept
  <2> QED BY <2>1, <2>2, <2>3
<1>3. ASSUME Live(i), pc[i] = "hash" PROVE part[i] = Metadata(i, at[i])'
  <2>1. /\ part[i] = Metadata(i, at[i]) /\ EntryCurrent(i, entry[i])
        /\ stamp[i] # NoStamp => at[i] \in CachedDependencyPaths(entry[i])
    BY <1>0, <1>3 DEF WarmSound
  <2>2. at[i] \in Related(i, index[i])
    <3>1. CASE stamp[i] = NoStamp
      BY <1>0, <1>3, <3>1 DEF Shape, Related
    <3>2. CASE stamp[i] # NoStamp
      BY <2>1, <3>2 DEF CachedDependencyPaths, EntryCurrent, UpToDate
    <3> QED BY <3>1, <3>2
  <2> QED BY <1>0, <2>1, <2>2 DEF Metadata
<1> QED BY <1>0, <1>1, <1>2, <1>3 DEF WarmSound, Loading, Live, Ended,
                                      CachedDependencyPaths

\* A warm job at work does nothing to the entry it reads.
LEMMA WarmReads ==
    ASSUME TInv, ~DiskFaults, NEW j \in Jobs, WarmSound(j), warm[j], Step(j) \/ Crash(j)
    PROVE  /\ slot' = slot /\ temp' = temp
           /\ pc'[j] # "miss"
<1> USE DEF TInv
<1>1. pc[j] = "read" \/ (pc[j] \in {"stat", "hash", "next"} /\ Loading(j))
  BY StepLocal DEF WarmSound, Shape, Live, Ended
<1> QED BY <1>1, NamesChange, StepGoto DEF Purge, Create, Parse, Rename, Shape

LEMMA StepTidy ==
    ASSUME TInv, NEW j \in Jobs, Tidy(j), Step(j) \/ Crash(j) PROVE Tidy(j)'
<1>0. TypeOK /\ pc[j] # "idle" /\ UNCHANGED index
  BY StepLocal DEF Live, TInv
<1> USE <1>0 DEF TInv, TypeOK, Tidy
<1>1. CASE Stat(j)
  <2>1. IsFile(j, at[j]) => Metadata(j, at[j]) # NoStamp
    BY <1>1, MetadataType, SentinelAssumption DEF Stat, Shape
  <2> QED BY <1>1, <2>1 DEF Stat, Record, Fail, Miss, DropWork
<1>2. CASE Hash(j)
  <2>1. IsFile(j, at[j]) => Hashed(part[j], Now(j, at[j]).content) # NoStamp
    BY <1>2, DiskType, SentinelAssumption DEF Hash, Shape, Hashed, Stamp, Versions
  <2> QED BY <1>2, <2>1 DEF Hash, Record, Fail, Miss, DropWork
<1>3. CASE NextDep(j)
  BY <1>3 DEF NextDep, Shape
<1>4. CASE ReadEntry(j) \/ Purge(j)
  BY <1>4 DEF ReadEntry, Purge
<1>5. CASE Validate(j)
  BY <1>5 DEF Validate, Miss, DropWork
<1>6. CASE Parse(j)
  BY <1>6 DEF Parse, Fail, DropWork
<1>7. CASE Create(j) \/ Write(j)
  BY <1>7 DEF Create, Write
<1>8. CASE Rename(j)
  BY <1>8 DEF Rename, Fail, DropWork
<1>9. CASE StoreFails(j) \/ Crash(j)
  BY <1>9 DEF StoreFails, Crash, Fail, DropWork
<1> QED BY <1>1, <1>2, <1>3, <1>4, <1>5, <1>6, <1>7, <1>8, <1>9 DEF Step

\* What a quiet job at work has computed.
Computed(j) ==
    Storing(j) =>
        /\ facts[j].content = index[j][Task[j].path]
        /\ todo[j] \cup {at[j]} \subseteq Related(j, index[j])
        /\ \A s \in deps[j] : UpToDate(j, s)
        /\ stamp[j] # NoStamp => UpToDate(j, stamp[j])
        /\ pc[j] = "hash" => part[j] = Metadata(j, at[j])

LEMMA RecordQ ==
    ASSUME TInv, TInv', NEW j \in Jobs, quiet[j], QuietSound(j), IsFile(j, at[j]),
           pc[j] \in {"stat", "hash"}, at[j] \in Paths,
           Record(j, Fingerprint(j, at[j])), UNCHANGED <<disk, index, facts>>
    PROVE  Computed(j)'
<1> DEFINE s == Fingerprint(j, at[j])
<1> SUFFICES ASSUME Storing(j)' PROVE Computed(j)'
  BY DEF Computed
<1>1. Storing(j)
  BY DEF Record, Storing, Loading, Miss, TInv, TypeOK
<1>2. /\ Computed(j) /\ s \in Stamp /\ s.path = at[j]
      /\ at[j] \in Related(j, index[j])
  BY <1>1, FingerprintType DEF QuietSound, Computed
<1>3. UpToDate(j, s)
  BY <1>2 DEF UpToDate
<1> HIDE DEF s
<1>4. Record(j, s)
  BY DEF s
<1>5. ASSUME NEW d, UpToDate(j, d) PROVE UpToDate(j, d)'
  BY <1>5 DEF UpToDate, Fingerprint, Metadata, Related
<1>6. CASE stamp[j] = NoStamp
  <2>1. /\ stamp'[j] = s /\ todo'[j] = DependencyPaths(j) /\ pc'[j] = "next"
        /\ at'[j] = at[j] /\ deps'[j] = deps[j]
    BY <1>1, <1>4, <1>6 DEF Record, Storing, TInv, TypeOK
  <2>2. DependencyPaths(j) \subseteq Related(j, index[j])
    BY <1>1, <1>2 DEF DependencyPaths, Related, Computed
  <2>3. UpToDate(j, stamp[j])'
    BY <1>3, <1>5, <2>1
  <2> QED BY <1>1, <1>2, <1>5, <2>1, <2>2, <2>3 DEF Computed, Related
<1>7. CASE stamp[j] # NoStamp
  <2>1. /\ stamp'[j] = stamp[j] /\ todo'[j] = todo[j] /\ pc'[j] = "next"
        /\ at'[j] = at[j] /\ deps'[j] = deps[j] \cup {s}
    BY <1>4, <1>7 DEF Record, TInv, TypeOK
  <2>2. UpToDate(j, stamp[j])'
    <3>1. PICK d : d = stamp[j]
      OBVIOUS
    <3>2. UpToDate(j, d)'
      BY <1>1, <1>2, <1>5, <1>7, <3>1 DEF Computed
    <3> QED BY <2>1, <3>1, <3>2
  <2> QED BY <1>1, <1>2, <1>3, <1>5, <2>1, <2>2 DEF Computed, Related
<1> QED BY <1>6, <1>7

LEMMA StepQ ==
    ASSUME TInv, TInv', ~DiskFaults, NEW j \in Jobs, quiet[j], QuietSound(j), Tidy(j),
           Step(j) \/ Crash(j)
    PROVE  Computed(j)'
<1> USE DEF TInv, TypeOK
<1>0. UNCHANGED <<disk, index>> /\ Live(j)
  BY StepLocal
<1>1. Storing(j) => Computed(j)
  BY DEF QuietSound, Computed
<1>2. ASSUME NEW d, UpToDate(j, d) PROVE UpToDate(j, d)'
  BY <1>0, <1>2 DEF UpToDate, Fingerprint, Metadata, Related
<1>3. CASE Stat(j) \/ Hash(j)
  <2>1. CASE ~IsFile(j, at[j])
    BY <1>3, <2>1 DEF Stat, Hash, Fail, Computed, Storing
  <2>2. CASE IsFile(j, at[j])
    <3>1. CASE Storing(j)
      <4>1. pc[j] = "hash" => part[j] = Metadata(j, at[j])
        BY <1>1, <3>1 DEF Computed
      <4>2. /\ pc[j] \in {"stat", "hash"} /\ at[j] \in Paths /\ UNCHANGED facts
        BY <1>3, <2>2, <4>1, Fingerprinting
      <4>3. CASE Record(j, Fingerprint(j, at[j]))
        BY <1>0, <2>2, <4>2, <4>3, RecordQ
      <4>4. CASE /\ part' = [part EXCEPT ![j] = Metadata(j, at[j])]
                 /\ pc' = [pc EXCEPT ![j] = "hash"]
                 /\ UNCHANGED <<entry, at, stamp, todo, deps>>
        <5>1. part'[j] = Metadata(j, at[j])'
          BY <1>0, <4>4 DEF Metadata
        <5>2. stamp[j] # NoStamp => UpToDate(j, stamp[j])'
          <6>1. PICK d : d = stamp[j]
            OBVIOUS
          <6> QED BY <1>1, <1>2, <3>1, <4>4, <6>1 DEF Computed
        <5> QED BY <1>0, <1>1, <1>2, <3>1, <4>2, <4>4, <5>1, <5>2 DEF Computed, Related
      <4> QED BY <1>3, <2>2, <4>1, <4>3, <4>4, Fingerprinting
    <3>2. CASE ~Storing(j)
      BY <1>3, <3>2 DEF Stat, Hash, Record, Fail, Miss, Computed, Storing, Loading
    <3> QED BY <3>1, <3>2
  <2> QED BY <2>1, <2>2
<1>4. CASE NextDep(j)
  <2>1. /\ Storing(j)' <=> Storing(j)
        /\ todo'[j] \cup {at'[j]} \subseteq todo[j] \cup {at[j]}
        /\ pc'[j] # "hash" /\ UNCHANGED <<facts, deps, stamp>>
    BY <1>4 DEF NextDep, Storing, Loading
  <2>2. Storing(j) /\ stamp[j] # NoStamp => UpToDate(j, stamp[j])'
    <3>1. PICK d : d = stamp[j]
      OBVIOUS
    <3> QED BY <1>1, <1>2, <2>1, <3>1 DEF Computed
  <2> QED BY <1>0, <1>1, <1>2, <2>1, <2>2 DEF Computed, Related
<1>5. CASE ReadEntry(j) \/ Purge(j) \/ Validate(j) \/ Rename(j) \/ Crash(j)
  <2>1. CASE ReadEntry(j)
    <3>1. slot[Key(j)] # NoInode => data[slot[Key(j)]] \in Entry \cup {Empty, Torn}
      BY TaskType, ZenonT(60)
    <3> HIDE DEF Key
    <3> QED BY <2>1, <3>1, SentinelAssumption
            DEF ReadEntry, Computed, Storing, Loading, Usable
  <2>2. CASE Purge(j) \/ Validate(j)
    BY <2>2 DEF Purge, Validate, Miss, Computed, Storing
  <2>3. CASE Rename(j) \/ Crash(j)
    BY <2>3 DEF Rename, Crash, Fail, Computed, Storing
  <2> QED BY <1>5, <2>1, <2>2, <2>3
<1>6. CASE Parse(j)
  <2> SUFFICES ASSUME Storing(j)' PROVE Computed(j)'
    BY DEF Computed
  <2>1. /\ facts'[j].content = Now(j, Task[j].path).content
        /\ at'[j] = Task[j].path /\ pc'[j] = "stat"
        /\ stamp'[j] = NoStamp /\ todo'[j] = {} /\ deps'[j] = {}
    BY <1>6 DEF Parse, Fail, Storing, Analysis, Shape, Tidy
  <2>2. Now(j, Task[j].path).content = index[j][Task[j].path]
    BY <1>0 DEF QuietSound, Live
  <2> QED BY <1>0, <2>1, <2>2 DEF Computed, Related
<1>7. CASE Create(j) \/ Write(j)
  <2>1. /\ Storing(j) /\ UNCHANGED work /\ UNCHANGED facts
        /\ pc'[j] \in {"write", "rename"}
    BY <1>7 DEF Create, Write, Storing, Shape, Loading
  <2>2. stamp[j] # NoStamp => UpToDate(j, stamp[j])'
    <3>1. PICK d : d = stamp[j]
      OBVIOUS
    <3> QED BY <1>1, <1>2, <2>1, <3>1 DEF Computed
  <2> QED BY <1>0, <1>1, <1>2, <2>1, <2>2 DEF Computed, Related
<1> QED BY <1>3, <1>4, <1>5, <1>6, <1>7 DEF Step, StoreFails

\* What a warm job validating entry e has found so far.
Left(j) == todo[j] \cup (IF pc[j] = "next" THEN {} ELSE {at[j]})
Matching(j, e) ==
    /\ entry[j] = e /\ e # NoEntry
    /\ pc[j] = "hash" => part[j] = Metadata(j, at[j])
    /\ stamp[j] # NoStamp => /\ deps[j] \subseteq e.deps
                             /\ Left(j) \subseteq CachedDependencyPaths(e)
                             /\ \A d \in e.deps \ deps[j] : d.path \in Left(j)

LEMMA RecordV ==
    ASSUME TInv, NEW j \in Jobs, NEW e, EntryCurrent(j, e), Matching(j, e), Tidy(j),
           pc[j] \in {"stat", "hash"}, Record(j, Fingerprint(j, at[j]))
    PROVE  Matching(j, e)' /\ pc'[j] = "next"
<1> DEFINE s == Fingerprint(j, at[j])
<1>0. at[j] \in Paths /\ (stamp[j] = NoStamp => at[j] = Task[j].path)
  BY DEF TInv, Shape
<1>1. CASE stamp[j] = NoStamp
  <2>1. s = e.file
    BY <1>0, <1>1 DEF EntryCurrent, UpToDate
  <2>2. e.file \in Stamp /\ e.file # NoStamp
    BY EntryFields, SentinelAssumption DEF EntryCurrent
  <2> HIDE DEF s
  <2>3. Record(j, s)
    BY DEF s
  <2>4. /\ stamp'[j] = s /\ todo'[j] = CachedDependencyPaths(e) /\ pc'[j] = "next"
        /\ entry'[j] = e /\ deps'[j] = {}
    BY <1>1, <2>1, <2>3 DEF Record, Loading, SameFile, Matching, Tidy, TInv, TypeOK
  <2> QED BY <2>4 DEF Matching, Left, CachedDependencyPaths
<1>2. CASE stamp[j] # NoStamp
  <2>1. PICK d \in e.deps : d.path = at[j]
    BY <1>2 DEF Matching, Left, CachedDependencyPaths
  <2>2. \A c \in e.deps : c.path = at[j] => c = s
    BY DEF EntryCurrent, UpToDate
  <2> HIDE DEF s
  <2>3. Record(j, s)
    BY DEF s
  <2>4. /\ stamp'[j] = stamp[j] /\ todo'[j] = todo[j] /\ pc'[j] = "next"
        /\ entry'[j] = e /\ deps'[j] = deps[j] \cup {s}
    BY <1>2, <2>3 DEF Record, Matching, TInv, TypeOK
  <2> QED BY <1>2, <2>1, <2>2, <2>4 DEF Matching, Left
<1> QED BY <1>1, <1>2

LEMMA StepM ==
    ASSUME TInv, TInv', ~DiskFaults, NEW j \in Jobs, Tidy(j), NEW e, EntryCurrent(j, e),
           pc[j] \in {"stat", "hash", "next"}, Matching(j, e), Step(j)
    PROVE  (Matching(j, e)' /\ Live(j)') \/ pc'[j] = "hit"
<1> USE DEF TInv, TypeOK
<1>0. /\ Loading(j) /\ e \in Entry
      /\ \A s \in {e.file} \cup e.deps : UpToDate(j, s)
  BY DEF Matching, Loading, EntryCurrent
<1>1. CASE Stat(j) \/ Hash(j)
  <2>1. at[j] \in Paths /\ pc[j] \in {"stat", "hash"}
    BY <1>1 DEF Stat, Hash, Shape
  <2>2. IsFile(j, at[j])
    <3>1. CASE stamp[j] = NoStamp
      BY <1>0, <2>1, <3>1 DEF EntryCurrent, UpToDate, Shape
    <3>2. CASE stamp[j] # NoStamp
      <4>1. PICK d \in e.deps : d.path = at[j]
        BY <2>1, <3>2, ZenonT(60) DEF Matching, Left, CachedDependencyPaths
      <4> QED BY <1>0, <4>1 DEF UpToDate
    <3> QED BY <3>1, <3>2
  <2>3. pc[j] = "hash" => part[j] = Metadata(j, at[j])
    BY DEF Matching
  <2>4. CASE Record(j, Fingerprint(j, at[j]))
    BY <2>1, <2>4, RecordV DEF Live, Ended
  <2>5. CASE /\ part' = [part EXCEPT ![j] = Metadata(j, at[j])]
             /\ pc' = [pc EXCEPT ![j] = "hash"]
             /\ UNCHANGED <<entry, at, stamp, todo, deps>>
    <3>1. disk' = disk
      BY <1>1, StepLocal
    <3> QED BY <2>1, <2>5, <3>1 DEF Matching, Left, Metadata, Live, Ended
  <2> QED BY <1>1, <2>2, <2>3, <2>4, <2>5, Fingerprinting
<1>2. CASE NextDep(j)
  <2>1. PICK p \in todo[j] : /\ todo' = [todo EXCEPT ![j] = @ \ {p}]
                             /\ IF IsFile(j, p) THEN Snapshot(j, p)
                                                ELSE UNCHANGED <<pc, at>>
    BY <1>2 DEF NextDep
  <2>2. pc[j] = "next" /\ stamp[j] # NoStamp /\ UNCHANGED <<entry, stamp, deps, part>>
    BY <1>2 DEF NextDep, Shape
  <2>3. IsFile(j, p)
    BY <1>0, <2>1, <2>2 DEF Matching, Left, CachedDependencyPaths, UpToDate
  <2>4. Left(j)' = Left(j) /\ pc'[j] = "stat"
    BY <2>1, <2>2, <2>3 DEF Left
  <2> QED BY <2>2, <2>4 DEF Matching, Live, Ended
<1>3. CASE Validate(j)
  BY <1>3 DEF Validate, SameDeps, Matching, Left, Shape
<1> QED BY <1>0, <1>1, <1>2, <1>3
     DEF Step, ReadEntry, Purge, Parse, Create, Write, Rename, StoreFails

LEMMA StepV ==
    ASSUME TInv, TInv', ~DiskFaults, NEW j \in Jobs, warm[j], WarmSound(j), Tidy(j),
           Step(j) \/ Crash(j)
    PROVE  WarmSound(j)'
<1> USE DEF TInv, TypeOK
<1>0. /\ Live(j) /\ UNCHANGED <<disk, index>>
      /\ pc'[j] \notin {"idle", "read", "miss"}
  BY StepLocal, StepGoto, WarmReads
<1>1. ASSUME NEW e, EntryCurrent(j, e) PROVE EntryCurrent(j, e)'
  BY <1>0, <1>1, EntryKept
<1>2. SUFFICES ASSUME Live(j)' PROVE \E e : EntryCurrent(j, e) /\ Matching(j, e)'
  <2>1. ASSUME NEW e, EntryCurrent(j, e), Matching(j, e)' PROVE WarmSound(j)'
    BY <1>0, <1>1, <2>1 DEF WarmSound, Matching, Left, Loading
  <2>2. ~Live(j)' => WarmSound(j)'
    BY <1>0 DEF WarmSound
  <2> QED BY <1>2, <2>1, <2>2
<1>3. Step(j)
  BY <1>2 DEF Crash, Live, Ended
<1>4. CASE pc[j] = "read"
  <2>1. PICK e : e = data[slot[Key(j)]]
    BY SMTT(30)
  <2>2. slot[Key(j)] # NoInode /\ EntryCurrent(j, e) /\ e \in Entry
    BY <1>0, <1>4, <2>1 DEF WarmSound, EntryCurrent
  <2>3. ReadEntry(j)
    BY <1>3, <1>4 DEF Step, Stat, Hash, NextDep, Purge, Validate, Parse, Create, Write,
                      Rename, StoreFails
  <2>4. Usable(j, e) /\ e # NoEntry /\ stamp[j] = NoStamp
    BY <1>4, <2>2, SentinelAssumption DEF EntryCurrent, Usable, Shape
  <2>5. /\ entry' = [entry EXCEPT ![j] = e] /\ pc' = [pc EXCEPT ![j] = "stat"]
        /\ UNCHANGED stamp
    BY <2>1, <2>2, <2>3, <2>4 DEF ReadEntry
  <2>6. Matching(j, e)'
    BY <2>4, <2>5 DEF Matching
  <2> QED BY <2>2, <2>6
<1>5. CASE pc[j] # "read"
  <2>1. PICK e : e = entry[j]
    OBVIOUS
  <2>2. EntryCurrent(j, e) /\ Matching(j, e)
    BY <1>0, <1>5, <2>1 DEF WarmSound, Matching, Left, Loading
  <2>3. pc[j] \in {"stat", "hash", "next"}
    BY <1>0, <2>1, <2>2 DEF Matching, Shape, Loading, Live, Ended
  <2>4. pc'[j] # "hit"
    BY <1>2 DEF Live, Ended
  <2> QED BY <1>3, <2>2, <2>3, <2>4, StepM
<1> QED BY <1>4, <1>5

\* A quiet job that stores its answer leaves an entry that is current.
LEMMA StoredQ ==
    ASSUME PublishInv, NEW j \in Jobs, QuietSound(j), Step(j) \/ Crash(j), Stored(j)'
    PROVE  slot'[Key(j)] # NoInode /\ EntryCurrent(j, data[slot[Key(j)]])'
<1> USE TaskType DEF PublishInv, TInv, TypeOK
<1>0. /\ UNCHANGED <<disk, index, quiet>> /\ Live(j) /\ quiet[j]
      /\ Task[j].kind # "off" /\ pc'[j] = "miss"
  BY StepLocal DEF Stored
<1>1. Rename(j)
  BY <1>0, StepGoto, ZenonT(60) DEF Parse, Fail
<1>2. /\ Storing(j) /\ stamp[j] # NoStamp /\ stamp[j].path = Task[j].path
      /\ Payload(j) \in Entry
  BY <1>1, PayloadType DEF Rename, Shape, Storing, Loading
<1>3. /\ data' = data /\ temp[Key(j)] # NoInode /\ data[temp[Key(j)]] = Payload(j)
      /\ slot' = [slot EXCEPT ![Key(j)] = temp[Key(j)]]
  BY <1>1 DEF Rename, TempKey, WriterAlone
<1>4. \A s \in {stamp[j]} \cup deps[j] : UpToDate(j, s)
  BY <1>0, <1>2 DEF QuietSound
<1>5. EntryCurrent(j, Payload(j))
  <2>1. /\ Payload(j).kind = Task[j].kind /\ Payload(j).feat = Task[j].feat
        /\ Payload(j).file = stamp[j] /\ Payload(j).deps = deps[j]
    BY DEF Payload
  <2> HIDE DEF TInv, TypeOK
  <2> QED BY <1>2, <1>4, <2>1 DEF EntryCurrent
<1>6. PICK e : e = Payload(j)
  OBVIOUS
<1>7. EntryCurrent(j, e)'
  BY <1>0, <1>5, <1>6, EntryKept
<1>8. slot'[Key(j)] = temp[Key(j)]
  BY <1>3 DEF Keys
<1> QED BY <1>3, <1>6, <1>7, <1>8

LEMMA StepWarm ==
    ASSUME ~DiskFaults, WarmInv, TInv', NEW j \in Jobs, Step(j) \/ Crash(j)
    PROVE  WarmInv'
<1> USE TaskType DEF WarmInv
<1>0. PublishInv' /\ TInv /\ TypeOK
  BY StepP DEF PublishInv, TInv
<1>1. /\ Live(j) /\ UNCHANGED <<disk, clock, index, seen, quiet, warm>>
      /\ \A i \in Jobs \ {j} :
           /\ pc'[i] = pc[i] /\ entry'[i] = entry[i] /\ at'[i] = at[i]
           /\ part'[i] = part[i] /\ stamp'[i] = stamp[i]
           /\ todo'[i] = todo[i] /\ deps'[i] = deps[i]
           /\ facts'[i] = facts[i] /\ fd'[i] = fd[i]
  BY <1>0, StepLocal
\* The step leaves alone the entries that others count on.
<1>2. ASSUME NEW i \in Jobs \ {j}, Stored(i) \/ Live(i)
      PROVE  slot'[Key(i)] = slot[Key(i)]
  <2>1. CASE Key(i) # Key(j)
    BY <1>0, <2>1, NamesLocal
  <2>2. CASE Key(i) = Key(j)
    <3>1. warm[j]
      BY <1>1, <1>2, <2>2 DEF OthersWarm, PublishInv, Exclusive
    <3> QED BY <1>0, <3>1, WarmReads
  <2> QED BY <2>1, <2>2
<1>3. ASSUME NEW i \in Jobs, slot[Key(i)] # NoInode
      PROVE  data'[slot[Key(i)]] = data[slot[Key(i)]]
  BY <1>3, DataKept
<1>4. ASSUME NEW i \in Jobs \ {j} PROVE QuietSound(i)' /\ WarmSound(i)' /\ Tidy(i)'
  <2>1. Stored(i) => slot[Key(i)] # NoInode
    BY DEF QuietSound
  <2>2. QuietSound(i)'
    BY <1>0, <1>1, <1>2, <1>3, <2>1, QuietFrame
  <2>3. pc[i] = "read" => Live(i)
    BY DEF Live, Ended
  <2>4. WarmSound(i)'
    BY <1>0, <1>1, <1>2, <1>3, <2>3, WarmFrame
  <2> QED BY <1>1, <2>2, <2>4 DEF Tidy
<1>5. Tidy(j)'
  BY <1>0, StepTidy
<1>6. WarmSound(j)'
  <2>1. CASE warm[j]
    BY <1>0, <2>1, StepV
  <2>2. CASE ~warm[j]
    BY <1>1, <2>2 DEF WarmSound
  <2> QED BY <2>1, <2>2
<1>7. QuietSound(j)'
  <2>1. CASE ~quiet[j]
    BY <1>1, <2>1 DEF QuietSound, Stored
  <2>2. CASE quiet[j]
    <3>1. Now(j, Task[j].path)'.content = index'[j][Task[j].path]
      BY <1>1, <2>2 DEF QuietSound, Live
    <3>2. Computed(j)'
      BY <1>0, <2>2, StepQ
    <3>3. Stored(j)' => /\ slot'[Key(j)] # NoInode
                        /\ EntryCurrent(j, data[slot[Key(j)]])'
      BY StoredQ
    <3> QED BY <3>1, <3>2, <3>3 DEF QuietSound, Computed
  <2> QED BY <2>1, <2>2
<1>8. OthersWarm'
  <2> SUFFICES ASSUME NEW i \in Jobs, NEW k \in Jobs, Stored(i)', Live(k)', Key(i) = Key(k)
               PROVE  /\ Task[i] = Task[k] /\ warm'[k]
                      /\ index'[i][Task[i].path] = index'[k][Task[k].path]
    BY DEF OthersWarm
  <2>1. Live(k)
    BY <1>1 DEF Live, Ended
  <2>2. i # j
    BY <1>1, <2>1 DEF Stored, Live, Ended, PublishInv, Exclusive
  <2>3. Stored(i)
    BY <1>1, <2>2 DEF Stored
  <2> QED BY <1>1, <2>1, <2>3 DEF OthersWarm
<1> QED BY <1>0, <1>4, <1>5, <1>6, <1>7, <1>8

\* A job may start with the index of an earlier moment, if the jobs it is like
\* have seen the same file.
LEMMA StartWarm ==
    ASSUME WarmInv, TInv', NEW j \in Jobs, NEW idx \in [Paths -> Versions],
           StartWith(j, idx),
           \A i \in Jobs : Live(i) => Key(i) # Key(j),
           \A i \in Jobs : Stored(i) /\ Task[i] = Task[j] =>
                             idx[Task[j].path] = index[i][Task[i].path]
    PROVE  WarmInv'
<1> USE TaskType DEF WarmInv
<1>0. PublishInv' /\ TInv /\ TypeOK
  BY StartP DEF PublishInv, TInv
<1>1. /\ UNCHANGED <<disk, clock, slot, temp, data, entry, at, part, stamp, todo, deps,
                     facts, fd>>
      /\ pc'[j] = Entrance(j) /\ index'[j] = idx /\ pc[j] = "idle"
      /\ \A i \in Jobs \ {j} : pc'[i] = pc[i] /\ index'[i] = index[i] /\ warm'[i] = warm[i]
  BY <1>0 DEF StartWith, TypeOK
<1>2. /\ warm'[j] = \E i \in Jobs : Stored(i) /\ Task[i] = Task[j]
      /\ quiet'[j] => idx[Task[j].path] = Now(j, Task[j].path).content
      /\ \A i \in Jobs \ {j} : quiet'[i] => quiet[i] /\ (Key(i) = Key(j) => Task[i] = Task[j])
  BY <1>0 DEF StartWith, TypeOK
<1>3. \A i \in Jobs : Stored(i)' => i # j /\ Stored(i)
  BY <1>1, <1>2 DEF Stored, Entrance
<1>4. ASSUME NEW i \in Jobs \ {j} PROVE QuietSound(i)' /\ WarmSound(i)' /\ Tidy(i)'
  <2>1. QuietSound(i)'
    BY <1>0, <1>1, <1>2, QuietFrame
  <2>2. WarmSound(i)'
    BY <1>0, <1>1, <1>2, WarmFrame
  <2> QED BY <1>1, <2>1, <2>2 DEF Tidy
<1>5. Tidy(j)' /\ QuietSound(j)'
  <2>1. idx[Task[j].path] \in Contents
    BY TaskType DEF StartWith, Versions
  <2> QED BY <1>0, <1>1, <1>2, <1>3, <2>1, TaskType DEF Tidy, QuietSound, Storing, Entrance
<1>6. WarmSound(j)'
  <2> SUFFICES ASSUME warm'[j] PROVE WarmSound(j)'
    BY DEF WarmSound
  <2>1. PICK i \in Jobs : Stored(i) /\ Task[i] = Task[j]
    BY <1>2
  <2>2. PICK e : e = data[slot[Key(i)]]
    OBVIOUS
  <2>3. slot[Key(i)] # NoInode /\ EntryCurrent(i, e)
    BY <2>1, <2>2 DEF QuietSound
  <2>4. Related(j, idx) = Related(i, index[i])
    BY <2>1 DEF Related
  <2>5. EntryCurrent(j, e)'
    BY <1>1, <2>1, <2>3, <2>4
       DEF EntryCurrent, UpToDate, Fingerprint, Metadata
  <2>6. pc'[j] = "read" /\ Key(i) = Key(j)
    BY <1>1, <2>1 DEF Entrance, Stored
  <2> QED BY <1>1, <2>2, <2>3, <2>5, <2>6 DEF WarmSound
<1>7. OthersWarm'
  <2> SUFFICES ASSUME NEW i \in Jobs, NEW k \in Jobs, Stored(i)', Live(k)', Key(i) = Key(k)
               PROVE  /\ Task[i] = Task[k] /\ warm'[k]
                      /\ index'[i][Task[i].path] = index'[k][Task[k].path]
    BY DEF OthersWarm
  <2>1. i # j /\ Stored(i) /\ index'[i] = index[i]
    BY <1>1, <1>3
  <2>2. CASE k = j
    <3>1. Task[i] = Task[j]
      BY <1>2, <2>1, <2>2 DEF Stored
    <3>2. warm'[j] /\ index'[j] = idx
      BY <1>1, <1>2, <2>1, <3>1, Zenon
    <3> QED BY <2>1, <2>2, <3>1, <3>2
  <2>3. CASE k # j
    BY <1>1, <2>1, <2>3 DEF OthersWarm, Live, Ended
  <2> QED BY <2>2, <2>3
<1> QED BY <1>0, <1>4, <1>5, <1>6, <1>7

LEMMA EditWarm ==
    ASSUME WarmInv, TInv', NEW r \in Roots, NEW q \in Paths, Edit(r, q)
    PROVE  WarmInv'
<1> USE DEF WarmInv
<1>0. PublishInv' /\ TInv /\ TypeOK
  BY EditP DEF PublishInv, TInv
<1>1. /\ UNCHANGED <<slot, temp, data, pc, index, entry, at, part, stamp,
                     todo, deps, facts, fd>>
      /\ \A f \in Files \ {<<r, q>>} : disk'[f] = disk[f]
  BY <1>0, EditSeen
<1>2. /\ \A j \in Jobs : quiet'[j] = (quiet[j] /\ ~Touches(j, r, q))
      /\ \A j \in Jobs : warm'[j] = (warm[j] /\ ~Touches(j, r, q))
  <2>1. quiet' = [j \in Jobs |-> quiet[j] /\ ~Touches(j, r, q)]
    BY DEF Edit
  <2>2. warm' = [j \in Jobs |-> warm[j] /\ ~Touches(j, r, q)]
    BY DEF Edit
  <2>3. \A j \in Jobs : quiet'[j] = (quiet[j] /\ ~Touches(j, r, q))
    BY <2>1, Zenon
  <2>4. \A j \in Jobs : warm'[j] = (warm[j] /\ ~Touches(j, r, q))
    BY <2>2, Zenon
  <2> QED BY <2>3, <2>4
<1>3. ASSUME NEW j \in Jobs, ~Touches(j, r, q), pc[j] # "idle",
             NEW p \in Related(j, index[j])
      PROVE  Now(j, p)' = Now(j, p)
  <2>1. <<Task[j].root, p>> # <<r, q>>
    BY <1>3 DEF Touches
  <2>2. p \in Paths
    <3>1. Task[j].path \in Paths /\ index[j][Task[j].path] \in Contents
      BY <1>3, TaskType DEF Tidy
    <3> QED BY <3>1, FilesAssumption DEF Related
  <2>3. <<Task[j].root, p>> \in Files
    BY <2>2, TaskType DEF Files
  <2> QED BY <1>1, <2>1, <2>3
<1>4. ASSUME NEW j \in Jobs PROVE QuietSound(j)' /\ WarmSound(j)' /\ Tidy(j)'
  <2>1. QuietSound(j)'
    BY <1>0, <1>1, <1>2, <1>3, QuietFrame
  <2>2. WarmSound(j)'
    BY <1>0, <1>1, <1>2, <1>3, WarmFrame
  <2> QED BY <1>1, <2>1, <2>2 DEF Tidy
<1>5. OthersWarm'
  <2> SUFFICES ASSUME NEW i \in Jobs, NEW k \in Jobs, Stored(i)', Live(k)', Key(i) = Key(k)
               PROVE  /\ Task[i] = Task[k] /\ warm'[k]
                      /\ index'[i][Task[i].path] = index'[k][Task[k].path]
    BY DEF OthersWarm
  <2>1. Stored(i) /\ Live(k) /\ ~Touches(i, r, q)
    BY <1>1, <1>2 DEF Stored, Live, Ended
  <2>2. Task[i] = Task[k] /\ warm[k] /\ index[i][Task[i].path] = index[k][Task[k].path]
    BY <2>1 DEF OthersWarm
  <2>3. ~Touches(k, r, q)
    BY <2>1, <2>2 DEF Touches, Related, Stored, Live, Ended
  <2> QED BY <1>1, <1>2, <2>2, <2>3
<1> QED BY <1>0, <1>4, <1>5

LEMMA InitWarm == Init => WarmInv
<1> SUFFICES ASSUME Init PROVE WarmInv
  OBVIOUS
<1>1. PublishInv
  BY InitP
<1>2. \A j \in Jobs : Tidy(j) /\ QuietSound(j) /\ WarmSound(j) /\ ~Stored(j)
  BY DEF Init, Tidy, QuietSound, WarmSound, Stored, Storing
<1> QED BY <1>1, <1>2 DEF WarmInv, OthersWarm

LEMMA StutterWarm == WarmInv /\ UNCHANGED vars => WarmInv'
<1> SUFFICES ASSUME WarmInv, UNCHANGED vars PROVE WarmInv'
  OBVIOUS
<1>1. PublishInv'
  BY StutterP DEF WarmInv
<1>2. \A j \in Jobs : /\ Tidy(j)' = Tidy(j) /\ QuietSound(j)' = QuietSound(j)
                      /\ WarmSound(j)' = WarmSound(j)
  BY DEF vars, Tidy, QuietSound, WarmSound, Stored, Storing, Loading, Live, Ended,
     EntryCurrent, UpToDate, Fingerprint, Metadata, Related, CachedDependencyPaths
<1>3. OthersWarm'
  BY DEF vars, WarmInv, OthersWarm, Stored, Live, Ended
<1> QED BY <1>1, <1>2, <1>3 DEF WarmInv

LEMMA NextWarm ==
    OneWriterPerEntry /\ ~DiskFaults /\ WarmInv /\ [Next]_vars => WarmInv'
<1> SUFFICES ASSUME OneWriterPerEntry, ~DiskFaults, WarmInv, [Next]_vars PROVE WarmInv'
  OBVIOUS
<1> USE TaskType
<1>0. TInv /\ PublishInv
  BY DEF WarmInv, PublishInv
<1>1. TInv'
  BY <1>0, NextT
<1>2. ASSUME NEW j \in Jobs, Start(j) PROVE WarmInv'
  <2>1. PICK idx : idx = [p \in Paths |-> Now(j, p).content]
    OBVIOUS
  <2>2. StartWith(j, idx) /\ idx \in [Paths -> Versions]
    BY <1>0, <1>2, <2>1 DEF Start, TInv, TypeOK, Files
  <2>3. \A i \in Jobs : Live(i) => Key(i) # Key(j)
    BY <2>2 DEF StartWith
  <2>4. ASSUME NEW i \in Jobs, Stored(i), Task[i] = Task[j]
        PROVE  idx[Task[j].path] = index[i][Task[i].path]
    BY <2>1, <2>4 DEF WarmInv, QuietSound, Stored
  <2> QED BY <1>1, <2>2, <2>3, <2>4, StartWarm
<1>3. ASSUME NEW j \in Jobs, Step(j) \/ Crash(j) PROVE WarmInv'
  BY <1>1, <1>3, StepWarm
<1>4. ASSUME NEW r \in Roots, NEW q \in Paths, Edit(r, q) PROVE WarmInv'
  BY <1>1, <1>4, EditWarm
<1>5. CASE UNCHANGED vars
  BY <1>5, StutterWarm
<1> QED BY <1>2, <1>3, <1>4, <1>5 DEF Next, Finished

\* A job like one that stored its answer is a hit, as long as the files behind
\* that answer stay as they are and one job at a time works on the entry.
THEOREM WarmJobsHit ==
    ASSUME OneWriterPerEntry, ~DiskFaults PROVE Spec => []WarmHit
<1>1. WarmInv => WarmHit
  BY DEF WarmInv, WarmSound, WarmHit
<1> QED BY <1>1, InitWarm, NextWarm, PTL DEF Spec

\* Both invariants together: what a job that works on an entry alone can rely on,
\* whatever crashes, is written and is edited.
THEOREM ExclusiveAlways ==
    ASSUME OneWriterPerEntry, ~DiskFaults PROVE Spec => []ExclusiveInv
<1>1. Init => ExclusiveInv
  BY InitF, InitWarm DEF ExclusiveInv
<1>2. ExclusiveInv /\ [Next]_vars => ExclusiveInv'
  BY NextF, NextWarm DEF ExclusiveInv
<1> QED BY <1>1, <1>2, PTL DEF Spec
=============================================================================
