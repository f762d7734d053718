---------------------------- MODULE PipelineProofs ----------------------------
(* Theorems about Pipeline, for every value of its constants.               *)
EXTENDS Pipeline, CacheWarmProofs, SortingProofs

USE DEF Goto, Snapshot, Key, Now, IsFile, files, store, work, history

\* The jobs of a run, and what they are asked.
LEMMA JobOf ==
    ASSUME NEW r \in Runs, NEW j \in JobsOf(r)
    PROVE  /\ j \in Jobs /\ j[2] \in DOMAIN Found[r] /\ j = <<r, j[2]>>
           /\ j[2] \in 1 .. Len(Found[r]) /\ Len(Found[r]) \in Nat
           /\ Found[r] \in Seq(Paths) /\ Found[r][j[2]] \in Paths
           /\ Task[j] = [Task[<<r, 1>>] EXCEPT !.path = Found[r][j[2]]]
           /\ Task[j].path = Found[r][j[2]] /\ Task[j].root = RootOf(r)
           /\ RootOf(r) \in Roots
<1>1. j[2] \in DOMAIN Found[r] /\ j = <<r, j[2]>> /\ j \in Jobs
  BY PipelineAssumption DEF JobsOf
<1>2. /\ Found[r] \in Seq(Paths) /\ Found[r] # <<>>
      /\ Task[j] = [Task[<<r, 1>>] EXCEPT !.path = Found[r][j[2]]]
  BY PipelineAssumption
<1>3. <<r, 1>> \in Jobs
  BY <1>2, PipelineAssumption DEF JobsOf
<1>4. Task[<<r, 1>>] \in Config /\ Task[j] \in Config
  BY <1>1, <1>3, JobsAssumption
<1> QED BY <1>1, <1>2, <1>4 DEF Config, RootOf

LEMMA OwnerOf ==
    /\ \A j \in Jobs : \E r \in Runs : j \in JobsOf(r)
    /\ \A r, s \in Runs : \A j \in JobsOf(r) : j \in JobsOf(s) => r = s
BY PipelineAssumption DEF JobsOf

LEMMA OtherJob ==
    ASSUME NEW r \in Runs, NEW j \in JobsOf(r), NEW s \in Runs, s # r, NEW i \in JobsOf(s)
    PROVE  i \in Jobs \ {j}
BY OwnerOf, JobOf, ZenonT(60)

LEMMA JobIn == ASSUME NEW r \in Runs, NEW j \in JobsOf(r) PROVE j \in Jobs
BY JobOf

LEMMA JobAt ==
    ASSUME NEW r \in Runs, NEW i \in DOMAIN Found[r]
    PROVE  <<r, i>> \in JobsOf(r)
BY DEF JobsOf

LEMMA TaskAt ==
    ASSUME NEW r \in Runs, NEW i \in DOMAIN Found[r]
    PROVE  /\ <<r, i>> \in JobsOf(r) /\ <<r, i>> \in Jobs
           /\ Task[<<r, i>>].path = Found[r][i] /\ Task[<<r, i>>].root = RootOf(r)
<1>1. PICK j : j = <<r, i>>
  OBVIOUS
<1>2. j \in JobsOf(r) /\ j[2] = i
  BY <1>1, JobAt
<1>3. j \in Jobs /\ Task[j].path = Found[r][j[2]] /\ Task[j].root = RootOf(r)
  BY <1>2, JobOf
<1> QED BY <1>1, <1>2, <1>3

-----------------------------------------------------------------------------
\* The process of run r dies: its live jobs crash, the others stay.
LEMMA DieLocal ==
    ASSUME TypeOK, NEW r \in Runs, Die(r)
    PROVE  /\ UNCHANGED <<disk, clock, slot, temp, index, seen, quiet, warm>>
           /\ \A j \in Jobs :
                \/ /\ j \in JobsOf(r) /\ Live(j)
                   /\ pc'[j] = "crashed" /\ entry'[j] = NoEntry /\ facts'[j] = NoFacts
                   /\ fd'[j] = NoInode /\ at'[j] = NoPath /\ part'[j] = NoStamp
                   /\ stamp'[j] = NoStamp /\ todo'[j] = {} /\ deps'[j] = {}
                \/ /\ ~(j \in JobsOf(r) /\ Live(j))
                   /\ pc'[j] = pc[j] /\ entry'[j] = entry[j] /\ facts'[j] = facts[j]
                   /\ fd'[j] = fd[j] /\ at'[j] = at[j] /\ part'[j] = part[j]
                   /\ stamp'[j] = stamp[j] /\ todo'[j] = todo[j] /\ deps'[j] = deps[j]
BY DEF Die, Busy

LEMMA DieData ==
    ASSUME TypeOK, NEW r \in Runs, Die(r)
    PROVE  /\ data' \in [Inodes -> Entry \cup {Empty, Torn}]
           /\ \A i \in Inodes : data'[i] # data[i] =>
                /\ data'[i] = Torn
                /\ \E j \in JobsOf(r) : pc[j] = "write" /\ fd[j] = i
BY SMTT(30) DEF Die, TypeOK

LEMMA DieT == ASSUME TInv, NEW r \in Runs, Die(r) PROVE TInv'
<1>0. TypeOK
  BY DEF TInv
<1>1. TypeOK'
  <2>1. data' \in [Inodes -> Entry \cup {Empty, Torn}]
    BY <1>0, DieData
  <2> QED BY <1>0, <2>1 DEF TypeOK, Die
<1>2. ASSUME NEW j \in Jobs PROVE Shape(j)'
  <2>1. CASE pc'[j] = "crashed" /\ entry'[j] = NoEntry /\ stamp'[j] = NoStamp
    BY <2>1 DEF Shape, Loading, Storing
  <2> QED BY <1>0, <2>1, DieLocal, ShapeFrame DEF TInv
<1> QED BY <1>1, <1>2 DEF TInv

-----------------------------------------------------------------------------
\* The types of a run, in every environment.

LEMMA RunShapeFrame ==
    ASSUME NEW s \in Runs, RunShape(s),
           run'[s] = run[s], next'[s] = next[s], idx'[s] = idx[s],
           \A j \in JobsOf(s) : pc'[j] = pc[j] /\ index'[j] = index[j]
    PROVE  RunShape(s)'
BY DEF RunShape, Busy, Live, Ended

LEMMA ByPathType ==
    ASSUME NEW list \in Seq(FileResults)
    PROVE  ByPath(list) \in Seq(FileResults) /\ Len(ByPath(list)) = Len(list)
<1> DEFINE k == [i \in DOMAIN list |-> Rank[list[i].path]]
<1>1. \A i \in DOMAIN list : list[i].path \in Paths
  <2>1. \A i \in DOMAIN list : list[i] \in FileResults
    OBVIOUS
  <2> QED BY <2>1 DEF FileResults
<1>2. k \in [DOMAIN list -> Nat]
  BY <1>1, PipelineAssumption
<1> HIDE DEF k
<1>3. SortedBy(list, k) \in Seq(FileResults) /\ Len(SortedBy(list, k)) = Len(list)
  BY <1>2, SortKeeps
<1> QED BY <1>3 DEF ByPath, k

LEMMA FinishedJob ==
    ASSUME TInv, NEW r \in Runs, NEW j \in JobsOf(r), pc[j] \in {"hit", "miss"}
    PROVE  facts[j] \in Facts /\ FileResult(r, j) \in FileResults
<1>1. facts[j] \in Facts
  BY JobOf DEF TInv, Shape
<1>2. facts[j].path \in Paths /\ facts[j].content \in Contents
  BY <1>1 DEF Facts
<1>3. Uses[facts[j].content] \in SUBSET Scopes
  BY <1>2, PipelineAssumption
<1> QED BY <1>1, <1>2, <1>3 DEF FileResult, FileResults

LEMMA ResultsType ==
    ASSUME TInv, NEW r \in Runs, \A j \in JobsOf(r) : pc[j] \in {"hit", "miss"}
    PROVE  Results(r) \in Seq(FileResults) /\ Len(Results(r)) = Len(Found[r])
<1>1. \A i \in DOMAIN Found[r] : FileResult(r, <<r, i>>) \in FileResults
  BY FinishedJob, JobAt
<1>2. DOMAIN Found[r] = 1 .. Len(Found[r]) /\ Len(Found[r]) \in Nat
  BY PipelineAssumption
<1>3. Results(r) \in [1 .. Len(Found[r]) -> FileResults]
  BY <1>1, <1>2 DEF Results
<1> QED BY <1>2, <1>3

\* As many jobs as files.
LEMMA Counted ==
    ASSUME NEW r \in Runs
    PROVE  IsFiniteSet(JobsOf(r)) /\ Cardinality(JobsOf(r)) = Len(Found[r])
<1> DEFINE D == 1 .. Len(Found[r])
           f == [i \in D |-> <<r, i>>]
<1>1. DOMAIN Found[r] = D /\ Len(Found[r]) \in Nat
  BY PipelineAssumption
<1>2. f \in Bijection(D, JobsOf(r))
  BY <1>1 DEF JobsOf, Bijection, Injection, Surjection, IsInjective
<1>3. IsFiniteSet(D) /\ Cardinality(D) = Len(Found[r])
  BY <1>1, FS_Interval
<1> HIDE DEF D, f
<1> QED BY <1>2, <1>3, FS_Bijection DEF ExistsBijection

LEMMA Tally ==
    ASSUME NEW r \in Runs, NEW S, S \in SUBSET JobsOf(r)
    PROVE  /\ Cardinality(S) \in Nat /\ Cardinality(JobsOf(r) \ S) \in Nat
           /\ Cardinality(S) + Cardinality(JobsOf(r) \ S) = Len(Found[r])
<1>1. IsFiniteSet(JobsOf(r)) /\ IsFiniteSet(S)
  BY Counted, FS_Subset
<1>2. /\ IsFiniteSet(JobsOf(r) \ S)
      /\ Cardinality(JobsOf(r) \ S)
           = Cardinality(JobsOf(r)) - Cardinality(JobsOf(r) \cap S)
  BY <1>1, FS_Difference
<1>3. JobsOf(r) \cap S = S
  OBVIOUS
<1>4. /\ Cardinality(S) \in Nat /\ Cardinality(JobsOf(r) \ S) \in Nat
      /\ Cardinality(JobsOf(r)) = Len(Found[r]) /\ Len(Found[r]) \in Nat
  BY <1>1, <1>2, Counted, FS_CardinalityType
<1>5. Cardinality(JobsOf(r) \ S) = Cardinality(JobsOf(r)) - Cardinality(S)
  BY <1>2, <1>3
<1> QED BY <1>4, <1>5

LEMMA SummaryType ==
    ASSUME TInv, NEW r \in Runs, \A j \in JobsOf(r) : pc[j] \in {"hit", "miss"}
    PROVE  /\ Summary(r) \in PipelineResult
           /\ Summary(r).hits + Summary(r).misses = Len(Summary(r).files)
<1> DEFINE H == {j \in JobsOf(r) : pc[j] = "hit"}
           M == {j \in JobsOf(r) : pc[j] # "hit"}
<1>1. M = JobsOf(r) \ H
  OBVIOUS
<1>2. /\ Cardinality(H) \in Nat /\ Cardinality(M) \in Nat
      /\ Cardinality(H) + Cardinality(M) = Len(Found[r])
  BY <1>1, Tally
<1>3. ByPath(Results(r)) \in Seq(FileResults) /\ Len(ByPath(Results(r))) = Len(Found[r])
  BY ResultsType, ByPathType
<1> HIDE DEF H, M
<1>4. Summary(r) = [files |-> ByPath(Results(r)), hits |-> Cardinality(H),
                    misses |-> Cardinality(M)]
  BY DEF Summary, H, M
<1> QED BY <1>2, <1>3, <1>4 DEF PipelineResult

\* Only a run at work has live jobs, and they have its index.
LEMMA LiveJob ==
    ASSUME PInv, NEW r \in Runs, NEW j \in JobsOf(r), Live(j)
    PROVE  run[r] = "work" /\ Active(r) /\ index[j] = idx[r]
BY DEF PInv, RunShape, Busy, Active, Live

\* What Take(r) does to the jobs.
LEMMA TakeLocal ==
    ASSUME PInv, NEW r \in Runs, NEW j \in JobsOf(r), StartWith(j, idx[r])
    PROVE  /\ pc[j] = "idle" /\ pc'[j] \in {"read", "parse"} /\ index'[j] = idx[r]
           /\ \A i \in Jobs \ {j} : pc'[i] = pc[i] /\ index'[i] = index[i]
           /\ idx[r] \in [Paths -> Versions] /\ j \in Jobs
BY JobOf DEF PInv, PTypeOK, TypeOK, StartWith, Entrance

LEMMA PInitT == PInit => TInv /\ PInv
<1> SUFFICES ASSUME PInit PROVE TInv /\ PInv
  OBVIOUS
<1>1. TInv
  BY InitT DEF PInit
<1>2. PTypeOK
  BY <1>1 DEF PInit, PTypeOK, TInv, Versions
<1>3. ASSUME NEW r \in Runs PROVE RunShape(r)
  BY JobOf DEF PInit, Init, RunShape, Busy, Live
<1> QED BY <1>1, <1>2, <1>3 DEF PInv

LEMMA LaunchT == ASSUME TInv, PInv, NEW r \in Runs, Launch(r) PROVE PInv'
<1>0. TypeOK'
  BY NextT DEF Launch, TInv
<1>1. PTypeOK'
  BY <1>0 DEF PInv, PTypeOK, Launch
<1>2. ASSUME NEW s \in Runs PROVE RunShape(s)'
  <2>1. CASE s # r
    BY <2>1, RunShapeFrame DEF PInv, PTypeOK, Launch, vars
  <2>2. CASE s = r
    BY <2>2 DEF PInv, PTypeOK, Launch, vars, RunShape, Busy, Live, Ended
  <2> QED BY <2>1, <2>2
<1> QED BY <1>1, <1>2 DEF PInv

LEMMA IndexFileT == ASSUME TInv, PInv, NEW r \in Runs, IndexFile(r) PROVE PInv'
<1>0. TypeOK'
  BY NextT DEF IndexFile, TInv
<1>1. PTypeOK'
  <2> DEFINE p == Found[r][next[r]]
             v == disk[<<RootOf(r), p>>].content
  <2>1. p \in Paths /\ <<r, next[r]>> \in JobsOf(r)
    <3>1. next[r] \in 1 .. Len(Found[r]) /\ Found[r] \in Seq(Paths)
      BY PipelineAssumption DEF PInv, PTypeOK, IndexFile
    <3> QED BY <3>1 DEF JobsOf
  <2>2. v \in Versions
    <3>1. <<RootOf(r), p>> \in Files
      BY <2>1, JobOf DEF Files
    <3> QED BY <3>1 DEF TInv, TypeOK
  <2> HIDE DEF p
  <2>3. /\ run' \in [Runs -> {"idle", "index", "work", "ok", "error", "dead"}]
        /\ next' \in [Runs -> Nat \ {0}]
    BY DEF PInv, PTypeOK, IndexFile
  <2>5. idx' \in [Runs -> [Paths -> Versions]]
    <3>1. idx' = idx \/ idx' = [idx EXCEPT ![r] = [@ EXCEPT ![p] = v]]
      BY DEF IndexFile, p
    <3> HIDE DEF v
    <3> QED BY <2>1, <2>2, <3>1 DEF PInv, PTypeOK
  <2>4. output' = output /\ \A s \in Runs : run'[s] = "ok" <=> run[s] = "ok"
    BY DEF PInv, PTypeOK, IndexFile
  <2> QED BY <1>0, <2>3, <2>4, <2>5 DEF PInv, PTypeOK
<1>2. ASSUME NEW s \in Runs PROVE RunShape(s)'
  <2>1. CASE s # r
    BY <2>1, RunShapeFrame DEF PInv, PTypeOK, IndexFile, vars
  <2>2. CASE s = r
    BY <2>2 DEF PInv, PTypeOK, IndexFile, vars, RunShape, Busy, Live, Ended
  <2> QED BY <2>1, <2>2
<1> QED BY <1>1, <1>2 DEF PInv

LEMMA BuildPoolT == ASSUME TInv, PInv, NEW r \in Runs, BuildPool(r) PROVE PInv'
<1>0. TypeOK'
  BY NextT DEF BuildPool, TInv
<1>1. PTypeOK'
  BY <1>0 DEF PInv, PTypeOK, BuildPool
<1>2. ASSUME NEW s \in Runs PROVE RunShape(s)'
  <2>1. CASE s # r
    BY <2>1, RunShapeFrame DEF PInv, PTypeOK, BuildPool, vars
  <2>2. CASE s = r
    BY <2>2 DEF PInv, PTypeOK, BuildPool, vars, RunShape, Busy, Live, Ended
  <2> QED BY <2>1, <2>2
<1> QED BY <1>1, <1>2 DEF PInv

LEMMA TakeT ==
    ASSUME TInv, PInv, NEW r \in Runs, NEW j \in JobsOf(r),
           run[r] = "work", StartWith(j, idx[r]), UNCHANGED pipe
    PROVE  TInv' /\ PInv'
<1>0. TInv'
  BY TakeLocal, StartWithT
<1>1. PTypeOK'
  BY <1>0 DEF PInv, PTypeOK, pipe, TInv
<1>2. ASSUME NEW s \in Runs PROVE RunShape(s)'
  <2>1. CASE s # r
    BY <2>1, TakeLocal, OtherJob, RunShapeFrame DEF PInv, pipe
  <2>2. CASE s = r
    <3>1. RunShape(r) /\ UNCHANGED <<run, next, idx>> /\ run[r] = "work"
      BY DEF PInv, pipe
    <3>2. \A i \in JobsOf(r) : pc'[i] # "idle" => index'[i] = idx[r]
      BY <3>1, TakeLocal, JobIn DEF RunShape
    <3> QED BY <2>2, <3>1, <3>2 DEF RunShape
  <2> QED BY <2>1, <2>2
<1> QED BY <1>0, <1>1, <1>2 DEF PInv

LEMMA WorkT ==
    ASSUME TInv, PInv, NEW r \in Runs, NEW j \in JobsOf(r), Step(j), UNCHANGED pipe
    PROVE  TInv' /\ PInv'
<1>0. TInv' /\ j \in Jobs
  BY JobOf, NextT DEF Next
<1>1. PTypeOK'
  BY <1>0 DEF PInv, PTypeOK, pipe, TInv
<1>2. /\ Live(j) /\ index' = index /\ \A i \in Jobs \ {j} : pc'[i] = pc[i]
  BY <1>0, StepLocal DEF TInv
<1>3. ASSUME NEW s \in Runs PROVE RunShape(s)'
  <2>1. CASE s # r
    BY <1>2, <2>1, OtherJob, RunShapeFrame DEF PInv, pipe
  <2>2. CASE s = r
    <3>1. /\ RunShape(r) /\ UNCHANGED <<run, next, idx>> /\ run[r] = "work"
          /\ pc[j] # "idle"
      BY <1>2, LiveJob DEF PInv, pipe, Live
    <3>2. \A i \in JobsOf(r) : pc'[i] # "idle" => index'[i] = idx[r]
      BY <1>2, <3>1, JobIn DEF RunShape
    <3> QED BY <2>2, <3>1, <3>2 DEF RunShape
  <2> QED BY <2>1, <2>2
<1> QED BY <1>0, <1>1, <1>3 DEF PInv

LEMMA ReduceT == ASSUME TInv, PInv, NEW r \in Runs, Reduce(r) PROVE PInv'
<1>0. TypeOK'
  BY NextT DEF Reduce, TInv
<1>1. PTypeOK'
  <2>1. CASE output' = output /\ run' = [run EXCEPT ![r] = "error"]
    BY <1>0, <2>1 DEF PInv, PTypeOK, Reduce
  <2>2. CASE /\ \A j \in JobsOf(r) : pc[j] \in {"hit", "miss"}
             /\ run' = [run EXCEPT ![r] = "ok"]
             /\ output' = [output EXCEPT ![r] = Summary(r)]
    <3>1. Summary(r) \in PipelineResult /\ Summary(r) # NoOutput
      BY <2>2, SummaryType, OutputAssumption
    <3> QED BY <1>0, <2>2, <3>1 DEF PInv, PTypeOK, Reduce
  <2> QED BY <2>1, <2>2 DEF Reduce
<1>2. ASSUME NEW s \in Runs PROVE RunShape(s)'
  <2>1. CASE s # r
    BY <2>1, RunShapeFrame DEF PInv, PTypeOK, Reduce, vars
  <2>2. CASE s = r
    BY <2>2 DEF PInv, PTypeOK, Reduce, vars, RunShape, Busy, Live, Ended
  <2> QED BY <2>1, <2>2
<1> QED BY <1>1, <1>2 DEF PInv

LEMMA DiePT == ASSUME TInv, PInv, NEW r \in Runs, Die(r) PROVE TInv' /\ PInv'
<1>0. TInv'
  BY DieT
<1>1. PTypeOK'
  BY <1>0 DEF PInv, PTypeOK, Die, Active, TInv
<1>2. ASSUME NEW s \in Runs PROVE RunShape(s)'
  <2>0. index' = index /\ next' = next /\ idx' = idx
    BY DEF Die
  <2>1. CASE s # r
    <3>1. \A j \in JobsOf(s) : pc'[j] = pc[j]
      BY <2>1, DieLocal, OwnerOf, JobOf DEF TInv
    <3>2. run'[s] = run[s]
      BY <2>1 DEF Die, PInv, PTypeOK
    <3> QED BY <2>0, <3>1, <3>2, RunShapeFrame DEF PInv
  <2>2. CASE s = r
    <3>1. \A j \in JobsOf(r) : /\ pc'[j] = "idle" <=> pc[j] = "idle"
                               /\ ~Live(j)'
      BY DieLocal, JobOf DEF TInv, Live, Ended
    <3>2. run'[r] = "dead"
      BY DEF Die, PInv, PTypeOK
    <3> QED BY <2>0, <2>2, <3>1, <3>2 DEF PInv, RunShape, Busy
  <2> QED BY <2>1, <2>2
<1> QED BY <1>0, <1>1, <1>2 DEF PInv

LEMMA ChangeT ==
    ASSUME TInv, PInv, NEW q \in Roots, NEW p \in Paths, Edit(q, p), UNCHANGED pipe
    PROVE  TInv' /\ PInv'
<1>0. TInv'
  BY NextT DEF Next
<1>1. PTypeOK'
  BY <1>0 DEF PInv, PTypeOK, pipe, TInv
<1>2. ASSUME NEW s \in Runs PROVE RunShape(s)'
  BY RunShapeFrame DEF PInv, pipe, Edit
<1> QED BY <1>0, <1>1, <1>2 DEF PInv

LEMMA QuietT == ASSUME TInv, PInv, UNCHANGED pvars PROVE TInv' /\ PInv'
<1>0. TInv'
  BY NextT DEF pvars
<1>1. PTypeOK'
  BY <1>0 DEF PInv, PTypeOK, pvars, pipe, TInv
<1>2. ASSUME NEW s \in Runs PROVE RunShape(s)'
  BY RunShapeFrame DEF PInv, pvars, vars, pipe
<1> QED BY <1>0, <1>1, <1>2 DEF PInv

LEMMA PNextT == TInv /\ PInv /\ [PNext]_pvars => TInv' /\ PInv'
<1> SUFFICES ASSUME TInv, PInv, [PNext]_pvars PROVE TInv' /\ PInv'
  OBVIOUS
<1>1. ASSUME NEW r \in Runs, Launch(r) \/ IndexFile(r) \/ BuildPool(r) \/ Reduce(r)
      PROVE  TInv' /\ PInv'
  <2>1. TInv'
    BY <1>1, NextT DEF Launch, IndexFile, BuildPool, Reduce
  <2> QED BY <1>1, <2>1, LaunchT, IndexFileT, BuildPoolT, ReduceT
<1>2. ASSUME NEW r \in Runs, Take(r) PROVE TInv' /\ PInv'
  BY <1>2, TakeT DEF Take
<1>3. ASSUME NEW r \in Runs, Work(r) PROVE TInv' /\ PInv'
  BY <1>3, WorkT DEF Work
<1>4. ASSUME NEW r \in Runs, Die(r) PROVE TInv' /\ PInv'
  BY <1>4, DiePT
<1>5. CASE Change
  BY <1>5, ChangeT DEF Change
<1>6. CASE UNCHANGED pvars
  BY <1>6, QuietT
<1> QED BY <1>1, <1>2, <1>3, <1>4, <1>5, <1>6 DEF PNext, Advance, Quiescent

\* Every variable of every reachable state has its type, and a run has an output
\* exactly when it succeeded: in every environment, whoever dies when.
THEOREM PipelineTypeCorrect == PSpec => []PTypeOK
<1>1. PInv => PTypeOK
  BY DEF PInv
<1> QED BY <1>1, PInitT, PNextT, PTL DEF PSpec

-----------------------------------------------------------------------------
\* The output of a run over unchanged files is that of a run without a cache.

LEMMA DieS == ASSUME TInv', IInv, NEW r \in Runs, Die(r) PROVE IInv'
<1>0. TypeOK
  BY DEF IInv, TInv
<1>1. TimesTell'
  BY <1>0, DieLocal DEF IInv, TimesTell
<1>2. DataSound'
  <2>1. \A i \in Inodes : data'[i] \in Entry => data'[i] = data[i]
    BY <1>0, DieData, SentinelAssumption
  <2> QED BY <1>0, <2>1, DieLocal
          DEF IInv, DataSound, SoundEntry, Vouches
<1>3. WindowOpen' /\ Fresh'
  BY <1>0, DieLocal DEF IInv, WindowOpen, Fresh, Live, Ended, Answered
<1>4. ASSUME NEW j \in Jobs PROVE JobSound(j)'
  <2>1. CASE pc'[j] = "crashed" /\ entry'[j] = NoEntry
    BY <2>1 DEF JobSound, Loading, Storing
  <2>2. CASE pc'[j] = pc[j] /\ entry'[j] = entry[j] /\ facts'[j] = facts[j]
             /\ stamp'[j] = stamp[j]
    BY <1>0, <2>2, DieLocal, JobSoundFrame, SMTT(30) DEF IInv
  <2> QED BY <1>0, <2>1, <2>2, DieLocal
<1> QED BY <1>1, <1>2, <1>3, <1>4 DEF IInv

LEMMA ColdKept ==
    ASSUME NEW s \in Runs,
           \A i \in DOMAIN Found[s] :
               disk'[<<RootOf(s), Found[s][i]>>].content = disk[<<RootOf(s), Found[s][i]>>].content
    PROVE  ColdFiles(s)' = ColdFiles(s)
BY ZenonT(60) DEF ColdFiles

\* Nothing happened to the answers of a run.
LEMMA ColdFrame ==
    ASSUME NEW s \in Runs, OutputIsCold, run'[s] = run[s], output'[s] = output[s],
           \A j \in JobsOf(s) :
               quiet'[j] => /\ quiet[j]
                            /\ Now(j, Task[j].path)'.content = Now(j, Task[j].path).content
    PROVE  run'[s] = "ok" /\ (\A j \in JobsOf(s) : quiet'[j]) =>
               output'[s].files = ColdFiles(s)'
<1> SUFFICES ASSUME run'[s] = "ok", \A j \in JobsOf(s) : quiet'[j]
             PROVE  output'[s].files = ColdFiles(s)'
  OBVIOUS
<1>1. output[s].files = ColdFiles(s)
  BY DEF OutputIsCold
<1>2. ASSUME NEW i \in DOMAIN Found[s]
      PROVE  disk'[<<RootOf(s), Found[s][i]>>].content = disk[<<RootOf(s), Found[s][i]>>].content
  <2>1. PICK j \in JobsOf(s) : Task[j].path = Found[s][i] /\ Task[j].root = RootOf(s)
    BY TaskAt
  <2> QED BY <2>1
<1> QED BY <1>1, <1>2, ColdKept

\* A run reduces the answers of its jobs to what the files say.
LEMMA ReduceCold ==
    ASSUME TInv, Fresh, QuietSeen, NEW r \in Runs,
           \A j \in JobsOf(r) : pc[j] \in {"hit", "miss"} /\ quiet[j]
    PROVE  ByPath(Results(r)) = ColdFiles(r)
<1> DEFINE c(i) == disk[<<RootOf(r), Found[r][i]>>].content
           known == UNION {Declares[c(i)] : i \in DOMAIN Found[r]}
<1>1. ASSUME NEW i \in DOMAIN Found[r]
      PROVE  /\ facts[<<r, i>>].content = c(i)
             /\ facts[<<r, i>>].path = Found[r][i]
  <2>1. <<r, i>> \in JobsOf(r) /\ <<r, i>> \in Jobs
    BY TaskAt
  <2>2. Task[<<r, i>>].path = Found[r][i] /\ Task[<<r, i>>].root = RootOf(r)
    BY TaskAt
  <2>3. Answered(<<r, i>>, facts[<<r, i>>])
    BY <2>1 DEF Fresh
  <2>4. seen[<<r, i>>][Task[<<r, i>>].path] = {Now(<<r, i>>, Task[<<r, i>>].path).content}
    BY <2>1 DEF QuietSeen
  <2> QED BY <2>2, <2>3, <2>4 DEF Answered
<1>2. KnownScopes(r) = known
  <2> HIDE DEF c
  <2>1. {Declares[facts[j].content] : j \in JobsOf(r)}
          = {Declares[facts[<<r, i>>].content] : i \in DOMAIN Found[r]}
    BY DEF JobsOf
  <2>3. \A i \in DOMAIN Found[r] : Declares[facts[<<r, i>>].content] = Declares[c(i)]
    BY <1>1
  <2>2. {Declares[facts[<<r, i>>].content] : i \in DOMAIN Found[r]}
          = {Declares[c(i)] : i \in DOMAIN Found[r]}
    BY <2>3
  <2> QED BY <2>1, <2>2 DEF KnownScopes
<1> HIDE DEF known, c
<1>3. ASSUME NEW i \in DOMAIN Found[r]
      PROVE  FileResult(r, <<r, i>>) = [path |-> Found[r][i], content |-> c(i),
                                        scopes |-> Uses[c(i)] \cap known]
  BY <1>1, <1>2 DEF FileResult
<1>4. Results(r) = [i \in DOMAIN Found[r] |-> [path |-> Found[r][i], content |-> c(i),
                                               scopes |-> Uses[c(i)] \cap known]]
  BY <1>3 DEF Results
<1> QED BY <1>4 DEF ColdFiles, known, c

\* Nothing touched the files of a job, or it is not quiet any more.
LEMMA QuietSeenFrame ==
    ASSUME QuietSeen, NEW j \in Jobs, quiet'[j] => quiet[j],
           pc'[j] # "idle" => pc[j] # "idle", seen'[j] = seen[j],
           Now(j, Task[j].path)' = Now(j, Task[j].path)
    PROVE  quiet'[j] /\ pc'[j] # "idle" =>
               seen'[j][Task[j].path] = {Now(j, Task[j].path)'.content}
BY DEF QuietSeen

LEMMA TakeC ==
    ASSUME ColdInv, NEW r \in Runs, NEW j \in JobsOf(r),
           run[r] = "work", StartWith(j, idx[r]), UNCHANGED pipe
    PROVE  ColdInv'
<1> USE DEF ColdInv
<1>0. TInv' /\ PInv' /\ TypeOK /\ j \in Jobs
  BY TakeT, JobIn DEF IInv, TInv
<1>1. IInv'
  BY <1>0, StartWithS
<1>2. /\ UNCHANGED disk /\ \A i \in Jobs \ {j} : pc'[i] = pc[i] /\ seen'[i] = seen[i]
      /\ \A i \in Jobs \ {j} : quiet'[i] => quiet[i]
      /\ seen'[j] = [p \in Paths |-> {Now(j, p).content}]
  BY <1>0 DEF StartWith, TypeOK
<1>3. QuietSeen'
  <2>1. ASSUME NEW i \in Jobs \ {j}, quiet'[i] /\ pc'[i] # "idle"
        PROVE  seen'[i][Task[i].path] = {Now(i, Task[i].path)'.content}
    BY <1>2, <2>1, QuietSeenFrame
  <2>2. seen'[j][Task[j].path] = {Now(j, Task[j].path)'.content}
    BY <1>0, <1>2, TaskType
  <2> QED BY <2>1, <2>2 DEF QuietSeen
<1>4. OutputIsCold'
  <2>1. ASSUME NEW s \in Runs PROVE run'[s] = "ok" /\ (\A i \in JobsOf(s) : quiet'[i]) =>
                                        output'[s].files = ColdFiles(s)'
    <3>1. CASE s = r
      BY <3>1 DEF pipe
    <3>2. CASE s # r
      BY <1>2, <3>2, OtherJob, ColdFrame DEF pipe
    <3> QED BY <3>1, <3>2
  <2> QED BY <2>1 DEF OutputIsCold
<1> QED BY <1>0, <1>1, <1>3, <1>4

\* Steps that leave the files and the history alone, and the runs' results.
LEMMA InnerC ==
    ASSUME ColdInv, UNCHANGED <<disk, seen, quiet>>,
           \A j \in Jobs : pc'[j] # "idle" => pc[j] # "idle",
           \A s \in Runs : run'[s] = "ok" => run[s] = "ok" /\ output'[s] = output[s]
    PROVE  QuietSeen' /\ OutputIsCold'
<1> USE DEF ColdInv
<1>1. QuietSeen'
  BY DEF QuietSeen
<1>2. ASSUME NEW s \in Runs, run'[s] = "ok", \A j \in JobsOf(s) : quiet'[j]
      PROVE  output'[s].files = ColdFiles(s)'
  <2>1. run'[s] = run[s] /\ output'[s] = output[s]
    BY <1>2
  <2> QED BY <1>2, <2>1, ColdFrame
<1> QED BY <1>1, <1>2 DEF OutputIsCold

LEMMA WorkC ==
    ASSUME SafeEnvironment, ColdInv, NEW r \in Runs, NEW j \in JobsOf(r), Step(j),
           UNCHANGED pipe
    PROVE  ColdInv'
<1> USE DEF ColdInv
<1>0. TInv' /\ PInv' /\ TInv /\ TypeOK /\ j \in Jobs
  BY WorkT, JobIn DEF IInv, TInv
<1>1. IInv'
  BY <1>0, NextS DEF Next
<1>2. /\ Live(j) /\ UNCHANGED <<disk, seen, quiet>>
      /\ \A i \in Jobs \ {j} : pc'[i] = pc[i]
  BY <1>0, StepLocal
<1>3. QuietSeen' /\ OutputIsCold'
  BY <1>2, InnerC DEF Live, pipe
<1> QED BY <1>0, <1>1, <1>3

LEMMA DieC == ASSUME ColdInv, NEW r \in Runs, Die(r) PROVE ColdInv'
<1> USE DEF ColdInv
<1>0. TInv' /\ PInv' /\ TInv /\ TypeOK
  BY DiePT DEF IInv, TInv
<1>1. IInv'
  BY <1>0, DieS
<1>2. /\ UNCHANGED <<disk, seen, quiet>>
      /\ \A j \in Jobs : pc'[j] # "idle" => pc[j] # "idle"
  BY <1>0, DieLocal DEF Live
<1>3. \A s \in Runs : run'[s] = "ok" => run[s] = "ok" /\ output'[s] = output[s]
  BY DEF Die, PInv, PTypeOK
<1>4. QuietSeen' /\ OutputIsCold'
  BY <1>2, <1>3, InnerC
<1> QED BY <1>0, <1>1, <1>4

LEMMA ChangeC ==
    ASSUME SafeEnvironment, ColdInv, NEW q \in Roots, NEW p \in Paths, Edit(q, p),
           UNCHANGED pipe
    PROVE  ColdInv'
<1> USE DEF ColdInv
<1>0. TInv' /\ PInv' /\ TInv /\ TypeOK
  BY ChangeT DEF IInv, TInv
<1>1. IInv'
  BY NextS DEF Next
<1>2. pc' = pc /\ \A f \in Files \ {<<q, p>>} : disk'[f] = disk[f]
  BY <1>0, EditSeen
<1>3. \A j \in Jobs : quiet'[j] => quiet[j] /\ ~Touches(j, q, p)
  <2>1. quiet' = [j \in Jobs |-> quiet[j] /\ ~Touches(j, q, p)]
    BY DEF Edit
  <2> QED BY <2>1, Zenon
<1>4. ASSUME NEW j \in Jobs, quiet'[j], pc[j] # "idle"
      PROVE  /\ Now(j, Task[j].path)' = Now(j, Task[j].path)
             /\ seen'[j][Task[j].path] = seen[j][Task[j].path]
  <2>1. <<Task[j].root, Task[j].path>> # <<q, p>>
    BY <1>3, <1>4 DEF Touches, Related
  <2>2. <<Task[j].root, Task[j].path>> \in Files /\ Task[j].path \in Paths
    BY TaskType
  <2>3. \/ seen'[j] = seen[j]
        \/ Task[j].root = q /\ \E c : seen'[j] = [seen[j] EXCEPT ![p] = @ \cup {c}]
    BY DEF Edit
  <2>4. disk'[<<Task[j].root, Task[j].path>>] = disk[<<Task[j].root, Task[j].path>>]
    BY <1>2, <2>1, <2>2
  <2>5. seen[j] \in [Paths -> SUBSET Versions]
    BY <1>0 DEF TypeOK
  <2>6. seen'[j][Task[j].path] = seen[j][Task[j].path]
    BY <2>1, <2>2, <2>3, <2>5
  <2> QED BY <2>4, <2>6
<1>5. QuietSeen'
  BY <1>2, <1>3, <1>4 DEF QuietSeen
<1>6. ASSUME NEW s \in Runs, run'[s] = "ok", \A j \in JobsOf(s) : quiet'[j]
      PROVE  output'[s].files = ColdFiles(s)'
  <2>1. run'[s] = run[s] /\ output'[s] = output[s] /\ run[s] = "ok"
    BY <1>6 DEF pipe
  <2>2. \A j \in JobsOf(s) : j \in Jobs /\ pc[j] # "idle"
    BY <2>1, JobIn DEF PInv, RunShape
  <2> QED BY <1>3, <1>4, <1>6, <2>1, <2>2, ColdFrame
<1>7. OutputIsCold'
  BY <1>6 DEF OutputIsCold
<1> QED BY <1>0, <1>1, <1>5, <1>7

LEMMA ReduceC == ASSUME SafeEnvironment, ColdInv, NEW r \in Runs, Reduce(r) PROVE ColdInv'
<1> USE DEF ColdInv
<1>0. TInv' /\ PInv' /\ TInv /\ UNCHANGED vars
  BY ReduceT, NextT DEF IInv, Reduce
<1>1. IInv'
  BY <1>0, NextS
<1>2. QuietSeen'
  BY <1>0 DEF vars, QuietSeen
<1>3. ASSUME NEW s \in Runs, run'[s] = "ok", \A j \in JobsOf(s) : quiet'[j]
      PROVE  output'[s].files = ColdFiles(s)'
  <2>0. ColdFiles(s)' = ColdFiles(s)
    BY <1>0, ColdKept DEF vars
  <2>1. CASE /\ s = r /\ output' = [output EXCEPT ![r] = Summary(r)]
             /\ \A j \in JobsOf(r) : pc[j] \in {"hit", "miss"}
    <3>0. \A j \in JobsOf(r) : pc[j] \in {"hit", "miss"} /\ quiet[j]
      BY <1>0, <1>3, <2>1 DEF vars
    <3>1. ByPath(Results(r)) = ColdFiles(r)
      BY <3>0, <1>0, ReduceCold DEF IInv
    <3>2. output'[r] = Summary(r)
      BY <2>1 DEF PInv, PTypeOK
    <3>3. Summary(r).files = ByPath(Results(r))
      BY DEF Summary
    <3> QED BY <2>0, <2>1, <3>1, <3>2, <3>3
  <2>2. CASE s # r
    <3>1. run'[s] = run[s] /\ output'[s] = output[s] /\ UNCHANGED quiet /\ UNCHANGED disk
      BY <1>0, <2>2 DEF vars, Reduce, PInv, PTypeOK
    <3> QED BY <1>3, <3>1, ColdFrame
  <2>3. CASE s = r /\ run' = [run EXCEPT ![r] = "error"]
    BY <1>3, <2>3 DEF PInv, PTypeOK
  <2> QED BY <2>1, <2>2, <2>3 DEF Reduce
<1>4. OutputIsCold'
  BY <1>3 DEF OutputIsCold
<1> QED BY <1>0, <1>1, <1>2, <1>4

LEMMA PInitC == PInit => ColdInv
<1> SUFFICES ASSUME PInit PROVE ColdInv
  OBVIOUS
<1>1. IInv /\ PInv
  BY InitS, PInitT DEF PInit
<1>2. QuietSeen /\ OutputIsCold
  BY DEF PInit, Init, QuietSeen, OutputIsCold
<1> QED BY <1>1, <1>2 DEF ColdInv

LEMMA PNextC == SafeEnvironment /\ ColdInv /\ [PNext]_pvars => ColdInv'
<1> SUFFICES ASSUME SafeEnvironment, ColdInv, [PNext]_pvars PROVE ColdInv'
  OBVIOUS
<1>0. TInv' /\ PInv' /\ TInv /\ PInv
  BY PNextT DEF ColdInv, IInv
<1>1. ASSUME UNCHANGED vars,
             \A s \in Runs : run'[s] = "ok" => run[s] = "ok" /\ output'[s] = output[s]
      PROVE  ColdInv'
  <2>1. IInv'
    BY <1>1, NextS DEF ColdInv
  <2>2. QuietSeen' /\ OutputIsCold'
    BY <1>1, InnerC DEF vars
  <2> QED BY <1>0, <2>1, <2>2 DEF ColdInv
<1>2. ASSUME NEW r \in Runs, Launch(r) \/ IndexFile(r) \/ BuildPool(r) PROVE ColdInv'
  <2>1. UNCHANGED vars /\ output' = output
    BY <1>2 DEF Launch, IndexFile, BuildPool
  <2>2. \A s \in Runs : run'[s] = "ok" => run[s] = "ok"
    BY <1>0, <1>2 DEF Launch, IndexFile, BuildPool, PInv, PTypeOK
  <2> QED BY <1>1, <2>1, <2>2
<1>3. ASSUME NEW r \in Runs, Take(r) PROVE ColdInv'
  BY <1>3, TakeC DEF Take
<1>4. ASSUME NEW r \in Runs, Work(r) PROVE ColdInv'
  BY <1>4, WorkC DEF Work
<1>5. ASSUME NEW r \in Runs, Reduce(r) \/ Die(r) PROVE ColdInv'
  BY <1>5, ReduceC, DieC
<1>6. CASE Change
  BY <1>6, ChangeC DEF Change
<1>7. CASE UNCHANGED pvars
  BY <1>1, <1>7 DEF pvars, pipe
<1> QED BY <1>2, <1>3, <1>4, <1>5, <1>6, <1>7 DEF PNext, Advance, Quiescent

\* A run over files that stayed as they were returns what a run without workers
\* and cache makes of them: with any number of runs at the same time, of workers
\* and of projects that share the cache, with crashes and with a failing disk.
THEOREM CacheIsInvisible == ASSUME SafeEnvironment PROVE PSpec => []OutputIsCold
<1>1. ColdInv => OutputIsCold
  BY DEF ColdInv
<1> QED BY <1>1, PInitC, PNextC, PTL DEF PSpec

-----------------------------------------------------------------------------
(* Runs that follow one another on a disk that works: none fails unless a    *)
(* file is edited, and the second one hits.                                  *)

\* The death of a process spoils no entry: what it was writing had no name yet.
LEMMA DieKeeps ==
    ASSUME PublishInv, NEW r \in Runs, Die(r), NEW k \in Keys
    PROVE  /\ slot[k] # NoInode => data'[slot[k]] = data[slot[k]]
           /\ temp[k] # NoInode /\ data'[temp[k]] # data[temp[k]] =>
                \E j \in JobsOf(r) : pc[j] = "write" /\ Key(j) = k
<1> USE DEF PublishInv, TInv, TypeOK
<1>0. ASSUME NEW i \in Inodes, data'[i] # data[i]
      PROVE  \E j \in JobsOf(r) : pc[j] = "write" /\ i = temp[Key(j)] /\ i # NoInode
  <2>1. PICK j \in JobsOf(r) : pc[j] = "write" /\ fd[j] = i
    BY <1>0, DieData
  <2>2. j \in Jobs
    BY JobIn
  <2> QED BY <2>1, <2>2, SentinelAssumption DEF WriterAlone
<1>1. ASSUME slot[k] # NoInode, data'[slot[k]] # data[slot[k]] PROVE FALSE
  <2>1. PICK j \in JobsOf(r) : slot[k] = temp[Key(j)]
    BY <1>0, <1>1
  <2>2. Key(j) \in Keys
    BY JobIn, TaskType
  <2> QED BY <1>1, <2>1, <2>2 DEF TempsApart
<1>2. ASSUME temp[k] # NoInode, data'[temp[k]] # data[temp[k]]
      PROVE  \E j \in JobsOf(r) : pc[j] = "write" /\ Key(j) = k
  <2>1. PICK j \in JobsOf(r) : pc[j] = "write" /\ temp[k] = temp[Key(j)]
    BY <1>0, <1>2
  <2>2. Key(j) \in Keys
    BY JobIn, TaskType
  <2> QED BY <1>2, <2>1, <2>2 DEF TempsApart
<1> QED BY <1>1, <1>2

LEMMA DieP == ASSUME PublishInv, NEW r \in Runs, Die(r) PROVE PublishInv'
<1> USE DEF PublishInv
<1>0. TInv' /\ TypeOK
  BY DieT DEF TInv
<1>1. Exclusive' /\ TempsApart'
  BY <1>0, DieLocal DEF Exclusive, TempsApart, Live, Ended
<1>2. \A k \in Keys : slot'[k] # NoInode => data'[slot'[k]] \in Entry
  BY <1>0, DieLocal, DieKeeps
<1>3. ASSUME NEW i \in Jobs PROVE WriterAlone(i)'
  <2> SUFFICES ASSUME pc'[i] \in {"write", "rename"} PROVE WriterAlone(i)'
    BY DEF WriterAlone
  <2>1. /\ ~(i \in JobsOf(r) /\ Live(i)) /\ UNCHANGED <<slot, temp>>
        /\ pc'[i] = pc[i] /\ facts'[i] = facts[i] /\ fd'[i] = fd[i]
        /\ stamp'[i] = stamp[i] /\ deps'[i] = deps[i]
    BY <1>0, DieLocal
  <2>2. Live(i) /\ Key(i) \in Keys /\ WriterAlone(i)
    BY <2>1, TaskType DEF Live, Ended
  <2>3. ASSUME temp[Key(i)] # NoInode PROVE data'[temp[Key(i)]] = data[temp[Key(i)]]
    <3>1. ASSUME NEW j \in JobsOf(r), pc[j] = "write", Key(j) = Key(i) PROVE FALSE
      <4>1. j \in Jobs /\ Live(j)
        BY <3>1, JobIn DEF Live, Ended
      <4> QED BY <2>1, <2>2, <3>1, <4>1 DEF Exclusive
    <3> QED BY <2>2, <2>3, <3>1, DieKeeps
  <2>4. pc[i] = "write" => fd[i] # NoInode
    BY SentinelAssumption DEF TInv, Shape
  <2> QED BY <2>1, <2>2, <2>3, <2>4 DEF WriterAlone, Payload
<1> QED BY <1>0, <1>1, <1>2, <1>3

LEMMA DieF == ASSUME FailInv, NEW r \in Runs, Die(r) PROVE FailInv'
<1> USE DEF FailInv
<1>0. TypeOK /\ PublishInv'
  BY DieP DEF PublishInv, TInv
<1>1. WindowOpen' /\ FailsOnlyIfFileVanished'
  BY <1>0, DieLocal DEF WindowOpen, FailsOnlyIfFileVanished, Live, Ended
<1> QED BY <1>0, <1>1, DieLocal

LEMMA DieWarm == ASSUME WarmInv, NEW r \in Runs, Die(r) PROVE WarmInv'
<1> USE DEF WarmInv
<1>0. TInv /\ TypeOK /\ PublishInv'
  BY DieP DEF PublishInv, TInv
<1>1. UNCHANGED <<disk, clock, slot, temp, index, seen, quiet, warm>>
  BY <1>0, DieLocal
<1>2. ASSUME NEW i \in Jobs PROVE QuietSound(i)' /\ WarmSound(i)' /\ Tidy(i)'
  <2>0. slot[Key(i)] # NoInode => data'[slot[Key(i)]] = data[slot[Key(i)]]
    BY DieKeeps, TaskType
  <2>1. CASE /\ Live(i) /\ pc'[i] = "crashed" /\ entry'[i] = NoEntry
             /\ stamp'[i] = NoStamp /\ todo'[i] = {} /\ deps'[i] = {}
    BY <1>1, <2>1 DEF QuietSound, WarmSound, Tidy, Stored, Storing, Live, Ended
  <2>2. CASE /\ pc'[i] = pc[i] /\ entry'[i] = entry[i] /\ facts'[i] = facts[i]
             /\ at'[i] = at[i] /\ part'[i] = part[i]
             /\ stamp'[i] = stamp[i] /\ todo'[i] = todo[i] /\ deps'[i] = deps[i]
    <3>1. QuietSound(i)'
      <4>1. Stored(i) => slot[Key(i)] # NoInode
        BY DEF QuietSound
      <4> QED BY <1>0, <1>1, <2>0, <2>2, <4>1, QuietFrame
    <3>2. WarmSound(i)'
      BY <1>0, <1>1, <2>0, <2>2, WarmFrame
    <3> QED BY <1>1, <2>2, <3>1, <3>2 DEF Tidy
  <2> QED BY <1>0, <2>1, <2>2, DieLocal
<1>3. OthersWarm'
  <2>1. \A i \in Jobs : /\ Live(i)' => Live(i)
                        /\ Stored(i)' => Stored(i)
    BY <1>0, DieLocal DEF Live, Ended, Stored
  <2> QED BY <1>1, <2>1 DEF OthersWarm
<1> QED BY <1>0, <1>2, <1>3

-----------------------------------------------------------------------------
\* A worker that takes a file is the only one at that file's entry.
LEMMA TakesAlone ==
    ASSUME Orderly, PInv, Single, NEW r \in Runs, run[r] = "work",
           NEW j \in JobsOf(r), pc[j] = "idle", NEW i \in Jobs, Live(i)
    PROVE  Key(i) # Key(j)
<1>1. PICK s \in Runs : i \in JobsOf(s)
  BY OwnerOf
<1>2. s = r
  BY <1>1, LiveJob DEF Single, Active
<1>3. i # j /\ i = <<r, i[2]>> /\ j = <<r, j[2]>>
  BY <1>1, <1>2, JobOf DEF Live
<1>4. i[2] # j[2] /\ i[2] \in DOMAIN Found[r] /\ j[2] \in DOMAIN Found[r]
  <2>1. i[2] # j[2]
    BY <1>3, Zenon
  <2> QED BY <1>1, <1>2, <2>1, JobOf
<1>5. Task[i].path = Found[r][i[2]] /\ Task[j].path = Found[r][j[2]]
  BY <1>1, <1>2, JobOf
<1>6. Found[r][i[2]] # Found[r][j[2]]
  BY <1>4 DEF Orderly
<1> QED BY <1>5, <1>6

LEMMA SingleKept ==
    ASSUME Single, \A s \in Runs : Active(s)' => Active(s)
    PROVE  Single'
BY DEF Single

LEMMA IndexAgreesFrame ==
    ASSUME NEW r \in Runs, IndexAgrees(r), Active(r)' => Active(r),
           idx'[r] = idx[r], next'[r] = next[r],
           \A i \in Jobs : Stored(i)' => Stored(i) /\ index'[i] = index[i]
    PROVE  IndexAgrees(r)'
BY DEF IndexAgrees

LEMMA WarmRunHitsFrame ==
    ASSUME WarmRunHits, NEW r \in Runs, run'[r] = "ok" => run[r] = "ok",
           output'[r] = output[r],
           run[r] = "ok" => \A j \in JobsOf(r) : warm'[j] => warm[j]
    PROVE  run'[r] = "ok" =>
             /\ output'[r].hits + output'[r].misses = Len(output'[r].files)
             /\ (\A j \in JobsOf(r) : warm'[j]) => output'[r].misses = 0
BY DEF WarmRunHits

LEMMA Position ==
    ASSUME NEW r \in Runs, NEW j \in JobsOf(r)
    PROVE  /\ j[2] \in Nat /\ ~(j[2] < 1)
           /\ Task[j].path = Found[r][j[2]] /\ Task[j].path \in Paths
           /\ Task[j].root = RootOf(r)
<1>1. PICK n : n = j[2]
  OBVIOUS
<1>2. n \in 1 .. Len(Found[r]) /\ Len(Found[r]) \in Nat
  BY <1>1, JobOf, Zenon
<1>3. n \in Nat /\ ~(n < 1)
  BY <1>2
<1>4. /\ Task[j].path = Found[r][j[2]] /\ Found[r][j[2]] \in Paths
      /\ Task[j].root = RootOf(r)
  BY JobOf, Zenon
<1> QED BY <1>1, <1>3, <1>4

\* Launch, IndexFile, BuildPool and Reduce leave the jobs alone.
LEMMA RunSteps ==
    ASSUME OrderlyInv, NEW r \in Runs, UNCHANGED vars, PInv',
           \A s \in Runs \ {r} : run'[s] = run[s] /\ next'[s] = next[s]
                                 /\ idx'[s] = idx[s] /\ output'[s] = output[s],
           Single', IndexAgrees(r)', run'[r] = "error" => clock > 0,
           run'[r] = "ok" =>
             /\ output'[r].hits + output'[r].misses = Len(output'[r].files)
             /\ (\A j \in JobsOf(r) : warm[j]) => output'[r].misses = 0
    PROVE  OrderlyInv'
<1> USE DEF OrderlyInv
<1>1. FailInv' /\ WarmInv'
  BY StutterF, StutterWarm
<1>2. Unedited' /\ UneditedSucceeds'
  BY DEF vars, Unedited, UneditedSucceeds
<1>3. ASSUME NEW s \in Runs PROVE IndexAgrees(s)'
  <2>1. \A i \in Jobs : Stored(i)' => Stored(i) /\ index'[i] = index[i]
    BY DEF vars, Stored
  <2> QED BY <2>1, IndexAgreesFrame DEF Active
<1>4. WarmRunHits'
  BY DEF vars, WarmRunHits
<1> QED BY <1>1, <1>2, <1>3, <1>4

LEMMA LaunchW ==
    ASSUME Orderly, OrderlyInv, NEW r \in Runs, Launch(r), PInv'
    PROVE  OrderlyInv'
<1> USE DEF OrderlyInv
<1>1. /\ run' = [run EXCEPT ![r] = "index"] /\ DOMAIN run = Runs
      /\ UNCHANGED <<vars, next, idx, output>> /\ next[r] = 1
  BY DEF Launch, PInv, PTypeOK, RunShape
<1>2. Single'
  BY <1>1 DEF Launch, Orderly, Active, Single
<1>3. IndexAgrees(r)'
  <2>1. \A j \in JobsOf(r) : ~(j[2] < 1)
    BY Position
  <2> QED BY <1>1, <2>1 DEF IndexAgrees
<1> QED BY <1>1, <1>2, <1>3, RunSteps

LEMMA BuildPoolW ==
    ASSUME OrderlyInv, NEW r \in Runs, BuildPool(r), PInv'
    PROVE  OrderlyInv'
<1> USE DEF OrderlyInv
<1>1. /\ run' = [run EXCEPT ![r] = "work"] /\ run[r] = "index"
      /\ UNCHANGED <<vars, next, idx, output>>
      /\ \A s \in Runs : Active(s)' => Active(s)
  BY DEF BuildPool, PInv, PTypeOK, Active
<1>2. Single'
  BY <1>1, SingleKept
<1>3. IndexAgrees(r)'
  BY <1>1, IndexAgreesFrame DEF vars, Stored
<1>4. \A s \in Runs \ {r} : run'[s] = run[s]
  BY <1>1 DEF PInv, PTypeOK
<1>5. run'[r] = "work"
  BY <1>1 DEF PInv, PTypeOK
<1> QED BY <1>1, <1>2, <1>3, <1>4, <1>5, RunSteps

LEMMA IndexFileW ==
    ASSUME OrderlyInv, NEW r \in Runs, IndexFile(r), PInv'
    PROVE  OrderlyInv'
<1> USE DEF OrderlyInv
<1> DEFINE p == Found[r][next[r]]
           v == disk[<<RootOf(r), p>>].content
<1>0. /\ run[r] = "index" /\ UNCHANGED <<vars, output>>
      /\ next[r] \in 1 .. Len(Found[r]) /\ next[r] \in DOMAIN Found[r] /\ p \in Paths
  BY PipelineAssumption DEF IndexFile, PInv, PTypeOK
<1>1. /\ <<RootOf(r), p>> \in Files
  <2>1. Task[<<r, next[r]>>].path = p /\ Task[<<r, next[r]>>].root = RootOf(r)
    BY <1>0, TaskAt
  <2>2. <<r, next[r]>> \in Jobs
    BY <1>0, TaskAt
  <2> QED BY <2>1, <2>2, TaskType DEF Files
<1>2. CASE v = Absent /\ run' = [run EXCEPT ![r] = "error"] /\ UNCHANGED <<next, idx>>
  <2>1. /\ run'[r] = "error" /\ ~Active(r)' /\ \A s \in Runs : Active(s)' => Active(s)
        /\ \A s \in Runs \ {r} : run'[s] = run[s]
    BY <1>2 DEF PInv, PTypeOK, Active
  <2>2. clock > 0
    BY <1>1, <1>2, FilesAssumption DEF Unedited, PInv, PTypeOK, TypeOK
  <2>3. Single' /\ IndexAgrees(r)'
    BY <2>1, SingleKept DEF IndexAgrees
  <2> QED BY <1>0, <1>2, <2>1, <2>2, <2>3, RunSteps
<1>3. CASE idx' = [idx EXCEPT ![r][p] = v] /\ next' = [next EXCEPT ![r] = @ + 1]
           /\ UNCHANGED run
  <2>1. /\ idx'[r] = [idx[r] EXCEPT ![p] = v] /\ next'[r] = next[r] + 1
        /\ \A s \in Runs \ {r} : idx'[s] = idx[s] /\ next'[s] = next[s]
        /\ idx[r] \in [Paths -> Versions] /\ next[r] \in Nat
    BY <1>3 DEF PInv, PTypeOK
  <2>2. Single' /\ Active(r)
    BY <1>0, <1>3, SingleKept DEF Active
  <2>3. ASSUME NEW i \in Jobs, NEW j \in JobsOf(r), Stored(i), Task[i] = Task[j],
               j[2] < next[r] + 1
        PROVE  idx'[r][Task[j].path] = index[i][Task[i].path]
    <3>1. /\ Task[j].path = Found[r][j[2]] /\ Task[j].path \in Paths /\ j[2] \in Nat
          /\ Task[j].root = RootOf(r)
      BY Position
    <3>2. CASE Task[j].path = p
      <4>1. Now(i, Task[i].path).content = index[i][Task[i].path]
        BY <2>3 DEF Stored, WarmInv, QuietSound
      <4> QED BY <2>1, <2>3, <3>1, <3>2, <4>1
    <3>3. CASE Task[j].path # p
      <4>1. j[2] < next[r]
        BY <2>1, <2>3, <3>1, <3>3
      <4> QED BY <2>1, <2>2, <2>3, <3>1, <3>3, <4>1 DEF IndexAgrees
    <3> QED BY <3>2, <3>3
  <2> HIDE DEF p, v
  <2>4. IndexAgrees(r)'
    BY <1>0, <2>1, <2>3 DEF IndexAgrees, vars, Stored
  <2> QED BY <1>0, <1>3, <2>1, <2>2, <2>4, RunSteps
<1> QED BY <1>2, <1>3 DEF IndexFile

LEMMA ReduceW ==
    ASSUME OrderlyInv, NEW r \in Runs, Reduce(r), PInv'
    PROVE  OrderlyInv'
<1> USE DEF OrderlyInv
<1>1. /\ UNCHANGED <<vars, next, idx>> /\ run'[r] \in {"ok", "error"}
      /\ \A s \in Runs \ {r} : run'[s] = run[s] /\ output'[s] = output[s]
      /\ ~Active(r)' /\ \A s \in Runs : Active(s)' => Active(s)
  BY DEF Reduce, PInv, PTypeOK, Active
<1>2. Single' /\ IndexAgrees(r)'
  BY <1>1, SingleKept DEF IndexAgrees
<1>3. ASSUME Failed(r) PROVE clock > 0
  <2>1. PICK j \in Jobs : pc[j] = "failed"
    BY <1>3, JobIn DEF Failed
  <2>2. PICK p \in Paths : Absent \in seen[j][p]
    BY <2>1 DEF FailInv, FailsOnlyIfFileVanished
  <2> QED BY <2>2 DEF Unedited, PInv, PTypeOK, TypeOK
<1>4. ASSUME \A j \in JobsOf(r) : pc[j] \in {"hit", "miss"}
      PROVE  /\ Summary(r).hits + Summary(r).misses = Len(Summary(r).files)
             /\ (\A j \in JobsOf(r) : warm[j]) => Summary(r).misses = 0
  <2>1. TInv
    BY DEF FailInv, PublishInv
  <2>2. ASSUME \A j \in JobsOf(r) : warm[j] PROVE Summary(r).misses = 0
    <3>1. \A j \in JobsOf(r) : pc[j] = "hit"
      BY <1>4, <2>2, JobIn DEF WarmInv, WarmSound
    <3>2. {j \in JobsOf(r) : pc[j] # "hit"} = {}
      BY <3>1
    <3> QED BY <3>2, FS_EmptySet DEF Summary
  <2> QED BY <1>4, <2>1, <2>2, SummaryType
<1>5. CASE Failed(r) /\ run' = [run EXCEPT ![r] = "error"] /\ UNCHANGED output
  <2>1. run'[r] = "error"
    BY <1>5 DEF PInv, PTypeOK
  <2> QED BY <1>1, <1>2, <1>3, <1>5, <2>1, RunSteps
<1>6. CASE /\ \A j \in JobsOf(r) : pc[j] \in {"hit", "miss"}
           /\ run' = [run EXCEPT ![r] = "ok"]
           /\ output' = [output EXCEPT ![r] = Summary(r)]
  <2>1. run'[r] = "ok" /\ output'[r] = Summary(r)
    BY <1>6 DEF PInv, PTypeOK
  <2> QED BY <1>1, <1>2, <1>4, <1>6, <2>1, RunSteps
<1> QED BY <1>5, <1>6 DEF Reduce

\* Steps of the jobs leave the runs alone: what they may disturb.
LEMMA JobSteps ==
    ASSUME OrderlyInv, UNCHANGED pipe, PInv', FailInv', WarmInv', Unedited',
           \A r \in Runs : IndexAgrees(r)', clock > 0 => clock' > 0,
           \A r \in Runs : run[r] = "ok" => \A j \in JobsOf(r) : warm'[j] => warm[j]
    PROVE  OrderlyInv'
<1> USE DEF OrderlyInv
<1>1. UneditedSucceeds' /\ Single'
  BY DEF pipe, UneditedSucceeds, Single, Active
<1>2. WarmRunHits'
  <2>1. ASSUME NEW r \in Runs
        PROVE  run'[r] = "ok" =>
                 /\ output'[r].hits + output'[r].misses = Len(output'[r].files)
                 /\ (\A j \in JobsOf(r) : warm'[j]) => output'[r].misses = 0
    BY WarmRunHitsFrame DEF pipe
  <2> QED BY <2>1 DEF WarmRunHits
<1> QED BY <1>1, <1>2

LEMMA TakeW ==
    ASSUME Orderly, OrderlyInv, NEW r \in Runs, NEW j \in JobsOf(r),
           run[r] = "work", StartWith(j, idx[r]), UNCHANGED pipe, TInv', PInv'
    PROVE  OrderlyInv'
<1> USE DEF OrderlyInv
<1>1. /\ pc[j] = "idle" /\ pc'[j] \in {"read", "parse"} /\ j \in Jobs
      /\ \A i \in Jobs \ {j} : pc'[i] = pc[i] /\ index'[i] = index[i]
      /\ idx[r] \in [Paths -> Versions] /\ Active(r)
  BY TakeLocal DEF Active
<1>2. \A i \in Jobs : Live(i) => Key(i) # Key(j)
  BY <1>1, TakesAlone
<1>3. FailInv'
  BY <1>1, <1>2, StartF
<1>4. WarmInv'
  <2>1. ASSUME NEW i \in Jobs, Stored(i), Task[i] = Task[j]
        PROVE  idx[r][Task[j].path] = index[i][Task[i].path]
    <3>1. PICK n : n = j[2]
      OBVIOUS
    <3>2. n \in 1 .. Len(Found[r]) /\ Len(Found[r]) \in Nat
      BY <3>1, JobOf, Zenon
    <3>3. next[r] > Len(Found[r]) /\ next[r] \in Nat
      BY DEF PInv, PTypeOK, RunShape
    <3>4. n < next[r]
      BY <3>2, <3>3
    <3> QED BY <1>1, <2>1, <3>1, <3>4 DEF IndexAgrees
  <2> QED BY <1>1, <1>2, <2>1, StartWarm
<1>5. /\ UNCHANGED <<disk, clock>>
      /\ seen' = [seen EXCEPT ![j] = [p \in Paths |-> {Now(j, p).content}]]
      /\ \A i \in Jobs \ {j} : warm'[i] = warm[i] /\ (quiet'[i] => quiet[i])
  BY DEF StartWith, FailInv, PublishInv, TInv, TypeOK
<1>6. Unedited'
  <2>1. \A p \in Paths : <<Task[j].root, p>> \in Files
    BY <1>1, TaskType DEF Files
  <2> QED BY <1>5, <2>1, FilesAssumption DEF Unedited, FailInv, PublishInv, TInv, TypeOK
<1>7. \A s \in Runs : IndexAgrees(s)'
  <2>1. \A i \in Jobs : Stored(i)' => Stored(i) /\ index'[i] = index[i]
    BY <1>1, <1>5 DEF Stored
  <2> QED BY <2>1, IndexAgreesFrame DEF pipe, Active
<1>8. \A s \in Runs : run[s] = "ok" => \A i \in JobsOf(s) : warm'[i] => warm[i]
  BY <1>5, OtherJob
<1> QED BY <1>3, <1>4, <1>5, <1>6, <1>7, <1>8, JobSteps

LEMMA WorkW ==
    ASSUME Orderly, OrderlyInv, NEW r \in Runs, NEW j \in JobsOf(r),
           Step(j), UNCHANGED pipe, TInv', PInv'
    PROVE  OrderlyInv'
<1> USE DEF OrderlyInv
<1>1. j \in Jobs /\ TypeOK
  BY JobIn DEF FailInv, PublishInv, TInv
<1>2. /\ Live(j) /\ UNCHANGED <<disk, clock, index, seen, quiet, warm>>
      /\ \A i \in Jobs \ {j} : pc'[i] = pc[i]
  BY <1>1, StepLocal
<1>3. FailInv' /\ WarmInv'
  BY <1>1, StepF, StepWarm DEF Orderly
<1>4. Unedited'
  BY <1>2 DEF Unedited
<1>5. index[j] = idx[r] /\ Active(r)
  BY <1>2, LiveJob
<1>6. ASSUME NEW s \in Runs PROVE IndexAgrees(s)'
  <2> SUFFICES ASSUME Active(s), NEW i \in Jobs, NEW k \in JobsOf(s), Stored(i)',
                      Task[i] = Task[k], k[2] < next[s]
               PROVE  idx[s][Task[k].path] = index[i][Task[i].path]
    BY <1>2 DEF IndexAgrees, pipe, Active
  <2>1. CASE i = j
    BY <1>5, <2>1 DEF Single
  <2>2. CASE i # j
    <3>1. Stored(i)
      BY <1>2, <2>2 DEF Stored
    <3> QED BY <3>1 DEF IndexAgrees
  <2> QED BY <2>1, <2>2
<1> QED BY <1>2, <1>3, <1>4, <1>6, JobSteps

LEMMA DieW == ASSUME OrderlyInv, NEW r \in Runs, Die(r), PInv' PROVE OrderlyInv'
<1> USE DEF OrderlyInv
<1>1. TypeOK
  BY DEF FailInv, PublishInv, TInv
<1>2. /\ UNCHANGED <<disk, clock, index, seen, quiet, warm, next, idx, output>>
      /\ \A i \in Jobs : pc'[i] = "miss" => pc[i] = "miss"
  BY <1>1, DieLocal DEF Die
<1>3. FailInv' /\ WarmInv'
  BY DieF, DieWarm
<1>4. /\ \A s \in Runs : Active(s)' => Active(s)
      /\ \A s \in Runs : run'[s] \in {"ok", "error"} => run'[s] = run[s]
  BY DEF Die, PInv, PTypeOK, Active
<1>5. Single' /\ Unedited' /\ UneditedSucceeds'
  BY <1>2, <1>4, SingleKept DEF Unedited, UneditedSucceeds
<1>6. ASSUME NEW s \in Runs PROVE IndexAgrees(s)'
  <2>1. \A i \in Jobs : Stored(i)' => Stored(i) /\ index'[i] = index[i]
    BY <1>2 DEF Stored
  <2> QED BY <1>2, <1>4, <2>1, IndexAgreesFrame
<1>7. WarmRunHits'
  BY <1>2, <1>4 DEF WarmRunHits
<1> QED BY <1>3, <1>5, <1>6, <1>7

LEMMA ChangeW ==
    ASSUME OrderlyInv, NEW q \in Roots, NEW p \in Paths, Edit(q, p),
           UNCHANGED pipe, TInv', PInv'
    PROVE  OrderlyInv'
<1> USE DEF OrderlyInv
<1>1. TInv
  BY DEF FailInv, PublishInv
<1>2. UNCHANGED <<pc, index>>
  BY <1>1, EditSeen
<1>3. FailInv' /\ WarmInv'
  BY EditF, EditWarm
<1>4. clock' > 0
  BY <1>1 DEF Edit, TInv, TypeOK
<1>5. \A j \in Jobs : (quiet'[j] => quiet[j]) /\ (warm'[j] => warm[j])
  <2>1. quiet' = [j \in Jobs |-> quiet[j] /\ ~Touches(j, q, p)]
    BY DEF Edit
  <2>2. warm' = [j \in Jobs |-> warm[j] /\ ~Touches(j, q, p)]
    BY DEF Edit
  <2>3. \A j \in Jobs : quiet'[j] => quiet[j]
    BY <2>1, Zenon
  <2>4. \A j \in Jobs : warm'[j] => warm[j]
    BY <2>2, Zenon
  <2> QED BY <2>3, <2>4
<1>6. ASSUME NEW s \in Runs PROVE IndexAgrees(s)'
  <2>1. \A i \in Jobs : Stored(i)' => Stored(i) /\ index'[i] = index[i]
    BY <1>2, <1>5 DEF Stored
  <2> QED BY <2>1, IndexAgreesFrame DEF pipe, Active
<1>7. Unedited'
  BY <1>4 DEF Unedited
<1> QED BY <1>3, <1>4, <1>5, <1>6, <1>7, JobIn, JobSteps

-----------------------------------------------------------------------------
LEMMA PInitW == PInit => OrderlyInv
<1> SUFFICES ASSUME PInit PROVE OrderlyInv
  OBVIOUS
<1>1. PInv /\ FailInv /\ WarmInv
  BY PInitT, InitF, InitWarm DEF PInit
<1>2. Unedited
  BY DEF PInit, Init, Unedited
<1>3. /\ UneditedSucceeds /\ WarmRunHits /\ Single
      /\ \A r \in Runs : IndexAgrees(r)
  BY DEF PInit, UneditedSucceeds, WarmRunHits, Single, IndexAgrees, Active
<1> QED BY <1>1, <1>2, <1>3 DEF OrderlyInv

LEMMA PNextW == Orderly /\ OrderlyInv /\ [PNext]_pvars => OrderlyInv'
<1> SUFFICES ASSUME Orderly, OrderlyInv, [PNext]_pvars PROVE OrderlyInv'
  OBVIOUS
<1>0. TInv' /\ PInv'
  BY PNextT DEF OrderlyInv, FailInv, PublishInv
<1>1. ASSUME NEW r \in Runs, Launch(r) \/ IndexFile(r) \/ BuildPool(r) \/ Reduce(r)
      PROVE  OrderlyInv'
  BY <1>0, <1>1, LaunchW, IndexFileW, BuildPoolW, ReduceW
<1>2. ASSUME NEW r \in Runs, Take(r) PROVE OrderlyInv'
  BY <1>0, <1>2, TakeW DEF Take
<1>3. ASSUME NEW r \in Runs, Work(r) PROVE OrderlyInv'
  BY <1>0, <1>3, WorkW DEF Work
<1>4. ASSUME NEW r \in Runs, Die(r) PROVE OrderlyInv'
  BY <1>0, <1>4, DieW
<1>5. CASE Change
  BY <1>0, <1>5, ChangeW DEF Change
<1>6. CASE UNCHANGED pvars
  <2>1. UNCHANGED vars /\ UNCHANGED pipe
    BY <1>6 DEF pvars
  <2>2. FailInv' /\ WarmInv'
    BY <2>1, StutterF, StutterWarm DEF OrderlyInv
  <2>3. Unedited' /\ \A r \in Runs : IndexAgrees(r)'
    BY <2>1 DEF OrderlyInv, vars, pipe, Unedited, IndexAgrees, Active, Stored
  <2> QED BY <1>0, <2>1, <2>2, <2>3, JobSteps DEF vars
<1> QED BY <1>1, <1>2, <1>3, <1>4, <1>5, <1>6 DEF PNext, Advance, Quiescent

\* A run after one that completed, over files nobody changed, serves every file
\* from the cache, and every file of any run is counted once.
THEOREM WarmRunsHit == ASSUME Orderly PROVE PSpec => []WarmRunHits
<1>1. OrderlyInv => WarmRunHits
  BY DEF OrderlyInv
<1> QED BY <1>1, PInitW, PNextW, PTL DEF PSpec

\* Runs that follow one another over files nobody edits do not fail: neither
\* the cache nor a process that died before makes them.
THEOREM UneditedRunsSucceed == ASSUME Orderly PROVE PSpec => []UneditedSucceeds
<1>1. OrderlyInv => UneditedSucceeds
  BY DEF OrderlyInv
<1> QED BY <1>1, PInitW, PNextW, PTL DEF PSpec

\* Both invariants of runs together, in an environment that is safe and orderly.
THEOREM PipelineAlways ==
    ASSUME SafeEnvironment, Orderly PROVE PSpec => []PipelineInv
<1>1. PInit => PipelineInv
  BY PInitC, PInitW DEF PipelineInv
<1>2. PipelineInv /\ [PNext]_pvars => PipelineInv'
  BY PNextC, PNextW DEF PipelineInv
<1> QED BY <1>1, <1>2, PTL DEF PSpec
=============================================================================
