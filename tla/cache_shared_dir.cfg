SPECIFICATION Spec
CONSTANTS
    r1 = r1 r2 = r2 d1 = d1 d2 = d2 f1 = f1 f2 = f2 a = a b = b
    c1 = c1 c2 = c2 j1 = j1 j2 = j2 j3 = j3
    Roots = {r1, r2} Dirs = {d1} Features = {f1} Paths = {a}
    Contents = {c1, c2} Absent = Absent Content0 = c1
    Size <- MCSize Links <- MCLinks
    Jobs = {j1, j2, j3} Task <- SharedDirTask
    Inodes = {i1, i2, i3}
    NoInode = NoInode NoHash = NoHash NoStamp = NoStamp NoEntry = NoEntry
    NoFacts = NoFacts NoPath = NoPath Empty = Empty Torn = Torn
    MaxEdits = 2
    MtimeAdvances = TRUE StableWhileStoring = TRUE
    OneWriterPerEntry = FALSE DiskFaults = FALSE
INVARIANTS Fresh IInv
