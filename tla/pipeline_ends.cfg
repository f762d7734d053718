SPECIFICATION FairPSpec
CONSTANTS
    r1 = r1 d1 = d1 f1 = f1 a = a b = b c1 = c1 c2 = c2 A = A B = B s1 = s1 s2 = s2
    Roots = {r1} Dirs = {d1} Features = {f1} Paths = {a, b}
    Contents = {c1, c2} Absent = Absent Content0 = c1
    Size <- MCSize Links <- MCLinks
    Jobs <- MCJobs Task <- MCTask
    Inodes = {i1, i2, i3, i4}
    NoInode = NoInode NoHash = NoHash NoStamp = NoStamp NoEntry = NoEntry
    NoFacts = NoFacts NoPath = NoPath Empty = Empty Torn = Torn
    MaxEdits = 0
    MtimeAdvances = FALSE StableWhileStoring = TRUE
    OneWriterPerEntry = FALSE DiskFaults = TRUE
    Runs = {A, B} Found <- Distinct Workers = 1 Rank <- MCRank
    Scopes = {s1, s2} Uses <- MCUses Declares <- MCDeclares
    NoOutput = NoOutput Overlap = TRUE
INVARIANT OutputIsCold
PROPERTY RunsEnd
