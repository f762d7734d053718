----------------------------- MODULE MCCacheStore -----------------------------
(* Instances of CacheStore for TLC: a file "a" whose content names "b".    *)
EXTENDS CacheStore, TLC

CONSTANTS r1, r2, d1, d2, f1, f2, a, b, c1, c2, j1, j2, j3

MCSize  == [c \in Contents |-> 1]
MCLinks == [c \in Contents |-> IF c = c1 THEN {b} \cap Paths ELSE {}]

Of(root, dir, path, kind, feat) ==
    [root |-> root, dir |-> dir, path |-> path, kind |-> kind, feat |-> feat]

\* One project, one cache, one file analysed by every job.
SameShaTask   == [j \in Jobs |-> Of(r1, d1, a, "sha256+mtime", f1)]
SameMtimeTask == [j \in Jobs |-> Of(r1, d1, a, "mtime", f1)]

\* Processes with different cache kinds and features over one project.
MixedTask == [j \in Jobs |->
    IF j = j1 THEN Of(r1, d1, a, "mtime", f1)
              ELSE Of(r1, d1, a, "sha256+mtime", f1)]

\* Two projects that share OXINFER_CACHE_DIR, and a run without a cache.
SharedDirTask == [j \in Jobs |->
    CASE j = j1 -> Of(r1, d1, a, "mtime", f1)
      [] j = j2 -> Of(r2, d1, a, "mtime", f1)
      [] OTHER  -> Of(r1, d1, a, "off", f1)]

\* Jobs that are asked for the same thing are interchangeable.
JobSymmetry == Permutations(Jobs)
=============================================================================
