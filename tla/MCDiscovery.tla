----------------------------- MODULE MCDiscovery -----------------------------
(* Three targets, one missing, two overlapping: a file in both is listed    *)
(* twice, so the walks find 6 files in all.                                 *)
EXTENDS Discovery

CONSTANTS app, http, gone, p1, p2, p3, p4, txt, lib, own, dir

MCTargets == <<app, gone, http>>
MCBelow   == [t \in {app, http, gone} |->
                CASE t = app -> {p1, p2, p3, txt, lib} [] t = http -> {p3, p4, own}
                  [] OTHER -> {}]
MCOrder   == [e \in Entries |->
                CASE e = p1 -> 1 [] e = p2 -> 2 [] e = p3 -> 3 [] e = p4 -> 4
                  [] e = txt -> 5 [] e = lib -> 6 [] e = own -> 7 [] OTHER -> 8]
\* Nothing, a PHP file, or an entry that is skipped anyway is unreadable.
MCFaults == {{}, {p4}, {txt}}
=============================================================================
