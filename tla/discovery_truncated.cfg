SPECIFICATION Spec
CONSTANTS
    app = app http = http gone = gone p1 = p1 p2 = p2 p3 = p3 p4 = p4
    txt = txt lib = lib own = own dir = dir
    Walkers = {w1, w2}
    Entries = {p1, p2, p3, p4, txt, lib, own, dir}
    Targets <- MCTargets Present = {app, http} Below <- MCBelow
    Php = {p1, p2, p3, p4, lib, own} Vendored = {lib, own} Whitelisted = {own}
    Faults <- MCFaults PathOrder <- MCOrder Limits = {2}
INVARIANT SameList
