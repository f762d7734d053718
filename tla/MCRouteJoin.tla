----------------------------- MODULE MCRouteJoin -----------------------------
(* Requests of up to three routes over one controller with two methods, run   *)
(* once; every command line with a few of them.                               *)
EXTENDS CommandLine

CONSTANTS C, show, store

MCKeyOrder == [k \in {C} \X {show, store, Invoke} |->
                 CASE k[2] = Invoke -> 0 [] k[2] = show -> 1 [] OTHER -> 2]

Shape(kind, fqcn, method, verbs) ==
    [kind |-> kind, fqcn |-> fqcn, method |-> method, verbs |-> verbs]

Shapes ==
    {Shape("controller_method", C, m, v) : m \in {show, store}, v \in {0, 1}} \cup
    {Shape("controller_method", C, Empty, 1), Shape("controller_method", None, show, 1),
     Shape("invokable_controller", C, None, 1), Shape("invokable_controller", C, Empty, 1),
     Shape("closure", None, None, 1), Shape("redirect", None, None, 1)}

Route(id, s) == [id |-> id, kind |-> s.kind, fqcn |-> s.fqcn, method |-> s.method,
                 verbs |-> s.verbs]

RouteLists ==
    {<<>>} \cup {<<Route(1, x)>> : x \in Shapes}
    \cup {<<Route(1, x), Route(i, y)>> : x \in Shapes, y \in Shapes, i \in {1, 2}}
    \cup {<<Route(1, x), Route(2, y), Route(3, z)>> :
             x \in Shapes, y \in Shapes, z \in Shapes}

Few == {[version |-> TRUE, base |-> b,
         routes |-> <<Route(1, Shape("controller_method", C, show, 1))>>] :
          b \in Places}

MCRequests ==
    {[version |-> TRUE, base |-> "absolute", routes |-> l] : l \in RouteLists}
    \cup {[version |-> v, base |-> b, routes |-> <<>>] :
             v \in BOOLEAN, b \in Places}
    \cup Few

Ctl(m, status, file) == [key |-> <<C, m>>, status |-> status, file |-> file]

MCStatics ==
    {[partial |-> p, controllers |-> cs, bound |-> b] :
        p \in BOOLEAN, b \in {{}, {<<C, show>>}},
        cs \in {<<>>, <<Ctl(show, 0, 1)>>,
                <<Ctl(Invoke, 0, 1), Ctl(show, 201, 1), Ctl(store, 0, 2)>>,
                <<Ctl(show, 201, 1), Ctl(store, 0, 1), Ctl(show, 0, 2)>>}}

\* Every request with one command line; every way to the root, every mode and every
\* output with the requests of Few, the output ones run twice.
Cmd(flags, terminal, source, rt, kind, at) ==
    [flags |-> flags, terminal |-> terminal, source |-> source, input |-> "good",
     root |-> rt, kind |-> kind, at |-> at, out |-> "-", old |-> <<>>, runs |-> 1]

AtAbsolute(k) == [cwd |-> "missing", dir |-> "missing", absolute |-> k]
Plain(f)      == Cmd(f, TRUE, "file", "absolute", AtAbsolute("dir"), "absolute")

Ways == {<<{}, TRUE>>, <<{}, FALSE>>, <<{"manifest"}, TRUE>>, <<{"request"}, TRUE>>,
         <<{"manifest", "request"}, TRUE>>}
Kinds == {"dir", "file", "missing"}

Cmds ==
    {Cmd(w[1], w[2], s, "relative", [cwd |-> c, dir |-> d, absolute |-> "dir"], a) :
        w \in Ways, s \in {"-", "file"}, c \in Kinds, d \in Kinds,
        a \in {"absolute", "below", "bare"}}
    \cup {Cmd(w[1], w[2], s, r, AtAbsolute(k), a) :
             w \in Ways, s \in {"-", "file"}, r \in {"empty", "absolute"}, k \in Kinds,
             a \in {"absolute", "below", "bare"}}
    \cup {[Plain(f) EXCEPT !.input = i, !.out = o, !.old = old, !.runs = 2] :
             f \in {{"manifest"}, {"request"}}, i \in {"unreadable", "garbled", "good"},
             o \in {"-", "file"}, old \in {<<>>, <<0, 0, 0>>}}

OneStatic == [partial |-> FALSE, controllers |-> <<Ctl(show, 0, 1)>>, bound |-> {}]

MCScenarios ==
    {[cmd |-> Plain({"request"}), request |-> q, static |-> s] :
        q \in MCRequests, s \in MCStatics}
    \cup {[cmd |-> c, request |-> q, static |-> OneStatic] :
             c \in {d \in Cmds : RequestMode(d)}, q \in Few}
    \cup {[cmd |-> c, request |-> q, static |-> OneStatic] :
             c \in {d \in Cmds : ~RequestMode(d)}, q \in {p \in Few : p.base = "absolute"}}
=============================================================================
