-------------------------------- MODULE Output --------------------------------
(***************************************************************************)
(* Manifest mode: build_delta (src/src/output.rs) reduces the facts of the *)
(* analysed files, in path order, to one Delta.  Files are merged one by   *)
(* one; then methods are put in the order of their routes, and models in   *)
(* the order in which a walk from the controllers' models, or from the     *)
(* sources of polymorphic relations, meets them.  The walk is recursive    *)
(* (visit_model); here its calls to come are the sequence visits.          *)
(*                                                                         *)
(* Names are model values, compared as text by Rank.                       *)
(***************************************************************************)
EXTENDS Matchers

CONSTANTS
    Root,     \* [names -> the model App\Models\<Base> of a <Base>Controller, or None]
    Projects  \* the projects considered: sequences of files, see Matchers and Routes

\* Discovery lists every path once (targets that overlap aside, module Pipeline).
ASSUME ProjectsAssumption ==
    /\ Root \in [Names -> Names \cup {None}]
    /\ Projects \subseteq Seq(Texts)
    /\ \A p \in Projects : \A i, k \in DOMAIN p : p[i].path = p[k].path => i = k

VARIABLES
    stage,        \* "analyze", "routes", "collect", "order" or "done"
    files,        \* the files, then the analysed files of the result
    bindings,     \* route_bindings
    next,         \* the file to merge next
    item,         \* its controller method or, behind them, its model to merge next
    controllers,  \* Seq([fqcn, file, methods])
    models,       \* Seq([fqcn, file, rels]): merged, later the ordered ones
    polymorphic,  \* [Morphs -> Seq([model, relation])]
    broadcast,    \* channels
    remaining,    \* models not ordered yet
    visits        \* Seq([fqcn, deep]): calls of visit_model to come

vars == <<stage, files, bindings, next, item, controllers, models, polymorphic,
          broadcast, remaining, visits>>

Init ==
    /\ stage = "analyze"
    /\ files \in Projects
    /\ bindings = <<>>
    /\ next = 1 /\ item = 1
    /\ controllers = <<>> /\ models = <<>> /\ broadcast = <<>>
    /\ polymorphic = [n \in Morphs |-> <<>>]
    /\ remaining = <<>> /\ visits = <<>>

-----------------------------------------------------------------------------
AllModels == UNION {ToSet(files[i].models) : i \in DOMAIN files}

\* analyze_files: file by file, in the order of their paths whatever the workers
\* do (module Pipeline).
Analyze ==
    /\ stage = "analyze"
    /\ stage' = "routes"
    /\ files' = [i \in DOMAIN files |-> AnalyzeFile(files[i])]
    /\ UNCHANGED <<bindings, next, item, controllers, models, polymorphic, broadcast,
                   remaining, visits>>

\* collect_route_bindings, the last step of the analysis.  It skips files outside
\* routes/: as input they have no statements (see Routes).
CollectRoutes ==
    /\ stage = "routes"
    /\ stage' = "collect"
    /\ bindings' = Dedup(Flattened([i \in DOMAIN files |->
                                      ExtractRouteBindings(files[i].source)]))
    /\ UNCHANGED <<files, next, item, controllers, models, polymorphic, broadcast,
                   remaining, visits>>

-----------------------------------------------------------------------------
\* collect_route_methods, collect_route_order
Bound(fqcn, method) ==
    {i \in DOMAIN bindings : bindings[i].fqcn = fqcn /\ bindings[i].method = method}
Routed(fqcn, method) == Bound(fqcn, method) # {}

HttpMethods(fqcn, method) ==
    Dedup(Flattened(Picked([i \in DOMAIN bindings |-> bindings[i].verbs],
                           Bound(fqcn, method))))

\* (Mutant: the last binding of a method places it.)
LastBinding(fqcn, method) ==
    IF Routed(fqcn, method)
    THEN LastOf(Bound(fqcn, method))
    ELSE Len(bindings) + 1

RouteOrder(fqcn, method) ==
    IF Routed(fqcn, method)
    THEN FirstOf(Bound(fqcn, method))
    ELSE Len(bindings) + 1

\* Once any route is known, a method without one is left out.
Kept(c) == bindings = <<>> \/ Routed(c.fqcn, c.method)

HttpStatus(c) == IF c.status # 0 THEN c.status
                 ELSE IF Routed(c.fqcn, c.method) THEN 200 ELSE 0

\* collect_scope_owners: the only model with a scope of that name owns it.
ScopeModels(name) == {m.fqcn : m \in {x \in AllModels : name \in x.scopes}}
Owner(name) == IF Cardinality(ScopeModels(name)) = 1
               THEN CHOOSE m \in ScopeModels(name) : TRUE ELSE None

Owned(scopes) == [i \in DOMAIN scopes |-> [name |-> scopes[i], on |-> Owner(scopes[i])]]

\* controller_index and model_index: where the entry of a class and a file is.
Entry(es, fqcn, file) == {i \in DOMAIN es : es[i].fqcn = fqcn /\ es[i].file = file}

\* The method joins its class's entry for this file, or opens it.
MethodOut(c) ==
    [name |-> c.method, verbs |-> HttpMethods(c.fqcn, c.method),
     http |-> HttpStatus(c), scopes |-> Owned(c.scopes)]

AddMethod(cs, c, file) ==
    LET at == Entry(cs, c.fqcn, file)
    IN  IF ~Kept(c) THEN cs
        ELSE IF at = {}
        THEN Append(cs, [fqcn |-> c.fqcn, file |-> file, methods |-> <<MethodOut(c)>>])
        ELSE [i \in DOMAIN cs |->
                IF i \in at THEN [cs[i] EXCEPT !.methods = Append(@, MethodOut(c))]
                ELSE cs[i]]

\* Pivot columns are shown of belongsToMany only.
ShownRel(r) == [name |-> r.name, type |-> r.type, related |-> r.related,
                pivot |-> IF r.type = "belongsToMany" THEN r.pivot ELSE {}]
ShownRels(m) == [k \in DOMAIN m.rels |-> ShownRel(m.rels[k])]

AddModel(ms, m, file) ==
    LET at == Entry(ms, m.fqcn, file)
    IN  IF at = {}
        THEN Append(ms, [fqcn |-> m.fqcn, file |-> file, rels |-> ShownRels(m)])
        ELSE [i \in DOMAIN ms |->
                IF i \in at THEN [ms[i] EXCEPT !.rels = @ \o ShownRels(m)] ELSE ms[i]]

\* seen_broadcast
Channels == {b.channel : b \in ToSet(broadcast)}
Unseen(bs) == {k \in DOMAIN bs : /\ bs[k].channel \notin Channels
                                 /\ \A l \in 1 .. k - 1 : bs[l].channel # bs[k].channel}

\* The body of the loop over the files: the controller methods and the models of
\* a file one by one, then its other facts.
Merging == stage = "collect" /\ next <= Len(files)

MergeController ==
    /\ Merging
    /\ LET f == files[next] IN
       /\ item <= Len(f.controllers)
       /\ controllers' = AddMethod(controllers, f.controllers[item], f.path)
    /\ item' = item + 1
    /\ UNCHANGED <<stage, files, bindings, next, models, polymorphic, broadcast,
                   remaining, visits>>

MergeModel ==
    /\ Merging
    /\ LET f == files[next]
           k == item - Len(f.controllers)
       IN  /\ k \in DOMAIN f.models
           /\ models' = AddModel(models, f.models[k], f.path)
    /\ item' = item + 1
    /\ UNCHANGED <<stage, files, bindings, next, controllers, polymorphic, broadcast,
                   remaining, visits>>

MergeFacts ==
    /\ Merging
    /\ LET f == files[next] IN
       /\ item > Len(f.controllers) + Len(f.models)
       /\ polymorphic' = [n \in Morphs |-> polymorphic[n] \o f.polymorphic[n]]
       /\ broadcast' = broadcast \o Picked(f.broadcast, Unseen(f.broadcast))
    /\ next' = next + 1 /\ item' = 1
    /\ UNCHANGED <<stage, files, bindings, controllers, models, remaining, visits>>

-----------------------------------------------------------------------------
\* The loops after the merge.

\* By the place of the route, then by name.
Sorted(c) ==
    LET named == SortedBy(c.methods, [i \in DOMAIN c.methods |-> Rank[c.methods[i].name]])
        order == [i \in DOMAIN named |-> RouteOrder(c.fqcn, named[i].name)]
    IN  [c EXCEPT !.methods = SortedBy(named, order)]

\* Vec::dedup_by drops an element that repeats the one before it.
DropRepeats(s) == Picked(s, {i \in DOMAIN s : i = 1 \/ s[i] # s[i - 1]})

NoGroups(p) == \A n \in Morphs : p[n] = <<>>

\* reorder_models_by_controller_roots: the walk starts at the controllers' models.
Seeds(cs, ms) ==
    LET roots == [i \in DOMAIN cs |-> Root[cs[i].fqcn]]
    IN  Dedup(Picked(roots, {i \in DOMAIN cs : \E k \in DOMAIN ms : ms[k].fqcn = roots[i]}))

Calling(s, deep) == [i \in DOMAIN s |-> [fqcn |-> s[i], deep |-> deep]]

\* reorder_models_by_polymorphic_sources: models with a morphTo, those with the
\* most relationships first, each with the models of its groups behind it if it
\* has another relationship.
MorphTos(m) == {k \in DOMAIN m.rels : m.rels[k].type = "morphTo"}

Sources(ms) ==
    LET of == Picked(ms, {i \in DOMAIN ms : MorphTos(ms[i]) # {}})
        all == Cardinality(Cells([i \in DOMAIN of |-> of[i].rels]))
    IN  SortedBy(of, [i \in DOMAIN of |-> all - Len(of[i].rels)])

\* The classes visited for a source
Grouped(m, p) ==
    LET group(n) == IF n \in Morphs THEN [i \in DOMAIN p[n] |-> p[n][i].model] ELSE <<>>
        groups == Flattened(Picked([k \in DOMAIN m.rels |-> group(m.rels[k].name)],
                                   MorphTos(m)))
    IN  <<m.fqcn>> \o (IF Len(m.rels) <= 1 THEN <<>> ELSE groups)

SourcesAndGroups(ms, p) ==
    Flattened([i \in DOMAIN Sources(ms) |-> Grouped(Sources(ms)[i], p)])

Arrange ==
    /\ stage = "collect" /\ next > Len(files)
    /\ LET cs == [i \in DOMAIN controllers |-> Sorted(controllers[i])]
           ms == [i \in DOMAIN models |-> [models[i] EXCEPT !.rels = Dedup(@)]]
           p  == [n \in Morphs |-> DropRepeats(polymorphic[n])]
       IN  /\ controllers' = cs
           /\ polymorphic' = p
           /\ visits' = IF Len(ms) < 2 THEN <<>>
                        ELSE IF NoGroups(p) THEN Calling(Seeds(cs, ms), TRUE)
                        ELSE Calling(SourcesAndGroups(ms, p), FALSE)
           /\ remaining' = ms
           /\ models' = <<>>
    /\ stage' = "order"
    /\ UNCHANGED <<files, bindings, next, item, broadcast>>

\* visit_model and visit_model_without_related: the first remaining model of the
\* class moves over, and the classes it relates to are visited before the rest.
Related(m) == Calling(Picked([k \in DOMAIN m.rels |-> m.rels[k].related],
                             {k \in DOMAIN m.rels : m.rels[k].related # None}), TRUE)

\* (Mutants: a visited class is not followed; the model is copied, not moved.)
Shallow(m, v) == <<>>
Calls(m, v) == IF v.deep THEN Related(m) ELSE <<>>

Copied(rest, at) == rest
Without(rest, at) == Picked(rest, DOMAIN rest \ {at})

Visit ==
    /\ stage = "order" /\ visits # <<>>
    /\ LET v  == Head(visits)
           of == {i \in DOMAIN remaining : remaining[i].fqcn = v.fqcn}
           at == FirstOf(of)
       IN  IF of = {}
           THEN visits' = Tail(visits) /\ UNCHANGED <<models, remaining>>
           ELSE /\ models' = Append(models, remaining[at])
                /\ remaining' = Without(remaining, at)
                /\ visits' = Calls(remaining[at], v) \o Tail(visits)
    /\ UNCHANGED <<stage, files, bindings, next, item, controllers, polymorphic, broadcast>>

\* The models no visit met follow in their old order.
\* (Mutant: they are forgotten.)
Met(ms, rest) == ms
WithRest(ms, rest) == ms \o rest

Emit ==
    /\ stage = "order" /\ visits = <<>>
    /\ stage' = "done"
    /\ models' = WithRest(models, remaining)
    /\ remaining' = <<>>
    /\ UNCHANGED <<files, bindings, next, item, controllers, polymorphic, broadcast, visits>>

Stop == stage = "done" /\ UNCHANGED vars

Next == \/ Analyze \/ CollectRoutes \/ MergeController \/ MergeModel \/ MergeFacts
        \/ Arrange \/ Visit \/ Emit \/ Stop

Spec == Init /\ [][Next]_vars

-----------------------------------------------------------------------------
\* The models and the controller methods of all files, by their places.
ModelCells == Cells([h \in DOMAIN files |-> files[h].models])
ModelAt(q) == files[q[1]].models[q[2]]
ModelKey(q) == <<ModelAt(q).fqcn, files[q[1]].path>>

MethodCells == Cells([h \in DOMAIN files |-> files[h].controllers])
MethodAt(q) == files[q[1]].controllers[q[2]]
MethodKey(q) == <<MethodAt(q).fqcn, files[q[1]].path>>

\* A model is the sum of what its file declares under its name, a controller the
\* list of the methods with that name that are kept.
Key(e) == <<e.fqcn, e.file>>
WholeModel(e, cells) ==
    ToSet(e.rels) = UNION {ToSet(ShownRels(ModelAt(q))) :
                             q \in {p \in cells : ModelKey(p) = Key(e)}}
WholeController(e, cells) ==
    LET of == {q \in cells : MethodKey(q) = Key(e) /\ Kept(MethodAt(q))}
    IN  /\ Len(e.methods) = Cardinality(of)
        /\ ToSet(e.methods) = {MethodOut(MethodAt(q)) : q \in of}

OncePerKey(es) == \A i, k \in DOMAIN es : Key(es[i]) = Key(es[k]) => i = k
Keys(es) == {Key(es[i]) : i \in DOMAIN es}

\* Merging and reordering lose nothing and invent nothing: every class and file is
\* there once, as a model with all its relationships, each once, as a controller with
\* every routed method (every method, if no route is known), each once; every channel
\* is there once.  A polymorphic group has the relations of the files and no other
\* one; of equal relations the code removes only those side by side.
NothingLost ==
    stage = "done" =>
        /\ OncePerKey(models) /\ Keys(models) = {ModelKey(q) : q \in ModelCells}
        /\ \A m \in ToSet(models) : Once(m.rels) /\ WholeModel(m, ModelCells)
        /\ OncePerKey(controllers)
        /\ Keys(controllers) = {MethodKey(q) : q \in {p \in MethodCells : Kept(MethodAt(p))}}
        /\ \A c \in ToSet(controllers) : WholeController(c, MethodCells)
        /\ \A n \in Morphs :
             ToSet(polymorphic[n]) = UNION {ToSet(files[h].polymorphic[n]) : h \in DOMAIN files}
        /\ \A i, k \in DOMAIN broadcast : broadcast[i].channel = broadcast[k].channel => i = k
        /\ Channels = UNION {{b.channel : b \in ToSet(files[h].broadcast)} : h \in DOMAIN files}

\* A broadcast channel is listed, with what the parameters of its function make
\* of it where it is declared first, if that call and the one before it in the file
\* carry a function; no name that nobody declares is listed.
ChannelsFound ==
    LET calls(f) == f.source.channels
        first(i, k) == \A h \in 1 .. i : \A l \in DOMAIN calls(files[h]) :
                         calls(files[h])[l].name = calls(files[i])[k].name =>
                           h = i /\ l >= k
    IN  stage = "done" =>
          /\ Channels \subseteq UNION {{c.name : c \in ToSet(calls(f))} : f \in ToSet(files)}
          /\ \A i \in DOMAIN files : \A k \in DOMAIN calls(files[i]) :
               LET cs == calls(files[i])
               IN  cs[k].callback # None /\ (k = 1 \/ cs[k - 1].callback # None) =>
                     /\ cs[k].name \in Channels
                     /\ first(i, k) => [channel |-> cs[k].name, type |-> cs[k].callback]
                                         \in ToSet(broadcast)

\* A controller method is in the Delta with a verb exactly if a routes file says
\* so, in whatever order its statements come: through the resource it belongs to,
\* in a pair, or, for __invoke, alone -- then the first statement of the class in
\* its file counts, and none if a pair of that file names the class.
RoutedMethodsShown ==
    LET texts == {f.source : f \in ToSet(files)}
        stated(f, r) ==
            LET class == ResolveClassName(f, r.class)
                methods == CASE r.form = "pair"  -> {<<r.method, Verbs(r.verb)>>}
                             [] r.form = "class" -> {<<"__invoke", Verbs(r.verb)>>}
                             [] OTHER -> ToSet(ResourceMethods(r.form = "apiResource"))
            IN  UNION {{<<class, m[1], v>> : v \in ToSet(m[2])} : m \in methods}
        counts(f, i) ==
            f.routes[i].form = "class" =>
              \A k \in DOMAIN f.routes :
                RouteClass(f, k) = RouteClass(f, i) =>
                  f.routes[k].form # "pair" /\ (f.routes[k].form = "class" => k >= i)
        all == UNION {UNION {stated(f, f.routes[i]) : i \in {k \in DOMAIN f.routes : counts(f, k)}} :
                        f \in texts}
        known == UNION {UNION {{<<c.fqcn, m.name>> : m \in {x \in ToSet(c.methods) : Answering(x)}} :
                                 c \in {x \in ToSet(f.classes) : x.controller}} : f \in texts}
    IN  stage = "done" =>
          UNION {UNION {{<<c.fqcn, m.name, v>> : v \in ToSet(m.verbs)} :
                          m \in ToSet(c.methods)} : c \in ToSet(controllers)}
            = {t \in all : <<t[1], t[2]>> \in known}

\* A controller's methods come in the order in which the routes name them first,
\* whatever repeats; without any route, by name.
MethodsFollowRoutes ==
    LET First(c, m) == CHOOSE i \in DOMAIN bindings :
                         /\ bindings[i].fqcn = c.fqcn /\ bindings[i].method = m.name
                         /\ \A h \in 1 .. i - 1 :
                              ~(bindings[h].fqcn = c.fqcn /\ bindings[h].method = m.name)
    IN  stage = "done" =>
          \A c \in ToSet(controllers) : \A i, k \in DOMAIN c.methods :
            i < k => IF bindings = <<>>
                     THEN Rank[c.methods[i].name] <= Rank[c.methods[k].name]
                     ELSE First(c, c.methods[i]) <= First(c, c.methods[k])

\* Without polymorphic relations and with every class declared once, the models
\* a controller's model leads to come first, each behind one that names it unless
\* it is a controller's own, and the others keep their order.
Earlier(p, q) == p[1] < q[1] \/ (p[1] = q[1] /\ p[2] < q[2])

Fqcns == {ModelAt(q).fqcn : q \in ModelCells}
Roots == {Root[c.fqcn] : c \in ToSet(controllers)} \cap Fqcns
RelatedTo(m) == {r.related : r \in ToSet(m.rels)}
Closed(S) == /\ Roots \subseteq S
             /\ \A q \in ModelCells : ModelAt(q).fqcn \in S => RelatedTo(ModelAt(q)) \cap Fqcns \subseteq S
Reached == {c \in Fqcns : \A S \in SUBSET Fqcns : Closed(S) => c \in S}

RootsFirst ==
    (/\ stage = "done" /\ NoGroups(polymorphic)
     /\ \A p, q \in ModelCells : ModelAt(p).fqcn = ModelAt(q).fqcn => p = q) =>
        /\ \A i, k \in DOMAIN models : models[i].fqcn \in Reached /\ models[k].fqcn \notin Reached => i < k
        /\ \A i \in DOMAIN models :
             models[i].fqcn \in Reached \ Roots => \E k \in 1 .. i - 1 : models[i].fqcn \in RelatedTo(models[k])
        /\ \A p, q \in ModelCells : \A i, k \in DOMAIN models :
             /\ models[i].fqcn = ModelAt(p).fqcn /\ models[k].fqcn = ModelAt(q).fqcn
             /\ {models[i].fqcn, models[k].fqcn} \cap Reached = {}
             => (i < k <=> Earlier(p, q))

\* The reduction ends, also when models relate to each other in a circle: every
\* step leaves less to do.
StageRank == CASE stage = "analyze" -> 4 [] stage = "routes" -> 3 [] stage = "collect" -> 2
               [] stage = "order" -> 1 [] stage = "done" -> 0
ItemsLeft == IF Merging
             THEN Len(files[next].controllers) + Len(files[next].models) + 1 - item ELSE 0
Left == <<StageRank, Len(files) + 1 - next, ItemsLeft, Len(remaining), Len(visits)>>

Descends == \E n \in 1 .. 5 : /\ Left'[n] < Left[n]
                              /\ \A l \in 1 .. n - 1 : Left'[l] = Left[l]
Ends == [][Descends]_vars
=============================================================================
