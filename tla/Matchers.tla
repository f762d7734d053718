-------------------------------- MODULE Matchers --------------------------------
(***************************************************************************)
(* The facts src/src/matchers.rs finds in one file, all features on: the   *)
(* methods of its controllers, the relations of its models, its broadcast  *)
(* channels.  A module of operators only.                                  *)
(*                                                                         *)
(* Of the text of a file it keeps, besides what Routes reads,              *)
(*   classes: Seq([fqcn, controller, model, scopes, methods]): the class   *)
(*     declarations; controller, model: does text, path or namespace make  *)
(*     it one; scopes: the names of its scope methods;                     *)
(*     methods: Seq([name, public, status: Nat, calls, relation]): public  *)
(*     if its text says "public function", status 0 if it sets none, calls:*)
(*     Seq of the names it calls that may be scopes, relation: None or     *)
(*     [type, class, morph, pivot], its call of $this-><type>(..);         *)
(*   channels: Seq([name, callback]): the Broadcast::channel calls;        *)
(*     callback is None if it is no "function", else what its parameters   *)
(*     make of the channel: "public", "private" or "presence".             *)
(***************************************************************************)
EXTENDS Routes

CONSTANTS
    None,
    Rank,   \* [names -> Nat]: names compared as text
    Morphs  \* names of polymorphic relations

Names == DOMAIN Rank

ASSUME NamesAssumption ==
    /\ Rank \in [Names -> Nat]
    /\ \A m, n \in Names : Rank[m] = Rank[n] => m = n
    /\ None \notin Names

\* What the text of a file may hold.
Relations == [type : STRING, class : Names \cup {None}, morph : Morphs \cup {None},
              pivot : SUBSET Names]
Methods == [name : Names, public : BOOLEAN, status : Nat, calls : Seq(Names),
            relation : Relations \cup {None}]
Classes == [fqcn : Names, controller : BOOLEAN, model : BOOLEAN,
            scopes : SUBSET Names, methods : Seq(Methods)]
ChannelCalls == [name : Names, callback : {None, "public", "private", "presence"}]
Imports == [form : {"plain", "alias", "group"}, path : Names, last : Names \cup {None},
            alias : Names \cup {None}]
Statements == [form : {"resource", "apiResource", "pair", "class"}, class : Names,
               method : Names \cup {None}, verb : STRING \cup {None}]
Texts == [path : Names, classes : Seq(Classes), channels : Seq(ChannelCalls),
          imports : Seq(Imports), routes : Seq(Statements)]

-----------------------------------------------------------------------------
\* slice::sort_by with a pair of names, two fields, for key: stable, so the major
\* one last.
ByName(s, field) == SortedBy(s, [i \in DOMAIN s |-> Rank[s[i][field]]])
ByNames(s, minor, major) == ByName(Strict(ByName(s, minor)), major)

\* build_controller_method
ControllerMethod(c, m) ==
    [fqcn |-> c.fqcn, method |-> m.name, status |-> m.status, scopes |-> Dedup(m.calls)]

\* A controller answers through its public methods and through __invoke.
Answering(m) == m.public \/ m.name = "__invoke"

Controllers(f) ==
    LET of(c) == Picked([k \in DOMAIN c.methods |-> ControllerMethod(c, c.methods[k])],
                        {k \in DOMAIN c.methods : Answering(c.methods[k])})
        all == Flattened(Picked([i \in DOMAIN f.classes |-> of(f.classes[i])],
                                {i \in DOMAIN f.classes : f.classes[i].controller}))
    IN  ByNames(all, "method", "fqcn")

\* detect_model_relationship: a morphTo is named by its method, the other
\* polymorphic relations by their second argument.
Morphic == {"morphOne", "morphMany", "morphToMany", "morphedByMany"}

Relationship(m) ==
    LET r == m.relation
    IN  [name    |-> m.name,
         type    |-> r.type,
         related |-> IF r.type = "morphTo" THEN None ELSE r.class,
         morph   |-> IF r.type = "morphTo" THEN m.name
                     ELSE IF r.type \in Morphic THEN r.morph ELSE None,
         pivot   |-> r.pivot]

Relating(c) == {k \in DOMAIN c.methods : c.methods[k].relation # None}
ModelFacts(c) ==
    LET methods == Picked(c.methods, Relating(c))
    IN  [fqcn |-> c.fqcn, scopes |-> c.scopes,
         rels |-> [k \in DOMAIN methods |-> Relationship(methods[k])]]

Models(f) ==
    LET ms == Picked(f.classes, {i \in DOMAIN f.classes : f.classes[i].model})
        sorted == ByName(ms, "fqcn")
    IN  [i \in DOMAIN ms |-> ModelFacts(sorted[i])]

\* The polymorphic facts of process_class: the models that carry the relation n.
IsMorph(r, n) == r.morph = n /\ r.type \notin {"morphTo", "morphedByMany"}
MorphFacts(ms, n) ==
    LET of(m) == Picked([k \in DOMAIN m.rels |->
                           [model |-> m.fqcn, relation |-> m.rels[k].name]],
                        {k \in DOMAIN m.rels : IsMorph(m.rels[k], n)})
        all == Flattened([i \in DOMAIN ms |-> of(ms[i])])
    IN  ByNames(all, "relation", "model")

\* detect_broadcasts: behind a channel's name the next "function" of the file is
\* taken for its callback, whoever it belongs to, and the search goes on behind
\* the body of that function.
\* (Mutant: the function is looked for behind the call.)
LaterCallback(cs, i) == {k \in i + 1 .. Len(cs) : cs[k].callback # None}
NextCallback(cs, i) == {k \in i .. Len(cs) : cs[k].callback # None}

Found(cs) == {i \in DOMAIN cs : /\ i = 1 \/ cs[i - 1].callback # None
                                /\ NextCallback(cs, i) # {}}

Broadcasts(cs) ==
    LET type(i) == IF i \in Found(cs) THEN cs[FirstOf(NextCallback(cs, i))].callback
                                      ELSE None
    IN  Picked([i \in DOMAIN cs |-> [channel |-> cs[i].name, type |-> type(i)]],
               {i \in Found(cs) : \A k \in Found(cs) : k < i => cs[k].name # cs[i].name})

\* analyze_file.  Channels are looked for in a file whose path ends with
\* routes/channels.php alone: the input gives none to any other file.
AnalyzeFile(f) ==
    [path |-> f.path, controllers |-> Controllers(f), models |-> Models(f),
     polymorphic |-> [n \in Morphs |-> MorphFacts(Models(f), n)],
     broadcast |-> Broadcasts(f.channels), source |-> f]
=============================================================================
