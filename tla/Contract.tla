------------------------------- MODULE Contract -------------------------------
(***************************************************************************)
(* The contract of an action with the data classes it takes and the        *)
(* schemas it answers with, which classes and models that lead back to     *)
(* themselves make recursive.                                              *)
(***************************************************************************)
EXTENDS ActionContract

CONSTANT Data    \* the class Spatie\LaravelData\Data

ClassesOf(a)  == INSTANCE DataClasses WITH action <- a
AnsweredBy(a) == INSTANCE Schemas WITH action <- a

\* What the modules before take as given.
DataFieldsOfAction(a)       == ClassesOf(a)!AllDataFields
PayloadSchemaOfAction(a, e) == AnsweredBy(a)!PayloadSchema(e)
UsageSchemaOfAction(a, u)   == AnsweredBy(a)!UsageSchema(u)

-----------------------------------------------------------------------------
Classes  == INSTANCE DataClasses
Answered == INSTANCE Schemas

\* Every member of every data class an action takes is a field, at every place it
\* is reached without passing a class twice, however classes inherit from and hold
\* each other, also in a circle; and nothing else is.
DataFieldsComplete ==
    Registered =>
        LET Steps(x) ==
              {[class |-> Classes!Extends(x.class), path |-> x.path]} \cup
              {[class |-> m.of, path |-> Append(x.path, m.name) \o
                                  IF m.type = "many" THEN <<Item>> ELSE <<>>] :
                 m \in {n \in ToSet(action.classes[x.class].members) :
                          n.type \in {"one", "many"}}}
            reach[n \in Nat] ==
              IF n = 0 THEN {[class |-> c, path |-> <<>>, via |-> {c}] : c \in {d \in ToSet(action.data) : Classes!IsData(d)}}
              ELSE UNION {{[class |-> y.class, path |-> y.path, via |-> x.via \cup {y.class}] :
                             y \in {z \in Steps(x) : Classes!IsData(z.class) /\ z.class \notin x.via}} :
                            x \in reach[n - 1]}
            places == UNION {reach[n] : n \in 0 .. Cardinality(DOMAIN action.classes)}
            members(x) == {Append(x.path, m.name) : m \in ToSet(action.classes[x.class].members)}
            all == UNION {members(x) : x \in places}
        IN  /\ \A p \in all : <<"body", p>> \in DOMAIN fields
            /\ \A k \in DOMAIN fields : fields[k].source = "data" => k[2] \in all

\* Every schema within a schema.
RECURSIVE Within(_)
Within(s) ==
    {s} \cup (IF s.items = None THEN {} ELSE Within(s.items))
        \cup UNION {Within(s.properties[k]) : k \in DOMAIN s.properties}
Shown == UNION {Within(r.schema) : r \in {q \in ToSet(responses) : q.schema # None}}

BodyAnswers == ~action.noContent /\ HttpStatus(None) # 204

\* build_controller_resources: the section of the contract.
ControllerResources ==
    {[class |-> u.class, collection |-> Answered!IsCollection(u)] : u \in ToSet(ResourceUsage)}

\* No answer is lost: an action whose body raises no error has an answer that is not
\* one of the added failures as soon as a status is known.  When its body answers
\* nothing, it answers with each class of its resources section: where the section says
\* so as a list of that class, unless the class is a collection, which stands for its
\* list; elsewhere as the class itself.  An action that adds to its resources spells
\* the class out, one item even of a list: its keys and those added, no other ones.
SuccessAnswered ==
    stage = "done" /\ action.errors = <<>> =>
        LET own      == {r \in ToSet(responses) : r.via \notin {"authorization", "validation"}}
            keys(e)  == {x.key : x \in ToSet(e.entries)} \ {None}
            shape(c) == IF c \in DOMAIN action.classes THEN action.classes[c].shape ELSE None
            shown(c) == IF shape(c) = None THEN {} ELSE keys(shape(c))
        IN  /\ Http # None => own # {}
            /\ action.answers = <<>> /\ BodyAnswers =>
                 \A u \in ControllerResources : \E r \in own :
                   IF action.additional # None
                   THEN DOMAIN r.schema.properties = shown(u.class) \cup keys(action.additional)
                   ELSE IF u.collection /\ u.class \notin action.collections
                   THEN Array(Ref(u.class)) \in Within(r.schema)
                   ELSE r.schema = Ref(u.class)

\* The model a payload is, with the relations the code shows of it.
Returned(e) ==
    LET query(q) == [model |-> q.model, loads |-> IF q.verb \in {"page", "list"} THEN {} ELSE q.loads]
    IN  CASE e.form = "query" -> query(e)
          [] e.form = "variable" /\ e.class # None -> [model |-> e.class, loads |-> e.loads]
          [] e.form = "variable" /\ e.class = None /\ e.assigned # None -> query(e.assigned)
          [] OTHER -> [model |-> None, loads |-> {}]

\* A model looks the same wherever it is answered - alone, in a list, on a page, as a
\* relation of another one, twice in one answer: its attributes that are not hidden,
\* and each relation loaded into it.  An attribute that is always hidden is in no
\* answer at all unless a resource or an array of the controller names it.
ModelsShownAlike ==
    stage = "done" /\ BodyAnswers =>
        LET models  == DOMAIN action.models
            visible(m) == {a \in Answered!Model(m).fillable \cup DOMAIN Answered!Model(m).casts : a \notin Answered!Model(m).hidden}
            arrays  == {a.payload : a \in {x \in ToSet(action.answers) : x.kind = "json"}}
                         \cup {action.classes[c].shape : c \in DOMAIN action.classes}
                         \cup {action.additional}
            entries == UNION {UNION {ToSet(p.entries) : p \in {x \in ToSet(Answered!Parts(e)) : x.form = "array"}}
                                : e \in arrays \ {None}}
            named   == {x.key : x \in entries}
            secret  == UNION {Answered!Model(m).hidden : m \in models} \ (named \cup
                         UNION {visible(m) \cup {r.name : r \in ToSet(Answered!Model(m).relations)} : m \in models})
            loaded(m, loads) == {r \in ToSet(Answered!Model(m).relations) :
                                   r.name \in loads /\ r = Head(Answered!Relations(m, r.name)) /\ r.related # None}
        IN  /\ \A s \in Shown : DOMAIN s.properties \cap secret = {}
            /\ \A a \in ToSet(action.answers) :
                 a.kind = "json" /\ Returned(a.payload).model # None =>
                   LET m  == Returned(a.payload).model
                       rs == loaded(m, Returned(a.payload).loads)
                   IN  \E s \in Shown :
                         /\ DOMAIN s.properties = visible(m) \cup {r.name : r \in rs}
                         /\ \A r \in rs : r.related # m =>
                              \E t \in Within(s.properties[r.name]) :
                                DOMAIN t.properties = visible(r.related)
=============================================================================
