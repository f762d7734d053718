-------------------------------- MODULE Schemas --------------------------------
(***************************************************************************)
(* The schemas of what an action answers (src/src/contracts.rs): of an     *)
(* expression given to response()->json, of the array a resource class     *)
(* returns, and of a model with the relations loaded into it.              *)
(*                                                                         *)
(* What the text of an expression is recognised as is the input; names are *)
(* resolved.  A cast is the type it stands for, and formats are left out.  *)
(***************************************************************************)
EXTENDS ContractForms, FiniteSets, SequencesExt

CONSTANT action   \* the action considered

\* An expression is [form |-> "literal", type], [form |-> "null"],
\*   [form |-> "array", entries: Seq([key, value])], [form |-> "new" or "collection",
\*   class, lazy: in whenLoaded(..)], [form |-> "closure", body: fn () => ..],
\*   [form |-> "measure", by: "count", "avg", "page" or "link"], [form |-> "this", property,
\*   type: what the property's name tells, or None], [form |-> "variable", class: the
\*   type of that parameter or None, assigned: a query or None, loads: set of
\*   relations], [form |-> "query", verb: "page", "list", "create" or "load", model,
\*   loads] or [form |-> "other"].
\* Of an action, this module uses
\*   model: the one the controller is named for, models: [name -> [fillable, hidden:
\*   sets, casts: function, relations: Seq([name, many, related])]], used: Seq([class,
\*   method]), mentions: Seq of the same, as the method's text has them, collections:
\*   the classes whose name ends in Collection, additional: an array or None; and of a
\*   class shape: the array toArray returns or None, model, item: the resource a
\*   collection is named for, resource: BOOLEAN.

ResourceCollection(s) == Object("data" :> Array(s))
Paginated(s) == Object(("data" :> Array(s)) @@ ("meta" :> EmptyObject) @@ ("links" :> EmptyObject))
Cast(t)      == IF t = "array" THEN Array(EmptyObject) ELSE Type(t)

\* Everything in the text of an expression, in its order.
RECURSIVE Parts(_)
Parts(e) ==
    <<e>> \o CASE e.form = "array" -> FlattenSeq([i \in DOMAIN e.entries |-> Parts(e.entries[i].value)])
               [] e.form = "closure" -> Parts(e.body)
               [] OTHER -> <<>>
Measured(e, by) == \E p \in ToSet(Parts(e)) : p.form = "measure" /\ p.by = by
Lazy(e) == \E p \in ToSet(Parts(e)) : p.form \in {"new", "collection"} /\ p.lazy

-----------------------------------------------------------------------------
\* Models.

Model(m) == IF m \in DOMAIN action.models THEN action.models[m]
            ELSE [fillable |-> {}, hidden |-> {}, casts |-> NoProperties, relations |-> <<>>]
Relations(m, name) == SelectSeq(Model(m).relations, LAMBDA r : r.name = name)
As(r, s) == IF r.many THEN Array(s) ELSE s

\* (Mutant: a hidden attribute with a cast is shown.)
UnlessFillable(m) == (Model(m).fillable \ Model(m).hidden) \cup DOMAIN Model(m).casts
Attributes(m) == (Model(m).fillable \cup DOMAIN Model(m).casts) \ Model(m).hidden

\* build_model_object_schema: the first relation of each loaded name, with its model's
\* attributes; nothing of a model that is being shown already.
RECURSIVE ModelSchema(_, _, _)
ModelSchema(m, loads, visited) ==
    LET type(a)   == IF a \in DOMAIN Model(m).casts THEN Cast(Model(m).casts[a]) ELSE Type("string")
        loaded    == {n \in loads : Relations(m, n) # <<>> /\ Head(Relations(m, n)).related # None}
        related(n) == LET r == Head(Relations(m, n))
                      IN  As(r, ModelSchema(r.related, {}, visited \cup {<<"model", m>>}))
    IN  IF <<"model", m>> \in visited THEN EmptyObject
        ELSE Object([n \in loaded |-> related(n)] @@ [a \in Attributes(m) |-> type(a)])

\* infer_model_property_schema
PropertySchema(m, e, visited) ==
    LET rs == Relations(m, e.property)
    IN  CASE e.type # None                       -> Type(e.type)
          [] e.type = None /\ e.property \in DOMAIN Model(m).casts -> Cast(Model(m).casts[e.property])
          [] OTHER ->
               IF e.property \in Model(m).fillable THEN Type("string")
               ELSE IF rs = <<>> \/ Head(rs).related = None THEN EmptyObject
               ELSE As(Head(rs), ModelSchema(Head(rs).related, {}, visited))

-----------------------------------------------------------------------------
\* Arrays and resources.  within is [class, model]: whose method the text is in.

IsResource(c) == c \in DOMAIN action.classes /\ action.classes[c].resource
ItemOf(c)     == IF c \in DOMAIN action.classes THEN action.classes[c].item ELSE None
First(e, form) == SelectSeq(Parts(e), LAMBDA p : p.form = form)

\* infer_resource_reference_schema: the first resource anywhere in the value of a key.
Reference(e) ==
    LET s == IF First(e, "new") # <<>> THEN Ref(Head(First(e, "new")).class)
             ELSE Array(Ref(Head(First(e, "collection")).class))
    IN  IF First(e, "new") \o First(e, "collection") = <<>> THEN None
        ELSE IF Lazy(e) THEN Nullable(s) ELSE s

RECURSIVE ValueSchema(_, _, _), ArraySchema(_, _, _), ResourceSchema(_, _)

Measure(by) == CASE by = "avg"  -> Type("number")
                 [] by = "link" -> Nullable(Type("string"))
                 [] OTHER       -> Type("integer")

\* infer_value_schema
ValueSchema(e, within, visited) ==
    LET ref(c)  == IF IsResource(within.class) THEN Ref(c) ELSE OpenapiRef(c)
        lazy(s) == IF Lazy(e) THEN Nullable(s) ELSE s
        item    == ItemOf(within.class)
    IN  CASE e.form = "literal"    -> Type(e.type)
          [] e.form = "null"       -> Nullable(Schema)
          [] e.form = "array"      -> ArraySchema(e, within, visited)
          [] e.form = "new"        -> lazy(ref(e.class))
          [] e.form = "collection" -> lazy(Array(ref(e.class)))
          [] e.form = "closure"    ->
               IF First(e, "new") # <<>> THEN lazy(ref(Head(First(e, "new")).class))
               ELSE IF First(e, "collection") # <<>>
               THEN lazy(Array(ref(Head(First(e, "collection")).class)))
               ELSE ValueSchema(e.body, within, visited)
          [] e.form = "measure"    -> Measure(e.by)
          [] e.form = "this"       ->
               IF e.property = "collection"
               THEN Array(IF item = None THEN EmptyObject ELSE ResourceSchema(item, visited))
               ELSE IF within.model = None THEN EmptyObject
               ELSE PropertySchema(within.model, e, visited)
          [] OTHER                 -> EmptyObject

\* parse_php_array_schema: a single key makes it an object, of its keys alone; of two
\* entries with one key the last is shown, of a list the first item.
ArraySchema(e, within, visited) ==
    LET keyed   == SelectSeq(e.entries, LAMBDA x : x.key # None)
        of(x)   == IF Reference(x.value) # None THEN Reference(x.value)
                   ELSE ValueSchema(x.value, within, visited)
        last(k) == LET same == SelectSeq(keyed, LAMBDA x : x.key = k) IN same[Len(same)]
    IN  IF keyed # <<>> THEN Object([k \in {x.key : x \in ToSet(keyed)} |-> of(last(k))])
        ELSE IF e.entries = <<>> THEN Array(EmptyObject)
        ELSE Array(ValueSchema(Head(e.entries).value, within, visited))

\* build_resource_schema, build_resource_schema_from_class
ResourceSchema(c, visited) ==
    IF <<"class", c>> \in visited \/ c \notin DOMAIN action.classes THEN EmptyObject
    ELSE IF action.classes[c].shape = None THEN EmptyObject
    ELSE ArraySchema(action.classes[c].shape, [class |-> c, model |-> action.classes[c].model],
                     visited \cup {<<"class", c>>})

-----------------------------------------------------------------------------
\* What a controller answers.

\* infer_schema_from_assignment
QuerySchema(q) ==
    IF q.model = None THEN None
    ELSE CASE q.verb = "page" -> Paginated(ModelSchema(q.model, {}, {}))
           [] q.verb = "list" -> Array(ModelSchema(q.model, {}, {}))
           [] OTHER           -> ModelSchema(q.model, q.loads, {})

\* infer_schema_from_expression: a count or an average anywhere in the text decides.
PayloadSchema(e) ==
    IF e.form = "literal" THEN Type(e.type)
    ELSE IF Measured(e, "count") THEN Type("integer")
    ELSE IF Measured(e, "avg") THEN Type("number")
    ELSE CASE e.form = "array" -> ArraySchema(e, [class |-> None, model |-> action.model], {})
           [] e.form = "collection" -> ResourceCollection(Ref(e.class))
           [] e.form = "new" -> OpenapiRef(e.class)
           [] e.form = "variable" /\ e.class # None -> ModelSchema(e.class, e.loads, {})
           [] e.form = "variable" /\ e.class = None /\ e.assigned # None -> QuerySchema(e.assigned)
           [] e.form = "query" -> QuerySchema(e)
           [] OTHER -> None

IsCollection(u) == u.method = "collection" \/ u.class \in action.collections

\* merge_object_schema
MergeObject(base, extra) ==
    IF extra.properties = NoProperties THEN base
    ELSE [base EXCEPT !.properties = extra.properties @@ @]

ReferenceSchema(u) ==    \* build_response_schema
    IF IsCollection(u) /\ u.class \notin action.collections
    THEN ResourceCollection(Ref(u.class))
    ELSE Ref(u.class)
AdditionalSchema ==      \* extract_additional_resource_schema
    ArraySchema(action.additional, [class |-> None, model |-> None], {})

\* The reference, or the resource spelt out when ->additional([..]) adds to it.
UsageSchema(u) ==
    IF action.additional = None THEN ReferenceSchema(u)
    ELSE MergeObject(ResourceSchema(u.class, {}), AdditionalSchema)
=============================================================================
