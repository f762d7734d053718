----------------------------- MODULE RequestFields -----------------------------
(***************************************************************************)
(* The request schema of one controller action: build_contract_request     *)
(* (src/src/contracts.rs) collects field facts from the rules the action   *)
(* validates, the Spatie data classes it takes, its form requests, its     *)
(* uploads and its query builder, one source after the other, and merges   *)
(* them field by field (register_request_field).                           *)
(***************************************************************************)
EXTENDS ContractForms, FiniteSets, SequencesExt, Sorting

CONSTANTS
    Actions,         \* the actions considered, with the classes their code names
    DataFieldsOf(_), \* the facts of the data classes an action takes (DataClasses)
    Rank             \* the order of the words, on None too

Words == DOMAIN Rank

\* Ordered as 1, 2, ...
RankAssumption ==
    /\ IsFiniteSet(Words) /\ Rank \in [Words -> 1 .. Cardinality(Words)]
    /\ \A v, w \in Words : Rank[v] = Rank[w] => v = w
ASSUME RankAssumption

\* Of an action, this module uses
\*   inline: Seq([path, rules: Seq(rule)]), data: Seq(class), media: Seq([path, many]),
\*   usage: Seq([method, class, paths]), filters and includes: sets of names,
\*   classes: [class -> [extends, members: Seq([name, type, of, optional]), rules: a Seq
\*   as inline's, or None]].
\* Only three methods of the request name fields.
NamesFields == {"validate", "only", "file"}
RuleLists == Seq([path : Paths, rules : Seq(STRING)])
IsFact(f) == f.location \in Locations /\ f.path \in Paths /\ f.array \in {TRUE, None}
RequestAssumption ==
    /\ None \notin STRING /\ {Item, "filter", "include"} \subseteq Names
    /\ \A a \in Actions :
         /\ a.inline \in RuleLists
         /\ a.usage \in Seq([method : STRING, class : STRING \cup {None}, paths : Seq(Paths)])
         /\ \A i \in DOMAIN a.usage : a.usage[i].paths # <<>> => a.usage[i].method \in NamesFields
         /\ a.media \in Seq([path : Paths, many : BOOLEAN])
         /\ a.filters \cup a.includes \subseteq Words \ {None}
         /\ a.filters \cup a.includes \subseteq Names
         /\ DOMAIN a.classes \subseteq STRING
         /\ \A c \in DOMAIN a.classes : a.classes[c].rules \in RuleLists \cup {None}
         /\ IsList(DataFieldsOf(a))
         /\ \A f \in ToSet(DataFieldsOf(a)) : IsFact(f) /\ f.source = "data"
ASSUME RequestAssumption

VARIABLES
    stage,    \* what is built next
    action,
    todo,     \* facts to be registered
    fields,   \* field_map: a function from <<location, path>>
    shapes,   \* [Locations -> set of paths], a tree each
    types     \* content types: "json" (and form data) and "multipart"

rvars == <<stage, action, todo, fields, shapes, types>>

RInit ==
    /\ action \in Actions
    /\ todo = <<>>
    /\ fields = [k \in {} |-> None]
    /\ shapes = [l \in Locations |-> {}]
    /\ types = {}

-----------------------------------------------------------------------------
\* Where the facts come from.

\* apply_rule_token, rule by rule: of the rules that set an attribute, the last has
\* its way.
LastRule(rules, set) ==
    LET at == {i \in DOMAIN rules : rules[i] \in set}
    IN  IF at = {} THEN None ELSE rules[LastOf(at)]
RuleField(e, source) ==
    LET has(rule) == rule \in ToSet(e.rules)
        kind      == LastRule(e.rules, {"string", "integer", "array", "image"})
        scalar    == LastRule(e.rules, {"string", "integer", "image"})
        presence  == LastRule(e.rules, {"required", "sometimes"})
    IN  [location |-> IF has("image") THEN "files" ELSE "body",
         path     |-> e.path,
         source   |-> source,
         kind     |-> CASE kind = None -> "field" [] kind = "array" -> "array"
                        [] kind = "image" -> "file" [] OTHER -> "scalar",
         type     |-> IF kind = "image" THEN "string" ELSE kind,
         scalar   |-> IF scalar = "image" THEN "binary" ELSE scalar,
         item     |-> None,
         required |-> IF has("required") THEN TRUE ELSE None,
         optional |-> IF presence = None THEN None ELSE presence = "sometimes",
         array    |-> IF has("array") THEN TRUE ELSE None,
         values   |-> ToSet(e.rules) \ {"required", "sometimes", "string", "integer", "array"}]
RuleFields(es, source) == [i \in DOMAIN es |-> RuleField(es[i], source)]

HasRules(c) == c \in DOMAIN action.classes /\ action.classes[c].rules # None
FormFields ==
    LET form(u) == IF HasRules(u.class) THEN RuleFields(action.classes[u.class].rules, "form")
                   ELSE <<>>
    IN  Flattened([i \in DOMAIN action.usage |-> form(action.usage[i])])

UsageField(u, p) ==
    CASE u.method = "validate" -> [Blank("body", p, "validate") EXCEPT !.kind = "field"]
      [] u.method = "only"     -> [Blank("query", p, "only") EXCEPT !.kind = "field"]
      [] u.method = "file"     -> Upload(Blank("files", p, "file"))
UsageFields ==
    LET all(u) == [i \in DOMAIN u.paths |-> UsageField(u, u.paths[i])]
    IN  Flattened([i \in DOMAIN action.usage |-> all(action.usage[i])])

\* spatie_media_request_field
MediaField(m) ==
    LET f == Blank("files", m.path, "media")
    IN  IF m.many THEN [Many(f, "collection") EXCEPT !.item = "file"] ELSE Upload(f)
MediaFields ==
    LET new(i)  == \A k \in 1 .. i - 1 : action.media[k].path # action.media[i].path
        first   == Picked(action.media, {i \in DOMAIN action.media : new(i)})
    IN  [i \in DOMAIN first |-> MediaField(first[i])]

\* extend_query_builder_request; sorts and sparse fields are like includes.
QueryField(path, t, values) ==
    [Blank("query", path, "query-builder") EXCEPT
        !.kind = IF t = "object" THEN t ELSE "csv", !.type = t,
        !.scalar = IF t = "object" THEN None ELSE t, !.values = values]
QueryFields ==
    LET each(group, names) ==
            [i \in 1 .. Cardinality(names) |->
               QueryField(<<group, Listed(names, Rank)[i]>>, "string", {Listed(names, Rank)[i]})]
        whole(group, t, names) ==
            IF names = {} THEN <<>> ELSE <<QueryField(<<group>>, t, names)>>
    IN  each("filter", action.filters) \o whole("filter", "object", action.filters)
        \o whole("include", "string", action.includes) \o each("include", action.includes)

Facts == RuleFields(action.inline, "inline") \o DataFieldsOf(action) \o FormFields
         \o UsageFields \o MediaFields \o QueryFields

UsageTypes ==
    UNION {CASE u.method \in {"validate", "validated", "body"} -> {"json"}
             [] u.method = "file" -> {"multipart"}
             [] OTHER -> {} : u \in ToSet(action.usage)}

-----------------------------------------------------------------------------
\* register_request_field

\* An array's path in the shape ends in Item, unless the path has one already.
\* (Mutant: array paths are left as they are.)
PlainPath(f) == f.path
ShapePath(f) == IF f.location # "query" /\ f.array = TRUE /\ ~Contains(f.path, Item)
                THEN Append(f.path, Item) ELSE f.path

\* ShapeTree::insert_path: a path with its prefixes, where a query keeps "x[]" as one
\* name; the rule key "*", which stands for everything, has no place.
Everything == <<"*">>
Inserted(l, p) ==
    IF p = Everything THEN {}
    ELSE {SubSeq(p, 1, n) : n \in {m \in 1 .. Len(p) :
                                     l = "query" /\ m < Len(p) => p[m + 1] # Item}}
TypesOf(f) == CASE f.location = "body" -> {"json"} [] f.location = "files" -> {"multipart"}
                [] OTHER -> {}

\* merge_optional, merge_optional_bool, extend_unique: the first source to set an
\* attribute wins.  (Mutant: the last one does.)
LastWins(e, f) == [a \in DOMAIN e |-> IF a = "values" THEN e.values \cup f.values
                                      ELSE IF f[a] = None THEN e[a] ELSE f[a]]
Merge(e, f) ==
    [a \in DOMAIN e |->
       CASE a = "values" -> e.values \cup f.values
         [] a = "kind" /\ e.kind = "array" /\ f.kind = "collection" -> "collection"
         [] OTHER -> IF e[a] = None THEN f[a] ELSE e[a]]

BeginRequest ==
    /\ stage = "request"
    /\ stage' = "register"
    /\ todo' = Facts
    /\ types' = UsageTypes
    /\ UNCHANGED <<action, fields, shapes>>

Register ==
    /\ stage = "register" /\ todo # <<>>
    /\ LET f == Head(todo)
           k == <<f.location, f.path>>
           e == IF k \in DOMAIN fields THEN fields[k]
                ELSE Blank(f.location, f.path, None)
       IN  IF f.path = <<>> THEN UNCHANGED <<fields, shapes, types>>
           ELSE /\ fields' = [x \in DOMAIN fields \cup {k} |->
                                IF x = k THEN Merge(e, f) ELSE fields[x]]
                /\ shapes' = [shapes EXCEPT ![f.location] = @ \cup Inserted(f.location, ShapePath(f))]
                /\ types' = types \cup TypesOf(f)
    /\ todo' = Tail(todo)
    /\ UNCHANGED <<stage, action>>

EndRequest ==
    /\ stage = "register" /\ todo = <<>>
    /\ stage' = "body"
    /\ UNCHANGED <<action, todo, fields, shapes, types>>

RNext == BeginRequest \/ Register \/ EndRequest

-----------------------------------------------------------------------------
Registered == stage = "body"
Prefixed(p) == {SubSeq(p, 1, n) : n \in 1 .. Len(p)}
Leaves(ps)  == {p \in ps : ~\E q \in ps : p # q /\ p \in Prefixed(q)}

\* The fields and the shapes tell one story: each field but "*" has its place in the
\* shape of its location, an array that is not inside another one, "*" too, has a
\* place for its items, every leaf is a field or the items of one, and the content
\* types allow for each field, "*" too.
FieldsFitShapes ==
    Registered =>
        /\ \A k \in DOMAIN fields :
             /\ k[2] # Everything => k[2] \in shapes[k[1]]
             /\ fields[k].array = TRUE /\ k[1] # "query" /\ ~Contains(k[2], Item) =>
                  Append(k[2], Item) \in shapes[k[1]]
             /\ k[1] = "body" => "json" \in types
             /\ k[1] = "files" => "multipart" \in types
        /\ \A l \in Locations : \A p \in Leaves(shapes[l]) :
             \/ <<l, p>> \in DOMAIN fields
             \/ p[Len(p)] = Item /\ <<l, SubSeq(p, 1, Len(p) - 1)>> \in DOMAIN fields

\* What a source has said of a field no later source changes; only an array may
\* turn out to be a collection.
FirstSourceWins ==
    [][\A k \in DOMAIN fields :
         /\ k \in DOMAIN fields'
         /\ fields[k].values \subseteq fields'[k].values
         /\ \A a \in DOMAIN fields[k] \ {"values"} :
              \/ fields[k][a] \in {None, fields'[k][a]}
              \/ a = "kind" /\ fields[k].kind = "array" /\ fields'[k].kind = "collection"
      ]_rvars
=============================================================================
