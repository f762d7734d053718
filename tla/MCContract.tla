--------------------------- MODULE MCContract ---------------------------
(***************************************************************************)
(* Families of actions: those that take data classes, those that name the  *)
(* same fields in many ways, those that are guarded and answer in many     *)
(* ways, and those that answer models and resources.                       *)
(***************************************************************************)
EXTENDS Contract

Plain == [method |-> "show", calls |-> <<>>, resource |-> None, params |-> {}, routes |-> <<>>,
          static |-> FALSE, status |-> None, setStatus |-> None, noContent |-> FALSE, answers |-> <<>>,
          errors |-> <<>>, model |-> None, models |-> [m \in {} |-> None], used |-> <<>>,
          mentions |-> <<>>, collections |-> {}, additional |-> None, inline |-> <<>>, data |-> <<>>, media |-> <<>>,
          usage |-> <<>>, filters |-> {}, includes |-> {}, classes |-> [c \in {} |-> None]]

Class == [extends |-> None, members |-> <<>>, rules |-> None, authorize |-> None, shape |-> None,
          model |-> None, item |-> None, resource |-> FALSE]

\* Data classes C, D and E: they inherit from and hold each other in every way that
\* is no circle of inheritance.
Member(c) == {[name |-> "m", type |-> t, of |-> c, optional |-> FALSE] : t \in {"one", "many"}}
Other(t)  == [name |-> "n", type |-> t, of |-> None, optional |-> TRUE]
Held == Member("C") \cup Member("D") \cup Member("E")
DataActions ==
    {[Plain EXCEPT !.data = d, !.classes =
        ("C" :> [Class EXCEPT !.extends = x, !.members = <<m, Other("array")>>]) @@
        ("D" :> [Class EXCEPT !.extends = y, !.members = <<n>>]) @@
        ("E" :> [Class EXCEPT !.extends = Data, !.members = <<Other("integer")>>])] :
       d \in {<<"C">>, <<"C", "D">>}, x \in {Data, "D", "E"}, y \in {Data, "E", None},
       m \in Held, n \in Held}

\* A field named in rules, in a data class, in a form request, in a call, as an
\* upload and in the query.
Rules == {<<>>, <<"array">>, <<"required", "sometimes">>, <<"string", "image">>}
P == <<"m">>
Q == <<"m", "_item", "n">>
S == <<"*">>
Entries == {<<>>} \cup {<<[path |-> P, rules |-> r]>> : r \in Rules}
             \cup {<<[path |-> Q, rules |-> r]>> : r \in {<<>>, <<"array">>}}
             \cup {<<[path |-> S, rules |-> <<"array">>]>>}
Uses ==
    {<<>>, <<[method |-> "validated", class |-> "F", paths |-> <<>>]>>}
      \cup {<<[method |-> m, class |-> None, paths |-> <<p>>]>> :
               m \in {"validate", "only", "file"}, p \in {P, Q}}
      \cup {<<[method |-> "file", class |-> None, paths |-> <<S>>]>>}
FieldActions ==
    {[Plain EXCEPT !.inline = i, !.data = d, !.usage = u, !.media = m,
        !.filters = IF i = <<>> THEN {"x", "y"} ELSE {},
        !.includes = IF u = <<>> THEN {"x"} ELSE {},
        !.classes =
        ("F" :> [Class EXCEPT !.rules = f]) @@
        ("C" :> [Class EXCEPT !.extends = Data, !.members = <<[Other("many") EXCEPT !.name = "m",
                                                               !.of = "C"]>>])] :
       i \in Entries, d \in {<<>>, <<"C">>}, u \in Uses, f \in {None} \cup Entries,
       m \in {<<>>, <<[path |-> P, many |-> TRUE], [path |-> P, many |-> FALSE]>>}}

\* Guards and answers.
Guard(k, t) == [kind |-> k, text |-> t]
Middlewares == {<<>>, <<Guard("guard", "auth"), Guard("can", "can:edit")>>,
                <<Guard("can", "can:view"), Guard("guard", "auth"), Guard("other", "web")>>,
                <<Guard("can", "can:edit"), Guard("guard", "verified")>>}
Route(n, ms) == [id |-> n, methods |-> {"GET"}, middleware |-> ms]
RouteLists == {<<>>} \cup {<<Route(1, a)>> : a \in Middlewares}
                \cup {<<Route(1, a), Route(2, b)>> : a, b \in Middlewares}
Call(f) == [form |-> f, ability |-> "view"]
CallLists == {<<>>, <<Call("allows")>>, <<Call("authorize"), Call("allows"), Call("authorize")>>}
Resources == {None, [only |-> {"show"}, except |-> None, target |-> "Post"],
              [only |-> None, except |-> {"show"}, target |-> "Post"]}
Authorizes == {None, [abilities |-> <<>>, denies |-> FALSE], [abilities |-> <<"view">>, denies |-> FALSE]}
Abort(n, b) == [status |-> n, source |-> "abort", literal |-> b]
GuardActions ==
    {[Plain EXCEPT !.routes = r, !.calls = c, !.resource = s, !.params = p,
                   !.errors = e, !.classes = "F" :> [Class EXCEPT !.authorize = a]] :
       r \in RouteLists, c \in CallLists, s \in Resources, p \in {{}, {"F"}},
       a \in Authorizes, e \in {<<>>, <<Abort(403, TRUE)>>}}

Literal == [form |-> "literal", type |-> "string"]
Give(n, e) == [kind |-> "json", status |-> n, default |-> 200, source |-> "json", payload |-> e]
Json(n) == Give(n, Literal)
Away    == [kind |-> "redirect", status |-> None, default |-> 302, source |-> "back"]
Usage(c, m) == [class |-> c, method |-> m]
AnswerActions ==
    {[Plain EXCEPT !.status = IF h = 422 THEN None ELSE h,
                   !.setStatus = IF h = 422 THEN h ELSE None, !.static = b, !.noContent = n, !.answers = w, !.errors = e,
                   !.used = r, !.usage = u, !.params = p, !.calls = c,
                   !.classes = "F" :> [Class EXCEPT !.rules = <<>>]] :
       h \in {None, 201, 204, 422}, b \in BOOLEAN, n \in BOOLEAN,
       w \in {<<>>, <<Json(None), Json(200), Away>>, <<Away, Json(403)>>},
       e \in {<<>>, <<Abort(404, TRUE)>>,
              <<Abort(404, FALSE), Abort(404, FALSE),
                [status |-> 422, source |-> "withMessages", literal |-> FALSE]>>},
       r \in {<<>>, <<Usage("R", "make")>>},
       u \in {<<>>, <<[method |-> "validated", class |-> "F", paths |-> <<>>]>>}, p \in {{}, {"F"}},
       c \in {<<>>, <<Call("authorize")>>}}

\* Users, who have a boss among them and hide a name and a token, and their posts.
Rel(n, many, c) == [name |-> n, many |-> many, related |-> c]
ModelU(h) == [fillable |-> {"name", "key"}, hidden |-> h,
              casts |-> ("born" :> "date-time") @@ ("token" :> "string"),
              relations |-> <<Rel("boss", FALSE, "U"), Rel("posts", TRUE, "P"),
                              Rel("first", FALSE, "P"), Rel("posts", FALSE, "U")>>]
ModelP == [fillable |-> {"title"}, hidden |-> {}, casts |-> "tags" :> "array",
           relations |-> <<Rel("author", FALSE, "U"), Rel("topic", FALSE, None)>>]
Models == {("U" :> ModelU(h)) @@ ("P" :> ModelP) : h \in {{}, {"key", "token"}}}

Loads == {{}, {"boss"}, {"posts", "first", "nothing"}, {"author", "topic"}}
Query(v, m, l) == [form |-> "query", verb |-> v, model |-> m, loads |-> l]
Var(c, a, l)   == [form |-> "variable", class |-> c, assigned |-> a, loads |-> l]
Queries == {Query(v, m, l) : v \in {"page", "list", "create", "load"}, m \in {"U", "P", None}, l \in Loads}

This(p, t)  == [form |-> "this", property |-> p, type |-> t]
Res(f, c, b) == [form |-> f, class |-> c, lazy |-> b]
Count       == [form |-> "measure", by |-> "count"]
Keyed(k, e) == [key |-> k, value |-> e]
List(es)    == [form |-> "array", entries |-> es]
Values ==
    {Literal, [form |-> "null"], [form |-> "other"], Count, [form |-> "measure", by |-> "avg"], [form |-> "measure", by |-> "link"],
     This("boss", None), This("posts", None), This("key", None), This("born", None), This("id", "integer"),
     This("collection", None), This("nothing", None), Res("new", "R", TRUE), Res("collection", "R", FALSE),
     [form |-> "closure", body |-> Count], [form |-> "closure", body |-> Res("new", "R", FALSE)],
     [form |-> "closure", body |-> Res("collection", "R", FALSE)],
     List(<<>>), List(<<Keyed("a", This("posts", None)), Keyed(None, Literal)>>)}
Arrays == {List(<<Keyed(k, v), Keyed(l, w)>>) : k \in {None, "a"}, l \in {"a", "b"},
             v \in Values, w \in {Literal, This("boss", None)}}
            \cup {List(<<Keyed(None, v)>>) : v \in Values}
            \cup {List(<<Keyed(k, List(<<Keyed("b", v), Keyed("a", Literal)>>))>>) :
                    k \in {None, "a"}, v \in Values}

Payloads == Queries \cup {Var("U", None, l) : l \in Loads} \cup {Var(None, q, {}) : q \in Queries \cup {None}}
              \cup Arrays \cup (Values \ {[form |-> "null"]})
R(shape)  == [Class EXCEPT !.shape = shape, !.model = "U", !.resource = TRUE]
RCollection == [Class EXCEPT !.shape = List(<<Keyed("data", This("collection", None))>>),
                             !.item = "R", !.resource = TRUE]
PayloadActions ==
    {[Plain EXCEPT !.answers = <<Give(None, e)>>, !.models = ms, !.model = m] :
        e \in Payloads, ms \in Models, m \in {None, "U"}}
ResourceActions ==
    {[Plain EXCEPT !.used = u, !.mentions = n, !.additional = x, !.collections = {"Rs"},
                   !.models = ("U" :> ModelU({"key"})) @@ ("P" :> ModelP),
                   !.classes = ("R" :> R(a)) @@ ("Rs" :> RCollection)] :
       a \in {None} \cup {y \in Arrays : Len(y.entries) = 2 => y.entries[2] = Keyed("a", Literal)},
       u \in {<<>>, <<Usage("R", "response")>>},
       n \in {<<Usage("R", "new"), Usage("R", "collection")>>, <<Usage("Rs", "new"), Usage("R", "response")>>},
       x \in {None, List(<<Keyed("meta", Count)>>)}}

MCActions == DataActions \cup FieldActions \cup GuardActions \cup AnswerActions
               \cup PayloadActions \cup ResourceActions

MCRank ==
    LET words == <<None, "F", "FormRequest", "JsonResource", "JsonResource::collection",
                   "JsonResource::response", "abort", "allows", "auth", "authorization",
                   "authorize", "authorizeResource", "back", "can:edit", "can:view",
                   "form_request", "inertia", "json", "json_array", "json_object",
                   "middleware", "no_content", "noContent", "policy", "redirect", "validate",
                   "validation", "verified", "view", "web", "withMessages", "x", "y">>
    IN  [w \in {words[i] : i \in DOMAIN words} |-> CHOOSE i \in DOMAIN words : words[i] = w]
=============================================================================
