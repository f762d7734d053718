---------------------------- MODULE ActionContract ----------------------------
(***************************************************************************)
(* The contract of one controller action (collect_static_controllers,      *)
(* src/src/contracts.rs): who may call it (contract_authorization.rs),     *)
(* what it takes (RequestFields) and what it answers, built in that order  *)
(* and each from the ones before.  What the regular expressions find in a  *)
(* method's text is the input; the schemas of what is answered are those   *)
(* of module Schemas.                                                      *)
(***************************************************************************)
EXTENDS RequestFields

CONSTANTS
    PayloadSchemaOf(_, _), \* of an action and what it gives response()->json, or None
    UsageSchemaOf(_, _)    \* of an action and its use of a resource

\* Of an action, this module also uses
\*   method, calls: Seq([form, ability]), resource: None or [only, except, target],
\*   params: sets of classes named like a form request, routes: Seq([id, methods,
\*   middleware: Seq([kind, text])]), static: whether the route files give it a
\*   method, status and setStatus: in response(.., n) and setStatusCode(n) or None,
\*   noContent, answers: Seq([kind, status, default, source, payload]), in which only
\*   "json" has a payload, errors: Seq([status, source, literal]), used and mentions:
\*   Seq([class, method]) of resources, mentions as the method's text has them,
\*   collections: the classes whose name ends in Collection; and of a class
\*   authorize: None or [abilities: Seq, denies: BOOLEAN].
Status == 0 .. 65535    \* u16
Added  == {"authorization", "validation"}    \* via: what the generator adds itself
OwnWords ==
    {"policy", "allows", "form_request", "middleware", "authorizeResource", "FormRequest",
     "validate", "json_object", "json_array", "no_content", "noContent", "JsonResource",
     "JsonResource::collection", "JsonResource::response"} \cup Added

ContractAssumption ==
    LET Source    == Words \ Added
        Code      == Status \cup {None}
        Uses      == Seq([class : STRING, method : STRING])
    IN  /\ OwnWords \cup {None} \subseteq Words /\ None \notin OwnWords
        /\ \A a \in Actions :
             /\ a.calls \in Seq([form : Words, ability : Words])
             /\ a.params \subseteq Words /\ \A i \in DOMAIN a.usage : a.usage[i].class \in Words
             /\ a.routes \in Seq([id : Nat, methods : SUBSET STRING,
                                  middleware : Seq([kind : STRING, text : Words])])
             /\ \A i \in DOMAIN a.routes : a.routes[i].id # None
             /\ \A c \in DOMAIN a.classes :
                  a.classes[c].authorize # None => a.classes[c].authorize.abilities \in Seq(Words)
             /\ a.status \in Code /\ a.setStatus \in Code
             /\ IsList(a.answers)
             /\ \A i \in DOMAIN a.answers :
                  /\ a.answers[i].kind \in Words /\ a.answers[i].source \in Source
                  /\ a.answers[i].status \in Code /\ a.answers[i].default \in Status
             /\ a.errors \in Seq([status : Status, source : Source, literal : BOOLEAN])
             /\ a.used \in Uses /\ a.mentions \in Uses
ASSUME ContractAssumption

VARIABLES
    items,       \* the authorization found so far
    runtime,     \* routes whose middleware is still to be looked at
    suppress,    \* suppress_runtime_middleware
    responses

cvars == <<stage, action, todo, fields, shapes, types, items, runtime, suppress, responses>>
avars == <<items, runtime, suppress>>
request == <<todo, fields, shapes, types>>

Init ==
    /\ RInit
    /\ stage = "authorize"
    /\ items = <<>>
    /\ runtime = <<>>
    /\ suppress = FALSE
    /\ responses = <<>>

-----------------------------------------------------------------------------
\* build_static_authorization.  An item's "of" is the part of its key in "seen" that
\* the item itself does not hold: the class or the route it was found for.

AuthItem(kind, ability, source, resolution, enforces, of) ==
    [kind |-> kind, ability |-> ability, source |-> source, resolution |-> resolution,
     enforces |-> enforces, of |-> of]

\* One after the other, what is not listed yet.
AddAll(list, new) ==
    LET first(i) == \A k \in 1 .. i - 1 : new[k] # new[i]
    IN  list \o Picked(new, {i \in DOMAIN new : new[i] \notin ToSet(list) /\ first(i)})

FormRequests == (action.params \cup {u.class : u \in ToSet(action.usage)}) \ {None}

\* Gate::allows only answers; that the code acts on it is assumed when something
\* else in the action enforces.
AllowsEnforces == FormRequests # {} \/ \E c \in ToSet(action.calls) : c.form # "allows"

CallItem(c) ==
    IF c.form = "allows" THEN AuthItem("allows", c.ability, c.form, "explicit", AllowsEnforces, None)
    ELSE AuthItem("policy", c.ability, c.form, "explicit", TRUE, None)

ResourceItems ==
    LET r == action.resource
        applies == IF r.only # None THEN action.method \in r.only
                   ELSE r.except = None \/ action.method \notin r.except
    IN  IF r = None \/ ~applies THEN <<>>
        ELSE <<AuthItem("policy", None, "authorizeResource", "explicit", TRUE, r.target)>>

FormItems(c) ==
    LET form(ability, enforces) ==
            AuthItem("form_request", ability, "FormRequest", "form_request", enforces, c)
        a == action.classes[c].authorize
    IN  IF c \notin DOMAIN action.classes \/ a = None THEN <<>>
        ELSE IF a.abilities = <<>> THEN <<form(None, a.denies)>>
        ELSE [i \in DOMAIN a.abilities |-> form(a.abilities[i], TRUE)]

ExplicitItems ==
    LET forms == Listed(FormRequests, Rank)
    IN  AddAll(<<>>, [i \in DOMAIN action.calls |-> CallItem(action.calls[i])] \o ResourceItems
                       \o Flattened([i \in DOMAIN forms |-> FormItems(forms[i])]))

ExplicitAuthorization ==
    /\ stage = "authorize"
    /\ items' = ExplicitItems
    /\ suppress' = (ExplicitItems # <<>>)    \* none of them is runtime or middleware
    /\ runtime' = action.routes
    /\ stage' = "routes"
    /\ UNCHANGED <<action, request, responses>>

\* (Mutant of Suppressed: what the routes themselves have added counts too.)
SuppressedByRoutes == items # <<>>
Suppressed == suppress

\* extend_route_authorization.  A "can" is listed once, a guard (auth..., verified,
\* signed) once for each route.
RouteItems(r) ==
    LET shows(m) == m.kind = "can" \/ (m.kind = "guard" /\ ~Suppressed)
        shown    == Picked(r.middleware, {i \in DOMAIN r.middleware : shows(r.middleware[i])})
        item(m)  == IF m.kind = "can" THEN AuthItem("policy", m.text, m.text, "runtime", TRUE, None)
                    ELSE AuthItem("middleware", None, m.text, "runtime", TRUE, r.id)
    IN  [i \in DOMAIN shown |-> item(shown[i])]

RouteAuthorization ==
    /\ stage = "routes" /\ runtime # <<>>
    /\ items' = AddAll(items, RouteItems(Head(runtime)))
    /\ runtime' = Tail(runtime)
    /\ UNCHANGED <<stage, action, request, suppress, responses>>

\* The order of tuples, as one number.
Width == Cardinality(Words) + 1
ItemKey(i) == (Rank[i.kind] * Width + Rank[i.source]) * Width + Rank[i.ability]

\* (Mutant of Sorted: the items stay as they were found.)
AsFound(list) == list
Sorted(list) == SortedBy(list, [i \in DOMAIN list |-> ItemKey(list[i])])

SortAuthorization ==
    /\ stage = "routes" /\ runtime = <<>>
    /\ items' = Sorted(items)
    /\ stage' = "request"
    /\ UNCHANGED <<action, request, runtime, suppress, responses>>

-----------------------------------------------------------------------------
\* detect_http_status: the first status the text names, in this order of forms.
DetectedStatus ==
    LET json  == Picked(action.answers, {i \in DOMAIN action.answers : action.answers[i].kind = "json"})
        abort == Picked(action.errors, {i \in DOMAIN action.errors : action.errors[i].literal})
        named == [i \in DOMAIN json |-> json[i].status] \o <<action.status>>
                   \o [i \in DOMAIN abort |-> abort[i].status]
                   \o <<action.setStatus, IF action.noContent THEN 204 ELSE None>>
        known == {i \in DOMAIN named : named[i] # None}
    IN  IF known = {} THEN None ELSE named[FirstOf(known)]

\* build_http_info
Http ==
    IF DetectedStatus # None THEN [status |-> DetectedStatus, explicit |-> TRUE]
    ELSE IF action.static \/ \E r \in ToSet(action.routes) : r.methods # {}
    THEN [status |-> 200, explicit |-> FALSE]
    ELSE None
HttpStatus(default) == IF Http = None THEN default ELSE Http.status

Response(kind, status, explicit, source, via, schema) ==
    [kind |-> kind, status |-> status, explicit |-> explicit, source |-> source,
     via |-> via, schema |-> schema]
Failure(status, source, via) ==
    Response("json_object", status, FALSE, source, via, EmptyObject)

\* infer_framework_error_responses
ErrorResponses ==
    LET failure(e) == Failure(e.status, e.source, e.source)
    IN  AddAll(<<>>, [i \in DOMAIN action.errors |-> failure(action.errors[i])])

Answer(a) ==
    LET schema == CASE a.kind = "json" -> LET given == PayloadSchemaOf(action, a.payload)
                                          IN  IF given = None THEN EmptyObject ELSE given
                    [] a.kind = "inertia" -> EmptyObject
                    [] OTHER -> None
        kind   == IF a.kind # "json" THEN a.kind
                  ELSE IF schema.type = "array" THEN "json_array" ELSE "json_object"
    IN  Response(kind, IF a.status # None THEN a.status ELSE HttpStatus(a.default),
                 a.status # None \/ (Http # None /\ Http.explicit), a.source, a.source, schema)

\* infer_responses_from_body
BodyResponses ==
    IF action.noContent \/ HttpStatus(None) = 204
    THEN <<Response("no_content", HttpStatus(None), IF Http = None THEN None ELSE Http.explicit,
                    "noContent", "noContent", None)>>
    ELSE [i \in DOMAIN action.answers |-> Answer(action.answers[i])] \o ErrorResponses

AnswerBody ==
    /\ stage = "body"
    /\ responses' = BodyResponses
    /\ stage' = "fallback"
    /\ UNCHANGED <<action, request, avars>>

\* collect_controller_resource_usage: what static analysis found, then what the text
\* has, form by form.
ResourceUsage ==
    LET of(form) == Picked(action.mentions,
                           {i \in DOMAIN action.mentions : action.mentions[i].method = form})
        text   == of("response") \o of("collection") \o of("make") \o of("new")
        use(u) == IF u.method = "new" /\ u.class \in action.collections
                  THEN [u EXCEPT !.method = "collection"] ELSE u
    IN  AddAll(action.used, [i \in DOMAIN text |-> use(text[i])])

\* infer_responses_from_resources
ResourceSource(u) ==
    CASE u.method = "collection" -> "JsonResource::collection"
      [] u.method = "response"   -> "JsonResource::response"
      [] OTHER                   -> "JsonResource"

ResourceResponses ==
    LET of(u) == Response("json_object", HttpStatus(200), Http # None /\ Http.explicit,
                          ResourceSource(u), ResourceSource(u), UsageSchemaOf(action, u))
    IN  [i \in DOMAIN ResourceUsage |-> of(ResourceUsage[i])]

\* infer_fallback_response; 204 has been answered from the body.
Fallback == IF Http = None THEN <<>>
            ELSE <<Response("json_object", Http.status, Http.explicit, None, None, EmptyObject)>>

\* (Mutant: the resources are looked at only when nothing else is known.)
FallbackFirst(resources) == IF Fallback = <<>> THEN resources ELSE Fallback
Otherwise(resources) == IF resources = <<>> THEN Fallback ELSE resources

AnswerOtherwise ==
    /\ stage = "fallback"
    /\ responses' = IF responses = <<>> THEN Otherwise(ResourceResponses) ELSE responses
    /\ stage' = "forbidden"
    /\ UNCHANGED <<action, request, avars>>

\* (Mutant: any failure already there will do.)
AnswersFailure(status) == \E r \in ToSet(responses) : r.status # None /\ r.status >= 400
Answers(status) == \E r \in ToSet(responses) : r.status = status
Enforcing == Picked(items, {i \in DOMAIN items : items[i].enforces /\ items[i].kind # "middleware"})

\* extend_authorization_failure_responses
AnswerForbidden ==
    /\ stage = "forbidden"
    /\ responses' = IF Answers(403) \/ Enforcing = <<>> THEN responses
                    ELSE Append(responses, Failure(403, Head(Enforcing).source, "authorization"))
    /\ stage' = "invalid"
    /\ UNCHANGED <<action, request, avars>>

\* extend_validation_failure_responses: the first use of the request that validates,
\* else a parameter whose class has rules.
Validates(u) == u.method \in {"validate", "validated"} \/ u.class # None
Validation ==
    LET uses == {i \in DOMAIN action.usage : Validates(action.usage[i])}
    IN  IF uses # {}
        THEN IF action.usage[FirstOf(uses)].method = "validate" THEN "validate" ELSE "FormRequest"
        ELSE IF \E c \in action.params : HasRules(c) THEN "FormRequest" ELSE None

AnswerInvalid ==
    /\ stage = "invalid"
    /\ responses' = IF Answers(422) \/ Validation = None THEN responses
                    ELSE Append(responses, Failure(422, Validation, "validation"))
    /\ stage' = "order"
    /\ UNCHANGED <<action, request, avars>>

\* Responses that differ in nothing but "explicit" are one; the first is kept.
Shape(r) == <<r.kind, r.status, r.source, r.via, r.schema>>
FirstOfEach(list) ==
    Picked(list, {i \in DOMAIN list : \A k \in 1 .. i - 1 : Shape(list[k]) # Shape(list[i])})

\* By kind and status, those that are equal in them by source and via.
MajorKey(r) == Rank[r.kind] * 65537 + (IF r.status = None THEN 0 ELSE r.status + 1)
MinorKey(r) == Rank[r.source] * Width + Rank[r.via]
Ordered(list) ==
    LET minor == SortedBy(list, [i \in DOMAIN list |-> MinorKey(list[i])])
    IN  SortedBy(minor, [i \in DOMAIN minor |-> MajorKey(minor[i])])

OrderResponses ==
    /\ stage = "order"
    /\ responses' = Ordered(FirstOfEach(responses))
    /\ stage' = "done"
    /\ UNCHANGED <<action, request, avars>>

Done == stage = "done" /\ UNCHANGED cvars

Next ==
    \/ ExplicitAuthorization \/ RouteAuthorization \/ SortAuthorization
    \/ RNext /\ UNCHANGED <<avars, responses>>
    \/ AnswerBody \/ AnswerOtherwise \/ AnswerForbidden \/ AnswerInvalid \/ OrderResponses
    \/ Done

Spec == Init /\ [][Next]_cvars

-----------------------------------------------------------------------------
Orders(seq) ==
    {[i \in DOMAIN seq |-> seq[p[i]]] :
       p \in {q \in [DOMAIN seq -> DOMAIN seq] : \A k \in DOMAIN seq : \E i \in DOMAIN seq : q[i] = k}}

\* The items of all routes at once.
Authorization(routes) ==
    Sorted(AddAll(ExplicitItems, Flattened([i \in DOMAIN routes |-> RouteItems(routes[i])])))

\* The authorization section does not depend on the order in which the host lists
\* the routes of an action, although routes share, repeat and suppress items: every
\* order gives the same list.
RouteOrderIrrelevant ==
    stage = "request" =>
        LET shown(list) == [i \in DOMAIN list |-> [list[i] EXCEPT !.of = None]]
        IN  \A routes \in Orders(action.routes) : shown(Authorization(routes)) = shown(items)

\* Every guard of every route is shown: a "can" always, another one for its route
\* unless the action itself says who may call it, never because of what another
\* route or an earlier middleware has.
RouteGuardsShown ==
    stage = "request" =>
        \A r \in ToSet(action.routes) : \A m \in ToSet(r.middleware) :
          LET own == \E i \in ToSet(items) : i.resolution # "runtime"
              as(of) == \E i \in ToSet(items) :
                          i.resolution = "runtime" /\ i.source = m.text /\ i.of = of
          IN  /\ m.kind = "can" => as(None)
              /\ m.kind = "guard" => (as(r.id) <=> ~own)

\* What asks for a validation and so may answer 422, as the source says: a call of
\* validate, or another use of a form request, or a parameter of a class with rules.
\* A data class or $this->validate([..]) alone does not.
ValidatedBy(source) ==
    \/ source = "validate" /\ \E u \in ToSet(action.usage) : u.method = "validate"
    \/ /\ source = "FormRequest"
       /\ \/ \E u \in ToSet(action.usage) :
               u.method # "validate" /\ (u.method = "validated" \/ u.class # None)
          \/ \E c \in action.params : HasRules(c)

\* The three sections agree: an action that enforces an authorization answers 403, one
\* that asks for a validation, so that any field comes from a form request or from a
\* call of validate, answers 422; and what the generator adds for that it adds once,
\* beside no other answer with that status, and only for a reason there is: a 403 for
\* an item that enforces, a 422 for what asks for a validation.
FailuresAnswered ==
    stage = "done" =>
        LET added(via) == {i \in DOMAIN responses : responses[i].via = via}
            answered == {r.status : r \in ToSet(responses)}
            alone(i) == \A h \in DOMAIN responses \ {i} : responses[h].status # responses[i].status
        IN  /\ Enforcing # <<>> => 403 \in answered
            /\ (\E source \in {"validate", "FormRequest"} : ValidatedBy(source)) => 422 \in answered
            /\ (\E k \in DOMAIN fields : fields[k].source \in {"form", "validate"}) =>
                 422 \in answered
            /\ \A via \in {"authorization", "validation"} : Cardinality(added(via)) <= 1
            /\ \A i \in added("authorization") :
                 /\ responses[i].status = 403 /\ alone(i)
                 /\ \E a \in ToSet(Enforcing) : a.source = responses[i].source
            /\ \A i \in added("validation") :
                 /\ responses[i].status = 422 /\ alone(i)
                 /\ ValidatedBy(responses[i].source)
=============================================================================
