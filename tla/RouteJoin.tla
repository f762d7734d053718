------------------------------- MODULE RouteJoin -------------------------------
(***************************************************************************)
(* Request mode (src/src/contracts.rs): an AnalysisRequest is loaded,      *)
(* normalised and validated, its runtime routes are joined one by one with *)
(* the controllers static analysis found, and the response is built.       *)
(*                                                                         *)
(* A class or method name is a model value, None or Empty; of a controller *)
(* the model keeps its action key, the HTTP status its code sets (0 if it  *)
(* sets none) and an identity, since two files may declare the same action.*)
(* CommandLine runs these actions: they are one phase of an invocation.    *)
(***************************************************************************)
EXTENDS Sorting

CONSTANTS
    None, Empty,   \* a JSON field left out, an empty string
    Ids,           \* route ids
    Fqcns,         \* class names
    Methods,       \* method names
    Invoke,        \* the method name "__invoke"
    KeyOrder,      \* [ActionKeys -> Nat]: order of (fqcn, method)
    Requests,      \* the requests considered
    Statics        \* the results of static analysis considered

ActionKeys == Fqcns \X Methods

ControllerKinds == {"controller_method", "invokable_controller"}

\* What a path names as it is written, see CommandLine; "elsewhere": any other
\* absolute path, also one that names the root in other words.
Places == {"empty", "home", "cwd", "dir", "absolute", "elsewhere"}

\* base: the base path of the application.
RuntimeRoute == [id: Ids, kind: STRING, fqcn: Fqcns \cup {None, Empty},
                 method: Methods \cup {None, Empty}, verbs: Nat]
AnalysisRequest == [version: BOOLEAN, base: Places,
                    routes: Seq(RuntimeRoute)]

\* bound: the actions some file under routes/ binds to an HTTP method.
StaticResult == [partial: BOOLEAN,
                 controllers: Seq([key: ActionKeys, status: Nat, file: Nat]),
                 bound: SUBSET ActionKeys]

ASSUME RouteJoinAssumption ==
    /\ {None, Empty} \cap (Fqcns \cup Methods) = {}
    /\ None \notin Ids /\ Invoke \in Methods
    /\ Requests \subseteq AnalysisRequest /\ Statics \subseteq StaticResult
    /\ KeyOrder \in [ActionKeys -> Nat]
    /\ \A k, h \in ActionKeys : k # h => KeyOrder[k] # KeyOrder[h]

VARIABLES
    stage,     \* "load", "join", "done" or "rejected"
    request,   \* the AnalysisRequest
    static,    \* the PipelineResult
    next,      \* position of the route to join next
    matches,   \* routeMatches
    diags,     \* diagnostics
    matched,   \* matched_action_keys
    partial,
    response

vars == <<stage, request, static, next, matches, diags, matched, partial, response>>

NoKey      == <<None, None>>
NoResponse == [status |-> "none"]

-----------------------------------------------------------------------------
\* AnalysisRequest::normalize: a method left out of an invokable route.
NormalRoute(r) ==
    IF r.kind = "invokable_controller" /\ r.method = None
    THEN [r EXCEPT !.method = Invoke] ELSE r

Normal(q) == [q EXCEPT !.routes = [i \in DOMAIN q.routes |-> NormalRoute(q.routes[i])]]

\* load_analysis_request_from_slice and validate_request_business_rules
\* (Mutant: duplicate route ids are let through.)
AnyIds(q) == TRUE

UniqueIds(q) == \A i, k \in DOMAIN q.routes :
                  i # k => q.routes[i].id # q.routes[k].id

\* (Mutant: the base path may be a relative one.)
AnyBase(q, Absolute, r) == q.version /\ q.base = r /\ UniqueIds(q)

Valid(q, Absolute, r) == /\ q.version /\ q.base \in Absolute /\ q.base = r
                         /\ UniqueIds(q)

GlobalDiagnostic == [code |-> "analysis.static.partial", severity |-> "warn",
                     route |-> None, key |-> NoKey]

\* Absolute are the absolute paths, r is the root as resolved.
Load(Absolute, r) ==
    /\ stage = "load"
    /\ request' = Normal(request)
    /\ IF Valid(request, Absolute, r)
       THEN /\ stage' = "join"
            /\ partial' = static.partial
            /\ diags' = IF static.partial THEN <<GlobalDiagnostic>> ELSE <<>>
       ELSE /\ stage' = "rejected"
            /\ UNCHANGED <<partial, diags>>
    /\ UNCHANGED <<static, next, matches, matched, response>>

-----------------------------------------------------------------------------
\* RouteAction::action_key
HasKey(r) == /\ r.kind \in ControllerKinds
             /\ r.fqcn \notin {None, Empty}
             /\ r.method \notin {None, Empty}
KeyOf(r) == IF HasKey(r) THEN <<r.fqcn, r.method>> ELSE NoKey

\* collect_static_controllers: of two controllers with one action key, the
\* last in file order stays.
StaticKeys(s) == {s.controllers[i].key : i \in DOMAIN s.controllers}
StaticAction(s, k) ==
    LET at == {i \in DOMAIN s.controllers : s.controllers[i].key = k}
    IN  s.controllers[CHOOSE i \in at : \A h \in at : h <= i]

\* build_http_info: the status the code sets; else 200 if a runtime route of
\* the action or a file under routes/ has an HTTP method; else none (0).
\* (Mutant: only the first route of the action counts.)
FirstRouteVerbs(q, k) ==
    {i \in DOMAIN q.routes : /\ KeyOf(q.routes[i]) = k /\ q.routes[i].verbs > 0
                             /\ \A h \in 1 .. i - 1 : KeyOf(q.routes[h]) # k}

RuntimeVerbs(q, k) == {i \in DOMAIN q.routes :
                         KeyOf(q.routes[i]) = k /\ q.routes[i].verbs > 0}
HttpStatus(q, s, k) ==
    LET c == StaticAction(s, k)
    IN  IF c.status # 0 THEN c.status
        ELSE IF RuntimeVerbs(q, k) # {} \/ k \in s.bound THEN 200 ELSE 0

Diagnose(code, severity, r, k) ==
    diags' = Append(diags, [code |-> code, severity |-> severity,
                            route |-> r.id, key |-> k])

Match(r, k, status) ==
    matches' = Append(matches, [route |-> r.id, key |-> k, status |-> status])

JoinMatched(r) ==
    /\ HasKey(r) /\ KeyOf(r) \in StaticKeys(static)
    /\ Match(r, KeyOf(r), "matched")
    /\ matched' = matched \cup {KeyOf(r)}
    /\ UNCHANGED <<diags, partial>>

JoinMissing(r) ==
    /\ HasKey(r) /\ KeyOf(r) \notin StaticKeys(static)
    /\ Match(r, KeyOf(r), "missing_static")
    /\ Diagnose("route.action.missing_static", "warn", r, KeyOf(r))
    /\ partial' = TRUE
    /\ UNCHANGED matched

\* (Mutant: a closure does not make the response partial.)
ClosureIsFine(r) ==
    /\ r.kind = "closure"
    /\ Match(r, NoKey, "runtime_only")
    /\ Diagnose("route.runtime_only.closure", "info", r, NoKey)
    /\ UNCHANGED <<matched, partial>>

JoinClosure(r) ==
    /\ r.kind = "closure"
    /\ Match(r, NoKey, "runtime_only")
    /\ Diagnose("route.runtime_only.closure", "info", r, NoKey)
    /\ partial' = TRUE
    /\ UNCHANGED matched

\* A kind the contract does not know, or a controller without a usable name.
JoinUnsupported(r) ==
    /\ r.kind # "closure" /\ ~HasKey(r)
    /\ Match(r, NoKey, "unsupported")
    /\ Diagnose("route.action.unsupported", "warn", r, NoKey)
    /\ partial' = TRUE
    /\ UNCHANGED matched

Join ==
    /\ stage = "join" /\ next <= Len(request.routes)
    /\ LET r == request.routes[next]
       IN  JoinMatched(r) \/ JoinMissing(r) \/ JoinClosure(r) \/ JoinUnsupported(r)
    /\ next' = next + 1
    /\ UNCHANGED <<stage, request, static, response>>

-----------------------------------------------------------------------------
\* The rest of build_analysis_response.
Count(severity) == Cardinality({i \in DOMAIN diags : diags[i].severity = severity})

Shown(k) == [key |-> k, file |-> StaticAction(static, k).file,
             http |-> HttpStatus(request, static, k)]

\* The matched actions, sorted by class and method.
Controllers == LET keys == Listed(matched, KeyOrder)
               IN  [i \in DOMAIN keys |-> Shown(keys[i])]

AnalysisResponse == [status       |-> IF partial THEN "partial" ELSE "ok",
                     deltaPartial |-> static.partial,
                     info         |-> Count("info"),
                     warn         |-> Count("warn"),
                     controllers  |-> Controllers]

Respond ==
    /\ stage = "join" /\ next > Len(request.routes)
    /\ stage' = "done"
    /\ response' = AnalysisResponse
    /\ UNCHANGED <<request, static, next, matches, diags, matched, partial>>

-----------------------------------------------------------------------------
\* The response is partial exactly when static analysis was, or some route is
\* runtime-only, unsupported or has no static controller.
StatusExplained ==
    stage = "done" =>
        (response.status = "partial" <=>
            static.partial \/ \E i \in DOMAIN matches : matches[i].status # "matched")

\* Every route is answered, in order, and every route that is not matched is
\* explained by exactly one diagnostic of its own; the counts are of all of them.
RoutesExplained ==
    stage = "done" =>
        /\ [i \in DOMAIN matches |-> matches[i].route] =
             [i \in DOMAIN request.routes |-> request.routes[i].id]
        /\ \A i \in DOMAIN matches :
             Cardinality({d \in DOMAIN diags : diags[d].route = matches[i].route})
               = IF matches[i].status = "matched" THEN 0 ELSE 1
        /\ response.info + response.warn = Len(diags)

\* Delta.controllers holds each action some route matched, once, with the HTTP
\* status every route of the action justifies, wherever it is in the list.
ControllersMatchRoutes ==
    stage = "done" =>
        LET cs == response.controllers
            asked == {<<r.fqcn, r.method>> : r \in
                        {request.routes[i] : i \in DOMAIN request.routes}}
            verbs(k) == \E i \in DOMAIN request.routes :
                          LET r == request.routes[i]
                          IN  <<r.fqcn, r.method>> = k /\ r.verbs > 0
                              /\ r.kind \in ControllerKinds
        IN  /\ \A i \in DOMAIN cs : cs[i].key \in asked
            /\ \A i \in DOMAIN matches :
                 matches[i].status = "matched" =>
                   Cardinality({n \in DOMAIN cs : cs[n].key = matches[i].key}) = 1
            /\ \A i, n \in DOMAIN cs : i < n => KeyOrder[cs[i].key] < KeyOrder[cs[n].key]
            /\ \A i \in DOMAIN cs :
                 verbs(cs[i].key) => cs[i].http # 0

-----------------------------------------------------------------------------
\* The inductive invariant behind the three, see CommandLineProofs.
Outcome    == [route: Ids, key: ActionKeys \cup {NoKey},
               status: {"matched", "missing_static", "runtime_only", "unsupported"}]
Codes      == {"analysis.static.partial", "route.action.missing_static",
               "route.runtime_only.closure", "route.action.unsupported"}
Diagnostic == [code: Codes, severity: {"info", "warn"}, route: Ids \cup {None},
               key: ActionKeys \cup {NoKey}]

JoinTypeOK ==
    /\ stage \in {"load", "join", "done", "rejected"}
    /\ request \in AnalysisRequest /\ static \in StaticResult
    /\ next \in Nat \ {0}
    /\ matches \in Seq(Outcome) /\ diags \in Seq(Diagnostic)
    /\ matched \in SUBSET ActionKeys /\ partial \in BOOLEAN

\* The diagnostics about a route.
About(id) == {d \in DOMAIN diags : diags[d].route = id}

\* The first of the routes are joined, in order; a match names the route's action.
Mirrored ==
    /\ next = Len(matches) + 1 /\ Len(matches) <= Len(request.routes)
    /\ \A i \in DOMAIN matches :
         /\ matches[i].route = request.routes[i].id
         /\ matches[i].status = "matched" =>
              HasKey(request.routes[i]) /\ matches[i].key = KeyOf(request.routes[i])

\* What is matched, what makes the response partial, and what explains a route.
MatchesTell ==
    /\ matched = {matches[i].key : i \in {h \in DOMAIN matches :
                                             matches[h].status = "matched"}}
    /\ partial <=> static.partial
                     \/ \E i \in DOMAIN matches : matches[i].status # "matched"

DiagnosticsTell ==
    /\ \A i \in DOMAIN matches :
         IF matches[i].status = "matched" THEN About(matches[i].route) = {}
         ELSE \E d \in DOMAIN diags : About(matches[i].route) = {d}
    /\ \A d \in DOMAIN diags :
         \/ diags[d].route = None
         \/ \E i \in DOMAIN matches : diags[d].route = matches[i].route

JoinInv ==
    /\ JoinTypeOK
    /\ stage = "load" => /\ next = 1 /\ matches = <<>> /\ diags = <<>>
                         /\ matched = {} /\ partial = FALSE
    /\ stage # "done" => response = NoResponse
    /\ stage = "done" => next > Len(request.routes) /\ response = AnalysisResponse
    /\ stage \in {"join", "done"} =>
         /\ UniqueIds(request)
         /\ Mirrored /\ MatchesTell /\ DiagnosticsTell
=============================================================================
