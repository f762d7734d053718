-------------------------- MODULE CommandLineProofs --------------------------
(* The response of request mode and the exit code of an invocation tell what *)
(* happened, for every request, every result of analysis and every command.  *)
EXTENDS CommandLine, SortingProofs

-----------------------------------------------------------------------------
\* The request mode of RouteJoin.
LEMMA RouteTyped ==
    ASSUME JoinTypeOK, NEW i \in DOMAIN request.routes
    PROVE  /\ request.routes[i] \in RuntimeRoute
           /\ KeyOf(request.routes[i]) \in ActionKeys \cup {NoKey}
           /\ HasKey(request.routes[i]) => KeyOf(request.routes[i]) \in ActionKeys
<1>1. request.routes[i] \in RuntimeRoute
  BY DEF JoinTypeOK, AnalysisRequest
<1> QED BY <1>1 DEF RuntimeRoute, KeyOf, HasKey, ActionKeys, NoKey

\* What a step of the join adds: a match, and the diagnostic that explains it
\* unless the route is matched.
LEMMA JoinAdds ==
    ASSUME JoinInv, Join
    PROVE  /\ next \in DOMAIN request.routes
           /\ \E m \in Outcome :
                /\ matches' = Append(matches, m) /\ m.route = request.routes[next].id
                /\ \/ /\ m.status = "matched" /\ HasKey(request.routes[next])
                      /\ m.key = KeyOf(request.routes[next]) /\ m.key \in ActionKeys
                      /\ matched' = matched \cup {m.key}
                      /\ UNCHANGED <<diags, partial>>
                   \/ /\ m.status # "matched" /\ partial' = TRUE /\ UNCHANGED matched
                      /\ \E d \in Diagnostic :
                           diags' = Append(diags, d) /\ d.route = m.route
<1> DEFINE r == request.routes[next]
<1>1. next \in DOMAIN request.routes /\ JoinTypeOK
  BY DEF JoinInv, JoinTypeOK, Join, AnalysisRequest
<1>2. /\ r.id \in Ids /\ KeyOf(r) \in ActionKeys \cup {NoKey}
      /\ HasKey(r) => KeyOf(r) \in ActionKeys
  BY <1>1, RouteTyped DEF RuntimeRoute
<1> PICK id \in Ids, k \in ActionKeys \cup {NoKey} : id = r.id /\ k = KeyOf(r)
  BY <1>2
<1>3. JoinMatched(r) \/ JoinMissing(r) \/ JoinClosure(r) \/ JoinUnsupported(r)
  BY DEF Join
<1>4. CASE JoinMatched(r)
  <2> DEFINE m == [route |-> r.id, key |-> KeyOf(r), status |-> "matched"]
  <2>1. m \in Outcome /\ m.route = r.id /\ m.status = "matched" /\ m.key = KeyOf(r)
    BY <1>2 DEF Outcome
  <2>2. /\ HasKey(r) /\ matches' = Append(matches, m) /\ UNCHANGED <<diags, partial>>
        /\ matched' = matched \cup {KeyOf(r)}
    BY <1>4 DEF JoinMatched, Match
  <2> QED BY <1>1, <1>2, <2>1, <2>2
<1>5. ASSUME JoinMissing(r) \/ JoinClosure(r) \/ JoinUnsupported(r)
      PROVE  \E m \in Outcome, d \in Diagnostic :
               /\ matches' = Append(matches, m) /\ m.route = r.id /\ m.status # "matched"
               /\ diags' = Append(diags, d) /\ d.route = m.route
               /\ partial' = TRUE /\ UNCHANGED matched
  <2>1. CASE JoinMissing(r)
    <3> DEFINE m == [route |-> id, key |-> k, status |-> "missing_static"]
               d == [code |-> "route.action.missing_static", severity |-> "warn",
                     route |-> id, key |-> k]
    <3>1. m \in Outcome /\ d \in Diagnostic
      BY DEF Outcome, Diagnostic, Codes
    <3>2. m.route = r.id /\ d.route = m.route /\ m.status # "matched"
      OBVIOUS
    <3>3. /\ matches' = Append(matches, m) /\ diags' = Append(diags, d)
          /\ partial' = TRUE /\ UNCHANGED matched
      BY <2>1 DEF JoinMissing, Match, Diagnose
    <3> HIDE DEF m, d
    <3> QED BY <3>1, <3>2, <3>3
  <2>2. CASE JoinClosure(r)
    <3> DEFINE m == [route |-> id, key |-> NoKey, status |-> "runtime_only"]
               d == [code |-> "route.runtime_only.closure", severity |-> "info",
                     route |-> id, key |-> NoKey]
    <3>1. m \in Outcome /\ d \in Diagnostic
      BY DEF Outcome, Diagnostic, Codes
    <3>2. m.route = r.id /\ d.route = m.route /\ m.status # "matched"
      OBVIOUS
    <3>3. /\ matches' = Append(matches, m) /\ diags' = Append(diags, d)
          /\ partial' = TRUE /\ UNCHANGED matched
      BY <2>2 DEF JoinClosure, Match, Diagnose
    <3> HIDE DEF m, d
    <3> QED BY <3>1, <3>2, <3>3
  <2>3. CASE JoinUnsupported(r)
    <3> DEFINE m == [route |-> id, key |-> NoKey, status |-> "unsupported"]
               d == [code |-> "route.action.unsupported", severity |-> "warn",
                     route |-> id, key |-> NoKey]
    <3>1. m \in Outcome /\ d \in Diagnostic
      BY DEF Outcome, Diagnostic, Codes
    <3>2. m.route = r.id /\ d.route = m.route /\ m.status # "matched"
      OBVIOUS
    <3>3. /\ matches' = Append(matches, m) /\ diags' = Append(diags, d)
          /\ partial' = TRUE /\ UNCHANGED matched
      BY <2>3 DEF JoinUnsupported, Match, Diagnose
    <3> HIDE DEF m, d
    <3> QED BY <3>1, <3>2, <3>3
  <2> QED BY <1>5, <2>1, <2>2, <2>3
<1> QED BY <1>1, <1>3, <1>4, <1>5

LEMMA JoinKeeps == ASSUME JoinInv, Join PROVE JoinInv'
<1>1. PICK m \in Outcome :
        /\ matches' = Append(matches, m) /\ m.route = request.routes[next].id
        /\ \/ /\ m.status = "matched" /\ HasKey(request.routes[next])
              /\ m.key = KeyOf(request.routes[next]) /\ m.key \in ActionKeys
              /\ matched' = matched \cup {m.key}
              /\ UNCHANGED <<diags, partial>>
           \/ /\ m.status # "matched" /\ partial' = TRUE /\ UNCHANGED matched
              /\ \E d \in Diagnostic : diags' = Append(diags, d) /\ d.route = m.route
  BY JoinAdds
<1>2. /\ stage = "join" /\ UNCHANGED <<stage, request, static, response>>
      /\ next' = next + 1 /\ next <= Len(request.routes)
  BY DEF Join
<1>3. /\ JoinTypeOK /\ UniqueIds(request) /\ Mirrored /\ MatchesTell /\ DiagnosticsTell
      /\ response = NoResponse /\ next \in DOMAIN request.routes
  BY <1>2, JoinAdds DEF JoinInv
<1>4. /\ matches \in Seq(Outcome) /\ diags \in Seq(Diagnostic) /\ Len(matches) \in Nat
      /\ next = Len(matches) + 1 /\ request.routes \in Seq(RuntimeRoute)
      /\ Len(request.routes) \in Nat
  BY <1>3 DEF JoinTypeOK, Mirrored, AnalysisRequest
<1>5. /\ Len(matches') = next /\ DOMAIN matches' = DOMAIN matches \cup {next}
      /\ next \notin DOMAIN matches /\ matches'[next] = m
      /\ \A i \in DOMAIN matches : matches'[i] = matches[i]
  BY <1>1, <1>4
<1>6. JoinTypeOK'
  <2>1. matches' \in Seq(Outcome)
    BY <1>1, <1>4
  <2>2. diags' \in Seq(Diagnostic)
    <3>1. diags' = diags \/ \E d \in Diagnostic : diags' = Append(diags, d)
      BY <1>1
    <3> QED BY <1>4, <3>1
  <2>3. matched' \in SUBSET ActionKeys /\ partial' \in BOOLEAN
    BY <1>1, <1>3 DEF JoinTypeOK
  <2>4. /\ stage' \in {"load", "join", "done", "rejected"} /\ next' \in Nat \ {0}
        /\ request' \in AnalysisRequest /\ static' \in StaticResult
    BY <1>2, <1>3 DEF JoinTypeOK
  <2> QED BY <2>1, <2>2, <2>3, <2>4 DEF JoinTypeOK
<1>7. Mirrored'
  <2>1. ASSUME NEW i \in DOMAIN matches'
        PROVE  /\ matches'[i].route = request.routes[i].id
               /\ matches'[i].status = "matched" =>
                    HasKey(request.routes[i]) /\ matches'[i].key = KeyOf(request.routes[i])
    <3>1. CASE i = next
      BY <1>1, <1>5, <3>1
    <3>2. CASE i # next
      <4>1. i \in DOMAIN matches /\ matches'[i] = matches[i]
        BY <1>5, <2>1, <3>2
      <4> QED BY <1>3, <4>1 DEF Mirrored
    <3> QED BY <3>1, <3>2
  <2>2. request' = request /\ next' = Len(matches') + 1 /\ Len(matches') <= Len(request.routes)
    BY <1>2, <1>5
  <2> QED BY <2>1, <2>2 DEF Mirrored, HasKey, KeyOf
<1>8. MatchesTell'
  BY <1>1, <1>2, <1>3, <1>5 DEF MatchesTell
<1>9. \A i \in DOMAIN matches : matches[i].route # m.route
  <2> SUFFICES ASSUME NEW i \in DOMAIN matches PROVE matches[i].route # m.route
    OBVIOUS
  <2>1. i \in 1 .. Len(matches)
    BY <1>4
  <2>2. matches[i].route = request.routes[i].id /\ next = Len(matches) + 1
    BY <1>3 DEF Mirrored
  <2>3. i # next /\ i \in Nat /\ i < next
    BY <1>4, <2>1, <2>2
  <2>4. Len(request.routes) \in Nat /\ DOMAIN request.routes = 1 .. Len(request.routes)
    BY <1>3 DEF JoinTypeOK, AnalysisRequest
  <2>5. i \in DOMAIN request.routes
    BY <1>2, <2>1, <2>2, <2>3, <2>4
  <2>6. request.routes[i].id # request.routes[next].id
    BY <1>3, <2>3, <2>5 DEF UniqueIds
  <2> QED BY <1>1, <2>2, <2>6
<1>10. DiagnosticsTell'
  <2>1. CASE m.status = "matched"
    <3>1. diags' = diags
      BY <1>1, <2>1
    <3>2. About(m.route) = {}
      BY <1>1, <1>3, <1>9, RouteJoinAssumption DEF DiagnosticsTell, About, Outcome
    <3> QED BY <1>3, <1>5, <2>1, <3>1, <3>2 DEF DiagnosticsTell, About
  <2>2. CASE m.status # "matched"
    <3>1. PICK d \in Diagnostic : diags' = Append(diags, d) /\ d.route = m.route
      BY <1>1, <2>2
    <3> DEFINE n == Len(diags) + 1
    <3>2. /\ DOMAIN diags' = DOMAIN diags \cup {n} /\ n \notin DOMAIN diags
          /\ diags'[n] = d /\ \A c \in DOMAIN diags : diags'[c] = diags[c]
      BY <1>4, <3>1
    <3> HIDE DEF n
    <3>3. \A c \in DOMAIN diags : diags[c].route # m.route
      BY <1>1, <1>3, <1>9, RouteJoinAssumption DEF DiagnosticsTell, Outcome
    <3>4. {c \in DOMAIN diags' : diags'[c].route = m.route} = {n}
      BY <3>1, <3>2, <3>3
    <3>5. \A i \in DOMAIN matches :
            {c \in DOMAIN diags' : diags'[c].route = matches[i].route}
              = About(matches[i].route)
      BY <1>5, <1>9, <3>1, <3>2 DEF About
    <3>6. ASSUME NEW i \in DOMAIN matches'
          PROVE  LET about == {c \in DOMAIN diags' : diags'[c].route = matches'[i].route}
                 IN  IF matches'[i].status = "matched" THEN about = {}
                     ELSE \E c \in DOMAIN diags' : about = {c}
      <4>1. CASE i = next
        BY <1>5, <2>2, <3>2, <3>4, <4>1
      <4>2. CASE i # next
        <5>1. i \in DOMAIN matches /\ matches'[i] = matches[i]
          BY <1>5, <3>6, <4>2
        <5>2. IF matches[i].status = "matched" THEN About(matches[i].route) = {}
              ELSE \E d0 \in DOMAIN diags : About(matches[i].route) = {d0}
          BY <1>3, <5>1 DEF DiagnosticsTell
        <5> QED BY <3>2, <3>5, <5>1, <5>2
      <4> QED BY <4>1, <4>2
    <3>7. ASSUME NEW c \in DOMAIN diags'
          PROVE  \/ diags'[c].route = None
                 \/ \E i \in DOMAIN matches' : diags'[c].route = matches'[i].route
      BY <1>3, <1>5, <3>1, <3>2, <3>7 DEF DiagnosticsTell
    <3> QED BY <3>6, <3>7 DEF DiagnosticsTell, About
  <2> QED BY <2>1, <2>2
<1> QED BY <1>2, <1>3, <1>6, <1>7, <1>8, <1>10 DEF JoinInv, UniqueIds

-----------------------------------------------------------------------------
LEMMA LoadKeeps ==
    ASSUME JoinInv, NEW Absolute, NEW r, Load(Absolute, r)
    PROVE  JoinInv'
<1>1. /\ stage = "load" /\ next = 1 /\ matches = <<>> /\ diags = <<>> /\ matched = {}
      /\ partial = FALSE /\ response = NoResponse /\ JoinTypeOK
      /\ request' = Normal(request)
      /\ UNCHANGED <<static, next, matches, matched, response>>
  BY DEF JoinInv, Load
<1>2. Normal(request) \in AnalysisRequest
  <2>1. request.routes \in Seq(RuntimeRoute)
    BY <1>1 DEF JoinTypeOK, AnalysisRequest
  <2>2. \A x \in RuntimeRoute : NormalRoute(x) \in RuntimeRoute
    BY RouteJoinAssumption DEF NormalRoute, RuntimeRoute
  <2>3. [i \in DOMAIN request.routes |-> NormalRoute(request.routes[i])] \in Seq(RuntimeRoute)
    BY <2>1, <2>2
  <2> HIDE DEF RuntimeRoute
  <2> QED BY <1>1, <2>3 DEF JoinTypeOK, AnalysisRequest, Normal
<1>3. CASE Valid(request, Absolute, r)
  <2>1. /\ stage' = "join" /\ partial' = static.partial
        /\ diags' = IF static.partial THEN <<GlobalDiagnostic>> ELSE <<>>
    BY <1>3 DEF Load
  <2>2. GlobalDiagnostic \in Diagnostic /\ GlobalDiagnostic.route = None
    BY DEF GlobalDiagnostic, Diagnostic, Codes
  <2>3. JoinTypeOK'
    <3>1. diags' \in Seq(Diagnostic)
      BY <2>1, <2>2
    <3>2. static.partial \in BOOLEAN
      BY <1>1 DEF JoinTypeOK, StaticResult
    <3> QED BY <1>1, <1>2, <2>1, <3>1, <3>2 DEF JoinTypeOK
  <2>4. UniqueIds(request)'
    <3>1. \A i \in DOMAIN request.routes : NormalRoute(request.routes[i]).id = request.routes[i].id
      BY <1>1, RouteTyped DEF NormalRoute, RuntimeRoute
    <3>2. request'.routes = [i \in DOMAIN request.routes |-> NormalRoute(request.routes[i])]
      BY <1>1 DEF Normal, JoinTypeOK, AnalysisRequest
    <3> QED BY <1>3, <3>1, <3>2 DEF Valid, UniqueIds
  <2>5. Mirrored' /\ MatchesTell'
    <3>1. request' \in AnalysisRequest /\ matches' = <<>> /\ next' = 1 /\ matched' = {}
      BY <1>1, <1>2
    <3>2. DOMAIN matches' = {} /\ Len(matches') = 0 /\ Len(request'.routes) \in Nat
      BY <3>1 DEF AnalysisRequest
    <3> QED BY <1>1, <2>1, <3>1, <3>2 DEF Mirrored, MatchesTell
  <2>6. DiagnosticsTell'
    <3>1. DOMAIN matches' = {}
      BY <1>1
    <3>2. \A d \in DOMAIN diags' : diags'[d].route = None
      BY <2>1, <2>2
    <3> QED BY <3>1, <3>2 DEF DiagnosticsTell
  <2> QED BY <1>1, <2>1, <2>3, <2>4, <2>5, <2>6 DEF JoinInv
<1>4. CASE ~Valid(request, Absolute, r)
  <2>1. stage' = "rejected" /\ UNCHANGED <<partial, diags>>
    BY <1>4 DEF Load
  <2> QED BY <1>1, <1>2, <2>1 DEF JoinInv, JoinTypeOK
<1> QED BY <1>3, <1>4

LEMMA RespondKeeps == ASSUME JoinInv, Respond PROVE JoinInv'
<1>1. /\ stage = "join" /\ next > Len(request.routes) /\ stage' = "done"
      /\ response' = AnalysisResponse
      /\ UNCHANGED <<request, static, next, matches, diags, matched, partial>>
  BY DEF Respond
<1>2. AnalysisResponse' = AnalysisResponse
  BY <1>1 DEF AnalysisResponse, Count, Controllers, Shown, HttpStatus, RuntimeVerbs,
              KeyOf, HasKey
<1>3. JoinTypeOK'
  BY <1>1 DEF JoinInv, JoinTypeOK
<1>4. UniqueIds(request)' /\ Mirrored' /\ MatchesTell' /\ DiagnosticsTell'
  BY <1>1 DEF JoinInv, UniqueIds, Mirrored, MatchesTell, DiagnosticsTell, About,
              HasKey, KeyOf
<1> QED BY <1>1, <1>2, <1>3, <1>4 DEF JoinInv

LEMMA JoinStutters == ASSUME JoinInv, UNCHANGED vars PROVE JoinInv'
<1>1. AnalysisResponse' = AnalysisResponse
  BY DEF vars, AnalysisResponse, Count, Controllers, Shown, HttpStatus, RuntimeVerbs,
         KeyOf, HasKey
<1>2. JoinTypeOK'
  BY DEF vars, JoinInv, JoinTypeOK
<1>3. stage \in {"join", "done"} =>
        UniqueIds(request)' /\ Mirrored' /\ MatchesTell' /\ DiagnosticsTell'
  BY DEF vars, JoinInv, UniqueIds, Mirrored, MatchesTell, DiagnosticsTell, About,
         HasKey, KeyOf
<1> QED BY <1>1, <1>2, <1>3 DEF vars, JoinInv

-----------------------------------------------------------------------------
\* What the invariant says about the response.
LEMMA StatusTells == ASSUME JoinInv PROVE StatusExplained
<1> SUFFICES ASSUME stage = "done"
             PROVE  response.status = "partial" <=>
                      static.partial \/ \E i \in DOMAIN matches : matches[i].status # "matched"
  BY DEF StatusExplained
<1>1. response = AnalysisResponse /\ MatchesTell
  BY DEF JoinInv
<1>2. response.status = IF partial THEN "partial" ELSE "ok"
  BY <1>1 DEF AnalysisResponse
<1> QED BY <1>1, <1>2 DEF MatchesTell

\* Every diagnostic is counted under one severity.
LEMMA CountsTell == ASSUME JoinTypeOK PROVE Count("info") + Count("warn") = Len(diags)
<1> DEFINE Of(y) == {i \in DOMAIN diags : diags[i].severity = y}
<1>1. DOMAIN diags = 1 .. Len(diags) /\ Len(diags) \in Nat
  BY DEF JoinTypeOK
<1>2. IsFiniteSet(DOMAIN diags) /\ Cardinality(DOMAIN diags) = Len(diags)
  <2>1. \A n \in Nat : IsFiniteSet(1 .. n) /\ Cardinality(1 .. n) = n
    BY FS_Interval
  <2> QED BY <1>1, <2>1
<1>3. \A i \in DOMAIN diags : diags[i].severity \in {"info", "warn"}
  <2>1. \A i \in DOMAIN diags : diags[i] \in Diagnostic
    BY DEF JoinTypeOK
  <2> QED BY <2>1 DEF Diagnostic
<1>4. Of("info") \cup Of("warn") = DOMAIN diags /\ Of("info") \cap Of("warn") = {}
  BY <1>3
<1>5. IsFiniteSet(Of("info")) /\ IsFiniteSet(Of("warn"))
  BY <1>2, FS_Subset
<1>6. Count("info") = Cardinality(Of("info")) /\ Count("warn") = Cardinality(Of("warn"))
  BY DEF Count
<1> HIDE DEF Of
<1>7. Cardinality(Of("info") \cup Of("warn"))
        = Cardinality(Of("info")) + Cardinality(Of("warn"))
          - Cardinality(Of("info") \cap Of("warn"))
  BY <1>5, FS_Union
<1>8. /\ Cardinality(Of("info")) \in Nat /\ Cardinality(Of("warn")) \in Nat
      /\ Cardinality({}) = 0
  BY <1>5, FS_CardinalityType, FS_EmptySet
<1>9. Len(diags) = Cardinality(Of("info")) + Cardinality(Of("warn")) - 0
  BY <1>2, <1>4, <1>7, <1>8
<1> QED BY <1>6, <1>8, <1>9

LEMMA RoutesTell == ASSUME JoinInv PROVE RoutesExplained
<1> SUFFICES ASSUME stage = "done"
             PROVE  /\ [i \in DOMAIN matches |-> matches[i].route] =
                          [i \in DOMAIN request.routes |-> request.routes[i].id]
                    /\ \A i \in DOMAIN matches :
                         Cardinality({d \in DOMAIN diags : diags[d].route = matches[i].route})
                           = IF matches[i].status = "matched" THEN 0 ELSE 1
                    /\ response.info + response.warn = Len(diags)
  BY DEF RoutesExplained
<1>1. /\ JoinTypeOK /\ Mirrored /\ DiagnosticsTell /\ next > Len(request.routes)
      /\ response = AnalysisResponse
  BY DEF JoinInv
<1>2. DOMAIN matches = DOMAIN request.routes
  BY <1>1 DEF JoinTypeOK, AnalysisRequest, Mirrored
<1>3. \A i \in DOMAIN matches : matches[i].route = request.routes[i].id
  BY <1>1 DEF Mirrored
<1>4. ASSUME NEW i \in DOMAIN matches
      PROVE  Cardinality(About(matches[i].route))
               = IF matches[i].status = "matched" THEN 0 ELSE 1
  <2>1. CASE matches[i].status = "matched"
    BY <1>1, <2>1, FS_EmptySet DEF DiagnosticsTell
  <2>2. CASE matches[i].status # "matched"
    <3>1. PICK d \in DOMAIN diags : About(matches[i].route) = {d}
      BY <1>1, <2>2 DEF DiagnosticsTell
    <3> QED BY <2>2, <3>1, FS_Singleton
  <2> QED BY <2>1, <2>2
<1>5. response.info + response.warn = Len(diags)
  BY <1>1, CountsTell DEF AnalysisResponse
<1> QED BY <1>2, <1>3, <1>4, <1>5 DEF About

\* What is matched is finite, and listed once and in order.
LEMMA ControllersListed ==
    ASSUME JoinInv, stage \in {"join", "done"}
    PROVE  /\ \A i \in DOMAIN Controllers : /\ Controllers[i] = Shown(Controllers[i].key)
                                            /\ Controllers[i].key \in matched
           /\ \A k \in matched : \E n \in DOMAIN Controllers : Controllers[n].key = k
           /\ \A i, n \in DOMAIN Controllers :
                i < n => KeyOrder[Controllers[i].key] < KeyOrder[Controllers[n].key]
           /\ DOMAIN Controllers \subseteq Nat
<1> DEFINE keys == Listed(matched, KeyOrder)
           Ms == {h \in DOMAIN matches : matches[h].status = "matched"}
<1>1. JoinTypeOK /\ MatchesTell
  BY DEF JoinInv
<1>2. IsFiniteSet(matched)
  <2>1. DOMAIN matches = 1 .. Len(matches) /\ Len(matches) \in Nat
    BY <1>1 DEF JoinTypeOK
  <2>2. IsFiniteSet(Ms)
    <3>1. \A n \in Nat : IsFiniteSet(1 .. n)
      BY FS_Interval
    <3>2. IsFiniteSet(DOMAIN matches) /\ Ms \in SUBSET DOMAIN matches
      BY <2>1, <3>1
    <3> QED BY <3>2, FS_Subset
  <2>3. matched = {matches[i].key : i \in Ms}
    BY <1>1 DEF MatchesTell
  <2> DEFINE f == [i \in Ms |-> matches[i].key]
  <2>4. f \in Surjection(Ms, matched)
    BY <2>3 DEF Surjection
  <2> HIDE DEF f, Ms
  <2> QED BY <2>2, <2>4, FS_Surjection
<1>3. matched \in SUBSET ActionKeys /\ KeyOrder \in [ActionKeys -> Nat] /\ Apart(KeyOrder)
  BY <1>1, RouteJoinAssumption DEF JoinTypeOK, Apart
<1>4. /\ keys \in [1 .. Cardinality(matched) -> matched]
      /\ \A x \in matched : \E n \in 1 .. Cardinality(matched) : keys[n] = x
      /\ \A m, n \in 1 .. Cardinality(matched) :
           m < n => KeyOrder[keys[m]] < KeyOrder[keys[n]]
  BY <1>2, <1>3, ListedOnce
<1>5. Cardinality(matched) \in Nat
  BY <1>2, FS_CardinalityType
<1>6. Controllers = [i \in DOMAIN keys |-> Shown(keys[i])]
  BY DEF Controllers
<1>7. \A k : Shown(k).key = k
  BY DEF Shown
<1> HIDE DEF keys
<1> QED BY <1>4, <1>5, <1>6, <1>7

LEMMA ControllersTell == ASSUME JoinInv PROVE ControllersMatchRoutes
<1> DEFINE cs == response.controllers
           asked == {<<r.fqcn, r.method>> : r \in
                        {request.routes[i] : i \in DOMAIN request.routes}}
           verbs(k) == \E i \in DOMAIN request.routes :
                         LET r == request.routes[i]
                         IN  <<r.fqcn, r.method>> = k /\ r.verbs > 0
                             /\ r.kind \in ControllerKinds
<1> SUFFICES ASSUME stage = "done"
             PROVE  /\ \A i \in DOMAIN cs : cs[i].key \in asked
                    /\ \A i \in DOMAIN matches :
                         matches[i].status = "matched" =>
                           Cardinality({n \in DOMAIN cs : cs[n].key = matches[i].key}) = 1
                    /\ \A i, n \in DOMAIN cs : i < n => KeyOrder[cs[i].key] < KeyOrder[cs[n].key]
                    /\ \A i \in DOMAIN cs : verbs(cs[i].key) => cs[i].http # 0
  BY DEF ControllersMatchRoutes
<1>1. /\ JoinTypeOK /\ Mirrored /\ MatchesTell /\ cs = Controllers
  BY DEF JoinInv, AnalysisResponse
<1>2. ASSUME NEW k \in matched
      PROVE  \E i \in DOMAIN request.routes :
               HasKey(request.routes[i]) /\ k = KeyOf(request.routes[i])
  <2>1. PICK i \in DOMAIN matches : matches[i].status = "matched" /\ k = matches[i].key
    BY <1>1, <1>2 DEF MatchesTell
  <2>2. i \in DOMAIN request.routes
    BY <1>1 DEF Mirrored, JoinTypeOK, AnalysisRequest
  <2> QED BY <1>1, <2>1, <2>2 DEF Mirrored
<1>3. ASSUME NEW i \in DOMAIN cs PROVE cs[i].key \in matched /\ cs[i] = Shown(cs[i].key)
  BY <1>1, ControllersListed
<1>4. \A i \in DOMAIN cs : cs[i].key \in asked
  <2>1. ASSUME NEW i \in DOMAIN cs PROVE cs[i].key \in asked
    <3>1. PICK h \in DOMAIN request.routes :
            HasKey(request.routes[h]) /\ cs[i].key = KeyOf(request.routes[h])
      BY <1>2, <1>3
    <3> QED BY <3>1 DEF KeyOf
  <2> QED BY <2>1
<1>5. \A i, n \in DOMAIN cs : i < n => KeyOrder[cs[i].key] < KeyOrder[cs[n].key]
  BY <1>1, ControllersListed
<1>6. ASSUME NEW i \in DOMAIN matches, matches[i].status = "matched"
      PROVE  Cardinality({n \in DOMAIN cs : cs[n].key = matches[i].key}) = 1
  <2>1. matches[i].key \in matched
    BY <1>1, <1>6 DEF MatchesTell
  <2>2. PICK n \in DOMAIN cs : cs[n].key = matches[i].key
    BY <1>1, <2>1, ControllersListed
  <2>3. ASSUME NEW m \in DOMAIN cs, cs[m].key = cs[n].key PROVE m = n
    <3>1. m \in Nat /\ n \in Nat /\ KeyOrder[cs[m].key] \in Nat
      BY <1>1, <1>3, ControllersListed, RouteJoinAssumption DEF JoinTypeOK
    <3>2. m < n \/ n < m => KeyOrder[cs[m].key] < KeyOrder[cs[m].key]
      BY <1>5, <2>3
    <3> HIDE DEF cs
    <3> QED BY <3>1, <3>2
  <2>4. {m \in DOMAIN cs : cs[m].key = matches[i].key} = {n}
    BY <2>2, <2>3
  <2> HIDE DEF cs
  <2> QED BY <2>4, FS_Singleton
<1>7. ASSUME NEW i \in DOMAIN cs, verbs(cs[i].key) PROVE cs[i].http # 0
  <2>1. PICK h \in DOMAIN request.routes :
          HasKey(request.routes[h]) /\ cs[i].key = KeyOf(request.routes[h])
    BY <1>2, <1>3
  <2>2. PICK n \in DOMAIN request.routes :
          /\ <<request.routes[n].fqcn, request.routes[n].method>> = cs[i].key
          /\ request.routes[n].verbs > 0 /\ request.routes[n].kind \in ControllerKinds
    BY <1>7
  <2>3. KeyOf(request.routes[n]) = cs[i].key
    BY <2>1, <2>2 DEF KeyOf, HasKey
  <2>4. n \in RuntimeVerbs(request, cs[i].key)
    BY <2>2, <2>3 DEF RuntimeVerbs
  <2>5. HttpStatus(request, static, cs[i].key) # 0
    BY <2>4 DEF HttpStatus
  <2>6. \A k : Shown(k).http = HttpStatus(request, static, k)
    BY DEF Shown
  <2> HIDE DEF cs
  <2> QED BY <1>3, <2>5, <2>6
<1> QED BY <1>4, <1>5, <1>6, <1>7

-----------------------------------------------------------------------------
\* The invocation around it.
LEMMA ResponseReal ==
    ASSUME JoinInv PROVE stage = "done" <=> response # NoResponse
<1>1. AnalysisResponse.status \in {"partial", "ok"}
  BY DEF AnalysisResponse
<1>2. AnalysisResponse # NoResponse
  BY <1>1 DEF NoResponse
<1> QED BY <1>2 DEF JoinInv

LEMMA InitC == CInit => CommandInv
<1> SUFFICES ASSUME CInit PROVE CommandInv
  OBVIOUS
<1>1. /\ stage = "load" /\ next = 1 /\ matches = <<>> /\ diags = <<>> /\ matched = {}
      /\ partial = FALSE /\ response = NoResponse
  BY DEF CInit
<1>0. run = 1 /\ phase = "parse" /\ root = "empty" /\ written = 0 /\ printed = 0 /\ out = before
  BY DEF CInit
<1>2. /\ cmd \in Command /\ request \in AnalysisRequest /\ static \in StaticResult
  BY ScenariosAssumption, RouteJoinAssumption DEF CInit
<1>3. JoinInv
  <2>1. <<>> \in Seq(Outcome) /\ <<>> \in Seq(Diagnostic)
    OBVIOUS
  <2>2. matches \in Seq(Outcome) /\ diags \in Seq(Diagnostic)
    BY <1>1, <2>1, Zenon
  <2>3. next \in Nat \ {0}
    <3>1. next = 1
      BY <1>1
    <3> QED BY <3>1
  <2>6. /\ stage \in {"load", "join", "done", "rejected"}
        /\ matched \in SUBSET ActionKeys /\ partial \in BOOLEAN
    BY <1>1
  <2>4. JoinTypeOK
    BY <1>2, <2>2, <2>3, <2>6 DEF JoinTypeOK
  <2> QED BY <1>1, <2>4 DEF JoinInv
<1>4. CommandShape
  <2>1. StageOf(phase) = {"load"}
    BY <1>0 DEF StageOf
  <2>2. run \in Nat \ {0} /\ written \in 0 .. 2 /\ printed \in 0 .. 2
    BY <1>0
  <2> QED BY <1>0, <1>1, <1>2, <2>1, <2>2 DEF CommandShape
<1>5. OutputTells /\ RootTells /\ ExitTellsOutput
  BY <1>0, <1>2 DEF OutputTells, RootTells, ExitTellsOutput
<1> QED BY <1>3, <1>4, <1>5 DEF CommandInv

\* An invocation that ends before it opens the output, or prints it, did nothing.
LEMMA Quits ==
    ASSUME CommandInv, phase \notin {"write", "exited"}, phase' = "exited",
           exit' \in {1, 2, Killed}, exit' = 1 => response' = NoResponse, printed = 0,
           UNCHANGED <<cmd, run, out, printed, before>>
    PROVE  ExitTellsOutput'
BY DEF CommandInv, OutputTells, ExitTellsOutput, Killed

LEMMA GoesOn ==
    ASSUME CommandInv, phase \notin {"emit", "write", "exited"}, phase' \notin {"write", "exited"},
           UNCHANGED <<run, out, written, printed, before>>
    PROVE  ExitTellsOutput' /\ OutputTells'
BY DEF CommandInv, OutputTells, ExitTellsOutput

\* A step of the invocation that leaves the request alone.
LEMMA ShapeKept ==
    ASSUME CommandInv, UNCHANGED <<vars, cmd, run, written, printed>>,
           stage \in StageOf(phase'),
           phase' \in {"parse", "read", "load", "validate", "analyze", "build", "emit",
                      "write", "exited"}
    PROVE  JoinInv' /\ CommandShape'
<1>1. JoinInv'
  BY JoinStutters DEF CommandInv
<1>2. stage' \in {s \in {"load", "join", "done", "rejected"} : s \in StageOf(phase')}
  BY DEF CommandInv, JoinInv, JoinTypeOK, vars
<1>3. CommandShape'
  BY <1>2 DEF CommandInv, CommandShape, StageOf, vars
<1> QED BY <1>1, <1>3

LEMMA ParseC == ASSUME CommandInv, ParseArgs PROVE CommandInv'
<1>1. /\ phase = "parse" /\ phase' \in {"read", "exited"}
      /\ UNCHANGED <<vars, cmd, run, root, out, written, printed, before>>
      /\ phase' = "exited" => exit' \in {1, 2}
  BY DEF ParseArgs, Exit
<1>2. /\ stage = "load" /\ response' = NoResponse
      /\ stage \in StageOf(phase')
  BY <1>1 DEF CommandInv, JoinInv, CommandShape, StageOf, vars
<1>3. JoinInv' /\ CommandShape'
  BY <1>1, <1>2, ShapeKept
<1>4. ExitTellsOutput' /\ OutputTells'
  BY <1>1, <1>2, Quits, GoesOn DEF CommandInv, OutputTells
<1>5. RootTells'
  BY <1>1 DEF CommandInv, RootTells, vars
<1> QED BY <1>3, <1>4, <1>5 DEF CommandInv

LEMMA ReadC == ASSUME CommandInv, ReadInput PROVE CommandInv'
<1>1. /\ phase = "read" /\ phase' \in {"load", "exited"}
      /\ UNCHANGED <<vars, cmd, run, root, out, written, printed, before>>
      /\ phase' = "exited" => exit' \in {1, 2}
  BY DEF ReadInput, Exit
<1>2. stage = "load" /\ response' = NoResponse /\ stage \in StageOf(phase')
  BY <1>1 DEF CommandInv, JoinInv, CommandShape, StageOf, vars
<1>3. JoinInv' /\ CommandShape'
  BY <1>1, <1>2, ShapeKept
<1>4. ExitTellsOutput' /\ OutputTells'
  BY <1>1, <1>2, Quits, GoesOn DEF CommandInv, OutputTells
<1>5. RootTells'
  BY <1>1 DEF CommandInv, RootTells, vars
<1> QED BY <1>3, <1>4, <1>5 DEF CommandInv

LEMMA LoadManifestC == ASSUME CommandInv, LoadManifest PROVE CommandInv'
<1>1. /\ phase = "load" /\ phase' = "validate" /\ ~RequestMode(cmd) /\ root' = ResolvePath(cmd)
      /\ UNCHANGED <<vars, cmd, run, out, written, printed, exit, before>>
  BY DEF LoadManifest
<1>2. stage \in StageOf(phase')
  BY <1>1 DEF CommandInv, CommandShape, StageOf
<1>3. JoinInv' /\ CommandShape'
  BY <1>1, <1>2, ShapeKept
<1>4. ExitTellsOutput' /\ OutputTells'
  BY <1>1, GoesOn
<1>5. RootTells'
  BY <1>1 DEF CommandInv, RootTells, vars
<1> QED BY <1>3, <1>4, <1>5 DEF CommandInv

LEMMA LoadRequestC == ASSUME CommandInv, LoadRequest PROVE CommandInv'
<1> DEFINE Absolute == {p \in Places : IsAbsolute(cmd, p)}
<1>1. /\ phase = "load" /\ RequestMode(cmd) /\ root' = ResolvePath(cmd)
      /\ Load(Absolute, ResolvePath(cmd))
      /\ IF stage' = "rejected" THEN phase' = "exited" /\ exit' = 1
                                ELSE phase' = "validate" /\ UNCHANGED exit
      /\ UNCHANGED <<cmd, run, out, written, printed, before>>
  BY DEF LoadRequest, Exit
<1>2. /\ JoinInv' /\ response' = NoResponse /\ request' = Normal(request)
      /\ stage' = IF Valid(request, Absolute, ResolvePath(cmd)) THEN "join" ELSE "rejected"
  BY <1>1, LoadKeeps DEF CommandInv, JoinInv, Load
<1>3. CommandShape'
  <2>1. stage' \in StageOf(phase')
    BY <1>1, <1>2 DEF StageOf
  <2> QED BY <1>1, <2>1 DEF CommandInv, CommandShape, StageOf
<1>4. ExitTellsOutput' /\ OutputTells'
  BY <1>1, <1>2, Quits, GoesOn DEF CommandInv, OutputTells
<1>5. RootTells'
  <2>1. request'.base = request.base
    BY <1>2 DEF CommandInv, JoinInv, JoinTypeOK, AnalysisRequest, Normal
  <2>2. phase' = "validate" => request.base = root' /\ IsAbsolute(cmd, root')
    BY <1>1, <1>2 DEF Valid
  <2> QED BY <1>1, <2>1, <2>2 DEF CommandInv, RootTells
<1> QED BY <1>2, <1>3, <1>4, <1>5 DEF CommandInv

LEMMA ValidateC == ASSUME CommandInv, ValidateRoot PROVE CommandInv'
<1>1. /\ phase = "validate" /\ phase' \in {"analyze", "exited"}
      /\ UNCHANGED <<vars, cmd, run, root, out, written, printed, before>>
      /\ phase' = "analyze" => IsDirectory(cmd, root)
      /\ phase' = "exited" => exit' \in {1, 2}
  BY DEF ValidateRoot, Exit
<1>2. /\ stage \in {"load", "join"} /\ response' = NoResponse
      /\ stage \in StageOf(phase')
  BY <1>1 DEF CommandInv, JoinInv, CommandShape, StageOf, vars
<1>3. JoinInv' /\ CommandShape'
  BY <1>1, <1>2, ShapeKept
<1>4. ExitTellsOutput' /\ OutputTells'
  BY <1>1, <1>2, Quits, GoesOn DEF CommandInv, OutputTells
<1>5. RootTells'
  BY <1>1 DEF CommandInv, RootTells, vars
<1> QED BY <1>3, <1>4, <1>5 DEF CommandInv

LEMMA AnalyzeC == ASSUME CommandInv, Analyze PROVE CommandInv'
<1>1. /\ phase = "analyze" /\ phase' \in {"build", "exited"}
      /\ UNCHANGED <<vars, cmd, run, root, out, written, printed, before>>
      /\ phase' = "exited" => exit' = 2
  BY DEF Analyze, Exit
<1>2. stage \in StageOf(phase')
  BY <1>1 DEF CommandInv, CommandShape, StageOf
<1>3. JoinInv' /\ CommandShape'
  BY <1>1, <1>2, ShapeKept
<1>4. ExitTellsOutput' /\ OutputTells'
  BY <1>1, Quits, GoesOn DEF CommandInv, OutputTells
<1>5. RootTells'
  BY <1>1 DEF CommandInv, RootTells, vars
<1> QED BY <1>3, <1>4, <1>5 DEF CommandInv

LEMMA BuildDeltaC == ASSUME CommandInv, BuildDelta PROVE CommandInv'
<1>1. /\ phase = "build" /\ phase' = "emit" /\ ~RequestMode(cmd)
      /\ UNCHANGED <<vars, cmd, run, root, out, written, printed, exit, before>>
  BY DEF BuildDelta
<1>2. stage \in StageOf(phase')
  BY <1>1 DEF CommandInv, CommandShape, StageOf
<1>3. JoinInv' /\ CommandShape'
  BY <1>1, <1>2, ShapeKept
<1>4. ExitTellsOutput' /\ OutputTells'
  BY <1>1, GoesOn
<1>5. RootTells'
  BY <1>1 DEF CommandInv, RootTells, vars
<1> QED BY <1>3, <1>4, <1>5 DEF CommandInv

LEMMA BuildResponseC == ASSUME CommandInv, BuildResponse PROVE CommandInv'
<1>1. /\ phase = "build" /\ RequestMode(cmd)
      /\ UNCHANGED <<cmd, run, root, out, written, printed, exit, before>>
      /\ \/ Join /\ phase' = "build" /\ stage' = "join" /\ request' = request
         \/ Respond /\ phase' = "emit" /\ stage' = "done" /\ request' = request
  BY DEF BuildResponse, Join, Respond
<1>2. JoinInv'
  BY <1>1, JoinKeeps, RespondKeeps DEF CommandInv
<1>3. CommandShape'
  <2>1. stage' \in StageOf(phase')
    BY <1>1 DEF StageOf
  <2> QED BY <1>1, <2>1 DEF CommandInv, CommandShape, StageOf
<1>4. ExitTellsOutput' /\ OutputTells'
  BY <1>1, GoesOn
<1>5. RootTells'
  BY <1>1 DEF CommandInv, RootTells
<1> QED BY <1>2, <1>3, <1>4, <1>5 DEF CommandInv

\* A run that emits the result has built it.
LEMMA Built ==
    ASSUME CommandInv, phase \in {"emit", "write"}
    PROVE  RequestMode(cmd) => response # NoResponse
<1>1. RequestMode(cmd) => stage = "done"
  BY DEF CommandInv, CommandShape, StageOf
<1> QED BY <1>1, ResponseReal DEF CommandInv

LEMMA PrintC == ASSUME CommandInv, PrintOutput PROVE CommandInv'
<1>1. /\ phase = "emit" /\ cmd.out = "-"
      /\ UNCHANGED <<vars, cmd, run, root, out, written, before>>
      /\ \/ printed < 2 /\ printed' = printed + 1 /\ phase' = "emit"
         \/ printed = 2 /\ printed' = 2 /\ phase' = "exited" /\ exit' = 0
         \/ printed < 2 /\ printed' = printed /\ phase' = "exited" /\ exit' = 101
  BY DEF PrintOutput, Exit, Whole
<1>2. JoinInv' /\ stage' = stage /\ response' = response
  BY <1>1, JoinStutters DEF CommandInv, vars
<1>3. printed \in 0 .. 2 /\ printed' \in 0 .. 2 /\ out = before
  BY <1>1 DEF CommandInv, CommandShape, OutputTells
<1>4. CommandShape'
  <2>1. stage' \in StageOf(phase')
    BY <1>1, <1>2 DEF CommandInv, CommandShape, StageOf
  <2> QED BY <1>1, <1>3, <2>1 DEF CommandInv, CommandShape, StageOf
<1>5. OutputTells'
  BY <1>1, <1>3 DEF CommandInv, OutputTells
<1>6. ExitTellsOutput'
  <2>1. RequestMode(cmd)' => response' # NoResponse
    BY <1>1, <1>2, Built DEF RequestMode
  <2>2. Len(Whole(run))' = 2
    BY DEF Whole
  <2> QED BY <1>1, <1>3, <2>1, <2>2 DEF ExitTellsOutput
<1>7. RootTells'
  BY <1>1 DEF CommandInv, RootTells, vars
<1> QED BY <1>2, <1>4, <1>5, <1>6, <1>7 DEF CommandInv

LEMMA OpenC == ASSUME CommandInv, OpenOutput PROVE CommandInv'
<1>1. /\ phase = "emit" /\ cmd.out = "file"
      /\ \/ phase' = "write" /\ out' = <<>>
         \/ phase' = "exited" /\ exit' = 2 /\ UNCHANGED out
      /\ UNCHANGED <<vars, cmd, run, root, written, printed, before>>
  BY DEF OpenOutput, Opened, Exit
<1>2. stage \in StageOf(phase')
  BY <1>1 DEF CommandInv, CommandShape, StageOf
<1>3. JoinInv' /\ CommandShape'
  BY <1>1, <1>2, ShapeKept
<1>4. CASE phase' = "write"
  <2>1. written = 0 /\ printed = 0 /\ out' = <<>>
    BY <1>1, <1>4 DEF CommandInv, OutputTells
  <2>2. out' = [i \in 1 .. written |-> run]
    BY <2>1
  <2>3. OutputTells' /\ ExitTellsOutput'
    BY <1>1, <1>4, <2>1, <2>2 DEF OutputTells, ExitTellsOutput
  <2>4. RootTells'
    BY <1>1, <1>4 DEF CommandInv, RootTells, vars
  <2> QED BY <1>3, <2>3, <2>4 DEF CommandInv
<1>5. CASE phase' = "exited"
  <2>2. printed = 0
    BY <1>1 DEF CommandInv, OutputTells
  <2>1. ExitTellsOutput' /\ OutputTells' /\ RootTells'
    BY <1>1, <1>5, <2>2, Quits DEF OutputTells, RootTells, CommandInv, vars
  <2> QED BY <1>3, <2>1 DEF CommandInv
<1> QED BY <1>1, <1>4, <1>5

\* What a run that writes has in the file.
LEMMA Partly ==
    ASSUME CommandInv, phase = "write"
    PROVE  /\ RequestMode(cmd) => response # NoResponse
           /\ \A i \in DOMAIN out : out[i] = run
           /\ written = 2 => out = Whole(run)
<1>1. out = [i \in 1 .. written |-> run] /\ written \in 0 .. 2
  BY DEF CommandInv, OutputTells, CommandShape
<1> QED BY <1>1, Built DEF Whole

LEMMA WriteC == ASSUME CommandInv, WriteOutput PROVE CommandInv'
<1>1. phase = "write" /\ UNCHANGED <<vars, cmd, run, root, printed, before>>
  BY DEF WriteOutput
<1>2. /\ cmd.out = "file" /\ out = [i \in 1 .. written |-> run] /\ written \in 0 .. 2
      /\ printed = 0 /\ Len(Whole(run)) = 2
  BY <1>1 DEF CommandInv, OutputTells, CommandShape, Whole
<1>3. JoinInv' /\ stage' = stage
  BY <1>1, JoinStutters DEF CommandInv, vars
<1>4. ASSUME written < 2, written' = written + 1, UNCHANGED <<phase, exit>>,
             out' = SubSeq(out, 1, written) \o <<run>> \o SubSeq(out, written + 2, Len(out))
      PROVE  CommandInv'
  <2>1. out' = [i \in 1 .. written + 1 |-> run]
    <3>1. CASE written = 0
      BY <1>2, <1>4, <3>1
    <3>2. CASE written = 1
      BY <1>2, <1>4, <3>2
    <3>3. written = 0 \/ written = 1
      BY <1>2, <1>4
    <3> QED BY <3>1, <3>2, <3>3
  <2>2. CommandShape'
    <3>1. written' \in 0 .. 2
      BY <1>2, <1>4
    <3> QED BY <1>1, <1>3, <1>4, <3>1 DEF CommandInv, CommandShape, StageOf
  <2>3. OutputTells' /\ RootTells' /\ ExitTellsOutput'
    BY <1>1, <1>2, <1>4, <2>1 DEF CommandInv, OutputTells, RootTells, ExitTellsOutput, vars
  <2> QED BY <1>3, <2>2, <2>3 DEF CommandInv
<1>5. ASSUME phase' = "exited", (exit' = 0 /\ written = 2) \/ exit' = 2,
             UNCHANGED <<out, written>>
      PROVE  CommandInv'
  <2>1. CommandShape'
    <3>1. stage' \in StageOf(phase')
      BY <1>3, <1>5 DEF CommandInv, CommandShape, JoinInv, JoinTypeOK, StageOf
    <3> QED BY <1>1, <1>5, <3>1 DEF CommandInv, CommandShape, StageOf
  <2>2. ExitTellsOutput'
    <3>1. response' = response
      BY <1>1 DEF vars
    <3>2. /\ RequestMode(cmd)' => response' # NoResponse
          /\ \A i \in DOMAIN out' : out'[i] = run'
          /\ exit' = 0 => out' = Whole(run)'
      BY <1>1, <1>5, <3>1, Partly DEF RequestMode, Whole
    <3>3. printed' = 0 /\ cmd'.out = "file" /\ exit' \in {0, 2}
      BY <1>1, <1>2, <1>5
    <3> QED BY <1>5, <3>2, <3>3 DEF ExitTellsOutput
  <2>3. OutputTells' /\ RootTells'
    BY <1>1, <1>5 DEF CommandInv, OutputTells, RootTells, vars
  <2> QED BY <1>3, <2>1, <2>2, <2>3 DEF CommandInv
<1> QED BY <1>2, <1>4, <1>5 DEF WriteOutput, Exit

LEMMA KillC == ASSUME CommandInv, Kill PROVE CommandInv'
<1>1. /\ phase # "exited" /\ phase' = "exited" /\ exit' = 137
      /\ UNCHANGED <<vars, cmd, run, root, out, written, printed, before>>
  BY DEF Kill, Killed, Exit
<1>2. JoinInv' /\ stage' = stage /\ response' = response
  BY <1>1, JoinStutters DEF CommandInv, vars
<1>3. CommandShape'
  <2>1. stage' \in StageOf(phase')
    BY <1>1, <1>2 DEF CommandInv, CommandShape, JoinInv, JoinTypeOK, StageOf
  <2> QED BY <1>1, <2>1 DEF CommandInv, CommandShape, StageOf
<1>4. ExitTellsOutput'
  <2>1. CASE phase = "write"
    <3>1. /\ RequestMode(cmd)' => response' # NoResponse
          /\ \A i \in DOMAIN out' : out'[i] = run'
          /\ cmd'.out = "file" /\ printed' = 0
      BY <1>1, <1>2, <2>1, Partly DEF CommandInv, OutputTells, RequestMode
    <3> QED BY <1>1, <3>1 DEF ExitTellsOutput
  <2>2. CASE phase = "emit"
    <3>1. RequestMode(cmd)' => response' # NoResponse
      BY <1>1, <1>2, <2>2, Built DEF RequestMode
    <3>2. out' = before' /\ (printed' # 0 => cmd'.out = "-")
      BY <1>1, <2>2 DEF CommandInv, OutputTells
    <3> QED BY <1>1, <3>1, <3>2 DEF ExitTellsOutput
  <2>3. CASE phase \notin {"emit", "write"}
    <3>1. printed = 0
      BY <1>1, <2>3 DEF CommandInv, OutputTells
    <3> QED BY <1>1, <2>3, <3>1, Quits DEF Killed
  <2> QED BY <2>1, <2>2, <2>3
<1>5. OutputTells' /\ RootTells'
  BY <1>1 DEF CommandInv, OutputTells, RootTells, vars
<1> QED BY <1>2, <1>3, <1>4, <1>5 DEF CommandInv

LEMMA RerunC == ASSUME CommandInv, Rerun PROVE CommandInv'
<1>1. /\ run' = run + 1 /\ phase' = "parse" /\ written' = 0 /\ printed' = 0 /\ before' = out
      /\ UNCHANGED <<cmd, request, static, out>>
  BY DEF Rerun
<1>2. /\ stage' = "load" /\ next' = 1 /\ matches' = <<>> /\ diags' = <<>> /\ matched' = {}
      /\ partial' = FALSE /\ response' = NoResponse
  BY DEF Rerun
<1>3. JoinInv'
  <2>1. <<>> \in Seq(Outcome) /\ <<>> \in Seq(Diagnostic)
    OBVIOUS
  <2>2. matches' \in Seq(Outcome) /\ diags' \in Seq(Diagnostic)
    BY <1>2, <2>1, Zenon
  <2>3. next' \in Nat \ {0}
    <3>1. next' = 1
      BY <1>2
    <3> QED BY <3>1
  <2>4. /\ stage' \in {"load", "join", "done", "rejected"}
        /\ matched' \in SUBSET ActionKeys /\ partial' \in BOOLEAN
    BY <1>2
  <2>5. request' \in AnalysisRequest /\ static' \in StaticResult
    BY <1>1 DEF CommandInv, JoinInv, JoinTypeOK
  <2>6. JoinTypeOK'
    BY <2>2, <2>3, <2>4, <2>5 DEF JoinTypeOK
  <2> QED BY <1>2, <2>6 DEF JoinInv
<1>4. CommandShape'
  <2>1. stage' \in StageOf(phase')
    BY <1>1, <1>2 DEF CommandInv, CommandShape, StageOf
  <2>2. run \in Nat \ {0} /\ cmd \in Command
    BY DEF CommandInv, CommandShape
  <2>3. run' \in Nat \ {0} /\ written' \in 0 .. 2 /\ printed' \in 0 .. 2
    BY <1>1, <2>2
  <2> QED BY <1>1, <2>1, <2>2, <2>3 DEF CommandShape, StageOf
<1>5. OutputTells' /\ RootTells' /\ ExitTellsOutput'
  BY <1>1 DEF CommandInv, OutputTells, RootTells, ExitTellsOutput
<1> QED BY <1>3, <1>4, <1>5 DEF CommandInv

LEMMA StutterC == ASSUME CommandInv, UNCHANGED <<vars, command>> PROVE CommandInv'
<1>1. JoinInv'
  BY JoinStutters DEF CommandInv
<1>2. CommandShape' /\ OutputTells' /\ RootTells' /\ ExitTellsOutput'
  BY DEF CommandInv, CommandShape, StageOf, OutputTells, RootTells, ExitTellsOutput,
         vars, command
<1> QED BY <1>1, <1>2 DEF CommandInv

LEMMA NextC == CommandInv /\ [CNext]_<<vars, command>> => CommandInv'
BY ParseC, ReadC, LoadManifestC, LoadRequestC, ValidateC, AnalyzeC, BuildDeltaC,
   BuildResponseC, PrintC, OpenC, WriteC, KillC, RerunC, StutterC DEF CNext, End

LEMMA Always == CSpec => []CommandInv
BY InitC, NextC, PTL DEF CSpec

-----------------------------------------------------------------------------
\* A response is partial exactly if the analysis was, or a route has no matching
\* controller: whatever the routes are, and in whatever order.
THEOREM StatusIsExplained == CSpec => []StatusExplained
<1>1. CommandInv => StatusExplained
  BY StatusTells DEF CommandInv
<1> QED BY <1>1, Always, PTL

\* Every route is answered, in order, and explained by exactly one diagnostic of
\* its own unless it is matched; the counts are those of the diagnostics.
THEOREM RoutesAreExplained == CSpec => []RoutesExplained
<1>1. CommandInv => RoutesExplained
  BY RoutesTell DEF CommandInv
<1> QED BY <1>1, Always, PTL

\* The response lists each matched action, once, in order and with a status if one
\* of its routes has an HTTP method.
THEOREM ControllersAreMatched == CSpec => []ControllersMatchRoutes
<1>1. CommandInv => ControllersMatchRoutes
  BY ControllersTell DEF CommandInv
<1> QED BY <1>1, Always, PTL

\* The exit code tells what became of the output, wherever an invocation fails or
\* is killed and however often it is run again.
THEOREM ExitCodeTells == CSpec => []ExitTellsOutput
<1>1. CommandInv => ExitTellsOutput
  BY DEF CommandInv
<1> QED BY <1>1, Always, PTL

\* What is analysed is a directory, and the one the request names.
THEOREM RootsAgree == CSpec => []RootIsAgreed
<1>1. ASSUME CommandInv PROVE RootIsAgreed
  <2> SUFFICES ASSUME phase \in {"analyze", "build", "emit", "write"}
               PROVE  /\ IsDirectory(cmd, root)
                      /\ RequestMode(cmd) => IsAbsolute(cmd, root) /\ request.base = root
                      /\ root = "cwd" => ~RequestMode(cmd)
                      /\ RequestMode(cmd) /\ Source(cmd) = "-" => cmd.root = "absolute"
    BY DEF RootIsAgreed
  <2>1. root = ResolvePath(cmd) /\ IsDirectory(cmd, root)
    BY <1>1 DEF CommandInv, RootTells
  <2>2. RequestMode(cmd) => IsAbsolute(cmd, root) /\ request.base = root
    BY <1>1 DEF CommandInv, RootTells
  <2>3. root = "cwd" => ~RequestMode(cmd)
    BY <2>2 DEF IsAbsolute
  <2>4. ASSUME Source(cmd) = "-", cmd.root # "absolute" PROVE ~IsAbsolute(cmd, root)
    <3>1. cmd.root \in {"empty", "relative"}
      BY <1>1, <2>4 DEF CommandInv, CommandShape, Command
    <3>2. root \in {"empty", "cwd"}
      BY <2>1, <2>4, <3>1 DEF ResolvePath
    <3> QED BY <3>2 DEF IsAbsolute
  <2> QED BY <2>1, <2>2, <2>3, <2>4
<1> QED BY <1>1, Always, PTL
=============================================================================
