----------------------------- MODULE ContractProofs -----------------------------
(***************************************************************************)
(* What is proved of the contract of one action, for every set of actions  *)
(* and whatever its data classes and schemas are: its request, who may     *)
(* call it, and its responses.                                             *)
(***************************************************************************)
EXTENDS ActionContract, SortingProofs

-----------------------------------------------------------------------------
(* What the action takes: fields only become more.                           *)

FactNames == {"location", "path", "source", "kind", "type", "scalar", "item", "required",
              "optional", "array", "values"}

LEMMA BlankIs ==
    ASSUME NEW l, NEW p, NEW s
    PROVE  /\ DOMAIN Blank(l, p, s) = FactNames
           /\ Blank(l, p, s).array = None /\ Blank(l, p, s).values = {}
           /\ Blank(l, p, s).source = s /\ Blank(l, p, s).kind = None
BY DEF Blank, FactNames

LEMMA MergeIs ==
    ASSUME NEW e, NEW f, DOMAIN e = FactNames
    PROVE  /\ DOMAIN Merge(e, f) = FactNames
           /\ Merge(e, f).values = e.values \cup f.values
           /\ \A a \in FactNames \ {"values"} :
                \/ e[a] \in {None, Merge(e, f)[a]}
                \/ a = "kind" /\ e.kind = "array" /\ Merge(e, f).kind = "collection"
           /\ Merge(e, f).array = IF e.array = None THEN f.array ELSE e.array
           /\ Merge(e, f).source = IF e.source = None THEN f.source ELSE e.source
<1>1. DOMAIN Merge(e, f) = FactNames
  BY DEF Merge
<1>2. /\ "values" \in FactNames /\ "array" \in FactNames /\ "source" \in FactNames
      /\ "kind" \in FactNames
  BY DEF FactNames
<1>3. Merge(e, f).values = e.values \cup f.values
  BY <1>2 DEF Merge
<1>4. Merge(e, f).array = IF e.array = None THEN f.array ELSE e.array
  BY <1>2 DEF Merge
<1>5. Merge(e, f).source = IF e.source = None THEN f.source ELSE e.source
  BY <1>2 DEF Merge
<1>6. ASSUME NEW a \in FactNames \ {"values"}
      PROVE  \/ e[a] \in {None, Merge(e, f)[a]}
             \/ a = "kind" /\ e.kind = "array" /\ Merge(e, f).kind = "collection"
  BY <1>2 DEF Merge
<1> QED BY <1>1, <1>3, <1>4, <1>5, <1>6

Named == \A k \in DOMAIN fields : DOMAIN fields[k] = FactNames

Wins == \A k \in DOMAIN fields :
          /\ k \in DOMAIN fields'
          /\ fields[k].values \subseteq fields'[k].values
          /\ \A a \in DOMAIN fields[k] \ {"values"} :
               \/ fields[k][a] \in {None, fields'[k][a]}
               \/ a = "kind" /\ fields[k].kind = "array" /\ fields'[k].kind = "collection"

LEMMA SameFields == ASSUME fields' = fields PROVE Wins /\ (Named => Named')
BY DEF Wins, Named

LEMMA RegisterWins == ASSUME Named, Register PROVE Wins /\ Named'
<1> DEFINE f == Head(todo)
           k == <<f.location, f.path>>
           e == IF k \in DOMAIN fields THEN fields[k] ELSE Blank(f.location, f.path, None)
<1>1. CASE f.path = <<>>
  <2>1. fields' = fields
    BY <1>1 DEF Register
  <2> QED BY <2>1, SameFields
<1>2. CASE f.path # <<>>
  <2>1. fields' = [x \in DOMAIN fields \cup {k} |-> IF x = k THEN Merge(e, f) ELSE fields[x]]
    BY <1>2 DEF Register
  <2>2. DOMAIN e = FactNames
    BY BlankIs DEF Named
  <2>3. k \in DOMAIN fields => e = fields[k]
    OBVIOUS
  <2> HIDE DEF e, k, f
  <2>4. DOMAIN fields' = DOMAIN fields \cup {k} /\ fields'[k] = Merge(e, f)
    BY <2>1
  <2>5. \A x \in DOMAIN fields : x # k => fields'[x] = fields[x]
    BY <2>1
  <2>6. Named'
    BY <2>2, <2>4, <2>5, MergeIs DEF Named
  <2>7. ASSUME NEW x \in DOMAIN fields
        PROVE  /\ x \in DOMAIN fields'
               /\ fields[x].values \subseteq fields'[x].values
               /\ \A a \in DOMAIN fields[x] \ {"values"} :
                    \/ fields[x][a] \in {None, fields'[x][a]}
                    \/ a = "kind" /\ fields[x].kind = "array" /\ fields'[x].kind = "collection"
    <3>1. CASE x = k
      <4>1. fields[x] = e /\ fields'[x] = Merge(e, f)
        BY <2>3, <2>4, <3>1
      <4> QED BY <2>2, <2>4, <4>1, MergeIs
    <3>2. CASE x # k
      BY <2>4, <2>5, <3>2
    <3> QED BY <3>1, <3>2
  <2> QED BY <2>6, <2>7 DEF Wins
<1> QED BY <1>1, <1>2

LEMMA StepWins == ASSUME Named, [Next]_cvars PROVE Wins /\ Named'
<1>1. CASE Register
  BY <1>1, RegisterWins
<1>2. CASE [Next]_cvars /\ ~Register
  <2>1. fields' = fields
    BY <1>2 DEF Next, cvars, request, ExplicitAuthorization, RouteAuthorization, SortAuthorization,
         RNext, BeginRequest, EndRequest, AnswerBody, AnswerOtherwise, AnswerForbidden,
         AnswerInvalid, OrderResponses, Done
  <2> QED BY <2>1, SameFields
<1> QED BY <1>1, <1>2

\* No source takes back what an earlier one has said of a field: register_request_field
\* merges whatever the sources say, and no other step touches the fields.
THEOREM FirstSourceWinsAlways == Spec => FirstSourceWins
<1>1. Init => Named
  BY DEF Init, RInit, Named
<1>2. Named /\ [Next]_cvars => Named' /\ [Wins]_rvars
  BY StepWins
<1>3. [][Wins]_rvars => FirstSourceWins
  BY PTL DEF Wins, FirstSourceWins
<1> QED BY <1>1, <1>2, <1>3, PTL DEF Spec
-----------------------------------------------------------------------------
(* What is collected.                                                    *)

Checked(s) == s \in {"form", "validate"} => \E i \in DOMAIN action.usage : Validates(action.usage[i])
IsCollected(f) == IsFact(f) /\ Checked(f.source)

LEMMA Collection ==
    ASSUME NEW s, NEW t, IsList(s), IsList(t), \A f \in ToSet(s) \cup ToSet(t) : IsCollected(f)
    PROVE  IsList(s \o t) /\ \A f \in ToSet(s \o t) : IsCollected(f)
BY CatLists

LEMMA RuleFieldIs ==
    ASSUME NEW e, e.path \in Paths, NEW source
    PROVE  IsFact(RuleField(e, source)) /\ RuleField(e, source).source = source
<1> DEFINE r == RuleField(e, source)
<1>1. r.location \in Locations /\ r.path = e.path /\ r.source = source
  BY DEF RuleField, Locations
<1>2. r.array \in {TRUE, None}
  BY DEF RuleField
<1> QED BY <1>1, <1>2 DEF IsFact

LEMMA RuleFieldsAre ==
    ASSUME NEW es \in RuleLists, NEW source
    PROVE  /\ IsList(RuleFields(es, source))
           /\ \A f \in ToSet(RuleFields(es, source)) : IsFact(f) /\ f.source = source
<1>1. DOMAIN es = 1 .. Len(es) /\ Len(es) \in Nat /\ \A i \in DOMAIN es : es[i].path \in Paths
  <2> DEFINE E == [path : Paths, rules : Seq(STRING)]
  <2>1. es \in Seq(E) /\ \A e \in E : e.path \in Paths
    BY DEF RuleLists
  <2> HIDE DEF E
  <2> QED BY <2>1
<1> DEFINE r == RuleFields(es, source)
<1>2. r = [i \in 1 .. Len(es) |-> RuleField(es[i], source)]
  BY <1>1 DEF RuleFields
<1>3. \A i \in DOMAIN es : r[i] = RuleField(es[i], source)
  BY <1>1, <1>2
<1>4. r = [i \in 1 .. Len(es) |-> r[i]]
  BY <1>2
<1> HIDE DEF r
<1>5. IsList(r) /\ DOMAIN r = DOMAIN es
  BY <1>1, <1>4, BuiltList
<1>6. \A i \in DOMAIN r : IsFact(r[i]) /\ r[i].source = source
  BY <1>1, <1>3, <1>5, RuleFieldIs
<1>7. \A f \in ToSet(r) : \E i \in DOMAIN r : f = r[i]
  BY InToSet
<1> QED BY <1>5, <1>6, <1>7 DEF r

LEMMA FormFieldsAre ==
    ASSUME action \in Actions
    PROVE  IsList(FormFields) /\ \A f \in ToSet(FormFields) : IsCollected(f)
<1> DEFINE form(u) == IF HasRules(u.class) THEN RuleFields(action.classes[u.class].rules, "form")
                      ELSE <<>>
           ss == [i \in DOMAIN action.usage |-> form(action.usage[i])]
<1>1. DOMAIN action.usage = 1 .. Len(action.usage) /\ Len(action.usage) \in Nat
  BY RequestAssumption DEF RequestAssumption
<1>2. IsList(<<>>) /\ ToSet(<<>>) = {}
  BY ToSetIs DEF IsList
<1>3. ASSUME NEW u, HasRules(u.class)
      PROVE  u.class # None /\ action.classes[u.class].rules \in RuleLists
  BY <1>3, RequestAssumption DEF RequestAssumption, HasRules
<1>4. ASSUME NEW i \in DOMAIN action.usage
      PROVE  IsList(form(action.usage[i])) /\ \A f \in ToSet(form(action.usage[i])) : IsCollected(f)
  <2> DEFINE u == action.usage[i]
             x == form(u)
  <2>1. CASE HasRules(u.class)
    <3>1. x = RuleFields(action.classes[u.class].rules, "form")
      BY <2>1
    <3>2. IsList(x) /\ \A f \in ToSet(x) : IsFact(f) /\ f.source = "form"
      BY <2>1, <3>1, <1>3, RuleFieldsAre
    <3>3. Validates(u)
      BY <2>1, <1>3 DEF Validates
    <3> HIDE DEF x
    <3>4. \A f \in ToSet(x) : IsCollected(f)
      BY <3>2, <3>3 DEF IsCollected, Checked
    <3> QED BY <3>2, <3>4 DEF x
  <2>2. CASE ~HasRules(u.class)
    BY <1>2, <2>2
  <2> QED BY <2>1, <2>2
<1>5. \A i \in 1 .. Len(action.usage) : ss[i] = form(action.usage[i])
  BY <1>1
<1>6. ss = [i \in 1 .. Len(action.usage) |-> ss[i]]
  BY <1>1
<1> HIDE DEF form
<1>7. FormFields = Flattened(ss)
  BY DEF FormFields, form
<1> HIDE DEF ss
<1>8. IsList(ss) /\ DOMAIN ss = 1 .. Len(action.usage)
  BY <1>1, <1>6, BuiltList
<1>9. /\ \A i \in DOMAIN ss : IsList(ss[i])
      /\ \A i \in DOMAIN ss : \A f \in ToSet(ss[i]) : IsCollected(f)
  BY <1>1, <1>4, <1>5, <1>8
<1>10. IsList(Flattened(ss)) /\ ToSet(Flattened(ss)) = UNION {ToSet(ss[i]) : i \in DOMAIN ss}
  BY <1>8, <1>9, FlatList
<1> QED BY <1>7, <1>9, <1>10

LEMMA UsageFieldIs ==
    ASSUME NEW u, u.method \in NamesFields, NEW p \in Paths
    PROVE  /\ IsFact(UsageField(u, p))
           /\ UsageField(u, p).source = u.method
<1>2. CASE u.method = "validate"
  <2>1. UsageField(u, p) = [Blank("body", p, "validate") EXCEPT !.kind = "field"]
    BY <1>2 DEF UsageField
  <2> QED BY <1>2, <2>1 DEF IsFact, Blank, Locations
<1>3. CASE u.method = "only"
  <2>1. UsageField(u, p) = [Blank("query", p, "only") EXCEPT !.kind = "field"]
    BY <1>3 DEF UsageField
  <2> QED BY <1>3, <2>1 DEF IsFact, Blank, Locations
<1>4. CASE u.method = "file"
  <2>1. UsageField(u, p) = Upload(Blank("files", p, "file"))
    BY <1>4 DEF UsageField
  <2> QED BY <1>4, <2>1 DEF IsFact, Blank, Locations, Upload
<1> QED BY <1>2, <1>3, <1>4 DEF NamesFields

LEMMA UsageFieldsAre ==
    ASSUME action \in Actions
    PROVE  IsList(UsageFields) /\ \A f \in ToSet(UsageFields) : IsCollected(f)
<1> DEFINE all(u) == [i \in DOMAIN u.paths |-> UsageField(u, u.paths[i])]
           ss == [i \in DOMAIN action.usage |-> all(action.usage[i])]
<1>1. DOMAIN action.usage = 1 .. Len(action.usage) /\ Len(action.usage) \in Nat
  BY RequestAssumption DEF RequestAssumption
<1>0. ASSUME NEW i \in DOMAIN action.usage
      PROVE  /\ action.usage[i].paths \in Seq(Paths)
             /\ action.usage[i].paths # <<>> => action.usage[i].method \in NamesFields
  <2> DEFINE U == [method : STRING, class : STRING \cup {None}, paths : Seq(Paths)]
  <2>1. action.usage \in Seq(U) /\ \A u \in U : u.paths \in Seq(Paths)
    BY RequestAssumption DEF RequestAssumption
  <2>2. action.usage[i].paths # <<>> => action.usage[i].method \in NamesFields
    BY RequestAssumption DEF RequestAssumption
  <2> HIDE DEF U
  <2> QED BY <2>1, <2>2
<1>2. ASSUME NEW i \in DOMAIN action.usage
      PROVE  IsList(all(action.usage[i])) /\ \A f \in ToSet(all(action.usage[i])) : IsCollected(f)
  <2> DEFINE u == action.usage[i]
             x == all(u)
  <2>1. /\ u.paths \in Seq(Paths)
        /\ u.paths # <<>> => u.method \in NamesFields
    BY <1>0
  <2>2. DOMAIN u.paths = 1 .. Len(u.paths) /\ Len(u.paths) \in Nat
    BY <2>1
  <2>3. \A k \in DOMAIN u.paths : x[k] = UsageField(u, u.paths[k])
    OBVIOUS
  <2>4. x = [k \in 1 .. Len(u.paths) |-> x[k]]
    BY <2>2
  <2>5. ASSUME NEW k \in DOMAIN u.paths PROVE IsCollected(x[k])
    <3>1. u.paths[k] \in Paths /\ u.method \in NamesFields
      BY <2>1, <2>2
    <3>2. IsFact(x[k]) /\ x[k].source = u.method
      BY <2>3, <3>1, UsageFieldIs
    <3>3. Checked(u.method)
      BY <3>1 DEF Checked, Validates, NamesFields
    <3> QED BY <3>2, <3>3 DEF IsCollected
  <2> HIDE DEF x
  <2>6. IsList(x) /\ DOMAIN x = DOMAIN u.paths
    BY <2>2, <2>4, BuiltList
  <2>7. \A f \in ToSet(x) : \E k \in DOMAIN x : f = x[k]
    BY InToSet
  <2> QED BY <2>5, <2>6, <2>7 DEF x
<1>5. \A i \in 1 .. Len(action.usage) : ss[i] = all(action.usage[i])
  BY <1>1
<1>6. ss = [i \in 1 .. Len(action.usage) |-> ss[i]]
  BY <1>1
<1> HIDE DEF all
<1>7. UsageFields = Flattened(ss)
  BY DEF UsageFields, all
<1> HIDE DEF ss
<1>8. IsList(ss) /\ DOMAIN ss = 1 .. Len(action.usage)
  BY <1>1, <1>6, BuiltList
<1>9. /\ \A i \in DOMAIN ss : IsList(ss[i])
      /\ \A i \in DOMAIN ss : \A f \in ToSet(ss[i]) : IsCollected(f)
  BY <1>1, <1>2, <1>5, <1>8
<1>10. IsList(Flattened(ss)) /\ ToSet(Flattened(ss)) = UNION {ToSet(ss[i]) : i \in DOMAIN ss}
  BY <1>8, <1>9, FlatList
<1> QED BY <1>7, <1>9, <1>10

LEMMA MediaFieldsAre ==
    ASSUME action \in Actions
    PROVE  IsList(MediaFields) /\ \A f \in ToSet(MediaFields) : IsCollected(f)
<1> DEFINE new(i)  == \A k \in 1 .. i - 1 : action.media[k].path # action.media[i].path
           I == {i \in DOMAIN action.media : new(i)}
           M == [path : Paths, many : BOOLEAN]
           first == Picked(action.media, I)
           x == [i \in DOMAIN first |-> MediaField(first[i])]
<1>1. action.media \in Seq(M) /\ I \in SUBSET DOMAIN action.media
  BY RequestAssumption DEF RequestAssumption
<1>2. MediaFields = x
  BY DEF MediaFields
<1>3. \A m \in M : m.path \in Paths
  OBVIOUS
<1> HIDE DEF I, M
<1>4. first \in Seq(M)
  BY <1>1, PickedElements
<1> HIDE DEF first
<1>5. DOMAIN first = 1 .. Len(first) /\ Len(first) \in Nat /\ \A i \in DOMAIN first : first[i].path \in Paths
  BY <1>3, <1>4
<1>6. ASSUME NEW m, m.path \in Paths PROVE IsCollected(MediaField(m))
  <2>1. IsFact(MediaField(m)) /\ MediaField(m).source = "media"
    BY <1>6 DEF MediaField, IsFact, Blank, Locations, Upload, Many
  <2> QED BY <2>1 DEF IsCollected, Checked
<1>7. x = [i \in 1 .. Len(first) |-> x[i]] /\ \A i \in 1 .. Len(first) : IsCollected(x[i])
  BY <1>5, <1>6
<1> HIDE DEF x
<1>8. IsList(x) /\ DOMAIN x = 1 .. Len(first)
  BY <1>5, <1>7, BuiltList
<1>9. \A f \in ToSet(x) : \E k \in DOMAIN x : f = x[k]
  BY InToSet
<1> QED BY <1>2, <1>7, <1>8, <1>9

LEMMA RankApart ==
    ASSUME NEW S, S \subseteq Words
    PROVE  IsFiniteSet(S) /\ Cardinality(S) \in Nat /\ Listed(S, Rank) \in [1 .. Cardinality(S) -> S]
<1>1. Words \in SUBSET Words /\ S \in SUBSET Words
  OBVIOUS
<1>2. Rank \in [Words -> Nat] /\ Apart(Rank)
  <2>1. Cardinality(Words) \in Nat
    BY RankAssumption, FS_CardinalityType DEF RankAssumption
  <2>2. \A w \in Words : Rank[w] \in Nat
    BY <2>1, RankAssumption DEF RankAssumption
  <2>3. Rank \in [Words -> Nat]
    BY <2>2, RankAssumption DEF RankAssumption
  <2> QED BY <2>3, RankAssumption DEF RankAssumption, Apart, Words
<1>3. IsFiniteSet(S)
  BY RankAssumption, FS_Subset DEF RankAssumption
<1>4. Cardinality(S) \in Nat
  BY <1>3, FS_CardinalityType
<1>5. Listed(S, Rank) \in [1 .. Cardinality(S) -> S]
  BY <1>1, <1>2, <1>3, ListedOnce
<1> QED BY <1>3, <1>4, <1>5

LEMMA QueryFieldIs ==
    ASSUME NEW p \in Paths, NEW t, NEW v
    PROVE  IsCollected(QueryField(p, t, v))
<1>1. IsFact(QueryField(p, t, v)) /\ QueryField(p, t, v).source = "query-builder"
  BY DEF QueryField, IsFact, Blank, Locations
<1> QED BY <1>1 DEF IsCollected, Checked

LEMMA QueryFieldsAre ==
    ASSUME action \in Actions
    PROVE  IsList(QueryFields) /\ \A f \in ToSet(QueryFields) : IsCollected(f)
<1> DEFINE each(group, names) ==
              [i \in 1 .. Cardinality(names) |->
                 QueryField(<<group, Listed(names, Rank)[i]>>, "string", {Listed(names, Rank)[i]})]
           whole(group, t, names) ==
              IF names = {} THEN <<>> ELSE <<QueryField(<<group>>, t, names)>>
           Groups == {"filter", "include"}
           NameSets == {action.filters, action.includes}
<1>1. Groups \subseteq Names /\ \A names \in NameSets : names \subseteq Names /\ names \subseteq Words
  BY RequestAssumption DEF RequestAssumption
<1>2. ASSUME NEW group \in Groups, NEW names \in NameSets
      PROVE  IsList(each(group, names)) /\ \A f \in ToSet(each(group, names)) : IsCollected(f)
  <2> DEFINE at == Listed(names, Rank)
             n == Cardinality(names)
             x == each(group, names)
  <2>1. n \in Nat /\ \A i \in 1 .. n : at[i] \in Names
    BY <1>1, RankApart
  <2> HIDE DEF at, n
  <2>2. \A i \in 1 .. n : <<group, at[i]>> \in Paths
    BY <1>1, <2>1 DEF Paths
  <2>3. \A i \in 1 .. n : IsCollected(QueryField(<<group, at[i]>>, "string", {at[i]}))
    BY <2>2, QueryFieldIs
  <2>4. x = [i \in 1 .. n |-> QueryField(<<group, at[i]>>, "string", {at[i]})]
    BY DEF at, n
  <2> HIDE DEF x
  <2>5. x = [i \in 1 .. n |-> x[i]] /\ \A i \in 1 .. n : IsCollected(x[i])
    BY <2>3, <2>4
  <2>6. IsList(x) /\ DOMAIN x = 1 .. n
    BY <2>1, <2>5, BuiltList
  <2>7. \A f \in ToSet(x) : \E k \in DOMAIN x : f = x[k]
    BY InToSet
  <2>8. IsList(x) /\ \A f \in ToSet(x) : IsCollected(f)
    BY <2>5, <2>6, <2>7
  <2> QED BY <2>8 DEF x
<1>3. ASSUME NEW group \in Groups, NEW t, NEW names
      PROVE  IsList(whole(group, t, names)) /\ \A f \in ToSet(whole(group, t, names)) : IsCollected(f)
  <2>1. <<group>> \in Paths
    BY <1>1 DEF Paths
  <2>2. IsCollected(QueryField(<<group>>, t, names))
    BY <2>1, QueryFieldIs
  <2>3. ASSUME NEW f, IsCollected(f)
        PROVE  IsList(<<f>>) /\ \A g \in ToSet(<<f>>) : IsCollected(g)
    BY <2>3, ToSetIs DEF IsList
  <2>4. IsList(<<>>) /\ \A g \in ToSet(<<>>) : IsCollected(g)
    BY ToSetIs DEF IsList
  <2> QED BY <2>2, <2>3, <2>4
<1> DEFINE a == each("filter", action.filters)
           b == whole("filter", "object", action.filters)
           c == whole("include", "string", action.includes)
           d == each("include", action.includes)
<1>4. IsList(a) /\ \A f \in ToSet(a) : IsCollected(f)
  BY <1>2
<1>5. IsList(b) /\ \A f \in ToSet(b) : IsCollected(f)
  BY <1>3
<1>6. IsList(c) /\ \A f \in ToSet(c) : IsCollected(f)
  BY <1>3
<1>7. IsList(d) /\ \A f \in ToSet(d) : IsCollected(f)
  BY <1>2
<1>8. QueryFields = a \o b \o c \o d
  BY DEF QueryFields
<1> HIDE DEF a, b, c, d
<1>9. IsList(a \o b) /\ \A f \in ToSet(a \o b) : IsCollected(f)
  BY <1>4, <1>5, Collection
<1>10. IsList(a \o b \o c) /\ \A f \in ToSet(a \o b \o c) : IsCollected(f)
  BY <1>6, <1>9, Collection
<1>11. IsList(a \o b \o c \o d) /\ \A f \in ToSet(a \o b \o c \o d) : IsCollected(f)
  BY <1>7, <1>10, Collection
<1> QED BY <1>8, <1>11

LEMMA FactsAre ==
    ASSUME action \in Actions
    PROVE  IsList(Facts) /\ \A f \in ToSet(Facts) : IsCollected(f)
<1> DEFINE a == RuleFields(action.inline, "inline")
           b == DataFieldsOf(action)
<1>1. IsList(a) /\ \A f \in ToSet(a) : IsCollected(f)
  <2>1. action.inline \in RuleLists
    BY RequestAssumption DEF RequestAssumption
  <2>2. IsList(a) /\ \A f \in ToSet(a) : IsFact(f) /\ f.source = "inline"
    BY <2>1, RuleFieldsAre
  <2> QED BY <2>2 DEF IsCollected, Checked
<1>2. IsList(b) /\ \A f \in ToSet(b) : IsCollected(f)
  <2>1. IsList(b) /\ \A f \in ToSet(b) : IsFact(f) /\ f.source = "data"
    BY RequestAssumption DEF RequestAssumption
  <2> QED BY <2>1 DEF IsCollected, Checked
<1>3. Facts = a \o b \o FormFields \o UsageFields \o MediaFields \o QueryFields
  BY DEF Facts
<1> HIDE DEF a, b
<1>4. IsList(a \o b) /\ \A f \in ToSet(a \o b) : IsCollected(f)
  BY <1>1, <1>2, Collection
<1>5. IsList(a \o b \o FormFields) /\ \A f \in ToSet(a \o b \o FormFields) : IsCollected(f)
  BY <1>4, FormFieldsAre, Collection
<1> DEFINE c == a \o b \o FormFields
<1> HIDE DEF c
<1>6. IsList(c \o UsageFields) /\ \A f \in ToSet(c \o UsageFields) : IsCollected(f)
  BY <1>5, UsageFieldsAre, Collection DEF c
<1> DEFINE d == c \o UsageFields
<1> HIDE DEF d
<1>7. IsList(d \o MediaFields) /\ \A f \in ToSet(d \o MediaFields) : IsCollected(f)
  BY <1>6, MediaFieldsAre, Collection DEF d
<1> DEFINE e == d \o MediaFields
<1> HIDE DEF e
<1>8. IsList(e \o QueryFields) /\ \A f \in ToSet(e \o QueryFields) : IsCollected(f)
  BY <1>7, QueryFieldsAre, Collection DEF e
<1> QED BY <1>3, <1>8 DEF c, d, e

-----------------------------------------------------------------------------
(* The fields and their shapes.                                          *)

LEMMA PrefixedIs ==
    ASSUME NEW p \in Paths
    PROVE  /\ \A q \in Prefixed(p) : q \in Paths /\ q # <<>>
           /\ p # <<>> => p \in Prefixed(p)
           /\ p # <<>> => \A x \in Names : p \in Prefixed(Append(p, x))
<1>1. p \in Seq(Names) /\ Len(p) \in Nat /\ DOMAIN p = 1 .. Len(p) /\ (p # <<>> => Len(p) >= 1)
  BY DEF Paths
<1>2. ASSUME NEW n \in 1 .. Len(p) PROVE SubSeq(p, 1, n) \in Seq(Names) /\ SubSeq(p, 1, n) # <<>>
  <2>1. SubSeq(p, 1, n) \in Seq(Names) /\ Len(SubSeq(p, 1, n)) = n
    BY <1>1
  <2> QED BY <2>1
<1>3. SubSeq(p, 1, Len(p)) = p
  BY <1>1
<1>4. ASSUME NEW x \in Names
      PROVE  Len(Append(p, x)) = Len(p) + 1 /\ SubSeq(Append(p, x), 1, Len(p)) = p
  BY <1>1, SMTT(30)
<1>5. ASSUME p # <<>> PROVE p \in Prefixed(p)
  <2>1. Len(p) \in 1 .. Len(p)
    BY <1>1, <1>5
  <2> QED BY <1>3, <2>1 DEF Prefixed
<1>6. ASSUME p # <<>>, NEW x \in Names PROVE p \in Prefixed(Append(p, x))
  <2>1. Len(p) \in 1 .. Len(Append(p, x))
    BY <1>1, <1>4, <1>6
  <2> QED BY <1>4, <2>1 DEF Prefixed
<1>7. \A q \in Prefixed(p) : q \in Paths /\ q # <<>>
  BY <1>2 DEF Prefixed, Paths
<1> QED BY <1>5, <1>6, <1>7

LEMMA InsertedIs ==
    ASSUME NEW l, NEW p \in Paths, p # <<>>
    PROVE  /\ Inserted(l, p) \subseteq Prefixed(p)
           /\ p # Everything => p \in Inserted(l, p)
           /\ p # Everything /\ l # "query" => Inserted(l, p) = Prefixed(p)
<1>1. Len(p) \in Nat /\ Len(p) \in 1 .. Len(p) /\ SubSeq(p, 1, Len(p)) = p
  BY DEF Paths
<1>2. Inserted(l, p) \subseteq Prefixed(p)
  BY DEF Inserted, Prefixed
<1>3. ASSUME p # Everything PROVE p \in Inserted(l, p)
  <2> DEFINE I == {m \in 1 .. Len(p) : l = "query" /\ m < Len(p) => p[m + 1] # Item}
  <2>1. Len(p) \in I
    BY <1>1
  <2>2. Inserted(l, p) = {SubSeq(p, 1, n) : n \in I}
    BY <1>3 DEF Inserted
  <2> HIDE DEF I
  <2> QED BY <1>1, <2>1, <2>2
<1>4. p # Everything /\ l # "query" => Inserted(l, p) = Prefixed(p)
  BY DEF Inserted, Prefixed
<1> QED BY <1>2, <1>3, <1>4

LEMMA AppendedEnds ==
    ASSUME NEW S, NEW s \in Seq(S), NEW x \in S
    PROVE  /\ Len(Append(s, x)) = Len(s) + 1 /\ Len(s) \in Nat
           /\ Append(s, x)[Len(s) + 1] = x
           /\ SubSeq(Append(s, x), 1, Len(s)) = s
<1>1. Len(Append(s, x)) = Len(s) + 1 /\ Len(s) \in Nat
  OBVIOUS
<1>2. Append(s, x)[Len(s) + 1] = x
  BY <1>1
<1>3. SubSeq(Append(s, x), 1, Len(s)) = s
  BY <1>1
<1> QED BY <1>1, <1>2, <1>3

Stands(l, q) ==
    \/ <<l, q>> \in DOMAIN fields
    \/ \E r \in Paths : q = Append(r, Item) /\ <<l, r>> \in DOMAIN fields

PlacedAt(k) ==
    /\ k[2] # Everything => k[2] \in shapes[k[1]]
    /\ fields[k].array = TRUE /\ k[1] # "query" /\ ~Contains(k[2], Item) =>
         Append(k[2], Item) \in shapes[k[1]]
    /\ k[1] = "body" => "json" \in types
    /\ k[1] = "files" => "multipart" \in types

Shaped ==
    /\ shapes \in [Locations -> SUBSET Paths]
    /\ DOMAIN fields \subseteq Locations \X Paths
    /\ \A l \in Locations : \A p \in shapes[l] :
         p # <<>> /\ \E q \in shapes[l] : p \in Prefixed(q) /\ Stands(l, q)
    /\ \A k \in DOMAIN fields : PlacedAt(k)

LEMMA RegisterShaped ==
    ASSUME Shaped, Named, Register, IsFact(Head(todo))
    PROVE  Shaped'
<1>1. PICK f : f = Head(todo)
  OBVIOUS
<1>2. PICK l, k : l = f.location /\ k = <<l, f.path>>
  OBVIOUS
<1>3. PICK e, q : /\ e = IF k \in DOMAIN fields THEN fields[k] ELSE Blank(f.location, f.path, None)
                  /\ q = ShapePath(f)
  OBVIOUS
<1>4. Item \in Names /\ "query" \in Locations
  BY RequestAssumption DEF RequestAssumption, Locations
<1>5. CASE f.path = <<>>
  <2>1. fields' = fields /\ shapes' = shapes /\ types' = types
    BY <1>5, <1>1 DEF Register
  <2> QED BY <2>1 DEF Shaped, Stands, PlacedAt
<1>6. CASE f.path # <<>>
  <2>1. /\ fields' = [x \in DOMAIN fields \cup {k} |-> IF x = k THEN Merge(e, f) ELSE fields[x]]
        /\ shapes' = [shapes EXCEPT ![l] = @ \cup Inserted(l, q)]
        /\ types' = types \cup TypesOf(f)
    BY <1>6, <1>1, <1>2, <1>3 DEF Register
  <2>2. l \in Locations /\ f.path \in Paths /\ k \in Locations \X Paths /\ k[1] = l /\ k[2] = f.path
    BY <1>1, <1>2 DEF IsFact
  <2>3. q = f.path \/ q = Append(f.path, Item)
    BY <1>3 DEF ShapePath
  <2>4. f.array = TRUE /\ l # "query" /\ ~Contains(f.path, Item) => q = Append(f.path, Item)
    BY <1>3, <1>2 DEF ShapePath
  <2>5. q \in Paths /\ q # <<>>
    <3>1. f.path \in Seq(Names)
      BY <2>2 DEF Paths
    <3>2. Append(f.path, Item) \in Seq(Names) /\ Append(f.path, Item) # <<>>
      BY <1>4, <3>1
    <3> QED BY <1>6, <2>3, <3>1, <3>2 DEF Paths
  <2>6. /\ q # Everything => q \in Inserted(l, q)
        /\ \A p \in Inserted(l, q) : p \in Prefixed(q) /\ p \in Paths /\ p # <<>>
    BY <2>5, PrefixedIs, InsertedIs
  <2>21. q # f.path => q = Append(f.path, Item) /\ q # Everything /\ l # "query"
    <3>1. Len(f.path) \in Nat \ {0} /\ Len(Append(f.path, Item)) = Len(f.path) + 1
      BY <1>4, <1>6, <2>2 DEF Paths
    <3>2. Append(f.path, Item) # Everything
      BY <3>1 DEF Everything
    <3>3. q # f.path => l # "query"
      BY <1>2, <1>3 DEF ShapePath
    <3> QED BY <2>3, <3>2, <3>3
  <2>22. f.path # Everything => f.path \in Inserted(l, q)
    <3>1. CASE q = f.path
      BY <2>6, <3>1
    <3>2. CASE q # f.path
      <4>1. f.path \in Prefixed(q)
        BY <1>4, <1>6, <2>2, <2>21, <3>2, PrefixedIs
      <4> QED BY <2>5, <2>21, <3>2, <4>1, InsertedIs
    <3> QED BY <3>1, <3>2
  <2>7. DOMAIN e = FactNames /\ (k \notin DOMAIN fields => e.array = None)
    BY <1>3, BlankIs DEF Named
  <2>8. k \in DOMAIN fields => e = fields[k]
    BY <1>3
  <2>9. TypesOf(f) = CASE l = "body" -> {"json"} [] l = "files" -> {"multipart"} [] OTHER -> {}
    BY <1>2 DEF TypesOf
  <2>10. "json" \in TypesOf(f) \/ l # "body"
    BY <2>9
  <2>11. "multipart" \in TypesOf(f) \/ l # "files"
    BY <2>9
  <2>12. DOMAIN fields' = DOMAIN fields \cup {k} /\ fields'[k] = Merge(e, f)
    BY <2>1
  <2>13. \A x \in DOMAIN fields : x # k => fields'[x] = fields[x]
    BY <2>1
  <2>14. /\ shapes'[l] = shapes[l] \cup Inserted(l, q)
         /\ \A m \in Locations : m # l => shapes'[m] = shapes[m]
         /\ \A m \in Locations : shapes[m] \subseteq shapes'[m]
    BY <2>1, <2>2 DEF Shaped
  <2>15. shapes' \in [Locations -> SUBSET Paths]
    BY <2>1, <2>2, <2>6 DEF Shaped
  <2>16. DOMAIN fields' \subseteq Locations \X Paths
    BY <2>2, <2>12 DEF Shaped
  <2>17. Stands(l, q)'
    BY <1>2, <2>2, <2>3, <2>12 DEF Stands
  <2>18. ASSUME NEW m \in Locations, NEW p \in shapes'[m]
         PROVE  p # <<>> /\ \E x \in shapes'[m] : p \in Prefixed(x) /\ Stands(m, x)'
    <3>1. CASE p \in shapes[m]
      <4>1. p # <<>> /\ \E x \in shapes[m] : p \in Prefixed(x) /\ Stands(m, x)
        BY <3>1 DEF Shaped
      <4>2. \A x : Stands(m, x) => Stands(m, x)'
        BY <2>12 DEF Stands
      <4> QED BY <2>14, <4>1, <4>2
    <3>2. CASE p \notin shapes[m]
      <4>1. m = l /\ p \in Inserted(l, q)
        BY <2>14, <3>2
      <4>2. q # Everything
        BY <4>1 DEF Inserted
      <4> QED BY <2>6, <2>14, <2>17, <4>1, <4>2
    <3> QED BY <3>1, <3>2
  <2>19. ASSUME NEW x \in DOMAIN fields' PROVE PlacedAt(x)'
    <3>1. CASE x # k
      <4>1. x \in DOMAIN fields /\ fields'[x] = fields[x] /\ PlacedAt(x)
        BY <2>12, <2>13, <3>1 DEF Shaped
      <4>2. x[1] \in Locations
        BY <4>1 DEF Shaped
      <4> QED BY <2>1, <2>14, <4>1, <4>2 DEF PlacedAt
    <3>2. CASE x = k
      <4>1. x[2] # Everything => x[2] \in shapes'[x[1]]
        BY <2>2, <2>14, <2>22, <3>2
      <4>3. /\ x[1] = "body" => "json" \in types'
            /\ x[1] = "files" => "multipart" \in types'
        BY <2>1, <2>2, <2>10, <2>11, <3>2
      <4>2. ASSUME fields'[x].array = TRUE, x[1] # "query", ~Contains(x[2], Item)
            PROVE  Append(x[2], Item) \in shapes'[x[1]]
        <5>1. fields'[x].array = IF e.array = None THEN f.array ELSE e.array
          BY <2>7, <2>12, <3>2, MergeIs
        <5>2. CASE e.array = None
          <6>1. q = Append(f.path, Item)
            BY <2>2, <2>4, <3>2, <4>2, <5>1, <5>2
          <6>2. q # f.path
            <7>1. Len(Append(f.path, Item)) # Len(f.path)
              BY <1>4, <2>2 DEF Paths
            <7> QED BY <6>1, <7>1
          <6> QED BY <2>2, <2>6, <2>14, <2>21, <3>2, <6>1, <6>2
        <5>3. CASE e.array # None
          <6>1. x \in DOMAIN fields /\ fields[x].array = TRUE
            BY <2>7, <2>8, <3>2, <4>2, <5>1, <5>3
          <6>2. Append(x[2], Item) \in shapes[x[1]]
            BY <4>2, <6>1 DEF Shaped, PlacedAt
          <6> QED BY <2>2, <2>14, <3>2, <6>2
        <5> QED BY <5>2, <5>3
      <4> QED BY <4>1, <4>2, <4>3 DEF PlacedAt
    <3> QED BY <3>1, <3>2
  <2> QED BY <2>15, <2>16, <2>18, <2>19 DEF Shaped
<1> QED BY <1>5, <1>6

Early == stage \in {"authorize", "routes", "request"}
Sources == \A k \in DOMAIN fields : Checked(fields[k].source)
Pending == IsList(todo) /\ \A f \in ToSet(todo) : IsCollected(f)
RequestInv ==
    /\ action \in Actions
    /\ Named /\ Shaped /\ Sources /\ Pending
    /\ Early => DOMAIN fields = {} /\ shapes = [l \in Locations |-> {}]

LEMMA RestOfList ==
    ASSUME NEW s, IsList(s), s # <<>>
    PROVE  Head(s) \in ToSet(s) /\ IsList(Tail(s)) /\ ToSet(Tail(s)) \subseteq ToSet(s)
<1>1. s \in Seq(ToSet(s)) /\ DOMAIN s = 1 .. Len(s) /\ Len(s) \in Nat
  BY ListIs
<1>2. Tail(s) \in Seq(ToSet(s)) /\ Head(s) \in ToSet(s)
  BY <1>1
<1>3. \A i \in DOMAIN Tail(s) : Tail(s)[i] \in ToSet(s)
  BY <1>2
<1> QED BY <1>2, <1>3, ListOf, InToSet

LEMMA InitRequest == ASSUME Init PROVE RequestInv
<1>1. /\ action \in Actions /\ Named /\ Sources
      /\ Early => DOMAIN fields = {} /\ shapes = [l \in Locations |-> {}]
  BY DEF Init, RInit, Named, Sources
<1>3. Shaped
  BY DEF Init, RInit, Shaped
<1>4. Pending
  BY ToSetIs DEF Init, RInit, Pending, IsList
<1> QED BY <1>1, <1>3, <1>4 DEF RequestInv

LEMMA SameChecked == ASSUME action' = action, NEW s, Checked(s) PROVE Checked(s)'
BY DEF Checked

LEMMA SameCollected == ASSUME action' = action, NEW f, IsCollected(f) PROVE IsCollected(f)'
BY SameChecked DEF IsCollected

LEMMA RestRequest ==
    ASSUME RequestInv, UNCHANGED <<action, todo, fields, shapes, types>>, Early' => Early
    PROVE  RequestInv'
<1>1. /\ Named' /\ Shaped' /\ action' \in Actions
      /\ Early' => DOMAIN fields' = {} /\ (shapes = [l \in Locations |-> {}])'
  BY DEF RequestInv, Named, Shaped, Stands, PlacedAt
<1>2. Sources' /\ Pending'
  BY SameChecked, SameCollected DEF RequestInv, Sources, Pending
<1> QED BY <1>1, <1>2 DEF RequestInv

LEMMA BeginRequestInv == ASSUME RequestInv, BeginRequest PROVE RequestInv'
<1>1. /\ action' = action /\ fields' = fields /\ shapes' = shapes /\ todo' = Facts
      /\ DOMAIN fields = {} /\ shapes = [l \in Locations |-> {}] /\ ~Early'
  BY DEF RequestInv, BeginRequest, Early
<1>2. Named' /\ Sources'
  BY <1>1, SameChecked DEF RequestInv, Named, Sources
<1>3. Pending'
  <2>1. IsList(Facts) /\ \A f \in ToSet(Facts) : IsCollected(f)
    BY FactsAre DEF RequestInv
  <2> QED BY <1>1, <2>1, SameCollected DEF Pending
<1>4. Shaped'
  <2>1. shapes' \in [Locations -> SUBSET Paths] /\ DOMAIN fields' = {}
    BY <1>1 DEF RequestInv, Shaped
  <2>2. \A l \in Locations : shapes'[l] = {}
    BY <1>1
  <2> QED BY <2>1, <2>2 DEF Shaped
<1> QED BY <1>1, <1>2, <1>3, <1>4 DEF RequestInv

LEMMA RegisterInv == ASSUME RequestInv, Register PROVE RequestInv'
<1>1. /\ action' = action /\ todo' = Tail(todo) /\ todo # <<>> /\ stage = "register" /\ stage' = stage
  BY DEF Register
<1>2. Head(todo) \in ToSet(todo) /\ IsList(Tail(todo)) /\ ToSet(Tail(todo)) \subseteq ToSet(todo)
  BY <1>1, RestOfList DEF RequestInv, Pending
<1>3. IsFact(Head(todo)) /\ Checked(Head(todo).source)
  BY <1>2 DEF RequestInv, Pending, IsCollected
<1>4. Pending'
  BY <1>1, <1>2, SameCollected DEF RequestInv, Pending
<1>5. Named' /\ Shaped'
  BY <1>3, RegisterWins, RegisterShaped DEF RequestInv
<1>6. Sources'
  <2> DEFINE f == Head(todo)
             k == <<f.location, f.path>>
             e == IF k \in DOMAIN fields THEN fields[k] ELSE Blank(f.location, f.path, None)
  <2>1. CASE f.path = <<>>
    <3>1. fields' = fields
      BY <2>1 DEF Register
    <3> QED BY <1>1, <3>1, SameChecked DEF RequestInv, Sources
  <2>2. CASE f.path # <<>>
    <3>1. fields' = [x \in DOMAIN fields \cup {k} |-> IF x = k THEN Merge(e, f) ELSE fields[x]]
      BY <2>2 DEF Register
    <3>2. DOMAIN e = FactNames /\ (k \notin DOMAIN fields => e.source = None)
      BY BlankIs DEF RequestInv, Named
    <3>3. k \in DOMAIN fields => Checked(e.source)
      BY DEF RequestInv, Sources
    <3> HIDE DEF e
    <3>4. Merge(e, f).source = IF e.source = None THEN f.source ELSE e.source
      BY <3>2, MergeIs
    <3>5. Checked(Merge(e, f).source)
      BY <1>3, <3>2, <3>3, <3>4
    <3> HIDE DEF f, k
    <3>6. \A x \in DOMAIN fields' : Checked(fields'[x].source)
      BY <3>1, <3>5 DEF RequestInv, Sources
    <3> QED BY <1>1, <3>6, SameChecked DEF Sources
  <2> QED BY <2>1, <2>2
<1>7. ~Early'
  BY <1>1 DEF Early
<1> QED BY <1>1, <1>4, <1>5, <1>6, <1>7 DEF RequestInv

LEMMA StepRequest == ASSUME RequestInv, [Next]_cvars PROVE RequestInv'
<1>1. CASE BeginRequest
  BY <1>1, BeginRequestInv
<1>2. CASE Register
  BY <1>2, RegisterInv
<1>3. CASE [Next]_cvars /\ ~Register /\ ~BeginRequest
  <2>1. UNCHANGED <<action, todo, fields, shapes, types>> /\ (Early' => Early)
    BY <1>3 DEF Next, cvars, request, ExplicitAuthorization, RouteAuthorization, SortAuthorization,
         RNext, EndRequest, AnswerBody, AnswerOtherwise, AnswerForbidden,
         AnswerInvalid, OrderResponses, Done, Early
  <2> QED BY <2>1, RestRequest
<1> QED BY <1>1, <1>2, <1>3

LEMMA ShapedFits == ASSUME Shaped PROVE FieldsFitShapes
<1>1. ASSUME NEW k \in DOMAIN fields
      PROVE  /\ k[2] # Everything => k[2] \in shapes[k[1]]
             /\ fields[k].array = TRUE /\ k[1] # "query" /\ ~Contains(k[2], Item) =>
                  Append(k[2], Item) \in shapes[k[1]]
             /\ k[1] = "body" => "json" \in types
             /\ k[1] = "files" => "multipart" \in types
  BY DEF Shaped, PlacedAt
<1>2. ASSUME NEW l \in Locations, NEW p \in Leaves(shapes[l])
      PROVE  \/ <<l, p>> \in DOMAIN fields
             \/ p[Len(p)] = Item /\ <<l, SubSeq(p, 1, Len(p) - 1)>> \in DOMAIN fields
  <2>1. p \in shapes[l] /\ \A q \in shapes[l] : p \in Prefixed(q) => p = q
    BY DEF Leaves
  <2>2. Stands(l, p)
    BY <2>1 DEF Shaped
  <2>3. ASSUME NEW r \in Paths, p = Append(r, Item)
        PROVE  p[Len(p)] = Item /\ SubSeq(p, 1, Len(p) - 1) = r
    <3>1. r \in Seq(Names) /\ Item \in Names
      BY RequestAssumption DEF Paths, RequestAssumption
    <3>2. /\ Len(Append(r, Item)) = Len(r) + 1 /\ Len(r) \in Nat
          /\ Append(r, Item)[Len(r) + 1] = Item /\ SubSeq(Append(r, Item), 1, Len(r)) = r
      BY ONLY <3>1, AppendedEnds
    <3>3. Len(r) + 1 - 1 = Len(r)
      BY <3>2
    <3> QED BY <2>3, <3>2, <3>3
  <2> QED BY <2>2, <2>3 DEF Stands
<1> QED BY <1>1, <1>2 DEF FieldsFitShapes

\* Once all sources are registered, the fields, the shapes of the three locations and
\* the content types say the same, for any rules, paths, uploads and query parameters.
THEOREM FieldsFitAlways == Spec => []FieldsFitShapes
<1>1. RequestInv => FieldsFitShapes
  BY ShapedFits DEF RequestInv
<1> QED BY <1>1, InitRequest, StepRequest, PTL DEF Spec

-----------------------------------------------------------------------------
(* Who may call it.                                                      *)

\* What is added is what was not there, once, behind what was there.
LEMMA AddAllIs ==
    ASSUME NEW s, NEW t, IsList(s), IsList(t)
    PROVE  /\ IsList(AddAll(s, t)) /\ ToSet(AddAll(s, t)) = ToSet(s) \cup ToSet(t)
           /\ \A i \in DOMAIN s : i \in DOMAIN AddAll(s, t) /\ AddAll(s, t)[i] = s[i]
           /\ \A i \in DOMAIN AddAll(s, t) \ DOMAIN s : AddAll(s, t)[i] \in ToSet(t) \ ToSet(s)
           /\ Once(s) => Once(AddAll(s, t))
<1> DEFINE I == {i \in DOMAIN t : t[i] \notin ToSet(s) /\ \A k \in 1 .. i - 1 : t[k] # t[i]}
           u == Picked(t, I)
<1>0. AddAll(s, t) = s \o u /\ I \in SUBSET DOMAIN t
  BY DEF AddAll
<1>1. /\ DOMAIN t = 1 .. Len(t) /\ Len(t) \in Nat
      /\ DOMAIN s = 1 .. Len(s) /\ Len(s) \in Nat
  BY ListIs
<1>2. ASSUME NEW i \in DOMAIN t, t[i] \notin ToSet(s) PROVE \E f \in I : t[f] = t[i]
  <2> DEFINE J == {k \in 1 .. Len(t) : t[k] = t[i]}
             f == FirstOf(J)
  <2>1. J \in SUBSET (1 .. Len(t)) /\ J # {}
    BY <1>1
  <2>2. f \in J /\ \A k \in J : f <= k
    BY <1>1, <2>1, FirstAndLast
  <2> HIDE DEF f
  <2>3. f \in 1 .. Len(t) /\ t[f] = t[i]
    BY <2>2
  <2>4. \A k \in 1 .. f - 1 : k \in 1 .. Len(t) /\ ~(f <= k)
    BY <1>1, <2>3
  <2>5. \A k \in 1 .. f - 1 : t[k] # t[f]
    BY <2>2, <2>3, <2>4
  <2>6. f \in I
    BY <1>1, <1>2, <2>3, <2>5
  <2> QED BY <2>3, <2>6
<1>3. \A i \in I : t[i] \in ToSet(t) \ ToSet(s)
  BY <1>0, InToSet
<1>4. ASSUME NEW i \in I, NEW j \in I, t[i] = t[j] PROVE i = j
  <2>1. ~(i < j) /\ ~(j < i)
    <3>1. i < j => i \in 1 .. j - 1
      BY <1>0, <1>1
    <3>2. j < i => j \in 1 .. i - 1
      BY <1>0, <1>1
    <3> QED BY <1>4, <3>1, <3>2
  <2> QED BY <1>0, <1>1, <2>1
<1> HIDE DEF I
<1>5. IsList(u) /\ ToSet(u) = {t[i] : i \in I} /\ Len(u) = Cardinality(I)
  BY <1>0, PickedList
<1>6. PICK at : Lists(at, I) /\ u = [n \in 1 .. Cardinality(I) |-> t[at[n]]]
  BY <1>0, PickedList
<1> HIDE DEF u
<1>7. /\ IsList(s \o u) /\ ToSet(s \o u) = ToSet(s) \cup ToSet(u)
      /\ Len(s \o u) = Len(s) + Len(u)
      /\ \A i \in DOMAIN s : (s \o u)[i] = s[i]
      /\ \A i \in DOMAIN u : (s \o u)[Len(s) + i] = u[i]
  <2>1. IsList(s) /\ IsList(u)
    BY <1>5
  <2> QED BY ONLY <2>1, CatLists
<1>8. /\ DOMAIN u = 1 .. Len(u) /\ Len(u) \in Nat
      /\ DOMAIN (s \o u) = 1 .. Len(s) + Len(u)
  BY <1>5, <1>7, ListIs
<1>9. ToSet(s) \cup ToSet(u) = ToSet(s) \cup ToSet(t)
  <2>1. ToSet(u) \subseteq ToSet(t)
    BY <1>3, <1>5
  <2>2. ASSUME NEW x \in ToSet(t), x \notin ToSet(s) PROVE x \in ToSet(u)
    <3>1. PICK i \in DOMAIN t : x = t[i]
      BY InToSet
    <3> QED BY <1>2, <1>5, <2>2, <3>1
  <2> QED BY <2>1, <2>2
<1>10. ASSUME NEW i \in DOMAIN (s \o u) \ DOMAIN s
       PROVE  i - Len(s) \in DOMAIN u /\ (s \o u)[i] = u[i - Len(s)]
  <2>1. i - Len(s) \in DOMAIN u /\ Len(s) + (i - Len(s)) = i
    BY <1>1, <1>8
  <2> QED BY <1>7, <2>1
<1>11. \A i \in DOMAIN (s \o u) \ DOMAIN s : (s \o u)[i] \in ToSet(t) \ ToSet(s)
  <2>1. \A x \in ToSet(u) : x \in ToSet(t) \ ToSet(s)
    BY <1>3, <1>5
  <2> QED BY <1>10, <2>1, InToSet
<1>12. \A i \in DOMAIN s : i \in DOMAIN (s \o u) /\ (s \o u)[i] \in ToSet(s) /\ (s \o u)[i] = s[i]
  BY <1>1, <1>7, <1>8, InToSet
<1>13. ASSUME NEW i \in DOMAIN u, NEW j \in DOMAIN u, u[i] = u[j] PROVE i = j
  <2>1. /\ i \in 1 .. Cardinality(I) /\ j \in 1 .. Cardinality(I)
        /\ u[i] = t[at[i]] /\ u[j] = t[at[j]]
    BY <1>5, <1>6, <1>8
  <2>2. at[i] \in I /\ at[j] \in I
    BY <1>6, <2>1 DEF Lists
  <2>3. at[i] = at[j]
    BY <1>4, <1>13, <2>1, <2>2
  <2>4. ~(i < j) /\ ~(j < i)
    <3>1. at[i] \in Nat /\ at[j] \in Nat
      BY <1>0, <1>1, <2>2
    <3> QED BY <1>6, <2>1, <2>3, <3>1 DEF Lists
  <2> QED BY <1>8, <2>4
<1>14. ASSUME Once(s) PROVE Once(s \o u)
  <2>1. ASSUME NEW i \in DOMAIN (s \o u), NEW j \in DOMAIN (s \o u), (s \o u)[i] = (s \o u)[j]
        PROVE  i = j
    <3>1. i \in DOMAIN s <=> j \in DOMAIN s
      BY <1>11, <1>12, <2>1
    <3>2. CASE i \in DOMAIN s /\ j \in DOMAIN s
      BY <1>12, <1>14, <2>1, <3>2 DEF Once
    <3>3. CASE i \notin DOMAIN s /\ j \notin DOMAIN s
      <4>1. i - Len(s) = j - Len(s)
        BY <1>10, <1>13, <2>1, <3>3
      <4> QED BY <1>1, <1>8, <4>1
    <3> QED BY <3>1, <3>2, <3>3
  <2> QED BY <2>1 DEF Once
<1> QED BY <1>0, <1>7, <1>9, <1>11, <1>12, <1>14

Worded(x) ==
    /\ DOMAIN x = {"kind", "ability", "source", "resolution", "enforces", "of"}
    /\ x.kind \in Words /\ x.source \in Words /\ x.ability \in Words
IsOwn(x)  == Worded(x) /\ x.resolution # "runtime"

LEMMA OwnWordsAre == OwnWords \cup {None} \subseteq Words /\ None \notin OwnWords
BY ContractAssumption DEF ContractAssumption

LEMMA OwnList ==
    ASSUME NEW s, NEW t, IsList(s), IsList(t), \A x \in ToSet(s) \cup ToSet(t) : IsOwn(x)
    PROVE  IsList(s \o t) /\ \A x \in ToSet(s \o t) : IsOwn(x)
BY CatLists

LEMMA SmallLists ==
    /\ IsList(<<>>) /\ ToSet(<<>>) = {} /\ Once(<<>>)
    /\ \A x : IsList(<<x>>) /\ ToSet(<<x>>) = {x}
BY ToSetIs DEF IsList, Once

LEMMA CallItemsAre ==
    ASSUME action \in Actions
    PROVE  LET s == [i \in DOMAIN action.calls |-> CallItem(action.calls[i])]
           IN  IsList(s) /\ \A x \in ToSet(s) : IsOwn(x)
<1> DEFINE C == [form : Words, ability : Words]
           s == [i \in DOMAIN action.calls |-> CallItem(action.calls[i])]
<1>1. action.calls \in Seq(C)
  BY ContractAssumption DEF ContractAssumption
<1>2. "allows" \in Words /\ "policy" \in Words
  BY OwnWordsAre DEF OwnWords
<1>3. \A c \in C : IsOwn(CallItem(c))
  BY <1>2 DEF CallItem, AuthItem, IsOwn, Worded
<1> HIDE DEF C
<1>4. DOMAIN action.calls = 1 .. Len(action.calls) /\ Len(action.calls) \in Nat
  BY <1>1
<1>5. s = [i \in 1 .. Len(action.calls) |-> s[i]] /\ \A i \in 1 .. Len(action.calls) : IsOwn(s[i])
  BY <1>1, <1>3, <1>4
<1> HIDE DEF s
<1>6. IsList(s) /\ DOMAIN s = 1 .. Len(action.calls)
  BY <1>4, <1>5, BuiltList
<1>7. \A x \in ToSet(s) : \E i \in DOMAIN s : x = s[i]
  BY InToSet
<1>8. IsList(s) /\ \A x \in ToSet(s) : IsOwn(x)
  BY <1>5, <1>6, <1>7
<1> QED BY <1>8 DEF s

LEMMA ResourceItemsAre ==
    ASSUME action \in Actions
    PROVE  IsList(ResourceItems) /\ \A x \in ToSet(ResourceItems) : IsOwn(x)
<1> DEFINE x == AuthItem("policy", None, "authorizeResource", "explicit", TRUE, action.resource.target)
<1>1. "authorizeResource" \in Words /\ "policy" \in Words /\ None \in Words
  BY OwnWordsAre DEF OwnWords
<1>2. IsOwn(x)
  BY <1>1 DEF AuthItem, IsOwn, Worded
<1>3. ResourceItems = <<>> \/ ResourceItems = <<x>>
  BY DEF ResourceItems
<1> HIDE DEF x
<1> QED BY <1>2, <1>3, SmallLists

LEMMA FormRequestsAre == ASSUME action \in Actions PROVE FormRequests \subseteq Words
<1>1. ASSUME NEW u \in ToSet(action.usage) PROVE u.class \in Words
  <2>1. PICK i \in DOMAIN action.usage : u = action.usage[i]
    BY InToSet
  <2> QED BY <2>1, ContractAssumption DEF ContractAssumption
<1>2. action.params \subseteq Words
  BY ContractAssumption DEF ContractAssumption
<1> QED BY <1>1, <1>2 DEF FormRequests

LEMMA FormItemsAre ==
    ASSUME action \in Actions, NEW c \in Words
    PROVE  IsList(FormItems(c)) /\ \A x \in ToSet(FormItems(c)) : IsOwn(x)
<1> DEFINE form(ability, enforces) ==
              AuthItem("form_request", ability, "FormRequest", "form_request", enforces, c)
           a == action.classes[c].authorize
           s == [i \in DOMAIN a.abilities |-> form(a.abilities[i], TRUE)]
<1>1. "form_request" \in Words /\ "FormRequest" \in Words /\ None \in Words
  BY OwnWordsAre DEF OwnWords
<1>2. \A ability \in Words : \A e : IsOwn(form(ability, e))
  BY <1>1 DEF AuthItem, IsOwn, Worded
<1>3. \/ FormItems(c) = <<>>
      \/ FormItems(c) = <<form(None, a.denies)>>
      \/ c \in DOMAIN action.classes /\ a # None /\ FormItems(c) = s
  BY DEF FormItems
<1>4. CASE FormItems(c) = <<>>
  BY <1>4, SmallLists
<1>5. CASE FormItems(c) = <<form(None, a.denies)>>
  <2>1. IsOwn(form(None, a.denies))
    BY <1>1, <1>2
  <2> HIDE DEF form
  <2> QED BY <1>5, <2>1, SmallLists
<1>6. CASE c \in DOMAIN action.classes /\ a # None /\ FormItems(c) = s
  <2>1. a.abilities \in Seq(Words)
    BY <1>6, ContractAssumption DEF ContractAssumption
  <2>2. DOMAIN a.abilities = 1 .. Len(a.abilities) /\ Len(a.abilities) \in Nat
    BY <2>1, SMTT(30)
  <2>6. \A i \in 1 .. Len(a.abilities) : a.abilities[i] \in Words
    BY <2>1, <2>2
  <2> HIDE DEF a, form
  <2>7. s = [i \in 1 .. Len(a.abilities) |-> form(a.abilities[i], TRUE)]
    BY <2>2
  <2>3. s = [i \in 1 .. Len(a.abilities) |-> s[i]] /\ \A i \in 1 .. Len(a.abilities) : IsOwn(s[i])
    BY <1>2, <2>6, <2>7
  <2> HIDE DEF s
  <2>4. IsList(s) /\ DOMAIN s = 1 .. Len(a.abilities)
    BY <2>2, <2>3, BuiltList
  <2>5. \A x \in ToSet(s) : \E i \in DOMAIN s : x = s[i]
    BY InToSet
  <2> QED BY <1>6, <2>3, <2>4, <2>5
<1> QED BY <1>3, <1>4, <1>5, <1>6

LEMMA ExplicitItemsAre ==
    ASSUME action \in Actions
    PROVE  /\ IsList(ExplicitItems) /\ Once(ExplicitItems)
           /\ \A x \in ToSet(ExplicitItems) : IsOwn(x)
<1> DEFINE forms == Listed(FormRequests, Rank)
           a == [i \in DOMAIN action.calls |-> CallItem(action.calls[i])]
           ss == [i \in DOMAIN forms |-> FormItems(forms[i])]
           b == Flattened(ss)
           n == Cardinality(FormRequests)
<1>1. ExplicitItems = AddAll(<<>>, a \o ResourceItems \o b)
  BY DEF ExplicitItems
<1>2. IsList(a) /\ \A x \in ToSet(a) : IsOwn(x)
  BY CallItemsAre
<1>3. IsList(b) /\ \A x \in ToSet(b) : IsOwn(x)
  <2>1. n \in Nat /\ forms \in [1 .. n -> FormRequests] /\ FormRequests \subseteq Words
    BY FormRequestsAre, RankApart
  <2> HIDE DEF forms, n
  <2>2. ss = [i \in 1 .. n |-> ss[i]] /\ \A i \in 1 .. n : ss[i] = FormItems(forms[i]) /\ forms[i] \in Words
    BY <2>1
  <2> HIDE DEF ss
  <2>3. IsList(ss) /\ DOMAIN ss = 1 .. n
    BY <2>1, <2>2, BuiltList
  <2>4. \A i \in DOMAIN ss : IsList(ss[i]) /\ \A x \in ToSet(ss[i]) : IsOwn(x)
    BY <2>2, <2>3, FormItemsAre
  <2>5. IsList(Flattened(ss)) /\ ToSet(Flattened(ss)) = UNION {ToSet(ss[i]) : i \in DOMAIN ss}
    BY <2>3, <2>4, FlatList
  <2> QED BY <2>4, <2>5
<1> HIDE DEF a, b
<1>4. IsList(a \o ResourceItems) /\ \A x \in ToSet(a \o ResourceItems) : IsOwn(x)
  BY <1>2, ResourceItemsAre, OwnList
<1>5. IsList(a \o ResourceItems \o b) /\ \A x \in ToSet(a \o ResourceItems \o b) : IsOwn(x)
  BY <1>3, <1>4, OwnList
<1> DEFINE d == a \o ResourceItems \o b
<1> HIDE DEF d
<1>6. /\ IsList(AddAll(<<>>, d)) /\ Once(AddAll(<<>>, d))
      /\ ToSet(AddAll(<<>>, d)) = ToSet(d)
  <2>1. IsList(d)
    BY <1>5 DEF d
  <2>2. PICK e : e = <<>> /\ IsList(e) /\ ToSet(e) = {} /\ Once(e)
    BY SmallLists
  <2>3. IsList(AddAll(e, d)) /\ Once(AddAll(e, d)) /\ ToSet(AddAll(e, d)) = ToSet(e) \cup ToSet(d)
    BY <2>1, <2>2, AddAllIs
  <2> QED BY <2>2, <2>3
<1> QED BY <1>1, <1>5, <1>6 DEF d

LEMMA SameExplicit == ASSUME action' = action PROVE ExplicitItems' = ExplicitItems
BY DEF ExplicitItems, FormRequests, FormItems, CallItem, AllowsEnforces, ResourceItems

CanItem(t)       == AuthItem("policy", t, t, "runtime", TRUE, None)
GuardItem(t, id) == AuthItem("middleware", None, t, "runtime", TRUE, id)
ItemOf(r, x) ==
    \E m \in ToSet(r.middleware) :
        \/ m.kind = "can" /\ x = CanItem(m.text)
        \/ m.kind = "guard" /\ ~suppress /\ x = GuardItem(m.text, r.id)

LEMMA RouteIs ==
    ASSUME action \in Actions
    PROVE  /\ IsList(action.routes)
           /\ \A r \in ToSet(action.routes) :
                /\ r.id # None /\ IsList(r.middleware)
                /\ \A m \in ToSet(r.middleware) : m.text \in Words
<1> DEFINE M == [kind : STRING, text : Words]
           R == [id : Nat, methods : SUBSET STRING, middleware : Seq(M)]
<1>1. action.routes \in Seq(R) /\ \A i \in DOMAIN action.routes : action.routes[i].id # None
  BY ContractAssumption DEF ContractAssumption
<1>2. \A r \in R : r.middleware \in Seq(M)
  OBVIOUS
<1>3. \A m \in M : m.text \in Words
  OBVIOUS
<1> HIDE DEF R, M
<1>4. ASSUME NEW r \in ToSet(action.routes)
      PROVE  /\ r.id # None /\ IsList(r.middleware)
             /\ \A m \in ToSet(r.middleware) : m.text \in Words
  <2>1. PICK i \in DOMAIN action.routes : r = action.routes[i]
    BY InToSet
  <2>2. r.id # None /\ r.middleware \in Seq(M)
    BY <1>1, <1>2, <2>1
  <2>3. \A k \in DOMAIN r.middleware : r.middleware[k].text \in Words
    BY <1>3, <2>2
  <2>4. \A m \in ToSet(r.middleware) : \E k \in DOMAIN r.middleware : m = r.middleware[k]
    BY InToSet
  <2> QED BY <2>2, <2>3, <2>4, ListOf
<1> QED BY <1>1, <1>4, ListOf

LEMMA RouteItemsAre ==
    ASSUME action \in Actions, NEW r \in ToSet(action.routes)
    PROVE  IsList(RouteItems(r)) /\ \A x : x \in ToSet(RouteItems(r)) <=> ItemOf(r, x)
<1> DEFINE shows(m) == m.kind = "can" \/ (m.kind = "guard" /\ ~suppress)
           I == {i \in DOMAIN r.middleware : shows(r.middleware[i])}
           shown == Picked(r.middleware, I)
           item(m) == IF m.kind = "can" THEN CanItem(m.text) ELSE GuardItem(m.text, r.id)
           s == [i \in DOMAIN shown |-> item(shown[i])]
<1>1. RouteItems(r) = s
  BY DEF RouteItems, Suppressed, CanItem, GuardItem
<1>2. IsList(r.middleware) /\ I \in SUBSET DOMAIN r.middleware
  BY RouteIs
<1>3. ToSet(shown) = {r.middleware[i] : i \in I} /\ IsList(shown)
  BY <1>2, PickedList
<1>4. \A m : m \in ToSet(shown) <=> m \in ToSet(r.middleware) /\ shows(m)
  BY <1>3, InToSet
<1> HIDE DEF shown, I
<1>5. DOMAIN shown = 1 .. Len(shown) /\ Len(shown) \in Nat
  BY <1>3, ListIs
<1> HIDE DEF item
<1>6. s = [i \in 1 .. Len(shown) |-> s[i]] /\ \A i \in DOMAIN shown : s[i] = item(shown[i])
  BY <1>5
<1> HIDE DEF s
<1>7. IsList(s) /\ DOMAIN s = DOMAIN shown
  BY <1>5, <1>6, BuiltList
<1>8. \A x : x \in ToSet(s) <=> \E m \in ToSet(shown) : x = item(m)
  <2>1. ASSUME NEW x \in ToSet(s) PROVE \E m \in ToSet(shown) : x = item(m)
    <3>1. PICK i \in DOMAIN s : x = s[i]
      BY InToSet
    <3> QED BY <1>6, <1>7, <3>1, InToSet
  <2>2. ASSUME NEW m \in ToSet(shown) PROVE item(m) \in ToSet(s)
    <3>1. PICK i \in DOMAIN shown : m = shown[i]
      BY InToSet
    <3>2. i \in DOMAIN s /\ s[i] = item(m)
      BY <1>6, <1>7, <3>1
    <3> QED BY <3>2, InToSet
  <2> QED BY <2>1, <2>2
<1>9. \A x : x \in ToSet(s) <=> ItemOf(r, x)
  <2>1. \A m : shows(m) => (m.kind # "can" => m.kind = "guard" /\ ~suppress)
    OBVIOUS
  <2>2. \A m : m.kind = "can" => item(m) = CanItem(m.text)
    BY DEF item
  <2>3. \A m : m.kind # "can" => item(m) = GuardItem(m.text, r.id)
    BY DEF item
  <2>4. \A m : m.kind = "guard" => m.kind # "can"
    OBVIOUS
  <2>5. \A m : (m.kind = "can" => shows(m)) /\ (m.kind = "guard" /\ ~suppress => shows(m))
    OBVIOUS
  <2> HIDE DEF shows
  <2> QED BY <1>4, <1>8, <2>1, <2>2, <2>3, <2>4, <2>5 DEF ItemOf
<1> QED BY <1>1, <1>7, <1>9

LEMMA RuntimeItemIs ==
    ASSUME action \in Actions, NEW r \in ToSet(action.routes), NEW x, ItemOf(r, x)
    PROVE  /\ Worded(x) /\ x.resolution = "runtime"
           /\ \E t \in Words : x = CanItem(t) \/ (x = GuardItem(t, r.id) /\ ~suppress)
<1>1. PICK m \in ToSet(r.middleware) :
        \/ m.kind = "can" /\ x = CanItem(m.text)
        \/ m.kind = "guard" /\ ~suppress /\ x = GuardItem(m.text, r.id)
  BY DEF ItemOf
<1>2. m.text \in Words
  BY RouteIs
<1>3. "policy" \in Words /\ "middleware" \in Words /\ None \in Words
  BY OwnWordsAre DEF OwnWords
<1>4. Worded(x) /\ x.resolution = "runtime"
  BY <1>1, <1>2, <1>3 DEF CanItem, GuardItem, AuthItem, Worded
<1> QED BY <1>1, <1>2, <1>4

\* A list of items as it is found: those of the action first, and of the routes.
FromRoutes(x) == \E r \in ToSet(action.routes) : ItemOf(r, x)
Found(list) ==
    /\ IsList(list) /\ Once(list)
    /\ \A i \in DOMAIN ExplicitItems : i \in DOMAIN list /\ list[i] = ExplicitItems[i]
    /\ \A i \in DOMAIN list \ DOMAIN ExplicitItems :
         FromRoutes(list[i]) /\ list[i] \notin ToSet(ExplicitItems)
Holds(list, r) == \A x : ItemOf(r, x) => x \in ToSet(list)
Complete(list) == Found(list) /\ \A r \in ToSet(action.routes) : Holds(list, r)

LEMMA FoundMore ==
    ASSUME action \in Actions, NEW list, Found(list),
           NEW new, IsList(new), \A x \in ToSet(new) : FromRoutes(x)
    PROVE  Found(AddAll(list, new)) /\ ToSet(AddAll(list, new)) = ToSet(list) \cup ToSet(new)
<1> DEFINE all == AddAll(list, new)
<1>1. /\ IsList(all) /\ ToSet(all) = ToSet(list) \cup ToSet(new) /\ Once(all)
      /\ \A i \in DOMAIN list : i \in DOMAIN all /\ all[i] = list[i]
      /\ \A i \in DOMAIN all \ DOMAIN list : all[i] \in ToSet(new) \ ToSet(list)
  BY AddAllIs DEF Found
<1> HIDE DEF all
<1>2. \A i \in DOMAIN ExplicitItems : i \in DOMAIN all /\ all[i] = ExplicitItems[i]
  BY <1>1 DEF Found
<1>3. ToSet(ExplicitItems) \subseteq ToSet(list)
  <2>1. ASSUME NEW x \in ToSet(ExplicitItems) PROVE x \in ToSet(list)
    <3>1. PICK i \in DOMAIN ExplicitItems : x = ExplicitItems[i]
      BY InToSet
    <3>2. i \in DOMAIN list /\ list[i] = x
      BY <3>1 DEF Found
    <3> QED BY <3>2, InToSet
  <2> QED BY <2>1
<1>4. ASSUME NEW i \in DOMAIN all \ DOMAIN ExplicitItems
      PROVE  FromRoutes(all[i]) /\ all[i] \notin ToSet(ExplicitItems)
  <2>1. CASE i \in DOMAIN list
    BY <1>1, <2>1 DEF Found
  <2>2. CASE i \notin DOMAIN list
    BY <1>1, <1>3, <2>2
  <2> QED BY <2>1, <2>2
<1>5. Found(all)
  BY <1>1, <1>2, <1>4 DEF Found
<1> QED BY <1>1, <1>5 DEF all

-----------------------------------------------------------------------------
(* The loop over the routes.                                             *)

LEMMA SameFound ==
    ASSUME action' = action, suppress' = suppress
    PROVE  /\ ExplicitItems' = ExplicitItems
           /\ \A r, x : ItemOf(r, x)' = ItemOf(r, x)
           /\ \A x : FromRoutes(x)' = FromRoutes(x)
           /\ \A list : Found(list)' = Found(list)
           /\ \A list, r : Holds(list, r)' = Holds(list, r)
           /\ \A list : Complete(list)' = Complete(list)
<1>1. ExplicitItems' = ExplicitItems
  BY SameExplicit
<1>2. ASSUME NEW r, NEW x PROVE ItemOf(r, x)' = ItemOf(r, x)
  BY DEF ItemOf
<1>3. ASSUME NEW x PROVE FromRoutes(x)' = FromRoutes(x)
  BY <1>2 DEF FromRoutes
<1>4. ASSUME NEW list PROVE Found(list)' = Found(list)
  BY <1>1, <1>3 DEF Found
<1>5. ASSUME NEW list, NEW r PROVE Holds(list, r)' = Holds(list, r)
  BY <1>2 DEF Holds
<1>6. ASSUME NEW list PROVE Complete(list)' = Complete(list)
  BY <1>4, <1>5 DEF Complete
<1> QED BY <1>1, <1>2, <1>3, <1>4, <1>5, <1>6

\* While the loop runs, the list has all items of the routes it is done with; when
\* it ends the list is complete, and sorted.
OnRoutes ==
    /\ suppress = (ExplicitItems # <<>>)
    /\ Found(items) /\ IsList(runtime) /\ ToSet(runtime) \subseteq ToSet(action.routes)
    /\ \A r \in ToSet(action.routes) : r \in ToSet(runtime) \/ Holds(items, r)
AtRequest ==
    /\ suppress = (ExplicitItems # <<>>)
    /\ \E found : Complete(found) /\ items = Sorted(found)
AllWorded == IsList(items) /\ \A x \in ToSet(items) : Worded(x)
AuthInv ==
    /\ action \in Actions /\ AllWorded
    /\ stage = "routes" => OnRoutes
    /\ stage = "request" => AtRequest

LEMMA FoundWorded ==
    ASSUME action \in Actions, NEW list, Found(list)
    PROVE  IsList(list) /\ \A x \in ToSet(list) : Worded(x)
<1>1. ASSUME NEW x \in ToSet(list) PROVE Worded(x)
  <2>1. PICK i \in DOMAIN list : x = list[i]
    BY InToSet
  <2>2. CASE i \in DOMAIN ExplicitItems
    BY <2>1, <2>2, ExplicitItemsAre, InToSet DEF Found, IsOwn
  <2>3. CASE i \notin DOMAIN ExplicitItems
    <3>1. FromRoutes(x)
      BY <2>1, <2>3 DEF Found
    <3> QED BY <3>1, RuntimeItemIs DEF FromRoutes
  <2> QED BY <2>2, <2>3
<1> QED BY <1>1 DEF Found

\* A key is a number, so a sorted list holds what the list held.
LEMMA WidthIs == Width \in Nat /\ \A w \in Words : Rank[w] \in Nat /\ Rank[w] < Width
BY RankAssumption, FS_CardinalityType DEF RankAssumption, Width

LEMMA SortedIs ==
    ASSUME NEW list, IsList(list), \A x \in ToSet(list) : Worded(x)
    PROVE  /\ [i \in DOMAIN list |-> ItemKey(list[i])] \in [DOMAIN list -> Nat]
           /\ IsList(Sorted(list)) /\ ToSet(Sorted(list)) = ToSet(list)
           /\ DOMAIN Sorted(list) = DOMAIN list
<1> DEFINE k == [i \in DOMAIN list |-> ItemKey(list[i])]
<1>1. ASSUME NEW i \in DOMAIN list PROVE ItemKey(list[i]) \in Nat
  <2>1. Worded(list[i])
    BY InToSet
  <2>2. /\ Rank[list[i].kind] \in Nat /\ Rank[list[i].source] \in Nat
        /\ Rank[list[i].ability] \in Nat /\ Width \in Nat
    BY <2>1, WidthIs DEF Worded
  <2> QED BY <2>2 DEF ItemKey
<1>2. k \in [DOMAIN list -> Nat]
  BY <1>1
<1>3. list \in Seq(ToSet(list))
  BY ListIs
<1>4. Sorted(list) = SortedBy(list, k)
  BY DEF Sorted
<1> HIDE DEF k
<1> QED BY <1>2, <1>3, <1>4, SortedElements, ListOf DEF k

LEMMA InitAuth == ASSUME Init PROVE AuthInv
BY SmallLists DEF Init, RInit, AuthInv, AllWorded

LEMMA ExplicitAuth == ASSUME AuthInv, ExplicitAuthorization PROVE AuthInv'
<1>1. /\ action' = action /\ items' = ExplicitItems /\ runtime' = action.routes /\ stage' = "routes"
      /\ suppress' = (ExplicitItems # <<>>) /\ action \in Actions
  BY DEF AuthInv, ExplicitAuthorization
<1>2. ExplicitItems' = ExplicitItems
  BY <1>1, SameExplicit
<1>3. PICK own : own = ExplicitItems
  OBVIOUS
<1>4. IsList(own) /\ Once(own) /\ \A x \in ToSet(own) : IsOwn(x)
  BY <1>1, <1>3, ExplicitItemsAre
<1>5. Found(own)'
  BY <1>2, <1>3, <1>4 DEF Found
<1>6. PICK routes : routes = action.routes
  OBVIOUS
<1>7. IsList(routes)
  BY <1>1, <1>6, RouteIs
<1>8. OnRoutes'
  BY <1>1, <1>2, <1>3, <1>5, <1>6, <1>7 DEF OnRoutes
<1>9. AllWorded'
  BY <1>1, <1>3, <1>4 DEF AllWorded, IsOwn
<1> QED BY <1>1, <1>8, <1>9 DEF AuthInv

LEMMA RouteAuth == ASSUME AuthInv, RouteAuthorization PROVE AuthInv'
<1>1. /\ action' = action /\ suppress' = suppress /\ stage' = "routes" /\ runtime # <<>>
      /\ items' = AddAll(items, RouteItems(Head(runtime))) /\ runtime' = Tail(runtime)
      /\ action \in Actions /\ OnRoutes
  BY DEF AuthInv, RouteAuthorization
<1>2. PICK r : r = Head(runtime)
  OBVIOUS
<1>3. PICK new : new = RouteItems(r)
  OBVIOUS
<1>4. PICK old : old = items
  OBVIOUS
<1>5. PICK all : all = AddAll(old, new)
  OBVIOUS
<1>6. PICK rest : rest = Tail(runtime)
  OBVIOUS
<1>7. /\ r \in ToSet(runtime) /\ IsList(rest) /\ ToSet(rest) \subseteq ToSet(runtime)
      /\ \A q \in ToSet(runtime) : q = r \/ q \in ToSet(rest)
  <2>1. r \in ToSet(runtime) /\ IsList(rest) /\ ToSet(rest) \subseteq ToSet(runtime)
    BY <1>1, <1>2, <1>6, RestOfList DEF OnRoutes
  <2>2. ASSUME NEW q \in ToSet(runtime) PROVE q = r \/ q \in ToSet(rest)
    <3>1. PICK i \in DOMAIN runtime : q = runtime[i]
      BY InToSet
    <3>2. runtime \in Seq(ToSet(runtime)) /\ DOMAIN runtime = 1 .. Len(runtime) /\ Len(runtime) \in Nat
      BY <1>1, ListIs DEF OnRoutes
    <3>3. i = 1 => q = r
      BY <1>2, <3>1, <3>2
    <3>4. i # 1 => i - 1 \in DOMAIN rest /\ rest[i - 1] = q
      BY <1>1, <1>6, <3>1, <3>2
    <3> QED BY <3>3, <3>4, InToSet
  <2> QED BY <2>1, <2>2
<1>8. r \in ToSet(action.routes)
  BY <1>1, <1>7 DEF OnRoutes
<1>9. IsList(new) /\ \A x : x \in ToSet(new) <=> ItemOf(r, x)
  BY <1>1, <1>3, <1>8, RouteItemsAre
<1>10. Found(all) /\ ToSet(all) = ToSet(old) \cup ToSet(new)
  <2>1. \A x \in ToSet(new) : FromRoutes(x)
    BY <1>8, <1>9 DEF FromRoutes
  <2>2. Found(old)
    BY <1>1, <1>4 DEF OnRoutes
  <2> QED BY <1>1, <1>5, <1>9, <2>1, <2>2, FoundMore
<1>11. \A q \in ToSet(action.routes) : q \in ToSet(rest) \/ Holds(all, q)
  BY <1>1, <1>4, <1>7, <1>9, <1>10 DEF OnRoutes, Holds
<1>12. items' = all /\ runtime' = rest
  BY <1>1, <1>2, <1>3, <1>4, <1>5, <1>6
<1>13. OnRoutes'
  <2>1. Found(all)' /\ ExplicitItems' = ExplicitItems /\ \A q : Holds(all, q)' = Holds(all, q)
    BY <1>1, <1>10, SameFound
  <2>2. ToSet(rest) \subseteq ToSet(action.routes)
    BY <1>1, <1>7 DEF OnRoutes
  <2> QED BY <1>1, <1>7, <1>11, <1>12, <2>1, <2>2 DEF OnRoutes
<1>14. AllWorded'
  BY <1>1, <1>10, <1>12, FoundWorded DEF AllWorded
<1> QED BY <1>1, <1>13, <1>14 DEF AuthInv

LEMMA SortAuth == ASSUME AuthInv, SortAuthorization PROVE AuthInv'
<1>1. /\ action' = action /\ suppress' = suppress /\ stage' = "request" /\ runtime = <<>>
      /\ items' = Sorted(items) /\ action \in Actions /\ OnRoutes
  BY DEF AuthInv, SortAuthorization
<1>2. PICK found : found = items
  OBVIOUS
<1>3. Complete(found)
  <2>1. ToSet(runtime) = {}
    BY <1>1, SmallLists
  <2> QED BY <1>1, <1>2, <2>1 DEF OnRoutes, Complete
<1>4. items' = Sorted(found) /\ IsList(Sorted(found)) /\ \A x \in ToSet(Sorted(found)) : Worded(x)
  BY <1>1, <1>2, FoundWorded, SortedIs DEF OnRoutes
<1>5. AllWorded'
  <2>1. PICK sorted : sorted = Sorted(found)
    OBVIOUS
  <2> QED BY <1>4, <2>1 DEF AllWorded
<1>6. AtRequest'
  <2>1. Complete(found)' /\ ExplicitItems' = ExplicitItems
    BY <1>1, <1>3, SameFound
  <2>2. Sorted(found)' = Sorted(found)
    BY DEF Sorted, ItemKey, Width
  <2> QED BY <1>1, <1>4, <2>1, <2>2 DEF AtRequest, OnRoutes
<1> QED BY <1>1, <1>5, <1>6 DEF AuthInv

LEMMA RestAuth ==
    ASSUME AuthInv, UNCHANGED <<action, items, suppress, runtime>>,
           stage' # "routes" \/ stage' = stage, stage' # "request" \/ stage' = stage
    PROVE  AuthInv'
<1>1. action' \in Actions /\ AllWorded'
  BY DEF AuthInv, AllWorded
<1>2. (stage' = "routes" => OnRoutes') /\ (stage' = "request" => AtRequest')
  <2>1. PICK list : list = items
    OBVIOUS
  <2>2. Found(list)' = Found(list) /\ ExplicitItems' = ExplicitItems
        /\ (\A q : Holds(list, q)' = Holds(list, q)) /\ \A q : Complete(q)' = Complete(q)
    BY SameFound
  <2>3. \A q : Sorted(q)' = Sorted(q)
    BY DEF Sorted, ItemKey, Width
  <2>4. stage = "routes" => OnRoutes'
    BY <2>1, <2>2 DEF AuthInv, OnRoutes
  <2>5. stage = "request" => AtRequest'
    BY <2>2, <2>3 DEF AuthInv, AtRequest
  <2> QED BY <2>4, <2>5
<1> QED BY <1>1, <1>2 DEF AuthInv

LEMMA StepAuth == ASSUME AuthInv, [Next]_cvars PROVE AuthInv'
<1>1. CASE ExplicitAuthorization
  BY <1>1, ExplicitAuth
<1>2. CASE RouteAuthorization
  BY <1>2, RouteAuth
<1>3. CASE SortAuthorization
  BY <1>3, SortAuth
<1>4. CASE /\ [Next]_cvars
           /\ ~ExplicitAuthorization /\ ~RouteAuthorization /\ ~SortAuthorization
  <2>1. /\ UNCHANGED <<action, items, suppress, runtime>>
        /\ stage' # "routes" \/ stage' = stage
        /\ stage' # "request" \/ stage' = stage
    BY <1>4 DEF Next, cvars, avars, RNext, BeginRequest, Register, EndRequest, AnswerBody,
         AnswerOtherwise, AnswerForbidden, AnswerInvalid, OrderResponses, Done
  <2> QED BY <2>1, RestAuth
<1> QED BY <1>1, <1>2, <1>3, <1>4

\* The action itself says who may call it exactly if suppress is set.
LEMMA FoundOwn ==
    ASSUME action \in Actions, NEW list, Found(list)
    PROVE  (\E x \in ToSet(list) : x.resolution # "runtime") <=> ExplicitItems # <<>>
<1>1. ASSUME NEW x \in ToSet(list), x.resolution # "runtime" PROVE ExplicitItems # <<>>
  <2>1. PICK i \in DOMAIN list : x = list[i]
    BY InToSet
  <2>2. ~FromRoutes(x)
    BY <1>1, RuntimeItemIs DEF FromRoutes
  <2>3. i \in DOMAIN ExplicitItems
    BY <2>1, <2>2 DEF Found
  <2> QED BY <2>3
<1>2. ASSUME ExplicitItems # <<>> PROVE \E x \in ToSet(list) : x.resolution # "runtime"
  <2>1. /\ ExplicitItems \in Seq(ToSet(ExplicitItems)) /\ DOMAIN ExplicitItems = 1 .. Len(ExplicitItems)
        /\ Len(ExplicitItems) \in Nat
    BY ExplicitItemsAre, ListIs
  <2>2. 1 \in DOMAIN ExplicitItems
    BY <1>2, <2>1
  <2>3. ExplicitItems[1].resolution # "runtime"
    BY <2>2, ExplicitItemsAre, InToSet DEF IsOwn
  <2>4. 1 \in DOMAIN list /\ list[1] = ExplicitItems[1]
    BY <2>2 DEF Found
  <2> QED BY <2>3, <2>4, InToSet
<1> QED BY <1>1, <1>2

LEMMA GuardsShown == ASSUME AuthInv PROVE RouteGuardsShown
<1> SUFFICES ASSUME stage = "request" PROVE RouteGuardsShown
  BY DEF RouteGuardsShown
<1>1. action \in Actions /\ suppress = (ExplicitItems # <<>>)
  BY DEF AuthInv, AtRequest
<1>2. PICK found : Complete(found) /\ items = Sorted(found)
  BY DEF AuthInv, AtRequest
<1>3. ToSet(items) = ToSet(found)
  BY <1>1, <1>2, FoundWorded, SortedIs DEF Complete
<1> DEFINE own == \E i \in ToSet(items) : i.resolution # "runtime"
           as(t, of) == \E i \in ToSet(items) :
                           i.resolution = "runtime" /\ i.source = t /\ i.of = of
<1>4. own <=> suppress
  BY <1>1, <1>2, <1>3, FoundOwn DEF Complete
<1>5. ASSUME NEW r \in ToSet(action.routes), NEW m \in ToSet(r.middleware)
      PROVE  /\ m.kind = "can" => as(m.text, None)
             /\ m.kind = "guard" => (as(m.text, r.id) <=> ~own)
  <2>1. Holds(found, r)
    BY <1>2 DEF Complete
  <2>2. ASSUME m.kind = "can" PROVE as(m.text, None)
    <3>1. ItemOf(r, CanItem(m.text))
      BY <2>2 DEF ItemOf
    <3>2. CanItem(m.text) \in ToSet(items)
      BY <1>3, <2>1, <3>1 DEF Holds
    <3> QED BY <3>2 DEF CanItem, AuthItem
  <2>3. ASSUME m.kind = "guard", ~own PROVE as(m.text, r.id)
    <3>1. ItemOf(r, GuardItem(m.text, r.id))
      BY <1>4, <2>3 DEF ItemOf
    <3>2. GuardItem(m.text, r.id) \in ToSet(items)
      BY <1>3, <2>1, <3>1 DEF Holds
    <3> QED BY <3>2 DEF GuardItem, AuthItem
  <2>4. ASSUME as(m.text, r.id) PROVE ~own
    <3>1. PICK x \in ToSet(found) : x.resolution = "runtime" /\ x.of = r.id
      BY <1>3, <2>4
    <3>2. PICK i \in DOMAIN found : x = found[i]
      BY InToSet
    <3>3. i \notin DOMAIN ExplicitItems
      BY <1>1, <1>2, <3>1, <3>2, ExplicitItemsAre, InToSet DEF Complete, Found, IsOwn
    <3>4. FromRoutes(x)
      BY <1>2, <3>2, <3>3 DEF Complete, Found
    <3>5. PICK q \in ToSet(action.routes) : ItemOf(q, x)
      BY <3>4 DEF FromRoutes
    <3>6. PICK t \in Words : x = CanItem(t) \/ (x = GuardItem(t, q.id) /\ ~suppress)
      BY <1>1, <3>5, RuntimeItemIs
    <3>7. r.id # None
      BY <1>1, RouteIs
    <3>8. x # CanItem(t)
      BY <3>1, <3>7 DEF CanItem, AuthItem
    <3> QED BY <1>4, <3>6, <3>8
  <2> QED BY <2>2, <2>3, <2>4
<1> HIDE DEF own, as
<1>6. \A r \in ToSet(action.routes) : \A m \in ToSet(r.middleware) :
        /\ m.kind = "can" => as(m.text, None)
        /\ m.kind = "guard" => (as(m.text, r.id) <=> ~own)
  BY <1>5
<1> QED BY <1>6 DEF RouteGuardsShown, own, as

\* No guard of a route gets lost in the loop over the routes, and none is shown where
\* the action itself says who may call it, for any routes and items.
THEOREM RouteGuardsShownAlways == Spec => []RouteGuardsShown
<1>1. AuthInv => RouteGuardsShown
  BY GuardsShown
<1> QED BY <1>1, InitAuth, StepAuth, PTL DEF Spec

-----------------------------------------------------------------------------
(* The order of the routes.  A complete list is the items of the action,     *)
(* always in the same order, and those of the routes in some order.  Sorting *)
(* by the key alone is sorting by the key and then the place of the item     *)
(* among those of the action: this key two items share only if they look the *)
(* same, so that the sorted list does not depend on the order.               *)

\* What is shown of an item.
Bare(x) == [x EXCEPT !.of = None]
Own == Len(ExplicitItems)
Rest(i) == IF i <= Own THEN i ELSE Own + 1

LEMMA BareIs ==
    ASSUME NEW k, NEW a, NEW s, NEW r, NEW e, NEW o
    PROVE  Bare(AuthItem(k, a, s, r, e, o)) = AuthItem(k, a, s, r, e, None)
BY DEF Bare, AuthItem

\* A "can" or a guard, apart from its route.
IsShown(y) ==
    \E t \in Words : y = CanItem(t) \/ y = GuardItem(t, None)

LEMMA FoundPlaces ==
    ASSUME action \in Actions, NEW list, Found(list)
    PROVE  /\ Own \in Nat /\ DOMAIN ExplicitItems = 1 .. Own
           /\ DOMAIN list = 1 .. Len(list) /\ Len(list) \in Nat
           /\ \A i \in DOMAIN list :
                /\ Worded(list[i]) /\ i \in Nat
                /\ i <= Own => list[i] = ExplicitItems[i] /\ i \in DOMAIN ExplicitItems
                /\ ~(i <= Own) => FromRoutes(list[i]) /\ list[i] \notin ToSet(ExplicitItems)
                                    /\ IsShown(Bare(list[i]))
<1>1. DOMAIN ExplicitItems = 1 .. Own /\ Own \in Nat
  BY ExplicitItemsAre, ListIs DEF Own
<1>2. DOMAIN list = 1 .. Len(list) /\ Len(list) \in Nat
  BY ListIs DEF Found
<1>3. ASSUME NEW i \in DOMAIN list
      PROVE  /\ Worded(list[i]) /\ i \in Nat
             /\ i <= Own => list[i] = ExplicitItems[i] /\ i \in DOMAIN ExplicitItems
             /\ ~(i <= Own) => FromRoutes(list[i]) /\ list[i] \notin ToSet(ExplicitItems)
                                 /\ IsShown(Bare(list[i]))
  <2>1. Worded(list[i])
    BY FoundWorded, InToSet
  <2>2. i \in Nat /\ (i <= Own <=> i \in DOMAIN ExplicitItems)
    BY <1>1, <1>2
  <2>3. i \in DOMAIN ExplicitItems => list[i] = ExplicitItems[i]
    BY DEF Found
  <2>4. i \notin DOMAIN ExplicitItems => FromRoutes(list[i]) /\ list[i] \notin ToSet(ExplicitItems)
    BY DEF Found
  <2>5. ASSUME FromRoutes(list[i]) PROVE IsShown(Bare(list[i]))
    <3>1. PICK r \in ToSet(action.routes) : ItemOf(r, list[i])
      BY <2>5 DEF FromRoutes
    <3>2. PICK t \in Words : list[i] = CanItem(t) \/ list[i] = GuardItem(t, r.id)
      BY <3>1, RuntimeItemIs
    <3>3. Bare(CanItem(t)) = CanItem(t) /\ Bare(GuardItem(t, r.id)) = GuardItem(t, None)
      BY BareIs DEF CanItem, GuardItem
    <3> QED BY <3>2, <3>3 DEF IsShown
  <2> QED BY <2>1, <2>2, <2>3, <2>4, <2>5
<1> QED BY <1>1, <1>2, <1>3

LEMMA SameElements ==
    ASSUME action \in Actions, NEW a, NEW b, Complete(a), Complete(b)
    PROVE  ToSet(a) \subseteq ToSet(b)
<1>1. ASSUME NEW x \in ToSet(a) PROVE x \in ToSet(b)
  <2>1. PICK i \in DOMAIN a : x = a[i]
    BY InToSet
  <2>2. CASE i \in DOMAIN ExplicitItems
    <3>1. i \in DOMAIN b /\ b[i] = x
      BY <2>1, <2>2 DEF Complete, Found
    <3> QED BY <3>1, InToSet
  <2>3. CASE i \notin DOMAIN ExplicitItems
    <3>1. PICK r \in ToSet(action.routes) : ItemOf(r, x)
      BY <2>1, <2>3 DEF Complete, Found, FromRoutes
    <3> QED BY <3>1 DEF Complete, Holds
  <2> QED BY <2>2, <2>3
<1> QED BY <1>1

\* What is shown, with the place an item of the action itself has.
Placed(list) == [i \in DOMAIN list |-> <<Bare(list[i]), Rest(i)>>]

LEMMA PlacedAlike ==
    ASSUME action \in Actions, NEW a, NEW b, Complete(a), Complete(b)
    PROVE  Permuted(Placed(a), Placed(b))
<1> DEFINE p == [i \in DOMAIN a |-> CHOOSE j \in DOMAIN b : b[j] = a[i]]
<1>1. Found(a) /\ Found(b) /\ Once(a) /\ Once(b) /\ ToSet(a) = ToSet(b)
  <2>1. ToSet(a) \subseteq ToSet(b)
    BY SameElements
  <2>2. ToSet(b) \subseteq ToSet(a)
    BY SameElements
  <2> QED BY <2>1, <2>2 DEF Complete, Found
<1>2. \A i \in DOMAIN a : p[i] \in DOMAIN b /\ b[p[i]] = a[i]
  BY <1>1, InToSet
<1>3. p \in [DOMAIN a -> DOMAIN b]
  BY <1>2
<1> HIDE DEF p
<1>4. p \in Bijection(DOMAIN a, DOMAIN b)
  <2>1. \A i, j \in DOMAIN a : p[i] = p[j] => i = j
    BY <1>1, <1>2 DEF Once
  <2>2. ASSUME NEW j \in DOMAIN b PROVE \E i \in DOMAIN a : p[i] = j
    <3>1. PICK i \in DOMAIN a : a[i] = b[j]
      BY <1>1, InToSet
    <3> QED BY <1>1, <1>2, <3>1 DEF Once
  <2> QED BY <1>3, <2>1, <2>2 DEF Bijection, Injection, Surjection, IsInjective
<1>5. ASSUME NEW i \in DOMAIN a PROVE Placed(a)[i] = Placed(b)[p[i]]
  <2>1. b[p[i]] = a[i] /\ p[i] \in DOMAIN b
    BY <1>2
  <2>2. Rest(i) = Rest(p[i])
    <3>1. CASE i <= Own
      <4>1. i \in DOMAIN ExplicitItems /\ a[i] = ExplicitItems[i]
        BY <1>1, <3>1, FoundPlaces
      <4>2. i \in DOMAIN b /\ b[i] = a[i]
        BY <1>1, <4>1 DEF Found
      <4>3. p[i] = i
        BY <1>1, <2>1, <4>2 DEF Once
      <4> QED BY <4>3
    <3>2. CASE ~(i <= Own)
      <4>1. a[i] \notin ToSet(ExplicitItems)
        BY <1>1, <3>2, FoundPlaces
      <4>2. ~(p[i] <= Own)
        BY <1>1, <2>1, <4>1, FoundPlaces, InToSet
      <4> QED BY <3>2, <4>2 DEF Rest
    <3> QED BY <3>1, <3>2
  <2> QED BY <2>1, <2>2 DEF Placed
<1>6. DOMAIN Placed(a) = DOMAIN a /\ DOMAIN Placed(b) = DOMAIN b
  BY DEF Placed
<1> QED BY <1>4, <1>5, <1>6 DEF Permuted

LEMMA ItemKeyIs ==
    ASSUME NEW x, NEW y, Worded(x), Worded(y)
    PROVE  /\ ItemKey(x) \in Nat
           /\ ItemKey(x) = ItemKey(y) => x.kind = y.kind /\ x.source = y.source /\ x.ability = y.ability
<1>1. /\ Rank[x.kind] \in Nat /\ Rank[x.source] \in Nat /\ Rank[x.ability] \in Nat /\ Rank[x.ability] < Width
      /\ Rank[y.kind] \in Nat /\ Rank[y.source] \in Nat /\ Rank[y.ability] \in Nat /\ Rank[y.ability] < Width
      /\ Rank[x.source] < Width /\ Rank[y.source] < Width /\ Width \in Nat
  BY WidthIs DEF Worded
<1>2. PICK rx, ry, sx, sy :
        rx = Rank[x.kind] /\ ry = Rank[y.kind] /\ sx = Rank[x.source] /\ sy = Rank[y.source]
  OBVIOUS
<1>3. PICK hx, hy : hx = rx * Width + sx /\ hy = ry * Width + sy
  OBVIOUS
<1>4. hx \in Nat /\ hy \in Nat /\ (hx = hy <=> rx = ry /\ sx = sy)
  <2>1. /\ rx * Width + sx \in Nat /\ ry * Width + sy \in Nat
        /\ rx * Width + sx = ry * Width + sy <=> rx = ry /\ sx = sy
    <3>1. rx \in Nat /\ ry \in Nat /\ sx \in Nat /\ sy \in Nat /\ sx < Width /\ sy < Width /\ Width \in Nat
      BY <1>1, <1>2
    <3> QED BY ONLY <3>1, Digits
  <2> QED BY <1>3, <2>1
<1>5. PICK ax, ay : ax = Rank[x.ability] /\ ay = Rank[y.ability]
  OBVIOUS
<1>6. /\ hx * Width + ax \in Nat
      /\ hx * Width + ax = hy * Width + ay <=> hx = hy /\ ax = ay
  <2>1. ax \in Nat /\ ay \in Nat /\ ax < Width /\ ay < Width /\ Width \in Nat
    BY <1>1, <1>5
  <2> QED BY ONLY <1>4, <2>1, Digits
<1>7. ItemKey(x) = hx * Width + ax /\ ItemKey(y) = hy * Width + ay
  BY <1>2, <1>3, <1>5 DEF ItemKey
<1>8. \A v, w \in Words : Rank[v] = Rank[w] => v = w
  BY RankAssumption DEF RankAssumption
<1> QED BY <1>2, <1>6, <1>8, <1>4, <1>5, <1>7 DEF Worded

PlacedKey(q) == ItemKey(q[1]) * (Own + 2) + q[2]

LEMMA PlacedKeyIs ==
    ASSUME action \in Actions, NEW list, Found(list), NEW i \in DOMAIN list, NEW m \in DOMAIN list
    PROVE  LET k == ItemKey(list[i])
               l == ItemKey(list[m])
               p == PlacedKey(Placed(list)[i])
               q == PlacedKey(Placed(list)[m])
           IN  /\ p \in Nat /\ k \in Nat
               /\ l < k \/ (l = k /\ m <= i) <=> q < p \/ (q = p /\ m <= i)
<1> DEFINE k == ItemKey(list[i])
           l == ItemKey(list[m])
<1>1. k \in Nat /\ l \in Nat /\ Own \in Nat /\ i \in Nat /\ m \in Nat
  BY FoundPlaces, ItemKeyIs
<1>2. Rest(i) \in Nat /\ Rest(m) \in Nat /\ Rest(i) < Own + 2 /\ Rest(m) < Own + 2 /\ Own + 2 \in Nat
      /\ (Rest(m) < Rest(i) => m < i) /\ (m <= i => Rest(m) < Rest(i) \/ Rest(m) = Rest(i))
  BY <1>1 DEF Rest
<1>3. ASSUME NEW x, Worded(x) PROVE ItemKey(Bare(x)) = ItemKey(x)
  BY DEF Bare, ItemKey, Worded
<1>4. /\ PlacedKey(Placed(list)[i]) = k * (Own + 2) + Rest(i)
      /\ PlacedKey(Placed(list)[m]) = l * (Own + 2) + Rest(m)
  BY <1>3, FoundPlaces DEF Placed, PlacedKey
<1> HIDE DEF k, l
<1>5. /\ k * (Own + 2) + Rest(i) \in Nat
      /\ l * (Own + 2) + Rest(m) < k * (Own + 2) + Rest(i) <=> l < k \/ (l = k /\ Rest(m) < Rest(i))
      /\ l * (Own + 2) + Rest(m) = k * (Own + 2) + Rest(i) <=> l = k /\ Rest(m) = Rest(i)
  BY <1>1, <1>2, Digits
<1>6. l < k \/ (l = k /\ m <= i)
        <=> (l < k \/ (l = k /\ Rest(m) < Rest(i))) \/ ((l = k /\ Rest(m) = Rest(i)) /\ m <= i)
  BY <1>1, <1>2
<1> QED BY <1>1, <1>4, <1>5, <1>6 DEF k, l

PlacedKeys(list) == [i \in DOMAIN Placed(list) |-> PlacedKey(Placed(list)[i])]

LEMMA SortPlaced ==
    ASSUME action \in Actions, NEW list, Found(list)
    PROVE  LET t == SortedBy(Placed(list), PlacedKeys(list))
           IN  /\ DOMAIN Sorted(list) = DOMAIN list /\ DOMAIN t = DOMAIN list
               /\ \A n \in DOMAIN list : Bare(Sorted(list)[n]) = t[n][1]
<1> DEFINE k == [i \in DOMAIN list |-> ItemKey(list[i])]
           K == PlacedKeys(list)
<1>1. DOMAIN K = DOMAIN list /\ DOMAIN k = DOMAIN list
      /\ DOMAIN Placed(list) = DOMAIN list /\ K \in [DOMAIN list -> Nat]
      /\ \A i \in DOMAIN list : K[i] = PlacedKey(Placed(list)[i]) /\ k[i] = ItemKey(list[i])
  BY PlacedKeyIs DEF Placed, PlacedKeys
<1>2. \A i, m \in DOMAIN list : k[m] < k[i] \/ (k[m] = k[i] /\ m <= i)
                                  <=> K[m] < K[i] \/ (K[m] = K[i] /\ m <= i)
  BY <1>1, PlacedKeyIs
<1>3. Sorted(list) = SortedBy(list, k)
  BY DEF Sorted
<1> HIDE DEF k, K
<1>4. Sorted(list) = SortedBy(list, K)
  BY <1>1, <1>2, <1>3, SameOrder
<1>5. IsList(Placed(list))
  <2>1. DOMAIN list = 1 .. Len(list) /\ Len(list) \in Nat
    BY FoundPlaces
  <2>2. Placed(list) = [i \in 1 .. Len(list) |-> Placed(list)[i]]
    BY <2>1 DEF Placed
  <2> QED BY <2>1, <2>2, BuiltList
<1>6. /\ DOMAIN SortedBy(list, K) = DOMAIN list /\ DOMAIN SortedBy(Placed(list), K) = DOMAIN list
      /\ \A n \in DOMAIN list : \E i \in DOMAIN list :
           SortedBy(list, K)[n] = list[i] /\ SortedBy(Placed(list), K)[n] = Placed(list)[i]
  <2>1. IsList(list)
    BY DEF Found
  <2> QED BY <1>1, <1>5, <2>1, SortedAlike
<1>7. \A i \in DOMAIN list : Placed(list)[i][1] = Bare(list[i])
  BY DEF Placed
<1> QED BY <1>4, <1>6, <1>7 DEF K

\* All that two complete lists may differ in is the order of what routes have, and
\* items of routes with the same key look the same.
LEMMA PlacedApart ==
    ASSUME action \in Actions, NEW a, NEW b, Found(a), Found(b),
           NEW i \in DOMAIN a, NEW j \in DOMAIN b,
           PlacedKey(Placed(a)[i]) = PlacedKey(Placed(b)[j])
    PROVE  Placed(a)[i] = Placed(b)[j]
<1> DEFINE k == ItemKey(a[i])
           l == ItemKey(b[j])
<1>1. /\ k \in Nat /\ l \in Nat /\ Own \in Nat /\ i \in Nat /\ j \in Nat
      /\ Worded(a[i]) /\ Worded(b[j])
  BY FoundPlaces, ItemKeyIs
<1>2. Rest(i) \in Nat /\ Rest(j) \in Nat /\ Rest(i) < Own + 2 /\ Rest(j) < Own + 2 /\ Own + 2 \in Nat
      /\ (Rest(i) = Rest(j) => (i <= Own <=> j <= Own) /\ (i <= Own => i = j))
  BY <1>1 DEF Rest
<1>3. ASSUME NEW x, Worded(x) PROVE ItemKey(Bare(x)) = ItemKey(x)
  BY DEF Bare, ItemKey, Worded
<1>4. /\ PlacedKey(Placed(a)[i]) = k * (Own + 2) + Rest(i)
      /\ PlacedKey(Placed(b)[j]) = l * (Own + 2) + Rest(j)
  BY <1>1, <1>3 DEF Placed, PlacedKey
<1> HIDE DEF k, l
<1>5. l = k /\ Rest(i) = Rest(j)
  <2>1. PICK w, p, q, c, d : w = Own + 2 /\ p = Rest(i) /\ q = Rest(j) /\ c = k /\ d = l
    OBVIOUS
  <2>2. c * w + p = d * w + q <=> c = d /\ p = q
    <3>1. /\ w \in Nat /\ p \in Nat /\ q \in Nat /\ p < w /\ q < w
          /\ c \in Nat /\ d \in Nat
      BY <1>1, <1>2, <2>1
    <3> QED BY ONLY <3>1, Digits
  <2> QED BY <1>4, <2>1, <2>2
<1>6. Bare(a[i]) = Bare(b[j])
  <2>1. CASE i <= Own
    <3>1. i = j /\ a[i] = ExplicitItems[i] /\ b[j] = ExplicitItems[i]
      BY <1>2, <1>5, <2>1, FoundPlaces
    <3> QED BY <3>1
  <2>2. CASE ~(i <= Own)
    <3>1. IsShown(Bare(a[i])) /\ IsShown(Bare(b[j]))
      BY <1>2, <1>5, <2>2, FoundPlaces
    <3>2. ASSUME NEW x, Worded(x)
          PROVE  Bare(x).kind = x.kind /\ Bare(x).source = x.source /\ Bare(x).ability = x.ability
      BY DEF Bare, Worded
    <3>3. a[i].kind = b[j].kind /\ a[i].source = b[j].source
      BY <1>1, <1>5, ItemKeyIs DEF k, l
    <3>4. Bare(a[i]).kind = Bare(b[j]).kind /\ Bare(a[i]).source = Bare(b[j]).source
      BY <1>1, <3>2, <3>3
    <3>5. ASSUME NEW x, NEW y, IsShown(x), IsShown(y), x.kind = y.kind, x.source = y.source
          PROVE  x = y
      <4>1. \A t : CanItem(t).kind = "policy" /\ GuardItem(t, None).kind = "middleware"
                   /\ CanItem(t).source = t /\ GuardItem(t, None).source = t
        BY DEF CanItem, GuardItem, AuthItem
      <4> QED BY <3>5, <4>1 DEF IsShown
    <3> QED BY <3>1, <3>4, <3>5
  <2> QED BY <2>1, <2>2
<1> QED BY <1>5, <1>6 DEF Placed

Shown(list) == [i \in DOMAIN list |-> Bare(list[i])]

LEMMA SameShown ==
    ASSUME action \in Actions, NEW a, NEW b, Complete(a), Complete(b)
    PROVE  Shown(Sorted(a)) = Shown(Sorted(b))
<1> DEFINE S == {Placed(a)[i] : i \in DOMAIN a} \cup {Placed(b)[i] : i \in DOMAIN b}
           rank == [q \in S |-> PlacedKey(q)]
<1>1. Found(a) /\ Found(b)
  BY DEF Complete
<1>2. DOMAIN Placed(a) = DOMAIN a /\ DOMAIN Placed(b) = DOMAIN b
  BY DEF Placed
<1>3. ASSUME NEW list, Found(list) PROVE Placed(list) \in Seq({Placed(list)[i] : i \in DOMAIN list})
  <2>1. DOMAIN list = 1 .. Len(list) /\ Len(list) \in Nat
    BY <1>3, FoundPlaces
  <2>2. Placed(list) = [i \in 1 .. Len(list) |-> Placed(list)[i]] /\ DOMAIN Placed(list) = DOMAIN list
    BY <2>1 DEF Placed
  <2>3. IsList(Placed(list))
    BY <2>1, <2>2, BuiltList
  <2> QED BY <2>2, <2>3 DEF IsList
<1>4. Placed(a) \in Seq(S) /\ Placed(b) \in Seq(S)
  <2>1. \A T \in SUBSET S : Seq(T) \subseteq Seq(S)
    OBVIOUS
  <2>2. {Placed(a)[i] : i \in DOMAIN a} \in SUBSET S /\ {Placed(b)[i] : i \in DOMAIN b} \in SUBSET S
    OBVIOUS
  <2>3. /\ Placed(a) \in Seq({Placed(a)[i] : i \in DOMAIN a})
        /\ Placed(b) \in Seq({Placed(b)[i] : i \in DOMAIN b})
    BY <1>1, <1>3
  <2> HIDE DEF S
  <2> QED BY <2>1, <2>2, <2>3
<1>5. \A q \in S : PlacedKey(q) \in Nat
  BY <1>1, PlacedKeyIs
<1>6. rank \in [S -> Nat]
  BY <1>5
<1>7. Apart(rank)
  <2>1. ASSUME NEW c \in S, NEW e \in S, PlacedKey(c) = PlacedKey(e) PROVE c = e
    <3>1. /\ \/ \E i \in DOMAIN a : c = Placed(a)[i]
             \/ \E i \in DOMAIN b : c = Placed(b)[i]
          /\ \/ \E j \in DOMAIN a : e = Placed(a)[j]
             \/ \E j \in DOMAIN b : e = Placed(b)[j]
      OBVIOUS
    <3> HIDE DEF S
    <3> QED BY <1>1, <2>1, <3>1, PlacedApart
  <2> HIDE DEF S
  <2> QED BY <2>1 DEF Apart
<1>8. PlacedKeys(a) = [i \in DOMAIN Placed(a) |-> rank[Placed(a)[i]]]
      /\ PlacedKeys(b) = [i \in DOMAIN Placed(b) |-> rank[Placed(b)[i]]]
  BY <1>2 DEF PlacedKeys
<1> HIDE DEF S, rank
<1>9. SortedBy(Placed(a), PlacedKeys(a)) = SortedBy(Placed(b), PlacedKeys(b))
  <2>1. Permuted(Placed(a), Placed(b))
    BY PlacedAlike
  <2>2. PICK u, v : u = Placed(a) /\ v = Placed(b)
    OBVIOUS
  <2>3. SortedBy(u, [i \in DOMAIN u |-> rank[u[i]]]) = SortedBy(v, [i \in DOMAIN v |-> rank[v[i]]])
    <3>1. u \in Seq(S) /\ v \in Seq(S) /\ Permuted(u, v)
      BY <1>4, <2>1, <2>2
    <3> QED BY ONLY <1>6, <1>7, <3>1, SortIsCanonical
  <2> QED BY <1>8, <2>2, <2>3
<1>10. PICK t : t = SortedBy(Placed(a), PlacedKeys(a))
  OBVIOUS
<1>11. /\ DOMAIN Sorted(a) = DOMAIN a /\ DOMAIN t = DOMAIN a
       /\ \A n \in DOMAIN a : Bare(Sorted(a)[n]) = t[n][1]
  BY <1>1, <1>10, SortPlaced
<1>12. /\ DOMAIN Sorted(b) = DOMAIN b /\ DOMAIN t = DOMAIN b
       /\ \A n \in DOMAIN b : Bare(Sorted(b)[n]) = t[n][1]
  BY <1>1, <1>9, <1>10, SortPlaced
<1> QED BY <1>11, <1>12 DEF Shown

\* The routes in any order give a complete list.
LEMMA AuthorizationIs ==
    ASSUME action \in Actions, NEW routes \in Orders(action.routes)
    PROVE  \E list : Complete(list) /\ Authorization(routes) = Sorted(list)
<1> DEFINE R == DOMAIN action.routes
<1>1. PICK p \in [R -> R] : /\ \A k \in R : \E i \in R : p[i] = k
                            /\ routes = [i \in R |-> action.routes[p[i]]]
  BY DEF Orders
<1>2. IsList(action.routes) /\ R = 1 .. Len(action.routes) /\ Len(action.routes) \in Nat
  BY RouteIs, ListIs
<1> HIDE DEF R
<1>3. PICK n \in Nat : R = 1 .. n
  BY <1>2
<1>4. DOMAIN routes = R /\ \A i \in R : routes[i] \in ToSet(action.routes)
  BY <1>1, InToSet DEF R
<1> DEFINE ss == [i \in DOMAIN routes |-> RouteItems(routes[i])]
           new == Flattened(ss)
<1>5. IsList(ss) /\ DOMAIN ss = R /\ \A i \in R : ss[i] = RouteItems(routes[i])
  <2>1. DOMAIN ss = R /\ \A i \in R : ss[i] = RouteItems(routes[i])
    BY <1>4
  <2>2. ss = [i \in 1 .. n |-> ss[i]]
    BY <1>3, <1>4
  <2> HIDE DEF ss
  <2> QED BY <2>1, <2>2, BuiltList
<1> HIDE DEF ss
<1>6. \A i \in R : IsList(ss[i]) /\ \A x : x \in ToSet(ss[i]) <=> ItemOf(routes[i], x)
  BY <1>4, <1>5, RouteItemsAre
<1>7. IsList(new) /\ ToSet(new) = UNION {ToSet(ss[i]) : i \in R}
  BY <1>5, <1>6, FlatList
<1> HIDE DEF new
<1>8. \A x \in ToSet(new) : FromRoutes(x)
  BY <1>4, <1>6, <1>7 DEF FromRoutes
<1>9. Found(ExplicitItems)
  BY ExplicitItemsAre DEF Found
<1>10. /\ Found(AddAll(ExplicitItems, new))
       /\ ToSet(AddAll(ExplicitItems, new)) = ToSet(ExplicitItems) \cup ToSet(new)
  BY <1>7, <1>8, <1>9, FoundMore
<1>11. ASSUME NEW r \in ToSet(action.routes) PROVE Holds(AddAll(ExplicitItems, new), r)
  <2>1. PICK k \in R : r = action.routes[k]
    BY InToSet DEF R
  <2>2. PICK i \in R : p[i] = k
    BY <1>1
  <2>3. routes[i] = r
    BY <1>1, <2>1, <2>2
  <2>4. \A x : ItemOf(r, x) => x \in ToSet(new)
    BY <1>6, <1>7, <2>2, <2>3
  <2> QED BY <1>10, <2>4 DEF Holds
<1>12. Authorization(routes) = Sorted(AddAll(ExplicitItems, new))
  BY DEF Authorization, new, ss
<1> QED BY <1>10, <1>11, <1>12 DEF Complete

LEMMA OrderIrrelevant == ASSUME AuthInv PROVE RouteOrderIrrelevant
<1> SUFFICES ASSUME stage = "request" PROVE RouteOrderIrrelevant
  BY DEF RouteOrderIrrelevant
<1>1. action \in Actions /\ \E found : Complete(found) /\ items = Sorted(found)
  BY DEF AuthInv, AtRequest
<1>2. \A routes \in Orders(action.routes) : Shown(Authorization(routes)) = Shown(items)
  BY <1>1, AuthorizationIs, SameShown
<1> QED BY <1>2 DEF RouteOrderIrrelevant, Shown, Bare

\* However many routes lead to an action and in whatever order the host lists them, the
\* authorization section is the same list.
THEOREM RouteOrderIrrelevantAlways == Spec => []RouteOrderIrrelevant
<1>1. AuthInv => RouteOrderIrrelevant
  BY OrderIrrelevant
<1> QED BY <1>1, InitAuth, StepAuth, PTL DEF Spec

-----------------------------------------------------------------------------
(* What is answered.  A response that was added answers with its own status, *)
(* and no other response does: this holds of the body's responses, which     *)
(* were not added, and is kept when one is added, left out or moved.         *)

Code == Status \cup {None}
Formed(r) == r.kind \in Words /\ r.source \in Words /\ r.via \in Words /\ r.status \in Code
Single(rs, via, status) ==
    \A i \in DOMAIN rs : rs[i].via = via =>
        /\ rs[i].status = status
        /\ \A h \in DOMAIN rs \ {i} : rs[h].status # status
Reason(r) ==
    /\ r.via = "authorization" => \E x \in ToSet(Enforcing) : x.source = r.source
    /\ r.via = "validation" => ValidatedBy(r.source)
Reasoned(rs) == \A i \in DOMAIN rs : Reason(rs[i])
Answered(rs, status) == \E r \in ToSet(rs) : r.status = status
WellAnswered(rs) ==
    /\ IsList(rs) /\ \A i \in DOMAIN rs : Formed(rs[i])
    /\ Single(rs, "authorization", 403) /\ Single(rs, "validation", 422) /\ Reasoned(rs)

\* Responses that are left out, or put in another order, do not become more.
LEMMA KeptAnswers ==
    ASSUME NEW s, NEW t, WellAnswered(s), IsList(t),
           NEW at, \A n \in DOMAIN t : at[n] \in DOMAIN s /\ t[n] = s[at[n]],
           \A m, n \in DOMAIN t : at[m] = at[n] => m = n
    PROVE  WellAnswered(t)
<1>1. ASSUME NEW via, NEW status, Single(s, via, status) PROVE Single(t, via, status)
  BY <1>1 DEF Single
<1>2. Reasoned(t) /\ \A i \in DOMAIN t : Formed(t[i])
  BY DEF WellAnswered, Reasoned
<1> QED BY <1>1, <1>2 DEF WellAnswered

LEMMA Increasing ==
    ASSUME NEW n \in Nat, NEW m \in Nat, NEW at \in [1 .. n -> 1 .. m],
           \A i, k \in 1 .. n : i < k => at[i] < at[k]
    PROVE  \A i, k \in 1 .. n : at[i] = at[k] => i = k
OBVIOUS

LEMMA PickedAnswers ==
    ASSUME NEW s, WellAnswered(s), NEW I \in SUBSET DOMAIN s
    PROVE  WellAnswered(Picked(s, I)) /\ ToSet(Picked(s, I)) = {s[i] : i \in I}
<1>1. IsList(s) /\ DOMAIN s = 1 .. Len(s) /\ Len(s) \in Nat
  BY ListIs DEF WellAnswered
<1>2. /\ IsList(Picked(s, I)) /\ ToSet(Picked(s, I)) = {s[i] : i \in I} /\ IsFiniteSet(I)
      /\ \E at : Lists(at, I) /\ Picked(s, I) = [n \in 1 .. Cardinality(I) |-> s[at[n]]]
  BY <1>1, PickedList
<1>3. PICK at : Lists(at, I) /\ Picked(s, I) = [n \in 1 .. Cardinality(I) |-> s[at[n]]]
  BY <1>2
<1>4. Cardinality(I) \in Nat
  BY <1>2, FS_CardinalityType
<1>5. at \in [1 .. Cardinality(I) -> 1 .. Len(s)]
      /\ \A m, n \in 1 .. Cardinality(I) : m < n => at[m] < at[n]
  BY <1>1, <1>3 DEF Lists
<1>6. \A m, n \in 1 .. Cardinality(I) : at[m] = at[n] => m = n
  BY ONLY <1>1, <1>4, <1>5, Increasing
<1>7. DOMAIN Picked(s, I) = 1 .. Cardinality(I)
      /\ \A n \in 1 .. Cardinality(I) : at[n] \in DOMAIN s /\ Picked(s, I)[n] = s[at[n]]
  BY <1>1, <1>3, <1>5
<1>8. PICK t : t = Picked(s, I)
  OBVIOUS
<1>9. WellAnswered(t)
  <2>1. IsList(t) /\ \A n \in DOMAIN t : at[n] \in DOMAIN s /\ t[n] = s[at[n]]
    BY <1>2, <1>7, <1>8
  <2>2. \A m, n \in DOMAIN t : at[m] = at[n] => m = n
    BY <1>6, <1>7, <1>8
  <2> QED BY <2>1, <2>2, KeptAnswers
<1> QED BY <1>2, <1>8, <1>9

LEMMA SortedAnswers ==
    ASSUME NEW s, WellAnswered(s), NEW k \in [DOMAIN s -> Nat]
    PROVE  WellAnswered(SortedBy(s, k)) /\ ToSet(SortedBy(s, k)) = ToSet(s)
<1>1. IsList(s) /\ s \in Seq(ToSet(s)) /\ DOMAIN s = 1 .. Len(s) /\ Len(s) \in Nat
  BY ListIs DEF WellAnswered
<1>2. /\ SortedBy(s, k) \in Seq(ToSet(s)) /\ DOMAIN SortedBy(s, k) = DOMAIN s
      /\ ToSet(SortedBy(s, k)) = ToSet(s)
  BY <1>1, SortedElements
<1>3. PICK at \in [DOMAIN s -> DOMAIN s] :
        /\ SortedBy(s, k) = [m \in DOMAIN s |-> s[at[m]]]
        /\ \A m, n \in DOMAIN s :
             m < n => k[at[m]] < k[at[n]] \/ (k[at[m]] = k[at[n]] /\ at[m] < at[n])
  BY <1>1, SortIsStable
<1>4. ASSUME NEW m \in DOMAIN s, NEW n \in DOMAIN s, at[m] = at[n] PROVE m = n
  <2>1. m \in Nat /\ n \in Nat /\ at[m] \in Nat /\ k[at[m]] \in Nat
    BY <1>1, <1>3
  <2>2. ~(m < n) /\ ~(n < m)
    BY <1>3, <1>4, <2>1
  <2> QED BY <2>1, <2>2
<1>5. \A n \in DOMAIN s : at[n] \in DOMAIN s /\ SortedBy(s, k)[n] = s[at[n]]
  BY <1>3
<1>6. IsList(SortedBy(s, k))
  BY <1>2, ListOf
<1>7. PICK t : t = SortedBy(s, k)
  OBVIOUS
<1>8. WellAnswered(t)
  <2>1. IsList(t) /\ \A n \in DOMAIN t : at[n] \in DOMAIN s /\ t[n] = s[at[n]]
    BY <1>2, <1>5, <1>6, <1>7
  <2>2. \A m, n \in DOMAIN t : at[m] = at[n] => m = n
    BY <1>2, <1>4, <1>7
  <2> QED BY <2>1, <2>2, KeptAnswers
<1> QED BY <1>2, <1>7, <1>8

\* Of each shape, with its status, one response is kept.
LEMMA FirstsAnswer ==
    ASSUME NEW s, WellAnswered(s)
    PROVE  /\ WellAnswered(FirstOfEach(s))
           /\ \A status : Answered(s, status) => Answered(FirstOfEach(s), status)
<1> DEFINE I == {i \in DOMAIN s : \A k \in 1 .. i - 1 : Shape(s[k]) # Shape(s[i])}
<1>1. FirstOfEach(s) = Picked(s, I) /\ I \in SUBSET DOMAIN s
  BY DEF FirstOfEach
<1>2. WellAnswered(Picked(s, I)) /\ ToSet(Picked(s, I)) = {s[i] : i \in I}
  BY <1>1, PickedAnswers
<1>3. DOMAIN s = 1 .. Len(s) /\ Len(s) \in Nat
  BY ListIs DEF WellAnswered
<1>4. ASSUME NEW status, Answered(s, status) PROVE Answered(Picked(s, I), status)
  <2>1. PICK i \in DOMAIN s : s[i].status = status
    BY <1>4, InToSet DEF Answered
  <2> DEFINE J == {k \in 1 .. Len(s) : Shape(s[k]) = Shape(s[i])}
             f == FirstOf(J)
  <2>2. J \in SUBSET (1 .. Len(s)) /\ J # {}
    BY <1>3
  <2>3. f \in J /\ \A k \in J : f <= k
    BY <1>3, <2>2, FirstAndLast
  <2> HIDE DEF f
  <2>4. f \in 1 .. Len(s) /\ Shape(s[f]) = Shape(s[i])
    BY <2>3
  <2>5. \A k \in 1 .. f - 1 : k \in 1 .. Len(s) /\ ~(f <= k)
    BY <1>3, <2>4
  <2>6. f \in I
    BY <1>3, <2>3, <2>4, <2>5
  <2>7. s[f].status = status
    BY <2>1, <2>4 DEF Shape
  <2>8. s[f] \in ToSet(Picked(s, I))
    BY <1>2, <2>6
  <2> QED BY <2>7, <2>8 DEF Answered
<1> QED BY <1>1, <1>2, <1>4

LEMMA KeysAre ==
    ASSUME NEW r, Formed(r)
    PROVE  MajorKey(r) \in Nat /\ MinorKey(r) \in Nat
<1>1. Rank[r.kind] \in Nat /\ Rank[r.source] \in Nat /\ Rank[r.via] \in Nat /\ Width \in Nat
  BY WidthIs DEF Formed
<1>2. r.status # None => r.status \in Nat
  <2>1. \A n \in Status : n \in Nat
    BY DEF Status
  <2> QED BY <2>1, SMTT(30) DEF Formed, Code
<1>3. MinorKey(r) \in Nat
  BY <1>1 DEF MinorKey
<1>4. MajorKey(r) \in Nat
  BY <1>1, <1>2 DEF MajorKey
<1> QED BY <1>3, <1>4

LEMMA OrderedAnswers ==
    ASSUME NEW s, WellAnswered(s)
    PROVE  WellAnswered(Ordered(s)) /\ ToSet(Ordered(s)) = ToSet(s)
<1> DEFINE k == [i \in DOMAIN s |-> MinorKey(s[i])]
           t == SortedBy(s, k)
           l == [i \in DOMAIN t |-> MajorKey(t[i])]
<1>1. k \in [DOMAIN s -> Nat]
  BY KeysAre DEF WellAnswered
<1>2. WellAnswered(t) /\ ToSet(t) = ToSet(s)
  BY <1>1, SortedAnswers
<1> HIDE DEF t
<1>3. l \in [DOMAIN t -> Nat]
  BY <1>2, KeysAre DEF WellAnswered
<1>4. WellAnswered(SortedBy(t, l)) /\ ToSet(SortedBy(t, l)) = ToSet(t)
  BY <1>2, <1>3, SortedAnswers
<1>5. Ordered(s) = SortedBy(t, l)
  BY DEF Ordered, t
<1> QED BY <1>2, <1>4, <1>5

\* One response more, that nothing else has answered yet.
LEMMA OneMore ==
    ASSUME NEW s, WellAnswered(s), NEW r, Formed(r),
           \/ r.via = "authorization" /\ r.status = 403
                /\ \E x \in ToSet(Enforcing) : x.source = r.source
           \/ r.via = "validation" /\ r.status = 422 /\ ValidatedBy(r.source),
           ~Answered(s, r.status)
    PROVE  /\ WellAnswered(Append(s, r)) /\ Answered(Append(s, r), r.status)
           /\ \A status : Answered(s, status) => Answered(Append(s, r), status)
<1> DEFINE n == Len(s)
           t == Append(s, r)
<1>1. s \in Seq(ToSet(s)) /\ n \in Nat /\ DOMAIN s = 1 .. n
  BY ListIs DEF WellAnswered
<1>2. s \in Seq(ToSet(s) \cup {r})
  <2>1. \A S, T : S \subseteq T => Seq(S) \subseteq Seq(T)
    OBVIOUS
  <2> QED BY <1>1, <2>1
<1>3. /\ t \in Seq(ToSet(s) \cup {r}) /\ DOMAIN t = 1 .. n + 1
      /\ t[n + 1] = r /\ \A i \in 1 .. n : t[i] = s[i]
  BY <1>1, <1>2
<1> HIDE DEF t, n
<1>4. IsList(t) /\ \A i \in DOMAIN t : i \in DOMAIN s \/ i = n + 1
  BY <1>1, <1>3, ListOf
<1>5. \A i \in DOMAIN s : s[i].status # r.status
  BY InToSet DEF Answered
<1>6. n + 1 \notin DOMAIN s
  BY <1>1
<1>7. \A i \in DOMAIN s : t[i] = s[i] /\ i \in DOMAIN t
  BY <1>1, <1>3
<1>8. n + 1 \in DOMAIN t
  BY <1>1, <1>3
<1>9. \A i \in DOMAIN t : Formed(t[i])
  BY <1>3, <1>4, <1>7 DEF WellAnswered
<1>10. Reasoned(t)
  <2>1. ASSUME NEW i \in DOMAIN t PROVE Reason(t[i])
    <3>1. CASE i \in DOMAIN s
      BY <1>7, <3>1 DEF WellAnswered, Reasoned
    <3>2. CASE i = n + 1
      BY <1>3, <3>2 DEF Reason
    <3> QED BY <1>4, <2>1, <3>1, <3>2
  <2> QED BY <2>1 DEF Reasoned
<1>11. ASSUME NEW via, NEW status, Single(s, via, status),
              r.via = via => r.status = status, r.via # via => r.status # status
       PROVE  Single(t, via, status)
  BY <1>3, <1>4, <1>5, <1>6, <1>7, <1>11 DEF Single
<1>12. Single(t, "authorization", 403) /\ Single(t, "validation", 422)
  BY <1>11 DEF WellAnswered
<1>13. Answered(t, r.status)
  BY <1>3, <1>8, InToSet DEF Answered
<1>14. \A x \in ToSet(s) : x \in ToSet(t)
  BY <1>7, InToSet
<1> QED BY <1>4, <1>9, <1>10, <1>12, <1>13, <1>14 DEF WellAnswered, Answered, t

\* What the body, the resources and the fallback answer.
Plain(r) == Formed(r) /\ r.via \notin Added
PlainList(rs) == IsList(rs) /\ \A r \in ToSet(rs) : Plain(r)

LEMMA PlainAnswers == ASSUME NEW rs, PlainList(rs) PROVE WellAnswered(rs)
<1>1. \A i \in DOMAIN rs : Formed(rs[i]) /\ rs[i].via # "authorization" /\ rs[i].via # "validation"
  BY InToSet DEF PlainList, Plain, Added
<1> QED BY <1>1 DEF PlainList, WellAnswered, Single, Reasoned, Reason

LEMMA CodesAre ==
    /\ None \in Code /\ 200 \in Status /\ 204 \in Code /\ 403 \in Code /\ 422 \in Code
    /\ \A n \in Status : n \in Code
<1>1. 200 \in Status /\ 204 \in Status /\ 403 \in Status /\ 422 \in Status
  BY DEF Status
<1> QED BY <1>1 DEF Code

LEMMA StatusesAre ==
    ASSUME NEW s, IsList(s), NEW t, IsList(t),
           \A i \in DOMAIN s : s[i] \in Code, \A i \in DOMAIN t : t[i] \in Code
    PROVE  IsList(s \o t) /\ \A i \in DOMAIN (s \o t) : (s \o t)[i] \in Code
<1>1. IsList(s \o t) /\ ToSet(s \o t) = ToSet(s) \cup ToSet(t)
  BY CatLists
<1>2. \A x \in ToSet(s) \cup ToSet(t) : x \in Code
  BY InToSet
<1> QED BY <1>1, <1>2, InToSet

LEMMA ActionIs ==
    ASSUME action \in Actions
    PROVE  /\ IsList(action.answers) /\ IsList(action.errors)
           /\ IsList(action.used) /\ IsList(action.mentions)
           /\ action.status \in Code /\ action.setStatus \in Code
           /\ \A i \in DOMAIN action.answers :
                /\ action.answers[i].kind \in Words /\ action.answers[i].source \in Words \ Added
                /\ action.answers[i].status \in Code /\ action.answers[i].default \in Status
           /\ \A i \in DOMAIN action.errors :
                action.errors[i].status \in Status /\ action.errors[i].source \in Words \ Added
<1> DEFINE E == [status : Status, source : Words \ Added, literal : BOOLEAN]
           U == [class : STRING, method : STRING]
<1>1. /\ IsList(action.answers) /\ action.errors \in Seq(E) /\ action.used \in Seq(U)
      /\ action.mentions \in Seq(U) /\ action.status \in Code /\ action.setStatus \in Code
      /\ \A i \in DOMAIN action.answers :
           /\ action.answers[i].kind \in Words /\ action.answers[i].source \in Words \ Added
           /\ action.answers[i].status \in Code /\ action.answers[i].default \in Status
  BY ContractAssumption DEF ContractAssumption, Code
<1>2. \A e \in E : e.status \in Status /\ e.source \in Words \ Added
  OBVIOUS
<1> HIDE DEF E, U
<1>3. \A i \in DOMAIN action.errors : action.errors[i] \in E
  BY <1>1
<1> QED BY <1>1, <1>2, <1>3, ListOf

LEMMA DetectedIs == ASSUME action \in Actions PROVE DetectedStatus \in Code
<1> DEFINE I == {i \in DOMAIN action.answers : action.answers[i].kind = "json"}
           json == Picked(action.answers, I)
           K == {i \in DOMAIN action.errors : action.errors[i].literal}
           abort == Picked(action.errors, K)
           a == [i \in DOMAIN json |-> json[i].status]
           b == <<action.status>>
           c == [i \in DOMAIN abort |-> abort[i].status]
           d == <<action.setStatus, IF action.noContent THEN 204 ELSE None>>
           named == a \o b \o c \o d
           known == {i \in DOMAIN named : named[i] # None}
<1>1. DetectedStatus = IF known = {} THEN None ELSE named[FirstOf(known)]
  BY DEF DetectedStatus
<1>2. IsList(json) /\ \A i \in DOMAIN json : json[i].status \in Code
  <2>1. IsList(json) /\ ToSet(json) = {action.answers[i] : i \in I}
    BY ActionIs, PickedList
  <2>2. \A x \in ToSet(json) : x.status \in Code
    BY <2>1, ActionIs
  <2> HIDE DEF json
  <2> QED BY <2>1, <2>2, InToSet
<1>3. IsList(abort) /\ \A i \in DOMAIN abort : abort[i].status \in Code
  <2>1. IsList(abort) /\ ToSet(abort) = {action.errors[i] : i \in K}
    BY ActionIs, PickedList
  <2>2. \A x \in ToSet(abort) : x.status \in Code
    BY <2>1, ActionIs, CodesAre
  <2> HIDE DEF abort
  <2> QED BY <2>1, <2>2, InToSet
<1> HIDE DEF json, abort
<1>4. IsList(a) /\ \A i \in DOMAIN a : a[i] \in Code
  <2>1. DOMAIN json = 1 .. Len(json) /\ Len(json) \in Nat
    BY <1>2, ListIs
  <2>2. a = [i \in 1 .. Len(json) |-> a[i]] /\ \A i \in 1 .. Len(json) : a[i] \in Code
    BY <1>2, <2>1
  <2> HIDE DEF a
  <2> QED BY <2>1, <2>2, BuiltList
<1>5. IsList(c) /\ \A i \in DOMAIN c : c[i] \in Code
  <2>1. DOMAIN abort = 1 .. Len(abort) /\ Len(abort) \in Nat
    BY <1>3, ListIs
  <2>2. c = [i \in 1 .. Len(abort) |-> c[i]] /\ \A i \in 1 .. Len(abort) : c[i] \in Code
    BY <1>3, <2>1
  <2> HIDE DEF c
  <2> QED BY <2>1, <2>2, BuiltList
<1>6. IsList(b) /\ \A i \in DOMAIN b : b[i] \in Code
  <2>1. b \in Seq(Code)
    BY ActionIs
  <2> HIDE DEF b
  <2> QED BY <2>1, ListOf
<1>7. IsList(d) /\ \A i \in DOMAIN d : d[i] \in Code
  <2>1. d \in Seq(Code)
    BY ActionIs, CodesAre
  <2> HIDE DEF d
  <2> QED BY <2>1, ListOf
<1> HIDE DEF a, b, c, d
<1>8. IsList(named) /\ \A i \in DOMAIN named : named[i] \in Code
  <2>1. IsList(a \o b) /\ \A i \in DOMAIN (a \o b) : (a \o b)[i] \in Code
    BY <1>4, <1>6, StatusesAre
  <2>2. PICK e : e = a \o b
    OBVIOUS
  <2>3. IsList(e \o c) /\ \A i \in DOMAIN (e \o c) : (e \o c)[i] \in Code
    BY <1>5, <2>1, <2>2, StatusesAre
  <2>4. PICK g : g = e \o c
    OBVIOUS
  <2>5. IsList(g \o d) /\ \A i \in DOMAIN (g \o d) : (g \o d)[i] \in Code
    BY <1>7, <2>3, <2>4, StatusesAre
  <2> QED BY <2>2, <2>4, <2>5
<1>9. CASE known = {}
  BY <1>1, <1>9, CodesAre
<1>10. CASE known # {}
  <2>1. DOMAIN named = 1 .. Len(named) /\ Len(named) \in Nat
    BY <1>8, ListIs
  <2> HIDE DEF named
  <2>2. known \in SUBSET (1 .. Len(named))
    BY <2>1
  <2>3. FirstOf(known) \in known
    BY <1>10, <2>1, <2>2, FirstAndLast
  <2>4. FirstOf(known) \in DOMAIN named
    BY <2>3
  <2> HIDE DEF known
  <2> QED BY <1>1, <1>8, <1>10, <2>4
<1> QED BY <1>9, <1>10

LEMMA HttpIs ==
    ASSUME action \in Actions
    PROVE  /\ \A d \in Code : HttpStatus(d) \in Code
           /\ Http # None => Http.status \in Code
<1>1. Http # None => Http.status \in Code
  BY DetectedIs, CodesAre DEF Http
<1> QED BY <1>1 DEF HttpStatus

LEMMA PlainIs ==
    ASSUME NEW k \in Words, NEW st \in Code, NEW e, NEW s \in Words, NEW v \in Words \ Added, NEW c
    PROVE  Plain(Response(k, st, e, s, v, c))
BY DEF Plain, Formed, Response

LEMMA PlainBuilt ==
    ASSUME NEW n \in Nat, NEW s, s = [i \in 1 .. n |-> s[i]], \A i \in 1 .. n : Plain(s[i])
    PROVE  PlainList(s)
<1>1. IsList(s) /\ DOMAIN s = 1 .. n
  BY BuiltList
<1> QED BY <1>1, InToSet DEF PlainList

LEMMA PlainCat ==
    ASSUME NEW s, NEW t, PlainList(s), PlainList(t)
    PROVE  PlainList(s \o t)
BY CatLists DEF PlainList

LEMMA NamesAre ==
    /\ OwnWords \subseteq Words /\ None \in Words
    /\ \A w \in {"noContent", "JsonResource", "JsonResource::collection",
                  "JsonResource::response", None} : w \in Words \ Added
    /\ "json_object" \in Words /\ "json_array" \in Words /\ "no_content" \in Words
    /\ "FormRequest" \in Words /\ "validate" \in Words
    /\ "authorization" \in Words /\ "validation" \in Words
    /\ None # "FormRequest" /\ None # "validate"
<1>1. OwnWords \cup {None} \subseteq Words /\ None \notin OwnWords
  BY OwnWordsAre
<1>2. \A w \in {"noContent", "JsonResource", "JsonResource::collection",
                "JsonResource::response", "json_object", "json_array", "no_content",
                "FormRequest", "validate"} : w \in OwnWords /\ w \notin Added
  BY DEF OwnWords, Added
<1>3. Added \subseteq OwnWords /\ "authorization" \in Added /\ "validation" \in Added
  BY DEF OwnWords, Added
<1> QED BY <1>1, <1>2, <1>3

LEMMA AnswersPlain ==
    ASSUME action \in Actions, NEW i \in DOMAIN action.answers
    PROVE  Plain(Answer(action.answers[i]))
<1>1. PICK a : a = action.answers[i]
  OBVIOUS
<1>2. /\ a.kind \in Words /\ a.source \in Words \ Added
      /\ a.status \in Code /\ a.default \in Code
  BY <1>1, ActionIs, CodesAre
<1> DEFINE st == IF a.status # None THEN a.status ELSE HttpStatus(a.default)
           ex == a.status # None \/ (Http # None /\ Http.explicit)
           given == PayloadSchemaOf(action, a.payload)
           sc == CASE a.kind = "json" -> IF given = None THEN EmptyObject ELSE given
                   [] a.kind = "inertia" -> EmptyObject
                   [] OTHER -> None
           kd == IF a.kind # "json" THEN a.kind
                 ELSE IF sc.type = "array" THEN "json_array" ELSE "json_object"
<1>3. Answer(a) = Response(kd, st, ex, a.source, a.source, sc)
  BY DEF Answer
<1>4. st \in Code
  BY <1>2, HttpIs
<1>5. kd \in Words
  BY <1>2, NamesAre
<1> HIDE DEF st, ex, sc, kd
<1> QED BY <1>1, <1>2, <1>3, <1>4, <1>5, PlainIs

LEMMA ErrorsPlain ==
    ASSUME action \in Actions
    PROVE  PlainList(ErrorResponses)
<1> DEFINE failure(e) == Failure(e.status, e.source, e.source)
           s == [i \in DOMAIN action.errors |-> failure(action.errors[i])]
<1>1. DOMAIN action.errors = 1 .. Len(action.errors) /\ Len(action.errors) \in Nat
  BY ActionIs, ListIs
<1>2. ASSUME NEW i \in DOMAIN action.errors PROVE Plain(failure(action.errors[i]))
  <2>1. action.errors[i].status \in Code /\ action.errors[i].source \in Words \ Added
    BY ActionIs, CodesAre
  <2> QED BY <2>1, NamesAre, PlainIs DEF Failure
<1>3. ErrorResponses = AddAll(<<>>, s)
  BY DEF ErrorResponses
<1>4. s = [i \in 1 .. Len(action.errors) |-> s[i]] /\ \A i \in 1 .. Len(action.errors) : Plain(s[i])
  BY <1>1, <1>2
<1> HIDE DEF s
<1>5. PlainList(s)
  BY <1>1, <1>4, PlainBuilt
<1>6. PICK e : e = <<>> /\ IsList(e) /\ ToSet(e) = {}
  BY SmallLists
<1>7. IsList(AddAll(e, s)) /\ ToSet(AddAll(e, s)) = ToSet(e) \cup ToSet(s)
  BY <1>5, <1>6, AddAllIs DEF PlainList
<1> QED BY <1>3, <1>5, <1>6, <1>7 DEF PlainList

LEMMA BodyPlain == ASSUME action \in Actions PROVE PlainList(BodyResponses)
<1> DEFINE s == [i \in DOMAIN action.answers |-> Answer(action.answers[i])]
           ex == IF Http = None THEN None ELSE Http.explicit
           none == Response("no_content", HttpStatus(None), ex, "noContent", "noContent", None)
<1>1. PlainList(s)
  <2>1. DOMAIN action.answers = 1 .. Len(action.answers) /\ Len(action.answers) \in Nat
    BY ActionIs, ListIs
  <2>2. s = [i \in 1 .. Len(action.answers) |-> s[i]] /\ \A i \in 1 .. Len(action.answers) : Plain(s[i])
    BY <2>1, AnswersPlain
  <2> HIDE DEF s
  <2> QED BY <2>1, <2>2, PlainBuilt
<1>2. PlainList(<<none>>)
  <2>1. HttpStatus(None) \in Code
    BY HttpIs, CodesAre
  <2> HIDE DEF ex
  <2>2. Plain(none)
    BY <2>1, NamesAre, PlainIs
  <2> HIDE DEF none
  <2> QED BY <2>2, SmallLists DEF PlainList
<1>3. BodyResponses = <<none>> \/ BodyResponses = s \o ErrorResponses
  BY DEF BodyResponses
<1> HIDE DEF s, none
<1> QED BY <1>1, <1>2, <1>3, ErrorsPlain, PlainCat

LEMMA UsageIs == ASSUME action \in Actions PROVE IsList(ResourceUsage)
<1> DEFINE of(form) == Picked(action.mentions,
                              {i \in DOMAIN action.mentions : action.mentions[i].method = form})
           text == of("response") \o of("collection") \o of("make") \o of("new")
           use(u) == IF u.method = "new" /\ u.class \in action.collections
                     THEN [u EXCEPT !.method = "collection"] ELSE u
           s == [i \in DOMAIN text |-> use(text[i])]
<1>1. ASSUME NEW form PROVE IsList(of(form))
  BY ActionIs, PickedList
<1> HIDE DEF of
<1>2. IsList(text)
  BY <1>1, CatLists
<1> HIDE DEF text
<1>3. DOMAIN text = 1 .. Len(text) /\ Len(text) \in Nat
  BY <1>2, ListIs
<1>4. s = [i \in 1 .. Len(text) |-> s[i]]
  BY <1>3
<1>5. ResourceUsage = AddAll(action.used, s)
  BY DEF ResourceUsage, text, of
<1> HIDE DEF s
<1>6. IsList(s)
  BY <1>3, <1>4, BuiltList
<1> QED BY <1>5, <1>6, ActionIs, AddAllIs

LEMMA OtherwisePlain == ASSUME action \in Actions PROVE PlainList(Otherwise(ResourceResponses))
<1> DEFINE ex == Http # None /\ Http.explicit
           of(u) == Response("json_object", HttpStatus(200), ex,
                             ResourceSource(u), ResourceSource(u), UsageSchemaOf(action, u))
           s == [i \in DOMAIN ResourceUsage |-> of(ResourceUsage[i])]
           other == Response("json_object", Http.status, Http.explicit, None, None, EmptyObject)
<1>1. ResourceResponses = s
  BY DEF ResourceResponses
<1>2. ASSUME NEW u PROVE Plain(of(u))
  <2>1. HttpStatus(200) \in Code
    BY HttpIs, CodesAre
  <2>2. ResourceSource(u) \in {"JsonResource", "JsonResource::collection", "JsonResource::response"}
    BY DEF ResourceSource
  <2> HIDE DEF ex
  <2> QED BY <2>1, <2>2, NamesAre, PlainIs
<1>3. PlainList(s)
  <2>1. DOMAIN ResourceUsage = 1 .. Len(ResourceUsage) /\ Len(ResourceUsage) \in Nat
    BY UsageIs, ListIs
  <2> HIDE DEF of
  <2>2. s = [i \in 1 .. Len(ResourceUsage) |-> s[i]] /\ \A i \in 1 .. Len(ResourceUsage) : Plain(s[i])
    BY <1>2, <2>1
  <2> HIDE DEF s
  <2> QED BY <2>1, <2>2, PlainBuilt
<1>4. PlainList(Fallback)
  <2>1. CASE Http = None
    <3>1. Fallback = <<>>
      BY <2>1 DEF Fallback
    <3> QED BY <3>1, SmallLists DEF PlainList
  <2>2. CASE Http # None
    <3>1. Fallback = <<other>>
      BY <2>2 DEF Fallback
    <3>2. Plain(other)
      BY <2>2, HttpIs, NamesAre, PlainIs
    <3> HIDE DEF other
    <3> QED BY <3>1, <3>2, SmallLists DEF PlainList
  <2> QED BY <2>1, <2>2
<1>5. Otherwise(ResourceResponses) = Fallback \/ Otherwise(ResourceResponses) = ResourceResponses
  BY DEF Otherwise
<1> HIDE DEF s
<1> QED BY <1>1, <1>3, <1>4, <1>5

\* From the step that adds a failure on, it is answered.
ResponseInv ==
    /\ WellAnswered(responses)
    /\ stage \in {"authorize", "routes"} => responses = <<>>
    /\ stage \in {"invalid", "order", "done"} =>
         (Enforcing # <<>> => Answered(responses, 403))
    /\ stage \in {"order", "done"} => (Validation # None => Answered(responses, 422))

LEMMA InitResponses == ASSUME Init PROVE ResponseInv
<1>1. responses = <<>> /\ stage = "authorize"
  BY DEF Init
<1>2. PICK e : e = <<>>
  OBVIOUS
<1>3. PlainList(e)
  BY <1>2, SmallLists DEF PlainList
<1>4. WellAnswered(e)
  BY <1>3, PlainAnswers
<1> QED BY <1>1, <1>2, <1>4 DEF ResponseInv

LEMMA SameEnforcing ==
    ASSUME action' = action, items' = items
    PROVE  /\ Enforcing' = Enforcing /\ \A rs : Answered(rs, 403)' = Answered(rs, 403)
           /\ \A rs : WellAnswered(rs)' = WellAnswered(rs)
<1>1. Enforcing' = Enforcing
  BY DEF Enforcing
<1>2. ASSUME NEW rs PROVE WellAnswered(rs)' = WellAnswered(rs)
  <2>1. ASSUME NEW x PROVE Reason(x)' = Reason(x)
    BY <1>1 DEF Reason, ValidatedBy, HasRules
  <2>2. Reasoned(rs)' = Reasoned(rs)
    BY <2>1 DEF Reasoned
  <2> QED BY <2>2 DEF WellAnswered, Single, Formed, Code
<1> QED BY <1>1, <1>2 DEF Answered

LEMMA SameValidation == ASSUME action' = action PROVE Validation' = Validation
BY DEF Validation, HasRules, Validates

\* What becomes of the responses, when no route is looked at any more.
LEMMA NewResponses ==
    ASSUME action' = action, items' = items, stage' \notin {"authorize", "routes"},
           NEW rs, responses' = rs, WellAnswered(rs),
           stage' \in {"invalid", "order", "done"} => (Enforcing # <<>> => Answered(rs, 403)),
           stage' \in {"order", "done"} => (Validation # None => Answered(rs, 422))
    PROVE  ResponseInv'
<1>1. WellAnswered(rs)' /\ Enforcing' = Enforcing /\ Validation' = Validation
  BY SameEnforcing, SameValidation
<1>2. \A st : Answered(rs, st)' = Answered(rs, st)
  BY DEF Answered
<1>3. Answered(responses, 403)' = Answered(rs, 403) /\ Answered(responses, 422)' = Answered(rs, 422)
  BY <1>2 DEF Answered
<1>4. WellAnswered(responses)'
  BY <1>1
<1> QED BY <1>1, <1>3, <1>4 DEF ResponseInv

LEMMA StepBody ==
    ASSUME action \in Actions, ResponseInv, AnswerBody \/ AnswerOtherwise
    PROVE  ResponseInv'
<1>1. action' = action /\ items' = items /\ stage' \in {"fallback", "forbidden"}
  BY DEF AnswerBody, AnswerOtherwise, request, avars
<1>2. PICK rs : rs = responses'
  OBVIOUS
<1>3. WellAnswered(rs)
  <2>1. CASE AnswerBody
    BY <1>2, <2>1, BodyPlain, PlainAnswers DEF AnswerBody
  <2>2. CASE AnswerOtherwise
    BY <1>2, <2>2, OtherwisePlain, PlainAnswers DEF AnswerOtherwise, ResponseInv
  <2> QED BY <2>1, <2>2
<1> QED BY <1>1, <1>2, <1>3, NewResponses

LEMMA EnforcingIs ==
    ASSUME AllWorded, Enforcing # <<>>
    PROVE  Head(Enforcing) \in ToSet(Enforcing) /\ Head(Enforcing).source \in Words
<1> DEFINE I == {i \in DOMAIN items : items[i].enforces /\ items[i].kind # "middleware"}
<1>1. IsList(Enforcing) /\ ToSet(Enforcing) = {items[i] : i \in I}
  BY PickedList DEF Enforcing, AllWorded
<1>2. Head(Enforcing) \in ToSet(Enforcing)
  BY <1>1, RestOfList
<1>3. \A x \in ToSet(Enforcing) : x.source \in Words
  BY <1>1, InToSet DEF AllWorded, Worded
<1> QED BY <1>2, <1>3

LEMMA StepForbidden ==
    ASSUME AllWorded, ResponseInv, AnswerForbidden
    PROVE  ResponseInv'
<1>1. action' = action /\ items' = items /\ stage = "forbidden" /\ stage' = "invalid"
  BY DEF AnswerForbidden, request, avars
<1>2. PICK s : s = responses
  OBVIOUS
<1>3. WellAnswered(s) /\ (Answers(403) <=> Answered(s, 403))
  BY <1>2 DEF ResponseInv, Answers, Answered
<1>4. CASE Answers(403) \/ Enforcing = <<>>
  <2>1. responses' = s
    BY <1>2, <1>4 DEF AnswerForbidden
  <2> QED BY <1>1, <1>3, <1>4, <2>1, NewResponses
<1>5. CASE ~(Answers(403) \/ Enforcing = <<>>)
  <2>1. PICK r : r = Failure(403, Head(Enforcing).source, "authorization")
    OBVIOUS
  <2>2. responses' = Append(s, r)
    BY <1>2, <1>5, <2>1 DEF AnswerForbidden
  <2>3. Head(Enforcing) \in ToSet(Enforcing) /\ Head(Enforcing).source \in Words
    BY <1>5, EnforcingIs
  <2>4. /\ r.via = "authorization" /\ r.status = 403 /\ r.source = Head(Enforcing).source
        /\ r.kind = "json_object"
    BY <2>1 DEF Failure, Response
  <2>5. Formed(r)
    BY <2>3, <2>4, NamesAre, CodesAre DEF Formed
  <2>6. PICK t : t = Append(s, r)
    OBVIOUS
  <2>7. WellAnswered(t) /\ Answered(t, 403)
    BY <1>3, <1>5, <2>3, <2>4, <2>5, <2>6, OneMore
  <2> QED BY <1>1, <2>2, <2>6, <2>7, NewResponses
<1> QED BY <1>4, <1>5

\* The source that is found is a reason, and one is found if there is a reason.
LEMMA ValidationIs ==
    ASSUME action \in Actions
    PROVE  /\ Validation # None => ValidatedBy(Validation)
           /\ \A source : ValidatedBy(source) => Validation # None
<1> DEFINE I == {i \in DOMAIN action.usage : Validates(action.usage[i])}
           first == action.usage[FirstOf(I)]
<1>1. None # "FormRequest" /\ None # "validate"
  BY NamesAre
<1>2. DOMAIN action.usage = 1 .. Len(action.usage) /\ Len(action.usage) \in Nat
  <2> DEFINE U == [method : STRING, class : STRING \cup {None}, paths : Seq(Paths)]
  <2>1. action.usage \in Seq(U)
    BY RequestAssumption DEF RequestAssumption
  <2> HIDE DEF U
  <2> QED BY <2>1
<1>3. Validation = IF I # {}
                   THEN IF first.method = "validate" THEN "validate" ELSE "FormRequest"
                   ELSE IF \E c \in action.params : HasRules(c) THEN "FormRequest" ELSE None
  BY DEF Validation
<1>4. CASE I # {}
  <2>1. FirstOf(I) \in I
    BY <1>2, <1>4, FirstAndLast
  <2>2. first \in ToSet(action.usage) /\ Validates(first)
    BY <2>1, InToSet
  <2> HIDE DEF first
  <2>3. ValidatedBy(Validation) /\ Validation # None
    BY <1>1, <1>3, <1>4, <2>2 DEF ValidatedBy, Validates
  <2> QED BY <2>3
<1>5. CASE I = {}
  <2>1. \A u \in ToSet(action.usage) : ~Validates(u)
    BY <1>5, InToSet
  <2>2. Validation # None <=> \E c \in action.params : HasRules(c)
    BY <1>1, <1>3, <1>5
  <2>3. Validation # None => Validation = "FormRequest"
    BY <1>3, <1>5
  <2> QED BY <1>1, <2>1, <2>2, <2>3 DEF ValidatedBy, Validates
<1> QED BY <1>4, <1>5

LEMMA StepInvalid ==
    ASSUME action \in Actions, ResponseInv, AnswerInvalid
    PROVE  ResponseInv'
<1>1. action' = action /\ items' = items /\ stage = "invalid" /\ stage' = "order"
  BY DEF AnswerInvalid, request, avars
<1>2. PICK s : s = responses
  OBVIOUS
<1>3. /\ WellAnswered(s) /\ (Answers(422) <=> Answered(s, 422))
      /\ Enforcing # <<>> => Answered(s, 403)
  BY <1>1, <1>2 DEF ResponseInv, Answers, Answered
<1>4. CASE Answers(422) \/ Validation = None
  <2>1. responses' = s
    BY <1>2, <1>4 DEF AnswerInvalid
  <2> QED BY <1>1, <1>3, <1>4, <2>1, NewResponses
<1>5. CASE ~(Answers(422) \/ Validation = None)
  <2>1. PICK r : r = Failure(422, Validation, "validation")
    OBVIOUS
  <2>2. responses' = Append(s, r)
    BY <1>2, <1>5, <2>1 DEF AnswerInvalid
  <2>3. Validation \in Words
    BY NamesAre DEF Validation
  <2>4. /\ r.via = "validation" /\ r.status = 422 /\ r.source = Validation /\ r.kind = "json_object"
    BY <2>1 DEF Failure, Response
  <2>5. Formed(r)
    BY <2>3, <2>4, NamesAre, CodesAre DEF Formed
  <2>6. PICK t : t = Append(s, r)
    OBVIOUS
  <2>9. ValidatedBy(r.source)
    BY <1>5, <2>4, ValidationIs
  <2>7. WellAnswered(t) /\ Answered(t, 422) /\ (Answered(s, 403) => Answered(t, 403))
    BY <1>3, <1>5, <2>4, <2>5, <2>6, <2>9, OneMore
  <2>8. responses' = t /\ (Enforcing # <<>> => Answered(t, 403))
    BY <1>3, <2>2, <2>6, <2>7
  <2> QED BY <1>1, <2>7, <2>8, NewResponses
<1> QED BY <1>4, <1>5

LEMMA StepOrder ==
    ASSUME ResponseInv, OrderResponses
    PROVE  ResponseInv'
<1>1. /\ action' = action /\ items' = items /\ stage = "order" /\ stage' = "done"
      /\ responses' = Ordered(FirstOfEach(responses))
  BY DEF OrderResponses, request, avars
<1>2. PICK s, f, t : s = responses /\ f = FirstOfEach(s) /\ t = Ordered(f)
  OBVIOUS
<1>3. /\ WellAnswered(s)
      /\ Enforcing # <<>> => Answered(s, 403)
      /\ Validation # None => Answered(s, 422)
  BY <1>1, <1>2 DEF ResponseInv
<1>4. WellAnswered(f) /\ \A st : Answered(s, st) => Answered(f, st)
  BY <1>2, <1>3, FirstsAnswer
<1>5. WellAnswered(t) /\ ToSet(t) = ToSet(f)
  BY <1>2, <1>4, OrderedAnswers
<1>6. \A st : Answered(s, st) => Answered(t, st)
  BY <1>4, <1>5 DEF Answered
<1> QED BY <1>1, <1>2, <1>3, <1>5, <1>6, NewResponses

LEMMA StepResponses ==
    ASSUME AuthInv, ResponseInv, [Next]_cvars
    PROVE  ResponseInv'
<1>1. action \in Actions /\ AllWorded
  BY DEF AuthInv
<1>2. CASE AnswerBody \/ AnswerOtherwise
  BY <1>1, <1>2, StepBody
<1>3. CASE AnswerForbidden
  BY <1>1, <1>3, StepForbidden
<1>4. CASE AnswerInvalid
  BY <1>1, <1>4, StepInvalid
<1>5. CASE OrderResponses
  BY <1>5, StepOrder
<1>6. CASE ExplicitAuthorization \/ RouteAuthorization \/ SortAuthorization
  <2>1. /\ action' = action /\ responses' = responses /\ responses = <<>>
        /\ stage' \in {"routes", "request"}
    BY <1>6 DEF ExplicitAuthorization, RouteAuthorization, SortAuthorization, ResponseInv, request
  <2>2. PICK e : e = <<>>
    OBVIOUS
  <2>3. PlainList(e)
    BY <2>2, SmallLists DEF PlainList
  <2>4. \A i \in DOMAIN e : FALSE
    BY <2>2
  <2>5. WellAnswered(e)'
    BY <2>3, <2>4 DEF WellAnswered, Single, Reasoned, Reason, PlainList
  <2> QED BY <2>1, <2>2, <2>5 DEF ResponseInv
<1>7. CASE RNext /\ UNCHANGED <<avars, responses>>
  <2>1. /\ action' = action /\ items' = items /\ responses' = responses
        /\ stage' \in {"register", "body"}
    BY <1>7 DEF RNext, BeginRequest, Register, EndRequest, avars
  <2>2. PICK s : s = responses
    OBVIOUS
  <2> QED BY <2>1, <2>2, NewResponses DEF ResponseInv
<1>8. CASE UNCHANGED cvars
  <2>1. action' = action /\ items' = items /\ responses' = responses /\ stage' = stage
    BY <1>8 DEF cvars
  <2>2. PICK s : s = responses
    OBVIOUS
  <2>3. stage \notin {"authorize", "routes"} => ResponseInv'
    BY <2>1, <2>2, NewResponses DEF ResponseInv
  <2>4. ASSUME stage \in {"authorize", "routes"} PROVE ResponseInv'
    <3>1. WellAnswered(s)' /\ s = <<>>
      BY <2>1, <2>2, <2>4, SameEnforcing DEF ResponseInv
    <3> QED BY <2>1, <2>2, <2>4, <3>1 DEF ResponseInv
  <2> QED BY <2>3, <2>4
<1> QED BY <1>2, <1>3, <1>4, <1>5, <1>6, <1>7, <1>8 DEF Next, Done

LEMMA AtMostOne ==
    ASSUME NEW S, \A x, y \in S : x = y
    PROVE  Cardinality(S) <= 1
<1>1. CASE S = {}
  BY <1>1, FS_EmptySet
<1>2. CASE S # {}
  <2>1. PICK x : S = {x}
    BY <1>2
  <2> QED BY <2>1, FS_Singleton
<1> QED BY <1>1, <1>2

LEMMA FailuresShown ==
    ASSUME RequestInv, ResponseInv
    PROVE  FailuresAnswered
<1> SUFFICES ASSUME stage = "done" PROVE FailuresAnswered
  BY DEF FailuresAnswered
<1> DEFINE added(via) == {i \in DOMAIN responses : responses[i].via = via}
           answered == {r.status : r \in ToSet(responses)}
           alone(i) == \A h \in DOMAIN responses \ {i} : responses[h].status # responses[i].status
<1>1. /\ Single(responses, "authorization", 403) /\ Single(responses, "validation", 422)
      /\ Reasoned(responses)
      /\ Enforcing # <<>> => Answered(responses, 403)
      /\ Validation # None => Answered(responses, 422)
  BY DEF ResponseInv, WellAnswered
<1>2. Enforcing # <<>> => 403 \in answered
  BY <1>1 DEF Answered
<1>3. ASSUME NEW k \in DOMAIN fields, fields[k].source \in {"form", "validate"}
      PROVE  422 \in answered
  <2>1. \E i \in DOMAIN action.usage : Validates(action.usage[i])
    BY <1>3 DEF RequestInv, Sources, Checked
  <2>2. Validation = "validate" \/ Validation = "FormRequest"
    BY <2>1 DEF Validation
  <2> QED BY <1>1, <2>2, NamesAre DEF Answered
<1>4. ASSUME NEW source, ValidatedBy(source) PROVE 422 \in answered
  <2>1. Validation # None
    BY <1>4, ValidationIs DEF RequestInv
  <2> QED BY <1>1, <2>1 DEF Answered
<1>5. ASSUME NEW via, NEW st, Single(responses, via, st) PROVE Cardinality(added(via)) <= 1
  <2>1. \A x, y \in added(via) : x = y
    BY <1>5 DEF Single
  <2> QED BY <2>1, AtMostOne
<1>6. \A via \in {"authorization", "validation"} : Cardinality(added(via)) <= 1
  BY <1>1, <1>5
<1>7. ASSUME NEW i \in added("authorization")
      PROVE  /\ responses[i].status = 403 /\ alone(i)
             /\ \E a \in ToSet(Enforcing) : a.source = responses[i].source
  BY <1>1, <1>7 DEF Single, Reasoned, Reason
<1>8. ASSUME NEW i \in added("validation")
      PROVE  /\ responses[i].status = 422 /\ alone(i)
             /\ ValidatedBy(responses[i].source)
  BY <1>1, <1>8 DEF Single, Reasoned, Reason
<1> HIDE DEF added, answered, alone
<1>9. /\ Enforcing # <<>> => 403 \in answered
      /\ (\E source \in {"validate", "FormRequest"} : ValidatedBy(source)) => 422 \in answered
      /\ (\E k \in DOMAIN fields : fields[k].source \in {"form", "validate"}) => 422 \in answered
      /\ \A via \in {"authorization", "validation"} : Cardinality(added(via)) <= 1
      /\ \A i \in added("authorization") :
           /\ responses[i].status = 403 /\ alone(i)
           /\ \E a \in ToSet(Enforcing) : a.source = responses[i].source
      /\ \A i \in added("validation") :
           /\ responses[i].status = 422 /\ alone(i)
           /\ ValidatedBy(responses[i].source)
  BY <1>2, <1>3, <1>4, <1>6, <1>7, <1>8
<1> QED BY <1>9 DEF FailuresAnswered, added, answered, alone

\* What enforces an authorization is answered with 403 and what asks for a validation
\* with 422; an added failure is there once, alone with its status, and for a reason
\* that the action has, whatever else it answers.
THEOREM FailuresAnsweredAlways == Spec => []FailuresAnswered
<1>1. RequestInv /\ ResponseInv => FailuresAnswered
  BY FailuresShown
<1> QED BY <1>1, InitRequest, StepRequest, InitAuth, StepAuth, InitResponses, StepResponses,
          PTL DEF Spec
=============================================================================
