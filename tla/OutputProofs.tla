---------------------------- MODULE OutputProofs ----------------------------
(***************************************************************************)
(* The reduction of manifest mode, for every project: it loses nothing and *)
(* invents nothing (NothingLost), shows exactly what the routes files name *)
(* (RoutedMethodsShown) and the channels (ChannelsFound), keeps its orders *)
(* (MethodsFollowRoutes, RootsFirst), agrees with request mode on the same *)
(* result (ModesAgree) and ends (Ends).                                    *)
(*                                                                         *)
(* First come lemmas about the operators: lists without repetition, the    *)
(* facts of one file, merging one more method or model, ordering.  Then    *)
(*   MergeInv   what is merged so far is what was met so far;              *)
(*   WalkInv    and the calls to come are calls (termination);             *)
(*   FactsInv   and the facts are those of the files' texts;               *)
(*   OrderInv   and the walk over the models has met what it must,         *)
(* each followed by the theorems that rest on it.                          *)
(***************************************************************************)
EXTENDS ContractDelta, SortingProofs

-----------------------------------------------------------------------------
\* Vec::dedup_by loses no element.
LEMMA DropRepeatsIs ==
    ASSUME NEW S, NEW s \in Seq(S)
    PROVE  DropRepeats(s) \in Seq(S) /\ ToSet(DropRepeats(s)) = ToSet(s)
<1> DEFINE I == {i \in DOMAIN s : i = 1 \/ s[i] # s[i - 1]}
<1>0. /\ DropRepeats(s) = Picked(s, I) /\ DOMAIN s = 1 .. Len(s) /\ Len(s) \in Nat
      /\ I \in SUBSET DOMAIN s
  BY DEF DropRepeats
<1>1. ASSUME NEW i \in DOMAIN s PROVE \E f \in I : s[f] = s[i]
  <2> DEFINE J == {k \in 1 .. Len(s) : s[k] = s[i]}
             f == FirstOf(J)
  <2>1. J \in SUBSET (1 .. Len(s)) /\ J # {}
    BY <1>0
  <2>2. f \in J /\ \A k \in J : f <= k
    BY <1>0, <2>1, FirstAndLast
  <2> HIDE DEF f
  <2>3. f \in 1 .. Len(s) /\ s[f] = s[i]
    BY <2>2
  <2>4. f # 1 => f - 1 \in 1 .. Len(s) /\ ~(f <= f - 1)
    BY <1>0, <2>3
  <2>5. f # 1 => s[f - 1] # s[i]
    BY <2>2, <2>4
  <2>6. f \in I
    BY <1>0, <2>3, <2>5
  <2> QED BY <2>3, <2>6
<1> HIDE DEF I
<1>2. Picked(s, I) \in Seq(S) /\ ToSet(Picked(s, I)) = {s[i] : i \in I}
  BY <1>0, PickedElements
<1> QED BY <1>0, <1>1, <1>2, ToSetIs, SMTT(30)

-----------------------------------------------------------------------------
(* The facts of one file.                                                  *)

\* What is known of a method, a relation, a model, a polymorphic relation, a
\* channel and a file.
ControllerFacts == [fqcn : Names, method : Names, status : Nat, scopes : Seq(Names)]
RelationFacts == [name : Names, type : STRING, related : Names \cup {None},
                  morph : Names \cup Morphs \cup {None}, pivot : SUBSET Names]
AllModelFacts == [fqcn : Names, scopes : SUBSET Names, rels : Seq(RelationFacts)]
AllMorphFacts == [model : Names, relation : Names]
BroadcastFacts == [channel : Names, type : {None, "public", "private", "presence"}]
FileFacts == [path : Names, controllers : Seq(ControllerFacts), models : Seq(AllModelFacts),
              polymorphic : [Morphs -> Seq(AllMorphFacts)], broadcast : Seq(BroadcastFacts),
              source : Texts]

\* Sorting by names keeps the elements.
LEMMA ByNameElements ==
    ASSUME NEW S, NEW s \in Seq(S), NEW field, \A x \in S : x[field] \in Names
    PROVE  ByName(s, field) \in Seq(S) /\ ToSet(ByName(s, field)) = ToSet(s)
<1> DEFINE k == [i \in DOMAIN s |-> Rank[s[i][field]]]
<1>0. ByName(s, field) = SortedBy(s, k)
  BY DEF ByName
<1>1. k \in [DOMAIN s -> Nat]
  BY NamesAssumption DEF Names
<1> HIDE DEF k
<1> QED BY <1>0, <1>1, SortedElements

LEMMA ByNamesElements ==
    ASSUME NEW S, NEW s \in Seq(S), NEW minor, NEW major,
           \A x \in S : x[minor] \in Names /\ x[major] \in Names
    PROVE  /\ ByNames(s, minor, major) \in Seq(S)
           /\ ToSet(ByNames(s, minor, major)) = ToSet(s)
<1>1. ByName(s, minor) \in Seq(S) /\ ToSet(ByName(s, minor)) = ToSet(s)
  BY ByNameElements
<1>2. Strict(ByName(s, minor)) = ByName(s, minor)
  BY <1>1, StrictSame
<1> QED BY <1>1, <1>2, ByNameElements DEF ByNames

LEMMA ControllersAre ==
    ASSUME NEW f \in Texts
    PROVE  /\ Controllers(f) \in Seq(ControllerFacts)
           /\ \A x : x \in ToSet(Controllers(f)) <=>
                 \E c \in ToSet(f.classes) : \E m \in ToSet(c.methods) :
                   c.controller /\ Answering(m) /\ x = ControllerMethod(c, m)
<1> DEFINE of(c) == Picked([k \in DOMAIN c.methods |-> ControllerMethod(c, c.methods[k])],
                           {k \in DOMAIN c.methods : Answering(c.methods[k])})
           I == {i \in DOMAIN f.classes : f.classes[i].controller}
           each == [i \in DOMAIN f.classes |-> of(f.classes[i])]
           all == Flattened(Picked(each, I))
<1>0. Controllers(f) = ByNames(all, "method", "fqcn")
  BY DEF Controllers
<1>1. ASSUME NEW c \in Classes
      PROVE  /\ of(c) \in Seq(ControllerFacts)
             /\ \A x : x \in ToSet(of(c)) <=>
                   \E m \in ToSet(c.methods) : Answering(m) /\ x = ControllerMethod(c, m)
  <2> DEFINE s == [k \in DOMAIN c.methods |-> ControllerMethod(c, c.methods[k])]
             J == {k \in DOMAIN c.methods : Answering(c.methods[k])}
  <2>1. c.fqcn \in Names /\ c.methods \in Seq(Methods)
    BY DEF Classes
  <2>2. ASSUME NEW m \in Methods PROVE ControllerMethod(c, m) \in ControllerFacts
    <3>1. m.name \in Names /\ m.status \in Nat /\ m.calls \in Seq(Names)
      BY DEF Methods
    <3>2. Dedup(m.calls) \in Seq(Names)
      BY <3>1, DedupIs
    <3> QED BY <2>1, <3>1, <3>2 DEF ControllerMethod, ControllerFacts
  <2>3. /\ s \in Seq(ControllerFacts) /\ J \in SUBSET DOMAIN s
        /\ \A k \in DOMAIN c.methods : s[k] = ControllerMethod(c, c.methods[k])
    BY <2>1, <2>2
  <2>4. \A k : k \in J <=> k \in DOMAIN c.methods /\ Answering(c.methods[k])
    OBVIOUS
  <2> HIDE DEF s, J
  <2>5. Picked(s, J) \in Seq(ControllerFacts) /\ ToSet(Picked(s, J)) = {s[k] : k \in J}
    BY <2>3, PickedElements
  <2>6. ToSet(c.methods) = {c.methods[k] : k \in DOMAIN c.methods}
    BY ToSetIs
  <2>7. \A x : x \in ToSet(Picked(s, J)) <=>
          \E m \in ToSet(c.methods) : Answering(m) /\ x = ControllerMethod(c, m)
    BY <2>3, <2>4, <2>5, <2>6
  <2> QED BY <2>5, <2>7 DEF s, J
<1> HIDE DEF of
<1>2. f.classes \in Seq(Classes)
  BY DEF Texts
<1>3. /\ each \in Seq(Seq(ControllerFacts)) /\ I \in SUBSET DOMAIN each
      /\ \A i \in DOMAIN f.classes : each[i] = of(f.classes[i]) /\ f.classes[i] \in Classes
  <2>1. \A i \in DOMAIN f.classes : of(f.classes[i]) \in Seq(ControllerFacts) /\ f.classes[i] \in Classes
    BY <1>1, <1>2
  <2>2. DOMAIN f.classes = 1 .. Len(f.classes) /\ Len(f.classes) \in Nat
    BY <1>2
  <2> QED BY <2>1, <2>2
<1>4. \A i : i \in I <=> i \in DOMAIN f.classes /\ f.classes[i].controller
  OBVIOUS
<1> HIDE DEF each, I
<1>5. /\ all \in Seq(ControllerFacts)
      /\ \A x : x \in ToSet(all) <=> \E i \in I : x \in ToSet(each[i])
  BY <1>3, FlatPickedElements
<1> HIDE DEF all
<1>6. \A x \in ControllerFacts : x["method"] \in Names /\ x["fqcn"] \in Names
  BY DEF ControllerFacts
<1>7. /\ ByNames(all, "method", "fqcn") \in Seq(ControllerFacts)
      /\ ToSet(ByNames(all, "method", "fqcn")) = ToSet(all)
  BY <1>5, <1>6, ByNamesElements
<1>8. ToSet(f.classes) = {f.classes[i] : i \in DOMAIN f.classes}
  BY ToSetIs
<1>9. \A x : x \in ToSet(all) <=>
        \E c \in ToSet(f.classes) : \E m \in ToSet(c.methods) :
          c.controller /\ Answering(m) /\ x = ControllerMethod(c, m)
  <2>1. TAKE x
  <2>2. x \in ToSet(all) <=> \E i \in DOMAIN f.classes : f.classes[i].controller /\ x \in ToSet(of(f.classes[i]))
    BY <1>3, <1>4, <1>5
  <2>3. x \in ToSet(all) <=> \E c \in ToSet(f.classes) : c.controller /\ x \in ToSet(of(c))
    BY <1>8, <2>2
  <2>4. \A c \in ToSet(f.classes) :
          x \in ToSet(of(c)) <=> \E m \in ToSet(c.methods) : Answering(m) /\ x = ControllerMethod(c, m)
    BY <1>1, <1>3, <1>8
  <2> QED BY <2>3, <2>4
<1> QED BY <1>0, <1>7, <1>9

LEMMA ModelFactsTyped ==
    ASSUME NEW c \in Classes PROVE ModelFacts(c) \in AllModelFacts
<1> DEFINE methods == Picked(c.methods, Relating(c))
<1>1. c.fqcn \in Names /\ c.scopes \in SUBSET Names /\ c.methods \in Seq(Methods)
  BY DEF Classes
<1> DEFINE S == {m \in Methods : m.relation # None}
<1>2. ASSUME NEW m \in S PROVE Relationship(m) \in RelationFacts
  <2>1. m.name \in Names /\ m.relation \in Relations
    BY DEF Methods
  <2>2. /\ m.relation.type \in STRING /\ m.relation.class \in Names \cup {None}
        /\ m.relation.morph \in Morphs \cup {None} /\ m.relation.pivot \in SUBSET Names
    BY <2>1 DEF Relations
  <2> QED BY <2>1, <2>2 DEF Relationship, RelationFacts
<1>3. methods \in Seq(Methods) /\ ToSet(methods) = {c.methods[k] : k \in Relating(c)}
  <2>1. Relating(c) \in SUBSET DOMAIN c.methods
    BY DEF Relating
  <2> QED BY <1>1, <2>1, PickedElements
<1>4. \A k \in DOMAIN methods : methods[k] \in S
  <2>1. \A k \in DOMAIN methods : methods[k] \in ToSet(methods) /\ methods[k] \in Methods
    <3> HIDE DEF methods
    <3>1. ToSet(methods) = {methods[k] : k \in DOMAIN methods}
      BY ToSetIs
    <3>2. \A k \in DOMAIN methods : methods[k] \in ToSet(methods)
      BY <3>1
    <3>3. \A k \in DOMAIN methods : methods[k] \in Methods
      BY <1>3
    <3> QED BY <3>2, <3>3
  <2> QED BY <1>3, <2>1 DEF Relating
<1>5. DOMAIN methods = 1 .. Len(methods) /\ Len(methods) \in Nat
  BY <1>3
<1> DEFINE rels == [k \in DOMAIN methods |-> Relationship(methods[k])]
<1>6. rels \in Seq(RelationFacts)
  BY <1>2, <1>4, <1>5
<1>7. ModelFacts(c) = [fqcn |-> c.fqcn, scopes |-> c.scopes, rels |-> rels]
  BY DEF ModelFacts
<1> HIDE DEF rels
<1> QED BY <1>1, <1>6, <1>7 DEF AllModelFacts

LEMMA ModelsTyped ==
    ASSUME NEW f \in Texts PROVE Models(f) \in Seq(AllModelFacts)
<1> DEFINE I == {i \in DOMAIN f.classes : f.classes[i].model}
           ms == Picked(f.classes, I)
           sorted == ByName(ms, "fqcn")
<1>1. f.classes \in Seq(Classes) /\ I \in SUBSET DOMAIN f.classes
  BY DEF Texts
<1> HIDE DEF I
<1>2. ms \in Seq(Classes)
  BY <1>1, PickedElements
<1>3. \A c \in Classes : c["fqcn"] \in Names
  BY DEF Classes
<1> HIDE DEF ms
<1>4. sorted \in Seq(Classes) /\ DOMAIN sorted = DOMAIN ms
  <2> DEFINE k == [i \in DOMAIN ms |-> Rank[ms[i]["fqcn"]]]
  <2>1. k \in [DOMAIN ms -> Nat]
    BY <1>2, <1>3, NamesAssumption DEF Names
  <2>2. sorted = SortedBy(ms, k)
    BY DEF ByName
  <2> HIDE DEF k, sorted
  <2> QED BY <1>2, <2>1, <2>2, SortedElements
<1>5. Models(f) = [i \in DOMAIN ms |-> ModelFacts(sorted[i])]
  BY DEF Models, ms, I
<1> HIDE DEF sorted
<1>6. \A i \in DOMAIN ms : ModelFacts(sorted[i]) \in AllModelFacts
  BY <1>4, ModelFactsTyped
<1>7. DOMAIN ms = 1 .. Len(ms) /\ Len(ms) \in Nat
  BY <1>2
<1> QED BY <1>5, <1>6, <1>7

LEMMA MorphFactsTyped ==
    ASSUME NEW ms \in Seq(AllModelFacts), NEW n \in Morphs
    PROVE  MorphFacts(ms, n) \in Seq(AllMorphFacts)
<1> DEFINE of(m) == Picked([k \in DOMAIN m.rels |->
                              [model |-> m.fqcn, relation |-> m.rels[k].name]],
                           {k \in DOMAIN m.rels : IsMorph(m.rels[k], n)})
           each == [i \in DOMAIN ms |-> of(ms[i])]
           all == Flattened(each)
<1>1. ASSUME NEW m \in AllModelFacts PROVE of(m) \in Seq(AllMorphFacts)
  <2> DEFINE s == [k \in DOMAIN m.rels |-> [model |-> m.fqcn, relation |-> m.rels[k].name]]
             J == {k \in DOMAIN m.rels : IsMorph(m.rels[k], n)}
  <2>1. m.fqcn \in Names /\ m.rels \in Seq(RelationFacts)
    BY DEF AllModelFacts
  <2>2. \A k \in DOMAIN m.rels : m.rels[k].name \in Names
    <3>1. \A k \in DOMAIN m.rels : m.rels[k] \in RelationFacts
      BY <2>1
    <3>2. \A r \in RelationFacts : r.name \in Names
      BY DEF RelationFacts
    <3> QED BY <3>1, <3>2
  <2>3. s \in Seq(AllMorphFacts) /\ J \in SUBSET DOMAIN s
    <3>1. \A k \in DOMAIN m.rels : [model |-> m.fqcn, relation |-> m.rels[k].name] \in AllMorphFacts
      BY <2>1, <2>2 DEF AllMorphFacts
    <3>2. DOMAIN m.rels = 1 .. Len(m.rels) /\ Len(m.rels) \in Nat
      BY <2>1
    <3> QED BY <3>1, <3>2
  <2> HIDE DEF s, J
  <2>4. Picked(s, J) \in Seq(AllMorphFacts)
    BY <2>3, PickedElements
  <2> QED BY <2>4 DEF s, J
<1>2. MorphFacts(ms, n) = ByNames(all, "relation", "model")
  BY DEF MorphFacts
<1> HIDE DEF of
<1>3. each \in Seq(Seq(AllMorphFacts))
  <2>1. \A i \in DOMAIN ms : of(ms[i]) \in Seq(AllMorphFacts)
    BY <1>1
  <2>2. DOMAIN ms = 1 .. Len(ms) /\ Len(ms) \in Nat
    OBVIOUS
  <2> QED BY <2>1, <2>2
<1> HIDE DEF each
<1>4. all \in Seq(AllMorphFacts)
  BY <1>3, FlattenedElements
<1> HIDE DEF all
<1>5. \A x \in AllMorphFacts : x["relation"] \in Names /\ x["model"] \in Names
  BY DEF AllMorphFacts
<1>6. ByNames(all, "relation", "model") \in Seq(AllMorphFacts)
  BY <1>4, <1>5, ByNamesElements
<1> QED BY <1>2, <1>6

LEMMA BroadcastsTyped ==
    ASSUME NEW cs \in Seq(ChannelCalls) PROVE Broadcasts(cs) \in Seq(BroadcastFacts)
<1> DEFINE type(i) == IF i \in Found(cs) THEN cs[FirstOf(NextCallback(cs, i))].callback
                                         ELSE None
           s == [i \in DOMAIN cs |-> [channel |-> cs[i].name, type |-> type(i)]]
           J == {i \in Found(cs) : \A k \in Found(cs) : k < i => cs[k].name # cs[i].name}
<1>1. /\ DOMAIN cs = 1 .. Len(cs) /\ Len(cs) \in Nat
      /\ \A i \in DOMAIN cs : cs[i] \in ChannelCalls
  OBVIOUS
<1>c. \A c \in ChannelCalls : /\ c.name \in Names
                               /\ c.callback \in {None, "public", "private", "presence"}
  BY DEF ChannelCalls
<1>2. ASSUME NEW i \in DOMAIN cs
      PROVE  cs[i].name \in Names /\ type(i) \in {None, "public", "private", "presence"}
  <2>1. cs[i].name \in Names
    BY <1>1, <1>c
  <2>2. CASE i \notin Found(cs)
    BY <2>1, <2>2
  <2>3. CASE i \in Found(cs)
    <3>1. NextCallback(cs, i) \in SUBSET (1 .. Len(cs)) /\ NextCallback(cs, i) # {}
      BY <2>3, <1>1 DEF Found, NextCallback
    <3>2. FirstOf(NextCallback(cs, i)) \in DOMAIN cs
      BY <1>1, <3>1, FirstAndLast
    <3>3. cs[FirstOf(NextCallback(cs, i))].callback \in {None, "public", "private", "presence"}
      BY <1>1, <1>c, <3>2
    <3> QED BY <2>1, <2>3, <3>3
  <2> QED BY <2>2, <2>3
<1>3. Broadcasts(cs) = Picked(s, J)
  BY DEF Broadcasts
<1> HIDE DEF type
<1>4. \A i \in DOMAIN cs : [channel |-> cs[i].name, type |-> type(i)] \in BroadcastFacts
  BY <1>2 DEF BroadcastFacts
<1>5. s \in Seq(BroadcastFacts) /\ J \in SUBSET DOMAIN s
  BY <1>1, <1>4 DEF Found
<1> HIDE DEF s, J
<1>6. Picked(s, J) \in Seq(BroadcastFacts)
  BY <1>5, PickedElements
<1> QED BY <1>3, <1>6

\* The facts of a file have their types.
LEMMA AnalyzeFileTyped ==
    ASSUME NEW f \in Texts PROVE AnalyzeFile(f) \in FileFacts
<1>1. f.path \in Names /\ f.channels \in Seq(ChannelCalls)
  BY DEF Texts
<1>2. Controllers(f) \in Seq(ControllerFacts) /\ Models(f) \in Seq(AllModelFacts)
  BY ControllersAre, ModelsTyped
<1>3. [n \in Morphs |-> MorphFacts(Models(f), n)] \in [Morphs -> Seq(AllMorphFacts)]
  BY <1>2, MorphFactsTyped
<1>4. Broadcasts(f.channels) \in Seq(BroadcastFacts)
  BY <1>1, BroadcastsTyped
<1> QED BY <1>1, <1>2, <1>3, <1>4 DEF AnalyzeFile, FileFacts

LEMMA AppendElements ==
    ASSUME NEW S, NEW s \in Seq(S), NEW x \in S
    PROVE  /\ Append(s, x) \in Seq(S) /\ Len(Append(s, x)) = Len(s) + 1
           /\ DOMAIN Append(s, x) = DOMAIN s \cup {Len(s) + 1}
           /\ \A i \in DOMAIN s : Append(s, x)[i] = s[i]
           /\ Append(s, x)[Len(s) + 1] = x
           /\ ToSet(Append(s, x)) = ToSet(s) \cup {x}
<1> DEFINE t == Append(s, x)
<1>1. /\ t \in Seq(S) /\ Len(t) = Len(s) + 1 /\ Len(s) \in Nat
      /\ DOMAIN t = 1 .. Len(s) + 1 /\ DOMAIN s = 1 .. Len(s)
      /\ \A i \in 1 .. Len(s) : t[i] = s[i]
      /\ t[Len(s) + 1] = x
  OBVIOUS
<1> HIDE DEF t
<1>2. DOMAIN t = DOMAIN s \cup {Len(s) + 1}
  BY <1>1
<1>3. {t[i] : i \in DOMAIN t} = {s[i] : i \in DOMAIN s} \cup {x}
  BY <1>1, <1>2
<1>4. ToSet(t) = ToSet(s) \cup {x}
  BY <1>3, ToSetIs
<1> QED BY <1>1, <1>2, <1>4 DEF t

LEMMA JoinElements ==
    ASSUME NEW S, NEW s \in Seq(S), NEW t \in Seq(S)
    PROVE  s \o t \in Seq(S) /\ ToSet(s \o t) = ToSet(s) \cup ToSet(t)
<1> DEFINE u == s \o t
<1>1. /\ u \in Seq(S) /\ DOMAIN u = 1 .. Len(s) + Len(t) /\ DOMAIN s = 1 .. Len(s)
      /\ DOMAIN t = 1 .. Len(t) /\ Len(s) \in Nat /\ Len(t) \in Nat
      /\ \A i \in 1 .. Len(s) : u[i] = s[i]
      /\ \A i \in 1 .. Len(t) : u[i + Len(s)] = t[i]
  OBVIOUS
<1> HIDE DEF u
<1>2. \A i \in DOMAIN s : i \in DOMAIN u
  BY <1>1
<1>3. \A i \in DOMAIN t : i + Len(s) \in DOMAIN u
  BY <1>1
<1>4. \A i \in DOMAIN u : i \in DOMAIN s \/ (i - Len(s) \in DOMAIN t /\ i = i - Len(s) + Len(s))
  BY <1>1
<1>5. \A i \in DOMAIN u : (\E k \in DOMAIN s : u[i] = s[k]) \/ (\E k \in DOMAIN t : u[i] = t[k])
  BY <1>1, <1>4
<1>6. {u[i] : i \in DOMAIN u} = {s[i] : i \in DOMAIN s} \cup {t[i] : i \in DOMAIN t}
  BY <1>1, <1>2, <1>3, <1>5
<1>7. ToSet(u) = ToSet(s) \cup ToSet(t)
  BY <1>6, ToSetIs
<1> QED BY <1>1, <1>7 DEF u

-----------------------------------------------------------------------------
(* Merging one more method or model into the entries.                      *)

\* The entries that the cells in done make, when key[q] is the class and the file
\* of cell q and out[q], rels[q] is what it adds to them.
MethodEntries(out) ==
    [fqcn : Names, file : Names, methods : Seq({out[q] : q \in DOMAIN out})]
\* One entry per class and file, with as many methods as there are cells for it.
MergedMethods(cs, done, key, out) ==
    /\ cs \in Seq(MethodEntries(out)) /\ OncePerKey(cs)
    /\ Keys(cs) = {key[q] : q \in done}
    /\ \A i \in DOMAIN cs :
         LET of == {q \in done : key[q] = Key(cs[i])}
         IN  /\ Len(cs[i].methods) = Cardinality(of)
             /\ ToSet(cs[i].methods) = {out[q] : q \in of}

\* AddMethod, of a method that is kept.
JoinMethod(cs, fqcn, file, x) ==
    LET at == Entry(cs, fqcn, file)
    IN  IF at = {} THEN Append(cs, [fqcn |-> fqcn, file |-> file, methods |-> <<x>>])
        ELSE [i \in DOMAIN cs |->
                IF i \in at THEN [cs[i] EXCEPT !.methods = Append(@, x)] ELSE cs[i]]

LEMMA MethodJoined ==
    ASSUME NEW C, NEW done \in SUBSET C, IsFiniteSet(done), NEW q \in C, q \notin done,
           NEW key, NEW out, DOMAIN out = C,
           NEW fqcn \in Names, NEW file \in Names, key[q] = <<fqcn, file>>,
           NEW cs, MergedMethods(cs, done, key, out)
    PROVE  MergedMethods(JoinMethod(cs, fqcn, file, out[q]), done \cup {q}, key, out)
<1> DEFINE at == Entry(cs, fqcn, file)
           new == JoinMethod(cs, fqcn, file, out[q])
           all == done \cup {q}
           of(e) == {p \in done : key[p] = Key(e)}
           ofAll(e) == {p \in all : key[p] = Key(e)}
           O == {out[p] : p \in DOMAIN out}
           E == MethodEntries(out)
<1>1. /\ cs \in Seq(E) /\ OncePerKey(cs) /\ Keys(cs) = {key[p] : p \in done}
      /\ \A i \in DOMAIN cs : /\ Len(cs[i].methods) = Cardinality(of(cs[i]))
                              /\ ToSet(cs[i].methods) = {out[p] : p \in of(cs[i])}
  BY DEF MergedMethods
<1>2. SUFFICES /\ new \in Seq(E) /\ OncePerKey(new) /\ Keys(new) = {key[p] : p \in all}
               /\ \A i \in DOMAIN new : /\ Len(new[i].methods) = Cardinality(ofAll(new[i]))
                                        /\ ToSet(new[i].methods) = {out[p] : p \in ofAll(new[i])}
  BY DEF MergedMethods
<1>3. at = {i \in DOMAIN cs : Key(cs[i]) = key[q]}
  BY DEF Entry, Key
<1>4. out[q] \in O
  OBVIOUS
<1>5. \A i \in DOMAIN cs : /\ cs[i] \in E /\ cs[i].fqcn \in Names /\ cs[i].file \in Names
                           /\ cs[i].methods \in Seq(O)
  <2>1. \A i \in DOMAIN cs : cs[i] \in E
    <3> HIDE DEF E
    <3> QED BY <1>1
  <2>2. \A e \in E : e.fqcn \in Names /\ e.file \in Names /\ e.methods \in Seq(O)
    BY DEF MethodEntries
  <2> QED BY <2>1, <2>2
<1>6. CASE at = {}
  <2> DEFINE e == [fqcn |-> fqcn, file |-> file, methods |-> <<out[q]>>]
  <2>1. new = Append(cs, e)
    BY <1>6 DEF JoinMethod
  <2>2. <<out[q]>> \in Seq(O) /\ Len(<<out[q]>>) = 1 /\ ToSet(<<out[q]>>) = {out[q]}
    <3>1. <<out[q]>> \in Seq(O) /\ Len(<<out[q]>>) = 1
      BY <1>4
    <3>2. {<<out[q]>>[i] : i \in DOMAIN <<out[q]>>} = {out[q]}
      OBVIOUS
    <3> QED BY <3>1, <3>2, ToSetIs
  <2>3. e \in E /\ Key(e) = key[q] /\ e.methods = <<out[q]>>
    BY <2>2 DEF MethodEntries, Key
  <2> HIDE DEF e
  <2>4. /\ new \in Seq(E) /\ DOMAIN new = DOMAIN cs \cup {Len(cs) + 1}
        /\ \A i \in DOMAIN cs : new[i] = cs[i]
        /\ new[Len(cs) + 1] = e
    BY <1>1, <2>1, <2>3, AppendElements
  <2>5. \A i \in DOMAIN cs : Key(cs[i]) # key[q]
    BY <1>3, <1>6
  <2> HIDE DEF new
  <2>6. OncePerKey(new)
    <3>1. \A i, k \in DOMAIN new : Key(new[i]) = Key(new[k]) => i = k
      BY <1>1, <2>3, <2>4, <2>5 DEF OncePerKey
    <3> QED BY <3>1 DEF OncePerKey
  <2>7. Keys(new) = {key[p] : p \in all}
    <3>1. {Key(new[i]) : i \in DOMAIN new} = {Key(cs[i]) : i \in DOMAIN cs} \cup {key[q]}
      BY <2>3, <2>4
    <3>2. Keys(new) = Keys(cs) \cup {key[q]}
      BY <3>1 DEF Keys
    <3> QED BY <1>1, <3>2
  <2>8. ASSUME NEW i \in DOMAIN new
        PROVE  /\ Len(new[i].methods) = Cardinality(ofAll(new[i]))
               /\ ToSet(new[i].methods) = {out[p] : p \in ofAll(new[i])}
    <3>1. CASE i \in DOMAIN cs
      <4>1. ofAll(cs[i]) = of(cs[i])
        BY <2>5, <3>1
      <4> QED BY <1>1, <2>4, <3>1, <4>1
    <3>2. CASE i = Len(cs) + 1
      <4>1. ofAll(e) = {q}
        <5>1. \A p \in done : key[p] \in Keys(cs)
          BY <1>1
        <5>2. key[q] \notin Keys(cs)
          BY <2>5 DEF Keys
        <5> QED BY <2>3, <5>1, <5>2
      <4>2. Cardinality({q}) = 1
        BY FS_Singleton
      <4>3. {out[p] : p \in ofAll(e)} = {out[q]} /\ Cardinality(ofAll(e)) = 1
        BY <4>1, <4>2
      <4>4. new[i] = e /\ Len(e.methods) = 1 /\ ToSet(e.methods) = {out[q]}
        BY <2>2, <2>3, <2>4, <3>2
      <4> HIDE DEF ofAll
      <4> QED BY <4>3, <4>4
    <3> QED BY <2>4, <3>1, <3>2
  <2> QED BY <2>4, <2>6, <2>7, <2>8
<1>7. CASE at # {}
  <2>1. new = [i \in DOMAIN cs |->
                 IF i \in at THEN [cs[i] EXCEPT !.methods = Append(@, out[q])] ELSE cs[i]]
    BY <1>7 DEF JoinMethod
  <2> HIDE DEF new
  <2>2. PICK j \in DOMAIN cs : Key(cs[j]) = key[q] /\ at = {j}
    BY <1>1, <1>3, <1>7 DEF OncePerKey
  <2>3. /\ DOMAIN new = DOMAIN cs
        /\ \A i \in DOMAIN cs : i # j => new[i] = cs[i]
        /\ new[j] = [cs[j] EXCEPT !.methods = Append(@, out[q])]
    BY <2>1, <2>2
  <2>4. /\ Append(cs[j].methods, out[q]) \in Seq(O)
        /\ Len(Append(cs[j].methods, out[q])) = Len(cs[j].methods) + 1
        /\ ToSet(Append(cs[j].methods, out[q])) = ToSet(cs[j].methods) \cup {out[q]}
    <3>1. cs[j].methods \in Seq(O)
      BY <1>5
    <3> HIDE DEF O
    <3> QED BY <1>4, <3>1, AppendElements
  <2>5. /\ new[j] \in E /\ new[j].methods = Append(cs[j].methods, out[q])
        /\ new[j].fqcn = cs[j].fqcn /\ new[j].file = cs[j].file
    BY <1>5, <2>3, <2>4 DEF MethodEntries
  <2>6. \A i \in DOMAIN cs : Key(new[i]) = Key(cs[i])
    BY <2>3, <2>5 DEF Key
  <2>7. new \in Seq(E)
    <3>1. \A i \in DOMAIN cs : new[i] \in E
      BY <1>5, <2>3, <2>5
    <3>2. DOMAIN cs = 1 .. Len(cs) /\ Len(cs) \in Nat
      BY <1>1
    <3>3. new = [i \in 1 .. Len(cs) |-> new[i]]
      BY <2>1, <3>2
    <3> QED BY <3>1, <3>2, <3>3
  <2>8. OncePerKey(new) /\ Keys(new) = {key[p] : p \in all}
    <3>1. \A i, k \in DOMAIN new : Key(new[i]) = Key(new[k]) => i = k
      BY <1>1, <2>3, <2>6 DEF OncePerKey
    <3>2. {Key(new[i]) : i \in DOMAIN new} = {Key(cs[i]) : i \in DOMAIN cs}
      BY <2>3, <2>6
    <3>3. key[q] \in Keys(cs)
      BY <2>2 DEF Keys
    <3>4. Keys(new) = Keys(cs)
      BY <3>2 DEF Keys
    <3>5. Keys(cs) = {key[p] : p \in done}
      BY <1>1
    <3>6. {key[p] : p \in all} = {key[p] : p \in done} \cup {key[q]}
      OBVIOUS
    <3>7. {key[p] : p \in all} = Keys(cs)
      BY <3>3, <3>5, <3>6
    <3> QED BY <3>1, <3>4, <3>7 DEF OncePerKey
  <2>9. ASSUME NEW i \in DOMAIN new
        PROVE  /\ Len(new[i].methods) = Cardinality(ofAll(new[i]))
               /\ ToSet(new[i].methods) = {out[p] : p \in ofAll(new[i])}
    <3>1. i \in DOMAIN cs /\ Key(new[i]) = Key(cs[i])
      BY <2>3, <2>6
    <3>2. CASE i # j
      <4>1. Key(cs[i]) # key[q]
        BY <1>1, <2>2, <3>1, <3>2 DEF OncePerKey
      <4>2. ofAll(new[i]) = of(cs[i])
        BY <3>1, <4>1
      <4> QED BY <1>1, <2>3, <3>1, <3>2, <4>2
    <3>3. CASE i = j
      <4>1. ofAll(new[j]) = of(cs[j]) \cup {q} /\ q \notin of(cs[j])
        BY <2>2, <3>1, <3>3
      <4>2. IsFiniteSet(of(cs[j]))
        <5>1. of(cs[j]) \in SUBSET done
          OBVIOUS
        <5> QED BY <5>1, FS_Subset
      <4> HIDE DEF of, ofAll
      <4>3. Cardinality(ofAll(new[j])) = Cardinality(of(cs[j])) + 1
        BY <4>1, <4>2, FS_AddElement
      <4>4. {out[p] : p \in ofAll(new[j])} = {out[p] : p \in of(cs[j])} \cup {out[q]}
        BY <4>1
      <4>5. Len(cs[j].methods) = Cardinality(of(cs[j])) /\ ToSet(cs[j].methods) = {out[p] : p \in of(cs[j])}
        BY <1>1
      <4> QED BY <2>4, <2>5, <3>3, <4>3, <4>4, <4>5
    <3> QED BY <3>2, <3>3
  <2> QED BY <2>7, <2>8, <2>9
<1> QED BY <1>6, <1>7

\* Relationships and models as they are shown.
ShownFacts == [name : Names, type : STRING, related : Names \cup {None}, pivot : SUBSET Names]
ModelEntries == [fqcn : Names, file : Names, rels : Seq(ShownFacts)]
\* One entry per class and file, the sum of its cells.
SumOf(e, done, key, rels) == UNION {ToSet(rels[q]) : q \in {p \in done : key[p] = Key(e)}}
MergedModels(ms, done, key, rels) ==
    /\ ms \in Seq(ModelEntries) /\ OncePerKey(ms)
    /\ Keys(ms) = {key[q] : q \in done}
    /\ \A i \in DOMAIN ms : ToSet(ms[i].rels) = SumOf(ms[i], done, key, rels)

\* AddModel, with the relationships that it shows.
JoinModel(ms, fqcn, file, r) ==
    LET at == Entry(ms, fqcn, file)
    IN  IF at = {} THEN Append(ms, [fqcn |-> fqcn, file |-> file, rels |-> r])
        ELSE [i \in DOMAIN ms |-> IF i \in at THEN [ms[i] EXCEPT !.rels = @ \o r] ELSE ms[i]]

LEMMA ModelJoined ==
    ASSUME NEW done, NEW q, NEW key, NEW rels, rels[q] \in Seq(ShownFacts),
           NEW fqcn \in Names, NEW file \in Names, key[q] = <<fqcn, file>>,
           NEW ms, MergedModels(ms, done, key, rels)
    PROVE  MergedModels(JoinModel(ms, fqcn, file, rels[q]), done \cup {q}, key, rels)
<1> DEFINE at == Entry(ms, fqcn, file)
           r == rels[q]
           new == JoinModel(ms, fqcn, file, r)
           all == done \cup {q}
           of(e) == {p \in done : key[p] = Key(e)}
           ofAll(e) == {p \in all : key[p] = Key(e)}
<1>1. /\ ms \in Seq(ModelEntries) /\ OncePerKey(ms) /\ Keys(ms) = {key[p] : p \in done}
      /\ \A i \in DOMAIN ms : ToSet(ms[i].rels) = UNION {ToSet(rels[p]) : p \in of(ms[i])}
  BY DEF MergedModels, SumOf
<1>2. SUFFICES /\ new \in Seq(ModelEntries) /\ OncePerKey(new)
               /\ Keys(new) = {key[p] : p \in all}
               /\ \A i \in DOMAIN new :
                    ToSet(new[i].rels) = UNION {ToSet(rels[p]) : p \in ofAll(new[i])}
  BY DEF MergedModels, SumOf
<1>3. at = {i \in DOMAIN ms : Key(ms[i]) = key[q]}
  BY DEF Entry, Key
<1>4. r \in Seq(ShownFacts)
  OBVIOUS
<1>5. \A i \in DOMAIN ms : /\ ms[i] \in ModelEntries
                           /\ ms[i].fqcn \in Names /\ ms[i].file \in Names
                           /\ ms[i].rels \in Seq(ShownFacts)
  <2>1. \A i \in DOMAIN ms : ms[i] \in ModelEntries
    BY <1>1
  <2>2. \A e \in ModelEntries : /\ e.fqcn \in Names /\ e.file \in Names
                                /\ e.rels \in Seq(ShownFacts)
    BY DEF ModelEntries
  <2> QED BY <2>1, <2>2
<1>6. CASE at = {}
  <2> DEFINE e == [fqcn |-> fqcn, file |-> file, rels |-> r]
  <2>1. new = Append(ms, e)
    BY <1>6 DEF JoinModel
  <2>2. e \in ModelEntries /\ Key(e) = key[q] /\ e.rels = r
    BY <1>4 DEF ModelEntries, Key
  <2> HIDE DEF e
  <2>3. /\ new \in Seq(ModelEntries) /\ DOMAIN new = DOMAIN ms \cup {Len(ms) + 1}
        /\ \A i \in DOMAIN ms : new[i] = ms[i]
        /\ new[Len(ms) + 1] = e
    BY <1>1, <2>1, <2>2, AppendElements
  <2>4. \A i \in DOMAIN ms : Key(ms[i]) # key[q]
    BY <1>3, <1>6
  <2> HIDE DEF new
  <2>5. OncePerKey(new)
    <3>1. \A i, k \in DOMAIN new : Key(new[i]) = Key(new[k]) => i = k
      BY <1>1, <2>2, <2>3, <2>4 DEF OncePerKey
    <3> QED BY <3>1 DEF OncePerKey
  <2>6. Keys(new) = {key[p] : p \in all}
    <3>1. {Key(new[i]) : i \in DOMAIN new} = {Key(ms[i]) : i \in DOMAIN ms} \cup {key[q]}
      BY <2>2, <2>3
    <3>2. Keys(new) = Keys(ms) \cup {key[q]}
      BY <3>1 DEF Keys
    <3> QED BY <1>1, <3>2
  <2>7. ASSUME NEW i \in DOMAIN new
        PROVE  ToSet(new[i].rels) = UNION {ToSet(rels[p]) : p \in ofAll(new[i])}
    <3>1. CASE i \in DOMAIN ms
      <4>1. ofAll(ms[i]) = of(ms[i])
        BY <2>4, <3>1
      <4> QED BY <1>1, <2>3, <3>1, <4>1
    <3>2. CASE i = Len(ms) + 1
      <4>1. ofAll(e) = {q}
        <5>1. \A p \in done : key[p] \in Keys(ms)
          BY <1>1
        <5>2. key[q] \notin Keys(ms)
          BY <2>4 DEF Keys
        <5> QED BY <2>2, <5>1, <5>2
      <4>2. UNION {ToSet(rels[p]) : p \in ofAll(e)} = ToSet(r)
        BY <4>1
      <4>3. new[i] = e
        BY <2>3, <3>2
      <4> QED BY <2>2, <4>2, <4>3
    <3> QED BY <2>3, <3>1, <3>2
  <2> QED BY <2>3, <2>5, <2>6, <2>7
<1>7. CASE at # {}
  <2>1. new = [i \in DOMAIN ms |->
                 IF i \in at THEN [ms[i] EXCEPT !.rels = @ \o r] ELSE ms[i]]
    BY <1>7 DEF JoinModel
  <2> HIDE DEF new
  <2>2. PICK j \in DOMAIN ms : Key(ms[j]) = key[q] /\ at = {j}
    BY <1>1, <1>3, <1>7 DEF OncePerKey
  <2>3. /\ DOMAIN new = DOMAIN ms
        /\ \A i \in DOMAIN ms : i # j => new[i] = ms[i]
        /\ new[j] = [ms[j] EXCEPT !.rels = @ \o r]
    BY <2>1, <2>2
  <2>4. /\ ms[j].rels \o r \in Seq(ShownFacts)
        /\ ToSet(ms[j].rels \o r) = ToSet(ms[j].rels) \cup ToSet(r)
    <3>1. ms[j].rels \in Seq(ShownFacts)
      BY <1>5
    <3> HIDE DEF r
    <3> QED BY <1>4, <3>1, JoinElements
  <2>5. /\ new[j] \in ModelEntries /\ new[j].rels = ms[j].rels \o r
        /\ new[j].fqcn = ms[j].fqcn /\ new[j].file = ms[j].file
    BY <1>5, <2>3, <2>4 DEF ModelEntries
  <2>6. \A i \in DOMAIN ms : Key(new[i]) = Key(ms[i])
    BY <2>3, <2>5 DEF Key
  <2>7. new \in Seq(ModelEntries)
    <3>1. \A i \in DOMAIN ms : new[i] \in ModelEntries
      BY <1>5, <2>3, <2>5
    <3>2. DOMAIN ms = 1 .. Len(ms) /\ Len(ms) \in Nat
      BY <1>1
    <3>3. new = [i \in 1 .. Len(ms) |-> new[i]]
      BY <2>1, <3>2
    <3> QED BY <3>1, <3>2, <3>3
  <2>8. OncePerKey(new) /\ Keys(new) = {key[p] : p \in all}
    <3>1. \A i, k \in DOMAIN new : Key(new[i]) = Key(new[k]) => i = k
      BY <1>1, <2>3, <2>6 DEF OncePerKey
    <3>2. {Key(new[i]) : i \in DOMAIN new} = {Key(ms[i]) : i \in DOMAIN ms}
      BY <2>3, <2>6
    <3>3. key[q] \in Keys(ms)
      BY <2>2 DEF Keys
    <3>4. Keys(new) = Keys(ms)
      BY <3>2 DEF Keys
    <3>5. Keys(ms) = {key[p] : p \in done}
      BY <1>1
    <3>6. {key[p] : p \in all} = {key[p] : p \in done} \cup {key[q]}
      OBVIOUS
    <3>7. {key[p] : p \in all} = Keys(ms)
      BY <3>3, <3>5, <3>6
    <3> QED BY <3>1, <3>4, <3>7 DEF OncePerKey
  <2>9. ASSUME NEW i \in DOMAIN new
        PROVE  ToSet(new[i].rels) = UNION {ToSet(rels[p]) : p \in ofAll(new[i])}
    <3>1. i \in DOMAIN ms /\ Key(new[i]) = Key(ms[i])
      BY <2>3, <2>6
    <3>2. CASE i # j
      <4>1. Key(ms[i]) # key[q]
        BY <1>1, <2>2, <3>1, <3>2 DEF OncePerKey
      <4>2. ofAll(new[i]) = of(ms[i])
        BY <3>1, <4>1
      <4> QED BY <1>1, <2>3, <3>1, <3>2, <4>2
    <3>3. CASE i = j
      <4>1. ofAll(new[j]) = of(ms[j]) \cup {q}
        BY <2>2, <3>1, <3>3
      <4>2. UNION {ToSet(rels[p]) : p \in ofAll(new[j])}
              = (UNION {ToSet(rels[p]) : p \in of(ms[j])}) \cup ToSet(r)
        BY <4>1
      <4>3. ToSet(ms[j].rels) = UNION {ToSet(rels[p]) : p \in of(ms[j])}
        BY <1>1
      <4> HIDE DEF of, ofAll, r
      <4> QED BY <2>4, <2>5, <3>3, <4>2, <4>3
    <3> QED BY <3>2, <3>3
  <2> QED BY <2>7, <2>8, <2>9
<1> QED BY <1>6, <1>7

-----------------------------------------------------------------------------
(* Ordering the models: they move from one list to the other.              *)

\* Both lists together are the merged models, each in one of them, free of repeats.
Pooled(ms, rest, done, key, rels) ==
    /\ ms \in Seq(ModelEntries) /\ rest \in Seq(ModelEntries)
    /\ OncePerKey(ms) /\ OncePerKey(rest)
    /\ \A i \in DOMAIN ms : \A k \in DOMAIN rest : Key(ms[i]) # Key(rest[k])
    /\ Keys(ms) \cup Keys(rest) = {key[q] : q \in done}
    /\ \A e \in ToSet(ms) \cup ToSet(rest) : Once(e.rels) /\ ToSet(e.rels) = SumOf(e, done, key, rels)

\* The models as Arrange hands them over.
Deduped(ms) == [i \in DOMAIN ms |-> [ms[i] EXCEPT !.rels = Dedup(@)]]

LEMMA ElementsTyped ==
    ASSUME NEW S, NEW s \in Seq(S)
    PROVE  /\ DOMAIN s = 1 .. Len(s) /\ Len(s) \in Nat
           /\ \A i \in DOMAIN s : s[i] \in S
           /\ ToSet(s) \in SUBSET S
<1>1. /\ DOMAIN s = 1 .. Len(s) /\ Len(s) \in Nat
      /\ \A i \in DOMAIN s : s[i] \in S
  OBVIOUS
<1>2. ToSet(s) = {s[i] : i \in DOMAIN s}
  BY ToSetIs
<1> QED BY <1>1, <1>2

LEMMA EmptyList ==
    ASSUME NEW S PROVE <<>> \in Seq(S) /\ Len(<<>>) = 0 /\ DOMAIN <<>> = {} /\ ToSet(<<>>) = {}
<1>1. <<>> \in Seq(S)
  OBVIOUS
<1>2. Len(<<>>) = 0 /\ DOMAIN <<>> = {}
  OBVIOUS
<1>3. ToSet(<<>>) = {<<>>[i] : i \in DOMAIN <<>>}
  BY ToSetIs
<1>4. ToSet(<<>>) = {}
  BY <1>2, <1>3
<1> QED BY <1>1, <1>2, <1>4

LEMMA PoolStarts ==
    ASSUME NEW done, NEW key, NEW rels, NEW ms, MergedModels(ms, done, key, rels)
    PROVE  Pooled(<<>>, Deduped(ms), done, key, rels)
<1> DEFINE new == Deduped(ms)
<1>1. /\ ms \in Seq(ModelEntries) /\ OncePerKey(ms) /\ Keys(ms) = {key[p] : p \in done}
      /\ \A i \in DOMAIN ms : ToSet(ms[i].rels) = SumOf(ms[i], done, key, rels)
  BY DEF MergedModels
<1>2. /\ DOMAIN ms = 1 .. Len(ms) /\ Len(ms) \in Nat
      /\ \A i \in DOMAIN ms : ms[i] \in ModelEntries
  BY <1>1, ElementsTyped
<1>3. ASSUME NEW e \in ModelEntries
      PROVE  LET d == [e EXCEPT !.rels = Dedup(@)]
             IN  /\ d \in ModelEntries /\ Key(d) = Key(e)
                 /\ Once(d.rels) /\ ToSet(d.rels) = ToSet(e.rels)
  <2> DEFINE d == [e EXCEPT !.rels = Dedup(@)]
  <2>1. e.rels \in Seq(ShownFacts)
    BY DEF ModelEntries
  <2>2. Dedup(e.rels) \in Seq(ShownFacts) /\ ToSet(Dedup(e.rels)) = ToSet(e.rels) /\ Once(Dedup(e.rels))
    BY <2>1, DedupIs
  <2>3. d \in ModelEntries /\ d.rels = Dedup(e.rels) /\ d.fqcn = e.fqcn /\ d.file = e.file
    BY <2>2 DEF ModelEntries
  <2>4. Key(d) = Key(e)
    BY <2>3 DEF Key
  <2> QED BY <2>2, <2>3, <2>4
<1>4. /\ DOMAIN new = DOMAIN ms
      /\ \A i \in DOMAIN ms : new[i] = [ms[i] EXCEPT !.rels = Dedup(@)]
  BY DEF Deduped
<1>5. \A i \in DOMAIN ms : /\ new[i] \in ModelEntries /\ Key(new[i]) = Key(ms[i])
                           /\ Once(new[i].rels) /\ ToSet(new[i].rels) = ToSet(ms[i].rels)
  BY <1>2, <1>3, <1>4
<1>6. new \in Seq(ModelEntries)
  <2>1. new = [i \in 1 .. Len(ms) |-> new[i]]
    BY <1>2 DEF Deduped
  <2> HIDE DEF new
  <2> QED BY <1>2, <1>5, <2>1
<1> HIDE DEF new
<1>7. OncePerKey(new) /\ Keys(new) = Keys(ms)
  <2>1. \A i, k \in DOMAIN new : Key(new[i]) = Key(new[k]) => i = k
    BY <1>1, <1>4, <1>5 DEF OncePerKey
  <2>2. {Key(new[i]) : i \in DOMAIN new} = {Key(ms[i]) : i \in DOMAIN ms}
    BY <1>4, <1>5
  <2> QED BY <2>1, <2>2 DEF OncePerKey, Keys
<1>8. \A i \in DOMAIN new : ToSet(new[i].rels) = SumOf(new[i], done, key, rels)
  <2>1. \A i \in DOMAIN ms : SumOf(new[i], done, key, rels) = SumOf(ms[i], done, key, rels)
    BY <1>5 DEF SumOf
  <2> QED BY <1>1, <1>4, <1>5, <2>1
<1>9. \A e \in ToSet(new) : Once(e.rels) /\ ToSet(e.rels) = SumOf(e, done, key, rels)
  BY <1>4, <1>5, <1>8, InToSet
<1>10. /\ <<>> \in Seq(ModelEntries) /\ DOMAIN <<>> = {} /\ ToSet(<<>>) = {}
  BY EmptyList
<1>11. OncePerKey(<<>>) /\ Keys(<<>>) = {}
  BY <1>10 DEF OncePerKey, Keys
<1> QED BY <1>1, <1>6, <1>7, <1>9, <1>10, <1>11 DEF Pooled, new

\* The model moves over, and only it.
LEMMA WithoutIs ==
    ASSUME NEW S, NEW rest \in Seq(S), NEW at \in DOMAIN rest
    PROVE  /\ Without(rest, at) \in Seq(S)
           /\ ToSet(Without(rest, at)) = {rest[i] : i \in DOMAIN rest \ {at}}
           /\ Len(Without(rest, at)) = Len(rest) - 1
           /\ \E f : Lists(f, DOMAIN rest \ {at})
                     /\ Without(rest, at) = [n \in 1 .. Len(rest) - 1 |-> rest[f[n]]]
<1> DEFINE I == DOMAIN rest \ {at}
<1>1. Without(rest, at) = Picked(rest, I) /\ I \in SUBSET DOMAIN rest
  BY DEF Without
<1>2. Cardinality(I) = Len(rest) - 1
  <2>1. DOMAIN rest = 1 .. Len(rest) /\ Len(rest) \in Nat
    OBVIOUS
  <2>2. \A n \in Nat : IsFiniteSet(1 .. n) /\ Cardinality(1 .. n) = n
    BY FS_Interval
  <2> QED BY <2>1, <2>2, FS_RemoveElement, ZenonT(60)
<1> HIDE DEF I
<1>3. /\ Picked(rest, I) \in Seq(S) /\ Len(Picked(rest, I)) = Cardinality(I)
      /\ \E f : Lists(f, I) /\ Picked(rest, I) = [n \in 1 .. Cardinality(I) |-> rest[f[n]]]
  BY <1>1, PickedIs
<1>4. ToSet(Picked(rest, I)) = {rest[i] : i \in I}
  BY <1>1, PickedElements
<1> QED BY <1>1, <1>2, <1>3, <1>4 DEF I

LEMMA PoolMoves ==
    ASSUME NEW done, NEW key, NEW rels, NEW ms, NEW rest, Pooled(ms, rest, done, key, rels),
           NEW at \in DOMAIN rest
    PROVE  Pooled(Append(ms, rest[at]), Without(rest, at), done, key, rels)
<1> DEFINE e == rest[at]
           new == Append(ms, e)
           left == Without(rest, at)
           n == Len(rest) - 1
<1>1. /\ ms \in Seq(ModelEntries) /\ rest \in Seq(ModelEntries)
      /\ OncePerKey(ms) /\ OncePerKey(rest)
      /\ \A i \in DOMAIN ms : \A k \in DOMAIN rest : Key(ms[i]) # Key(rest[k])
      /\ Keys(ms) \cup Keys(rest) = {key[q] : q \in done}
      /\ \A x \in ToSet(ms) \cup ToSet(rest) : Once(x.rels) /\ ToSet(x.rels) = SumOf(x, done, key, rels)
  BY DEF Pooled
<1>2. e \in ModelEntries
  BY <1>1
<1>3. /\ new \in Seq(ModelEntries) /\ DOMAIN new = DOMAIN ms \cup {Len(ms) + 1}
      /\ \A i \in DOMAIN ms : new[i] = ms[i]
      /\ new[Len(ms) + 1] = e
      /\ ToSet(new) = ToSet(ms) \cup {e}
  <2> HIDE DEF e
  <2> QED BY <1>1, <1>2, AppendElements
<1>4. /\ left \in Seq(ModelEntries) /\ ToSet(left) = {rest[i] : i \in DOMAIN rest \ {at}}
      /\ Len(left) = n
      /\ \E f : Lists(f, DOMAIN rest \ {at}) /\ left = [m \in 1 .. n |-> rest[f[m]]]
  <2>1. /\ Without(rest, at) \in Seq(ModelEntries)
        /\ ToSet(Without(rest, at)) = {rest[i] : i \in DOMAIN rest \ {at}}
        /\ Len(Without(rest, at)) = Len(rest) - 1
        /\ \E f : Lists(f, DOMAIN rest \ {at})
                  /\ Without(rest, at) = [m \in 1 .. Len(rest) - 1 |-> rest[f[m]]]
    <3>1. rest \in Seq(ModelEntries)
      BY <1>1
    <3>2. at \in DOMAIN rest
      OBVIOUS
    <3> QED BY ONLY <3>1, <3>2, WithoutIs, ZenonT(60)
  <2> QED BY <2>1
<1>5. PICK f : Lists(f, DOMAIN rest \ {at}) /\ left = [m \in 1 .. n |-> rest[f[m]]]
  BY <1>4
<1> HIDE DEF new, left
<1>6. DOMAIN left = 1 .. n /\ n \in Nat /\ DOMAIN left = 1 .. Cardinality(DOMAIN rest \ {at})
  <2>1. DOMAIN left = 1 .. n /\ n \in Nat
    BY <1>1, <1>4, <1>5
  <2>2. Cardinality(DOMAIN rest \ {at}) = n
    <3>1. DOMAIN rest = 1 .. Len(rest) /\ Len(rest) \in Nat
      BY <1>1
    <3>2. \A m \in Nat : IsFiniteSet(1 .. m) /\ Cardinality(1 .. m) = m
      BY FS_Interval
    <3> QED BY <3>1, <3>2, FS_RemoveElement
  <2> QED BY <2>1, <2>2
<1>7. \A m \in DOMAIN left : f[m] \in DOMAIN rest \ {at} /\ left[m] = rest[f[m]]
  BY <1>5, <1>6 DEF Lists
<1>8. \A l, m \in DOMAIN left : f[l] = f[m] => l = m
  <2> SUFFICES ASSUME NEW l \in DOMAIN left, NEW m \in DOMAIN left, f[l] = f[m], l # m
               PROVE  FALSE
    OBVIOUS
  <2>1. l < m \/ m < l
    BY <1>6
  <2>2. f[l] < f[m] \/ f[m] < f[l]
    BY <1>5, <1>6, <2>1 DEF Lists
  <2>3. f[l] \in Nat
    BY <1>1, <1>7
  <2> QED BY <2>2, <2>3
<1>9. OncePerKey(new)
  <2>1. \A i, k \in DOMAIN new : Key(new[i]) = Key(new[k]) => i = k
    BY <1>1, <1>3 DEF OncePerKey
  <2> QED BY <2>1 DEF OncePerKey
<1>10. OncePerKey(left)
  <2>1. \A i, k \in DOMAIN left : Key(left[i]) = Key(left[k]) => i = k
    BY <1>1, <1>7, <1>8 DEF OncePerKey
  <2> QED BY <2>1 DEF OncePerKey
<1>11. \A i \in DOMAIN new : \A k \in DOMAIN left : Key(new[i]) # Key(left[k])
  BY <1>1, <1>3, <1>7 DEF OncePerKey
<1>12. ToSet(new) \cup ToSet(left) = ToSet(ms) \cup ToSet(rest)
  <2>1. ToSet(rest) = {rest[i] : i \in DOMAIN rest}
    BY ToSetIs
  <2> QED BY <1>3, <1>4, <2>1
<1>13. Keys(new) \cup Keys(left) = Keys(ms) \cup Keys(rest)
  <2>1. \A s : Keys(s) = {Key(x) : x \in ToSet(s)}
    <3> SUFFICES ASSUME NEW s PROVE Keys(s) = {Key(x) : x \in ToSet(s)}
      OBVIOUS
    <3>1. ToSet(s) = {s[i] : i \in DOMAIN s}
      BY ToSetIs
    <3> QED BY <3>1 DEF Keys
  <2> QED BY <1>12, <2>1
<1> QED BY <1>1, <1>3, <1>4, <1>9, <1>10, <1>11, <1>12, <1>13 DEF Pooled, new, left

LEMMA PoolEnds ==
    ASSUME NEW done, NEW key, NEW rels, NEW ms, NEW rest, Pooled(ms, rest, done, key, rels)
    PROVE  Pooled(ms \o rest, <<>>, done, key, rels)
<1> DEFINE new == ms \o rest
<1>1. /\ ms \in Seq(ModelEntries) /\ rest \in Seq(ModelEntries)
      /\ OncePerKey(ms) /\ OncePerKey(rest)
      /\ \A i \in DOMAIN ms : \A k \in DOMAIN rest : Key(ms[i]) # Key(rest[k])
      /\ Keys(ms) \cup Keys(rest) = {key[q] : q \in done}
      /\ \A x \in ToSet(ms) \cup ToSet(rest) : Once(x.rels) /\ ToSet(x.rels) = SumOf(x, done, key, rels)
  BY DEF Pooled
<1>2. new \in Seq(ModelEntries) /\ ToSet(new) = ToSet(ms) \cup ToSet(rest)
  BY <1>1, JoinElements
<1>3. /\ DOMAIN new = 1 .. Len(ms) + Len(rest) /\ Len(ms) \in Nat /\ Len(rest) \in Nat
      /\ DOMAIN ms = 1 .. Len(ms) /\ DOMAIN rest = 1 .. Len(rest)
      /\ \A i \in 1 .. Len(ms) : new[i] = ms[i]
      /\ \A i \in 1 .. Len(rest) : new[i + Len(ms)] = rest[i]
  BY <1>1
<1> HIDE DEF new
<1>4. \A i \in DOMAIN new : \/ i \in DOMAIN ms /\ new[i] = ms[i]
                            \/ i - Len(ms) \in DOMAIN rest /\ new[i] = rest[i - Len(ms)]
                               /\ i \in Nat /\ i > Len(ms)
  <2> TAKE i \in DOMAIN new
  <2>1. CASE i \in DOMAIN ms
    BY <1>3, <2>1
  <2>2. CASE i \notin DOMAIN ms
    <3>1. i - Len(ms) \in 1 .. Len(rest) /\ i = i - Len(ms) + Len(ms) /\ i > Len(ms) /\ i \in Nat
      BY <1>3, <2>2
    <3>2. new[i - Len(ms) + Len(ms)] = rest[i - Len(ms)]
      BY <1>3, <3>1
    <3> QED BY <1>3, <3>1, <3>2
  <2> QED BY <2>1, <2>2
<1>5. OncePerKey(new)
  <2>1. ASSUME NEW i \in DOMAIN new, NEW k \in DOMAIN new, Key(new[i]) = Key(new[k])
        PROVE  i = k
    <3>1. CASE i \in DOMAIN ms /\ new[i] = ms[i] /\ k \in DOMAIN ms /\ new[k] = ms[k]
      BY <1>1, <2>1, <3>1 DEF OncePerKey
    <3>2. CASE /\ i - Len(ms) \in DOMAIN rest /\ new[i] = rest[i - Len(ms)] /\ i \in Nat
               /\ k - Len(ms) \in DOMAIN rest /\ new[k] = rest[k - Len(ms)] /\ k \in Nat
      <4>1. i - Len(ms) = k - Len(ms)
        BY <1>1, <2>1, <3>2 DEF OncePerKey
      <4> QED BY <1>3, <3>2, <4>1
    <3> QED BY <1>1, <1>4, <2>1, <3>1, <3>2
  <2> QED BY <2>1 DEF OncePerKey
<1>6. /\ <<>> \in Seq(ModelEntries) /\ DOMAIN <<>> = {} /\ ToSet(<<>>) = {}
  BY EmptyList
<1>7. OncePerKey(<<>>) /\ Keys(<<>>) = {}
  BY <1>6 DEF OncePerKey, Keys
<1>8. Keys(new) = Keys(ms) \cup Keys(rest)
  <2>1. \A s : Keys(s) = {Key(x) : x \in ToSet(s)}
    <3> SUFFICES ASSUME NEW s PROVE Keys(s) = {Key(x) : x \in ToSet(s)}
      OBVIOUS
    <3>1. ToSet(s) = {s[i] : i \in DOMAIN s}
      BY ToSetIs
    <3> QED BY <3>1 DEF Keys
  <2> QED BY <1>2, <2>1
<1> QED BY <1>1, <1>2, <1>5, <1>6, <1>7, <1>8 DEF Pooled, new

-----------------------------------------------------------------------------
(* The bindings of the routes, and the order of methods by them.           *)

\* What the bindings of a resource, and all bindings, are made of.
ResourceActions == {"index", "store", "show", "update", "destroy", "create", "edit"}
HttpVerbs == {"GET", "POST", "PUT", "PATCH", "DELETE", "OPTIONS"}
BindingFacts == [fqcn : Names, method : Names \cup {None, "__invoke"} \cup ResourceActions,
                 verbs : Seq(STRING \cup {None} \cup HttpVerbs)]

LEMMA RouteClassTyped ==
    ASSUME NEW f \in Texts, NEW i \in DOMAIN f.routes PROVE RouteClass(f, i) \in Names
<1>1. f.imports \in Seq(Imports) /\ f.routes \in Seq(Statements)
  BY DEF Texts
<1>2. f.routes[i].class \in Names
  <2>1. f.routes[i] \in Statements
    BY <1>1
  <2> QED BY <2>1 DEF Statements
<1> DEFINE at == {k \in ImportKeys(f) : f.imports[k].last = f.routes[i].class}
<1>3. at \in SUBSET (1 .. Len(f.imports)) /\ DOMAIN f.imports = 1 .. Len(f.imports)
      /\ Len(f.imports) \in Nat
  BY <1>1 DEF ImportKeys
<1>4. RouteClass(f, i) = IF at = {} THEN f.routes[i].class ELSE f.imports[LastOf(at)].path
  BY DEF RouteClass, ResolveClassName
<1> HIDE DEF at
<1>5. CASE at # {}
  <2>1. LastOf(at) \in DOMAIN f.imports
    BY <1>3, <1>5, FirstAndLast
  <2>2. f.imports[LastOf(at)] \in Imports
    BY <1>1, <2>1
  <2>3. f.imports[LastOf(at)].path \in Names
    BY <2>2 DEF Imports
  <2> QED BY <1>4, <1>5, <2>3
<1> QED BY <1>2, <1>4, <1>5

LEMMA VerbsTyped ==
    ASSUME NEW verb \in STRING \cup {None}
    PROVE  Verbs(verb) \in Seq(STRING \cup {None} \cup HttpVerbs)
<1> DEFINE S == STRING \cup {None} \cup HttpVerbs
<1>1. verb \in S /\ HttpVerbs \subseteq S
  OBVIOUS
<1> HIDE DEF S
<1>2. <<verb>> \in Seq(S)
  <2>1. \A x \in S : <<x>> \in Seq(S)
    OBVIOUS
  <2> QED BY <1>1, <2>1
<1>3. <<"GET", "POST", "PUT", "PATCH", "DELETE", "OPTIONS">> \in Seq(S)
  BY <1>1 DEF HttpVerbs
<1> QED BY <1>2, <1>3 DEF Verbs, S

LEMMA ResourceMethodsTyped ==
    ASSUME NEW api \in BOOLEAN
    PROVE  ResourceMethods(api) \in Seq(ResourceActions \X Seq(HttpVerbs))
<1> DEFINE S == ResourceActions \X Seq(HttpVerbs)
<1>1. /\ <<"GET">> \in Seq(HttpVerbs) /\ <<"POST">> \in Seq(HttpVerbs)
      /\ <<"PUT", "PATCH">> \in Seq(HttpVerbs) /\ <<"DELETE">> \in Seq(HttpVerbs)
  BY DEF HttpVerbs
<1>2. /\ <<"index", <<"GET">>>> \in S /\ <<"store", <<"POST">>>> \in S
      /\ <<"show", <<"GET">>>> \in S /\ <<"update", <<"PUT", "PATCH">>>> \in S
      /\ <<"destroy", <<"DELETE">>>> \in S
      /\ <<"create", <<"GET">>>> \in S /\ <<"edit", <<"GET">>>> \in S
  BY <1>1 DEF ResourceActions
<1> DEFINE s == <<<<"index", <<"GET">>>>, <<"store", <<"POST">>>>, <<"show", <<"GET">>>>,
                  <<"update", <<"PUT", "PATCH">>>>, <<"destroy", <<"DELETE">>>>>>
           t == <<<<"create", <<"GET">>>>, <<"edit", <<"GET">>>>>>
<1> HIDE DEF S
<1>3. s \in Seq(S) /\ t \in Seq(S) /\ <<>> \in Seq(S)
  BY <1>2
<1>4. ResourceMethods(api) = s \o (IF api THEN <<>> ELSE t)
  BY DEF ResourceMethods
<1> HIDE DEF s, t
<1>5. ResourceMethods(api) \in Seq(S)
  BY <1>3, <1>4
<1> QED BY <1>5 DEF S

LEMMA ResourceBindingsAre ==
    ASSUME NEW f \in Texts
    PROVE  /\ ResourceBindings(f) \in Seq(BindingFacts)
           /\ \A b : b \in ToSet(ResourceBindings(f)) <=>
                 \E i \in Stated(f, {"resource", "apiResource"}) :
                   \E m \in ToSet(ResourceMethods(f.routes[i].form = "apiResource")) :
                     b = Binding(RouteClass(f, i), m[1], m[2])
<1> DEFINE of(i) == LET set == ResourceMethods(f.routes[i].form = "apiResource")
                    IN  [n \in DOMAIN set |-> Binding(RouteClass(f, i), set[n][1], set[n][2])]
           each == [i \in DOMAIN f.routes |-> of(i)]
           I == Stated(f, {"resource", "apiResource"})
<1>1. f.routes \in Seq(Statements)
  BY DEF Texts
<1>2. DOMAIN f.routes = 1 .. Len(f.routes) /\ Len(f.routes) \in Nat
  BY <1>1
<1>3. ASSUME NEW i \in DOMAIN f.routes
      PROVE  /\ of(i) \in Seq(BindingFacts)
             /\ \A b : b \in ToSet(of(i)) <=>
                   \E m \in ToSet(ResourceMethods(f.routes[i].form = "apiResource")) :
                     b = Binding(RouteClass(f, i), m[1], m[2])
  <2>1. PICK api \in BOOLEAN : api = (f.routes[i].form = "apiResource")
    OBVIOUS
  <2> DEFINE set == ResourceMethods(api)
  <2>2. set \in Seq(ResourceActions \X Seq(HttpVerbs))
    BY ResourceMethodsTyped
  <2>3. of(i) = [n \in DOMAIN set |-> Binding(RouteClass(f, i), set[n][1], set[n][2])]
    BY <2>1
  <2> HIDE DEF set, of
  <2>4. ASSUME NEW n \in DOMAIN set
        PROVE  Binding(RouteClass(f, i), set[n][1], set[n][2]) \in BindingFacts
    <3>1. set[n] \in ResourceActions \X Seq(HttpVerbs)
      BY <2>2
    <3>2. set[n][1] \in ResourceActions /\ set[n][2] \in Seq(HttpVerbs)
      BY <3>1
    <3>3. set[n][2] \in Seq(STRING \cup {None} \cup HttpVerbs)
      <4>1. PICK S : S = STRING \cup {None} \cup HttpVerbs
        OBVIOUS
      <4>2. HttpVerbs \subseteq S
        BY <4>1
      <4>3. set[n][2] \in Seq(S)
        BY <3>2, <4>2
      <4> QED BY <4>1, <4>3
    <3>4. RouteClass(f, i) \in Names
      BY RouteClassTyped
    <3> QED BY <3>2, <3>3, <3>4 DEF Binding, BindingFacts
  <2>5. DOMAIN set = 1 .. Len(set) /\ Len(set) \in Nat
    BY <2>2
  <2>6. of(i) \in Seq(BindingFacts)
    BY <2>3, <2>4, <2>5
  <2>7. \A b : b \in ToSet(of(i)) <=>
          \E n \in DOMAIN set : b = Binding(RouteClass(f, i), set[n][1], set[n][2])
    <3>1. ToSet(of(i)) = {of(i)[n] : n \in DOMAIN of(i)}
      BY ToSetIs
    <3> QED BY <2>3, <3>1
  <2>8. ToSet(set) = {set[n] : n \in DOMAIN set}
    BY ToSetIs
  <2>9. \A b : b \in ToSet(of(i)) <=>
          \E m \in ToSet(set) : b = Binding(RouteClass(f, i), m[1], m[2])
    BY <2>7, <2>8
  <2>10. set = ResourceMethods(f.routes[i].form = "apiResource")
    BY <2>1 DEF set
  <2> QED BY <2>6, <2>9, <2>10
<1>4. ResourceBindings(f) = Flattened(Picked(each, I))
  BY DEF ResourceBindings
<1> HIDE DEF of
<1>5. /\ each \in Seq(Seq(BindingFacts)) /\ I \in SUBSET DOMAIN each /\ I \in SUBSET DOMAIN f.routes
      /\ \A i \in DOMAIN f.routes : each[i] = of(i)
  BY <1>2, <1>3 DEF Stated
<1> HIDE DEF each
<1>6. /\ Flattened(Picked(each, I)) \in Seq(BindingFacts)
      /\ \A b : b \in ToSet(Flattened(Picked(each, I))) <=> \E i \in I : b \in ToSet(each[i])
  <2> HIDE DEF I
  <2> QED BY <1>5, FlatPickedElements
<1>7. \A b : (\E i \in I : b \in ToSet(each[i])) <=>
        \E i \in I : \E m \in ToSet(ResourceMethods(f.routes[i].form = "apiResource")) :
          b = Binding(RouteClass(f, i), m[1], m[2])
  <2>1. TAKE b
  <2>2. \A i \in I : i \in DOMAIN f.routes /\ each[i] = of(i)
    BY <1>5
  <2> HIDE DEF I
  <2>3. \A i \in I : b \in ToSet(each[i]) <=>
          \E m \in ToSet(ResourceMethods(f.routes[i].form = "apiResource")) :
            b = Binding(RouteClass(f, i), m[1], m[2])
    BY <1>3, <2>2
  <2> QED BY <2>3
<1> QED BY <1>4, <1>6, <1>7

LEMMA OneByOneBindings ==
    ASSUME NEW f \in Texts
    PROVE  /\ PairBindings(f) \in Seq(BindingFacts) /\ InvokableBindings(f) \in Seq(BindingFacts)
           /\ ToSet(PairBindings(f))
                = {Binding(RouteClass(f, i), f.routes[i].method, Verbs(f.routes[i].verb)) :
                     i \in Stated(f, {"pair"})}
           /\ ToSet(InvokableBindings(f))
                = {Binding(RouteClass(f, i), "__invoke", Verbs(f.routes[i].verb)) : i \in Invoked(f)}
<1>1. f.routes \in Seq(Statements)
  BY DEF Texts
<1>2. DOMAIN f.routes = 1 .. Len(f.routes) /\ Len(f.routes) \in Nat
  BY <1>1
<1> DEFINE s == [i \in DOMAIN f.routes |->
                   Binding(RouteClass(f, i), f.routes[i].method, Verbs(f.routes[i].verb))]
           t == [i \in DOMAIN f.routes |->
                   Binding(RouteClass(f, i), "__invoke", Verbs(f.routes[i].verb))]
           I == Stated(f, {"pair"})
           J == Invoked(f)
<1>3. ASSUME NEW i \in DOMAIN f.routes
      PROVE  /\ Binding(RouteClass(f, i), f.routes[i].method, Verbs(f.routes[i].verb)) \in BindingFacts
             /\ Binding(RouteClass(f, i), "__invoke", Verbs(f.routes[i].verb)) \in BindingFacts
  <2>1. f.routes[i] \in Statements
    BY <1>1
  <2>2. f.routes[i].method \in Names \cup {None} /\ f.routes[i].verb \in STRING \cup {None}
    BY <2>1 DEF Statements
  <2>3. Verbs(f.routes[i].verb) \in Seq(STRING \cup {None} \cup HttpVerbs)
    BY <2>2, VerbsTyped
  <2>4. RouteClass(f, i) \in Names
    BY RouteClassTyped
  <2>5. {f.routes[i].method, "__invoke"} \subseteq Names \cup {None, "__invoke"} \cup ResourceActions
    BY <2>2
  <2> QED BY <2>3, <2>4, <2>5 DEF Binding, BindingFacts
<1>4. s \in Seq(BindingFacts) /\ t \in Seq(BindingFacts)
  BY <1>2, <1>3
<1>5. I \in SUBSET DOMAIN s /\ J \in SUBSET DOMAIN t
  BY DEF Stated, Invoked
<1>6. PairBindings(f) = Picked(s, I) /\ InvokableBindings(f) = Picked(t, J)
  BY DEF PairBindings, InvokableBindings
<1>7. /\ \A i \in I : s[i] = Binding(RouteClass(f, i), f.routes[i].method, Verbs(f.routes[i].verb))
      /\ \A i \in J : t[i] = Binding(RouteClass(f, i), "__invoke", Verbs(f.routes[i].verb))
  BY <1>5
<1> HIDE DEF s, t
<1>8. /\ PairBindings(f) \in Seq(BindingFacts) /\ InvokableBindings(f) \in Seq(BindingFacts)
      /\ ToSet(PairBindings(f)) = {s[i] : i \in I} /\ ToSet(InvokableBindings(f)) = {t[i] : i \in J}
  <2> HIDE DEF I, J
  <2> QED BY <1>4, <1>5, <1>6, PickedElements
<1> QED BY <1>7, <1>8

LEMMA FileBindingsTyped ==
    ASSUME NEW f \in Texts PROVE ExtractRouteBindings(f) \in Seq(BindingFacts)
<1>1. /\ ResourceBindings(f) \in Seq(BindingFacts)
      /\ PairBindings(f) \in Seq(BindingFacts) /\ InvokableBindings(f) \in Seq(BindingFacts)
  BY ResourceBindingsAre, OneByOneBindings
<1> QED BY <1>1 DEF ExtractRouteBindings

\* collect_route_bindings returns a list.
RouteBindings(fs) ==
    Dedup(Flattened([i \in DOMAIN fs |-> ExtractRouteBindings(fs[i].source)]))

LEMMA BindingsTyped ==
    ASSUME NEW fs \in Seq(FileFacts)
    PROVE  RouteBindings(fs) \in Seq(BindingFacts)
<1> DEFINE each == [i \in DOMAIN fs |-> ExtractRouteBindings(fs[i].source)]
<1>1. each \in Seq(Seq(BindingFacts))
  <2>1. \A i \in DOMAIN fs : fs[i].source \in Texts
    <3>1. \A i \in DOMAIN fs : fs[i] \in FileFacts
      OBVIOUS
    <3>2. \A x \in FileFacts : x.source \in Texts
      BY DEF FileFacts
    <3> QED BY <3>1, <3>2
  <2>2. \A i \in DOMAIN fs : ExtractRouteBindings(fs[i].source) \in Seq(BindingFacts)
    BY <2>1, FileBindingsTyped
  <2>3. DOMAIN fs = 1 .. Len(fs) /\ Len(fs) \in Nat
    OBVIOUS
  <2> QED BY <2>2, <2>3
<1> HIDE DEF each
<1>2. Flattened(each) \in Seq(BindingFacts)
  BY <1>1, FlattenedElements
<1>3. Dedup(Flattened(each)) \in Seq(BindingFacts)
  BY <1>2, DedupIs
<1> QED BY <1>3 DEF RouteBindings, each

LEMMA RouteOrderIs ==
    ASSUME bindings \in Seq(BindingFacts), NEW fqcn, NEW method
    PROVE  /\ RouteOrder(fqcn, method) \in Nat
           /\ Routed(fqcn, method) =>
                /\ RouteOrder(fqcn, method) \in Bound(fqcn, method)
                /\ \A k \in Bound(fqcn, method) : RouteOrder(fqcn, method) <= k
<1>1. DOMAIN bindings = 1 .. Len(bindings) /\ Len(bindings) \in Nat
  OBVIOUS
<1>2. Bound(fqcn, method) \in SUBSET (1 .. Len(bindings))
  BY <1>1 DEF Bound
<1>3. CASE Routed(fqcn, method)
  <2>1. Bound(fqcn, method) # {}
    BY <1>3 DEF Routed
  <2>2. /\ FirstOf(Bound(fqcn, method)) \in Bound(fqcn, method)
        /\ \A k \in Bound(fqcn, method) : FirstOf(Bound(fqcn, method)) <= k
    BY <1>1, <1>2, <2>1, FirstAndLast
  <2>3. RouteOrder(fqcn, method) = FirstOf(Bound(fqcn, method))
    BY <1>3 DEF RouteOrder
  <2>4. FirstOf(Bound(fqcn, method)) \in Nat
    BY <1>2, <2>2
  <2> QED BY <2>2, <2>3, <2>4
<1>4. CASE ~Routed(fqcn, method)
  BY <1>1, <1>4 DEF RouteOrder
<1> QED BY <1>3, <1>4

\* Sorting a controller's methods keeps them; they come by route, then by name.
BoundIn(bs, fqcn, method) == {i \in DOMAIN bs : bs[i].fqcn = fqcn /\ bs[i].method = method}
\* RouteOrder, of any list of bindings.
OrderIn(bs, fqcn, method) ==
    IF BoundIn(bs, fqcn, method) # {} THEN FirstOf(BoundIn(bs, fqcn, method)) ELSE Len(bs) + 1
InRouteOrder(bs, c) ==
    \A i, k \in DOMAIN c.methods :
      i < k => \/ OrderIn(bs, c.fqcn, c.methods[i].name) < OrderIn(bs, c.fqcn, c.methods[k].name)
               \/ /\ OrderIn(bs, c.fqcn, c.methods[i].name) = OrderIn(bs, c.fqcn, c.methods[k].name)
                  /\ Rank[c.methods[i].name] <= Rank[c.methods[k].name]

LEMMA OrderInIs ==
    ASSUME NEW fqcn, NEW method
    PROVE  /\ Bound(fqcn, method) = BoundIn(bindings, fqcn, method)
           /\ RouteOrder(fqcn, method) = OrderIn(bindings, fqcn, method)
BY DEF RouteOrder, Routed, Bound, BoundIn, OrderIn

LEMMA SortedIs ==
    ASSUME bindings \in Seq(BindingFacts), NEW O, \A x \in O : x.name \in Names,
           NEW c \in [fqcn : Names, file : Names, methods : Seq(O)]
    PROVE  /\ Sorted(c) \in [fqcn : Names, file : Names, methods : Seq(O)]
           /\ Key(Sorted(c)) = Key(c) /\ Len(Sorted(c).methods) = Len(c.methods)
           /\ ToSet(Sorted(c).methods) = ToSet(c.methods)
           /\ InRouteOrder(bindings, Sorted(c))
<1> DEFINE k == [i \in DOMAIN c.methods |-> Rank[c.methods[i].name]]
           named == SortedBy(c.methods, k)
           order == [i \in DOMAIN named |-> RouteOrder(c.fqcn, named[i].name)]
           s == SortedBy(named, order)
<1>1. c.methods \in Seq(O)
  OBVIOUS
<1>2. k \in [DOMAIN c.methods -> Nat]
  <2>1. \A i \in DOMAIN c.methods : c.methods[i].name \in Names
    BY <1>1
  <2> QED BY <2>1, NamesAssumption DEF Names
<1>k. \A i \in DOMAIN c.methods : k[i] = Rank[c.methods[i].name]
  OBVIOUS
<1>3. Sorted(c) = [c EXCEPT !.methods = s]
  BY DEF Sorted
<1> HIDE DEF k
<1>4. /\ named \in Seq(O) /\ Len(named) = Len(c.methods) /\ DOMAIN named = DOMAIN c.methods
      /\ ToSet(named) = ToSet(c.methods)
  BY <1>1, <1>2, SortedElements
<1>5. PICK at \in [DOMAIN c.methods -> DOMAIN c.methods] :
        /\ named = [m \in DOMAIN c.methods |-> c.methods[at[m]]]
        /\ \A m, n \in DOMAIN c.methods :
             m < n => k[at[m]] < k[at[n]] \/ (k[at[m]] = k[at[n]] /\ at[m] < at[n])
  BY <1>1, <1>2, SortIsStable
<1>6. \A m, n \in DOMAIN named : m < n => Rank[named[m].name] <= Rank[named[n].name]
  <2> SUFFICES ASSUME NEW m \in DOMAIN named, NEW n \in DOMAIN named, m < n
               PROVE  Rank[named[m].name] <= Rank[named[n].name]
    OBVIOUS
  <2>1. k[at[m]] <= k[at[n]]
    <3>1. k[at[m]] \in Nat /\ k[at[n]] \in Nat
      BY <1>2, <1>4
    <3>2. k[at[m]] < k[at[n]] \/ k[at[m]] = k[at[n]]
      BY <1>4, <1>5
    <3> QED BY <3>1, <3>2
  <2>2. named[m] = c.methods[at[m]] /\ named[n] = c.methods[at[n]]
    BY <1>4, <1>5
  <2>3. k[at[m]] = Rank[named[m].name] /\ k[at[n]] = Rank[named[n].name]
    BY <1>4, <1>k, <2>2
  <2> QED BY <2>1, <2>3
<1> HIDE DEF named
<1>7. order \in [DOMAIN named -> Nat] /\ \A i \in DOMAIN named : order[i] = RouteOrder(c.fqcn, named[i].name)
  <2>1. \A i \in DOMAIN named : RouteOrder(c.fqcn, named[i].name) \in Nat
    BY RouteOrderIs
  <2> QED BY <2>1
<1> HIDE DEF order
<1>8. s \in Seq(O) /\ Len(s) = Len(named) /\ DOMAIN s = DOMAIN named /\ ToSet(s) = ToSet(named)
  BY <1>4, <1>7, SortedElements
<1>9. PICK to \in [DOMAIN named -> DOMAIN named] :
        /\ s = [m \in DOMAIN named |-> named[to[m]]]
        /\ \A m, n \in DOMAIN named :
             m < n => order[to[m]] < order[to[n]] \/ (order[to[m]] = order[to[n]] /\ to[m] < to[n])
  BY <1>4, <1>7, SortIsStable
<1>10. \A m, n \in DOMAIN s : m < n =>
         \/ RouteOrder(c.fqcn, s[m].name) < RouteOrder(c.fqcn, s[n].name)
         \/ /\ RouteOrder(c.fqcn, s[m].name) = RouteOrder(c.fqcn, s[n].name)
            /\ Rank[s[m].name] <= Rank[s[n].name]
  <2> SUFFICES ASSUME NEW m \in DOMAIN s, NEW n \in DOMAIN s, m < n
               PROVE  \/ RouteOrder(c.fqcn, s[m].name) < RouteOrder(c.fqcn, s[n].name)
                      \/ /\ RouteOrder(c.fqcn, s[m].name) = RouteOrder(c.fqcn, s[n].name)
                         /\ Rank[s[m].name] <= Rank[s[n].name]
    OBVIOUS
  <2>1. /\ s[m] = named[to[m]] /\ s[n] = named[to[n]]
        /\ to[m] \in DOMAIN named /\ to[n] \in DOMAIN named
    BY <1>8, <1>9
  <2>2. /\ order[to[m]] = RouteOrder(c.fqcn, s[m].name)
        /\ order[to[n]] = RouteOrder(c.fqcn, s[n].name)
    BY <1>7, <2>1
  <2>3. order[to[m]] < order[to[n]] \/ (order[to[m]] = order[to[n]] /\ to[m] < to[n])
    BY <1>8, <1>9
  <2>4. to[m] < to[n] => Rank[s[m].name] <= Rank[s[n].name]
    BY <1>6, <2>1
  <2> QED BY <2>2, <2>3, <2>4
<1> HIDE DEF s
<1>11. /\ Sorted(c) \in [fqcn : Names, file : Names, methods : Seq(O)]
       /\ Sorted(c).methods = s /\ Sorted(c).fqcn = c.fqcn /\ Sorted(c).file = c.file
  BY <1>3, <1>8
<1>12. Key(Sorted(c)) = Key(c)
  BY <1>11 DEF Key
<1>13. InRouteOrder(bindings, Sorted(c))
  BY <1>10, <1>11, OrderInIs DEF InRouteOrder
<1> QED BY <1>4, <1>8, <1>11, <1>12, <1>13

-----------------------------------------------------------------------------
(* The invariant: what has been merged so far is what has been met so far. *)

\* The class and file of each cell, and what it adds to their entry.
ModelKeys == [q \in ModelCells |-> ModelKey(q)]
ModelRels == [q \in ModelCells |-> ShownRels(ModelAt(q))]
MethodKeys == [q \in MethodCells |-> MethodKey(q)]
MethodOuts == [q \in MethodCells |-> MethodOut(MethodAt(q))]
KeptCells == {q \in MethodCells : Kept(MethodAt(q))}

\* The cells in front of the next one, a file's methods before its models
MethodsDone == {q \in MethodCells : q[1] < next \/ (q[1] = next /\ q[2] < item)}
ModelsDone ==
    {q \in ModelCells : \/ q[1] < next
                        \/ q[1] = next /\ q[2] + Len(files[q[1]].controllers) < item}

\* The analysed files are files of facts, with different paths.
FilesTyped ==
    /\ files \in Seq(FileFacts)
    /\ \A i, k \in DOMAIN files : files[i].path = files[k].path => i = k

\* next and item are a place in the files, or just behind one.
Positions ==
    /\ next \in 1 .. Len(files) + 1 /\ item \in Nat \ {0}
    /\ next <= Len(files) =>
         item <= Len(files[next].controllers) + Len(files[next].models) + 1
    /\ next = Len(files) + 1 => item = 1

\* Nothing is merged before the routes are collected.
Untouched ==
    /\ next = 1 /\ item = 1
    /\ controllers = <<>> /\ models = <<>> /\ broadcast = <<>> /\ remaining = <<>>
    /\ polymorphic = [n \in Morphs |-> <<>>]

\* The polymorphic groups and channels of the files in front.
MorphsMerged ==
    /\ polymorphic \in [Morphs -> Seq(AllMorphFacts)]
    /\ \A n \in Morphs :
         ToSet(polymorphic[n]) = UNION {ToSet(files[h].polymorphic[n]) : h \in 1 .. next - 1}

OncePerChannel(s) == \A i, k \in DOMAIN s : s[i].channel = s[k].channel => i = k
ChannelNames(s) == {b.channel : b \in ToSet(s)}
ChannelsMerged ==
    /\ broadcast \in Seq(BroadcastFacts) /\ OncePerChannel(broadcast)
    /\ Channels = UNION {ChannelNames(files[h].broadcast) : h \in 1 .. next - 1}

\* Methods stay in route order once they are arranged.
InOrder == stage \in {"order", "done"} => \A i \in DOMAIN controllers : InRouteOrder(bindings, controllers[i])

\* What is merged at each stage: nothing, what lies in front, everything.
MergeInv ==
    /\ stage \in {"analyze", "routes", "collect", "order", "done"}
    /\ stage = "analyze" => files \in Projects
    /\ stage \in {"analyze", "routes"} => Untouched
    /\ stage # "analyze" =>
         /\ FilesTyped /\ Positions
         /\ MergedMethods(controllers, MethodsDone \cap KeptCells, MethodKeys, MethodOuts)
         /\ MorphsMerged /\ ChannelsMerged
    /\ stage \in {"routes", "collect"} =>
         MergedModels(models, ModelsDone, ModelKeys, ModelRels) /\ remaining = <<>>
    /\ stage \in {"order", "done"} =>
         next = Len(files) + 1 /\ Pooled(models, remaining, ModelCells, ModelKeys, ModelRels)
    /\ stage \in {"collect", "order", "done"} => bindings = RouteBindings(files)
    /\ stage = "done" => remaining = <<>>
    /\ InOrder

\* What the cells of typed files hold.
LEMMA CellsHold ==
    ASSUME FilesTyped
    PROVE  /\ DOMAIN files = 1 .. Len(files) /\ Len(files) \in Nat
           /\ \A i \in DOMAIN files : files[i] \in FileFacts
           /\ \A i \in DOMAIN files :
                /\ files[i].path \in Names /\ files[i].source \in Texts
                /\ files[i].controllers \in Seq(ControllerFacts)
                /\ files[i].models \in Seq(AllModelFacts)
                /\ files[i].polymorphic \in [Morphs -> Seq(AllMorphFacts)]
                /\ files[i].broadcast \in Seq(BroadcastFacts)
<1>1. files \in Seq(FileFacts)
  BY DEF FilesTyped
<1>2. \A i \in DOMAIN files : files[i] \in FileFacts
  BY <1>1
<1>3. DOMAIN files = 1 .. Len(files) /\ Len(files) \in Nat
  BY <1>1
<1>4. \A f \in FileFacts : /\ f.path \in Names /\ f.source \in Texts
                           /\ f.controllers \in Seq(ControllerFacts)
                           /\ f.models \in Seq(AllModelFacts)
                           /\ f.polymorphic \in [Morphs -> Seq(AllMorphFacts)]
                           /\ f.broadcast \in Seq(BroadcastFacts)
  BY DEF FileFacts
<1> QED BY <1>2, <1>3, <1>4

LEMMA MethodCellsHold ==
    ASSUME FilesTyped
    PROVE  /\ IsFiniteSet(MethodCells)
           /\ \A q \in MethodCells : /\ q = <<q[1], q[2]>> /\ q[1] \in DOMAIN files
                                     /\ q[2] \in DOMAIN files[q[1]].controllers
                                     /\ q[1] \in Nat /\ q[2] \in Nat \ {0}
                                     /\ q[2] <= Len(files[q[1]].controllers)
                                     /\ MethodAt(q) \in ControllerFacts
           /\ \A i \in DOMAIN files : \A k \in DOMAIN files[i].controllers : <<i, k>> \in MethodCells
<1> DEFINE ss == [h \in DOMAIN files |-> files[h].controllers]
<1>1. /\ DOMAIN files = 1 .. Len(files) /\ Len(files) \in Nat
      /\ \A i \in DOMAIN files : files[i].controllers \in Seq(ControllerFacts)
  BY CellsHold
<1>2. ss \in Seq(Seq(ControllerFacts)) /\ DOMAIN ss = DOMAIN files
      /\ \A i \in DOMAIN files : ss[i] = files[i].controllers
  BY <1>1
<1>3. MethodCells = Cells(ss)
  BY DEF MethodCells
<1> HIDE DEF ss
<1>4. /\ IsFiniteSet(Cells(ss))
      /\ \A q \in Cells(ss) : q = <<q[1], q[2]>> /\ q[1] \in DOMAIN ss /\ q[2] \in DOMAIN ss[q[1]]
      /\ \A i \in DOMAIN ss : \A k \in DOMAIN ss[i] : <<i, k>> \in Cells(ss)
  BY <1>2, CellsFinite
<1>5. \A i \in DOMAIN files : \A k \in DOMAIN files[i].controllers :
        /\ i \in Nat /\ k \in Nat \ {0} /\ k <= Len(files[i].controllers)
        /\ files[i].controllers[k] \in ControllerFacts
  BY <1>1
<1> QED BY <1>2, <1>3, <1>4, <1>5 DEF MethodAt

LEMMA ModelCellsHold ==
    ASSUME FilesTyped
    PROVE  /\ IsFiniteSet(ModelCells)
           /\ \A q \in ModelCells : /\ q = <<q[1], q[2]>> /\ q[1] \in DOMAIN files
                                    /\ q[2] \in DOMAIN files[q[1]].models
                                    /\ q[1] \in Nat /\ q[2] \in Nat \ {0}
                                    /\ q[2] <= Len(files[q[1]].models)
                                    /\ ModelAt(q) \in AllModelFacts
           /\ \A i \in DOMAIN files : \A k \in DOMAIN files[i].models : <<i, k>> \in ModelCells
<1> DEFINE ss == [h \in DOMAIN files |-> files[h].models]
<1>1. /\ DOMAIN files = 1 .. Len(files) /\ Len(files) \in Nat
      /\ \A i \in DOMAIN files : files[i].models \in Seq(AllModelFacts)
  BY CellsHold
<1>2. ss \in Seq(Seq(AllModelFacts)) /\ DOMAIN ss = DOMAIN files
      /\ \A i \in DOMAIN files : ss[i] = files[i].models
  BY <1>1
<1>3. ModelCells = Cells(ss)
  BY DEF ModelCells
<1> HIDE DEF ss
<1>4. /\ IsFiniteSet(Cells(ss))
      /\ \A q \in Cells(ss) : q = <<q[1], q[2]>> /\ q[1] \in DOMAIN ss /\ q[2] \in DOMAIN ss[q[1]]
      /\ \A i \in DOMAIN ss : \A k \in DOMAIN ss[i] : <<i, k>> \in Cells(ss)
  BY <1>2, CellsFinite
<1>5. \A i \in DOMAIN files : \A k \in DOMAIN files[i].models :
        /\ i \in Nat /\ k \in Nat \ {0} /\ k <= Len(files[i].models)
        /\ files[i].models[k] \in AllModelFacts
  BY <1>1
<1> QED BY <1>2, <1>3, <1>4, <1>5 DEF ModelAt

LEMMA ShownTyped ==
    ASSUME NEW m \in AllModelFacts PROVE ShownRels(m) \in Seq(ShownFacts)
<1>1. m.rels \in Seq(RelationFacts)
  BY DEF AllModelFacts
<1>2. \A r \in RelationFacts : ShownRel(r) \in ShownFacts
  BY DEF RelationFacts, ShownRel, ShownFacts
<1>3. DOMAIN m.rels = 1 .. Len(m.rels) /\ Len(m.rels) \in Nat /\ \A k \in DOMAIN m.rels : m.rels[k] \in RelationFacts
  BY <1>1
<1> QED BY <1>2, <1>3 DEF ShownRels

\* Where neither files nor bindings change, what they say does not.
LEMMA SameFacts ==
    ASSUME files' = files, bindings' = bindings
    PROVE  /\ MethodCells' = MethodCells /\ ModelCells' = ModelCells
           /\ MethodKeys' = MethodKeys /\ MethodOuts' = MethodOuts /\ KeptCells' = KeptCells
           /\ ModelKeys' = ModelKeys /\ ModelRels' = ModelRels
           /\ FilesTyped' = FilesTyped
<1>1. MethodCells' = MethodCells /\ ModelCells' = ModelCells
  BY DEF MethodCells, ModelCells
<1>2. MethodKeys' = MethodKeys
  BY <1>1 DEF MethodKeys, MethodKey, MethodAt
<1>3. ModelKeys' = ModelKeys
  BY <1>1 DEF ModelKeys, ModelKey, ModelAt
<1>4. ModelRels' = ModelRels
  BY <1>1 DEF ModelRels, ModelAt
<1>5. KeptCells' = KeptCells
  BY <1>1 DEF KeptCells, Kept, MethodAt, Routed, Bound
<1>6. MethodOuts' = MethodOuts
  BY <1>1 DEF MethodOuts, MethodAt, MethodOut, HttpMethods, HttpStatus, Routed, Bound,
              Owned, Owner, ScopeModels, AllModels
<1>7. FilesTyped' = FilesTyped
  BY DEF FilesTyped
<1> QED BY <1>1, <1>2, <1>3, <1>4, <1>5, <1>6, <1>7

LEMMA SameControllers ==
    ASSUME files' = files, bindings' = bindings, controllers' = controllers,
           MethodsDone' = MethodsDone,
           MergedMethods(controllers, MethodsDone \cap KeptCells, MethodKeys, MethodOuts)
    PROVE  MergedMethods(controllers, MethodsDone \cap KeptCells, MethodKeys, MethodOuts)'
BY SameFacts, ZenonT(60) DEF MergedMethods

LEMMA SameModels ==
    ASSUME files' = files, bindings' = bindings, models' = models, ModelsDone' = ModelsDone,
           MergedModels(models, ModelsDone, ModelKeys, ModelRels)
    PROVE  MergedModels(models, ModelsDone, ModelKeys, ModelRels)'
BY SameFacts DEF MergedModels, SumOf

LEMMA SameMorphs ==
    ASSUME files' = files, polymorphic' = polymorphic, next' = next, MorphsMerged
    PROVE  MorphsMerged'
BY DEF MorphsMerged

LEMMA SameChannels ==
    ASSUME files' = files, broadcast' = broadcast, next' = next, ChannelsMerged
    PROVE  ChannelsMerged'
BY DEF ChannelsMerged, Channels

LEMMA AddMethodIs ==
    ASSUME NEW cs, NEW c, NEW file
    PROVE  AddMethod(cs, c, file) = IF Kept(c) THEN JoinMethod(cs, c.fqcn, file, MethodOut(c)) ELSE cs
BY DEF AddMethod, JoinMethod

LEMMA AddModelIs ==
    ASSUME NEW ms, NEW m, NEW file
    PROVE  AddModel(ms, m, file) = JoinModel(ms, m.fqcn, file, ShownRels(m))
BY DEF AddModel, JoinModel

LEMMA ControllerMerged ==
    ASSUME MergeInv, MergeController PROVE MergeInv'
<1>1. /\ stage = "collect" /\ stage' = "collect" /\ next <= Len(files) /\ next' = next
      /\ files' = files /\ bindings' = bindings /\ models' = models
      /\ polymorphic' = polymorphic /\ broadcast' = broadcast /\ remaining' = remaining
      /\ item <= Len(files[next].controllers) /\ item' = item + 1
      /\ controllers' = AddMethod(controllers, files[next].controllers[item], files[next].path)
  BY DEF MergeController, Merging
<1>2. /\ FilesTyped /\ Positions
      /\ MergedMethods(controllers, MethodsDone \cap KeptCells, MethodKeys, MethodOuts)
      /\ MorphsMerged /\ ChannelsMerged
      /\ MergedModels(models, ModelsDone, ModelKeys, ModelRels) /\ remaining = <<>>
      /\ bindings = RouteBindings(files)
  BY <1>1 DEF MergeInv
<1> DEFINE q == <<next, item>>
           f == files[next]
           c == f.controllers[item]
<1>3. next \in DOMAIN files /\ next \in Nat /\ item \in Nat \ {0} /\ next \in 1 .. Len(files) + 1
  BY <1>1, <1>2, CellsHold DEF Positions
<1>4. /\ f.controllers \in Seq(ControllerFacts) /\ f.models \in Seq(AllModelFacts)
      /\ f.path \in Names
  BY <1>2, <1>3, CellsHold
<1>5. item \in DOMAIN f.controllers /\ Len(f.controllers) \in Nat /\ Len(f.models) \in Nat
  BY <1>1, <1>3, <1>4
<1>6. /\ q \in MethodCells /\ q \notin MethodsDone /\ MethodAt(q) = c /\ c \in ControllerFacts
      /\ c.fqcn \in Names
  <2>1. q \in MethodCells
    BY <1>2, <1>3, <1>5, MethodCellsHold
  <2>2. q \notin MethodsDone
    BY <1>3 DEF MethodsDone
  <2>3. MethodAt(q) = c /\ c \in ControllerFacts
    BY <1>4, <1>5 DEF MethodAt
  <2>4. c.fqcn \in Names
    BY <2>3 DEF ControllerFacts
  <2> QED BY <2>1, <2>2, <2>3, <2>4
<1>7. MethodKeys[q] = <<c.fqcn, f.path>> /\ MethodOuts[q] = MethodOut(c) /\ DOMAIN MethodOuts = MethodCells
  BY <1>6 DEF MethodKeys, MethodOuts, MethodKey
<1>8. /\ MethodCells' = MethodCells /\ ModelCells' = ModelCells /\ KeptCells' = KeptCells
      /\ MethodKeys' = MethodKeys /\ MethodOuts' = MethodOuts /\ FilesTyped' = FilesTyped
  BY <1>1, SameFacts
<1>9. MethodsDone' = MethodsDone \cup {q}
  <2>1. \A p \in MethodCells : /\ p = <<p[1], p[2]>> /\ p[1] \in Nat /\ p[2] \in Nat
    BY <1>2, MethodCellsHold
  <2>2. MethodsDone' = {p \in MethodCells : p[1] < next \/ (p[1] = next /\ p[2] < item + 1)}
    BY <1>1, <1>8 DEF MethodsDone
  <2>3. \A p \in MethodCells : (p[1] = next /\ p[2] < item + 1) <=> ((p[1] = next /\ p[2] < item) \/ p = q)
    BY <1>3, <2>1
  <2> QED BY <1>3, <1>6, <2>2, <2>3 DEF MethodsDone
<1>10. ModelsDone' = ModelsDone
  <2>1. \A p \in ModelCells : p[1] \in Nat /\ p[2] \in Nat \ {0}
    BY <1>2, ModelCellsHold
  <2>2. ModelsDone' = {p \in ModelCells : \/ p[1] < next
                                          \/ p[1] = next /\ p[2] + Len(files[p[1]].controllers) < item + 1}
    BY <1>1, <1>8 DEF ModelsDone
  <2>3. \A p \in ModelCells : p[1] = next =>
          /\ ~(p[2] + Len(files[p[1]].controllers) < item + 1)
          /\ ~(p[2] + Len(files[p[1]].controllers) < item)
    <3>1. \A n \in Nat \ {0} : /\ ~(n + Len(f.controllers) < item + 1)
                               /\ ~(n + Len(f.controllers) < item)
      BY <1>1, <1>3, <1>5
    <3> QED BY <2>1, <3>1
  <2> QED BY <2>2, <2>3 DEF ModelsDone
<1>11. MergedMethods(controllers, MethodsDone \cap KeptCells, MethodKeys, MethodOuts)'
  <2> DEFINE D == MethodsDone \cap KeptCells
  <2>1. controllers' = IF Kept(c) THEN JoinMethod(controllers, c.fqcn, f.path, MethodOut(c)) ELSE controllers
    BY <1>1, AddMethodIs
  <2>2. MergedMethods(controllers, D, MethodKeys, MethodOuts)
    BY <1>2
  <2>3. D \in SUBSET MethodCells /\ IsFiniteSet(D) /\ q \notin D
    <3>1. D \in SUBSET MethodCells /\ q \notin D
      BY <1>6 DEF MethodsDone
    <3>2. IsFiniteSet(MethodCells)
      BY <1>2, MethodCellsHold
    <3> QED BY <3>1, <3>2, FS_Subset
  <2>4. CASE Kept(c)
    <3>1. MethodsDone' \cap KeptCells' = D \cup {q}
      <4>1. q \in KeptCells
        BY <1>6, <2>4 DEF KeptCells
      <4> QED BY <1>8, <1>9, <4>1
    <3>2. controllers' = JoinMethod(controllers, c.fqcn, f.path, MethodOuts[q])
      BY <1>7, <2>1, <2>4
    <3> HIDE DEF D, q, f, c
    <3>3. MergedMethods(JoinMethod(controllers, c.fqcn, f.path, MethodOuts[q]), D \cup {q}, MethodKeys, MethodOuts)
      BY <1>4, <1>6, <1>7, <2>2, <2>3, MethodJoined
    <3>4. MergedMethods(controllers', MethodsDone' \cap KeptCells', MethodKeys', MethodOuts')
      BY <1>8, <3>1, <3>2, <3>3
    <3> QED BY <3>4 DEF MergedMethods
  <2>5. CASE ~Kept(c)
    <3>1. MethodsDone' \cap KeptCells' = D
      <4>1. q \notin KeptCells
        BY <1>6, <2>5 DEF KeptCells
      <4> QED BY <1>8, <1>9, <4>1
    <3> HIDE DEF D
    <3>2. MergedMethods(controllers', MethodsDone' \cap KeptCells', MethodKeys', MethodOuts')
      BY <1>8, <2>1, <2>2, <2>5, <3>1
    <3> QED BY <3>2 DEF MergedMethods
  <2> QED BY <2>4, <2>5
<1>12. MergedModels(models, ModelsDone, ModelKeys, ModelRels)'
  BY <1>1, <1>2, <1>10, SameModels
<1>13. MorphsMerged' /\ ChannelsMerged'
  BY <1>1, <1>2, SameMorphs, SameChannels
<1>14. Positions'
  <2>1. item + 1 <= Len(f.controllers) + Len(f.models) + 1 /\ item + 1 \in Nat \ {0} /\ next # Len(files) + 1
    <3>1. Len(files) \in Nat
      BY <1>2, CellsHold
    <3>2. item <= Len(f.controllers)
      BY <1>1
    <3>3. Len(f.controllers) \in Nat /\ Len(f.models) \in Nat
      BY <1>5
    <3> HIDE DEF f
    <3>4. item + 1 <= Len(f.controllers) + Len(f.models) + 1 /\ item + 1 \in Nat \ {0}
      <4>1. \A l, n \in Nat : \A i \in Nat \ {0} :
              i <= l => i + 1 <= l + n + 1 /\ i + 1 \in Nat \ {0}
        OBVIOUS
      <4> QED BY <1>3, <3>2, <3>3, <4>1
    <3>5. next # Len(files) + 1
      BY <1>1, <1>3, <3>1
    <3> QED BY <3>4, <3>5
  <2> QED BY <1>1, <1>3, <2>1 DEF Positions
<1>15. FilesTyped' /\ remaining' = <<>> /\ bindings' = RouteBindings(files')
  BY <1>1, <1>2, <1>8
<1> QED BY <1>1, <1>11, <1>12, <1>13, <1>14, <1>15 DEF MergeInv, InOrder

LEMMA ModelMerged ==
    ASSUME MergeInv, MergeModel PROVE MergeInv'
<1> DEFINE f == files[next]
           k == item - Len(f.controllers)
           q == <<next, k>>
           m == f.models[k]
<1>1. /\ stage = "collect" /\ stage' = "collect" /\ next <= Len(files) /\ next' = next
      /\ files' = files /\ bindings' = bindings /\ controllers' = controllers
      /\ polymorphic' = polymorphic /\ broadcast' = broadcast /\ remaining' = remaining
      /\ k \in DOMAIN f.models /\ item' = item + 1
      /\ models' = AddModel(models, m, f.path)
  BY DEF MergeModel, Merging
<1>2. /\ FilesTyped /\ Positions
      /\ MergedMethods(controllers, MethodsDone \cap KeptCells, MethodKeys, MethodOuts)
      /\ MorphsMerged /\ ChannelsMerged
      /\ MergedModels(models, ModelsDone, ModelKeys, ModelRels) /\ remaining = <<>>
      /\ bindings = RouteBindings(files)
  BY <1>1 DEF MergeInv
<1>3. next \in DOMAIN files /\ next \in Nat /\ item \in Nat \ {0} /\ next \in 1 .. Len(files) + 1
  BY <1>1, <1>2, CellsHold DEF Positions
<1>4. /\ f.controllers \in Seq(ControllerFacts) /\ f.models \in Seq(AllModelFacts)
      /\ f.path \in Names
  BY <1>2, <1>3, CellsHold
<1>5. /\ Len(f.controllers) \in Nat /\ Len(f.models) \in Nat
      /\ k \in Nat \ {0} /\ k <= Len(f.models) /\ item = k + Len(f.controllers)
  <2>1. /\ Len(f.controllers) \in Nat /\ Len(f.models) \in Nat
        /\ DOMAIN f.models = 1 .. Len(f.models)
    BY <1>4
  <2>2. k \in 1 .. Len(f.models)
    BY <1>1, <2>1
  <2>3. item = k + Len(f.controllers)
    BY <1>3, <2>1
  <2> HIDE DEF k
  <2> QED BY <2>1, <2>2, <2>3
<1> HIDE DEF k
<1>6. q \in ModelCells /\ ModelAt(q) = m /\ m \in AllModelFacts /\ m.fqcn \in Names
  <2>1. q \in ModelCells
    BY <1>1, <1>2, <1>3, ModelCellsHold
  <2>2. ModelAt(q) = m /\ m \in AllModelFacts
    BY <1>1, <1>4 DEF ModelAt
  <2>3. m.fqcn \in Names
    BY <2>2 DEF AllModelFacts
  <2> QED BY <2>1, <2>2, <2>3
<1>7. /\ ModelKeys[q] = <<m.fqcn, f.path>> /\ ModelRels[q] = ShownRels(m)
      /\ ShownRels(m) \in Seq(ShownFacts)
  BY <1>6, ShownTyped DEF ModelKeys, ModelRels, ModelKey
<1>8. /\ MethodCells' = MethodCells /\ ModelCells' = ModelCells
      /\ ModelKeys' = ModelKeys /\ ModelRels' = ModelRels /\ FilesTyped' = FilesTyped
  BY <1>1, SameFacts
<1>9. MethodsDone' = MethodsDone
  <2>1. \A p \in MethodCells : p[1] \in Nat /\ p[2] \in Nat /\ p[2] <= Len(files[p[1]].controllers)
    BY <1>2, MethodCellsHold
  <2>2. MethodsDone' = {p \in MethodCells : p[1] < next \/ (p[1] = next /\ p[2] < item + 1)}
    BY <1>1, <1>8 DEF MethodsDone
  <2>3. \A p \in MethodCells : p[1] = next => p[2] < item /\ p[2] < item + 1
    <3>1. \A n \in Nat : n <= Len(f.controllers) => n < item /\ n < item + 1
      BY <1>5
    <3> QED BY <2>1, <3>1
  <2> QED BY <2>2, <2>3 DEF MethodsDone
<1>10. ModelsDone' = ModelsDone \cup {q}
  <2>1. \A p \in ModelCells : p = <<p[1], p[2]>> /\ p[1] \in Nat /\ p[2] \in Nat \ {0}
    BY <1>2, ModelCellsHold
  <2>2. ModelsDone' = {p \in ModelCells : \/ p[1] < next
                                          \/ p[1] = next /\ p[2] + Len(files[p[1]].controllers) < item + 1}
    BY <1>1, <1>8 DEF ModelsDone
  <2>3. \A p \in ModelCells : p[1] = next =>
          (p[2] + Len(files[p[1]].controllers) < item + 1
             <=> p[2] + Len(files[p[1]].controllers) < item \/ p = q)
    <3>1. \A n \in Nat \ {0} : n + Len(f.controllers) < item + 1
                                 <=> n + Len(f.controllers) < item \/ n = k
      BY <1>5
    <3> QED BY <2>1, <3>1
  <2>4. q[1] = next
    OBVIOUS
  <2> HIDE DEF q
  <2> QED BY <1>6, <2>2, <2>3, <2>4 DEF ModelsDone
<1>11. MergedModels(models, ModelsDone, ModelKeys, ModelRels)'
  <2>1. models' = JoinModel(models, m.fqcn, f.path, ModelRels[q])
    BY <1>1, <1>7, AddModelIs
  <2>2. ModelRels[q] \in Seq(ShownFacts) /\ ModelKeys[q] = <<m.fqcn, f.path>>
    BY <1>7
  <2> HIDE DEF q, f, m
  <2>3. MergedModels(JoinModel(models, m.fqcn, f.path, ModelRels[q]), ModelsDone \cup {q}, ModelKeys, ModelRels)
    BY <1>2, <1>4, <1>6, <2>2, ModelJoined
  <2>4. MergedModels(models', ModelsDone', ModelKeys', ModelRels')
    BY <1>8, <1>10, <2>1, <2>3
  <2> QED BY <2>4 DEF MergedModels, SumOf
<1>12. MergedMethods(controllers, MethodsDone \cap KeptCells, MethodKeys, MethodOuts)'
  BY <1>1, <1>2, <1>9, SameControllers
<1>13. MorphsMerged' /\ ChannelsMerged'
  BY <1>1, <1>2, SameMorphs, SameChannels
<1>14. Positions'
  <2>1. item + 1 <= Len(f.controllers) + Len(f.models) + 1 /\ item + 1 \in Nat \ {0} /\ next # Len(files) + 1
    BY <1>1, <1>2, <1>3, <1>5, CellsHold
  <2> QED BY <1>1, <1>3, <2>1 DEF Positions
<1>15. FilesTyped' /\ remaining' = <<>> /\ bindings' = RouteBindings(files')
  BY <1>1, <1>2, <1>8
<1> QED BY <1>1, <1>11, <1>12, <1>13, <1>14, <1>15 DEF MergeInv, InOrder

\* A file's channels that are not there yet join the others.
LEMMA ChannelsJoined ==
    ASSUME broadcast \in Seq(BroadcastFacts), OncePerChannel(broadcast),
           NEW bs \in Seq(BroadcastFacts)
    PROVE  LET new == broadcast \o Picked(bs, Unseen(bs))
           IN  /\ new \in Seq(BroadcastFacts) /\ OncePerChannel(new)
               /\ ChannelNames(new) = Channels \cup ChannelNames(bs)
               /\ ToSet(new) = ToSet(broadcast) \cup {bs[k] : k \in Unseen(bs)}
<1> DEFINE U == Unseen(bs)
           more == Picked(bs, U)
           new == broadcast \o more
<1>1. DOMAIN bs = 1 .. Len(bs) /\ Len(bs) \in Nat /\ U \in SUBSET DOMAIN bs
  BY DEF Unseen
<1>2. \A k \in U : /\ bs[k].channel \notin Channels
                   /\ \A l \in 1 .. k - 1 : bs[l].channel # bs[k].channel
  BY DEF Unseen
<1>3. \A k \in DOMAIN bs : bs[k].channel \notin Channels => \E l \in U : bs[l].channel = bs[k].channel
  <2> SUFFICES ASSUME NEW k \in DOMAIN bs, bs[k].channel \notin Channels
               PROVE  \E l \in U : bs[l].channel = bs[k].channel
    OBVIOUS
  <2> DEFINE J == {l \in 1 .. Len(bs) : bs[l].channel = bs[k].channel}
             g == FirstOf(J)
  <2>1. J \in SUBSET (1 .. Len(bs)) /\ J # {}
    BY <1>1
  <2>2. g \in J /\ \A l \in J : g <= l
    BY <1>1, <2>1, FirstAndLast
  <2> HIDE DEF g
  <2>3. g \in 1 .. Len(bs) /\ bs[g].channel = bs[k].channel
    BY <2>2
  <2>4. \A l \in 1 .. g - 1 : l \in 1 .. Len(bs) /\ ~(g <= l)
    BY <1>1, <2>3
  <2>5. \A l \in 1 .. g - 1 : bs[l].channel # bs[g].channel
    BY <2>2, <2>3, <2>4
  <2>6. g \in U
    BY <1>1, <2>3, <2>5 DEF Unseen
  <2> QED BY <2>3, <2>6
<1> HIDE DEF U
<1>4. PICK at : Lists(at, U) /\ more = [n \in 1 .. Cardinality(U) |-> bs[at[n]]]
  <2>1. U \in SUBSET DOMAIN bs /\ bs \in Seq(BroadcastFacts)
    BY <1>1
  <2>2. \E at : Lists(at, U) /\ Picked(bs, U) = [n \in 1 .. Cardinality(U) |-> bs[at[n]]]
    BY ONLY <2>1, PickedIs
  <2> QED BY ONLY <2>2
<1>5. /\ more \in Seq(BroadcastFacts) /\ ToSet(more) = {bs[k] : k \in U}
      /\ Len(more) = Cardinality(U) /\ Cardinality(U) \in Nat
  <2>1. U \in SUBSET DOMAIN bs /\ bs \in Seq(BroadcastFacts)
    BY <1>1
  <2> QED BY ONLY <2>1, PickedElements, PickedIs
<1>6. DOMAIN more = 1 .. Cardinality(U) /\ \A m \in DOMAIN more : at[m] \in U /\ more[m] = bs[at[m]]
  BY <1>4 DEF Lists
<1>7. \A l, m \in DOMAIN more : l < m => at[l] < at[m]
  BY <1>4, <1>6 DEF Lists
<1> HIDE DEF more
<1>8. \A l, m \in DOMAIN more : l < m => more[l].channel # more[m].channel
  <2> SUFFICES ASSUME NEW l \in DOMAIN more, NEW m \in DOMAIN more, l < m
               PROVE  more[l].channel # more[m].channel
    OBVIOUS
  <2>1. at[l] \in U /\ at[m] \in U /\ at[l] < at[m] /\ more[l] = bs[at[l]] /\ more[m] = bs[at[m]]
    BY <1>6, <1>7
  <2>2. at[l] \in 1 .. at[m] - 1
    BY <1>1, <2>1
  <2> QED BY <1>2, <2>1, <2>2
<1>9. \A m \in DOMAIN more : more[m].channel \notin Channels
  BY <1>2, <1>6
<1>10. \A i \in DOMAIN broadcast : broadcast[i].channel \in Channels
  BY InToSet DEF Channels
<1>11. /\ new \in Seq(BroadcastFacts) /\ ToSet(new) = ToSet(broadcast) \cup ToSet(more)
  BY <1>5, JoinElements
<1>12. /\ DOMAIN new = 1 .. Len(broadcast) + Len(more) /\ Len(broadcast) \in Nat /\ Len(more) \in Nat
       /\ DOMAIN broadcast = 1 .. Len(broadcast) /\ DOMAIN more = 1 .. Len(more)
       /\ \A i \in 1 .. Len(broadcast) : new[i] = broadcast[i]
       /\ \A i \in 1 .. Len(more) : new[i + Len(broadcast)] = more[i]
  BY <1>5
<1> HIDE DEF new
<1>13. \A i \in DOMAIN new : \/ i \in DOMAIN broadcast /\ new[i] = broadcast[i]
                             \/ /\ i - Len(broadcast) \in DOMAIN more /\ i \in Nat
                                /\ new[i] = more[i - Len(broadcast)]
  <2> TAKE i \in DOMAIN new
  <2>1. CASE i \in DOMAIN broadcast
    BY <1>12, <2>1
  <2>2. CASE i \notin DOMAIN broadcast
    <3>1. /\ i - Len(broadcast) \in 1 .. Len(more) /\ i = i - Len(broadcast) + Len(broadcast)
          /\ i \in Nat
      BY <1>12, <2>2
    <3>2. new[i - Len(broadcast) + Len(broadcast)] = more[i - Len(broadcast)]
      BY <1>12, <3>1
    <3> QED BY <1>12, <3>1, <3>2
  <2> QED BY <2>1, <2>2
<1>14. OncePerChannel(new)
  <2>1. ASSUME NEW i \in DOMAIN new, NEW k \in DOMAIN new, new[i].channel = new[k].channel
        PROVE  i = k
    <3>1. CASE i \in DOMAIN broadcast /\ new[i] = broadcast[i] /\ k \in DOMAIN broadcast /\ new[k] = broadcast[k]
      BY <2>1, <3>1 DEF OncePerChannel
    <3>2. CASE /\ i - Len(broadcast) \in DOMAIN more /\ new[i] = more[i - Len(broadcast)] /\ i \in Nat
               /\ k - Len(broadcast) \in DOMAIN more /\ new[k] = more[k - Len(broadcast)] /\ k \in Nat
      <4>1. ~(i - Len(broadcast) < k - Len(broadcast)) /\ ~(k - Len(broadcast) < i - Len(broadcast))
        BY <1>8, <2>1, <3>2
      <4> QED BY <1>12, <3>2, <4>1
    <3> QED BY <1>9, <1>10, <1>13, <2>1, <3>1, <3>2
  <2> QED BY <2>1 DEF OncePerChannel
<1>15. ChannelNames(new) = Channels \cup ChannelNames(bs)
  <2>1. ChannelNames(new) = Channels \cup {bs[k].channel : k \in U}
    BY <1>5, <1>11 DEF ChannelNames, Channels
  <2>2. ChannelNames(bs) = {bs[k].channel : k \in DOMAIN bs}
    BY ToSetIs DEF ChannelNames
  <2> QED BY <1>1, <1>3, <2>1, <2>2
<1> QED BY <1>5, <1>11, <1>14, <1>15 DEF new, more, U

LEMMA FactsMerged ==
    ASSUME MergeInv, MergeFacts PROVE MergeInv'
<1> DEFINE f == files[next]
<1>1. /\ stage = "collect" /\ stage' = "collect" /\ next <= Len(files) /\ next' = next + 1
      /\ files' = files /\ bindings' = bindings /\ models' = models /\ controllers' = controllers
      /\ remaining' = remaining
      /\ item > Len(f.controllers) + Len(f.models) /\ item' = 1
      /\ polymorphic' = [n \in Morphs |-> polymorphic[n] \o f.polymorphic[n]]
      /\ broadcast' = broadcast \o Picked(f.broadcast, Unseen(f.broadcast))
  BY DEF MergeFacts, Merging
<1>2. /\ FilesTyped /\ Positions
      /\ MergedMethods(controllers, MethodsDone \cap KeptCells, MethodKeys, MethodOuts)
      /\ MorphsMerged /\ ChannelsMerged
      /\ MergedModels(models, ModelsDone, ModelKeys, ModelRels) /\ remaining = <<>>
      /\ bindings = RouteBindings(files)
  BY <1>1 DEF MergeInv
<1>3. /\ next \in DOMAIN files /\ next \in Nat \ {0} /\ item \in Nat \ {0}
      /\ Len(files) \in Nat /\ DOMAIN files = 1 .. Len(files)
  BY <1>1, <1>2, CellsHold DEF Positions
<1>4. /\ f.controllers \in Seq(ControllerFacts) /\ f.models \in Seq(AllModelFacts)
      /\ f.polymorphic \in [Morphs -> Seq(AllMorphFacts)] /\ f.broadcast \in Seq(BroadcastFacts)
  BY <1>2, <1>3, CellsHold
<1>5. Len(f.controllers) \in Nat /\ Len(f.models) \in Nat
  BY <1>4
<1>6. MethodCells' = MethodCells /\ ModelCells' = ModelCells /\ FilesTyped' = FilesTyped
  BY <1>1, SameFacts
<1>7. MethodsDone' = MethodsDone
  <2>1. \A p \in MethodCells : p[1] \in Nat /\ p[2] \in Nat \ {0} /\ p[2] <= Len(files[p[1]].controllers)
    BY <1>2, MethodCellsHold
  <2>2. MethodsDone' = {p \in MethodCells : p[1] < next + 1 \/ (p[1] = next + 1 /\ p[2] < 1)}
    BY <1>1, <1>6 DEF MethodsDone
  <2>3. \A p \in MethodCells : p[1] = next => p[2] < item
    <3>1. \A n \in Nat : n <= Len(f.controllers) => n < item
      <4>1. \A l, m, n, i \in Nat : i > l + m /\ n <= l => n < i
        OBVIOUS
      <4> QED BY <1>1, <1>3, <1>5, <4>1
    <3> QED BY <2>1, <3>1
  <2>4. \A p \in MethodCells : (p[1] < next + 1 \/ (p[1] = next + 1 /\ p[2] < 1))
                                 <=> (p[1] < next \/ (p[1] = next /\ p[2] < item))
    BY <1>3, <2>1, <2>3
  <2> QED BY <2>2, <2>4 DEF MethodsDone
<1>8. ModelsDone' = ModelsDone
  <2>1. \A p \in ModelCells : /\ p[1] \in Nat /\ p[2] \in Nat \ {0} /\ p[2] <= Len(files[p[1]].models)
                              /\ p[1] \in DOMAIN files /\ Len(files[p[1]].controllers) \in Nat
    <3>1. \A i \in DOMAIN files : Len(files[i].controllers) \in Nat
      BY <1>2, CellsHold
    <3> QED BY <1>2, <3>1, ModelCellsHold
  <2>2. ModelsDone' = {p \in ModelCells : \/ p[1] < next + 1
                                          \/ p[1] = next + 1 /\ p[2] + Len(files[p[1]].controllers) < 1}
    BY <1>1, <1>6 DEF ModelsDone
  <2>3. \A p \in ModelCells : p[1] = next => p[2] + Len(files[p[1]].controllers) < item
    <3>1. \A n \in Nat : n <= Len(f.models) => n + Len(f.controllers) < item
      <4>1. \A l, m, n, i \in Nat : i > l + m /\ n <= m => n + l < i
        OBVIOUS
      <4> QED BY <1>1, <1>3, <1>5, <4>1
    <3> QED BY <2>1, <3>1
  <2>4. \A p \in ModelCells : ~(p[2] + Len(files[p[1]].controllers) < 1)
    BY <2>1
  <2>5. \A p \in ModelCells : (\/ p[1] < next + 1
                               \/ p[1] = next + 1 /\ p[2] + Len(files[p[1]].controllers) < 1)
                                 <=> (\/ p[1] < next
                                      \/ p[1] = next /\ p[2] + Len(files[p[1]].controllers) < item)
    BY <1>3, <2>1, <2>3, <2>4
  <2> QED BY <2>2, <2>5 DEF ModelsDone
<1>9. /\ MergedMethods(controllers, MethodsDone \cap KeptCells, MethodKeys, MethodOuts)'
      /\ MergedModels(models, ModelsDone, ModelKeys, ModelRels)'
  BY <1>1, <1>2, <1>7, <1>8, SameControllers, SameModels
<1>n. 1 .. next' - 1 = 1 .. next /\ 1 .. next = (1 .. next - 1) \cup {next}
  BY <1>1, <1>3
<1>10. MorphsMerged'
  <2>1. ASSUME NEW n \in Morphs
        PROVE  /\ polymorphic'[n] \in Seq(AllMorphFacts)
               /\ ToSet(polymorphic'[n]) = UNION {ToSet(files[h].polymorphic[n]) : h \in 1 .. next}
    <3>1. /\ polymorphic[n] \in Seq(AllMorphFacts) /\ f.polymorphic[n] \in Seq(AllMorphFacts)
          /\ polymorphic'[n] = polymorphic[n] \o f.polymorphic[n]
      BY <1>1, <1>2, <1>4 DEF MorphsMerged
    <3>2. /\ polymorphic'[n] \in Seq(AllMorphFacts)
          /\ ToSet(polymorphic'[n]) = ToSet(polymorphic[n]) \cup ToSet(f.polymorphic[n])
      BY <3>1, JoinElements
    <3>3. ToSet(polymorphic[n]) = UNION {ToSet(files[h].polymorphic[n]) : h \in 1 .. next - 1}
      BY <1>2 DEF MorphsMerged
    <3>4. UNION {ToSet(files[h].polymorphic[n]) : h \in (1 .. next - 1) \cup {next}}
            = (UNION {ToSet(files[h].polymorphic[n]) : h \in 1 .. next - 1}) \cup ToSet(f.polymorphic[n])
      OBVIOUS
    <3> QED BY <1>n, <3>2, <3>3, <3>4
  <2>2. polymorphic' \in [Morphs -> Seq(AllMorphFacts)]
    BY <1>1, <2>1
  <2> QED BY <1>1, <1>n, <2>1, <2>2, ZenonT(60) DEF MorphsMerged
<1>11. ChannelsMerged'
  <2>1. broadcast \in Seq(BroadcastFacts) /\ OncePerChannel(broadcast)
    BY <1>2 DEF ChannelsMerged
  <2>2. /\ broadcast' \in Seq(BroadcastFacts) /\ OncePerChannel(broadcast')
        /\ ChannelNames(broadcast') = Channels \cup ChannelNames(f.broadcast)
    BY <1>1, <1>4, <2>1, ChannelsJoined
  <2>3. Channels = UNION {ChannelNames(files[h].broadcast) : h \in 1 .. next - 1}
    BY <1>2 DEF ChannelsMerged
  <2>4. UNION {ChannelNames(files[h].broadcast) : h \in (1 .. next - 1) \cup {next}}
          = (UNION {ChannelNames(files[h].broadcast) : h \in 1 .. next - 1}) \cup ChannelNames(f.broadcast)
    OBVIOUS
  <2>5. Channels' = UNION {ChannelNames(files[h].broadcast) : h \in 1 .. next}
    BY <1>n, <2>2, <2>3, <2>4 DEF Channels, ChannelNames
  <2>6. Channels' = UNION {ChannelNames(files'[h].broadcast) : h \in 1 .. next' - 1}
    BY <1>1, <1>n, <2>5
  <2> QED BY <2>2, <2>6 DEF ChannelsMerged, OncePerChannel
<1>12. Positions'
  <2>1. next + 1 \in 1 .. Len(files) + 1
    BY <1>1, <1>3
  <2>2. next + 1 <= Len(files) =>
          1 <= Len(files[next + 1].controllers) + Len(files[next + 1].models) + 1
    <3>1. \A i \in DOMAIN files : Len(files[i].controllers) \in Nat /\ Len(files[i].models) \in Nat
      BY <1>2, CellsHold
    <3>2. next + 1 <= Len(files) => next + 1 \in DOMAIN files
      BY <1>3
    <3>3. \A l, n \in Nat : 1 <= l + n + 1
      OBVIOUS
    <3> QED BY <3>1, <3>2, <3>3
  <2>3. /\ next' \in 1 .. Len(files') + 1 /\ item' \in Nat \ {0} /\ item' = 1
        /\ next' <= Len(files') =>
             item' <= Len(files'[next'].controllers) + Len(files'[next'].models) + 1
    <3>1. next' = next + 1 /\ item' = 1 /\ files' = files
      BY <1>1
    <3>2. next' \in 1 .. Len(files') + 1 /\ item' \in Nat \ {0}
      BY <2>1, <3>1
    <3>3. next' <= Len(files') =>
             item' <= Len(files'[next'].controllers) + Len(files'[next'].models) + 1
      BY ONLY <2>2, <3>1
    <3> QED BY <3>1, <3>2, <3>3
  <2> QED BY <2>3 DEF Positions
<1>13. FilesTyped' /\ remaining' = <<>> /\ bindings' = RouteBindings(files')
  BY <1>1, <1>2, <1>6
<1> QED BY <1>1, <1>9, <1>10, <1>11, <1>12, <1>13 DEF MergeInv, InOrder

\* Before the first file is merged
Started == /\ Positions /\ MorphsMerged /\ ChannelsMerged
           /\ MergedMethods(controllers, MethodsDone \cap KeptCells, MethodKeys, MethodOuts)
           /\ MergedModels(models, ModelsDone, ModelKeys, ModelRels)

LEMMA NothingMerged == FilesTyped /\ Untouched => Started
<1> SUFFICES ASSUME FilesTyped, Untouched PROVE Started
  OBVIOUS
<1>1. /\ next = 1 /\ item = 1
      /\ controllers = <<>> /\ models = <<>> /\ broadcast = <<>>
      /\ polymorphic = [n \in Morphs |-> <<>>]
  BY DEF Untouched
<1>2. Positions
  <2>1. \A i \in DOMAIN files : Len(files[i].controllers) \in Nat /\ Len(files[i].models) \in Nat
    BY CellsHold
  <2>2. DOMAIN files = 1 .. Len(files) /\ Len(files) \in Nat
    BY CellsHold
  <2>3. 1 <= Len(files) => 1 <= Len(files[1].controllers) + Len(files[1].models) + 1
    <3>1. 1 <= Len(files) => 1 \in DOMAIN files
      BY <2>2
    <3>2. \A l, n \in Nat : 1 <= l + n + 1
      OBVIOUS
    <3> QED BY <2>1, <3>1, <3>2
  <2>4. 1 \in 1 .. Len(files) + 1
    BY <2>2
  <2>5. next = 1 /\ item = 1
    BY <1>1
  <2>6. next <= Len(files) =>
          item <= Len(files[next].controllers) + Len(files[next].models) + 1
    BY ONLY <2>3, <2>5
  <2>7. /\ next \in 1 .. Len(files) + 1 /\ item \in Nat \ {0}
        /\ next = Len(files) + 1 => item = 1
    BY ONLY <2>4, <2>5
  <2> QED BY ONLY <2>6, <2>7 DEF Positions
<1>3. MethodsDone = {}
  <2>1. \A p \in MethodCells : p[1] \in DOMAIN files /\ p[1] \in Nat /\ p[2] \in Nat \ {0}
    BY MethodCellsHold
  <2>2. DOMAIN files = 1 .. Len(files) /\ Len(files) \in Nat
    BY CellsHold
  <2>3. \A p \in MethodCells : ~(p[1] < 1) /\ ~(p[2] < 1)
    BY <2>1, <2>2
  <2> QED BY <1>1, <2>3 DEF MethodsDone
<1>4. ModelsDone = {}
  <2>1. \A p \in ModelCells : p[1] \in DOMAIN files /\ p[1] \in Nat /\ p[2] \in Nat \ {0}
    BY ModelCellsHold
  <2>2. DOMAIN files = 1 .. Len(files) /\ Len(files) \in Nat
    BY CellsHold
  <2>3. \A p \in ModelCells : ~(p[1] < 1) /\ Len(files[p[1]].controllers) \in Nat
    BY <2>1, <2>2, CellsHold
  <2>4. \A p \in ModelCells : ~(p[2] + Len(files[p[1]].controllers) < 1)
    BY <2>1, <2>3
  <2> QED BY <1>1, <2>3, <2>4 DEF ModelsDone
<1>5. OncePerKey(<<>>) /\ Keys(<<>>) = {} /\ DOMAIN <<>> = {}
  <2>1. DOMAIN <<>> = {}
    BY EmptyList
  <2> QED BY <2>1 DEF OncePerKey, Keys
<1>6. MergedMethods(controllers, MethodsDone \cap KeptCells, MethodKeys, MethodOuts)
  <2>1. <<>> \in Seq(MethodEntries(MethodOuts))
    BY EmptyList
  <2> QED BY <1>1, <1>3, <1>5, <2>1 DEF MergedMethods
<1>7. MergedModels(models, ModelsDone, ModelKeys, ModelRels)
  <2>1. <<>> \in Seq(ModelEntries)
    BY EmptyList
  <2> QED BY <1>1, <1>4, <1>5, <2>1 DEF MergedModels
<1>8. MorphsMerged
  <2>1. <<>> \in Seq(AllMorphFacts) /\ ToSet(<<>>) = {}
    BY EmptyList
  <2>2. 1 .. next - 1 = {}
    BY <1>1
  <2> QED BY <1>1, <2>1, <2>2 DEF MorphsMerged
<1>9. ChannelsMerged
  <2>1. <<>> \in Seq(BroadcastFacts) /\ ToSet(<<>>) = {} /\ DOMAIN <<>> = {}
    BY EmptyList
  <2>2. 1 .. next - 1 = {}
    BY <1>1
  <2>3. Channels = {} /\ OncePerChannel(broadcast)
    BY <1>1, <2>1 DEF Channels, OncePerChannel
  <2> QED BY <1>1, <2>1, <2>2, <2>3 DEF ChannelsMerged
<1> QED BY <1>2, <1>6, <1>7, <1>8, <1>9 DEF Started

LEMMA NothingMergedNext == (FilesTyped /\ Untouched)' => Started'
BY NothingMerged, PTL

LEMMA MergeStarts == Init => MergeInv
BY DEF Init, MergeInv, Untouched, InOrder

LEMMA ProjectAnalyzed ==
    ASSUME MergeInv, Analyze PROVE MergeInv'
<1>1. /\ stage = "analyze" /\ stage' = "routes"
      /\ files' = [i \in DOMAIN files |-> AnalyzeFile(files[i])]
      /\ bindings' = bindings /\ next' = next /\ item' = item /\ controllers' = controllers
      /\ models' = models /\ polymorphic' = polymorphic /\ broadcast' = broadcast
      /\ remaining' = remaining
  BY DEF Analyze
<1>2. files \in Projects /\ Untouched
  BY <1>1 DEF MergeInv
<1>3. files \in Seq(Texts) /\ \A i, k \in DOMAIN files : files[i].path = files[k].path => i = k
  BY <1>2, ProjectsAssumption
<1>4. FilesTyped'
  <2>1. DOMAIN files = 1 .. Len(files) /\ Len(files) \in Nat /\ \A i \in DOMAIN files : files[i] \in Texts
    BY <1>3
  <2>2. \A i \in DOMAIN files : AnalyzeFile(files[i]) \in FileFacts
    BY <2>1, AnalyzeFileTyped
  <2>3. files' \in Seq(FileFacts)
    BY <1>1, <2>1, <2>2
  <2>4. \A i \in DOMAIN files : files'[i].path = files[i].path
    BY <1>1 DEF AnalyzeFile
  <2>5. DOMAIN files' = DOMAIN files
    BY <1>1
  <2>6. \A i, k \in DOMAIN files' : files'[i].path = files'[k].path => i = k
    BY <1>3, <2>4, <2>5
  <2> QED BY <2>3, <2>6 DEF FilesTyped
<1>5. Untouched'
  BY <1>1, <1>2 DEF Untouched
<1>6. Started'
  BY <1>4, <1>5, NothingMergedNext
<1>7. remaining' = <<>>
  BY <1>5 DEF Untouched
<1> QED BY <1>1, <1>4, <1>5, <1>6, <1>7 DEF MergeInv, Started, InOrder

LEMMA RoutesCollected ==
    ASSUME MergeInv, CollectRoutes PROVE MergeInv'
<1>1. /\ stage = "routes" /\ stage' = "collect" /\ files' = files
      /\ bindings' = RouteBindings(files)
      /\ next' = next /\ item' = item /\ controllers' = controllers
      /\ models' = models /\ polymorphic' = polymorphic /\ broadcast' = broadcast
      /\ remaining' = remaining
  BY DEF CollectRoutes, RouteBindings
<1>2. FilesTyped /\ Untouched
  BY <1>1 DEF MergeInv
<1>3. FilesTyped' /\ Untouched'
  BY <1>1, <1>2 DEF FilesTyped, Untouched
<1>4. Started'
  BY <1>3, NothingMergedNext
<1>5. remaining' = <<>> /\ bindings' = RouteBindings(files')
  BY <1>1, <1>3 DEF Untouched
<1> QED BY <1>1, <1>3, <1>4, <1>5 DEF MergeInv, Started, InOrder

\* Sorting all entries' methods changes none of them.
LEMMA ControllersSorted ==
    ASSUME bindings \in Seq(BindingFacts), NEW cs, NEW done, NEW key, NEW out,
           \A q \in DOMAIN out : out[q].name \in Names,
           MergedMethods(cs, done, key, out)
    PROVE  LET new == [i \in DOMAIN cs |-> Sorted(cs[i])]
           IN  MergedMethods(new, done, key, out) /\ \A i \in DOMAIN new : InRouteOrder(bindings, new[i])
<1> DEFINE new == [i \in DOMAIN cs |-> Sorted(cs[i])]
           O == {out[q] : q \in DOMAIN out}
           E == [fqcn : Names, file : Names, methods : Seq(O)]
<1>1. /\ cs \in Seq(E) /\ OncePerKey(cs) /\ Keys(cs) = {key[p] : p \in done}
      /\ \A i \in DOMAIN cs : LET of == {q \in done : key[q] = Key(cs[i])}
                              IN  /\ Len(cs[i].methods) = Cardinality(of)
                                  /\ ToSet(cs[i].methods) = {out[q] : q \in of}
  BY DEF MergedMethods, MethodEntries
<1>2. \A x \in O : x.name \in Names
  OBVIOUS
<1> HIDE DEF O
<1>3. DOMAIN cs = 1 .. Len(cs) /\ Len(cs) \in Nat /\ \A i \in DOMAIN cs : cs[i] \in E
  <2> HIDE DEF E
  <2> QED BY <1>1
<1>4. \A i \in DOMAIN cs : /\ Sorted(cs[i]) \in E /\ Key(Sorted(cs[i])) = Key(cs[i])
                           /\ Len(Sorted(cs[i]).methods) = Len(cs[i].methods)
                           /\ ToSet(Sorted(cs[i]).methods) = ToSet(cs[i].methods)
                           /\ InRouteOrder(bindings, Sorted(cs[i]))
  BY <1>2, <1>3, SortedIs
<1>5. DOMAIN new = DOMAIN cs /\ \A i \in DOMAIN cs : new[i] = Sorted(cs[i])
  OBVIOUS
<1> HIDE DEF E
<1>6. new \in Seq(E)
  BY <1>3, <1>4
<1> HIDE DEF new
<1>7. OncePerKey(new) /\ Keys(new) = Keys(cs)
  <2>1. \A i, k \in DOMAIN new : Key(new[i]) = Key(new[k]) => i = k
    BY <1>1, <1>4, <1>5 DEF OncePerKey
  <2>2. {Key(new[i]) : i \in DOMAIN new} = {Key(cs[i]) : i \in DOMAIN cs}
    BY <1>4, <1>5
  <2> QED BY <2>1, <2>2 DEF OncePerKey, Keys
<1>8. \A i \in DOMAIN new : LET of == {q \in done : key[q] = Key(new[i])}
                            IN  /\ Len(new[i].methods) = Cardinality(of)
                                /\ ToSet(new[i].methods) = {out[q] : q \in of}
  <2> TAKE i \in DOMAIN new
  <2>1. /\ i \in DOMAIN cs /\ Key(new[i]) = Key(cs[i])
        /\ Len(new[i].methods) = Len(cs[i].methods)
        /\ ToSet(new[i].methods) = ToSet(cs[i].methods)
    BY <1>4, <1>5
  <2> QED BY <1>1, <2>1
<1>9. MergedMethods(new, done, key, out)
  BY <1>1, <1>6, <1>7, <1>8 DEF MergedMethods, MethodEntries, E, O
<1> QED BY <1>4, <1>5, <1>9 DEF new

LEMMA AllDone ==
    ASSUME FilesTyped, next = Len(files) + 1
    PROVE  ModelsDone = ModelCells /\ MethodsDone = MethodCells
<1>1. DOMAIN files = 1 .. Len(files) /\ Len(files) \in Nat
  BY CellsHold
<1>2. \A p \in ModelCells : p[1] < next
  <2>1. \A p \in ModelCells : p[1] \in DOMAIN files
    BY ModelCellsHold
  <2> QED BY <1>1, <2>1
<1>3. \A p \in MethodCells : p[1] < next
  <2>1. \A p \in MethodCells : p[1] \in DOMAIN files
    BY MethodCellsHold
  <2> QED BY <1>1, <2>1
<1> QED BY <1>2, <1>3 DEF ModelsDone, MethodsDone

LEMMA SamePool ==
    ASSUME files' = files, bindings' = bindings,
           Pooled(models', remaining', ModelCells, ModelKeys, ModelRels)
    PROVE  Pooled(models, remaining, ModelCells, ModelKeys, ModelRels)'
<1>1. ModelCells' = ModelCells /\ ModelKeys' = ModelKeys /\ ModelRels' = ModelRels
  BY SameFacts
<1>2. Pooled(models', remaining', ModelCells', ModelKeys', ModelRels')
  BY <1>1
<1> QED BY <1>2 DEF Pooled, SumOf

LEMMA NamesOut ==
    ASSUME FilesTyped PROVE \A q \in DOMAIN MethodOuts : MethodOuts[q].name \in Names
<1>1. \A q \in MethodCells : MethodAt(q) \in ControllerFacts
  BY MethodCellsHold
<1>2. \A c \in ControllerFacts : c.method \in Names
  BY DEF ControllerFacts
<1>3. \A c : MethodOut(c).name = c.method
  BY DEF MethodOut
<1> QED BY <1>1, <1>2, <1>3 DEF MethodOuts

LEMMA ListsArranged ==
    ASSUME MergeInv, Arrange PROVE MergeInv'
<1>1. /\ stage = "collect" /\ stage' = "order" /\ next > Len(files)
      /\ controllers' = [i \in DOMAIN controllers |-> Sorted(controllers[i])]
      /\ polymorphic' = [n \in Morphs |-> DropRepeats(polymorphic[n])]
      /\ remaining' = Deduped(models) /\ models' = <<>>
      /\ files' = files /\ bindings' = bindings /\ next' = next /\ item' = item
      /\ broadcast' = broadcast
  BY DEF Arrange, Deduped
<1>2. /\ FilesTyped /\ Positions
      /\ MergedMethods(controllers, MethodsDone \cap KeptCells, MethodKeys, MethodOuts)
      /\ MorphsMerged /\ ChannelsMerged
      /\ MergedModels(models, ModelsDone, ModelKeys, ModelRels)
      /\ bindings = RouteBindings(files)
  BY <1>1 DEF MergeInv
<1>3. next = Len(files) + 1
  <2>1. Len(files) \in Nat
    BY <1>2, CellsHold
  <2>2. next \in 1 .. Len(files) + 1
    BY <1>2 DEF Positions
  <2> QED BY <1>1, <2>1, <2>2
<1>4. bindings \in Seq(BindingFacts)
  BY <1>2, BindingsTyped DEF FilesTyped
<1>5. /\ MergedMethods(controllers', MethodsDone \cap KeptCells, MethodKeys, MethodOuts)
      /\ \A i \in DOMAIN controllers' : InRouteOrder(bindings, controllers'[i])
  <2>1. \A q \in DOMAIN MethodOuts : MethodOuts[q].name \in Names
    BY <1>2, NamesOut
  <2>2. MergedMethods(controllers, MethodsDone \cap KeptCells, MethodKeys, MethodOuts)
    BY <1>2
  <2> DEFINE new == [i \in DOMAIN controllers |-> Sorted(controllers[i])]
  <2>3. /\ MergedMethods(new, MethodsDone \cap KeptCells, MethodKeys, MethodOuts)
        /\ \A i \in DOMAIN new : InRouteOrder(bindings, new[i])
    BY <1>4, <2>1, <2>2, ControllersSorted
  <2>4. controllers' = new
    BY <1>1
  <2> HIDE DEF new
  <2> QED BY <2>3, <2>4
<1>6. MergedMethods(controllers, MethodsDone \cap KeptCells, MethodKeys, MethodOuts)'
  <2>1. /\ KeptCells' = KeptCells /\ MethodKeys' = MethodKeys /\ MethodOuts' = MethodOuts
        /\ MethodCells' = MethodCells
    BY <1>1, SameFacts
  <2>2. MethodsDone' = MethodsDone
    BY <1>1, <2>1 DEF MethodsDone
  <2>3. MergedMethods(controllers', MethodsDone' \cap KeptCells', MethodKeys', MethodOuts')
    BY <1>5, <2>1, <2>2
  <2> QED BY <2>3 DEF MergedMethods
<1>7. InOrder'
  <2>1. \A i \in DOMAIN controllers' : InRouteOrder(bindings', controllers'[i])
    BY <1>1, <1>5
  <2> QED BY <2>1 DEF InOrder, InRouteOrder
<1>8. Pooled(models, remaining, ModelCells, ModelKeys, ModelRels)'
  <2>1. MergedModels(models, ModelCells, ModelKeys, ModelRels)
    BY <1>2, <1>3, AllDone
  <2>2. Pooled(<<>>, Deduped(models), ModelCells, ModelKeys, ModelRels)
    BY <2>1, PoolStarts
  <2> QED BY <1>1, <2>2, SamePool
<1>9. MorphsMerged'
  <2>1. ASSUME NEW n \in Morphs
        PROVE  /\ polymorphic'[n] \in Seq(AllMorphFacts)
               /\ ToSet(polymorphic'[n]) = ToSet(polymorphic[n])
    <3>1. polymorphic[n] \in Seq(AllMorphFacts) /\ polymorphic'[n] = DropRepeats(polymorphic[n])
      BY <1>1, <1>2 DEF MorphsMerged
    <3> QED BY <3>1, DropRepeatsIs
  <2>2. polymorphic' \in [Morphs -> Seq(AllMorphFacts)]
    BY <1>1, <2>1
  <2>3. \A n \in Morphs :
          ToSet(polymorphic'[n]) = UNION {ToSet(files'[h].polymorphic[n]) : h \in 1 .. next' - 1}
    BY <1>1, <1>2, <2>1 DEF MorphsMerged
  <2> QED BY <2>2, <2>3 DEF MorphsMerged
<1>10. ChannelsMerged' /\ Positions' /\ FilesTyped'
  BY <1>1, <1>2, SameChannels DEF Positions, FilesTyped
<1>11. next' = Len(files') + 1 /\ bindings' = RouteBindings(files')
  BY <1>1, <1>2, <1>3
<1> QED BY <1>1, <1>6, <1>7, <1>8, <1>9, <1>10, <1>11 DEF MergeInv

\* What a step of the ordering leaves alone
LEMMA OrderingStep ==
    ASSUME MergeInv, stage = "order", stage' \in {"order", "done"},
           UNCHANGED <<files, bindings, next, item, controllers, polymorphic, broadcast>>,
           Pooled(models', remaining', ModelCells, ModelKeys, ModelRels),
           stage' = "done" => remaining' = <<>>
    PROVE  MergeInv'
<1>1. /\ FilesTyped /\ Positions
      /\ MergedMethods(controllers, MethodsDone \cap KeptCells, MethodKeys, MethodOuts)
      /\ MorphsMerged /\ ChannelsMerged
      /\ bindings = RouteBindings(files)
      /\ next = Len(files) + 1
      /\ \A i \in DOMAIN controllers : InRouteOrder(bindings, controllers[i])
  BY DEF MergeInv, InOrder
<1>2. /\ files' = files /\ bindings' = bindings /\ next' = next /\ item' = item
      /\ controllers' = controllers /\ polymorphic' = polymorphic /\ broadcast' = broadcast
  OBVIOUS
<1>3. MergedMethods(controllers, MethodsDone \cap KeptCells, MethodKeys, MethodOuts)'
  <2>1. MethodsDone' = MethodsDone
    BY <1>2, SameFacts DEF MethodsDone
  <2> QED BY <1>1, <1>2, <2>1, SameControllers
<1>4. Pooled(models, remaining, ModelCells, ModelKeys, ModelRels)'
  BY <1>2, SamePool
<1>5. MorphsMerged' /\ ChannelsMerged' /\ Positions' /\ FilesTyped'
  BY <1>1, <1>2, SameMorphs, SameChannels DEF Positions, FilesTyped
<1>6. InOrder'
  BY <1>1, <1>2 DEF InOrder, InRouteOrder
<1>7. next' = Len(files') + 1 /\ bindings' = RouteBindings(files')
  BY <1>1, <1>2
<1> QED BY <1>3, <1>4, <1>5, <1>6, <1>7 DEF MergeInv

LEMMA ModelVisited ==
    ASSUME MergeInv, Visit PROVE MergeInv'
<1> DEFINE of == {i \in DOMAIN remaining : remaining[i].fqcn = Head(visits).fqcn}
           at == FirstOf(of)
<1>1. /\ stage = "order" /\ stage' = "order"
      /\ UNCHANGED <<files, bindings, next, item, controllers, polymorphic, broadcast>>
      /\ \/ of = {} /\ UNCHANGED <<models, remaining>>
         \/ /\ of # {} /\ models' = Append(models, remaining[at])
            /\ remaining' = Without(remaining, at)
  BY DEF Visit
<1>2. Pooled(models, remaining, ModelCells, ModelKeys, ModelRels)
  BY <1>1 DEF MergeInv
<1>3. of # {} => at \in DOMAIN remaining
  <2>1. remaining \in Seq(ModelEntries)
    BY <1>2 DEF Pooled
  <2>2. DOMAIN remaining = 1 .. Len(remaining) /\ Len(remaining) \in Nat
    BY <2>1
  <2>3. of \in SUBSET (1 .. Len(remaining))
    BY <2>2
  <2> HIDE DEF of
  <2> QED BY <2>2, <2>3, FirstAndLast
<1> HIDE DEF of, at
<1>4. Pooled(models', remaining', ModelCells, ModelKeys, ModelRels)
  BY <1>1, <1>2, <1>3, PoolMoves
<1> QED BY <1>1, <1>4, OrderingStep

LEMMA RestEmitted ==
    ASSUME MergeInv, Emit PROVE MergeInv'
<1>1. /\ stage = "order" /\ stage' = "done" /\ models' = models \o remaining /\ remaining' = <<>>
      /\ UNCHANGED <<files, bindings, next, item, controllers, polymorphic, broadcast>>
  BY DEF Emit, WithRest
<1>2. Pooled(models, remaining, ModelCells, ModelKeys, ModelRels)
  BY <1>1 DEF MergeInv
<1>3. Pooled(models', remaining', ModelCells, ModelKeys, ModelRels)
  BY <1>1, <1>2, PoolEnds
<1> QED BY <1>1, <1>3, OrderingStep

LEMMA NothingMoves ==
    ASSUME MergeInv, UNCHANGED vars PROVE MergeInv'
<1>1. /\ stage' = stage /\ files' = files /\ bindings' = bindings /\ next' = next /\ item' = item
      /\ controllers' = controllers /\ models' = models /\ polymorphic' = polymorphic
      /\ broadcast' = broadcast /\ remaining' = remaining
  BY DEF vars
<1>2. MethodsDone' = MethodsDone /\ ModelsDone' = ModelsDone
  BY <1>1, SameFacts DEF MethodsDone, ModelsDone
<1>3. MergedMethods(controllers, MethodsDone \cap KeptCells, MethodKeys, MethodOuts)
        => MergedMethods(controllers, MethodsDone \cap KeptCells, MethodKeys, MethodOuts)'
  BY <1>1, <1>2, SameControllers
<1>4. MergedModels(models, ModelsDone, ModelKeys, ModelRels)
        => MergedModels(models, ModelsDone, ModelKeys, ModelRels)'
  BY <1>1, <1>2, SameModels
<1>5. Pooled(models, remaining, ModelCells, ModelKeys, ModelRels)
        => Pooled(models, remaining, ModelCells, ModelKeys, ModelRels)'
  BY <1>1, SamePool
<1>6. (MorphsMerged => MorphsMerged') /\ (ChannelsMerged => ChannelsMerged')
  BY <1>1, SameMorphs, SameChannels
<1>7. /\ (Positions => Positions') /\ (FilesTyped => FilesTyped')
      /\ (Untouched => Untouched') /\ (InOrder => InOrder')
  <2>1. (InOrder => InOrder')
    BY <1>1 DEF InOrder, InRouteOrder
  <2>2. (Positions => Positions') /\ (FilesTyped => FilesTyped') /\ (Untouched => Untouched')
    BY <1>1 DEF Positions, FilesTyped, Untouched
  <2> QED BY <2>1, <2>2
<1>8. (bindings = RouteBindings(files)) => (bindings' = RouteBindings(files'))
  BY <1>1
<1> QED BY <1>1, <1>3, <1>4, <1>5, <1>6, <1>7, <1>8 DEF MergeInv

LEMMA MergeKept == MergeInv /\ [Next]_vars => MergeInv'
<1> SUFFICES ASSUME MergeInv, [Next]_vars PROVE MergeInv'
  OBVIOUS
<1>1. CASE Analyze
  BY <1>1, ProjectAnalyzed
<1>2. CASE CollectRoutes
  BY <1>2, RoutesCollected
<1>3. CASE MergeController
  BY <1>3, ControllerMerged
<1>4. CASE MergeModel
  BY <1>4, ModelMerged
<1>5. CASE MergeFacts
  BY <1>5, FactsMerged
<1>6. CASE Arrange
  BY <1>6, ListsArranged
<1>7. CASE Visit
  BY <1>7, ModelVisited
<1>8. CASE Emit
  BY <1>8, RestEmitted
<1>9. CASE Stop \/ UNCHANGED vars
  BY <1>9, NothingMoves DEF Stop
<1> QED BY <1>1, <1>2, <1>3, <1>4, <1>5, <1>6, <1>7, <1>8, <1>9 DEF Next

LEMMA MergeAlways == Spec => []MergeInv
BY MergeStarts, MergeKept, PTL DEF Spec

LEMMA NothingLostByMerge == MergeInv => NothingLost
<1> SUFFICES ASSUME MergeInv, stage = "done" PROVE NothingLost
  BY DEF NothingLost
<1>1. /\ FilesTyped /\ next = Len(files) + 1
      /\ MergedMethods(controllers, MethodsDone \cap KeptCells, MethodKeys, MethodOuts)
      /\ MorphsMerged /\ ChannelsMerged
      /\ Pooled(models, <<>>, ModelCells, ModelKeys, ModelRels)
  BY DEF MergeInv
<1>2. ModelsDone = ModelCells /\ MethodsDone = MethodCells
  BY <1>1, AllDone
<1>3. /\ OncePerKey(models) /\ Keys(models) = {ModelKey(q) : q \in ModelCells}
      /\ \A m \in ToSet(models) : Once(m.rels) /\ WholeModel(m, ModelCells)
  <2>1. Keys(<<>>) = {} /\ ToSet(<<>>) = {}
    BY EmptyList DEF Keys
  <2>2. /\ OncePerKey(models) /\ Keys(models) = {ModelKeys[q] : q \in ModelCells}
        /\ \A m \in ToSet(models) : Once(m.rels) /\ ToSet(m.rels) = SumOf(m, ModelCells, ModelKeys, ModelRels)
    BY <1>1, <2>1 DEF Pooled
  <2>3. \A q \in ModelCells : ModelKeys[q] = ModelKey(q) /\ ModelRels[q] = ShownRels(ModelAt(q))
    BY DEF ModelKeys, ModelRels
  <2>4. \A m \in ToSet(models) : WholeModel(m, ModelCells)
    <3>1. TAKE m \in ToSet(models)
    <3>2. {p \in ModelCells : ModelKeys[p] = Key(m)} = {p \in ModelCells : ModelKey(p) = Key(m)}
      BY <2>3
    <3>3. {ToSet(ModelRels[q]) : q \in {p \in ModelCells : ModelKeys[p] = Key(m)}}
            = {ToSet(ShownRels(ModelAt(q))) : q \in {p \in ModelCells : ModelKey(p) = Key(m)}}
      BY <2>3, <3>2
    <3> QED BY <2>2, <3>3 DEF WholeModel, SumOf
  <2>5. {ModelKeys[q] : q \in ModelCells} = {ModelKey(q) : q \in ModelCells}
    BY <2>3
  <2> QED BY <2>2, <2>4, <2>5
<1>4. /\ OncePerKey(controllers)
      /\ Keys(controllers) = {MethodKey(q) : q \in {p \in MethodCells : Kept(MethodAt(p))}}
      /\ \A c \in ToSet(controllers) : WholeController(c, MethodCells)
  <2>1. /\ OncePerKey(controllers) /\ Keys(controllers) = {MethodKeys[q] : q \in KeptCells}
        /\ \A i \in DOMAIN controllers :
             LET of == {q \in KeptCells : MethodKeys[q] = Key(controllers[i])}
             IN  /\ Len(controllers[i].methods) = Cardinality(of)
                 /\ ToSet(controllers[i].methods) = {MethodOuts[q] : q \in of}
    <3>1. MethodsDone \cap KeptCells = KeptCells
      BY <1>2 DEF KeptCells
    <3> QED BY <1>1, <3>1 DEF MergedMethods
  <2>2. \A q \in MethodCells : MethodKeys[q] = MethodKey(q) /\ MethodOuts[q] = MethodOut(MethodAt(q))
    BY DEF MethodKeys, MethodOuts
  <2>3. {MethodKeys[q] : q \in KeptCells} = {MethodKey(q) : q \in {p \in MethodCells : Kept(MethodAt(p))}}
    BY <2>2 DEF KeptCells
  <2>4. ASSUME NEW i \in DOMAIN controllers PROVE WholeController(controllers[i], MethodCells)
    <3> DEFINE c == controllers[i]
               of == {q \in KeptCells : MethodKeys[q] = Key(c)}
    <3>1. of = {q \in MethodCells : MethodKey(q) = Key(c) /\ Kept(MethodAt(q))}
      BY <2>2 DEF KeptCells
    <3>2. {MethodOuts[q] : q \in of} = {MethodOut(MethodAt(q)) : q \in of}
      BY <2>2 DEF KeptCells
    <3>3. Len(c.methods) = Cardinality(of) /\ ToSet(c.methods) = {MethodOuts[q] : q \in of}
      BY <2>1
    <3> HIDE DEF of, c
    <3>4. WholeController(c, MethodCells)
      BY <3>1, <3>2, <3>3 DEF WholeController
    <3> QED BY <3>4 DEF c
  <2>5. \A c \in ToSet(controllers) : WholeController(c, MethodCells)
    BY <2>4, InToSet
  <2> QED BY <2>1, <2>3, <2>5
<1>5. DOMAIN files = 1 .. next - 1
  <2>1. DOMAIN files = 1 .. Len(files) /\ Len(files) \in Nat
    BY <1>1, CellsHold
  <2> QED BY <1>1, <2>1
<1>6. \A n \in Morphs :
        ToSet(polymorphic[n]) = UNION {ToSet(files[h].polymorphic[n]) : h \in DOMAIN files}
  BY <1>1, <1>5 DEF MorphsMerged
<1>7. /\ \A i, k \in DOMAIN broadcast : broadcast[i].channel = broadcast[k].channel => i = k
      /\ Channels = UNION {{b.channel : b \in ToSet(files[h].broadcast)} : h \in DOMAIN files}
  BY <1>1, <1>5 DEF ChannelsMerged, OncePerChannel, ChannelNames
<1> QED BY <1>3, <1>4, <1>6, <1>7 DEF NothingLost

\* Merging the files and reordering what they say lose nothing and invent nothing, for
\* any project: build_delta returns every class of every file once, as the sum of its
\* declarations in that file, every channel once, and the relations of each
\* polymorphic group, of which equal ones may be repeated.
THEOREM NothingLostAlways == Spec => []NothingLost
BY MergeAlways, NothingLostByMerge, PTL

-----------------------------------------------------------------------------
(* The order of the methods.                                               *)

LEMMA MethodsFollowByMerge == MergeInv => MethodsFollowRoutes
<1> DEFINE First(c, m) == CHOOSE i \in DOMAIN bindings :
                            /\ bindings[i].fqcn = c.fqcn /\ bindings[i].method = m.name
                            /\ \A h \in 1 .. i - 1 :
                                 ~(bindings[h].fqcn = c.fqcn /\ bindings[h].method = m.name)
<1> SUFFICES ASSUME MergeInv, stage = "done", NEW c \in ToSet(controllers),
                    NEW i \in DOMAIN c.methods, NEW k \in DOMAIN c.methods, i < k
             PROVE  IF bindings = <<>>
                    THEN Rank[c.methods[i].name] <= Rank[c.methods[k].name]
                    ELSE First(c, c.methods[i]) <= First(c, c.methods[k])
  BY DEF MethodsFollowRoutes
<1>1. /\ FilesTyped /\ bindings = RouteBindings(files)
      /\ MergedMethods(controllers, MethodsDone \cap KeptCells, MethodKeys, MethodOuts)
      /\ \A n \in DOMAIN controllers : InRouteOrder(bindings, controllers[n])
  BY DEF MergeInv, InOrder
<1>2. bindings \in Seq(BindingFacts)
  BY <1>1, BindingsTyped DEF FilesTyped
<1>3. PICK n \in DOMAIN controllers : c = controllers[n]
  BY InToSet
<1>4. ASSUME NEW j \in DOMAIN c.methods
      PROVE  /\ c.methods[j].name \in Names
             /\ bindings # <<>> => Routed(c.fqcn, c.methods[j].name)
  <2> DEFINE of == {q \in MethodsDone \cap KeptCells : MethodKeys[q] = Key(c)}
  <2>1. ToSet(c.methods) = {MethodOuts[q] : q \in of}
    BY <1>1, <1>3 DEF MergedMethods
  <2>2. c.methods[j] \in ToSet(c.methods)
    BY InToSet
  <2>3. PICK q \in of : c.methods[j] = MethodOuts[q]
    BY <2>1, <2>2
  <2>4. /\ q \in MethodCells /\ Kept(MethodAt(q)) /\ MethodKeys[q] = Key(c)
    BY <2>3 DEF KeptCells
  <2>5. c.methods[j] = MethodOut(MethodAt(q)) /\ MethodKey(q) = Key(c)
    BY <2>3, <2>4 DEF MethodOuts, MethodKeys
  <2>6. c.methods[j].name = MethodAt(q).method /\ MethodAt(q).fqcn = c.fqcn
    BY <2>5 DEF MethodOut, MethodKey, Key
  <2>7. MethodAt(q) \in ControllerFacts
    BY <1>1, <2>4, MethodCellsHold
  <2> QED BY <2>4, <2>6, <2>7 DEF Kept, ControllerFacts
<1>5. ASSUME NEW j \in DOMAIN c.methods, bindings # <<>>
      PROVE  /\ First(c, c.methods[j]) = OrderIn(bindings, c.fqcn, c.methods[j].name)
             /\ First(c, c.methods[j]) \in Nat
  <2> DEFINE m == c.methods[j]
             B == Bound(c.fqcn, m.name)
             o == RouteOrder(c.fqcn, m.name)
             P(x) == /\ bindings[x].fqcn = c.fqcn /\ bindings[x].method = m.name
                     /\ \A h \in 1 .. x - 1 : ~(bindings[h].fqcn = c.fqcn /\ bindings[h].method = m.name)
  <2>1. o \in Nat /\ o \in B /\ \A x \in B : o <= x
    BY <1>2, <1>4, <1>5, RouteOrderIs
  <2>2. DOMAIN bindings = 1 .. Len(bindings) /\ Len(bindings) \in Nat
    BY <1>2
  <2>3. \A x : x \in B <=> x \in DOMAIN bindings /\ bindings[x].fqcn = c.fqcn /\ bindings[x].method = m.name
    BY DEF Bound
  <2>4. o = OrderIn(bindings, c.fqcn, m.name)
    BY OrderInIs
  <2> HIDE DEF B, o, m
  <2>5. o \in DOMAIN bindings /\ P(o)
    <3>1. \A h \in 1 .. o - 1 : h \in DOMAIN bindings /\ h \notin B
      BY <2>1, <2>2, <2>3
    <3> QED BY <2>1, <2>3, <3>1
  <2>6. \A x \in DOMAIN bindings : P(x) => x = o
    <3> SUFFICES ASSUME NEW x \in DOMAIN bindings, P(x) PROVE x = o
      OBVIOUS
    <3>1. x \in B /\ x \in Nat
      BY <2>2, <2>3
    <3>2. o <= x
      BY <2>1, <3>1
    <3>3. ~(o \in 1 .. x - 1)
      BY <2>5
    <3> QED BY <2>1, <2>2, <2>5, <3>1, <3>2, <3>3
  <2>7. First(c, m) = CHOOSE x \in DOMAIN bindings : P(x)
    OBVIOUS
  <2> HIDE DEF P, First
  <2>8. First(c, m) = o
    BY <2>5, <2>6, <2>7
  <2> QED BY <2>1, <2>4, <2>8 DEF m
<1> HIDE DEF First
<1>6. \/ OrderIn(bindings, c.fqcn, c.methods[i].name) < OrderIn(bindings, c.fqcn, c.methods[k].name)
      \/ /\ OrderIn(bindings, c.fqcn, c.methods[i].name) = OrderIn(bindings, c.fqcn, c.methods[k].name)
         /\ Rank[c.methods[i].name] <= Rank[c.methods[k].name]
  BY <1>1, <1>3 DEF InRouteOrder
<1>7. CASE bindings # <<>>
  BY <1>5, <1>6, <1>7
<1>8. CASE bindings = <<>>
  <2>1. \A method : OrderIn(bindings, c.fqcn, method) = 1
    <3> TAKE method
    <3>1. DOMAIN bindings = {} /\ Len(bindings) = 0
      BY <1>8
    <3>2. BoundIn(bindings, c.fqcn, method) = {}
      BY <3>1 DEF BoundIn
    <3> QED BY <3>1, <3>2 DEF OrderIn
  <2> QED BY <1>6, <1>8, <2>1
<1> QED BY <1>7, <1>8

\* A controller's methods are shown in the order of their first routes, whatever
\* repeats in the routes and however often one file declares a method; without any
\* route by name.
THEOREM MethodsFollowRoutesAlways == Spec => []MethodsFollowRoutes
BY MergeAlways, MethodsFollowByMerge, PTL

-----------------------------------------------------------------------------
(* The calls of visit_model to come.                                       *)

\* A class to visit, None for a controller without a model, and how.
VisitFacts == [fqcn : Names \cup {None}, deep : BOOLEAN]

LEMMA CallingIs ==
    ASSUME NEW s \in Seq(Names \cup {None}), NEW deep \in BOOLEAN
    PROVE  /\ Calling(s, deep) \in Seq(VisitFacts)
           /\ DOMAIN Calling(s, deep) = DOMAIN s
           /\ \A i \in DOMAIN s : /\ Calling(s, deep)[i].fqcn = s[i]
                                  /\ Calling(s, deep)[i].deep = deep
<1>1. DOMAIN s = 1 .. Len(s) /\ Len(s) \in Nat /\ \A i \in DOMAIN s : s[i] \in Names \cup {None}
  OBVIOUS
<1>2. \A i \in DOMAIN s : [fqcn |-> s[i], deep |-> deep] \in VisitFacts
  BY <1>1 DEF VisitFacts
<1> QED BY <1>1, <1>2 DEF Calling

\* The walk starts at the models that are some controller's own.
LEMMA SeedsIs ==
    ASSUME NEW C, \A c \in C : c.fqcn \in Names, NEW cs \in Seq(C), NEW ms
    PROVE  /\ Seeds(cs, ms) \in Seq(Names \cup {None})
           /\ ToSet(Seeds(cs, ms))
                = {Root[cs[i].fqcn] : i \in DOMAIN cs} \cap {ms[k].fqcn : k \in DOMAIN ms}
<1> DEFINE roots == [i \in DOMAIN cs |-> Root[cs[i].fqcn]]
           I == {i \in DOMAIN cs : \E k \in DOMAIN ms : ms[k].fqcn = roots[i]}
<1>1. DOMAIN cs = 1 .. Len(cs) /\ Len(cs) \in Nat /\ \A i \in DOMAIN cs : cs[i] \in C
  OBVIOUS
<1>2. \A i \in DOMAIN cs : Root[cs[i].fqcn] \in Names \cup {None}
  BY <1>1, ProjectsAssumption
<1>3. /\ roots \in Seq(Names \cup {None}) /\ DOMAIN roots = DOMAIN cs
      /\ \A i \in DOMAIN cs : roots[i] = Root[cs[i].fqcn]
  BY <1>1, <1>2
<1>4. I \in SUBSET DOMAIN roots
  BY <1>3
<1>5. Seeds(cs, ms) = Dedup(Picked(roots, I))
  BY DEF Seeds
<1>6. {roots[i] : i \in I} = {Root[cs[i].fqcn] : i \in DOMAIN cs} \cap {ms[k].fqcn : k \in DOMAIN ms}
  BY <1>3
<1> HIDE DEF roots, I
<1>7. Picked(roots, I) \in Seq(Names \cup {None}) /\ ToSet(Picked(roots, I)) = {roots[i] : i \in I}
  BY <1>3, <1>4, PickedElements
<1>8. /\ Dedup(Picked(roots, I)) \in Seq(Names \cup {None})
      /\ ToSet(Dedup(Picked(roots, I))) = ToSet(Picked(roots, I))
  BY <1>7, DedupIs
<1> QED BY <1>5, <1>6, <1>7, <1>8

\* A model leads to the classes its relations name.
LEMMA RelatedIs ==
    ASSUME NEW m \in ModelEntries
    PROVE  /\ Related(m) \in Seq(VisitFacts)
           /\ \A v \in ToSet(Related(m)) : v.deep = TRUE
           /\ {v.fqcn : v \in ToSet(Related(m))} = RelatedTo(m) \ {None}
<1> DEFINE all == [k \in DOMAIN m.rels |-> m.rels[k].related]
           I == {k \in DOMAIN m.rels : m.rels[k].related # None}
           s == Picked(all, I)
<1>1. m.rels \in Seq(ShownFacts)
  BY DEF ModelEntries
<1>2. /\ DOMAIN m.rels = 1 .. Len(m.rels) /\ Len(m.rels) \in Nat
      /\ \A k \in DOMAIN m.rels : m.rels[k] \in ShownFacts
  BY <1>1
<1>3. \A r \in ShownFacts : r.related \in Names \cup {None}
  BY DEF ShownFacts
<1>4. /\ all \in Seq(Names \cup {None}) /\ DOMAIN all = DOMAIN m.rels
      /\ \A k \in DOMAIN m.rels : all[k] = m.rels[k].related
  BY <1>2, <1>3
<1>5. I \in SUBSET DOMAIN all /\ Related(m) = Calling(s, TRUE)
  BY <1>4 DEF Related
<1>6. {all[k] : k \in I} = RelatedTo(m) \ {None}
  <2>1. ToSet(m.rels) = {m.rels[k] : k \in DOMAIN m.rels}
    BY ToSetIs
  <2> QED BY <1>4, <2>1 DEF RelatedTo
<1> HIDE DEF all, I
<1>7. s \in Seq(Names \cup {None}) /\ ToSet(s) = {all[k] : k \in I}
  BY <1>4, <1>5, PickedElements
<1> HIDE DEF s
<1>8. /\ Related(m) \in Seq(VisitFacts) /\ DOMAIN Related(m) = DOMAIN s
      /\ \A i \in DOMAIN s : Related(m)[i].fqcn = s[i] /\ Related(m)[i].deep = TRUE
  <2>1. TRUE \in BOOLEAN
    OBVIOUS
  <2>2. s \in Seq(Names \cup {None})
    BY <1>7
  <2>3. /\ Calling(s, TRUE) \in Seq(VisitFacts) /\ DOMAIN Calling(s, TRUE) = DOMAIN s
        /\ \A i \in DOMAIN s : Calling(s, TRUE)[i].fqcn = s[i] /\ Calling(s, TRUE)[i].deep = TRUE
    BY ONLY <2>1, <2>2, CallingIs
  <2>4. Related(m) = Calling(s, TRUE)
    BY <1>5
  <2> QED BY ONLY <2>3, <2>4
<1>9. ToSet(Related(m)) = {Related(m)[i] : i \in DOMAIN s} /\ ToSet(s) = {s[i] : i \in DOMAIN s}
  BY <1>8, ToSetIs
<1>10. {v.fqcn : v \in ToSet(Related(m))} = ToSet(s)
  BY <1>8, <1>9
<1>11. \A v \in ToSet(Related(m)) : v.deep = TRUE
  BY <1>8, <1>9
<1> QED BY <1>6, <1>7, <1>8, <1>10, <1>11

LEMMA SourcesTyped ==
    ASSUME NEW ms \in Seq(ModelEntries) PROVE Sources(ms) \in Seq(ModelEntries)
<1> DEFINE I == {i \in DOMAIN ms : MorphTos(ms[i]) # {}}
           of == Picked(ms, I)
           ss == [i \in DOMAIN of |-> of[i].rels]
           all == Cardinality(Cells(ss))
           k == [i \in DOMAIN of |-> all - Len(of[i].rels)]
<1>1. of \in Seq(ModelEntries)
  BY PickedElements
<1>2. Sources(ms) = SortedBy(of, k)
  BY DEF Sources
<1> HIDE DEF of
<1>3. DOMAIN of = 1 .. Len(of) /\ Len(of) \in Nat /\ \A i \in DOMAIN of : of[i] \in ModelEntries
  BY <1>1
<1>4. \A e \in ModelEntries : e.rels \in Seq(ShownFacts)
  BY DEF ModelEntries
<1>5. /\ ss \in Seq(Seq(ShownFacts)) /\ DOMAIN ss = DOMAIN of
      /\ \A i \in DOMAIN of : ss[i] = of[i].rels
  BY <1>3, <1>4
<1> HIDE DEF ss
<1>6. all \in Nat /\ \A i \in DOMAIN ss : \A n \in DOMAIN ss[i] : n <= all
  BY <1>5, CellsFinite
<1> HIDE DEF all
<1>7. ASSUME NEW i \in DOMAIN of PROVE all - Len(of[i].rels) \in Nat
  <2>1. of[i].rels \in Seq(ShownFacts) /\ ss[i] = of[i].rels /\ i \in DOMAIN ss
    BY <1>3, <1>4, <1>5
  <2>2. DOMAIN of[i].rels = 1 .. Len(of[i].rels) /\ Len(of[i].rels) \in Nat
    BY <2>1
  <2>3. Len(of[i].rels) # 0 => Len(of[i].rels) \in DOMAIN of[i].rels
    BY <2>2
  <2>4. Len(of[i].rels) <= all
    BY <1>6, <2>1, <2>2, <2>3
  <2> QED BY <1>6, <2>2, <2>4
<1>8. k \in [DOMAIN of -> Nat]
  BY <1>7
<1> HIDE DEF k
<1> QED BY <1>1, <1>2, <1>8, SortKeeps

LEMMA GroupedTyped ==
    ASSUME NEW m \in ModelEntries, NEW p \in [Morphs -> Seq(AllMorphFacts)]
    PROVE  Grouped(m, p) \in Seq(Names \cup {None})
<1> DEFINE N == Names \cup {None}
           group(n) == IF n \in Morphs THEN [i \in DOMAIN p[n] |-> p[n][i].model] ELSE <<>>
           each == [k \in DOMAIN m.rels |-> group(m.rels[k].name)]
           groups == Flattened(Picked(each, MorphTos(m)))
<1>1. m.fqcn \in N /\ m.rels \in Seq(ShownFacts)
  BY DEF ModelEntries
<1>2. DOMAIN m.rels = 1 .. Len(m.rels) /\ Len(m.rels) \in Nat
  BY <1>1
<1>3. ASSUME NEW n PROVE group(n) \in Seq(N)
  <2>1. CASE n \in Morphs
    <3>1. p[n] \in Seq(AllMorphFacts)
      BY <2>1
    <3>2. DOMAIN p[n] = 1 .. Len(p[n]) /\ Len(p[n]) \in Nat /\ \A i \in DOMAIN p[n] : p[n][i] \in AllMorphFacts
      BY <3>1
    <3>3. \A x \in AllMorphFacts : x.model \in N
      BY DEF AllMorphFacts
    <3> HIDE DEF N
    <3> QED BY <2>1, <3>2, <3>3
  <2> QED BY <2>1
<1> HIDE DEF group
<1>4. each \in Seq(Seq(N)) /\ MorphTos(m) \in SUBSET DOMAIN each
  BY <1>2, <1>3 DEF MorphTos
<1>5. Grouped(m, p) = <<m.fqcn>> \o (IF Len(m.rels) <= 1 THEN <<>> ELSE groups)
  BY DEF Grouped, group
<1> HIDE DEF each
<1>6. Picked(each, MorphTos(m)) \in Seq(Seq(N))
  BY <1>4, PickedElements
<1>7. groups \in Seq(N)
  BY <1>6, FlattenedElements
<1> HIDE DEF groups, N
<1>8. <<m.fqcn>> \in Seq(N) /\ <<>> \in Seq(N)
  BY <1>1
<1>9. Grouped(m, p) \in Seq(N)
  BY <1>5, <1>7, <1>8
<1> QED BY <1>9 DEF N

LEMMA SourcesAndGroupsTyped ==
    ASSUME NEW ms \in Seq(ModelEntries), NEW p \in [Morphs -> Seq(AllMorphFacts)]
    PROVE  SourcesAndGroups(ms, p) \in Seq(Names \cup {None})
<1> DEFINE s == Sources(ms)
           each == [i \in DOMAIN s |-> Grouped(s[i], p)]
<1>1. s \in Seq(ModelEntries)
  BY SourcesTyped
<1>2. SourcesAndGroups(ms, p) = Flattened(each)
  BY DEF SourcesAndGroups
<1> HIDE DEF s
<1>3. DOMAIN s = 1 .. Len(s) /\ Len(s) \in Nat /\ \A i \in DOMAIN s : s[i] \in ModelEntries
  BY <1>1
<1>4. \A i \in DOMAIN s : Grouped(s[i], p) \in Seq(Names \cup {None})
  BY <1>3, GroupedTyped
<1>5. each \in Seq(Seq(Names \cup {None}))
  BY <1>3, <1>4
<1> HIDE DEF each
<1> QED BY <1>2, <1>5, FlattenedElements

\* The calls to come are calls.
VisitsTyped == visits \in Seq(VisitFacts)

\* The entries of merged lists are named.
LEMMA EntriesNamed ==
    MergeInv /\ stage # "analyze" =>
      /\ controllers \in Seq(ToSet(controllers)) /\ \A c \in ToSet(controllers) : c.fqcn \in Names
      /\ polymorphic \in [Morphs -> Seq(AllMorphFacts)]
<1> SUFFICES ASSUME MergeInv, stage # "analyze"
             PROVE  /\ controllers \in Seq(ToSet(controllers))
                    /\ \A c \in ToSet(controllers) : c.fqcn \in Names
                    /\ polymorphic \in [Morphs -> Seq(AllMorphFacts)]
  OBVIOUS
<1>1. controllers \in Seq(MethodEntries(MethodOuts)) /\ polymorphic \in [Morphs -> Seq(AllMorphFacts)]
  BY DEF MergeInv, MergedMethods, MorphsMerged
<1>2. /\ DOMAIN controllers = 1 .. Len(controllers) /\ Len(controllers) \in Nat
      /\ \A i \in DOMAIN controllers : controllers[i] \in MethodEntries(MethodOuts)
  BY <1>1
<1>3. controllers = [i \in 1 .. Len(controllers) |-> controllers[i]]
  BY <1>1
<1>4. ToSet(controllers) = {controllers[i] : i \in DOMAIN controllers}
  BY ToSetIs
<1>5. controllers \in Seq(ToSet(controllers))
  BY <1>2, <1>3, <1>4
<1>6. \A e \in MethodEntries(MethodOuts) : e.fqcn \in Names
  BY DEF MethodEntries
<1> QED BY <1>1, <1>2, <1>4, <1>5, <1>6

LEMMA EntriesNamedNext ==
    MergeInv' /\ stage' # "analyze" =>
      /\ controllers' \in Seq(ToSet(controllers')) /\ \A c \in ToSet(controllers') : c.fqcn \in Names
      /\ polymorphic' \in [Morphs -> Seq(AllMorphFacts)]
<1>1. (MergeInv /\ stage # "analyze" =>
      /\ controllers \in Seq(ToSet(controllers)) /\ \A c \in ToSet(controllers) : c.fqcn \in Names
      /\ polymorphic \in [Morphs -> Seq(AllMorphFacts)])'
  BY EntriesNamed, PTL
<1> QED BY <1>1 DEF ToSet

\* What the walk is given
LEMMA ArrangedTyped ==
    ASSUME MergeInv, Arrange
    PROVE  /\ controllers' \in Seq(ToSet(controllers')) /\ \A c \in ToSet(controllers') : c.fqcn \in Names
           /\ polymorphic' \in [Morphs -> Seq(AllMorphFacts)]
           /\ remaining' \in Seq(ModelEntries) /\ Len(remaining') = Len(models)
           /\ models' = <<>> /\ stage' = "order"
           /\ visits' = IF Len(remaining') < 2 THEN <<>>
                        ELSE IF NoGroups(polymorphic')
                        THEN Calling(Seeds(controllers', remaining'), TRUE)
                        ELSE Calling(SourcesAndGroups(remaining', polymorphic'), FALSE)
<1>1. MergeInv'
  BY ListsArranged
<1>2. /\ stage = "collect" /\ stage' = "order" /\ models' = <<>> /\ remaining' = Deduped(models)
      /\ visits' = IF Len(remaining') < 2 THEN <<>>
                   ELSE IF NoGroups(polymorphic')
                   THEN Calling(Seeds(controllers', remaining'), TRUE)
                   ELSE Calling(SourcesAndGroups(remaining', polymorphic'), FALSE)
  BY DEF Arrange, Deduped
<1>3. remaining' \in Seq(ModelEntries)
  BY <1>1, <1>2 DEF MergeInv, Pooled
<1>4. models \in Seq(ModelEntries)
  BY <1>2 DEF MergeInv, MergedModels
<1>5. Len(remaining') = Len(models)
  <2>1. DOMAIN models = 1 .. Len(models) /\ Len(models) \in Nat
    BY <1>4
  <2>2. DOMAIN remaining' = DOMAIN models
    BY <1>2 DEF Deduped
  <2>3. DOMAIN remaining' = 1 .. Len(remaining') /\ Len(remaining') \in Nat
    BY <1>3
  <2> QED BY <2>1, <2>2, <2>3
<1>6. /\ controllers' \in Seq(ToSet(controllers')) /\ \A c \in ToSet(controllers') : c.fqcn \in Names
      /\ polymorphic' \in [Morphs -> Seq(AllMorphFacts)]
  BY <1>1, <1>2, EntriesNamedNext
<1> QED BY <1>2, <1>3, <1>5, <1>6

\* What one visit does: a class without a model left is skipped.
LEMMA VisitIs ==
    ASSUME MergeInv, VisitsTyped, Visit
    PROVE  /\ visits \in Seq(VisitFacts) /\ visits # <<>> /\ remaining \in Seq(ModelEntries)
           /\ models \in Seq(ModelEntries) /\ stage = "order" /\ stage' = "order"
           /\ UNCHANGED <<files, bindings, next, item, controllers, polymorphic, broadcast>>
           /\ \/ /\ \A i \in DOMAIN remaining : remaining[i].fqcn # Head(visits).fqcn
                 /\ visits' = Tail(visits) /\ models' = models /\ remaining' = remaining
              \/ \E at \in DOMAIN remaining :
                   /\ remaining[at].fqcn = Head(visits).fqcn
                   /\ models' = Append(models, remaining[at])
                   /\ remaining' = Without(remaining, at)
                   /\ visits' = Calls(remaining[at], Head(visits)) \o Tail(visits)
<1> DEFINE of == {i \in DOMAIN remaining : remaining[i].fqcn = Head(visits).fqcn}
           at == FirstOf(of)
<1>1. /\ stage = "order" /\ stage' = "order" /\ visits # <<>>
      /\ UNCHANGED <<files, bindings, next, item, controllers, polymorphic, broadcast>>
      /\ \/ of = {} /\ visits' = Tail(visits) /\ UNCHANGED <<models, remaining>>
         \/ /\ of # {} /\ models' = Append(models, remaining[at])
            /\ remaining' = Without(remaining, at)
            /\ visits' = Calls(remaining[at], Head(visits)) \o Tail(visits)
  BY DEF Visit
<1>2. remaining \in Seq(ModelEntries) /\ models \in Seq(ModelEntries)
  BY <1>1 DEF MergeInv, Pooled
<1>3. of # {} => at \in of
  <2>1. DOMAIN remaining = 1 .. Len(remaining) /\ Len(remaining) \in Nat
    BY <1>2
  <2>2. of \in SUBSET (1 .. Len(remaining))
    BY <2>1
  <2> HIDE DEF of
  <2> QED BY <2>1, <2>2, FirstAndLast
<1>4. CASE of = {}
  BY <1>1, <1>2, <1>4 DEF VisitsTyped
<1>5. CASE of # {}
  <2>1. at \in DOMAIN remaining /\ remaining[at].fqcn = Head(visits).fqcn
    BY <1>3, <1>5
  <2> HIDE DEF at
  <2>2. /\ models' = Append(models, remaining[at])
        /\ remaining' = Without(remaining, at)
        /\ visits' = Calls(remaining[at], Head(visits)) \o Tail(visits)
    BY <1>1, <1>5
  <2> HIDE DEF of
  <2> QED BY <1>1, <1>2, <2>1, <2>2 DEF VisitsTyped
<1> QED BY <1>4, <1>5

LEMMA CallsTyped ==
    ASSUME NEW m \in ModelEntries, NEW v PROVE Calls(m, v) \in Seq(VisitFacts)
<1>1. Related(m) \in Seq(VisitFacts)
  BY RelatedIs
<1>2. <<>> \in Seq(VisitFacts)
  BY EmptyList
<1>3. Calls(m, v) = Related(m) \/ Calls(m, v) = <<>>
  BY DEF Calls
<1> QED BY <1>1, <1>2, <1>3

LEMMA HeadAndTail ==
    ASSUME NEW S, NEW s \in Seq(S), s # <<>>
    PROVE  /\ Head(s) = s[1] /\ 1 \in DOMAIN s /\ Head(s) \in S
           /\ Tail(s) \in Seq(S) /\ Len(Tail(s)) = Len(s) - 1 /\ Len(s) \in Nat
           /\ ToSet(s) = ToSet(Tail(s)) \cup {Head(s)}
<1> DEFINE h == Head(s)
           t == Tail(s)
<1>1. /\ h = s[1] /\ Len(s) \in Nat /\ Len(s) # 0 /\ DOMAIN s = 1 .. Len(s)
      /\ t \in Seq(S) /\ Len(t) = Len(s) - 1
      /\ DOMAIN t = 1 .. Len(s) - 1
      /\ \A i \in 1 .. Len(s) - 1 : t[i] = s[i + 1]
  OBVIOUS
<1>2. 1 \in DOMAIN s /\ s[1] \in S
  BY <1>1
<1> HIDE DEF h, t
<1>3. \A i \in DOMAIN s : i = 1 \/ (i - 1 \in DOMAIN t /\ (i - 1) + 1 = i)
  BY <1>1
<1>4. \A i \in DOMAIN t : i + 1 \in DOMAIN s
  BY <1>1
<1>5. \A i \in DOMAIN s : s[i] = h \/ \E n \in DOMAIN t : s[i] = t[n]
  BY <1>1, <1>3
<1>6. \A n \in DOMAIN t : \E i \in DOMAIN s : t[n] = s[i]
  BY <1>1, <1>4
<1>7. ASSUME NEW x PROVE x \in ToSet(s) <=> x \in ToSet(t) \cup {h}
  <2>1. x \in ToSet(s) => x = h \/ x \in ToSet(t)
    BY <1>5, InToSet
  <2>2. h \in ToSet(s)
    BY <1>1, <1>2, InToSet
  <2>3. x \in ToSet(t) => x \in ToSet(s)
    BY <1>6, InToSet
  <2> QED BY <2>1, <2>2, <2>3
<1>8. ToSet(s) = ToSet(t) \cup {h}
  BY <1>7
<1> QED BY <1>1, <1>2, <1>8 DEF h, t

LEMMA VisitsKept ==
    ASSUME MergeInv, VisitsTyped, [Next]_vars PROVE VisitsTyped'
<1>1. CASE Arrange
  <2>1. /\ controllers' \in Seq(ToSet(controllers')) /\ \A c \in ToSet(controllers') : c.fqcn \in Names
        /\ polymorphic' \in [Morphs -> Seq(AllMorphFacts)]
        /\ remaining' \in Seq(ModelEntries)
        /\ visits' = IF Len(remaining') < 2 THEN <<>>
                     ELSE IF NoGroups(polymorphic')
                     THEN Calling(Seeds(controllers', remaining'), TRUE)
                     ELSE Calling(SourcesAndGroups(remaining', polymorphic'), FALSE)
    BY <1>1, ArrangedTyped
  <2>2. Seeds(controllers', remaining') \in Seq(Names \cup {None})
    BY <2>1, SeedsIs
  <2>3. SourcesAndGroups(remaining', polymorphic') \in Seq(Names \cup {None})
    BY <2>1, SourcesAndGroupsTyped
  <2>4. /\ Calling(Seeds(controllers', remaining'), TRUE) \in Seq(VisitFacts)
        /\ Calling(SourcesAndGroups(remaining', polymorphic'), FALSE) \in Seq(VisitFacts)
    <3>1. TRUE \in BOOLEAN /\ FALSE \in BOOLEAN
      OBVIOUS
    <3> QED BY ONLY <2>2, <2>3, <3>1, CallingIs
  <2>5. <<>> \in Seq(VisitFacts)
    BY EmptyList
  <2> QED BY <2>1, <2>4, <2>5 DEF VisitsTyped
<1>2. CASE Visit
  <2>1. /\ visits \in Seq(VisitFacts) /\ visits # <<>> /\ remaining \in Seq(ModelEntries)
        /\ \/ visits' = Tail(visits)
           \/ \E at \in DOMAIN remaining : visits' = Calls(remaining[at], Head(visits)) \o Tail(visits)
    BY <1>2, VisitIs
  <2>2. Tail(visits) \in Seq(VisitFacts)
    BY <2>1, HeadAndTail
  <2>3. \A at \in DOMAIN remaining : Calls(remaining[at], Head(visits)) \in Seq(VisitFacts)
    <3>1. \A at \in DOMAIN remaining : remaining[at] \in ModelEntries
      BY <2>1
    <3> QED BY <3>1, CallsTyped
  <2>4. \A s, t \in Seq(VisitFacts) : s \o t \in Seq(VisitFacts)
    BY JoinElements
  <2> QED BY <2>1, <2>2, <2>3, <2>4 DEF VisitsTyped
<1>3. CASE UNCHANGED visits
  BY <1>3 DEF VisitsTyped
<1>4. Arrange \/ Visit \/ UNCHANGED visits
  BY DEF Next, Analyze, CollectRoutes, MergeController, MergeModel, MergeFacts, Emit, Stop, vars
<1> QED BY <1>1, <1>2, <1>3, <1>4

\* What the variant needs: the lists are lists.
WalkInv == MergeInv /\ VisitsTyped

LEMMA WalkAlways == Spec => []WalkInv
<1>1. Init => WalkInv
  <2>1. Init => VisitsTyped
    BY EmptyList DEF Init, VisitsTyped
  <2> QED BY <2>1, MergeStarts DEF WalkInv
<1>2. WalkInv /\ [Next]_vars => WalkInv'
  BY MergeKept, VisitsKept DEF WalkInv
<1> QED BY <1>1, <1>2, PTL DEF Spec

-----------------------------------------------------------------------------
(* Every step leaves less to do.                                           *)

LEMMA LeftDescends ==
    ASSUME NEW n \in 1 .. 5, Left'[n] < Left[n], \A l \in 1 .. n - 1 : Left'[l] = Left[l]
    PROVE  Descends
BY DEF Descends

LEMMA StepDescends ==
    ASSUME WalkInv, Next PROVE Descends \/ UNCHANGED vars
<1>0. MergeInv /\ VisitsTyped
  BY DEF WalkInv
<1>1. /\ Left[1] = StageRank /\ Left[2] = Len(files) + 1 - next /\ Left[3] = ItemsLeft
      /\ Left[4] = Len(remaining) /\ Left[5] = Len(visits)
      /\ Left'[1] = StageRank' /\ Left'[2] = Len(files') + 1 - next' /\ Left'[3] = ItemsLeft'
      /\ Left'[4] = Len(remaining') /\ Left'[5] = Len(visits')
  BY DEF Left
<1>2. CASE Analyze \/ CollectRoutes \/ Arrange \/ Emit
  <2>1. StageRank' < StageRank
    <3>1. \/ (stage = "analyze" /\ stage' = "routes") \/ (stage = "routes" /\ stage' = "collect")
          \/ (stage = "collect" /\ stage' = "order") \/ (stage = "order" /\ stage' = "done")
      BY <1>2 DEF Analyze, CollectRoutes, Arrange, Emit
    <3> QED BY <3>1 DEF StageRank
  <2> QED BY <1>1, <2>1, LeftDescends
<1>3. CASE MergeController \/ MergeModel
  <2>1. /\ stage = "collect" /\ stage' = "collect" /\ next <= Len(files) /\ next' = next /\ files' = files
        /\ item' = item + 1
    BY <1>3 DEF MergeController, MergeModel, Merging
  <2>2. FilesTyped /\ Positions
    BY <1>0, <2>1 DEF MergeInv
  <2>3. item \in Nat /\ next \in DOMAIN files
    BY <2>1, <2>2, CellsHold DEF Positions
  <2>4. Len(files[next].controllers) \in Nat /\ Len(files[next].models) \in Nat
    <3>1. files[next].controllers \in Seq(ControllerFacts) /\ files[next].models \in Seq(AllModelFacts)
      BY <2>2, <2>3, CellsHold
    <3> QED BY <3>1
  <2>5. /\ ItemsLeft = Len(files[next].controllers) + Len(files[next].models) + 1 - item
        /\ ItemsLeft' = Len(files[next].controllers) + Len(files[next].models) + 1 - (item + 1)
    BY <2>1 DEF ItemsLeft, Merging
  <2>6. ItemsLeft' < ItemsLeft
    <3>1. \A l, m, i \in Nat : l + m + 1 - (i + 1) < l + m + 1 - i
      OBVIOUS
    <3> QED BY <2>3, <2>4, <2>5, <3>1
  <2>7. StageRank' = StageRank /\ Len(files') + 1 - next' = Len(files) + 1 - next
    BY <2>1 DEF StageRank
  <2>8. Left'[3] < Left[3] /\ \A l \in 1 .. 3 - 1 : Left'[l] = Left[l]
    <3>1. Left'[1] = Left[1] /\ Left'[2] = Left[2] /\ Left'[3] < Left[3]
      BY <1>1, <2>6, <2>7
    <3>2. \A l \in 1 .. 3 - 1 : l = 1 \/ l = 2
      OBVIOUS
    <3> QED BY <3>1, <3>2
  <2> QED BY <2>8, LeftDescends
<1>4. CASE MergeFacts
  <2>1. /\ stage = "collect" /\ stage' = "collect" /\ next <= Len(files) /\ next' = next + 1 /\ files' = files
    BY <1>4 DEF MergeFacts, Merging
  <2>2. FilesTyped /\ Positions
    BY <1>0, <2>1 DEF MergeInv
  <2>3. next \in Nat /\ Len(files) \in Nat
    BY <2>1, <2>2, CellsHold DEF Positions
  <2>4. Len(files') + 1 - next' < Len(files) + 1 - next /\ StageRank' = StageRank
    BY <2>1, <2>3 DEF StageRank
  <2>5. Left'[2] < Left[2] /\ \A l \in 1 .. 2 - 1 : Left'[l] = Left[l]
    <3>1. \A l \in 1 .. 2 - 1 : l = 1
      OBVIOUS
    <3> QED BY <1>1, <2>4, <3>1
  <2> QED BY <2>5, LeftDescends
<1>5. CASE Visit
  <2>1. /\ visits \in Seq(VisitFacts) /\ visits # <<>> /\ remaining \in Seq(ModelEntries)
        /\ stage = "order" /\ stage' = "order" /\ files' = files /\ next' = next
        /\ \/ visits' = Tail(visits) /\ remaining' = remaining
           \/ \E at \in DOMAIN remaining : remaining' = Without(remaining, at)
    BY <1>0, <1>5, VisitIs
  <2>2. /\ StageRank' = StageRank /\ ItemsLeft' = ItemsLeft
        /\ Len(files') + 1 - next' = Len(files) + 1 - next
    BY <2>1 DEF StageRank, ItemsLeft, Merging
  <2>3. Left'[1] = Left[1] /\ Left'[2] = Left[2] /\ Left'[3] = Left[3]
    BY <1>1, <2>2
  <2>4. CASE visits' = Tail(visits) /\ remaining' = remaining
    <3>1. Len(visits') < Len(visits)
      BY <2>1, <2>4, HeadAndTail
    <3>2. Left'[5] < Left[5] /\ Left'[4] = Left[4]
      BY <1>1, <2>4, <3>1
    <3>3. \A l \in 1 .. 5 - 1 : l = 1 \/ l = 2 \/ l = 3 \/ l = 4
      OBVIOUS
    <3>4. \A l \in 1 .. 5 - 1 : Left'[l] = Left[l]
      BY <2>3, <3>2, <3>3
    <3> QED BY <3>2, <3>4, LeftDescends
  <2>5. CASE \E at \in DOMAIN remaining : remaining' = Without(remaining, at)
    <3>1. Len(remaining') = Len(remaining) - 1
      BY <2>1, <2>5, WithoutIs
    <3>2. Len(remaining) \in Nat
      BY <2>1
    <3>3. Left'[4] < Left[4]
      BY <1>1, <3>1, <3>2
    <3>4. \A l \in 1 .. 4 - 1 : l = 1 \/ l = 2 \/ l = 3
      OBVIOUS
    <3>5. \A l \in 1 .. 4 - 1 : Left'[l] = Left[l]
      BY <2>3, <3>4
    <3> QED BY <3>3, <3>5, LeftDescends
  <2> QED BY <2>1, <2>4, <2>5
<1>6. CASE Stop
  BY <1>6 DEF Stop
<1> QED BY <1>2, <1>3, <1>4, <1>5, <1>6 DEF Next

\* build_delta ends, for any project: every step takes a number away from what is
\* left and leaves the numbers before it alone, also where models relate to each
\* other in a circle.
THEOREM EndsAlways == Spec => Ends
<1>1. WalkInv /\ [Next]_vars => [Descends]_vars
  BY StepDescends
<1> QED BY <1>1, WalkAlways, PTL DEF Spec, Ends

-----------------------------------------------------------------------------
(* The channels of a file, and which of them is listed first.              *)

LEMMA BroadcastsAre ==
    ASSUME NEW cs \in Seq(ChannelCalls)
    PROVE  /\ OncePerChannel(Broadcasts(cs))
           /\ \A b \in ToSet(Broadcasts(cs)) : \E k \in DOMAIN cs : b.channel = cs[k].name
           /\ \A k \in Found(cs) : \E b \in ToSet(Broadcasts(cs)) : b.channel = cs[k].name
           /\ \A k \in Found(cs) :
                (\A l \in DOMAIN cs : cs[l].name = cs[k].name => l >= k) =>
                  [channel |-> cs[k].name, type |-> cs[FirstOf(NextCallback(cs, k))].callback]
                    \in ToSet(Broadcasts(cs))
<1> DEFINE type(i) == IF i \in Found(cs) THEN cs[FirstOf(NextCallback(cs, i))].callback
                                         ELSE None
           s == [i \in DOMAIN cs |-> [channel |-> cs[i].name, type |-> type(i)]]
           J == {i \in Found(cs) : \A k \in Found(cs) : k < i => cs[k].name # cs[i].name}
           bs == Broadcasts(cs)
           T == {s[i] : i \in DOMAIN cs}
<1>1. DOMAIN cs = 1 .. Len(cs) /\ Len(cs) \in Nat /\ Found(cs) \in SUBSET DOMAIN cs
  BY DEF Found
<1>2. bs = Picked(s, J)
  BY DEF Broadcasts
<1> HIDE DEF type, bs
<1>3. /\ s \in Seq(T) /\ DOMAIN s = DOMAIN cs
      /\ \A i \in DOMAIN cs : s[i].channel = cs[i].name /\ s[i].type = type(i)
                              /\ s[i] = [channel |-> cs[i].name, type |-> type(i)]
  BY <1>1
<1>4. /\ J \in SUBSET DOMAIN cs /\ J \in SUBSET Found(cs)
      /\ \A i \in J : \A k \in Found(cs) : k < i => cs[k].name # cs[i].name
      /\ \A i \in Found(cs) : (\A k \in Found(cs) : k < i => cs[k].name # cs[i].name) => i \in J
  BY <1>1
<1> HIDE DEF s, J, T
<1>5. /\ \E at : Lists(at, J) /\ bs = [n \in 1 .. Cardinality(J) |-> s[at[n]]]
      /\ Cardinality(J) \in Nat
  BY <1>2, <1>3, <1>4, PickedIs
<1>6. ToSet(bs) = {s[i] : i \in J}
  BY <1>2, <1>3, <1>4, PickedElements
<1>7. OncePerChannel(bs)
  <2>1. PICK at : Lists(at, J) /\ bs = [n \in 1 .. Cardinality(J) |-> s[at[n]]]
    BY <1>5
  <2>2. DOMAIN bs = 1 .. Cardinality(J) /\ \A n \in DOMAIN bs : at[n] \in J /\ bs[n] = s[at[n]]
    BY <2>1 DEF Lists
  <2>3. \A m, n \in DOMAIN bs : m < n => bs[m].channel # bs[n].channel
    <3> SUFFICES ASSUME NEW m \in DOMAIN bs, NEW n \in DOMAIN bs, m < n
                 PROVE  bs[m].channel # bs[n].channel
      OBVIOUS
    <3>1. at[m] < at[n]
      BY <2>1, <2>2 DEF Lists
    <3>2. cs[at[m]].name # cs[at[n]].name
      BY <1>4, <2>2, <3>1
    <3> QED BY <1>3, <1>4, <2>2, <3>2
  <2>4. \A m, n \in DOMAIN bs : m < n \/ n < m \/ m = n
    BY <1>5, <2>2
  <2> QED BY <2>3, <2>4 DEF OncePerChannel
<1>8. \A b \in ToSet(bs) : \E k \in DOMAIN cs : b.channel = cs[k].name
  BY <1>3, <1>4, <1>6
<1>9. ASSUME NEW k \in Found(cs)
      PROVE  \E b \in ToSet(bs) : b.channel = cs[k].name
  <2> DEFINE I == {l \in Found(cs) : cs[l].name = cs[k].name}
             g == FirstOf(I)
  <2>1. I \in SUBSET (1 .. Len(cs)) /\ I # {}
    BY <1>1
  <2>2. g \in I /\ \A l \in I : g <= l
    <3> HIDE DEF I
    <3> QED BY <1>1, <2>1, FirstAndLast
  <2> HIDE DEF g
  <2>3. \A l \in Found(cs) : l < g => cs[l].name # cs[g].name
    <3>1. \A l \in Found(cs) : l \in Nat /\ g \in Nat
      BY <1>1, <2>2
    <3> QED BY <2>2, <3>1
  <2>4. g \in J
    BY <1>4, <2>2, <2>3
  <2> QED BY <1>3, <1>4, <1>6, <2>2, <2>4
<1>10. ASSUME NEW k \in Found(cs), \A l \in DOMAIN cs : cs[l].name = cs[k].name => l >= k
       PROVE  [channel |-> cs[k].name, type |-> cs[FirstOf(NextCallback(cs, k))].callback]
                 \in ToSet(bs)
  <2>1. \A l \in Found(cs) : l < k => cs[l].name # cs[k].name
    BY <1>1, <1>10
  <2>2. k \in J
    BY <1>4, <2>1
  <2>3. type(k) = cs[FirstOf(NextCallback(cs, k))].callback
    BY DEF type
  <2> QED BY <1>1, <1>3, <1>6, <2>2, <2>3
<1> QED BY <1>7, <1>8, <1>9, <1>10 DEF bs

\* What the files of the result are, and that the first declaration of a channel
\* is the one that is listed.
Analyzed == stage # "analyze" => \A i \in DOMAIN files : files[i] = AnalyzeFile(files[i].source)

\* Of the calls that name a channel, the first in path order is listed.
FirstListed ==
    stage # "analyze" =>
      \A h \in 1 .. next - 1 : \A b \in ToSet(files[h].broadcast) :
        (\A g \in 1 .. h - 1 : b.channel \notin ChannelNames(files[g].broadcast)) =>
          b \in ToSet(broadcast)

\* What the files say and what of it is merged.
FactsInv == MergeInv /\ Analyzed /\ FirstListed

LEMMA AnalyzedKept ==
    ASSUME MergeInv, Analyzed, [Next]_vars PROVE Analyzed'
<1>1. CASE Analyze
  <2>1. files' = [i \in DOMAIN files |-> AnalyzeFile(files[i])]
    BY <1>1 DEF Analyze
  <2>2. \A f : AnalyzeFile(f).source = f
    BY DEF AnalyzeFile
  <2>3. \A i \in DOMAIN files : files'[i].source = files[i] /\ files'[i] = AnalyzeFile(files[i])
    BY <2>1, <2>2
  <2>4. \A i \in DOMAIN files' : files'[i] = AnalyzeFile(files'[i].source)
    BY <2>1, <2>3
  <2> QED BY <2>4 DEF Analyzed
<1>2. CASE ~Analyze
  <2>1. files' = files /\ (stage' # "analyze" => stage # "analyze")
    BY <1>2 DEF Next, CollectRoutes, MergeController, MergeModel, MergeFacts, Arrange, Visit,
                Emit, Stop, vars
  <2> QED BY <2>1, SMTT(30) DEF Analyzed
<1> QED BY <1>1, <1>2

LEMMA FirstListedKept ==
    ASSUME MergeInv, Analyzed, FirstListed, [Next]_vars PROVE FirstListed'
<1>1. CASE Analyze
  <2>1. next = 1 /\ next' = next
    BY <1>1 DEF Analyze, MergeInv, Untouched
  <2> QED BY <2>1 DEF FirstListed
<1>2. CASE MergeFacts
  <2> DEFINE bs == files[next].broadcast
  <2>1. /\ stage = "collect" /\ next <= Len(files) /\ next' = next + 1 /\ files' = files
        /\ broadcast' = broadcast \o Picked(bs, Unseen(bs))
    BY <1>2 DEF MergeFacts, Merging
  <2>2. FilesTyped /\ Positions /\ ChannelsMerged
    BY <2>1 DEF MergeInv
  <2>3. next \in DOMAIN files /\ next \in Nat \ {0}
    BY <2>1, <2>2, CellsHold DEF Positions
  <2>4. /\ files[next].source \in Texts /\ bs = Broadcasts(files[next].source.channels)
        /\ bs \in Seq(BroadcastFacts)
    BY <2>1, <2>2, <2>3, CellsHold DEF Analyzed, AnalyzeFile
  <2>5. OncePerChannel(bs)
    <3>1. files[next].source.channels \in Seq(ChannelCalls)
      BY <2>4 DEF Texts
    <3> QED BY <2>4, <3>1, BroadcastsAre
  <2>6. ToSet(broadcast') = ToSet(broadcast) \cup {bs[k] : k \in Unseen(bs)}
    BY <2>1, <2>2, <2>4, ChannelsJoined DEF ChannelsMerged
  <2>7. Channels = UNION {ChannelNames(files[h].broadcast) : h \in 1 .. next - 1}
    BY <2>2 DEF ChannelsMerged
  <2> HIDE DEF bs
  <2>8. ASSUME NEW b \in ToSet(bs),
               \A g \in 1 .. next - 1 : b.channel \notin ChannelNames(files[g].broadcast)
        PROVE  b \in ToSet(broadcast')
    <3>1. PICK k \in DOMAIN bs : b = bs[k]
      BY InToSet
    <3>2. bs[k].channel \notin Channels
      BY <2>7, <2>8, <3>1
    <3>3. \A l \in 1 .. k - 1 : l \in DOMAIN bs /\ l # k
      BY <2>4
    <3>4. \A l \in 1 .. k - 1 : bs[l].channel # bs[k].channel
      BY <2>5, <3>3 DEF OncePerChannel
    <3>5. k \in Unseen(bs)
      BY <3>2, <3>4 DEF Unseen
    <3> QED BY <2>6, <3>1, <3>5
  <2>9. \A h \in 1 .. next' - 1 : h = next \/ h \in 1 .. next - 1
    BY <2>1, <2>3
  <2>10. \A h \in 1 .. next - 1 : \A b \in ToSet(files[h].broadcast) :
           (\A g \in 1 .. h - 1 : b.channel \notin ChannelNames(files[g].broadcast)) =>
             b \in ToSet(broadcast)
    BY <2>1 DEF FirstListed
  <2>11. \A h \in 1 .. next' - 1 : \A b \in ToSet(files[h].broadcast) :
           (\A g \in 1 .. h - 1 : b.channel \notin ChannelNames(files[g].broadcast)) =>
             b \in ToSet(broadcast')
    <3> SUFFICES ASSUME NEW h \in 1 .. next' - 1, NEW b \in ToSet(files[h].broadcast),
                        \A g \in 1 .. h - 1 : b.channel \notin ChannelNames(files[g].broadcast)
                 PROVE  b \in ToSet(broadcast')
      OBVIOUS
    <3>1. CASE h = next
      BY <2>8, <3>1 DEF bs
    <3>2. CASE h \in 1 .. next - 1
      BY <2>6, <2>10, <3>2
    <3> QED BY <2>9, <3>1, <3>2
  <2> QED BY <2>1, <2>11 DEF FirstListed, ChannelNames
<1>3. CASE ~Analyze /\ ~MergeFacts
  <2>1. /\ files' = files /\ next' = next /\ broadcast' = broadcast
        /\ (stage' # "analyze" => stage # "analyze")
    BY <1>3 DEF Next, CollectRoutes, MergeController, MergeModel, Arrange, Visit, Emit, Stop, vars
  <2> QED BY <2>1 DEF FirstListed, ChannelNames
<1> QED BY <1>1, <1>2, <1>3

LEMMA FactsAlways == Spec => []FactsInv
<1>1. Init => FactsInv
  <2>1. Init => Analyzed /\ FirstListed
    BY DEF Init, Analyzed, FirstListed
  <2> QED BY <2>1, MergeStarts DEF FactsInv
<1>2. FactsInv /\ [Next]_vars => FactsInv'
  BY MergeKept, AnalyzedKept, FirstListedKept DEF FactsInv
<1> QED BY <1>1, <1>2, PTL DEF Spec

LEMMA ChannelsFoundByFacts == FactsInv => ChannelsFound
<1> DEFINE calls(f) == f.source.channels
           first(i, k) == \A h \in 1 .. i : \A l \in DOMAIN calls(files[h]) :
                            calls(files[h])[l].name = calls(files[i])[k].name => h = i /\ l >= k
<1> SUFFICES ASSUME FactsInv, stage = "done"
             PROVE  /\ Channels \subseteq UNION {{c.name : c \in ToSet(calls(f))} : f \in ToSet(files)}
                    /\ \A i \in DOMAIN files : \A k \in DOMAIN calls(files[i]) :
                         LET cs == calls(files[i])
                         IN  cs[k].callback # None /\ (k = 1 \/ cs[k - 1].callback # None) =>
                               /\ cs[k].name \in Channels
                               /\ first(i, k) => [channel |-> cs[k].name, type |-> cs[k].callback]
                                                   \in ToSet(broadcast)
  BY DEF ChannelsFound
<1>1. MergeInv /\ Analyzed /\ FirstListed /\ FilesTyped /\ ChannelsMerged /\ next = Len(files) + 1
  BY DEF FactsInv, MergeInv
<1>2. DOMAIN files = 1 .. Len(files) /\ Len(files) \in Nat /\ 1 .. next - 1 = 1 .. Len(files)
  BY <1>1, CellsHold
<1>3. Channels = UNION {ChannelNames(files[h].broadcast) : h \in DOMAIN files}
  BY <1>1, <1>2 DEF ChannelsMerged
<1>4. ASSUME NEW i \in DOMAIN files
      PROVE  /\ calls(files[i]) \in Seq(ChannelCalls)
             /\ files[i].broadcast = Broadcasts(calls(files[i]))
  <2>1. files[i].source \in Texts
    BY <1>1, CellsHold
  <2>2. files[i] = AnalyzeFile(files[i].source)
    BY <1>1 DEF Analyzed
  <2>3. files[i].broadcast = Broadcasts(calls(files[i]))
    BY <2>2 DEF AnalyzeFile
  <2> QED BY <2>1, <2>3 DEF Texts
<1> HIDE DEF calls
<1>5. Channels \subseteq UNION {{c.name : c \in ToSet(calls(f))} : f \in ToSet(files)}
  <2> SUFFICES ASSUME NEW n \in Channels
               PROVE  \E f \in ToSet(files) : \E c \in ToSet(calls(f)) : n = c.name
    OBVIOUS
  <2>1. PICK h \in DOMAIN files : n \in ChannelNames(files[h].broadcast)
    BY <1>3
  <2>2. PICK b \in ToSet(files[h].broadcast) : n = b.channel
    BY <2>1 DEF ChannelNames
  <2>3. PICK k \in DOMAIN calls(files[h]) : b.channel = calls(files[h])[k].name
    BY <1>4, <2>2, BroadcastsAre
  <2>4. files[h] \in ToSet(files) /\ calls(files[h])[k] \in ToSet(calls(files[h]))
    BY InToSet
  <2> QED BY <2>2, <2>3, <2>4
<1>6. ASSUME NEW i \in DOMAIN files, NEW k \in DOMAIN calls(files[i]),
             calls(files[i])[k].callback # None,
             k = 1 \/ calls(files[i])[k - 1].callback # None
      PROVE  /\ calls(files[i])[k].name \in Channels
             /\ first(i, k) => [channel |-> calls(files[i])[k].name,
                                type |-> calls(files[i])[k].callback] \in ToSet(broadcast)
  <2> DEFINE cs == calls(files[i])
  <2>1. cs \in Seq(ChannelCalls) /\ files[i].broadcast = Broadcasts(cs)
    BY <1>4
  <2> HIDE DEF cs
  <2>2. DOMAIN cs = 1 .. Len(cs) /\ Len(cs) \in Nat /\ k \in DOMAIN cs
    BY <2>1 DEF cs
  <2>3. cs[k].callback # None /\ (k = 1 \/ cs[k - 1].callback # None)
    BY <1>6 DEF cs
  <2>4. k \in NextCallback(cs, k) /\ NextCallback(cs, k) \in SUBSET (1 .. Len(cs))
        /\ \A l \in NextCallback(cs, k) : k <= l
    BY <2>2, <2>3 DEF NextCallback
  <2>5. FirstOf(NextCallback(cs, k)) = k
    <3>1. FirstOf(NextCallback(cs, k)) \in NextCallback(cs, k)
          /\ FirstOf(NextCallback(cs, k)) <= k
      BY <2>2, <2>4, FirstAndLast
    <3> QED BY <2>2, <2>4, <3>1
  <2>6. k \in Found(cs)
    BY <2>2, <2>3, <2>4 DEF Found
  <2>7. cs[k].name \in Channels
    <3>1. PICK b \in ToSet(files[i].broadcast) : b.channel = cs[k].name
      BY <2>1, <2>6, BroadcastsAre
    <3>2. cs[k].name \in ChannelNames(files[i].broadcast)
      BY <3>1 DEF ChannelNames
    <3> QED BY <1>3, <3>2
  <2>8. ASSUME first(i, k)
        PROVE  [channel |-> cs[k].name, type |-> cs[k].callback] \in ToSet(broadcast)
    <3> DEFINE b == [channel |-> cs[k].name, type |-> cs[k].callback]
    <3>1. \A h \in 1 .. i : \A l \in DOMAIN calls(files[h]) :
            calls(files[h])[l].name = cs[k].name => h = i /\ l >= k
      BY <2>8 DEF cs
    <3>2. i \in 1 .. i /\ \A g \in 1 .. i - 1 : g \in 1 .. i /\ g # i /\ g \in DOMAIN files
      BY <1>2
    <3>3. \A l \in DOMAIN cs : cs[l].name = cs[k].name => l >= k
      BY <3>1, <3>2 DEF cs
    <3>4. b \in ToSet(files[i].broadcast)
      BY <2>1, <2>5, <2>6, <3>3, BroadcastsAre
    <3>5. ASSUME NEW g \in 1 .. i - 1 PROVE b.channel \notin ChannelNames(files[g].broadcast)
      <4> SUFFICES ASSUME NEW x \in ToSet(files[g].broadcast), x.channel = cs[k].name PROVE FALSE
        BY DEF ChannelNames
      <4>1. calls(files[g]) \in Seq(ChannelCalls) /\ files[g].broadcast = Broadcasts(calls(files[g]))
        BY <1>4, <3>2
      <4>2. PICK l \in DOMAIN calls(files[g]) : x.channel = calls(files[g])[l].name
        BY <4>1, BroadcastsAre
      <4> QED BY <3>1, <3>2, <4>2
    <3> HIDE DEF b
    <3>6. b \in ToSet(broadcast)
      BY <1>1, <1>2, <3>4, <3>5 DEF FirstListed
    <3> QED BY <3>6 DEF b
  <2> QED BY <2>7, <2>8 DEF cs
<1> QED BY <1>5, <1>6

\* For any project: a channel whose call, and the call before it in the file, carry a
\* function is listed, where it is declared first with what that function makes of
\* it; no name that nobody declares is listed.
THEOREM ChannelsFoundAlways == Spec => []ChannelsFound
BY FactsAlways, ChannelsFoundByFacts, PTL

-----------------------------------------------------------------------------
(* What the statements of a routes file say, and what is shown of it.      *)

\* The methods a statement names, with their verbs; what it says; whether it counts.
Offered(r) == CASE r.form = "pair"  -> {<<r.method, Verbs(r.verb)>>}
                [] r.form = "class" -> {<<"__invoke", Verbs(r.verb)>>}
                [] OTHER -> ToSet(ResourceMethods(r.form = "apiResource"))

\* What a statement binds, with its class resolved.
StatedBy(f, r) ==
    LET class == ResolveClassName(f, r.class)
    IN  UNION {{<<class, m[1], v>> : v \in ToSet(m[2])} : m \in Offered(r)}

\* A class on its own counts once, and not beside a pair that names it.
Counts(f, i) ==
    f.routes[i].form = "class" =>
      \A k \in DOMAIN f.routes :
        RouteClass(f, k) = RouteClass(f, i) =>
          f.routes[k].form # "pair" /\ (f.routes[k].form = "class" => k >= i)

\* A binding binds that method to that verb.
Says(b, t) == \E v \in ToSet(b.verbs) : t = <<b.fqcn, b.method, v>>

LEMMA InvokedIs ==
    ASSUME NEW f \in Texts, NEW i
    PROVE  i \in Invoked(f) <=> i \in Stated(f, {"class"}) /\ Counts(f, i)
<1>1. f.routes \in Seq(Statements)
  BY DEF Texts
<1>2. DOMAIN f.routes = 1 .. Len(f.routes) /\ Len(f.routes) \in Nat
  BY <1>1
<1>3. \A c : (\A b \in ToSet(BoundByVerb(f)) : b.fqcn # c)
               <=> \A k \in Stated(f, {"pair"}) : RouteClass(f, k) # c
  <2>1. ToSet(BoundByVerb(f))
          = {Binding(RouteClass(f, k), f.routes[k].method, Verbs(f.routes[k].verb)) :
               k \in Stated(f, {"pair"})}
    BY OneByOneBindings DEF BoundByVerb
  <2>2. \A c, m, v : Binding(c, m, v).fqcn = c
    BY DEF Binding
  <2> QED BY <2>1, <2>2
<1>4. i \in Invoked(f) <=>
        /\ i \in Stated(f, {"pair", "class"})
        /\ \A k \in Stated(f, {"pair"}) : RouteClass(f, k) # RouteClass(f, i)
        /\ \A k \in Stated(f, {"pair", "class"}) : k < i => RouteClass(f, k) # RouteClass(f, i)
  BY <1>3 DEF Invoked
<1>5. \A k : /\ k \in Stated(f, {"pair"}) <=> k \in DOMAIN f.routes /\ f.routes[k].form = "pair"
             /\ k \in Stated(f, {"class"}) <=> k \in DOMAIN f.routes /\ f.routes[k].form = "class"
             /\ k \in Stated(f, {"pair", "class"})
                  <=> k \in Stated(f, {"pair"}) \/ k \in Stated(f, {"class"})
  BY DEF Stated
<1>6. i \in Stated(f, {"class"}) =>
        (Counts(f, i) <=> \A k \in DOMAIN f.routes : RouteClass(f, k) = RouteClass(f, i) =>
                            k \notin Stated(f, {"pair"}) /\ (k \in Stated(f, {"class"}) => ~(k < i)))
  <2> SUFFICES ASSUME i \in Stated(f, {"class"})
               PROVE  Counts(f, i) <=> \A k \in DOMAIN f.routes : RouteClass(f, k) = RouteClass(f, i) =>
                            k \notin Stated(f, {"pair"}) /\ (k \in Stated(f, {"class"}) => ~(k < i))
    OBVIOUS
  <2>1. f.routes[i].form = "class" /\ i \in Nat
    BY <1>2, <1>5
  <2>2. \A k \in DOMAIN f.routes : ~(k < i) <=> k >= i
    BY <1>2, <2>1
  <2> QED BY <1>5, <2>1, <2>2 DEF Counts
<1> QED BY <1>4, <1>5, <1>6

\* The bindings of a file are what its statements say, as far as they count.
LEMMA FileSays ==
    ASSUME NEW f \in Texts, NEW t
    PROVE  (\E b \in ToSet(ExtractRouteBindings(f)) : Says(b, t))
             <=> \E i \in DOMAIN f.routes : Counts(f, i) /\ t \in StatedBy(f, f.routes[i])
<1> DEFINE Here(i, method, verbs) == \E v \in ToSet(verbs) : t = <<RouteClass(f, i), method, v>>
           R == Stated(f, {"resource", "apiResource"})
           P == Stated(f, {"pair"})
           V == Invoked(f)
           set(i) == ResourceMethods(f.routes[i].form = "apiResource")
<1>1. f.routes \in Seq(Statements)
  BY DEF Texts
<1>2. /\ ResourceBindings(f) \in Seq(BindingFacts)
      /\ PairBindings(f) \in Seq(BindingFacts) /\ InvokableBindings(f) \in Seq(BindingFacts)
  BY ResourceBindingsAre, OneByOneBindings
<1>3. ToSet(ExtractRouteBindings(f))
        = ToSet(ResourceBindings(f)) \cup ToSet(PairBindings(f)) \cup ToSet(InvokableBindings(f))
  <2>1. \A x, y \in Seq(BindingFacts) : x \o y \in Seq(BindingFacts) /\ ToSet(x \o y) = ToSet(x) \cup ToSet(y)
    BY JoinElements
  <2>2. /\ ResourceBindings(f) \o PairBindings(f) \in Seq(BindingFacts)
        /\ ToSet(ResourceBindings(f) \o PairBindings(f))
             = ToSet(ResourceBindings(f)) \cup ToSet(PairBindings(f))
    BY ONLY <1>2, <2>1
  <2>3. ToSet((ResourceBindings(f) \o PairBindings(f)) \o InvokableBindings(f))
          = ToSet(ResourceBindings(f) \o PairBindings(f)) \cup ToSet(InvokableBindings(f))
    BY ONLY <1>2, <2>1, <2>2
  <2>4. ExtractRouteBindings(f) = (ResourceBindings(f) \o PairBindings(f)) \o InvokableBindings(f)
    BY DEF ExtractRouteBindings
  <2> QED BY ONLY <2>2, <2>3, <2>4
<1>4. \A i, m, v : Says(Binding(RouteClass(f, i), m, v), t) <=> Here(i, m, v)
  BY DEF Says, Binding
<1> HIDE DEF Here
<1>5. (\E b \in ToSet(ResourceBindings(f)) : Says(b, t))
        <=> \E i \in R : \E m \in ToSet(set(i)) : Here(i, m[1], m[2])
  <2>1. \A b : b \in ToSet(ResourceBindings(f)) <=>
          \E i \in R : \E m \in ToSet(set(i)) : b = Binding(RouteClass(f, i), m[1], m[2])
    BY ResourceBindingsAre
  <2> HIDE DEF R, set
  <2> QED BY <1>4, <2>1
<1>6. (\E b \in ToSet(PairBindings(f)) : Says(b, t))
        <=> \E i \in P : Here(i, f.routes[i].method, Verbs(f.routes[i].verb))
  <2>1. ToSet(PairBindings(f))
          = {Binding(RouteClass(f, i), f.routes[i].method, Verbs(f.routes[i].verb)) : i \in P}
    BY OneByOneBindings
  <2> HIDE DEF P
  <2> QED BY <1>4, <2>1
<1>7. (\E b \in ToSet(InvokableBindings(f)) : Says(b, t))
        <=> \E i \in V : Here(i, "__invoke", Verbs(f.routes[i].verb))
  <2>1. ToSet(InvokableBindings(f))
          = {Binding(RouteClass(f, i), "__invoke", Verbs(f.routes[i].verb)) : i \in V}
    BY OneByOneBindings
  <2> HIDE DEF V
  <2> QED BY <1>4, <2>1
<1>8. ASSUME NEW i \in DOMAIN f.routes
      PROVE  (Counts(f, i) /\ t \in StatedBy(f, f.routes[i])) <=>
               \/ i \in R /\ \E m \in ToSet(set(i)) : Here(i, m[1], m[2])
               \/ i \in P /\ Here(i, f.routes[i].method, Verbs(f.routes[i].verb))
               \/ i \in V /\ Here(i, "__invoke", Verbs(f.routes[i].verb))
  <2> DEFINE r == f.routes[i]
  <2>1. f.routes[i].form \in {"resource", "apiResource", "pair", "class"}
    <3>1. f.routes[i] \in Statements
      BY <1>1
    <3> QED BY <3>1 DEF Statements
  <2>2. /\ i \in R <=> f.routes[i].form \in {"resource", "apiResource"}
        /\ i \in P <=> f.routes[i].form = "pair"
        /\ i \in V <=> f.routes[i].form = "class" /\ Counts(f, i)
    <3>1. /\ i \in R <=> f.routes[i].form \in {"resource", "apiResource"}
          /\ i \in P <=> f.routes[i].form = "pair"
          /\ i \in Stated(f, {"class"}) <=> f.routes[i].form = "class"
      BY DEF Stated
    <3> QED BY <3>1, InvokedIs
  <2>3. t \in StatedBy(f, f.routes[i]) <=> \E m \in Offered(f.routes[i]) : Here(i, m[1], m[2])
    BY DEF StatedBy, Here, RouteClass
  <2> HIDE DEF R, P, V, Here
  <2>4. CASE f.routes[i].form \in {"resource", "apiResource"}
    <3>1. Offered(f.routes[i]) = ToSet(set(i))
      BY <2>4 DEF Offered
    <3>2. Counts(f, i)
      BY <2>4 DEF Counts
    <3> QED BY <2>2, <2>3, <2>4, <3>1, <3>2
  <2>5. CASE f.routes[i].form = "pair"
    <3>1. Offered(f.routes[i]) = {<<f.routes[i].method, Verbs(f.routes[i].verb)>>}
      BY <2>5 DEF Offered
    <3>2. Counts(f, i)
      BY <2>5 DEF Counts
    <3>3. t \in StatedBy(f, f.routes[i]) <=> Here(i, f.routes[i].method, Verbs(f.routes[i].verb))
      BY <2>3, <3>1
    <3> QED BY <2>2, <2>5, <3>2, <3>3
  <2>6. CASE f.routes[i].form = "class"
    <3>1. Offered(f.routes[i]) = {<<"__invoke", Verbs(f.routes[i].verb)>>}
      BY <2>6 DEF Offered
    <3>2. t \in StatedBy(f, f.routes[i]) <=> Here(i, "__invoke", Verbs(f.routes[i].verb))
      BY <2>3, <3>1
    <3> QED BY <2>2, <2>6, <3>2
  <2> QED BY <2>1, <2>4, <2>5, <2>6
<1>9. R \in SUBSET DOMAIN f.routes /\ P \in SUBSET DOMAIN f.routes /\ V \in SUBSET DOMAIN f.routes
  BY DEF Stated, Invoked
<1> HIDE DEF R, P, V, set
<1> QED BY <1>3, <1>5, <1>6, <1>7, <1>8, <1>9

LEMMA BindingsSay ==
    ASSUME NEW fs \in Seq(FileFacts), NEW t
    PROVE  (\E b \in ToSet(RouteBindings(fs)) : Says(b, t))
             <=> \E h \in DOMAIN fs : \E i \in DOMAIN fs[h].source.routes :
                   Counts(fs[h].source, i) /\ t \in StatedBy(fs[h].source, fs[h].source.routes[i])
<1> DEFINE each == [i \in DOMAIN fs |-> ExtractRouteBindings(fs[i].source)]
<1>1. \A h \in DOMAIN fs : fs[h].source \in Texts
  <2>1. \A h \in DOMAIN fs : fs[h] \in FileFacts
    OBVIOUS
  <2>2. \A x \in FileFacts : x.source \in Texts
    BY DEF FileFacts
  <2> QED BY <2>1, <2>2
<1>2. /\ each \in Seq(Seq(BindingFacts)) /\ DOMAIN each = DOMAIN fs
      /\ \A h \in DOMAIN fs : each[h] = ExtractRouteBindings(fs[h].source)
  <2>1. \A h \in DOMAIN fs : ExtractRouteBindings(fs[h].source) \in Seq(BindingFacts)
    BY <1>1, FileBindingsTyped
  <2>2. DOMAIN fs = 1 .. Len(fs) /\ Len(fs) \in Nat
    OBVIOUS
  <2> QED BY <2>1, <2>2
<1>3. RouteBindings(fs) = Dedup(Flattened(each))
  BY DEF RouteBindings
<1> HIDE DEF each
<1>4. /\ Flattened(each) \in Seq(BindingFacts)
      /\ ToSet(Flattened(each)) = UNION {ToSet(each[h]) : h \in DOMAIN each}
  BY <1>2, FlattenedElements
<1>5. ToSet(RouteBindings(fs)) = ToSet(Flattened(each))
  BY <1>3, <1>4, DedupIs
<1>6. (\E b \in ToSet(RouteBindings(fs)) : Says(b, t))
        <=> \E h \in DOMAIN fs : \E b \in ToSet(ExtractRouteBindings(fs[h].source)) : Says(b, t)
  BY <1>2, <1>4, <1>5
<1>7. \A h \in DOMAIN fs :
        (\E b \in ToSet(ExtractRouteBindings(fs[h].source)) : Says(b, t))
          <=> \E i \in DOMAIN fs[h].source.routes :
                Counts(fs[h].source, i) /\ t \in StatedBy(fs[h].source, fs[h].source.routes[i])
  BY <1>1, FileSays
<1> QED BY <1>6, <1>7

\* A method is shown with the verbs of all its bindings.
LEMMA HttpMethodsAre ==
    ASSUME bindings \in Seq(BindingFacts), NEW fqcn, NEW method, NEW v
    PROVE  v \in ToSet(HttpMethods(fqcn, method))
             <=> \E b \in ToSet(bindings) : Says(b, <<fqcn, method, v>>)
<1> DEFINE S == STRING \cup {None} \cup HttpVerbs
           each == [i \in DOMAIN bindings |-> bindings[i].verbs]
           I == Bound(fqcn, method)
<1>1. /\ DOMAIN bindings = 1 .. Len(bindings) /\ Len(bindings) \in Nat
      /\ \A i \in DOMAIN bindings : bindings[i] \in BindingFacts
  OBVIOUS
<1>2. \A b \in BindingFacts : b.verbs \in Seq(S)
  BY DEF BindingFacts
<1> HIDE DEF S
<1>3. /\ each \in Seq(Seq(S)) /\ DOMAIN each = DOMAIN bindings
      /\ \A i \in DOMAIN bindings : each[i] = bindings[i].verbs
  BY <1>1, <1>2
<1>4. /\ I \in SUBSET DOMAIN each
      /\ \A i : i \in I <=> i \in DOMAIN bindings /\ bindings[i].fqcn = fqcn /\ bindings[i].method = method
  BY <1>3 DEF Bound
<1>5. HttpMethods(fqcn, method) = Dedup(Flattened(Picked(each, I)))
  BY DEF HttpMethods
<1> HIDE DEF each, I
<1>6. /\ Flattened(Picked(each, I)) \in Seq(S)
      /\ \A x : x \in ToSet(Flattened(Picked(each, I))) <=> \E i \in I : x \in ToSet(each[i])
  BY <1>3, <1>4, FlatPickedElements
<1>7. ToSet(HttpMethods(fqcn, method)) = ToSet(Flattened(Picked(each, I)))
  BY <1>5, <1>6, DedupIs
<1>8. v \in ToSet(HttpMethods(fqcn, method)) <=> \E i \in I : v \in ToSet(bindings[i].verbs)
  BY <1>3, <1>4, <1>6, <1>7
<1>9. ToSet(bindings) = {bindings[i] : i \in DOMAIN bindings}
  BY ToSetIs
<1>10. \A b : Says(b, <<fqcn, method, v>>) <=> b.fqcn = fqcn /\ b.method = method /\ v \in ToSet(b.verbs)
  BY DEF Says
<1> QED BY <1>4, <1>8, <1>9, <1>10

\* The Delta shows a method with a verb exactly if the file of its controller has
\* it and some binding says so.
LEMMA ShownMethods ==
    ASSUME FactsInv, stage = "done", NEW t
    PROVE  (\E c \in ToSet(controllers) : \E m \in ToSet(c.methods) : \E v \in ToSet(m.verbs) :
              t = <<c.fqcn, m.name, v>>)
             <=> \E q \in MethodCells : \E v : /\ t = <<MethodAt(q).fqcn, MethodAt(q).method, v>>
                                               /\ \E b \in ToSet(bindings) : Says(b, t)
<1>1. MergeInv /\ FilesTyped /\ bindings = RouteBindings(files)
  BY DEF FactsInv, MergeInv
<1>2. NothingLost
  BY <1>1, NothingLostByMerge
<1>3. bindings \in Seq(BindingFacts)
  BY <1>1, BindingsTyped DEF FilesTyped
<1>4. /\ Keys(controllers) = {MethodKey(q) : q \in {p \in MethodCells : Kept(MethodAt(p))}}
      /\ \A c \in ToSet(controllers) :
           ToSet(c.methods) = {MethodOut(MethodAt(q)) :
             q \in {p \in MethodCells : MethodKey(p) = Key(c) /\ Kept(MethodAt(p))}}
  BY <1>2 DEF NothingLost, WholeController
<1>5. \A q : /\ MethodOut(MethodAt(q)).name = MethodAt(q).method
             /\ MethodOut(MethodAt(q)).verbs = HttpMethods(MethodAt(q).fqcn, MethodAt(q).method)
  BY DEF MethodOut
<1>6. \A q, c : MethodKey(q) = Key(c) => MethodAt(q).fqcn = c.fqcn
  BY DEF MethodKey, Key
<1>7. ASSUME NEW c \in ToSet(controllers), NEW m \in ToSet(c.methods), NEW v \in ToSet(m.verbs),
             t = <<c.fqcn, m.name, v>>
      PROVE  \E q \in MethodCells : \E w : /\ t = <<MethodAt(q).fqcn, MethodAt(q).method, w>>
                                           /\ \E b \in ToSet(bindings) : Says(b, t)
  <2>1. PICK q \in MethodCells : MethodKey(q) = Key(c) /\ m = MethodOut(MethodAt(q))
    BY <1>4
  <2>2. t = <<MethodAt(q).fqcn, MethodAt(q).method, v>>
    BY <1>5, <1>6, <1>7, <2>1
  <2>3. v \in ToSet(HttpMethods(MethodAt(q).fqcn, MethodAt(q).method))
    BY <1>5, <2>1
  <2>4. \E b \in ToSet(bindings) : Says(b, t)
    BY <1>3, <2>2, <2>3, HttpMethodsAre
  <2> QED BY <2>2, <2>4
<1>8. ASSUME NEW q \in MethodCells, NEW v, t = <<MethodAt(q).fqcn, MethodAt(q).method, v>>,
             NEW b \in ToSet(bindings), Says(b, t)
      PROVE  \E c \in ToSet(controllers) : \E m \in ToSet(c.methods) : \E w \in ToSet(m.verbs) :
               t = <<c.fqcn, m.name, w>>
  <2>1. v \in ToSet(HttpMethods(MethodAt(q).fqcn, MethodAt(q).method))
    BY <1>3, <1>8, HttpMethodsAre
  <2>2. Kept(MethodAt(q))
    <3>1. b.fqcn = MethodAt(q).fqcn /\ b.method = MethodAt(q).method
      BY <1>8 DEF Says
    <3>2. PICK i \in DOMAIN bindings : b = bindings[i]
      BY InToSet
    <3>3. i \in Bound(MethodAt(q).fqcn, MethodAt(q).method)
      BY <3>1, <3>2 DEF Bound
    <3> QED BY <3>3 DEF Kept, Routed
  <2>3. MethodKey(q) \in Keys(controllers)
    BY <1>4, <2>2
  <2>4. PICK i \in DOMAIN controllers : Key(controllers[i]) = MethodKey(q)
    BY <2>3 DEF Keys
  <2>5. controllers[i] \in ToSet(controllers)
    BY InToSet
  <2>6. MethodOut(MethodAt(q)) \in ToSet(controllers[i].methods)
    BY <1>4, <2>2, <2>4, <2>5
  <2>7. t = <<controllers[i].fqcn, MethodOut(MethodAt(q)).name, v>>
    BY <1>5, <1>6, <1>8, <2>4
  <2>8. v \in ToSet(MethodOut(MethodAt(q)).verbs)
    BY <1>5, <2>1
  <2> QED BY <2>5, <2>6, <2>7, <2>8
<1> QED BY <1>7, <1>8

\* The controller methods of the files are those their texts declare.
LEMMA MethodsDeclared ==
    ASSUME FactsInv, stage = "done", NEW fqcn, NEW method
    PROVE  (\E q \in MethodCells : MethodAt(q).fqcn = fqcn /\ MethodAt(q).method = method)
             <=> \E h \in DOMAIN files : \E c \in ToSet(files[h].source.classes) :
                   \E m \in ToSet(c.methods) :
                     c.controller /\ Answering(m) /\ c.fqcn = fqcn /\ m.name = method
<1>1. FilesTyped /\ Analyzed
  BY DEF FactsInv, MergeInv
<1>2. ASSUME NEW h \in DOMAIN files
      PROVE  /\ files[h].source \in Texts
             /\ files[h].controllers = Controllers(files[h].source)
  <2>1. files[h].source \in Texts
    BY <1>1, CellsHold
  <2>2. files[h] = AnalyzeFile(files[h].source)
    BY <1>1 DEF Analyzed
  <2>3. files[h].controllers = Controllers(files[h].source)
    BY <2>2 DEF AnalyzeFile
  <2> QED BY <2>1, <2>3
<1>3. \A x, c, m : x = ControllerMethod(c, m) => x.fqcn = c.fqcn /\ x.method = m.name
  BY DEF ControllerMethod
<1>4. ASSUME NEW h \in DOMAIN files
      PROVE  (\E x \in ToSet(files[h].controllers) : x.fqcn = fqcn /\ x.method = method)
               <=> \E c \in ToSet(files[h].source.classes) : \E m \in ToSet(c.methods) :
                     c.controller /\ Answering(m) /\ c.fqcn = fqcn /\ m.name = method
  <2>1. \A x : x \in ToSet(files[h].controllers) <=>
          \E c \in ToSet(files[h].source.classes) : \E m \in ToSet(c.methods) :
            c.controller /\ Answering(m) /\ x = ControllerMethod(c, m)
    BY <1>2, ControllersAre
  <2> QED BY <1>3, <2>1
<1>5. (\E q \in MethodCells : MethodAt(q).fqcn = fqcn /\ MethodAt(q).method = method)
        <=> \E h \in DOMAIN files : \E x \in ToSet(files[h].controllers) :
              x.fqcn = fqcn /\ x.method = method
  <2>1. ASSUME NEW q \in MethodCells
        PROVE  q[1] \in DOMAIN files /\ MethodAt(q) \in ToSet(files[q[1]].controllers)
    BY <1>1, MethodCellsHold, InToSet DEF MethodAt
  <2>2. ASSUME NEW h \in DOMAIN files, NEW x \in ToSet(files[h].controllers)
        PROVE  \E q \in MethodCells : MethodAt(q) = x
    <3>1. PICK k \in DOMAIN files[h].controllers : x = files[h].controllers[k]
      BY InToSet
    <3>2. <<h, k>> \in MethodCells /\ MethodAt(<<h, k>>) = x
      BY <1>1, <3>1, MethodCellsHold DEF MethodAt
    <3> QED BY <3>2
  <2> QED BY <2>1, <2>2
<1> QED BY <1>4, <1>5

LEMMA RoutedMethodsByFacts == FactsInv => RoutedMethodsShown
<1> DEFINE texts == {f.source : f \in ToSet(files)}
           all == UNION {UNION {StatedBy(f, f.routes[i]) : i \in {k \in DOMAIN f.routes : Counts(f, k)}} :
                           f \in texts}
           known == UNION {UNION {{<<c.fqcn, m.name>> : m \in {x \in ToSet(c.methods) : Answering(x)}} :
                                    c \in {x \in ToSet(f.classes) : x.controller}} : f \in texts}
           shown == UNION {UNION {{<<c.fqcn, m.name, v>> : v \in ToSet(m.verbs)} :
                                    m \in ToSet(c.methods)} : c \in ToSet(controllers)}
<1>1. RoutedMethodsShown <=> (stage = "done" => shown = {t \in all : <<t[1], t[2]>> \in known})
  BY DEF RoutedMethodsShown, StatedBy, Offered, Counts
<1> SUFFICES ASSUME FactsInv, stage = "done" PROVE shown = {t \in all : <<t[1], t[2]>> \in known}
  BY <1>1
<1>2. FilesTyped /\ bindings = RouteBindings(files)
  BY DEF FactsInv, MergeInv
<1>3. texts = {files[h].source : h \in DOMAIN files}
  <2>1. ToSet(files) = {files[h] : h \in DOMAIN files}
    BY ToSetIs
  <2> QED BY <2>1
<1>4. ASSUME NEW t
      PROVE  t \in all <=> \E b \in ToSet(bindings) : Says(b, t)
  <2>1. (\E b \in ToSet(bindings) : Says(b, t))
          <=> \E h \in DOMAIN files : \E i \in DOMAIN files[h].source.routes :
                Counts(files[h].source, i) /\ t \in StatedBy(files[h].source, files[h].source.routes[i])
    BY <1>2, BindingsSay DEF FilesTyped
  <2>2. t \in all <=> \E f \in texts : \E i \in DOMAIN f.routes : Counts(f, i) /\ t \in StatedBy(f, f.routes[i])
    OBVIOUS
  <2> QED BY <1>3, <2>1, <2>2
<1>5. ASSUME NEW fqcn, NEW method
      PROVE  <<fqcn, method>> \in known
               <=> \E q \in MethodCells : MethodAt(q).fqcn = fqcn /\ MethodAt(q).method = method
  <2>1. <<fqcn, method>> \in known
          <=> \E f \in texts : \E c \in ToSet(f.classes) : \E m \in ToSet(c.methods) :
                c.controller /\ Answering(m) /\ c.fqcn = fqcn /\ m.name = method
    OBVIOUS
  <2>2. (\E q \in MethodCells : MethodAt(q).fqcn = fqcn /\ MethodAt(q).method = method)
          <=> \E h \in DOMAIN files : \E c \in ToSet(files[h].source.classes) :
                \E m \in ToSet(c.methods) :
                  c.controller /\ Answering(m) /\ c.fqcn = fqcn /\ m.name = method
    BY MethodsDeclared
  <2> HIDE DEF known
  <2> QED BY <1>3, <2>1, <2>2
<1>6. ASSUME NEW t
      PROVE  t \in shown <=> \E q \in MethodCells : \E v :
                               /\ t = <<MethodAt(q).fqcn, MethodAt(q).method, v>>
                               /\ \E b \in ToSet(bindings) : Says(b, t)
  <2>1. t \in shown <=> \E c \in ToSet(controllers) : \E m \in ToSet(c.methods) :
                          \E v \in ToSet(m.verbs) : t = <<c.fqcn, m.name, v>>
    OBVIOUS
  <2> QED BY <2>1, ShownMethods
<1> HIDE DEF all, known, shown, texts
<1>7. ASSUME NEW t PROVE t \in shown <=> t \in all /\ <<t[1], t[2]>> \in known
  <2>1. ASSUME t \in shown PROVE t \in all /\ <<t[1], t[2]>> \in known
    <3>1. PICK q \in MethodCells :
            \E v : /\ t = <<MethodAt(q).fqcn, MethodAt(q).method, v>>
                   /\ \E b \in ToSet(bindings) : Says(b, t)
      BY <1>6, <2>1
    <3>2. t[1] = MethodAt(q).fqcn /\ t[2] = MethodAt(q).method
      BY <3>1
    <3> QED BY <1>4, <1>5, <3>1, <3>2
  <2>2. ASSUME t \in all, <<t[1], t[2]>> \in known PROVE t \in shown
    <3>1. PICK b \in ToSet(bindings) : Says(b, t)
      BY <1>4, <2>2
    <3>2. PICK v : t = <<b.fqcn, b.method, v>>
      BY <3>1 DEF Says
    <3>3. t[1] = b.fqcn /\ t[2] = b.method
      BY <3>2
    <3>4. PICK q \in MethodCells : MethodAt(q).fqcn = b.fqcn /\ MethodAt(q).method = b.method
      BY <1>5, <2>2, <3>3
    <3>5. t = <<MethodAt(q).fqcn, MethodAt(q).method, v>>
      BY <3>2, <3>4
    <3> QED BY <1>6, <3>1, <3>5
  <2> QED BY <2>1, <2>2
<1> QED BY <1>7

\* A controller method is shown with a verb exactly if a routes file says so, for
\* any project: the passes of extract_route_bindings, the order of the statements
\* and that of the files make no difference but for the one the property names.
THEOREM RoutedMethodsShownAlways == Spec => []RoutedMethodsShown
BY FactsAlways, RoutedMethodsByFacts, PTL

-----------------------------------------------------------------------------
(* The walk from the controllers' models.                                  *)

\* Every class is declared once.
Unique == \A p, q \in ModelCells : ModelAt(p).fqcn = ModelAt(q).fqcn => p = q

\* The models of a list are in the order of their declarations.
InCellOrder(ms) ==
    \A i, k \in DOMAIN ms : i < k =>
      \A p, q \in ModelCells :
        ModelAt(p).fqcn = ms[i].fqcn /\ ModelAt(q).fqcn = ms[k].fqcn => Earlier(p, q)

\* The classes a list of models or of visits names
Named(s) == {x.fqcn : x \in ToSet(s)}

\* Depth first: what is reached and not yet there is visited, and nothing else.
Walk ==
    /\ \A v \in ToSet(visits) : v.deep = TRUE
    /\ Named(visits) \cap Fqcns \subseteq Reached
    /\ Named(models) \subseteq Reached
    /\ Roots \subseteq Named(models) \cup Named(visits)
    /\ \A m \in ToSet(models) : RelatedTo(m) \cap Fqcns \subseteq Named(models) \cup Named(visits)
    /\ \A c \in Named(visits) \cap Fqcns : c \in Roots \/ \E m \in ToSet(models) : c \in RelatedTo(m)
    /\ \A i \in DOMAIN models :
         models[i].fqcn \in Roots \/ \E k \in 1 .. i - 1 : models[i].fqcn \in RelatedTo(models[k])

\* The walk over the models, or too few of them to walk.
Walked == \/ models = <<>> /\ visits = <<>> /\ Len(remaining) < 2
          \/ Walk

\* With every class declared once: the order of what is merged, then of the walk.
OrderFacts ==
    Unique =>
      /\ stage \in {"routes", "collect"} => InCellOrder(models)
      /\ stage = "order" => InCellOrder(remaining) /\ (NoGroups(polymorphic) => Walked)
      /\ stage = "done" => RootsFirst

\* The merge, the calls and the order together.
OrderInv == WalkInv /\ (stage # "analyze" => OrderFacts)

\* Entries and declarations name the same classes and relations.
LEMMA EntryNamed ==
    ASSUME NEW ms, NEW rest, Pooled(ms, rest, ModelCells, ModelKeys, ModelRels)
    PROVE  Named(ms) \cup Named(rest) = Fqcns
<1>1. Keys(ms) \cup Keys(rest) = {ModelKeys[q] : q \in ModelCells}
  BY DEF Pooled
<1>2. \A q \in ModelCells : ModelKeys[q] = <<ModelAt(q).fqcn, files[q[1]].path>>
  BY DEF ModelKeys, ModelKey
<1>3. \A s : \A c : c \in Named(s) <=> \E x \in Keys(s) : x[1] = c
  <2> SUFFICES ASSUME NEW s, NEW c PROVE c \in Named(s) <=> \E x \in Keys(s) : x[1] = c
    OBVIOUS
  <2>1. ToSet(s) = {s[i] : i \in DOMAIN s}
    BY ToSetIs
  <2>2. \A i \in DOMAIN s : Key(s[i])[1] = s[i].fqcn
    BY DEF Key
  <2>3. c \in Named(s) <=> \E i \in DOMAIN s : s[i].fqcn = c
    BY <2>1 DEF Named
  <2> QED BY <2>2, <2>3 DEF Keys
<1>4. ASSUME NEW c PROVE c \in Named(ms) \cup Named(rest) <=> c \in Fqcns
  <2>1. c \in Named(ms) \cup Named(rest) <=> \E x \in Keys(ms) \cup Keys(rest) : x[1] = c
    BY <1>3
  <2>2. c \in Named(ms) \cup Named(rest) <=> \E q \in ModelCells : ModelKeys[q][1] = c
    BY <1>1, <2>1
  <2> QED BY <1>2, <2>2 DEF Fqcns
<1> QED BY <1>4

LEMMA EntryIsDeclared ==
    ASSUME Unique, NEW ms, NEW rest, Pooled(ms, rest, ModelCells, ModelKeys, ModelRels),
           NEW e \in ToSet(ms) \cup ToSet(rest), NEW q \in ModelCells, ModelAt(q).fqcn = e.fqcn
    PROVE  RelatedTo(e) = RelatedTo(ModelAt(q)) /\ ModelKey(q) = Key(e)
<1>1. ToSet(e.rels) = SumOf(e, ModelCells, ModelKeys, ModelRels)
  BY DEF Pooled
<1>2. Key(e) \in Keys(ms) \cup Keys(rest)
  <2>1. \A s : \A x \in ToSet(s) : Key(x) \in Keys(s)
    BY InToSet DEF Keys
  <2> QED BY <2>1
<1>3. PICK p \in ModelCells : Key(e) = ModelKeys[p]
  BY <1>2 DEF Pooled
<1>4. \A x \in ModelCells : ModelKeys[x] = ModelKey(x) /\ ModelRels[x] = ShownRels(ModelAt(x))
  BY DEF ModelKeys, ModelRels
<1>5. \A x \in ModelCells : ModelKeys[x] = Key(e) => ModelAt(x).fqcn = e.fqcn
  BY <1>4 DEF ModelKey, Key
<1>6. p = q
  BY <1>3, <1>5 DEF Unique
<1>7. {x \in ModelCells : ModelKeys[x] = Key(e)} = {q}
  BY <1>3, <1>5, <1>6 DEF Unique
<1>8. ToSet(e.rels) = ToSet(ShownRels(ModelAt(q)))
  BY <1>1, <1>4, <1>7 DEF SumOf
<1>9. {r.related : r \in ToSet(ShownRels(ModelAt(q)))} = {r.related : r \in ToSet(ModelAt(q).rels)}
  <2> DEFINE s == ModelAt(q).rels
             t == ShownRels(ModelAt(q))
  <2>1. DOMAIN t = DOMAIN s /\ \A k \in DOMAIN s : t[k].related = s[k].related
    BY DEF ShownRels, ShownRel
  <2> HIDE DEF s, t
  <2>2. ToSet(t) = {t[k] : k \in DOMAIN t} /\ ToSet(s) = {s[k] : k \in DOMAIN s}
    BY ToSetIs
  <2>3. {r.related : r \in ToSet(t)} = {r.related : r \in ToSet(s)}
    BY <2>1, <2>2
  <2> QED BY <2>3 DEF s, t
<1>10. RelatedTo(e) = RelatedTo(ModelAt(q))
  BY <1>8, <1>9 DEF RelatedTo
<1> QED BY <1>3, <1>4, <1>6, <1>10

LEMMA EntryDeclared ==
    ASSUME NEW ms, NEW rest, Pooled(ms, rest, ModelCells, ModelKeys, ModelRels),
           NEW e \in ToSet(ms) \cup ToSet(rest)
    PROVE  \E q \in ModelCells : ModelAt(q).fqcn = e.fqcn
<1>1. Named(ms) \cup Named(rest) = Fqcns
  BY EntryNamed
<1>2. e.fqcn \in Fqcns
  BY <1>1 DEF Named
<1> QED BY <1>2 DEF Fqcns

\* With every class declared once the entries name different classes.
LEMMA EntriesApart ==
    ASSUME Unique, NEW ms, NEW rest, Pooled(ms, rest, ModelCells, ModelKeys, ModelRels)
    PROVE  /\ \A i, k \in DOMAIN ms : ms[i].fqcn = ms[k].fqcn => i = k
           /\ \A i, k \in DOMAIN rest : rest[i].fqcn = rest[k].fqcn => i = k
           /\ \A i \in DOMAIN ms : \A k \in DOMAIN rest : ms[i].fqcn # rest[k].fqcn
<1>1. \A d, e \in ToSet(ms) \cup ToSet(rest) : d.fqcn = e.fqcn => Key(d) = Key(e)
  <2> SUFFICES ASSUME NEW d \in ToSet(ms) \cup ToSet(rest), NEW e \in ToSet(ms) \cup ToSet(rest),
                      d.fqcn = e.fqcn
               PROVE  Key(d) = Key(e)
    OBVIOUS
  <2>1. PICK q \in ModelCells : ModelAt(q).fqcn = d.fqcn
    BY EntryDeclared
  <2>2. Key(d) = ModelKey(q)
    BY <2>1, EntryIsDeclared
  <2>3. Key(e) = ModelKey(q)
    BY <2>1, EntryIsDeclared
  <2> QED BY <2>2, <2>3
<1>2. /\ \A i \in DOMAIN ms : ms[i] \in ToSet(ms) \cup ToSet(rest)
      /\ \A i \in DOMAIN rest : rest[i] \in ToSet(ms) \cup ToSet(rest)
  BY InToSet
<1>3. /\ OncePerKey(ms) /\ OncePerKey(rest)
      /\ \A i \in DOMAIN ms : \A k \in DOMAIN rest : Key(ms[i]) # Key(rest[k])
  BY DEF Pooled
<1> QED BY <1>1, <1>2, <1>3 DEF OncePerKey

LEMMA ReachedIs ==
    /\ Roots \subseteq Reached /\ Roots \subseteq Fqcns /\ Reached \subseteq Fqcns
    /\ \A q \in ModelCells : ModelAt(q).fqcn \in Reached => RelatedTo(ModelAt(q)) \cap Fqcns \subseteq Reached
    /\ \A S \in SUBSET Fqcns : Closed(S) => Reached \subseteq S
<1>1. Roots \subseteq Fqcns /\ Reached \subseteq Fqcns
  BY DEF Roots, Reached
<1>2. \A S \in SUBSET Fqcns : Closed(S) => Reached \subseteq S
  BY DEF Reached
<1>3. Roots \subseteq Reached
  BY <1>1 DEF Reached, Closed
<1>4. ASSUME NEW q \in ModelCells, ModelAt(q).fqcn \in Reached
      PROVE  RelatedTo(ModelAt(q)) \cap Fqcns \subseteq Reached
  <2> SUFFICES ASSUME NEW c \in RelatedTo(ModelAt(q)) \cap Fqcns, NEW S \in SUBSET Fqcns, Closed(S)
               PROVE  c \in S
    BY DEF Reached
  <2>1. ModelAt(q).fqcn \in S
    BY <1>2, <1>4
  <2> QED BY <2>1 DEF Closed
<1> QED BY <1>1, <1>2, <1>3, <1>4

\* A class is a name.
LEMMA FqcnsTyped ==
    ASSUME FilesTyped PROVE Fqcns \subseteq Names /\ None \notin Fqcns
<1>1. \A q \in ModelCells : ModelAt(q) \in AllModelFacts
  BY ModelCellsHold
<1>2. \A m \in AllModelFacts : m.fqcn \in Names
  BY DEF AllModelFacts
<1> QED BY <1>1, <1>2, NamesAssumption DEF Fqcns

LEMMA WithoutOrdered ==
    ASSUME NEW rest \in Seq(ModelEntries), NEW at \in DOMAIN rest, InCellOrder(rest)
    PROVE  InCellOrder(Without(rest, at))
<1> DEFINE I == DOMAIN rest \ {at}
           left == Without(rest, at)
<1>1. PICK f : Lists(f, I) /\ left = [n \in 1 .. Len(rest) - 1 |-> rest[f[n]]]
  BY WithoutIs, ZenonT(60)
<1>2. Len(left) = Len(rest) - 1 /\ left \in Seq(ModelEntries)
  BY WithoutIs
<1>3. Cardinality(I) = Len(rest) - 1
  <2>1. DOMAIN rest = 1 .. Len(rest) /\ Len(rest) \in Nat
    OBVIOUS
  <2>2. \A n \in Nat : IsFiniteSet(1 .. n) /\ Cardinality(1 .. n) = n
    BY FS_Interval
  <2> QED BY <2>1, <2>2, FS_RemoveElement
<1> HIDE DEF left
<1>4. DOMAIN left = 1 .. Cardinality(I)
  BY <1>1, <1>3
<1>5. \A n \in DOMAIN left : f[n] \in DOMAIN rest /\ left[n] = rest[f[n]]
  BY <1>1, <1>3, <1>4 DEF Lists
<1>6. \A m, n \in DOMAIN left : m < n => f[m] < f[n]
  BY <1>1, <1>4 DEF Lists
<1>7. InCellOrder(left)
  BY <1>5, <1>6 DEF InCellOrder
<1> QED BY <1>7 DEF left

LEMMA NamedIs ==
    \A s : \A c : c \in Named(s) <=> \E i \in DOMAIN s : s[i].fqcn = c
<1> SUFFICES ASSUME NEW s, NEW c PROVE c \in Named(s) <=> \E i \in DOMAIN s : s[i].fqcn = c
  OBVIOUS
<1>1. ToSet(s) = {s[i] : i \in DOMAIN s}
  BY ToSetIs
<1> QED BY <1>1 DEF Named

\* The state that Arrange leaves to the walk.
Starting ==
    /\ MergeInv /\ stage = "order" /\ models = <<>>
    /\ visits = Calling(Seeds(controllers, remaining), TRUE)

LEMMA WalkStarts == Starting => Walk
<1> SUFFICES ASSUME MergeInv, stage = "order", models = <<>>,
                    visits = Calling(Seeds(controllers, remaining), TRUE)
             PROVE  Walk
  BY DEF Starting
<1> DEFINE s == Seeds(controllers, remaining)
<1>1. Pooled(models, remaining, ModelCells, ModelKeys, ModelRels)
  BY DEF MergeInv
<1>2. remaining \in Seq(ModelEntries)
  BY <1>1 DEF Pooled
<1>3. controllers \in Seq(ToSet(controllers)) /\ \A c \in ToSet(controllers) : c.fqcn \in Names
  BY EntriesNamed
<1>4. /\ s \in Seq(Names \cup {None})
      /\ ToSet(s) = {Root[controllers[i].fqcn] : i \in DOMAIN controllers}
                      \cap {remaining[k].fqcn : k \in DOMAIN remaining}
  BY ONLY <1>3, SeedsIs, ZenonT(60)
<1> HIDE DEF s
<1>5. /\ DOMAIN visits = DOMAIN s
      /\ \A i \in DOMAIN s : visits[i].fqcn = s[i] /\ visits[i].deep = TRUE
  <2>1. TRUE \in BOOLEAN
    OBVIOUS
  <2>2. /\ DOMAIN Calling(s, TRUE) = DOMAIN s
        /\ \A i \in DOMAIN s : Calling(s, TRUE)[i].fqcn = s[i] /\ Calling(s, TRUE)[i].deep = TRUE
    BY ONLY <1>4, <2>1, CallingIs
  <2>3. visits = Calling(s, TRUE)
    BY DEF s
  <2> QED BY ONLY <2>2, <2>3
<1>6. Named(visits) = ToSet(s)
  <2>1. ToSet(s) = {s[i] : i \in DOMAIN s}
    BY ToSetIs
  <2>2. \A c : c \in Named(visits) <=> \E i \in DOMAIN visits : visits[i].fqcn = c
    BY NamedIs
  <2>3. ASSUME NEW c PROVE c \in Named(visits) <=> c \in ToSet(s)
    BY ONLY <1>5, <2>1, <2>2
  <2> QED BY ONLY <2>3
<1>7. DOMAIN models = {} /\ ToSet(models) = {} /\ Named(models) = {}
  <2>1. DOMAIN models = {} /\ ToSet(models) = {}
    BY EmptyList
  <2> QED BY <2>1 DEF Named
<1>8. {remaining[k].fqcn : k \in DOMAIN remaining} = Fqcns
  <2>1. \A c : c \in Named(remaining) <=> \E k \in DOMAIN remaining : remaining[k].fqcn = c
    BY NamedIs
  <2>2. Named(models) \cup Named(remaining) = Fqcns
    BY <1>1, EntryNamed
  <2> QED BY <1>7, <2>1, <2>2
<1>9. {Root[controllers[i].fqcn] : i \in DOMAIN controllers} = {Root[c.fqcn] : c \in ToSet(controllers)}
  <2>1. ToSet(controllers) = {controllers[i] : i \in DOMAIN controllers}
    BY ToSetIs
  <2> QED BY <2>1
<1>10. Named(visits) = Roots
  BY <1>4, <1>6, <1>8, <1>9 DEF Roots
<1>11. \A v \in ToSet(visits) : v.deep = TRUE
  <2>1. \A v \in ToSet(visits) : \E i \in DOMAIN visits : visits[i] = v
    BY ONLY InToSet
  <2> QED BY ONLY <1>5, <2>1
<1> QED BY <1>7, <1>10, <1>11, ReachedIs DEF Walk

LEMMA WalkStartsNext ==
    /\ MergeInv' /\ stage' = "order" /\ models' = <<>>
    /\ visits' = Calling(Seeds(controllers', remaining'), TRUE)
    => Walk'
<1>1. Starting' => Walk'
  BY WalkStarts, PTL
<1> QED BY <1>1 DEF Starting, Calling, Seeds

LEMMA SameReached ==
    ASSUME files' = files, controllers' = controllers
    PROVE  /\ ModelCells' = ModelCells /\ Fqcns' = Fqcns /\ Roots' = Roots /\ Reached' = Reached
           /\ Unique' = Unique
<1>1. ModelCells' = ModelCells /\ \A q : ModelAt(q)' = ModelAt(q)
  BY DEF ModelCells, ModelAt
<1>2. Fqcns' = Fqcns
  BY <1>1 DEF Fqcns, ModelAt
<1>3. Roots' = Roots
  BY <1>2 DEF Roots
<1>4. Unique' = Unique
  BY <1>1 DEF Unique, ModelAt
<1>5. \A S : Closed(S)' = Closed(S)
  BY <1>1, <1>2, <1>3 DEF Closed, ModelAt
<1>6. Reached' = Reached
  BY <1>2, <1>5 DEF Reached
<1> QED BY <1>1, <1>2, <1>3, <1>4, <1>6

LEMMA WalkVisited ==
    ASSUME WalkInv, Unique, Visit, Walk PROVE Walk'
<1> DEFINE v == Head(visits)
           rest == Tail(visits)
<1>1. /\ visits \in Seq(VisitFacts) /\ visits # <<>> /\ remaining \in Seq(ModelEntries)
      /\ models \in Seq(ModelEntries) /\ stage = "order" /\ stage' = "order"
      /\ UNCHANGED <<files, bindings, next, item, controllers, polymorphic, broadcast>>
      /\ \/ /\ \A i \in DOMAIN remaining : remaining[i].fqcn # v.fqcn
            /\ visits' = rest /\ models' = models /\ remaining' = remaining
         \/ \E at \in DOMAIN remaining :
              /\ remaining[at].fqcn = v.fqcn
              /\ models' = Append(models, remaining[at])
              /\ remaining' = Without(remaining, at)
              /\ visits' = Calls(remaining[at], v) \o rest
  BY VisitIs DEF WalkInv
<1>2. /\ Pooled(models, remaining, ModelCells, ModelKeys, ModelRels) /\ FilesTyped
  BY <1>1 DEF WalkInv, MergeInv
<1>3. Fqcns' = Fqcns /\ Roots' = Roots /\ Reached' = Reached
  BY <1>1, SameReached
<1>4. rest \in Seq(VisitFacts) /\ ToSet(visits) = ToSet(rest) \cup {v} /\ v \in ToSet(visits)
  BY <1>1, HeadAndTail, InToSet
<1>5. Named(visits) = Named(rest) \cup {v.fqcn}
  BY <1>4 DEF Named
<1>6. /\ \A x \in ToSet(visits) : x.deep = TRUE
      /\ Named(visits) \cap Fqcns \subseteq Reached
      /\ Named(models) \subseteq Reached
      /\ Roots \subseteq Named(models) \cup Named(visits)
      /\ \A m \in ToSet(models) : RelatedTo(m) \cap Fqcns \subseteq Named(models) \cup Named(visits)
      /\ \A c \in Named(visits) \cap Fqcns : c \in Roots \/ \E m \in ToSet(models) : c \in RelatedTo(m)
      /\ \A i \in DOMAIN models :
           models[i].fqcn \in Roots \/ \E k \in 1 .. i - 1 : models[i].fqcn \in RelatedTo(models[k])
  BY DEF Walk
<1>7. Named(models) \cup Named(remaining) = Fqcns
  BY <1>2, EntryNamed
<1>8. Roots \subseteq Fqcns
  BY ReachedIs
<1> HIDE DEF v, rest
<1>9. CASE /\ \A i \in DOMAIN remaining : remaining[i].fqcn # v.fqcn
           /\ visits' = rest /\ models' = models
  <2>1. v.fqcn \in Fqcns => v.fqcn \in Named(models)
    <3>1. v.fqcn \notin Named(remaining)
      BY <1>9, NamedIs
    <3> QED BY <1>7, <3>1
  <2>2. /\ \A x \in ToSet(rest) : x.deep = TRUE
        /\ Named(rest) \cap Fqcns \subseteq Reached
        /\ Roots \subseteq Named(models) \cup Named(rest)
        /\ \A m \in ToSet(models) : RelatedTo(m) \cap Fqcns \subseteq Named(models) \cup Named(rest)
        /\ \A c \in Named(rest) \cap Fqcns : c \in Roots \/ \E m \in ToSet(models) : c \in RelatedTo(m)
    BY <1>4, <1>5, <1>6, <1>8, <2>1
  <2> QED BY <1>3, <1>6, <1>9, <2>2 DEF Walk, Named, RelatedTo
<1>10. ASSUME NEW at \in DOMAIN remaining, remaining[at].fqcn = v.fqcn,
              models' = Append(models, remaining[at]),
              visits' = Calls(remaining[at], v) \o rest
       PROVE  Walk'
  <2> DEFINE e == remaining[at]
             ms == Append(models, e)
             vs == Related(e) \o rest
  <2>1. e \in ModelEntries /\ e \in ToSet(remaining) /\ e.fqcn = v.fqcn
    BY <1>1, <1>10, InToSet
  <2>2. v.deep = TRUE
    BY <1>4, <1>6
  <2>3. visits' = vs /\ models' = ms
    BY <1>10, <2>2 DEF Calls
  <2> HIDE DEF e
  <2>4. /\ Related(e) \in Seq(VisitFacts) /\ \A x \in ToSet(Related(e)) : x.deep = TRUE
        /\ Named(Related(e)) = RelatedTo(e) \ {None}
    BY <2>1, RelatedIs DEF Named
  <2>5. ToSet(vs) = ToSet(Related(e)) \cup ToSet(rest)
    BY <1>4, <2>4, JoinElements
  <2>6. Named(vs) = (RelatedTo(e) \ {None}) \cup Named(rest)
    <3>1. Named(vs) = Named(Related(e)) \cup Named(rest)
      BY <2>5 DEF Named
    <3> QED BY <2>4, <3>1
  <2>7. /\ DOMAIN ms = DOMAIN models \cup {Len(models) + 1} /\ Len(models) \in Nat
        /\ DOMAIN models = 1 .. Len(models)
        /\ \A i \in DOMAIN models : ms[i] = models[i]
        /\ ms[Len(models) + 1] = e /\ ToSet(ms) = ToSet(models) \cup {e}
    BY <1>1, <2>1, AppendElements, ElementsTyped
  <2>8. Named(ms) = Named(models) \cup {v.fqcn}
    BY <2>1, <2>7 DEF Named
  <2> HIDE DEF ms, vs
  <2>9. v.fqcn \in Fqcns /\ None \notin Fqcns
    <3>1. v.fqcn \in Named(remaining)
      BY <2>1 DEF Named
    <3> QED BY <1>2, <1>7, <3>1, FqcnsTyped
  <2>10. v.fqcn \in Reached /\ RelatedTo(e) \cap Fqcns \subseteq Reached
    <3>1. v.fqcn \in Reached
      BY <1>5, <1>6, <2>9
    <3>2. PICK q \in ModelCells : ModelAt(q).fqcn = e.fqcn
      BY <1>2, <2>1, EntryDeclared
    <3>3. RelatedTo(e) = RelatedTo(ModelAt(q))
      BY <1>2, <2>1, <3>2, EntryIsDeclared
    <3> QED BY <2>1, <3>1, <3>2, <3>3, ReachedIs
  <2>11. \A x \in ToSet(vs) : x.deep = TRUE
    BY <1>4, <1>6, <2>4, <2>5
  <2>12. Named(vs) \cap Fqcns \subseteq Reached /\ Named(ms) \subseteq Reached
    BY <1>5, <1>6, <2>6, <2>8, <2>10
  <2>13. Roots \subseteq Named(ms) \cup Named(vs)
    BY <1>5, <1>6, <2>6, <2>8
  <2>14. \A m \in ToSet(ms) : RelatedTo(m) \cap Fqcns \subseteq Named(ms) \cup Named(vs)
    <3>1. RelatedTo(e) \cap Fqcns \subseteq Named(vs)
      BY <2>6, <2>9
    <3>2. \A m \in ToSet(models) : RelatedTo(m) \cap Fqcns \subseteq Named(ms) \cup Named(vs)
      BY <1>5, <1>6, <2>6, <2>8
    <3> QED BY <2>7, <3>1, <3>2
  <2>15. \A c \in Named(vs) \cap Fqcns : c \in Roots \/ \E m \in ToSet(ms) : c \in RelatedTo(m)
    BY <1>5, <1>6, <2>6, <2>7
  <2>16. \A i \in DOMAIN ms :
           ms[i].fqcn \in Roots \/ \E k \in 1 .. i - 1 : ms[i].fqcn \in RelatedTo(ms[k])
    <3>1. ASSUME NEW i \in DOMAIN models
          PROVE  ms[i].fqcn \in Roots \/ \E k \in 1 .. i - 1 : ms[i].fqcn \in RelatedTo(ms[k])
      <4>1. \A k \in 1 .. i - 1 : k \in DOMAIN models
        BY <2>7
      <4> QED BY <1>6, <2>7, <4>1
    <3>2. e.fqcn \in Roots \/ \E k \in 1 .. Len(models) : e.fqcn \in RelatedTo(ms[k])
      <4>1. e.fqcn \in Roots \/ \E m \in ToSet(models) : e.fqcn \in RelatedTo(m)
        BY <1>5, <1>6, <2>1, <2>9
      <4> QED BY <2>7, <4>1, InToSet
    <3>3. (Len(models) + 1) - 1 = Len(models)
      BY <2>7
    <3> QED BY <2>7, <3>1, <3>2, <3>3
  <2>17. /\ \A x \in ToSet(visits') : x.deep = TRUE
         /\ Named(visits') \cap Fqcns' \subseteq Reached'
         /\ Named(models') \subseteq Reached'
         /\ Roots' \subseteq Named(models') \cup Named(visits')
         /\ \A m \in ToSet(models') : RelatedTo(m) \cap Fqcns' \subseteq Named(models') \cup Named(visits')
         /\ \A c \in Named(visits') \cap Fqcns' :
              c \in Roots' \/ \E m \in ToSet(models') : c \in RelatedTo(m)
         /\ \A i \in DOMAIN models' :
              models'[i].fqcn \in Roots' \/ \E k \in 1 .. i - 1 : models'[i].fqcn \in RelatedTo(models'[k])
    BY <1>3, <2>3, <2>11, <2>12, <2>13, <2>14, <2>15, <2>16
  <2> QED BY <2>17 DEF Walk, Named, RelatedTo
<1> QED BY <1>1, <1>9, <1>10

\* While the files stay the same, so do the cells and the order of a list.
LEMMA SameCells ==
    ASSUME files' = files
    PROVE  /\ ModelCells' = ModelCells /\ Fqcns' = Fqcns /\ Unique' = Unique
           /\ InCellOrder(models') => InCellOrder(models)'
           /\ InCellOrder(remaining') => InCellOrder(remaining)'
<1>1. ModelCells' = ModelCells
  BY DEF ModelCells
<1>2. Fqcns' = Fqcns
  BY <1>1 DEF Fqcns, ModelAt
<1>3. Unique' = Unique
  BY <1>1 DEF Unique, ModelAt
<1> QED BY <1>1, <1>2, <1>3 DEF InCellOrder, ModelAt

\* A model with a name of its own is appended, behind all that are declared before it.
LEMMA ModelInOrder ==
    ASSUME MergeInv, MergeModel, Unique, InCellOrder(models) PROVE InCellOrder(models')
<1> DEFINE f == files[next]
           k == item - Len(f.controllers)
           q == <<next, k>>
           m == f.models[k]
           e == [fqcn |-> m.fqcn, file |-> f.path, rels |-> ShownRels(m)]
<1>1. /\ stage = "collect" /\ next <= Len(files) /\ k \in DOMAIN f.models
      /\ models' = AddModel(models, m, f.path)
  BY DEF MergeModel, Merging
<1>2. FilesTyped /\ Positions /\ MergedModels(models, ModelsDone, ModelKeys, ModelRels)
  BY <1>1 DEF MergeInv
<1>3. next \in DOMAIN files /\ next \in Nat /\ item \in Nat \ {0}
  BY <1>1, <1>2, CellsHold DEF Positions
<1>4. /\ f.controllers \in Seq(ControllerFacts) /\ f.models \in Seq(AllModelFacts)
      /\ f.path \in Names
  BY <1>2, <1>3, CellsHold
<1>5. k \in Nat /\ item = k + Len(f.controllers) /\ Len(f.controllers) \in Nat
  <2>1. /\ Len(f.controllers) \in Nat /\ Len(f.models) \in Nat
        /\ DOMAIN f.models = 1 .. Len(f.models)
    BY <1>4
  <2>2. k \in 1 .. Len(f.models)
    BY <1>1, <2>1
  <2>3. item = k + Len(f.controllers)
    BY <1>3, <2>1
  <2> HIDE DEF k
  <2> QED BY <2>1, <2>2, <2>3
<1> HIDE DEF k
<1>6. q \in ModelCells /\ ModelAt(q) = m /\ m \in AllModelFacts
  <2>1. q \in ModelCells
    BY <1>1, <1>2, <1>3, ModelCellsHold
  <2>2. ModelAt(q) = m /\ m \in AllModelFacts
    BY <1>1, <1>4 DEF ModelAt
  <2> QED BY <2>1, <2>2
<1>7. ModelKeys[q] = <<m.fqcn, f.path>> /\ ShownRels(m) \in Seq(ShownFacts) /\ m.fqcn \in Names
  BY <1>6, ShownTyped DEF ModelKeys, ModelKey, AllModelFacts
<1>8. \A p \in ModelsDone : p \in ModelCells /\ Earlier(p, q)
  <2>1. \A p \in ModelCells : p[1] \in Nat /\ p[2] \in Nat
    BY <1>2, ModelCellsHold
  <2>2. \A p \in ModelsDone :
          p[1] < next \/ (p[1] = next /\ p[2] + Len(f.controllers) < k + Len(f.controllers))
    BY <1>5 DEF ModelsDone
  <2>3. \A p \in ModelsDone : p \in ModelCells
    BY DEF ModelsDone
  <2>4. \A a, b, c \in Nat : a + c < b + c => a < b
    OBVIOUS
  <2>5. \A p \in ModelsDone : p[1] < next \/ (p[1] = next /\ p[2] < k)
    BY <1>5, <2>1, <2>2, <2>3, <2>4
  <2> QED BY <2>3, <2>5 DEF Earlier
<1>9. \A i \in DOMAIN models : \E p \in ModelsDone : ModelAt(p).fqcn = models[i].fqcn
                                                      /\ ModelKeys[p] = Key(models[i])
  <2>1. \A i \in DOMAIN models : Key(models[i]) \in Keys(models)
    BY DEF Keys
  <2>2. Keys(models) = {ModelKeys[p] : p \in ModelsDone}
    BY <1>2 DEF MergedModels
  <2>3. \A p \in ModelCells : ModelKeys[p] = <<ModelAt(p).fqcn, files[p[1]].path>>
    BY DEF ModelKeys, ModelKey
  <2>4. \A i \in DOMAIN models : Key(models[i]) = <<models[i].fqcn, models[i].file>>
    BY DEF Key
  <2>5. ASSUME NEW i \in DOMAIN models
        PROVE  \E p \in ModelsDone : ModelAt(p).fqcn = models[i].fqcn /\ ModelKeys[p] = Key(models[i])
    <3>1. PICK p \in ModelsDone : Key(models[i]) = ModelKeys[p]
      BY <2>1, <2>2
    <3>2. ModelAt(p).fqcn = models[i].fqcn
      BY <1>8, <2>3, <2>4, <3>1
    <3> QED BY <3>1, <3>2
  <2> QED BY <2>5
<1>10. q \notin ModelsDone
  <2>1. q[1] = next /\ q[2] = k
    OBVIOUS
  <2>2. ~(next < next) /\ ~(k + Len(f.controllers) < k + Len(f.controllers))
    BY <1>3, <1>5
  <2> QED BY <1>5, <2>1, <2>2 DEF ModelsDone
<1>11. \A i \in DOMAIN models : models[i].fqcn # m.fqcn
  BY <1>6, <1>8, <1>9, <1>10 DEF Unique
<1> HIDE DEF q, m, f
<1>12. models' = Append(models, e)
  BY <1>1, <1>11 DEF AddModel, Entry
<1>13. models \in Seq(ModelEntries) /\ e \in ModelEntries
  BY <1>2, <1>4, <1>7 DEF MergedModels, ModelEntries
<1>14. e.fqcn = m.fqcn
  OBVIOUS
<1> HIDE DEF e
<1>15. /\ DOMAIN Append(models, e) = DOMAIN models \cup {Len(models) + 1}
       /\ \A i \in DOMAIN models : Append(models, e)[i] = models[i]
       /\ Append(models, e)[Len(models) + 1] = e
  BY <1>13, AppendElements
<1>16. DOMAIN models = 1 .. Len(models) /\ Len(models) \in Nat
  BY <1>13
<1>17. ASSUME NEW i \in DOMAIN models', NEW j \in DOMAIN models', i < j,
              NEW p \in ModelCells, NEW r \in ModelCells,
              ModelAt(p).fqcn = models'[i].fqcn, ModelAt(r).fqcn = models'[j].fqcn
       PROVE  Earlier(p, r)
  <2>1. i \in DOMAIN models
    BY <1>12, <1>15, <1>16, <1>17
  <2>2. CASE j \in DOMAIN models
    BY <1>12, <1>15, <1>17, <2>1, <2>2 DEF InCellOrder
  <2>3. CASE j = Len(models) + 1
    <3>1. models'[j] = e /\ models'[i] = models[i]
      BY <1>12, <1>15, <2>1, <2>3
    <3>2. r = q
      BY <1>6, <1>14, <1>17, <3>1 DEF Unique
    <3>3. p \in ModelsDone
      BY <1>8, <1>9, <1>17, <2>1, <3>1 DEF Unique
    <3> QED BY <1>8, <3>2, <3>3
  <2> QED BY <1>12, <1>15, <2>2, <2>3
<1> QED BY <1>17 DEF InCellOrder

\* The walk starts on the arranged lists.
LEMMA OrderStarts ==
    ASSUME WalkInv, Arrange, Unique, InCellOrder(models)
    PROVE  InCellOrder(remaining') /\ (NoGroups(polymorphic') => Walked')
<1>1. MergeInv'
  BY ListsArranged DEF WalkInv
<1>2. /\ models' = <<>> /\ stage' = "order"
      /\ visits' = IF Len(remaining') < 2 THEN <<>>
                   ELSE IF NoGroups(polymorphic')
                   THEN Calling(Seeds(controllers', remaining'), TRUE)
                   ELSE Calling(SourcesAndGroups(remaining', polymorphic'), FALSE)
  BY ArrangedTyped DEF WalkInv
<1>3. remaining' = Deduped(models)
  BY DEF Arrange, Deduped
<1>4. DOMAIN remaining' = DOMAIN models /\ \A i \in DOMAIN models : remaining'[i].fqcn = models[i].fqcn
  <2>1. stage = "collect"
    BY DEF Arrange
  <2>2. models \in Seq(ModelEntries)
    BY <2>1 DEF WalkInv, MergeInv, MergedModels
  <2>3. \A i \in DOMAIN models : models[i] \in ModelEntries
    BY <2>2, ElementsTyped
  <2>4. \A x \in ModelEntries : [x EXCEPT !.rels = Dedup(@)].fqcn = x.fqcn
    BY DEF ModelEntries
  <2>5. /\ DOMAIN remaining' = DOMAIN models
        /\ \A i \in DOMAIN models : remaining'[i] = [models[i] EXCEPT !.rels = Dedup(@)]
    BY <1>3 DEF Deduped
  <2> QED BY <2>3, <2>4, <2>5
<1>5. InCellOrder(remaining')
  BY <1>4 DEF InCellOrder
<1>6. ASSUME NoGroups(polymorphic') PROVE Walked'
  <2>1. CASE Len(remaining') < 2
    BY <1>2, <2>1 DEF Walked
  <2>2. CASE ~(Len(remaining') < 2)
    <3>1. visits' = Calling(Seeds(controllers', remaining'), TRUE)
      BY <1>2, <1>6, <2>2
    <3>2. Walk'
      BY <1>1, <1>2, <3>1, WalkStartsNext
    <3> QED BY <3>2 DEF Walked
  <2> QED BY <2>1, <2>2
<1> QED BY <1>5, <1>6

\* What the walk has left behind comes after what it has met.
LEMMA RootsMet ==
    ASSUME MergeInv, stage = "order", visits = <<>>, Walk, Unique
    PROVE  Named(models) = Reached
<1>1. Pooled(models, remaining, ModelCells, ModelKeys, ModelRels)
  BY DEF MergeInv
<1>2. Named(visits) = {}
  <2>1. ToSet(visits) = {}
    BY EmptyList
  <2> QED BY <2>1 DEF Named
<1>3. Named(models) \subseteq Fqcns
  BY <1>1, EntryNamed
<1>4. ASSUME NEW q \in ModelCells, ModelAt(q).fqcn \in Named(models)
      PROVE  RelatedTo(ModelAt(q)) \cap Fqcns \subseteq Named(models)
  <2>1. PICK m \in ToSet(models) : m.fqcn = ModelAt(q).fqcn
    BY <1>4 DEF Named
  <2>2. RelatedTo(m) = RelatedTo(ModelAt(q))
    BY <1>1, <2>1, EntryIsDeclared
  <2>3. RelatedTo(m) \cap Fqcns \subseteq Named(models)
    BY <1>2, <2>1 DEF Walk
  <2> QED BY <2>2, <2>3
<1>5. Closed(Named(models))
  BY <1>2, <1>4 DEF Closed, Walk
<1>6. Reached \subseteq Named(models)
  BY <1>3, <1>5, ReachedIs
<1>7. Named(models) \subseteq Reached
  BY DEF Walk
<1> QED BY <1>6, <1>7

\* Cells are listed one behind the other.
LEMMA EarlierOrders ==
    ASSUME FilesTyped, NEW p \in ModelCells, NEW q \in ModelCells, Earlier(p, q)
    PROVE  p # q /\ ~Earlier(q, p)
<1>1. /\ p[1] \in Nat /\ p[2] \in Nat /\ q[1] \in Nat /\ q[2] \in Nat
  BY ModelCellsHold
<1>2. p[1] < q[1] \/ (p[1] = q[1] /\ p[2] < q[2])
  BY DEF Earlier
<1>3. ~(q[1] < p[1] \/ (q[1] = p[1] /\ q[2] < p[2]))
  BY <1>1, <1>2
<1>4. p # q
  BY <1>1, <1>2
<1> QED BY <1>3, <1>4 DEF Earlier

\* What a list of all models keeps of the promise
Promised(ms) ==
    /\ \A i, k \in DOMAIN ms : ms[i].fqcn \in Reached /\ ms[k].fqcn \notin Reached => i < k
    /\ \A i \in DOMAIN ms :
         ms[i].fqcn \in Reached \ Roots => \E k \in 1 .. i - 1 : ms[i].fqcn \in RelatedTo(ms[k])
    /\ \A p, q \in ModelCells : \A i, k \in DOMAIN ms :
         /\ ms[i].fqcn = ModelAt(p).fqcn /\ ms[k].fqcn = ModelAt(q).fqcn
         /\ {ms[i].fqcn, ms[k].fqcn} \cap Reached = {}
         => (i < k <=> Earlier(p, q))

\* At most one model: nothing to order.
LEMMA OneModel ==
    ASSUME MergeInv, stage = "order", models = <<>>, Len(remaining) < 2, Unique
    PROVE  Promised(remaining)
<1>1. Pooled(models, remaining, ModelCells, ModelKeys, ModelRels) /\ FilesTyped
  BY DEF MergeInv
<1>2. DOMAIN remaining = 1 .. Len(remaining) /\ Len(remaining) \in Nat
  BY <1>1 DEF Pooled
<1>3. \A i, k \in DOMAIN remaining : i = k /\ i = 1
  BY <1>2
<1>4. Named(remaining) = Fqcns
  <2>1. Named(models) = {}
    <3>1. ToSet(models) = {}
      BY EmptyList
    <3> QED BY <3>1 DEF Named
  <2> QED BY <1>1, <2>1, EntryNamed
<1>5. ASSUME NEW i \in DOMAIN remaining, remaining[i].fqcn \in Reached \ Roots PROVE FALSE
  <2>1. \A c \in Fqcns : c = remaining[i].fqcn
    BY <1>3, <1>4, NamedIs
  <2>2. Roots = {}
    BY <1>5, <2>1, ReachedIs
  <2>3. Closed({})
    BY <2>2 DEF Closed
  <2> QED BY <1>5, <2>3, ReachedIs
<1>6. ASSUME NEW p \in ModelCells, NEW q \in ModelCells,
             NEW i \in DOMAIN remaining, NEW k \in DOMAIN remaining,
             remaining[i].fqcn = ModelAt(p).fqcn, remaining[k].fqcn = ModelAt(q).fqcn
      PROVE  i < k <=> Earlier(p, q)
  <2>1. i = 1 /\ k = 1
    BY <1>3
  <2>2. p = q
    BY <1>6, <2>1 DEF Unique
  <2>3. ~Earlier(p, q)
    BY <1>1, <2>2, EarlierOrders
  <2> QED BY <2>1, <2>3
<1> QED BY <1>3, <1>5, <1>6 DEF Promised

\* All visited: the models met and the rest behind them keep the promise.
LEMMA RestBehind ==
    ASSUME MergeInv, stage = "order", visits = <<>>, Walk, Unique, InCellOrder(remaining)
    PROVE  Promised(models \o remaining)
<1> DEFINE ms == models \o remaining
           n == Len(models)
<1>1. Pooled(models, remaining, ModelCells, ModelKeys, ModelRels) /\ FilesTyped
  BY DEF MergeInv
<1>2. models \in Seq(ModelEntries) /\ remaining \in Seq(ModelEntries)
  BY <1>1 DEF Pooled
<1>3. /\ n \in Nat /\ Len(remaining) \in Nat /\ DOMAIN models = 1 .. n
      /\ DOMAIN remaining = 1 .. Len(remaining) /\ DOMAIN ms = 1 .. n + Len(remaining)
      /\ \A i \in 1 .. n : ms[i] = models[i]
      /\ \A i \in 1 .. Len(remaining) : ms[i + n] = remaining[i]
  BY <1>2
<1> HIDE DEF ms, n
<1>4. Named(models) = Reached
  BY RootsMet
<1>5. \A i \in DOMAIN models : \A k \in DOMAIN remaining : models[i].fqcn # remaining[k].fqcn
  BY <1>1, EntriesApart
<1>6. \A i \in DOMAIN ms : i <= n => i \in DOMAIN models /\ ms[i] = models[i] /\ ms[i].fqcn \in Reached
  <2>1. \A i \in DOMAIN models : models[i].fqcn \in Reached
    BY <1>4, NamedIs
  <2> QED BY <1>3, <2>1
<1>7. \A i \in DOMAIN ms : ~(i <= n) =>
        i - n \in DOMAIN remaining /\ ms[i] = remaining[i - n] /\ ms[i].fqcn \notin Reached
  <2>1. \A k \in DOMAIN remaining : remaining[k].fqcn \notin Reached
    BY <1>4, <1>5, NamedIs
  <2>2. \A i \in DOMAIN ms : ~(i <= n) => i - n \in 1 .. Len(remaining) /\ (i - n) + n = i
    BY <1>3
  <2> QED BY <1>3, <2>1, <2>2
<1>8. DOMAIN ms \subseteq Nat
  BY <1>3
<1>9. \A i, k \in DOMAIN ms : ms[i].fqcn \in Reached /\ ms[k].fqcn \notin Reached => i < k
  <2>1. \A i, k \in DOMAIN ms : i <= n /\ ~(k <= n) => i < k
    BY <1>3, <1>8
  <2> QED BY <1>6, <1>7, <2>1
<1>10. ASSUME NEW i \in DOMAIN ms, ms[i].fqcn \in Reached \ Roots
       PROVE  \E k \in 1 .. i - 1 : ms[i].fqcn \in RelatedTo(ms[k])
  <2>1. i \in DOMAIN models /\ ms[i] = models[i]
    BY <1>6, <1>7, <1>10
  <2>2. PICK k \in 1 .. i - 1 : models[i].fqcn \in RelatedTo(models[k])
    BY <1>10, <2>1 DEF Walk
  <2>3. k \in 1 .. n
    BY <1>3, <2>1
  <2> QED BY <1>3, <2>1, <2>2, <2>3
<1>11. ASSUME NEW p \in ModelCells, NEW q \in ModelCells, NEW i \in DOMAIN ms, NEW k \in DOMAIN ms,
              ms[i].fqcn = ModelAt(p).fqcn, ms[k].fqcn = ModelAt(q).fqcn,
              {ms[i].fqcn, ms[k].fqcn} \cap Reached = {}
       PROVE  i < k <=> Earlier(p, q)
  <2> DEFINE a == i - n
             b == k - n
  <2>1. ~(i <= n) /\ ~(k <= n)
    BY <1>6, <1>11
  <2>2. /\ a \in DOMAIN remaining /\ ms[i] = remaining[a]
        /\ b \in DOMAIN remaining /\ ms[k] = remaining[b]
    BY <1>7, <2>1
  <2>3. a \in Nat /\ b \in Nat /\ (i < k <=> a < b)
    BY <1>3, <1>8, <2>2
  <2> HIDE DEF a, b
  <2>4. a < b => Earlier(p, q)
    BY <1>11, <2>2 DEF InCellOrder
  <2>5. b < a => Earlier(q, p)
    BY <1>11, <2>2 DEF InCellOrder
  <2>6. a = b => p = q
    BY <1>11, <2>2 DEF Unique
  <2>7. a < b \/ b < a \/ a = b
    BY <2>3
  <2>8. Earlier(p, q) => p # q /\ ~Earlier(q, p)
    BY <1>1, EarlierOrders
  <2>9. Earlier(p, q) => a < b
    BY <2>5, <2>6, <2>7, <2>8
  <2> QED BY <2>3, <2>4, <2>9
<1>12. Promised(ms)
  BY <1>9, <1>10, <1>11 DEF Promised
<1> QED BY <1>12 DEF ms

LEMMA RestPromised ==
    ASSUME WalkInv, Emit, Unique, InCellOrder(remaining), Walked PROVE Promised(models')
<1>1. /\ stage = "order" /\ visits = <<>> /\ models' = models \o remaining
  BY DEF Emit, WithRest
<1>2. MergeInv
  BY DEF WalkInv
<1>3. CASE Walk
  BY <1>1, <1>2, <1>3, RestBehind
<1>4. CASE models = <<>> /\ Len(remaining) < 2
  <2>1. Promised(remaining)
    BY <1>1, <1>2, <1>4, OneModel
  <2>2. remaining \in Seq(ModelEntries)
    BY <1>1, <1>2 DEF MergeInv, Pooled
  <2>3. <<>> \o remaining = remaining
    BY <2>2
  <2> QED BY <1>1, <1>4, <2>1, <2>3
<1> QED BY <1>3, <1>4 DEF Walked

\* The promise is a matter of the files and the controllers alone.
LEMMA SamePromise ==
    ASSUME files' = files, controllers' = controllers, Unique => Promised(models')
    PROVE  RootsFirst'
<1>1. /\ ModelCells' = ModelCells /\ Roots' = Roots /\ Reached' = Reached /\ Unique' = Unique
  BY SameReached
<1>2. Unique' => Promised(models)'
  BY <1>1 DEF Promised, ModelAt, RelatedTo
<1> QED BY <1>2 DEF RootsFirst, Promised, Unique

LEMMA OrderKept == OrderInv /\ [Next]_vars => OrderInv'
<1> SUFFICES ASSUME OrderInv, [Next]_vars PROVE OrderInv'
  OBVIOUS
<1>1. WalkInv /\ MergeInv /\ (stage # "analyze" => OrderFacts)
  BY DEF OrderInv, WalkInv
<1>2. WalkInv'
  BY <1>1, MergeKept, VisitsKept DEF WalkInv
<1>3. CASE Analyze
  <2>1. stage' = "routes" /\ models' = models /\ models = <<>>
    BY <1>1, <1>3 DEF Analyze, MergeInv, Untouched
  <2>2. InCellOrder(models)'
    <3>1. DOMAIN models' = {}
      BY <2>1, EmptyList
    <3> QED BY <3>1 DEF InCellOrder
  <2> QED BY <1>2, <2>1, <2>2 DEF OrderInv, OrderFacts
<1>4. CASE CollectRoutes \/ MergeController \/ MergeFacts
  <2>1. stage \in {"routes", "collect"} /\ stage' = "collect" /\ models' = models /\ files' = files
    BY <1>4 DEF CollectRoutes, MergeController, MergeFacts, Merging
  <2>2. Unique' => InCellOrder(models)'
    BY <1>1, <2>1, SameCells DEF OrderFacts
  <2> QED BY <1>2, <2>1, <2>2 DEF OrderInv, OrderFacts
<1>5. CASE MergeModel
  <2>1. stage = "collect" /\ stage' = "collect" /\ files' = files
    BY <1>5 DEF MergeModel, Merging
  <2>2. Unique => InCellOrder(models')
    BY <1>1, <1>5, <2>1, ModelInOrder DEF OrderFacts
  <2>3. Unique' => InCellOrder(models)'
    BY <2>1, <2>2, SameCells
  <2> QED BY <1>2, <2>1, <2>3 DEF OrderInv, OrderFacts
<1>6. CASE Arrange
  <2>1. stage = "collect" /\ stage' = "order" /\ files' = files
    BY <1>6 DEF Arrange
  <2>2. Unique => InCellOrder(remaining') /\ (NoGroups(polymorphic') => Walked')
    BY <1>1, <1>6, <2>1, OrderStarts DEF OrderFacts
  <2>3. Unique' => InCellOrder(remaining)' /\ (NoGroups(polymorphic)' => Walked')
    BY <2>1, <2>2, SameCells DEF NoGroups
  <2> QED BY <1>2, <2>1, <2>3 DEF OrderInv, OrderFacts
<1>7. CASE Visit
  <2>1. /\ stage = "order" /\ stage' = "order" /\ files' = files /\ polymorphic' = polymorphic
        /\ visits # <<>> /\ remaining \in Seq(ModelEntries)
        /\ \/ remaining' = remaining
           \/ \E at \in DOMAIN remaining : remaining' = Without(remaining, at)
    BY <1>1, <1>7, VisitIs DEF WalkInv
  <2>2. Unique => InCellOrder(remaining) /\ (NoGroups(polymorphic) => Walked)
    BY <1>1, <2>1 DEF OrderFacts
  <2>3. Unique => InCellOrder(remaining')
    BY <2>1, <2>2, WithoutOrdered
  <2>4. Unique /\ NoGroups(polymorphic) => Walked'
    <3>1. Unique /\ NoGroups(polymorphic) => Walk
      BY <2>1, <2>2 DEF Walked
    <3> QED BY <1>1, <1>7, <3>1, WalkVisited DEF Walked
  <2>5. Unique' => InCellOrder(remaining)' /\ (NoGroups(polymorphic)' => Walked')
    BY <2>1, <2>3, <2>4, SameCells DEF NoGroups
  <2> QED BY <1>2, <2>1, <2>5 DEF OrderInv, OrderFacts
<1>8. CASE Emit
  <2>1. /\ stage = "order" /\ stage' = "done" /\ files' = files /\ controllers' = controllers
        /\ polymorphic' = polymorphic
    BY <1>8 DEF Emit
  <2>2. Unique => InCellOrder(remaining) /\ (NoGroups(polymorphic) => Walked)
    BY <1>1, <2>1 DEF OrderFacts
  <2>3. CASE NoGroups(polymorphic)
    <3>1. Unique => Promised(models')
      BY <1>1, <1>8, <2>2, <2>3, RestPromised
    <3>2. RootsFirst'
      BY <2>1, <3>1, SamePromise
    <3> QED BY <1>2, <2>1, <3>2 DEF OrderInv, OrderFacts
  <2>4. CASE ~NoGroups(polymorphic)
    <3>1. RootsFirst'
      BY <2>1, <2>4 DEF RootsFirst, NoGroups
    <3> QED BY <1>2, <2>1, <3>1 DEF OrderInv, OrderFacts
  <2> QED BY <2>3, <2>4
<1>9. CASE Stop \/ UNCHANGED vars
  <2>1. UNCHANGED vars
    BY <1>9 DEF Stop
  <2>2. /\ files' = files /\ controllers' = controllers /\ models' = models /\ remaining' = remaining
        /\ visits' = visits /\ stage' = stage /\ polymorphic' = polymorphic
    BY <2>1 DEF vars
  <2>3. /\ ModelCells' = ModelCells /\ Roots' = Roots /\ Reached' = Reached /\ Unique' = Unique
        /\ Fqcns' = Fqcns
    BY <2>2, SameReached
  <2>4. /\ InCellOrder(models) => InCellOrder(models)'
        /\ InCellOrder(remaining) => InCellOrder(remaining)'
    BY <2>2, SameCells
  <2>5. Walked => Walked'
    <3>1. Walk => Walk'
      BY <2>2, <2>3 DEF Walk, Named, RelatedTo
    <3> QED BY <2>2, <3>1 DEF Walked
  <2>6. RootsFirst => RootsFirst'
    BY <2>2, <2>3 DEF RootsFirst, ModelAt, RelatedTo, NoGroups
  <2>7. NoGroups(polymorphic)' = NoGroups(polymorphic)
    BY <2>2 DEF NoGroups
  <2> QED BY <1>1, <1>2, <2>2, <2>3, <2>4, <2>5, <2>6, <2>7 DEF OrderInv, OrderFacts
<1> QED BY <1>3, <1>4, <1>5, <1>6, <1>7, <1>8, <1>9 DEF Next

LEMMA OrderAlways == Spec => []OrderInv
<1>1. Init => OrderInv
  <2>1. Init => VisitsTyped
    BY EmptyList DEF Init, VisitsTyped
  <2>2. Init => stage = "analyze"
    BY DEF Init
  <2> QED BY <2>1, <2>2, MergeStarts DEF OrderInv, WalkInv
<1> QED BY <1>1, OrderKept, PTL DEF Spec

\* Without polymorphic relations and with every class declared once, the models
\* that the controllers' models lead to are emitted first, each behind one that
\* names it unless it is a controller's own, and the others keep their order.
THEOREM RootsFirstAlways == Spec => []RootsFirst
<1>1. OrderInv => RootsFirst
  <2>1. CASE stage # "done"
    BY <2>1 DEF RootsFirst
  <2>2. CASE stage = "done" /\ ~Unique
    BY <2>2 DEF RootsFirst, Unique
  <2>3. CASE stage = "done" /\ Unique
    BY <2>3 DEF OrderInv, OrderFacts
  <2> QED BY <2>1, <2>2, <2>3
<1> QED BY <1>1, OrderAlways, PTL

-----------------------------------------------------------------------------
(* Request mode tells of the same project.                                 *)

LEMMA AllModelsAre ==
    ASSUME FilesTyped PROVE AllModels = {ModelAt(q) : q \in ModelCells}
<1>1. ASSUME NEW m PROVE m \in AllModels <=> \E q \in ModelCells : m = ModelAt(q)
  <2>1. m \in AllModels <=> \E i \in DOMAIN files : m \in ToSet(files[i].models)
    BY DEF AllModels
  <2>2. \A i \in DOMAIN files : m \in ToSet(files[i].models)
                                  <=> \E k \in DOMAIN files[i].models : m = files[i].models[k]
    BY InToSet
  <2>3. \A i \in DOMAIN files : \A k \in DOMAIN files[i].models :
          <<i, k>> \in ModelCells /\ ModelAt(<<i, k>>) = files[i].models[k]
    BY ModelCellsHold DEF ModelAt
  <2>4. \A q \in ModelCells : /\ q[1] \in DOMAIN files /\ q[2] \in DOMAIN files[q[1]].models
                              /\ ModelAt(q) = files[q[1]].models[q[2]]
    BY ModelCellsHold DEF ModelAt
  <2>5. ASSUME m \in AllModels PROVE \E q \in ModelCells : m = ModelAt(q)
    <3>1. PICK i \in DOMAIN files : \E k \in DOMAIN files[i].models : m = files[i].models[k]
      BY <2>1, <2>2, <2>5
    <3>2. PICK k \in DOMAIN files[i].models : m = files[i].models[k]
      BY <3>1
    <3> QED BY <2>3, <3>2
  <2>6. ASSUME NEW q \in ModelCells, m = ModelAt(q) PROVE m \in AllModels
    <3>1. m \in ToSet(files[q[1]].models)
      BY <2>2, <2>4, <2>6
    <3> QED BY <2>1, <2>4, <3>1
  <2> QED BY <2>5, <2>6
<1> QED BY <1>1

LEMMA ShownElements ==
    ASSUME NEW m, NEW x
    PROVE  x \in ToSet(ShownRels(m)) <=> \E r \in ToSet(m.rels) : x = ShownRel(r)
<1> DEFINE t == ShownRels(m)
<1>1. DOMAIN t = DOMAIN m.rels /\ \A k \in DOMAIN m.rels : t[k] = ShownRel(m.rels[k])
  BY DEF ShownRels
<1>2. ToSet(t) = {t[k] : k \in DOMAIN t} /\ ToSet(m.rels) = {m.rels[k] : k \in DOMAIN m.rels}
  BY ToSetIs
<1> HIDE DEF t
<1>3. x \in ToSet(t) <=> \E r \in ToSet(m.rels) : x = ShownRel(r)
  BY <1>1, <1>2
<1> QED BY <1>3 DEF t

\* The relationships of a class, as its entries show them and as it declares them
EntriesOf(fqcn) == {i \in DOMAIN models : models[i].fqcn = fqcn}
ShownOf(fqcn) == UNION {ToSet(models[i].rels) : i \in EntriesOf(fqcn)}
DeclaredOf(fqcn) == UNION {ToSet(m.rels) : m \in Declared(fqcn)}

LEMMA ShownAreDeclared ==
    ASSUME FilesTyped, Keys(models) = {ModelKey(q) : q \in ModelCells},
           \A m \in ToSet(models) : WholeModel(m, ModelCells), NEW fqcn, NEW x
    PROVE  x \in ShownOf(fqcn) <=> \E r \in DeclaredOf(fqcn) : x = ShownRel(r)
<1>1. \A r : r \in DeclaredOf(fqcn)
               <=> \E q \in ModelCells : ModelAt(q).fqcn = fqcn /\ r \in ToSet(ModelAt(q).rels)
  <2> SUFFICES ASSUME NEW r
               PROVE r \in DeclaredOf(fqcn)
                 <=> \E q \in ModelCells : ModelAt(q).fqcn = fqcn /\ r \in ToSet(ModelAt(q).rels)
    OBVIOUS
  <2>1. r \in DeclaredOf(fqcn) <=> \E m \in AllModels : m.fqcn = fqcn /\ r \in ToSet(m.rels)
    BY DEF DeclaredOf, Declared
  <2> QED BY <2>1, AllModelsAre
<1>2. \A i \in DOMAIN models : models[i] \in ToSet(models) /\ Key(models[i]) \in Keys(models)
  BY InToSet DEF Keys
<1>3. \A i \in DOMAIN models : \A y :
        y \in ToSet(models[i].rels)
          <=> \E q \in ModelCells : ModelKey(q) = Key(models[i]) /\ y \in ToSet(ShownRels(ModelAt(q)))
  BY <1>2 DEF WholeModel
<1>4. /\ \A q \in ModelCells : ModelKey(q) = <<ModelAt(q).fqcn, files[q[1]].path>>
      /\ \A i \in DOMAIN models : Key(models[i]) = <<models[i].fqcn, models[i].file>>
  BY DEF ModelKey, Key
<1>5. x \in ShownOf(fqcn) <=> \E i \in DOMAIN models : models[i].fqcn = fqcn /\ x \in ToSet(models[i].rels)
  BY DEF ShownOf, EntriesOf
<1>6. ASSUME x \in ShownOf(fqcn) PROVE \E r \in DeclaredOf(fqcn) : x = ShownRel(r)
  <2>1. PICK i \in DOMAIN models : models[i].fqcn = fqcn /\ x \in ToSet(models[i].rels)
    BY <1>5, <1>6
  <2>2. PICK q \in ModelCells : ModelKey(q) = Key(models[i]) /\ x \in ToSet(ShownRels(ModelAt(q)))
    BY <1>3, <2>1
  <2>3. ModelAt(q).fqcn = fqcn
    BY <1>4, <2>1, <2>2
  <2>4. PICK r \in ToSet(ModelAt(q).rels) : x = ShownRel(r)
    BY <2>2, ShownElements
  <2> QED BY <1>1, <2>3, <2>4
<1>7. ASSUME NEW r \in DeclaredOf(fqcn), x = ShownRel(r) PROVE x \in ShownOf(fqcn)
  <2>1. PICK q \in ModelCells : ModelAt(q).fqcn = fqcn /\ r \in ToSet(ModelAt(q).rels)
    BY <1>1, <1>7
  <2>2. x \in ToSet(ShownRels(ModelAt(q)))
    BY <1>7, <2>1, ShownElements
  <2>3. ModelKey(q) \in Keys(models)
    OBVIOUS
  <2>4. PICK i \in DOMAIN models : Key(models[i]) = ModelKey(q)
    BY <2>3 DEF Keys
  <2>5. models[i].fqcn = fqcn
    BY <1>4, <2>1, <2>4
  <2> QED BY <1>3, <1>5, <2>2, <2>4, <2>5
<1> QED BY <1>6, <1>7

LEMMA OnlyOne ==
    ASSUME NEW S, IsFiniteSet(S), Cardinality(S) = 1, NEW x \in S
    PROVE  S = {x}
<1>1. IsFiniteSet(S \ {x}) /\ Cardinality(S \ {x}) = 0
  BY FS_RemoveElement
<1>2. S \ {x} = {}
  BY <1>1, FS_EmptySet
<1> QED BY <1>2

\* The one declaration of an action decides in both modes.
LEMMA ActionDeclaredOnce ==
    ASSUME FilesTyped, NEW c, WholeController(c, MethodCells), NEW m \in ToSet(c.methods),
           Cardinality(Stating(c.fqcn, m.name)) = 1
    PROVE  ContractAction(c.fqcn, m.name) =
             [http |-> m.http, scopes |-> {s \in ToSet(m.scopes) : s.on # None}]
<1> DEFINE S == Stating(c.fqcn, m.name)
<1>1. PICK q \in MethodCells : MethodKey(q) = Key(c) /\ m = MethodOut(MethodAt(q))
  BY DEF WholeController
<1>2. MethodAt(q).fqcn = c.fqcn /\ MethodAt(q).method = m.name
  BY <1>1 DEF MethodKey, Key, MethodOut
<1>3. q \in S
  BY <1>2 DEF Stating
<1>4. IsFiniteSet(S)
  <2>1. S \subseteq MethodCells
    BY DEF Stating
  <2> QED BY <2>1, MethodCellsHold, FS_Subset
<1>5. S = {q}
  <2> HIDE DEF S
  <2>1. Cardinality(S) = 1
    BY DEF S
  <2> QED BY <1>3, <1>4, <2>1, OnlyOne
<1>6. (CHOOSE l \in S : \A p \in S : p = l \/ Earlier(p, l)) = q
  <2> HIDE DEF S
  <2>1. \E l \in S : \A p \in S : p = l \/ Earlier(p, l)
    BY <1>5
  <2> QED BY <1>5, <2>1
<1>7. ContractAction(c.fqcn, m.name) =
        [http   |-> HttpStatus(MethodAt(q)),
         scopes |-> {s \in ToSet(Owned(MethodAt(q).scopes)) : s.on # None}]
  BY <1>6 DEF ContractAction
<1>8. m.http = HttpStatus(MethodAt(q)) /\ m.scopes = Owned(MethodAt(q).scopes)
  BY <1>1 DEF MethodOut
<1> QED BY <1>7, <1>8

LEMMA ModesAgreeByMerge == MergeInv => ModesAgree
<1> SUFFICES ASSUME MergeInv, stage = "done"
             PROVE  ModesAgree
  BY DEF ModesAgree
<1>1. FilesTyped /\ NothingLost
  BY NothingLostByMerge DEF MergeInv
<1>2. /\ Keys(models) = {ModelKey(q) : q \in ModelCells}
      /\ \A m \in ToSet(models) : WholeModel(m, ModelCells)
      /\ \A c \in ToSet(controllers) : WholeController(c, MethodCells)
      /\ \A n \in Morphs :
           ToSet(polymorphic[n]) = UNION {ToSet(files[h].polymorphic[n]) : h \in DOMAIN files}
      /\ Channels = UNION {{b.channel : b \in ToSet(files[h].broadcast)} : h \in DOMAIN files}
  BY <1>1 DEF NothingLost
<1>3. {m.fqcn : m \in ContractModels} = {models[i].fqcn : i \in DOMAIN models}
  <2>1. {m.fqcn : m \in ContractModels} = {m.fqcn : m \in AllModels}
    <3>1. \A c : ContractModel(c).fqcn = c
      BY DEF ContractModel
    <3>2. \A m : m \in ContractModels <=> \E x \in AllModels : m = ContractModel(x.fqcn)
      BY DEF ContractModels
    <3> QED BY <3>1, <3>2
  <2>2. {m.fqcn : m \in AllModels} = {ModelAt(q).fqcn : q \in ModelCells}
    BY <1>1, AllModelsAre
  <2>3. \A i \in DOMAIN models : Key(models[i]) = <<models[i].fqcn, models[i].file>>
    BY DEF Key
  <2>4. \A q \in ModelCells : ModelKey(q) = <<ModelAt(q).fqcn, files[q[1]].path>>
    BY DEF ModelKey
  <2>5. \A i \in DOMAIN models : \E q \in ModelCells : ModelKey(q) = Key(models[i])
    BY <1>2 DEF Keys
  <2>6. \A q \in ModelCells : \E i \in DOMAIN models : ModelKey(q) = Key(models[i])
    BY <1>2 DEF Keys
  <2>7. {ModelAt(q).fqcn : q \in ModelCells} = {models[i].fqcn : i \in DOMAIN models}
    BY <2>3, <2>4, <2>5, <2>6
  <2> QED BY <2>1, <2>2, <2>7
<1>4. ASSUME NEW fqcn
      PROVE  LET m == ContractModel(fqcn)
             IN  /\ {p.relation : p \in m.polymorphic} =
                      {r.name : r \in {x \in ShownOf(fqcn) : x.type \in PolymorphicTypes}}
                 /\ {[relation |-> r.name, columns |-> r.pivot] :
                       r \in {x \in ShownOf(fqcn) : x.pivot # {}}} \subseteq m.pivots
  <2> DEFINE m == ContractModel(fqcn)
  <2>1. \A x : x \in ShownOf(fqcn) <=> \E r \in DeclaredOf(fqcn) : x = ShownRel(r)
    BY <1>1, <1>2, ShownAreDeclared
  <2>2. \A r : /\ ShownRel(r).name = r.name /\ ShownRel(r).type = r.type
               /\ ShownRel(r).pivot # {} => ShownRel(r).pivot = r.pivot
    BY DEF ShownRel
  <2>3. {p.relation : p \in m.polymorphic}
          = {r.name : r \in {x \in DeclaredOf(fqcn) : x.type \in PolymorphicTypes}}
    <3>1. m.polymorphic = {PolymorphicRelation(r) :
                             r \in {x \in DeclaredOf(fqcn) : x.type \in PolymorphicTypes}}
      BY DEF ContractModel, DeclaredOf
    <3>2. \A r : PolymorphicRelation(r).relation = r.name
      BY DEF PolymorphicRelation
    <3> QED BY <3>1, <3>2
  <2>4. m.pivots = {[relation |-> r.name, columns |-> r.pivot] :
                      r \in {x \in DeclaredOf(fqcn) : x.pivot # {}}}
    BY DEF ContractModel, DeclaredOf
  <2> HIDE DEF m
  <2>5. {r.name : r \in {x \in DeclaredOf(fqcn) : x.type \in PolymorphicTypes}}
          = {r.name : r \in {x \in ShownOf(fqcn) : x.type \in PolymorphicTypes}}
    BY <2>1, <2>2
  <2>6. ASSUME NEW x \in ShownOf(fqcn), x.pivot # {}
        PROVE  [relation |-> x.name, columns |-> x.pivot] \in m.pivots
    <3>1. PICK r \in DeclaredOf(fqcn) : x = ShownRel(r)
      BY <2>1
    <3>2. x.name = r.name /\ x.pivot = r.pivot /\ r.pivot # {}
      BY <2>2, <2>6, <3>1
    <3> QED BY <2>4, <3>2
  <2>7. {[relation |-> r.name, columns |-> r.pivot] :
           r \in {x \in ShownOf(fqcn) : x.pivot # {}}} \subseteq m.pivots
    BY <2>6
  <2> QED BY <2>3, <2>5, <2>7 DEF m
<1>5. {<<g.parent, g.key>> : g \in PolymorphicGroups} =
        UNION {{<<p.model, n>> : p \in ToSet(polymorphic[n])} : n \in Morphs}
  <2> DEFINE of(n) == UNION {ToSet(f.polymorphic[n]) : f \in ToSet(files)}
  <2>1. {<<g.parent, g.key>> : g \in PolymorphicGroups}
          = UNION {{<<p.model, n>> : p \in of(n)} : n \in Morphs}
    <3> DEFINE pair(n, x) == [model |-> x.model, morph |-> n]
               group(p) == [parent |-> p.model, key |-> p.morph, related |-> RelatedByMorph(p.morph)]
    <3>1. \A g : g \in PolymorphicGroups
                   <=> \E n \in Morphs : \E x \in of(n) : g = group(pair(n, x))
      <4> DEFINE pairs == UNION {{pair(n, x) : x \in of(n)} : n \in Morphs}
      <4>1. PolymorphicGroups = {group(p) : p \in pairs}
        BY DEF PolymorphicGroups
      <4> HIDE DEF of, pair, group
      <4>2. \A p : p \in pairs <=> \E n \in Morphs : \E x \in of(n) : p = pair(n, x)
        OBVIOUS
      <4> HIDE DEF pairs
      <4> QED BY ONLY <4>1, <4>2
    <3>2. \A n, x : pair(n, x).model = x.model /\ pair(n, x).morph = n
      OBVIOUS
    <3>3. \A p : group(p).parent = p.model /\ group(p).key = p.morph
      OBVIOUS
    <3> HIDE DEF of, pair, group
    <3>4. ASSUME NEW y
          PROVE  y \in {<<g.parent, g.key>> : g \in PolymorphicGroups}
                   <=> \E n \in Morphs : \E x \in of(n) : y = <<x.model, n>>
      <4>1. \A n \in Morphs : \A x \in of(n) :
              group(pair(n, x)).parent = x.model /\ group(pair(n, x)).key = n
        BY <3>2, <3>3
      <4>2. (\E g \in PolymorphicGroups : y = <<g.parent, g.key>>)
              <=> \E n \in Morphs : \E x \in of(n) :
                    y = <<group(pair(n, x)).parent, group(pair(n, x)).key>>
        BY ONLY <3>1
      <4> QED BY ONLY <4>1, <4>2
    <3>5. \A y : y \in UNION {{<<p.model, n>> : p \in of(n)} : n \in Morphs}
                   <=> \E n \in Morphs : \E x \in of(n) : y = <<x.model, n>>
      OBVIOUS
    <3> QED BY <3>4, <3>5
  <2>2. \A n \in Morphs : of(n) = ToSet(polymorphic[n])
    <3>1. ToSet(files) = {files[h] : h \in DOMAIN files}
      BY ToSetIs
    <3> QED BY <1>2, <3>1
  <2> HIDE DEF of
  <2>3. UNION {{<<p.model, n>> : p \in of(n)} : n \in Morphs}
          = UNION {{<<p.model, n>> : p \in ToSet(polymorphic[n])} : n \in Morphs}
    BY <2>2
  <2> QED BY <2>1, <2>3
<1>6. Channels = {b.channel : b \in ContractBroadcast}
  <2>1. ToSet(files) = {files[h] : h \in DOMAIN files}
    BY ToSetIs
  <2>2. \A c : (\E b \in ContractBroadcast : c = b.channel)
                 <=> \E f \in ToSet(files) : \E b \in ToSet(f.broadcast) : c = b.channel
    <3> DEFINE listed(f, b) == [channel |-> b.channel, type |-> b.type, file |-> f.path]
    <3>1. \A x : x \in ContractBroadcast
                   <=> \E f \in ToSet(files) : \E b \in ToSet(f.broadcast) : x = listed(f, b)
      BY DEF ContractBroadcast
    <3>2. \A f, b : listed(f, b).channel = b.channel
      OBVIOUS
    <3> HIDE DEF listed
    <3>3. TAKE c
    <3>4. (\E b \in ContractBroadcast : c = b.channel)
            <=> \E f \in ToSet(files) : \E b \in ToSet(f.broadcast) : c = listed(f, b).channel
      BY ONLY <3>1
    <3> QED BY ONLY <3>2, <3>4
  <2>3. \A c : c \in Channels
                 <=> \E h \in DOMAIN files : \E b \in ToSet(files[h].broadcast) : c = b.channel
    BY <1>2
  <2>4. \A c : (\E f \in ToSet(files) : \E b \in ToSet(f.broadcast) : c = b.channel)
                 <=> \E h \in DOMAIN files : \E b \in ToSet(files[h].broadcast) : c = b.channel
    BY <2>1
  <2>5. ASSUME NEW c PROVE c \in Channels <=> c \in {b.channel : b \in ContractBroadcast}
    BY <2>2, <2>3, <2>4
  <2> QED BY <2>5
<1>7. \A c \in ToSet(controllers) : \A m \in ToSet(c.methods) :
        Cardinality(Stating(c.fqcn, m.name)) = 1 =>
          ContractAction(c.fqcn, m.name) =
            [http |-> m.http, scopes |-> {s \in ToSet(m.scopes) : s.on # None}]
  BY <1>1, <1>2, ActionDeclaredOnce
<1>8. \A m \in ContractModels : \E fqcn : m = ContractModel(fqcn) /\ m.fqcn = fqcn
  BY DEF ContractModels, ContractModel
<1>9. \A m \in ContractModels :
        /\ {p.relation : p \in m.polymorphic} =
             {r.name : r \in {x \in ShownOf(m.fqcn) : x.type \in PolymorphicTypes}}
        /\ {[relation |-> r.name, columns |-> r.pivot] :
              r \in {x \in ShownOf(m.fqcn) : x.pivot # {}}} \subseteq m.pivots
  <2>1. TAKE m \in ContractModels
  <2>2. PICK fqcn : m = ContractModel(fqcn) /\ m.fqcn = fqcn
    BY <1>8
  <2> QED BY ONLY <1>4, <2>2
<1> QED BY <1>3, <1>5, <1>6, <1>7, <1>9 DEF ModesAgree, ShownOf, EntriesOf

\* The Delta of manifest mode and the one of request mode name the same models,
\* pivots of belongsToMany, polymorphic relations, groups and channels, and agree
\* on every action that is declared once.
THEOREM ModesAgreeAlways == Spec => []ModesAgree
BY ModesAgreeByMerge, MergeAlways, PTL
=============================================================================
