------------------------------ MODULE ContractDelta ------------------------------
(***************************************************************************)
(* Request mode's Delta (src/src/contracts.rs) of the result that Output   *)
(* reduces for manifest mode: the models, polymorphic groups, broadcast    *)
(* channels and controller actions of a response.  What the code sorts and *)
(* frees of duplicates is a set here.  Attributes, and the models that only*)
(* their translatable attributes bring in, are left out.                   *)
(***************************************************************************)
EXTENDS Output

-----------------------------------------------------------------------------
\* collect_related_models_by_morph
RelatedByMorph(morph) ==
    UNION {{r.related : r \in {x \in ToSet(m.rels) : x.morph = morph /\ x.related # None}} :
             m \in AllModels}

PolymorphicTypes == {"morphTo", "morphOne", "morphMany", "morphByMany", "morphToMany",
                     "morphedByMany"}

\* build_model_polymorphic_relation
PolymorphicRelation(r) ==
    [relation |-> r.name,
     type     |-> IF r.type = "morphedByMany" THEN "morphByMany" ELSE r.type,
     model    |-> r.related,
     related  |-> RelatedByMorph(IF r.morph = None THEN r.name ELSE r.morph)]

\* collect_models: one entry per class, whatever files declare it.
\* (Mutant: the file that comes first.)
FirstDeclared(fqcn) ==
    LET at == {i \in DOMAIN files : \E m \in ToSet(files[i].models) : m.fqcn = fqcn}
    IN  {m \in ToSet(files[CHOOSE i \in at : \A k \in at : i <= k].models) : m.fqcn = fqcn}
Declared(fqcn) == {m \in AllModels : m.fqcn = fqcn}

ContractModel(fqcn) ==
    LET rels == UNION {ToSet(m.rels) : m \in Declared(fqcn)}
    IN  [fqcn        |-> fqcn,
         pivots      |-> {[relation |-> r.name, columns |-> r.pivot] :
                            r \in {x \in rels : x.pivot # {}}},
         polymorphic |-> {PolymorphicRelation(r) :
                            r \in {x \in rels : x.type \in PolymorphicTypes}}]

ContractModels == {ContractModel(fqcn) : fqcn \in {m.fqcn : m \in AllModels}}

\* collect_top_level_polymorphic
PolymorphicGroups ==
    {[parent |-> p.model, key |-> p.morph, related |-> RelatedByMorph(p.morph)] :
       p \in UNION {{[model |-> x.model, morph |-> n] :
                       x \in UNION {ToSet(f.polymorphic[n]) : f \in ToSet(files)}} :
                      n \in Morphs}}

\* collect_broadcast: each channel once per file.
ContractBroadcast ==
    UNION {{[channel |-> b.channel, type |-> b.type, file |-> f.path] :
              b \in ToSet(f.broadcast)} : f \in ToSet(files)}

\* collect_static_controllers: of two methods with one action key, the last in
\* file order stays; a scope nobody owns alone is dropped.
Stating(fqcn, method) ==
    {q \in MethodCells : MethodAt(q).fqcn = fqcn /\ MethodAt(q).method = method}
ContractAction(fqcn, method) ==
    LET last == CHOOSE q \in Stating(fqcn, method) :
                  \A p \in Stating(fqcn, method) : p = q \/ Earlier(p, q)
    IN  [http   |-> HttpStatus(MethodAt(last)),
         scopes |-> {s \in ToSet(Owned(MethodAt(last).scopes)) : s.on # None}]

-----------------------------------------------------------------------------
\* The two modes tell one story of a project: the same models with the same pivot
\* columns of belongsToMany relations and the same polymorphic relations, the same
\* polymorphic groups and channels, and of an action declared once the
\* same status and the same scopes of known models.
ModesAgree ==
    LET entries(fqcn) == {i \in DOMAIN models : models[i].fqcn = fqcn}
        rels(fqcn) == UNION {ToSet(models[i].rels) : i \in entries(fqcn)}
    IN  stage = "done" =>
          /\ {m.fqcn : m \in ContractModels} = {models[i].fqcn : i \in DOMAIN models}
          /\ \A m \in ContractModels :
               /\ {p.relation : p \in m.polymorphic} =
                    {r.name : r \in {x \in rels(m.fqcn) : x.type \in PolymorphicTypes}}
               /\ {[relation |-> r.name, columns |-> r.pivot] :
                     r \in {x \in rels(m.fqcn) : x.pivot # {}}} \subseteq m.pivots
          /\ {<<g.parent, g.key>> : g \in PolymorphicGroups} =
               UNION {{<<p.model, n>> : p \in ToSet(polymorphic[n])} : n \in Morphs}
          /\ Channels = {b.channel : b \in ContractBroadcast}
          /\ \A c \in ToSet(controllers) : \A m \in ToSet(c.methods) :
               Cardinality(Stating(c.fqcn, m.name)) = 1 =>
                 ContractAction(c.fqcn, m.name) =
                   [http |-> m.http, scopes |-> {s \in ToSet(m.scopes) : s.on # None}]
=============================================================================
