------------------------------- MODULE MCOutput -------------------------------
(* Up to four files; relation graphs of every shape over three models.      *)
EXTENDS ContractDelta

CONSTANTS F1, F2, F3, F4, A, B, C, AController, BController, a, b, x, y, z, img

MCMorphs == {img}
MCNames == <<A, B, C, x, y, z, "__invoke", "edit", "update", F1, F2, F3, F4,
             AController, BController, a, b, img>>
MCRank == [n \in ToSet(MCNames) |-> CHOOSE i \in DOMAIN MCNames : MCNames[i] = n]
MCRoot == [c \in ToSet(MCNames) |-> CASE c = AController -> A [] c = BController -> B
                                      [] OTHER -> None]

Class(c, controller, model, scopes, methods) ==
    [fqcn |-> c, controller |-> controller, model |-> model, scopes |-> scopes,
     methods |-> methods]
Controller(c, methods) == Class(c, TRUE, FALSE, {}, methods)
Model(c, rels) == Class(c, FALSE, TRUE, {}, rels)
Action(m, status) == [name |-> m, public |-> TRUE, status |-> status, calls |-> <<>>,
                      relation |-> None]
Relates(name, type, to, morph) ==
    [name |-> name, public |-> TRUE, status |-> 0, calls |-> <<>>,
     relation |-> [type |-> type, class |-> to, morph |-> morph, pivot |-> {}]]
Rel(name, to)  == Relates(name, "hasMany", to, None)
MorphTo(name)  == Relates(name, "morphTo", None, None)
MorphMany(name, to, n) == Relates(name, "morphMany", to, n)

Routing(imports, routes) == [imports |-> imports, routes |-> routes]
NoRoutes == Routing(<<>>, <<>>)
File(p, classes, chs, rs) ==
    [path |-> p, classes |-> classes, channels |-> chs,
     imports |-> rs.imports, routes |-> rs.routes]

\* Models that relate to none, one or two models, in either order.
RelLists == {<<>>} \cup {<<Rel(x, m)>> : m \in {A, B, C}}
            \cup {<<Rel(x, m), Rel(y, n)>> : m \in {A, B, C}, n \in {A, B, C}}

\* Controllers of the project: none, one, or two.
ControllerLists == {<<>>, <<Controller(BController, <<Action(x, 0)>>)>>,
                    <<Controller(BController, <<Action(x, 0)>>),
                      Controller(AController, <<Action(x, 201)>>)>>}

Graphs ==
    {<<File(F1, cs \o <<Model(A, r1)>>, <<>>, NoRoutes),
       File(F2, <<Model(B, r2)>>, <<>>, NoRoutes),
       File(F3, <<Model(c3, r3)>>, <<>>, NoRoutes)>> :
       cs \in ControllerLists, r1 \in RelLists, r2 \in RelLists,
       r3 \in {<<>>, <<Rel(x, A)>>, <<Rel(x, B), Rel(y, A)>>, <<Rel(x, C), Rel(y, B)>>},
       c3 \in {A, C}}

\* Routes of every form in any order over methods in two files, one of them not
\* public; the short name a is imported, b under an alias and in a group only.
Route(form, c, m, v) == [form |-> form, class |-> c, method |-> m, verb |-> v]
MCImports == <<[form |-> "plain", path |-> AController, last |-> a, alias |-> None],
             [form |-> "alias", path |-> BController, last |-> None, alias |-> b],
             [form |-> "group", path |-> BController, last |-> b, alias |-> None]>>
MCStatements ==
    {Route("pair", a, x, "GET"), Route("pair", AController, x, "PUT"),
     Route("pair", a, y, "ANY"), Route("pair", b, z, "GET"),
     Route("class", a, None, "GET"), Route("class", AController, None, "POST"),
     Route("class", BController, None, "GET"),
     Route("apiResource", a, None, None), Route("resource", BController, None, None)}
StatementLists ==
    {<<>>} \cup {<<r>> : r \in MCStatements}
    \cup {<<r, s>> : r \in MCStatements, s \in MCStatements}
    \cup {<<r, s, t>> : r \in MCStatements, s \in MCStatements, t \in MCStatements}
Hidden(m) == [Action(m, 0) EXCEPT !.public = FALSE]
RoutesFiles ==
    {<<File(F1, <<Controller(AController, <<Hidden("__invoke"), Action(y, 201), Action(x, 0)>>)>>,
            <<>>, NoRoutes),
       File(F2, <<Controller(AController, <<Action(x, 0), Action("update", 0), Hidden(z)>>),
                  Controller(BController, <<Action(z, 0), Action("edit", 0)>>)>>,
            <<>>, NoRoutes),
       File(F3, <<>>, <<>>, Routing(MCImports, rs)),
       File(F4, <<>>, <<>>, Routing(<<>>, more))>> :
       rs \in StatementLists,
       more \in {<<>>, <<Route("pair", AController, y, "GET")>>}}
    \cup {<<File(F1, <<Controller(AController, <<Action(z, 0), Action(x, 0)>>)>>,
                 <<>>, NoRoutes)>>, <<>>}

\* Channels of two files with and without a function, also repeated.
Channel(n, callback) == [name |-> n, callback |-> callback]
Channels3 == {Channel(x, None), Channel(x, "private"), Channel(y, "public"),
              Channel(y, None), Channel(z, "presence")}
ChannelLists == {<<>>} \cup {<<c>> : c \in Channels3}
                \cup {<<c, d>> : c \in Channels3, d \in Channels3}
                \cup {<<c, d, e>> : c \in Channels3, d \in Channels3, e \in Channels3}
ChannelFiles == {<<File(F1, <<>>, c1, NoRoutes), File(F2, <<>>, c2, NoRoutes)>> :
                   c1 \in ChannelLists, c2 \in {<<>>, <<Channel(x, "public")>>}}

\* Polymorphic relations with and without sources.
MorphRels == {<<>>, <<MorphMany(x, A, img)>>, <<MorphMany(y, A, img), MorphMany(x, A, img)>>,
              <<MorphTo(img)>>, <<MorphTo(img), Rel(x, B)>>, <<Rel(x, C)>>}
Morphing ==
    {<<File(F1, <<Controller(BController, <<Action(x, 0)>>), Model(A, r1)>>, <<>>, NoRoutes),
       File(F2, <<Model(B, r2)>>, <<>>, NoRoutes),
       File(F3, <<Model(c3, r3)>>, <<>>, NoRoutes)>> :
       r1 \in MorphRels, r2 \in MorphRels, r3 \in MorphRels, c3 \in {B, C}}

\* Scopes that one, two or no models declare; pivots and polymorphic relations of
\* a class that two files declare.
Pivot(name, type, to) == [Rel(name, to) EXCEPT !.relation.type = type,
                                               !.relation.pivot = {a, b}]
Sharing ==
    {<<File(F1, <<Controller(AController, <<[Action(x, 0) EXCEPT !.calls = <<y, z, y>>],
                                            Action(y, 204)>>)>>, <<>>, NoRoutes),
       File(F2, <<Class(A, FALSE, TRUE, s1, <<Pivot(x, "belongsToMany", B), MorphTo(img)>>)>>,
            <<>>, NoRoutes),
       File(F3, <<Class(c3, FALSE, TRUE, s2, r3)>>, <<>>, NoRoutes)>> :
       s1 \in SUBSET {y, z}, s2 \in SUBSET {y, z}, c3 \in {A, B},
       r3 \in {<<>>, <<Pivot(y, "morphToMany", C)>>, <<MorphMany(z, A, img)>>,
               <<Relates(z, "morphedByMany", A, img)>>}}

\* A file that declares a class twice.
Twice ==
    {<<File(F1, <<Controller(AController, <<Action(x, 0), Action(y, 0)>>), Model(A, r1),
                  Controller(AController, <<Action(x, 201)>>), Model(A, r2)>>, <<>>, NoRoutes),
       File(F2, <<Model(B, r3)>>, <<>>, NoRoutes)>> :
       r1 \in {<<Rel(x, B)>>, <<MorphMany(x, B, img)>>}, r2 \in RelLists, r3 \in {<<>>, <<Rel(z, A)>>}}

MCProjects == Graphs \cup RoutesFiles \cup ChannelFiles \cup Morphing \cup Sharing \cup Twice
=============================================================================
