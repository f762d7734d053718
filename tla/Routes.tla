--------------------------------- MODULE Routes ---------------------------------
(***************************************************************************)
(* What a file under routes/ says about controllers (src/src/routes.rs):   *)
(* three passes of regular expressions over its text, one for resources,   *)
(* one for [Class::class, 'method'] and one for Class::class alone.        *)
(* A module of operators only; Output builds the Delta from what they find.*)
(*                                                                         *)
(* A routes file keeps of its text, in order,                              *)
(*   imports: Seq([form, path, last, alias]): the use statements; form is  *)
(*     "plain", "alias" (use path as alias) or "group" (use path\{..}),    *)
(*     last is the last name of path;                                      *)
(*   routes: Seq([form, class, method, verb]): the Route:: statements; form*)
(*     is "resource", "apiResource", "pair" or "class"; class is the name  *)
(*     as written: fully qualified, or short and resolved by the imports.  *)
(* Only a file whose path begins with routes/ is asked for its statements  *)
(* (collect_route_bindings): to any other file the input gives none.       *)
(* "class" stands for every statement with a verb that names a class       *)
(* outside a pair, closures that mention one included.                     *)
(***************************************************************************)
EXTENDS SequencesExt, Sorting

-----------------------------------------------------------------------------
\* collect_imports: groups are skipped, the text behind the last backslash is
\* the key.  With an alias that text is "Last as Alias", which names no class.
ImportKeys(f) == {i \in DOMAIN f.imports : f.imports[i].form = "plain"}

\* resolve_class_name: the last import of a short name counts; what no import
\* names stays as it is written.
ResolveClassName(f, raw) ==
    LET at == {i \in ImportKeys(f) : f.imports[i].last = raw}
    IN  IF at = {} THEN raw
        ELSE f.imports[LastOf(at)].path

\* resource_method_set
ResourceMethods(api) ==
    <<<<"index", <<"GET">>>>, <<"store", <<"POST">>>>, <<"show", <<"GET">>>>,
      <<"update", <<"PUT", "PATCH">>>>, <<"destroy", <<"DELETE">>>>>> \o
    IF api THEN <<>> ELSE <<<<"create", <<"GET">>>>, <<"edit", <<"GET">>>>>>

\* expand_http_methods
Verbs(verb) == IF verb \in {"ANY", "MATCH"}
               THEN <<"GET", "POST", "PUT", "PATCH", "DELETE", "OPTIONS">>
               ELSE <<verb>>

Binding(fqcn, method, verbs) == [fqcn |-> fqcn, method |-> method, verbs |-> verbs]

Stated(f, forms) == {i \in DOMAIN f.routes : f.routes[i].form \in forms}
RouteClass(f, i) == ResolveClassName(f, f.routes[i].class)

ResourceBindings(f) ==
    LET of(i) == LET set == ResourceMethods(f.routes[i].form = "apiResource")
                 IN  [n \in DOMAIN set |-> Binding(RouteClass(f, i), set[n][1], set[n][2])]
    IN  Flattened(Picked([i \in DOMAIN f.routes |-> of(i)],
                         Stated(f, {"resource", "apiResource"})))

PairBindings(f) ==
    Picked([i \in DOMAIN f.routes |->
              Binding(RouteClass(f, i), f.routes[i].method, Verbs(f.routes[i].verb))],
           Stated(f, {"pair"}))

\* The pass for invokable controllers also matches pairs; a class that the two
\* passes with verbs have bound already is left alone.
\* (Mutant: also one that a resource has bound.)
BoundSoFar(f) == ResourceBindings(f) \o PairBindings(f)
BoundByVerb(f) == PairBindings(f)

Invoked(f) ==
    LET both == Stated(f, {"pair", "class"})
    IN  {i \in both : /\ \A b \in ToSet(BoundByVerb(f)) : b.fqcn # RouteClass(f, i)
                      /\ \A k \in both : k < i => RouteClass(f, k) # RouteClass(f, i)}

InvokableBindings(f) ==
    Picked([i \in DOMAIN f.routes |->
              Binding(RouteClass(f, i), "__invoke", Verbs(f.routes[i].verb))],
           Invoked(f))

\* extract_route_bindings; the duplicates it drops, collect_route_bindings drops
\* with those of the other files.
ExtractRouteBindings(f) ==
    ResourceBindings(f) \o PairBindings(f) \o InvokableBindings(f)
=============================================================================
