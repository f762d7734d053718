---------------------------- MODULE ContractForms ----------------------------
(***************************************************************************)
(* What a contract is made of (src/src/contracts.rs): facts about fields,  *)
(* ParsedRuleField, and schemas.                                           *)
(*                                                                         *)
(* A path is a sequence of names; "orders[].sku" is <<"orders", Item,      *)
(* "sku">>.  No name is empty, as the one in "a..b", or written "_item".   *)
(* is_array and collection, which every source sets together, are one      *)
(* attribute; so are allowed_values and wrappers.  nullable, format and via*)
(* are left out.                                                           *)
(***************************************************************************)
EXTENDS Naturals, Sequences, TLC

CONSTANT None

Item == "_item"
Locations == {"body", "query", "files"}
Names == STRING \ {""}
Paths == Seq(Names)

Blank(location, path, source) ==
    [location |-> location, path |-> path, source |-> source, kind |-> None,
     type |-> None, scalar |-> None, item |-> None, required |-> None,
     optional |-> None, array |-> None, values |-> {}]

Scalar(f, t) == [f EXCEPT !.kind = "scalar", !.type = t, !.scalar = t]
Upload(f)    == [f EXCEPT !.location = "files", !.kind = "file", !.type = "string",
                          !.scalar = "binary"]
Many(f, k)   == [f EXCEPT !.kind = k, !.type = "array", !.array = TRUE]

-----------------------------------------------------------------------------
NoProperties == [k \in {} |-> None]
Schema       == [type |-> None, ref |-> None, style |-> None, properties |-> NoProperties,
                 items |-> None, nullable |-> FALSE]
Type(t)      == [Schema EXCEPT !.type = t]
Object(p)    == [Schema EXCEPT !.type = "object", !.properties = p]
Array(s)     == [Schema EXCEPT !.type = "array", !.items = s]
Ref(c)        == [Schema EXCEPT !.ref = c, !.style = "ref"]
OpenapiRef(c) == [Schema EXCEPT !.ref = c, !.style = "$ref"]
Nullable(s)  == [s EXCEPT !.nullable = TRUE]
EmptyObject  == Object(NoProperties)
=============================================================================
