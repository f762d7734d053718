------------------------------ MODULE DataClasses ------------------------------
(***************************************************************************)
(* The fields of the Spatie data classes an action takes                   *)
(* (parse_spatie_data_request_fields, src/src/contracts.rs): classes that  *)
(* inherit from each other and hold each other, also in a circle.          *)
(***************************************************************************)
EXTENDS ContractForms, FiniteSets, SequencesExt

CONSTANTS
    Data,    \* the class Spatie\LaravelData\Data
    action   \* the action considered: its data and its classes

\* is_spatie_data_class: extends leads to Data.  A class that extends itself is
\* passed over; longer circles, on which the code does not end, are no input.
Extends(c) == IF c \in DOMAIN action.classes THEN action.classes[c].extends ELSE None
IsData(c) ==
    LET parent[n \in Nat] == IF n = 0 THEN c ELSE Extends(parent[n - 1])
    IN  \E n \in 1 .. Cardinality(DOMAIN action.classes) + 1 :
          parent[n] = Data /\ \A i \in 1 .. n - 1 : parent[i] # parent[i - 1]

\* parse_spatie_data_member
MemberField(m, prefix) ==
    LET f == [Blank("body", Append(prefix, m.name), "data")
                EXCEPT !.required = ~m.optional, !.optional = m.optional]
    IN  CASE m.type = "many"  -> [Many(f, "collection") EXCEPT !.item = m.of]
          [] m.type = "array" -> Many(f, "array")
          [] m.type = "one" /\ IsData(m.of) -> [f EXCEPT !.kind = "object", !.type = m.of]
          [] m.type = "integer" -> Scalar(f, "integer")
          [] OTHER -> Scalar(f, "string")

\* (Mutant of Leave: a class once visited stays visited.)
Stay(visited, c, r)  == [r EXCEPT !.visited = @ \cup {c}]
Leave(visited, c, r) == [r EXCEPT !.visited = visited]

\* parse_spatie_data_class_fields and expand_spatie_data_fields: the parent's
\* fields, then the class's own, each followed by those of the class it holds.
\* visited is passed from call to call.
RECURSIVE DataFields(_, _, _)
DataFields(c, prefix, visited) ==
    IF c \in visited \/ ~IsData(c) THEN [fields |-> <<>>, visited |-> visited]
    ELSE LET Add(r, x, p) == LET q == DataFields(x, p, r.visited)
                             IN  [fields |-> r.fields \o q.fields, visited |-> q.visited]
             Expand(r, m) ==
               LET f == MemberField(m, prefix)
                   s == [r EXCEPT !.fields = Append(@, f)]
               IN  CASE f.kind = "collection" -> Add(s, f.item, f.path \o <<Item>>)
                     [] f.kind = "object"     -> Add(s, f.type, f.path)
                     [] OTHER                 -> s
             start == [fields |-> <<>>, visited |-> visited \cup {c}]
             inherited == IF Extends(c) = Data THEN start ELSE Add(start, Extends(c), prefix)
         IN  Leave(visited, c, FoldLeft(Expand, inherited, action.classes[c].members))

\* parse_spatie_data_request_fields
AllDataFields ==
    FoldLeft(LAMBDA r, c : LET q == DataFields(c, <<>>, r.visited)
                           IN  [fields |-> r.fields \o q.fields, visited |-> q.visited],
             [fields |-> <<>>, visited |-> {}], action.data).fields
=============================================================================
