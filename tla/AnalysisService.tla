--------------------------- MODULE AnalysisService ---------------------------
(***************************************************************************)
(* What analyze_single_file promises, with no cache in sight: an answer is *)
(* the analysis of a content the file had at some moment of the call.      *)
(* A call may also fail, or its process may die; it never answers with an  *)
(* analysis of anything else.                                              *)
(***************************************************************************)
CONSTANTS
    Roots, Paths, Contents, Absent, Content0, Jobs,
    Task,    \* [Jobs -> record with fields root, path and feat]
    NoFacts  \* no answer yet

VARIABLES
    source,  \* [Roots \X Paths -> content or Absent]
    held,    \* [Jobs -> contents the job's file had since the call began]
    status,  \* [Jobs -> "idle", "pending", "done", "failed" or "crashed"]
    answer   \* [Jobs -> an analysis or NoFacts]

svars == <<source, held, status, answer>>

File(j) == <<Task[j].root, Task[j].path>>
Of(j, c) == [content |-> c, path |-> Task[j].path, feat |-> Task[j].feat]

Init ==
    /\ source = [f \in Roots \X Paths |-> Content0]
    /\ held = [j \in Jobs |-> {}]
    /\ status = [j \in Jobs |-> "idle"]
    /\ answer = [j \in Jobs |-> NoFacts]

Begin(j) ==
    /\ status[j] = "idle"
    /\ source[File(j)] # Absent
    /\ status' = [status EXCEPT ![j] = "pending"]
    /\ held' = [held EXCEPT ![j] = {source[File(j)]}]
    /\ UNCHANGED <<source, answer>>

Answer(j) ==
    /\ status[j] = "pending"
    /\ \E c \in held[j] \ {Absent} : answer' = [answer EXCEPT ![j] = Of(j, c)]
    /\ status' = [status EXCEPT ![j] = "done"]
    /\ UNCHANGED <<source, held>>

GiveUp(j) ==
    /\ status[j] = "pending"
    /\ \E s \in {"failed", "crashed"} : status' = [status EXCEPT ![j] = s]
    /\ UNCHANGED <<source, held, answer>>

Edit(f, c) ==
    /\ source' = [source EXCEPT ![f] = c]
    /\ held' = [j \in Jobs |-> IF status[j] = "pending" /\ File(j) = f
                               THEN held[j] \cup {c} ELSE held[j]]
    /\ UNCHANGED <<status, answer>>

Next ==
    \/ \E j \in Jobs : Begin(j) \/ Answer(j) \/ GiveUp(j)
    \/ \E f \in Roots \X Paths, c \in Contents \cup {Absent} : Edit(f, c)

Spec == Init /\ [][Next]_svars
=============================================================================
