------------------------------ MODULE MCBoard ------------------------------
(***************************************************************************)
(* Constants for model-checking Board: task shapes to create, one          *)
(* conversation for all tasks, and the symmetry of the task ids.           *)
(***************************************************************************)
EXTENDS Board, TLC

CONSTANTS t1, t2, t3, a1, conv

OneConversation == [t \in Tasks |-> conv]
AllLinks == {link \in Tasks \X Tasks : link[1] # link[2]}
TaskSymmetry == Permutations(Tasks)

Todo(gate)      == [status |-> "todo", schedule |-> "none", gated |-> gate]
Later(when) == [status |-> "scheduled", schedule |-> when, gated |-> FALSE]
Triage          == [status |-> "triage", schedule |-> "none", gated |-> FALSE]
TodoLater       == [status |-> "todo", schedule |-> "future", gated |-> FALSE]

LifecycleInputs == {Todo(TRUE), Triage}
GraphInputs     == {Todo(FALSE)}
ShapeInputs     == {Triage, TodoLater, Todo(TRUE), Later("due")}
=============================================================================
