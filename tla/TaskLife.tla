------------------------------ MODULE TaskLife ------------------------------
(***************************************************************************)
(* What the Kanban board promises of its tasks and their runs, without     *)
(* claims, leases, limits, schedules or dependencies: a task is worked on  *)
(* by one run at a time, every run is opened once and closed once with an  *)
(* outcome that agrees with what becomes of the task, and done is final.   *)
(* Board implements this specification (IsTaskLife).                       *)
(***************************************************************************)
EXTENDS Naturals

CONSTANTS
  Tasks,
  NoTask,       \* "task" of a run that has not been opened
  Interrupted,  \* outcomes of a run that leave the task open
  MaxRuns       \* bound: runs opened

VARIABLES
  phase,    \* task -> "absent", "open", "running", "review", "done" or "deleted"
  history   \* run -> its task and its outcome; "unused" before it is opened, then "running"

RunIds == 1..MaxRuns
Unopened == [task |-> NoTask, status |-> "unused"]

Init ==
  /\ phase = [t \in Tasks |-> "absent"]
  /\ history = [r \in RunIds |-> Unopened]

To(S, p) == [t \in Tasks |-> IF t \in S THEN p ELSE phase[t]]

\* The running runs of the tasks in S, closed.
Closed(S, outcome) ==
  [r \in RunIds |-> IF history[r].status = "running" /\ history[r].task \in S
                    THEN [history[r] EXCEPT !.status = outcome] ELSE history[r]]

\* Tasks are created open, several at a time.
Create(S) ==
  /\ \A t \in S : phase[t] = "absent"
  /\ phase' = To(S, "open") /\ UNCHANGED history

\* The runs of running tasks are closed, together with their tasks' phase.
Leave(S, outcome, p) ==
  /\ \A t \in S : phase[t] = "running"
  /\ phase' = To(S, p) /\ history' = Closed(S, outcome)

Interrupt(S) == \E outcome \in Interrupted : Leave(S, outcome, "open")
Complete(t) == Leave({t}, "done", "done")
AskReview(t) == Leave({t}, "review_requested", "review")

\* A run is opened for an open task; the runs of the tasks in S are given up in the same step.
Begin(t, S) ==
  /\ phase[t] = "open" /\ \A u \in S : phase[u] = "running"
  /\ \E r \in RunIds, outcome \in Interrupted :
       /\ \A q \in RunIds : history[q].status = "unused" <=> q >= r
       /\ history' = [Closed(S, outcome) EXCEPT ![r] = [task |-> t, status |-> "running"]]
  /\ phase' = [To(S, "open") EXCEPT ![t] = "running"]

Approve(t) == phase[t] = "review" /\ phase' = To({t}, "done") /\ UNCHANGED history
Reject(t) == phase[t] = "review" /\ phase' = To({t}, "open") /\ UNCHANGED history

\* Only work that was once handed in can be reviewed again.
Reopen(t) ==
  /\ phase[t] = "open"
  /\ \E r \in RunIds : history[r].task = t /\ history[r].status = "review_requested"
  /\ phase' = To({t}, "review") /\ UNCHANGED history

\* A task that runs cannot be deleted; its history stays.
Delete(t) ==
  /\ phase[t] \in {"open", "review", "done"}
  /\ phase' = To({t}, "deleted") /\ UNCHANGED history

Next ==
  \/ \E S \in SUBSET Tasks : Create(S) \/ Interrupt(S)
  \/ \E t \in Tasks : Complete(t) \/ AskReview(t) \/ Approve(t) \/ Reject(t) \/ Reopen(t) \/ Delete(t)
  \/ \E t \in Tasks, S \in SUBSET Tasks : Begin(t, S)

Spec == Init /\ [][Next]_<<phase, history>>
=============================================================================
