------------------------------- MODULE Board -------------------------------
(***************************************************************************)
(* The durable Kanban board: src/src/state/board-store.ts over the tables  *)
(* of src/src/state/sqlite-kanban-repository.ts, and the worker of         *)
(* `/board run` in src/src/telegram/board-commands.ts.                     *)
(*                                                                         *)
(* Every mutation of the store runs inside enqueueWrite, one               *)
(* BEGIN IMMEDIATE ... COMMIT of SQLite, so one mutation is one action,    *)
(* also between processes (bridge, web console, recovery tools).  Between  *)
(* two mutations anything may happen: leases lapse, schedules come due,    *)
(* runs fall silent, the bridge restarts and forgets its workers.          *)
(*                                                                         *)
(* The board is "main".  A call that throws or changes nothing is not a    *)
(* step.  Clock values are abstracted to what the code asks of them:       *)
(* whether a schedule is due, a lease has lapsed, a run has been silent    *)
(* for longer than its timeout.  Titles, comments, attachments, events,    *)
(* revisions and idempotency keys are left out.                            *)
(***************************************************************************)
EXTENDS Naturals, FiniteSets

CONSTANTS
  Tasks,              \* task ids; an id is never used twice
  Agents, NoAgent,    \* assignees
  NoTask,             \* "task" of a run id not yet handed out
  Conversation,       \* conversation that created a task: [Tasks -> ...]
  CreateInputs,       \* inputs of createTask / createPlan that are tried
  PlanSizes,          \* how many tasks a plan may create
  Links,              \* (task, dependency) pairs linked and unlinked by hand
  Reviewed,           \* tasks whose review gate is switched by hand
  Scheduled,          \* tasks given a schedule by hand
  Archived,           \* tasks archived and restored
  Deleted,            \* tasks deleted
  MaxRuns,            \* bound: run ids handed out
  MaxLeases,          \* bound: lease tokens handed out
  MaxRetries,         \* execution.maxRetries / settings.defaultMaxRetries
  CircuitThreshold,   \* settings.circuitBreakerThreshold
  GlobalLimit, AssigneeLimit, ConversationLimit    \* WIP limits

VARIABLES
  status,        \* tasks.status; "absent" before creation, "deleted" after deletion
  archivedFrom,  \* archivedFromStatus
  schedule,      \* scheduledAt (and nextRetryAt, always equal to it when set)
  deps,          \* dependencies
  gated,         \* the tasks whose review.required is set
  assignee,
  retries,       \* retryCount, saturating at MaxRetries + 1
  runs,          \* run id -> task, status, lease it was started under
  nextRun,       \* nextRunId
  quiet,         \* tasks whose active run has been silent beyond its timeout
  workers,       \* runs whose engine turn is still executing in this process
  claims,        \* claims.lease_token per task, NoLease when there is no row
  lapsed,        \* tasks whose claim row is past expires_at
  nextLease,     \* next lease token
  failures,      \* consecutiveInfrastructureFailures, saturating
  circuitOpen    \* circuitOpenUntil lies in the future

taskVars  == <<status, archivedFrom, schedule, deps, gated, assignee, retries>>
runVars   == <<runs, nextRun, quiet, workers>>
claimVars == <<claims, lapsed, nextLease>>
boardVars == <<failures, circuitOpen>>
vars      == <<taskVars, runVars, claimVars, boardVars>>

Status       == {"triage", "todo", "scheduled", "ready", "running", "review",
                 "blocked", "done", "archived"}
Gone         == {"absent", "deleted"}
ScheduleVal  == {"none", "future", "due"}
ClosedStatus == {"done", "review_requested", "failed", "blocked", "cancelled", "timed_out"}
RunIds       == 1..MaxRuns
Leases       == 1..MaxLeases
NoLease      == 0
Unused       == [task |-> NoTask, status |-> "unused", lease |-> NoLease]
NewTask      == [status : {"triage", "todo", "scheduled"}, schedule : ScheduleVal, gated : BOOLEAN]

ASSUME BoundsAssumption ==
  /\ MaxRuns \in Nat /\ MaxLeases \in Nat /\ MaxRetries \in Nat
  /\ CircuitThreshold \in Nat \ {0}
  /\ GlobalLimit \in Nat /\ AssigneeLimit \in Nat /\ ConversationLimit \in Nat
ASSUME TaskAssumption == IsFiniteSet(Tasks) /\ NoTask \notin Tasks /\ NoAgent \notin Agents
ASSUME InputAssumption ==
  /\ CreateInputs \subseteq NewTask
  /\ \A input \in CreateInputs : input.status = "scheduled" => input.schedule # "none"
  /\ Links \subseteq Tasks \X Tasks
  /\ Reviewed \subseteq Tasks /\ Scheduled \subseteq Tasks
  /\ Archived \subseteq Tasks /\ Deleted \subseteq Tasks

-----------------------------------------------------------------------------
(* Reading the state *)

Exists(t) == status[t] \notin Gone

DepsDone(t) == \A d \in deps[t] : status[d] = "done"

Due(t) == schedule[t] # "future"

\* The running runs of a task, and the one `[...runs].reverse().find(running)` yields.
Active(t) == {r \in RunIds : runs[r].task = t /\ runs[r].status = "running"}
ActiveRun(t) == CHOOSE r \in Active(t) : \A q \in Active(t) : q <= r

\* u can be reached from t along dependencies: u lies in every set of tasks
\* that contains t and is closed under them.
Reaches(t, u) ==
  \A C \in SUBSET Tasks : (t \in C /\ \A x \in C : deps[x] \subseteq C) => u \in C

Acyclic(edges) ==
  \A S \in SUBSET Tasks : S # {} => \E t \in S : edges[t] \cap S = {}

\* Mutant of WipOk: each limit may be exceeded by one.
WipOkByOneMore(st, t) ==
  LET running == {u \in Tasks : st[u] = "running"}
  IN  /\ Cardinality(running) <= GlobalLimit
      /\ Cardinality({u \in running : Conversation[u] = Conversation[t]}) <= ConversationLimit

\* enforceWipLimits against the statuses st.
WipOk(st, t) ==
  LET running == {u \in Tasks : st[u] = "running"}
  IN  /\ Cardinality(running) < GlobalLimit
      /\ assignee[t] # NoAgent =>
           Cardinality({u \in running : assignee[u] = assignee[t]}) < AssigneeLimit
      /\ Cardinality({u \in running : Conversation[u] = Conversation[t]}) < ConversationLimit

-----------------------------------------------------------------------------
(* What a mutation does to the tables *)

\* The runs table once the active run of every task of S has been closed.
Closed(S, outcome) ==
  [r \in RunIds |-> IF \E t \in S : Active(t) # {} /\ r = ActiveRun(t)
                    THEN [runs[r] EXCEPT !.status = outcome] ELSE runs[r]]

\* DELETE FROM claims for the tasks of S.
DropClaims(S) ==
  /\ claims' = [t \in Tasks |-> IF t \in S THEN NoLease ELSE claims[t]]
  /\ lapsed' = lapsed \ S
  /\ UNCHANGED nextLease

SetStatus(S, to) == [t \in Tasks |-> IF t \in S THEN to ELSE status[t]]

\* promoteDependents: the statuses after `done` has been set to done in st.
PromoteDependents(st, done) ==
  [t \in Tasks |-> IF /\ st[t] = "todo" /\ done \in deps[t] /\ Due(t)
                      /\ \A d \in deps[t] : st[d] = "done"
                   THEN "ready" ELSE st[t]]

\* recoverExpiredClaimRows: what becomes of the statuses st and of the runs.
StatusAfterRecovery(st, S) ==
  [t \in Tasks |-> IF t \in S /\ (Active(t) # {} \/ st[t] = "running")
                   THEN "blocked" ELSE st[t]]
RunsAfterRecovery(S) == Closed(S, "timed_out")

\* A new run row for t in the table rs.
RunStarted(rs, t, lease) ==
  /\ nextRun \in RunIds
  /\ runs' = [rs EXCEPT ![nextRun] = [task |-> t, status |-> "running", lease |-> lease]]
  /\ nextRun' = nextRun + 1
  /\ UNCHANGED quiet

\* A run closed for another reason than completion: the task is blocked, the claim deleted.
Interrupt(S, outcome) ==
  /\ status' = SetStatus(S, "blocked")
  /\ runs' = Closed(S, outcome)
  /\ quiet' = quiet \ S
  /\ DropClaims(S)
  /\ UNCHANGED <<archivedFrom, schedule, deps, gated, assignee, retries, nextRun>>

\* Mutant of Finish: the review gate is forgotten.
FinishIgnoringGate(t) ==
  /\ status[t] = "running" /\ Active(t) # {}
  /\ runs' = Closed({t}, "done")
  /\ status' = PromoteDependents([status EXCEPT ![t] = "done"], t)
  /\ quiet' = quiet \ {t}
  /\ DropClaims({t})
  /\ UNCHANGED <<archivedFrom, schedule, deps, gated, assignee, nextRun>>

\* A run closed by completion: review or done, depending on the gate.
Finish(t) ==
  /\ status[t] = "running" /\ Active(t) # {}
  /\ runs' = Closed({t}, IF t \in gated THEN "review_requested" ELSE "done")
  /\ status' = IF t \in gated THEN [status EXCEPT ![t] = "review"]
               ELSE PromoteDependents([status EXCEPT ![t] = "done"], t)
  /\ quiet' = quiet \ {t}
  /\ DropClaims({t})
  /\ UNCHANGED <<archivedFrom, schedule, deps, gated, assignee, nextRun>>

-----------------------------------------------------------------------------
(* Creating and shaping tasks *)

\* createPlan, and createTask as the plan of one task without dependencies.
CreatePlan(new, edges, input) ==
  /\ new # {} /\ \A t \in new : status[t] = "absent"
  /\ Acyclic([t \in Tasks |-> IF t \in new THEN edges[t] ELSE {}])
  /\ status' = [t \in Tasks |-> IF t \in new THEN input[t].status ELSE status[t]]
  /\ schedule' = [t \in Tasks |-> IF t \in new THEN input[t].schedule ELSE schedule[t]]
  /\ deps' = [t \in Tasks |-> IF t \in new THEN edges[t] ELSE deps[t]]
  /\ gated' = gated \cup {t \in new : input[t].gated}
  /\ UNCHANGED <<archivedFrom, assignee, retries, runVars, claimVars, boardVars>>

AcceptTriage(t) ==
  /\ status[t] = "triage"
  /\ status' = [status EXCEPT ![t] = "todo"]
  /\ UNCHANGED <<archivedFrom, schedule, deps, gated, assignee, retries,
                 runVars, claimVars, boardVars>>

Reassign(t, a) ==
  /\ Exists(t) /\ status[t] # "archived" /\ claims[t] = NoLease
  /\ assignee' = [assignee EXCEPT ![t] = a]
  /\ UNCHANGED <<status, archivedFrom, schedule, deps, gated, retries,
                 runVars, claimVars, boardVars>>

\* setReviewGate, and the review field of editTask.
SetReviewGate(t, required) ==
  /\ Exists(t)
  /\ gated' = IF required THEN gated \cup {t} ELSE gated \ {t}
  /\ UNCHANGED <<status, archivedFrom, schedule, deps, assignee, retries,
                 runVars, claimVars, boardVars>>

\* Mutant of LinkDependency: only the direct reverse edge is looked for.
LinkUnlessReversed(t, d) ==
  /\ Exists(t) /\ Exists(d) /\ t # d
  /\ status[t] # "archived"
  /\ t \notin deps[d]
  /\ deps' = [deps EXCEPT ![t] = @ \cup {d}]
  /\ status' = IF status[t] = "ready" /\ status[d] # "done"
               THEN [status EXCEPT ![t] = "todo"] ELSE status
  /\ UNCHANGED <<archivedFrom, schedule, gated, assignee, retries,
                 runVars, claimVars, boardVars>>

\* Mutant of LinkDependency: a ready task stays ready.
LinkWithoutDemotion(t, d) ==
  /\ Exists(t) /\ Exists(d) /\ t # d
  /\ status[t] # "archived"
  /\ ~Reaches(d, t)
  /\ deps' = [deps EXCEPT ![t] = @ \cup {d}]
  /\ UNCHANGED <<status, archivedFrom, schedule, gated, assignee, retries,
                 runVars, claimVars, boardVars>>

LinkDependency(t, d) ==
  /\ Exists(t) /\ Exists(d) /\ t # d
  /\ status[t] # "archived"
  /\ ~Reaches(d, t)
  /\ deps' = [deps EXCEPT ![t] = @ \cup {d}]
  /\ status' = IF status[t] = "ready" /\ \E u \in deps[t] \cup {d} : status[u] # "done"
               THEN [status EXCEPT ![t] = "todo"] ELSE status
  /\ UNCHANGED <<archivedFrom, schedule, gated, assignee, retries,
                 runVars, claimVars, boardVars>>

RemoveDependency(t, d) ==
  /\ Exists(t) /\ d \in deps[t]
  /\ deps' = [deps EXCEPT ![t] = @ \ {d}]
  /\ status' = IF /\ status[t] = "todo" /\ Due(t)
                  /\ \A u \in deps[t] \ {d} : status[u] = "done"
               THEN [status EXCEPT ![t] = "ready"] ELSE status
  /\ UNCHANGED <<archivedFrom, schedule, gated, assignee, retries,
                 runVars, claimVars, boardVars>>

DeleteTask(t) ==
  /\ Exists(t) /\ Active(t) = {} /\ claims[t] = NoLease
  /\ status' = [status EXCEPT ![t] = "deleted"]
  /\ archivedFrom' = [archivedFrom EXCEPT ![t] = "none"]
  /\ schedule' = [schedule EXCEPT ![t] = "none"]
  /\ deps' = [u \in Tasks |-> IF u = t THEN {} ELSE deps[u] \ {t}]
  /\ gated' = gated \ {t}
  /\ assignee' = [assignee EXCEPT ![t] = NoAgent]
  /\ retries' = [retries EXCEPT ![t] = 0]
  /\ UNCHANGED <<runVars, claimVars, boardVars>>

ScheduleTask(t, when) ==
  /\ Exists(t) /\ status[t] \notin {"running", "review", "done", "archived"}
  /\ status' = [status EXCEPT ![t] = "scheduled"]
  /\ schedule' = [schedule EXCEPT ![t] = when]
  /\ UNCHANGED <<archivedFrom, deps, gated, assignee, retries,
                 runVars, claimVars, boardVars>>

ArchiveTask(t) ==
  /\ Exists(t) /\ status[t] # "archived"
  /\ archivedFrom' = [archivedFrom EXCEPT ![t] = status[t]]
  /\ status' = [status EXCEPT ![t] = "archived"]
  /\ runs' = Closed({t}, "cancelled")
  /\ quiet' = quiet \ {t}
  /\ DropClaims({t})
  /\ UNCHANGED <<schedule, deps, gated, assignee, retries, nextRun, workers, boardVars>>

RestoreTask(t) ==
  /\ status[t] = "archived"
  /\ LET previous == IF archivedFrom[t] = "none" THEN "todo" ELSE archivedFrom[t]
     IN  status' = [status EXCEPT ![t] =
           CASE previous = "running"                             -> "blocked"
             [] previous = "scheduled" /\ Due(t) /\ DepsDone(t)  -> "ready"
             [] previous = "ready" /\ ~DepsDone(t)               -> "todo"
             [] OTHER                                            -> previous]
  /\ archivedFrom' = [archivedFrom EXCEPT ![t] = "none"]
  /\ UNCHANGED <<schedule, deps, gated, assignee, retries, runVars, claimVars, boardVars>>

-----------------------------------------------------------------------------
(* Becoming ready *)

MarkReady(t) ==
  /\ status[t] = "todo" /\ DepsDone(t)
  /\ status' = [status EXCEPT ![t] = "ready"]
  /\ UNCHANGED <<archivedFrom, schedule, deps, gated, assignee, retries,
                 runVars, claimVars, boardVars>>

\* promoteDueTasks promotes every member of this set, promoteScheduledTask one.
DueTasks == {t \in Tasks : status[t] = "scheduled" /\ Due(t) /\ DepsDone(t)}

Promote(S) ==
  /\ S # {} /\ S \subseteq DueTasks
  /\ status' = SetStatus(S, "ready")
  /\ UNCHANGED <<archivedFrom, schedule, deps, gated, assignee, retries,
                 runVars, claimVars, boardVars>>

PromoteScheduledTask(t) == Promote({t})
PromoteDueTasks == Promote(DueTasks)

UnblockTask(t) ==
  /\ status[t] = "blocked"
  /\ status' = [status EXCEPT ![t] = IF DepsDone(t) THEN "ready" ELSE "todo"]
  /\ UNCHANGED <<archivedFrom, schedule, deps, gated, assignee, retries,
                 runVars, claimVars, boardVars>>

-----------------------------------------------------------------------------
(* Claims *)

\* An expired claim of the task is recovered before the new one is inserted.
ClaimTask(t) ==
  /\ status[t] = "ready" /\ (claims[t] = NoLease \/ t \in lapsed)
  /\ nextLease \in Leases
  /\ LET S == {t} \cap lapsed
     IN  /\ status' = StatusAfterRecovery(status, S)
         /\ runs' = RunsAfterRecovery(S)
         /\ quiet' = quiet \ S
  /\ claims' = [claims EXCEPT ![t] = nextLease]
  /\ lapsed' = lapsed \ {t}
  /\ nextLease' = nextLease + 1
  /\ UNCHANGED <<archivedFrom, schedule, deps, gated, assignee, retries,
                 nextRun, workers, boardVars>>

HeartbeatClaim(t, lease) ==
  /\ claims[t] = lease /\ t \notin lapsed
  /\ quiet' = quiet \ {t}
  /\ UNCHANGED <<taskVars, runs, nextRun, workers, claimVars, boardVars>>

ReleaseClaim(t, lease) ==
  /\ claims[t] = lease /\ Active(t) = {}
  /\ DropClaims({t})
  /\ UNCHANGED <<taskVars, runVars, boardVars>>

StartClaimedTask(t, lease) ==
  /\ claims[t] = lease /\ t \notin lapsed
  /\ status[t] = "ready" /\ DepsDone(t) /\ WipOk(status, t)
  /\ RunStarted(runs, t, lease)
  /\ status' = [status EXCEPT ![t] = "running"]
  /\ UNCHANGED <<archivedFrom, schedule, deps, gated, assignee, retries,
                 workers, claimVars, boardVars>>

CompleteClaimedTask(t, lease) ==
  /\ claims[t] = lease
  /\ Finish(t)
  /\ retries' = [retries EXCEPT ![t] = 0]
  /\ failures' = 0 /\ circuitOpen' = FALSE
  /\ UNCHANGED workers

RecordDispatchFailure(t, lease, infrastructure) ==
  /\ claims[t] = lease /\ Active(t) # {}
  /\ runs' = Closed({t}, "failed")
  /\ quiet' = quiet \ {t}
  /\ DropClaims({t})
  /\ IF retries[t] < MaxRetries
     THEN /\ status' = [status EXCEPT ![t] = "scheduled"]
          /\ schedule' = [schedule EXCEPT ![t] = "future"]
     ELSE /\ status' = [status EXCEPT ![t] = "blocked"]
          /\ UNCHANGED schedule
  /\ retries' = [retries EXCEPT ![t] = IF @ <= MaxRetries THEN @ + 1 ELSE @]
  /\ IF infrastructure
     THEN LET count == IF failures < CircuitThreshold THEN failures + 1 ELSE failures
          IN  /\ failures' = count
              /\ circuitOpen' = (circuitOpen \/ count >= CircuitThreshold)
     ELSE UNCHANGED boardVars
  /\ UNCHANGED <<archivedFrom, deps, gated, assignee, nextRun, workers>>

-----------------------------------------------------------------------------
(* dispatchNext *)

\* The statuses after due tasks have been promoted and expired claims recovered.
StatusBeforeSelection == StatusAfterRecovery(SetStatus(DueTasks, "ready"), lapsed)

\* The tasks dispatchNext may select.  editTask sets a priority at any time and
\* the order it gives the candidates is abstracted: any may come first.
Selectable ==
  {t \in Tasks : /\ StatusBeforeSelection[t] = "ready"
                 /\ claims[t] = NoLease \/ t \in lapsed
                 /\ WipOk(StatusBeforeSelection, t)}

\* A dispatch that starts nothing still promotes and recovers.
DispatchNothing ==
  /\ circuitOpen \/ Selectable = {}
  /\ DueTasks # {} \/ lapsed # {}
  /\ status' = StatusBeforeSelection
  /\ runs' = RunsAfterRecovery(lapsed)
  /\ quiet' = quiet \ lapsed
  /\ DropClaims(lapsed)
  /\ UNCHANGED <<archivedFrom, schedule, deps, gated, assignee, retries,
                 nextRun, workers, boardVars>>

\* The dependencies of the selected task are not looked at again.
DispatchTask(t) ==
  /\ ~circuitOpen /\ t \in Selectable
  /\ nextRun \in RunIds /\ nextLease \in Leases
  /\ status' = [StatusBeforeSelection EXCEPT ![t] = "running"]
  /\ runs' = [RunsAfterRecovery(lapsed) EXCEPT ![nextRun] =
                [task |-> t, status |-> "running", lease |-> nextLease]]
  /\ nextRun' = nextRun + 1
  /\ quiet' = quiet \ lapsed
  /\ claims' = [u \in Tasks |-> IF u = t THEN nextLease
                                ELSE IF u \in lapsed THEN NoLease ELSE claims[u]]
  /\ lapsed' = {}
  /\ nextLease' = nextLease + 1
  /\ UNCHANGED <<archivedFrom, schedule, deps, gated, assignee, retries, workers, boardVars>>

-----------------------------------------------------------------------------
(* Running without a claim *)

\* startTask from todo or ready, startReadyTask from ready only.
Start(t, from) ==
  /\ status[t] \in from /\ Active(t) = {} /\ claims[t] = NoLease
  /\ WipOk(status, t) /\ DepsDone(t)
  /\ RunStarted(runs, t, NoLease)
  /\ status' = [status EXCEPT ![t] = "running"]
  /\ UNCHANGED <<archivedFrom, schedule, deps, gated, assignee, retries, claimVars, boardVars>>

StartTask(t) == Start(t, {"todo", "ready"}) /\ UNCHANGED workers

\* runBoardTask: the worker starts the task, then an engine turn executes the run.
\* The assignee it checked was read in an earlier transaction, so it is no guard.
RunBoardTask(t) == Start(t, {"ready"}) /\ workers' = workers \cup {nextRun}

\* Mutant of WorkerCompletes: whatever run is active is completed.
WorkerCompletesAnyRun(r) ==
  LET t == runs[r].task
  IN  /\ r \in workers
      /\ workers' = workers \ {r}
      /\ IF Active(t) # {} /\ status[t] = "running"
         THEN Finish(t) /\ UNCHANGED <<retries, boardVars>>
         ELSE UNCHANGED <<taskVars, runs, nextRun, quiet, claimVars, boardVars>>

\* completeRunningRun with the worker's run id: null, and no change, when that
\* run is not the active one; runBoardTask then calls failRunningRun: null again.
WorkerCompletes(r) ==
  LET t == runs[r].task
  IN  /\ r \in workers
      /\ workers' = workers \ {r}
      /\ IF Active(t) # {} /\ r = ActiveRun(t) /\ status[t] = "running"
         THEN Finish(t) /\ UNCHANGED <<retries, boardVars>>
         ELSE UNCHANGED <<taskVars, runs, nextRun, quiet, claimVars, boardVars>>

\* Mutant of WorkerFails: the worker's run is marked failed without asking whether it is active.
WorkerFailsClosedRun(r) ==
  LET t == runs[r].task
  IN  /\ r \in workers
      /\ workers' = workers \ {r}
      /\ IF Active(t) # {} /\ r = ActiveRun(t)
         THEN Interrupt({t}, "failed") /\ UNCHANGED boardVars
         ELSE /\ runs' = [runs EXCEPT ![r].status = "failed"]
              /\ UNCHANGED <<taskVars, nextRun, quiet, claimVars, boardVars>>

\* failRunningRun with the worker's run id.
WorkerFails(r) ==
  LET t == runs[r].task
  IN  /\ r \in workers
      /\ workers' = workers \ {r}
      /\ IF Active(t) # {} /\ r = ActiveRun(t)
         THEN Interrupt({t}, "failed") /\ UNCHANGED boardVars
         ELSE UNCHANGED <<taskVars, runs, nextRun, quiet, claimVars, boardVars>>

HeartbeatTask(t) ==
  /\ Active(t) # {}
  /\ quiet' = quiet \ {t}
  /\ UNCHANGED <<taskVars, runs, nextRun, workers, claimVars, boardVars>>

CompleteTask(t) == Finish(t) /\ UNCHANGED <<retries, workers, boardVars>>

FailTask(t) ==
  /\ Active(t) # {}
  /\ Interrupt({t}, "failed") /\ UNCHANGED <<workers, boardVars>>

\* cancelTask and timeoutTask: closeActiveRun.
CloseActiveRun(t, outcome) ==
  /\ outcome \in {"cancelled", "timed_out"} /\ Active(t) # {}
  /\ Interrupt({t}, outcome) /\ UNCHANGED <<workers, boardVars>>

\* Mutant of BlockTask: the active run is left open.
BlockLeavingRun(t) ==
  /\ Exists(t) /\ status[t] \notin {"done", "archived", "review"}
  /\ status' = [status EXCEPT ![t] = "blocked"]
  /\ DropClaims({t})
  /\ UNCHANGED <<archivedFrom, schedule, deps, gated, assignee, retries, runVars, boardVars>>

BlockTask(t) ==
  /\ Exists(t) /\ status[t] \notin {"done", "archived", "review"}
  /\ Interrupt({t}, "failed") /\ UNCHANGED <<workers, boardVars>>

-----------------------------------------------------------------------------
(* Review *)

RequestReview(t) ==
  /\ t \in gated /\ status[t] = "running" /\ Active(t) # {}
  /\ runs' = Closed({t}, "review_requested")
  /\ status' = [status EXCEPT ![t] = "review"]
  /\ quiet' = quiet \ {t}
  /\ DropClaims({t})
  /\ UNCHANGED <<archivedFrom, schedule, deps, gated, assignee, retries,
                 nextRun, workers, boardVars>>

ApproveReview(t) ==
  /\ status[t] = "review"
  /\ status' = PromoteDependents([status EXCEPT ![t] = "done"], t)
  /\ UNCHANGED <<archivedFrom, schedule, deps, gated, assignee, retries,
                 runVars, claimVars, boardVars>>

RequestChanges(t) ==
  /\ status[t] = "review"
  /\ status' = [status EXCEPT ![t] = "blocked"]
  /\ UNCHANGED <<archivedFrom, schedule, deps, gated, assignee, retries,
                 runVars, claimVars, boardVars>>

ReopenReview(t) ==
  /\ status[t] = "blocked"
  /\ \E r \in RunIds : runs[r].task = t /\ runs[r].status = "review_requested"
  /\ status' = [status EXCEPT ![t] = "review"]
  /\ UNCHANGED <<archivedFrom, schedule, deps, gated, assignee, retries,
                 runVars, claimVars, boardVars>>

-----------------------------------------------------------------------------
(* Recovery *)

RecoverExpiredClaims ==
  /\ lapsed # {}
  /\ status' = StatusAfterRecovery(status, lapsed)
  /\ runs' = RunsAfterRecovery(lapsed)
  /\ quiet' = quiet \ lapsed
  /\ DropClaims(lapsed)
  /\ UNCHANGED <<archivedFrom, schedule, deps, gated, assignee, retries,
                 nextRun, workers, boardVars>>

\* recoverTimedOutRuns (per-task timeout) closes as timed_out, recoverStaleRuns
\* (one threshold) as failed; S are the silent runs over the threshold in force.
RecoverSilentRuns(S, outcome) ==
  /\ S # {} /\ S \subseteq quiet /\ outcome \in {"timed_out", "failed"}
  /\ Interrupt(S, outcome) /\ UNCHANGED <<workers, boardVars>>

\* repair(confirm): expired claims first, then runs and statuses that disagree.
Repair ==
  LET S == {t \in lapsed : Active(t) # {}}
      st == SetStatus(S, "blocked")
      rs == Closed(S, "timed_out")
      Left(t) == {r \in RunIds : rs[r].task = t /\ rs[r].status = "running"}
  IN  /\ status' = [t \in Tasks |-> IF st[t] = "running" /\ Left(t) = {}
                                    THEN "blocked" ELSE st[t]]
      /\ runs' = [r \in RunIds |->
                    IF rs[r].status = "running" /\ st[rs[r].task] # "running"
                    THEN [rs[r] EXCEPT !.status = "blocked"] ELSE rs[r]]
      /\ quiet' = quiet \ S
      /\ DropClaims(lapsed)
      /\ UNCHANGED <<archivedFrom, schedule, deps, gated, assignee, retries,
                     nextRun, workers, boardVars>>

-----------------------------------------------------------------------------
(* The environment: the clock, and the bridge process *)

LeaseLapses(t) ==
  /\ claims[t] # NoLease /\ t \notin lapsed
  /\ lapsed' = lapsed \cup {t}
  /\ UNCHANGED <<taskVars, runVars, claims, nextLease, boardVars>>

ScheduleComesDue(t) ==
  /\ schedule[t] = "future"
  /\ schedule' = [schedule EXCEPT ![t] = "due"]
  /\ UNCHANGED <<status, archivedFrom, deps, gated, assignee, retries,
                 runVars, claimVars, boardVars>>

RunFallsSilent(t) ==
  /\ Active(t) # {} /\ t \notin quiet
  /\ quiet' = quiet \cup {t}
  /\ UNCHANGED <<taskVars, runs, nextRun, workers, claimVars, boardVars>>

CircuitCoolsDown ==
  /\ circuitOpen
  /\ circuitOpen' = FALSE
  /\ UNCHANGED <<taskVars, runVars, claimVars, failures>>

\* The workers are promises of the process: a restart loses them, the tables stay.
BridgeRestarts ==
  /\ workers # {}
  /\ workers' = {}
  /\ UNCHANGED <<taskVars, runs, nextRun, quiet, claimVars, boardVars>>

-----------------------------------------------------------------------------
Init ==
  /\ status = [t \in Tasks |-> "absent"]
  /\ archivedFrom = [t \in Tasks |-> "none"]
  /\ schedule = [t \in Tasks |-> "none"]
  /\ deps = [t \in Tasks |-> {}]
  /\ gated = {}
  /\ assignee = [t \in Tasks |-> NoAgent]
  /\ retries = [t \in Tasks |-> 0]
  /\ runs = [r \in RunIds |-> Unused]
  /\ nextRun = 1
  /\ quiet = {}
  /\ workers = {}
  /\ claims = [t \in Tasks |-> NoLease]
  /\ lapsed = {}
  /\ nextLease = 1
  /\ failures = 0
  /\ circuitOpen = FALSE

Plan ==
  \E new \in SUBSET {t \in Tasks : status[t] = "absent"} :
    /\ Cardinality(new) \in PlanSizes
    /\ \E edges \in [new -> SUBSET new], input \in [new -> CreateInputs] :
         CreatePlan(new, edges, input)

Shape ==
  \/ \E t \in Tasks : AcceptTriage(t) \/ \E a \in Agents \cup {NoAgent} : Reassign(t, a)
  \/ \E t \in Reviewed, required \in BOOLEAN : SetReviewGate(t, required)
  \/ \E link \in Links :
       LinkDependency(link[1], link[2]) \/ RemoveDependency(link[1], link[2])
  \/ \E t \in Deleted : DeleteTask(t)
  \/ \E t \in Scheduled, when \in {"future", "due"} : ScheduleTask(t, when)
  \/ \E t \in Archived : ArchiveTask(t) \/ RestoreTask(t)

BecomeReady ==
  \/ \E t \in Tasks : MarkReady(t) \/ PromoteScheduledTask(t) \/ UnblockTask(t)
  \/ PromoteDueTasks

Claim ==
  \E t \in Tasks :
    \/ ClaimTask(t)
    \/ \E lease \in Leases :
         \/ HeartbeatClaim(t, lease)
         \/ ReleaseClaim(t, lease)
         \/ StartClaimedTask(t, lease)
         \/ CompleteClaimedTask(t, lease)
         \/ \E infrastructure \in BOOLEAN : RecordDispatchFailure(t, lease, infrastructure)

Dispatch == DispatchNothing \/ \E t \in Tasks : DispatchTask(t)

Run ==
  \/ \E t \in Tasks :
       \/ StartTask(t) \/ RunBoardTask(t) \/ HeartbeatTask(t)
       \/ CompleteTask(t) \/ FailTask(t) \/ BlockTask(t)
       \/ \E outcome \in {"cancelled", "timed_out"} : CloseActiveRun(t, outcome)
  \/ \E r \in RunIds : WorkerCompletes(r) \/ WorkerFails(r)

Review ==
  \E t \in Tasks : RequestReview(t) \/ ApproveReview(t) \/ RequestChanges(t) \/ ReopenReview(t)

Recovery ==
  \/ RecoverExpiredClaims
  \/ Repair
  \/ \E S \in SUBSET Tasks, outcome \in {"timed_out", "failed"} : RecoverSilentRuns(S, outcome)

Environment ==
  \/ \E t \in Tasks : LeaseLapses(t) \/ ScheduleComesDue(t) \/ RunFallsSilent(t)
  \/ CircuitCoolsDown
  \/ BridgeRestarts

Next == Plan \/ Shape \/ BecomeReady \/ Claim \/ Dispatch \/ Run \/ Review \/ Recovery \/ Environment

Spec == Init /\ [][Next]_vars

-----------------------------------------------------------------------------
(* Invariants *)

\* Types, and the bookkeeping of run ids: an id not yet handed out is unused.
TypeOK ==
  /\ status \in [Tasks -> Status \cup Gone]
  /\ archivedFrom \in [Tasks -> (Status \ {"archived"}) \cup {"none"}]
  /\ schedule \in [Tasks -> ScheduleVal]
  /\ deps \in [Tasks -> SUBSET Tasks]
  /\ gated \subseteq Tasks
  /\ assignee \in [Tasks -> Agents \cup {NoAgent}]
  /\ retries \in [Tasks -> 0..(MaxRetries + 1)]
  /\ runs \in [RunIds -> [task : Tasks, status : ClosedStatus \cup {"running"},
                          lease : Leases \cup {NoLease}] \cup {Unused}]
  /\ nextRun \in 1..(MaxRuns + 1)
  /\ \A r \in RunIds : runs[r] = Unused <=> r >= nextRun
  /\ quiet \subseteq Tasks
  /\ workers \subseteq RunIds
  /\ claims \in [Tasks -> Leases \cup {NoLease}]
  /\ lapsed \subseteq Tasks
  /\ nextLease \in 1..(MaxLeases + 1)
  /\ failures \in 0..CircuitThreshold
  /\ circuitOpen \in BOOLEAN

\* A task is running exactly while one run of its history is: "at most one
\* running run per task", and every mutation that takes a task out of running
\* closes the run in the same transaction (one_active_run_per_task).
RunningIffActiveRun ==
  \A t \in Tasks : IF status[t] = "running" THEN \E r \in RunIds : Active(t) = {r}
                                            ELSE Active(t) = {}

\* A claim on a running task is the claim its active run was started under:
\* no mutation leaves a lease behind that a later run could be closed with.
RunBelongsToClaim ==
  \A t \in Tasks : status[t] = "running" =>
    \A r \in Active(t) : claims[t] = runs[r].lease

\* Claims sit only on tasks that can still be started, or that run: a blocked,
\* reviewed, done, archived or deleted task is never held by a lease.
ClaimOnlyOnLiveTask ==
  \A t \in Tasks : claims[t] # NoLease => status[t] \in {"todo", "scheduled", "ready", "running"}

\* A ready task has no unmet dependency; the one exception is a dependency that
\* was done and has been archived since.  dispatchNext relies on it: it does
\* not look at the dependencies of the task it starts.
WasDone(t) == status[t] = "done" \/ (status[t] = "archived" /\ archivedFrom[t] = "done")
ReadyDepsWereDone ==
  \A t \in Tasks : status[t] = "ready" => \A d \in deps[t] : WasDone(d)

\* No cycle of dependencies, however plans, links, removals and deletions
\* follow each other (wouldCreateDependencyCycle, findDependencyCycle).
DependenciesAcyclic == Acyclic(deps)

\* A dependency names a task that exists: deleteTask leaves no dangling id,
\* which would keep its dependents from ever becoming ready.
DependenciesExist == \A t \in Tasks : \A d \in deps[t] : Exists(d)

\* The global and the per-conversation WIP limit, across every way to start a run.
WipRespected ==
  LET running == {t \in Tasks : status[t] = "running"}
  IN  /\ Cardinality(running) <= GlobalLimit
      /\ \A t \in running :
           Cardinality({u \in running : Conversation[u] = Conversation[t]}) <= ConversationLimit

\* The design document's rule that a task is ready only once its schedule is due.
ReadyOnlyWhenDue == \A t \in Tasks : status[t] = "ready" => Due(t)

-----------------------------------------------------------------------------
(* Action properties *)

\* A task becomes done only by completion without a gate or by approval.
ReviewGateHolds ==
  [][\A t \in Tasks : ~WasDone(t) /\ WasDone(t)' =>
        \/ status[t] = "review"
        \/ status[t] = "running" /\ t \notin gated]_vars

\* A worker's late result touches no run but its own: after its run was closed
\* by someone else and the task was started again, the new run is left alone,
\* and so are every task and every claim.
LateResultTouchesOnlyItsRun ==
  [][\A r \in workers \ workers' :
       /\ \A q \in RunIds \ {r} : runs'[q] = runs[q]
       /\ runs[r].status # "running" => UNCHANGED <<taskVars, claimVars>>]_vars

-----------------------------------------------------------------------------
(* The abstract specification *)

\* The phase of a task, archived or not; one archived while it ran is open, as its run was
\* cancelled and restoring it makes it blocked.
PhaseOf(s) == IF s \in {"absent", "deleted", "running", "review", "done"} THEN s ELSE "open"
Phase(t) ==
  IF status[t] = "archived"
  THEN IF archivedFrom[t] = "running" THEN "open" ELSE PhaseOf(archivedFrom[t])
  ELSE PhaseOf(status[t])

Life == INSTANCE TaskLife WITH
  phase <- [t \in Tasks |-> Phase(t)],
  history <- [r \in RunIds |-> [task |-> runs[r].task, status |-> runs[r].status]],
  Interrupted <- {"failed", "cancelled", "timed_out"}

\* Behind all its operations the board only opens and closes runs and moves tasks between
\* phases as TaskLife says: however transactions, late results, recovery, archives and
\* deletion follow each other, a closed run is never rewritten and done is final.
IsTaskLife == Life!Spec
=============================================================================
