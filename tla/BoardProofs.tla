---------------------------- MODULE BoardProofs ----------------------------
(***************************************************************************)
(* Theorems about Board, for every set of tasks and every bound, in three  *)
(* parts: the agreement of the tasks, runs and claims tables; that Board   *)
(* implements TaskLife; the graph of dependencies, the review gate, the    *)
(* WIP limits and the late results of board workers.                       *)
(***************************************************************************)
EXTENDS Board, FiniteSetTheorems, TLAPS

-----------------------------------------------------------------------------
(***************************************************************************)
(* Part 1: the type invariant, and the agreement of the tables.            *)
(*                                                                         *)
(* The inductive invariant IndInv is TypeOK together with the pointwise    *)
(* form of "a task runs exactly while one of its runs does" (RunsMatch)    *)
(* and of "a claim is the lease of the active run" (ClaimsMatch).  No part *)
(* is inductive alone: closing "the" active run of a task closes all its   *)
(* active runs only because there is one, and a claim may be deleted with  *)
(* the run only because it belongs to it.                                  *)
(***************************************************************************)

RunType == [task : Tasks, status : ClosedStatus \cup {"running"}, lease : Leases \cup {NoLease}]

\* A run row that is active belongs to a running task; a task has at most one
\* active run row, and one if it is running.
RunsMatch ==
  /\ \A r \in RunIds : runs[r].status = "running" => status[runs[r].task] = "running"
  /\ \A r, q \in RunIds :
       runs[r].status = "running" /\ runs[q].status = "running" /\ runs[r].task = runs[q].task
         => r = q
  /\ \A t \in Tasks : status[t] = "running" =>
       \E r \in RunIds : runs[r].task = t /\ runs[r].status = "running"

\* The lease a run was started under is the claim of its task while it is active.
ClaimsMatch ==
  /\ ClaimOnlyOnLiveTask
  /\ \A r \in RunIds : runs[r].status = "running" => claims[runs[r].task] = runs[r].lease

IndInv == TypeOK /\ RunsMatch /\ ClaimsMatch

-----------------------------------------------------------------------------
(* What a started and a closed run do to the tables *)

\* The active run of a task, found by a search from the newest run, is the one
\* active run there is.
LEMMA ActiveRunIsActive ==
  ASSUME TypeOK, RunsMatch, NEW t \in Tasks, Active(t) # {}
  PROVE  Active(t) = {ActiveRun(t)}
<1>1. PICK r \in Active(t) : TRUE
  OBVIOUS
<1>2. r \in RunIds /\ runs[r].task = t /\ runs[r].status = "running"
  BY <1>1 DEF Active
<1>3. Active(t) = {r}
  BY <1>2 DEF Active, RunsMatch
<1>4. r <= r
  BY <1>2, BoundsAssumption DEF RunIds
<1>5. ActiveRun(t) = r
  BY <1>3, <1>4 DEF ActiveRun
<1> QED
  BY <1>3, <1>5

\* Closing "the" active run of each task of S closes every active run of S.
LEMMA ClosedPointwise ==
  ASSUME TypeOK, RunsMatch, NEW S \in SUBSET Tasks, NEW outcome, NEW r \in RunIds
  PROVE  Closed(S, outcome)[r] = IF runs[r].status = "running" /\ runs[r].task \in S
                                 THEN [runs[r] EXCEPT !.status = outcome] ELSE runs[r]
<1>1. (\E t \in S : Active(t) # {} /\ r = ActiveRun(t))
        <=> (runs[r].status = "running" /\ runs[r].task \in S)
  <2>1. ASSUME NEW t \in S, Active(t) # {}, r = ActiveRun(t)
        PROVE  runs[r].status = "running" /\ runs[r].task \in S
    BY <2>1, ActiveRunIsActive DEF Active
  <2>2. ASSUME runs[r].status = "running", runs[r].task \in S
        PROVE  \E t \in S : Active(t) # {} /\ r = ActiveRun(t)
    <3>1. r \in Active(runs[r].task)
      BY <2>2 DEF Active
    <3>2. Active(runs[r].task) = {ActiveRun(runs[r].task)}
      BY <2>2, <3>1, ActiveRunIsActive
    <3> QED
      BY <2>2, <3>1, <3>2
  <2> QED
    BY <2>1, <2>2
<1> QED
  BY <1>1 DEF Closed

\* The runs table after a closing: same rows, same ids handed out.
LEMMA ClosedFacts ==
  ASSUME TypeOK, RunsMatch, NEW S \in SUBSET Tasks, NEW outcome \in ClosedStatus
  PROVE  /\ Closed(S, outcome) \in [RunIds -> RunType \cup {Unused}]
         /\ \A r \in RunIds :
              /\ Closed(S, outcome)[r] = Unused <=> runs[r] = Unused
              /\ Closed(S, outcome)[r].task = runs[r].task
              /\ Closed(S, outcome)[r].lease = runs[r].lease
              /\ Closed(S, outcome)[r].status = "running"
                   <=> runs[r].status = "running" /\ runs[r].task \notin S
<1> DEFINE rs == Closed(S, outcome)
<1>1. ASSUME NEW r \in RunIds
      PROVE  /\ rs[r] \in RunType \cup {Unused}
             /\ rs[r] = Unused <=> runs[r] = Unused
             /\ rs[r].task = runs[r].task
             /\ rs[r].lease = runs[r].lease
             /\ rs[r].status = "running" <=> runs[r].status = "running" /\ runs[r].task \notin S
  <2>1. rs[r] = IF runs[r].status = "running" /\ runs[r].task \in S
                THEN [runs[r] EXCEPT !.status = outcome] ELSE runs[r]
    BY ClosedPointwise
  <2>2. runs[r] \in RunType \cup {Unused}
    BY DEF TypeOK, RunType
  <2>3. CASE runs[r].status = "running" /\ runs[r].task \in S
    <3>1. runs[r] \in RunType
      BY <2>2, <2>3 DEF Unused
    <3>2. rs[r] = [runs[r] EXCEPT !.status = outcome]
      BY <2>1, <2>3
    <3>3. rs[r].status = outcome /\ rs[r].task = runs[r].task /\ rs[r].lease = runs[r].lease
      BY <3>1, <3>2 DEF RunType
    <3>4. rs[r] \in RunType
      BY <3>1, <3>2 DEF RunType
    <3>5. outcome # "running" /\ outcome # "unused" /\ runs[r] # Unused /\ rs[r] # Unused
      BY <2>3, <3>3 DEF ClosedStatus, Unused
    <3> QED
      BY <2>3, <3>3, <3>4, <3>5
  <2>4. CASE ~(runs[r].status = "running" /\ runs[r].task \in S)
    BY <2>1, <2>2, <2>4
  <2> QED
    BY <2>3, <2>4
<1>2. rs = [r \in RunIds |-> rs[r]]
  BY DEF Closed
<1> HIDE DEF rs
<1>3. rs \in [RunIds -> RunType \cup {Unused}]
  BY <1>1, <1>2
<1> QED
  BY <1>1, <1>3 DEF rs

LiveStatus == {"todo", "scheduled", "ready", "running"}

\* A step that starts no run keeps tasks, runs and claims in agreement when the
\* tasks whose runs it closes leave running, the others stay as they were, and
\* claims change only where no run is left.
LEMMA ClosingStep ==
  ASSUME TypeOK, RunsMatch, ClaimsMatch,
         NEW S \in SUBSET Tasks,
         runs' \in [RunIds -> RunType \cup {Unused}],
         \A r \in RunIds :
           /\ runs'[r].task = runs[r].task
           /\ runs'[r].lease = runs[r].lease
           /\ runs'[r].status = "running" <=> runs[r].status = "running" /\ runs[r].task \notin S,
         \A t \in Tasks :
           status'[t] = "running" <=> status[t] = "running" /\ t \notin S,
         \A t \in Tasks : status[t] = "running" /\ t \notin S => claims'[t] = claims[t],
         \A t \in Tasks : claims'[t] # NoLease => status'[t] \in LiveStatus
  PROVE  RunsMatch' /\ ClaimsMatch'
<1>1. \A r \in RunIds : runs[r].status = "running" => runs[r].task \in Tasks
  BY DEF TypeOK, RunsMatch, Unused
<1>2. RunsMatch'
  BY <1>1 DEF RunsMatch
<1>3. ClaimOnlyOnLiveTask'
  BY DEF ClaimOnlyOnLiveTask, LiveStatus
<1>4. \A r \in RunIds : runs'[r].status = "running" => claims'[runs'[r].task] = runs'[r].lease
  BY <1>1 DEF ClaimsMatch, RunsMatch
<1> QED
  BY <1>2, <1>3, <1>4 DEF ClaimsMatch

\* A step that starts a run for t, after closing those of the tasks in S, keeps
\* the agreement when t was not running and its claim is the lease of the run.
LEMMA StartingStep ==
  ASSUME TypeOK, RunsMatch, ClaimsMatch,
         NEW S \in SUBSET Tasks, NEW t \in Tasks, NEW n \in RunIds,
         status[t] # "running", status'[t] = "running",
         runs'[n].task = t, runs'[n].status = "running", runs'[n].lease = claims'[t],
         \A r \in RunIds \ {n} :
           /\ runs'[r].task = runs[r].task
           /\ runs'[r].lease = runs[r].lease
           /\ runs'[r].status = "running" <=> runs[r].status = "running" /\ runs[r].task \notin S,
         runs[n] = Unused,
         \A u \in Tasks \ {t} :
           status'[u] = "running" <=> status[u] = "running" /\ u \notin S,
         \A u \in Tasks : status[u] = "running" /\ u \notin S => claims'[u] = claims[u],
         \A u \in Tasks : claims'[u] # NoLease => status'[u] \in LiveStatus
  PROVE  RunsMatch' /\ ClaimsMatch'
<1>1. \A r \in RunIds : runs[r].status = "running" => runs[r].task \in Tasks
  BY DEF TypeOK, RunsMatch, Unused
<1>2. \A r \in RunIds : runs[r].status = "running" => runs[r].task # t
  BY DEF RunsMatch
<1>3. runs[n].status # "running"
  BY DEF Unused
<1>4. \A r \in RunIds : runs'[r].status = "running" => status'[runs'[r].task] = "running"
  BY <1>1, <1>2, <1>3 DEF RunsMatch
<1>5. \A r, q \in RunIds :
        runs'[r].status = "running" /\ runs'[q].status = "running" /\ runs'[r].task = runs'[q].task
          => r = q
  BY <1>1, <1>2, <1>3 DEF RunsMatch
<1>6. \A u \in Tasks : status'[u] = "running" =>
        \E r \in RunIds : runs'[r].task = u /\ runs'[r].status = "running"
  <2>1. SUFFICES ASSUME NEW u \in Tasks, status'[u] = "running", u # t
                 PROVE  \E r \in RunIds : runs'[r].task = u /\ runs'[r].status = "running"
    OBVIOUS
  <2>2. PICK r \in RunIds : runs[r].task = u /\ runs[r].status = "running"
    BY <2>1 DEF RunsMatch
  <2>3. r # n
    BY <1>3, <2>2
  <2> QED
    BY <2>1, <2>2, <2>3
<1>7. ClaimOnlyOnLiveTask'
  BY DEF ClaimOnlyOnLiveTask, LiveStatus
<1>8. \A r \in RunIds : runs'[r].status = "running" => claims'[runs'[r].task] = runs'[r].lease
  BY <1>1, <1>2, <1>3 DEF ClaimsMatch, RunsMatch
<1> QED
  BY <1>4, <1>5, <1>6, <1>7, <1>8 DEF RunsMatch, ClaimsMatch

\* The step of a mutation that touches no run.
LEMMA StatusStep ==
  ASSUME TypeOK, RunsMatch, ClaimsMatch, UNCHANGED runs,
         \A t \in Tasks : status'[t] = "running" <=> status[t] = "running",
         \A t \in Tasks : status[t] = "running" => claims'[t] = claims[t],
         \A t \in Tasks : claims'[t] # NoLease => status'[t] \in LiveStatus
  PROVE  RunsMatch' /\ ClaimsMatch'
<1>1. runs' \in [RunIds -> RunType \cup {Unused}]
  BY DEF TypeOK, RunType
<1>2. \A r \in RunIds :
        /\ runs'[r].task = runs[r].task
        /\ runs'[r].lease = runs[r].lease
        /\ runs'[r].status = "running" <=> runs[r].status = "running" /\ runs[r].task \notin {}
  OBVIOUS
<1>3. \A t \in Tasks : status'[t] = "running" <=> status[t] = "running" /\ t \notin {}
  OBVIOUS
<1>4. \A t \in Tasks : status[t] = "running" /\ t \notin {} => claims'[t] = claims[t]
  OBVIOUS
<1>5. {} \in SUBSET Tasks
  OBVIOUS
<1> QED
  BY <1>1, <1>2, <1>3, <1>4, <1>5, ClosingStep

\* The step of a mutation that closes the active runs of the tasks in S.
LEMMA ClosedStep ==
  ASSUME TypeOK, RunsMatch, ClaimsMatch,
         NEW S \in SUBSET Tasks, NEW outcome \in ClosedStatus, runs' = Closed(S, outcome),
         \A t \in Tasks : status'[t] = "running" <=> status[t] = "running" /\ t \notin S,
         \A t \in Tasks : status[t] = "running" /\ t \notin S => claims'[t] = claims[t],
         \A t \in Tasks : claims'[t] # NoLease => status'[t] \in LiveStatus
  PROVE  RunsMatch' /\ ClaimsMatch'
<1>1. /\ runs' \in [RunIds -> RunType \cup {Unused}]
      /\ \A r \in RunIds :
           /\ runs'[r].task = runs[r].task
           /\ runs'[r].lease = runs[r].lease
           /\ runs'[r].status = "running" <=> runs[r].status = "running" /\ runs[r].task \notin S
  BY ClosedFacts
<1> QED
  BY <1>1, ClosingStep

-----------------------------------------------------------------------------
(* The steps, group by group *)

LEMMA PlanStep == IndInv /\ Plan => IndInv'
<1> SUFFICES ASSUME IndInv,
                    NEW new \in SUBSET {t \in Tasks : status[t] = "absent"},
                    NEW edges \in [new -> SUBSET new], NEW input \in [new -> CreateInputs],
                    CreatePlan(new, edges, input)
             PROVE  IndInv'
  BY DEF Plan
<1>1. TypeOK'
  BY InputAssumption DEF IndInv, TypeOK, CreatePlan, NewTask, Status, Gone, runVars, claimVars, boardVars
<1>2. RunsMatch' /\ ClaimsMatch'
  <2>1. \A t \in Tasks : status'[t] = "running" <=> status[t] = "running"
    <3>1. \A t \in new : input[t].status # "running" /\ status[t] = "absent"
      BY InputAssumption DEF NewTask
    <3>2. \A t \in Tasks : status'[t] = IF t \in new THEN input[t].status ELSE status[t]
      BY DEF CreatePlan
    <3> QED
      BY <3>1, <3>2
  <2>2. \A t \in Tasks : claims'[t] # NoLease => status'[t] \in LiveStatus
    BY DEF IndInv, TypeOK, ClaimsMatch, ClaimOnlyOnLiveTask, LiveStatus, CreatePlan, claimVars
  <2> QED
    BY <2>1, <2>2, StatusStep DEF IndInv, CreatePlan, runVars, claimVars
<1> QED
  BY <1>1, <1>2 DEF IndInv

LEMMA ShapeStep == IndInv /\ Shape => IndInv'
<1> SUFFICES ASSUME IndInv, Shape PROVE IndInv'
  OBVIOUS
<1> USE DEF IndInv
<1>1. CASE \E t \in Tasks : AcceptTriage(t)
  <2>1. PICK t \in Tasks : AcceptTriage(t)
    BY <1>1
  <2>2. TypeOK'
    BY <2>1 DEF AcceptTriage, TypeOK, Status, runVars, claimVars, boardVars
  <2>3. \A u \in Tasks : status'[u] = "running" <=> status[u] = "running"
    BY <2>1 DEF AcceptTriage, TypeOK
  <2>4. \A u \in Tasks : claims'[u] # NoLease => status'[u] \in LiveStatus
    BY <2>1 DEF AcceptTriage, TypeOK, ClaimsMatch, ClaimOnlyOnLiveTask, LiveStatus, claimVars
  <2> QED
    BY <2>1, <2>2, <2>3, <2>4, StatusStep DEF AcceptTriage, runVars, claimVars
<1>2. CASE \E t \in Tasks, a \in Agents \cup {NoAgent} : Reassign(t, a)
  <2>1. PICK t \in Tasks, a \in Agents \cup {NoAgent} : Reassign(t, a)
    BY <1>2
  <2>2. TypeOK'
    BY <2>1 DEF Reassign, TypeOK, runVars, claimVars, boardVars
  <2> QED
    BY <2>1, <2>2, StatusStep
       DEF Reassign, ClaimsMatch, ClaimOnlyOnLiveTask, LiveStatus, runVars, claimVars
<1>3. CASE \E t \in Reviewed, required \in BOOLEAN : SetReviewGate(t, required)
  <2>1. PICK t \in Tasks, required \in BOOLEAN : SetReviewGate(t, required)
    BY <1>3, InputAssumption
  <2>2. TypeOK'
    BY <2>1 DEF SetReviewGate, TypeOK, runVars, claimVars, boardVars
  <2> QED
    BY <2>1, <2>2, StatusStep
       DEF SetReviewGate, ClaimsMatch, ClaimOnlyOnLiveTask, LiveStatus, runVars, claimVars
<1>4. CASE \E link \in Links : LinkDependency(link[1], link[2])
  <2>1. PICK t \in Tasks, d \in Tasks : LinkDependency(t, d)
    BY <1>4, InputAssumption
  <2>2. TypeOK'
    BY <2>1 DEF LinkDependency, TypeOK, Status, runVars, claimVars, boardVars
  <2>3. \A u \in Tasks : status'[u] = "running" <=> status[u] = "running"
    BY <2>1 DEF LinkDependency, TypeOK
  <2>4. \A u \in Tasks : claims'[u] # NoLease => status'[u] \in LiveStatus
    BY <2>1 DEF LinkDependency, TypeOK, ClaimsMatch, ClaimOnlyOnLiveTask, LiveStatus, claimVars
  <2> QED
    BY <2>1, <2>2, <2>3, <2>4, StatusStep DEF LinkDependency, runVars, claimVars
<1>5. CASE \E link \in Links : RemoveDependency(link[1], link[2])
  <2>1. PICK t \in Tasks, d \in Tasks : RemoveDependency(t, d)
    BY <1>5, InputAssumption
  <2>2. TypeOK'
    BY <2>1 DEF RemoveDependency, TypeOK, Status, runVars, claimVars, boardVars
  <2>3. \A u \in Tasks : status'[u] = "running" <=> status[u] = "running"
    BY <2>1 DEF RemoveDependency, TypeOK
  <2>4. \A u \in Tasks : claims'[u] # NoLease => status'[u] \in LiveStatus
    BY <2>1 DEF RemoveDependency, TypeOK, ClaimsMatch, ClaimOnlyOnLiveTask, LiveStatus, claimVars
  <2> QED
    BY <2>1, <2>2, <2>3, <2>4, StatusStep DEF RemoveDependency, runVars, claimVars
<1>6. CASE \E t \in Deleted : DeleteTask(t)
  <2>1. PICK t \in Tasks : DeleteTask(t)
    BY <1>6, InputAssumption
  <2>2. TypeOK'
    <3>1. deps' \in [Tasks -> SUBSET Tasks]
      BY <2>1 DEF DeleteTask, TypeOK
    <3> QED
      BY <2>1, <3>1, BoundsAssumption DEF DeleteTask, TypeOK, Gone, ScheduleVal, runVars, claimVars, boardVars
  <2>3. status[t] # "running"
    BY <2>1 DEF DeleteTask, RunsMatch, Active
  <2>4. \A u \in Tasks : status'[u] = "running" <=> status[u] = "running"
    BY <2>1, <2>3 DEF DeleteTask, TypeOK
  <2>5. \A u \in Tasks : claims'[u] # NoLease => status'[u] \in LiveStatus
    BY <2>1 DEF DeleteTask, TypeOK, ClaimsMatch, ClaimOnlyOnLiveTask, LiveStatus, claimVars
  <2> QED
    BY <2>1, <2>2, <2>4, <2>5, StatusStep DEF DeleteTask, runVars, claimVars
<1>7. CASE \E t \in Scheduled, when \in {"future", "due"} : ScheduleTask(t, when)
  <2>1. PICK t \in Tasks, when \in {"future", "due"} : ScheduleTask(t, when)
    BY <1>7, InputAssumption
  <2>2. TypeOK'
    BY <2>1 DEF ScheduleTask, TypeOK, Status, ScheduleVal, runVars, claimVars, boardVars
  <2>3. \A u \in Tasks : status'[u] = "running" <=> status[u] = "running"
    BY <2>1 DEF ScheduleTask, TypeOK
  <2>4. \A u \in Tasks : claims'[u] # NoLease => status'[u] \in LiveStatus
    BY <2>1 DEF ScheduleTask, TypeOK, ClaimsMatch, ClaimOnlyOnLiveTask, LiveStatus, claimVars
  <2> QED
    BY <2>1, <2>2, <2>3, <2>4, StatusStep DEF ScheduleTask, runVars, claimVars
<1>8. CASE \E t \in Archived : ArchiveTask(t)
  <2>1. PICK t \in Tasks : ArchiveTask(t)
    BY <1>8, InputAssumption
  <2> DEFINE S == {t}
  <2>2. "cancelled" \in ClosedStatus /\ S \in SUBSET Tasks /\ runs' = Closed(S, "cancelled")
    BY <2>1 DEF ClosedStatus, ArchiveTask
  <2>3. TypeOK'
    <3>1. runs' \in [RunIds -> RunType \cup {Unused}]
          /\ \A r \in RunIds : runs'[r] = Unused <=> runs[r] = Unused
      BY <2>2, ClosedFacts
    <3> QED
      BY <2>1, <3>1 DEF ArchiveTask, DropClaims, Exists, TypeOK, RunType, Status, Gone, boardVars
  <2>4. \A u \in Tasks : status'[u] = "running" <=> status[u] = "running" /\ u \notin S
    BY <2>1 DEF ArchiveTask, TypeOK
  <2>5. \A u \in Tasks : status[u] = "running" /\ u \notin S => claims'[u] = claims[u]
    BY <2>1 DEF ArchiveTask, DropClaims
  <2>6. \A u \in Tasks : claims'[u] # NoLease => status'[u] \in LiveStatus
    BY <2>1 DEF ArchiveTask, DropClaims, TypeOK, ClaimsMatch, ClaimOnlyOnLiveTask, LiveStatus
  <2> HIDE DEF S
  <2>7. RunsMatch' /\ ClaimsMatch'
    BY <2>2, <2>4, <2>5, <2>6, ClosedStep
  <2> QED
    BY <2>3, <2>7
<1>9. CASE \E t \in Archived : RestoreTask(t)
  <2>1. PICK t \in Tasks : RestoreTask(t)
    BY <1>9, InputAssumption
  <2>2. /\ status[t] = "archived"
        /\ status' = [status EXCEPT ![t] = status'[t]]
        /\ status'[t] \in Status \ {"running"}
    BY <2>1 DEF RestoreTask, TypeOK, Status
  <2>3. TypeOK'
    BY <2>1, <2>2 DEF RestoreTask, TypeOK, runVars, claimVars, boardVars
  <2>4. \A u \in Tasks : status'[u] = "running" <=> status[u] = "running"
    BY <2>2 DEF TypeOK
  <2>5. \A u \in Tasks : claims'[u] # NoLease => status'[u] \in LiveStatus
    BY <2>1, <2>2 DEF RestoreTask, TypeOK, ClaimsMatch, ClaimOnlyOnLiveTask, LiveStatus, claimVars
  <2> QED
    BY <2>1, <2>3, <2>4, <2>5, StatusStep DEF RestoreTask, runVars, claimVars
<1> QED
  BY <1>1, <1>2, <1>3, <1>4, <1>5, <1>6, <1>7, <1>8, <1>9 DEF Shape

LEMMA BecomeReadyStep == IndInv /\ BecomeReady => IndInv'
<1> SUFFICES ASSUME IndInv, BecomeReady PROVE IndInv'
  OBVIOUS
<1> USE DEF IndInv
<1>1. CASE \E t \in Tasks : MarkReady(t)
  <2>1. PICK t \in Tasks : MarkReady(t)
    BY <1>1
  <2>2. TypeOK'
    BY <2>1 DEF MarkReady, TypeOK, Status, runVars, claimVars, boardVars
  <2>3. \A u \in Tasks : status'[u] = "running" <=> status[u] = "running"
    BY <2>1 DEF MarkReady, TypeOK
  <2>4. \A u \in Tasks : claims'[u] # NoLease => status'[u] \in LiveStatus
    BY <2>1 DEF MarkReady, TypeOK, ClaimsMatch, ClaimOnlyOnLiveTask, LiveStatus, claimVars
  <2> QED
    BY <2>1, <2>2, <2>3, <2>4, StatusStep DEF MarkReady, runVars, claimVars
<1>2. CASE \E S \in SUBSET Tasks : Promote(S)
  <2>1. PICK S \in SUBSET Tasks : Promote(S)
    BY <1>2
  <2>2. TypeOK'
    BY <2>1 DEF Promote, SetStatus, TypeOK, Status, runVars, claimVars, boardVars
  <2>3. \A u \in Tasks : status'[u] = "running" <=> status[u] = "running"
    BY <2>1 DEF Promote, SetStatus, DueTasks, TypeOK
  <2>4. \A u \in Tasks : claims'[u] # NoLease => status'[u] \in LiveStatus
    BY <2>1 DEF Promote, SetStatus, TypeOK, ClaimsMatch, ClaimOnlyOnLiveTask, LiveStatus, claimVars
  <2> QED
    BY <2>1, <2>2, <2>3, <2>4, StatusStep DEF Promote, runVars, claimVars
<1>3. CASE \E t \in Tasks : UnblockTask(t)
  <2>1. PICK t \in Tasks : UnblockTask(t)
    BY <1>3
  <2>2. TypeOK'
    BY <2>1 DEF UnblockTask, TypeOK, Status, runVars, claimVars, boardVars
  <2>3. \A u \in Tasks : status'[u] = "running" <=> status[u] = "running"
    BY <2>1 DEF UnblockTask, TypeOK
  <2>4. \A u \in Tasks : claims'[u] # NoLease => status'[u] \in LiveStatus
    BY <2>1 DEF UnblockTask, TypeOK, ClaimsMatch, ClaimOnlyOnLiveTask, LiveStatus, claimVars
  <2> QED
    BY <2>1, <2>2, <2>3, <2>4, StatusStep DEF UnblockTask, runVars, claimVars
<1>4. DueTasks \in SUBSET Tasks
  BY DEF DueTasks
<1> QED
  BY <1>1, <1>2, <1>3, <1>4 DEF BecomeReady, PromoteScheduledTask, PromoteDueTasks

\* The part common to failing, blocking, cancelling, timing out and recovering.
LEMMA InterruptStep ==
  ASSUME IndInv, NEW S \in SUBSET Tasks, NEW outcome \in ClosedStatus,
         Interrupt(S, outcome), workers' \subseteq RunIds, UNCHANGED boardVars
  PROVE  IndInv'
<1>1. TypeOK'
  <2>1. /\ runs' \in [RunIds -> RunType \cup {Unused}]
        /\ \A r \in RunIds : runs'[r] = Unused <=> runs[r] = Unused
    BY ClosedFacts DEF Interrupt, IndInv
  <2> QED
    BY <2>1 DEF Interrupt, SetStatus, DropClaims, IndInv, TypeOK, RunType, Status, boardVars
<1>2. \A t \in Tasks : status'[t] = "running" <=> status[t] = "running" /\ t \notin S
  BY DEF Interrupt, SetStatus
<1>3. \A t \in Tasks : status[t] = "running" /\ t \notin S => claims'[t] = claims[t]
  BY DEF Interrupt, DropClaims
<1>4. \A t \in Tasks : claims'[t] # NoLease => status'[t] \in LiveStatus
  BY DEF Interrupt, SetStatus, DropClaims, IndInv, ClaimsMatch, ClaimOnlyOnLiveTask, LiveStatus
<1>5. RunsMatch' /\ ClaimsMatch'
  BY <1>2, <1>3, <1>4, ClosedStep DEF Interrupt, IndInv
<1> QED
  BY <1>1, <1>5 DEF IndInv

\* Promotion makes no task running and none idle, and only todo tasks ready.
LEMMA PromotionFacts ==
  ASSUME NEW st \in [Tasks -> Status \cup Gone], NEW d \in Tasks
  PROVE  /\ PromoteDependents(st, d) \in [Tasks -> Status \cup Gone]
         /\ \A t \in Tasks : PromoteDependents(st, d)[t] = "running" <=> st[t] = "running"
         /\ \A t \in Tasks : \/ PromoteDependents(st, d)[t] = st[t]
                             \/ (st[t] = "todo" /\ PromoteDependents(st, d)[t] = "ready")
<1> DEFINE promoted(t) == /\ st[t] = "todo" /\ d \in deps[t] /\ Due(t)
                          /\ \A u \in deps[t] : st[u] = "done"
<1>1. PromoteDependents(st, d) = [t \in Tasks |-> IF promoted(t) THEN "ready" ELSE st[t]]
  BY DEF PromoteDependents
<1>2. \A t \in Tasks : promoted(t) => st[t] = "todo"
  OBVIOUS
<1> HIDE DEF promoted
<1> QED
  BY <1>1, <1>2 DEF Status

\* The part common to the completions: worker, user and lease holder.
LEMMA FinishStep ==
  ASSUME IndInv, NEW t \in Tasks, Finish(t), retries' \in [Tasks -> 0..(MaxRetries + 1)],
         workers' \subseteq RunIds, failures' \in 0..CircuitThreshold, circuitOpen' \in BOOLEAN
  PROVE  IndInv'
<1> DEFINE S == {t}
           outcome == IF t \in gated THEN "review_requested" ELSE "done"
           finished == [status EXCEPT ![t] = "done"]
<1> USE DEF IndInv
<1>1. S \in SUBSET Tasks /\ outcome \in ClosedStatus /\ runs' = Closed(S, outcome)
  BY DEF Finish, ClosedStatus
<1>2. finished \in [Tasks -> Status \cup Gone]
  BY DEF TypeOK, Status
<1>3. /\ status' \in [Tasks -> Status \cup Gone]
      /\ status'[t] # "running"
      /\ \A u \in Tasks \ {t} :
           status'[u] = status[u] \/ (status[u] = "todo" /\ status'[u] = "ready")
  <2>1. CASE t \in gated
    <3>1. status' = [status EXCEPT ![t] = "review"]
      BY <2>1 DEF Finish
    <3> QED
      BY <3>1 DEF TypeOK, Status
  <2>2. CASE t \notin gated
    <3>1. status' = PromoteDependents(finished, t)
      BY <2>2 DEF Finish
    <3>2. finished[t] = "done" /\ \A u \in Tasks \ {t} : finished[u] = status[u]
      BY DEF TypeOK
    <3> HIDE DEF finished
    <3> QED
      BY <1>2, <3>1, <3>2, PromotionFacts
  <2> QED
    BY <2>1, <2>2
<1> HIDE DEF outcome
<1>4. TypeOK'
  <2>1. /\ runs' \in [RunIds -> RunType \cup {Unused}]
        /\ \A r \in RunIds : runs'[r] = Unused <=> runs[r] = Unused
    BY <1>1, ClosedFacts
  <2> QED
    BY <1>3, <2>1 DEF Finish, DropClaims, TypeOK, RunType
<1>5. \A u \in Tasks : status'[u] = "running" <=> status[u] = "running" /\ u \notin S
  BY <1>3
<1>6. \A u \in Tasks : status[u] = "running" /\ u \notin S => claims'[u] = claims[u]
  BY DEF Finish, DropClaims
<1>7. \A u \in Tasks : claims'[u] # NoLease => status'[u] \in LiveStatus
  BY <1>3 DEF Finish, DropClaims, ClaimsMatch, ClaimOnlyOnLiveTask, LiveStatus
<1> HIDE DEF S
<1>8. RunsMatch' /\ ClaimsMatch'
  BY <1>1, <1>5, <1>6, <1>7, ClosedStep
<1> QED
  BY <1>4, <1>8

\* A running task is exactly one with an active run.
LEMMA RunningIsActive ==
  ASSUME TypeOK, RunsMatch, NEW t \in Tasks
  PROVE  status[t] = "running" <=> Active(t) # {}
  BY DEF RunsMatch, Active

\* What recoverExpiredClaimRows does to the tasks in S.
LEMMA RecoveryFacts ==
  ASSUME TypeOK, RunsMatch, NEW S \in SUBSET Tasks, NEW st \in [Tasks -> Status \cup Gone],
         \A t \in Tasks : st[t] = "running" <=> status[t] = "running"
  PROVE  /\ StatusAfterRecovery(st, S) \in [Tasks -> Status \cup Gone]
         /\ \A t \in Tasks : StatusAfterRecovery(st, S)[t] =
                               IF t \in S /\ status[t] = "running" THEN "blocked" ELSE st[t]
<1>1. StatusAfterRecovery(st, S) =
        [t \in Tasks |-> IF t \in S /\ status[t] = "running" THEN "blocked" ELSE st[t]]
  BY RunningIsActive DEF StatusAfterRecovery
<1> QED
  BY <1>1 DEF Status

\* Recovering the claims of S, as recoverExpiredClaims and an idle dispatch do,
\* from statuses in which at most some scheduled tasks have become ready.
LEMMA RecoveryStep ==
  ASSUME IndInv, NEW S \in SUBSET Tasks, NEW st \in [Tasks -> Status \cup Gone],
         \A t \in Tasks : st[t] = status[t] \/ (status[t] = "scheduled" /\ st[t] = "ready"),
         status' = StatusAfterRecovery(st, S), runs' = RunsAfterRecovery(S),
         quiet' \subseteq Tasks, DropClaims(S),
         UNCHANGED <<archivedFrom, schedule, deps, gated, assignee, retries,
                     nextRun, workers, boardVars>>
  PROVE  IndInv'
<1> USE DEF IndInv
<1>1. \A t \in Tasks : st[t] = "running" <=> status[t] = "running"
  OBVIOUS
<1>2. "timed_out" \in ClosedStatus /\ runs' = Closed(S, "timed_out")
  BY DEF ClosedStatus, RunsAfterRecovery
<1>3. /\ status' \in [Tasks -> Status \cup Gone]
      /\ \A t \in Tasks : status'[t] = IF t \in S /\ status[t] = "running" THEN "blocked" ELSE st[t]
  BY <1>1, RecoveryFacts
<1>4. TypeOK'
  <2>1. /\ runs' \in [RunIds -> RunType \cup {Unused}]
        /\ \A r \in RunIds : runs'[r] = Unused <=> runs[r] = Unused
    BY <1>2, ClosedFacts
  <2> QED
    BY <1>3, <2>1 DEF DropClaims, TypeOK, RunType, boardVars
<1>5. \A t \in Tasks : status'[t] = "running" <=> status[t] = "running" /\ t \notin S
  BY <1>1, <1>3
<1>6. \A t \in Tasks : status[t] = "running" /\ t \notin S => claims'[t] = claims[t]
  BY DEF DropClaims
<1>7. \A t \in Tasks : claims'[t] # NoLease => status'[t] \in LiveStatus
  BY <1>3 DEF DropClaims, ClaimsMatch, ClaimOnlyOnLiveTask, LiveStatus
<1>8. RunsMatch' /\ ClaimsMatch'
  BY <1>2, <1>5, <1>6, <1>7, ClosedStep
<1> QED
  BY <1>4, <1>8

\* Starting a run under the claim the task has, with or without one.
LEMMA StartStep ==
  ASSUME IndInv, NEW t \in Tasks, status[t] \in {"todo", "ready"},
         RunStarted(runs, t, claims[t]), status' = [status EXCEPT ![t] = "running"],
         workers' \subseteq RunIds,
         UNCHANGED <<archivedFrom, schedule, deps, gated, assignee, retries,
                     claims, lapsed, nextLease, boardVars>>
  PROVE  IndInv'
<1> USE DEF IndInv
<1> DEFINE new == [task |-> t, status |-> "running", lease |-> claims[t]]
<1>1. /\ nextRun \in RunIds /\ nextRun' = nextRun + 1 /\ quiet' = quiet
      /\ runs' = [runs EXCEPT ![nextRun] = new]
  BY DEF RunStarted
<1>2. /\ runs[nextRun] = Unused
      /\ runs'[nextRun] = new
      /\ \A r \in RunIds \ {nextRun} : runs'[r] = runs[r]
  BY <1>1, BoundsAssumption DEF TypeOK, RunIds
<1>3. new \in RunType /\ new # Unused
  BY DEF RunType, TypeOK, Unused
<1>4. TypeOK'
  <2>1. runs' \in [RunIds -> RunType \cup {Unused}]
    BY <1>1, <1>3 DEF TypeOK, RunType
  <2>2. \A r \in RunIds : runs'[r] = Unused <=> r >= nextRun'
    BY <1>1, <1>2, <1>3, BoundsAssumption DEF TypeOK, RunIds
  <2>3. nextRun' \in 1..(MaxRuns + 1)
    BY <1>1, BoundsAssumption DEF RunIds
  <2>4. status' \in [Tasks -> Status \cup Gone]
    BY DEF TypeOK, Status
  <2> QED
    BY <1>1, <2>1, <2>2, <2>3, <2>4 DEF TypeOK, RunType, boardVars
<1>5. RunsMatch' /\ ClaimsMatch'
  <2>1. \A r \in RunIds \ {nextRun} :
          /\ runs'[r].task = runs[r].task
          /\ runs'[r].lease = runs[r].lease
          /\ runs'[r].status = "running" <=> runs[r].status = "running" /\ runs[r].task \notin {}
    BY <1>2
  <2>2. runs'[nextRun].task = t /\ runs'[nextRun].status = "running" /\ runs'[nextRun].lease = claims'[t]
    BY <1>2
  <2>3. status[t] # "running" /\ status'[t] = "running"
        /\ \A u \in Tasks \ {t} : status'[u] = "running" <=> status[u] = "running" /\ u \notin {}
    BY DEF TypeOK
  <2>4. \A u \in Tasks : status[u] = "running" /\ u \notin {} => claims'[u] = claims[u]
    OBVIOUS
  <2>5. \A u \in Tasks : claims'[u] # NoLease => status'[u] \in LiveStatus
    BY DEF TypeOK, ClaimsMatch, ClaimOnlyOnLiveTask, LiveStatus
  <2>6. {} \in SUBSET Tasks /\ nextRun \in RunIds /\ runs[nextRun] = Unused
    BY <1>1, <1>2
  <2> QED
    BY <2>1, <2>2, <2>3, <2>4, <2>5, <2>6, StartingStep
<1> QED
  BY <1>4, <1>5

LEMMA ClaimStep == IndInv /\ Claim => IndInv'
<1> SUFFICES ASSUME IndInv, Claim PROVE IndInv'
  OBVIOUS
<1> USE DEF IndInv
<1>1. CASE \E t \in Tasks : ClaimTask(t)
  <2>1. PICK t \in Tasks : ClaimTask(t)
    BY <1>1
  <2> DEFINE S == {t} \cap lapsed
  <2>2. S \in SUBSET Tasks /\ "timed_out" \in ClosedStatus /\ runs' = Closed(S, "timed_out")
    BY <2>1 DEF ClaimTask, RunsAfterRecovery, ClosedStatus
  <2>3. status' = StatusAfterRecovery(status, S) /\ quiet' = quiet \ S
    BY <2>1 DEF ClaimTask
  <2>4. status[t] = "ready" /\ \A u \in S : u = t
    BY <2>1 DEF ClaimTask
  <2> HIDE DEF S
  <2>5. status' \in [Tasks -> Status \cup Gone] /\ \A u \in Tasks : status'[u] = status[u]
    <3>1. \A u \in Tasks : status[u] = "running" <=> status[u] = "running"
      OBVIOUS
    <3>2. status \in [Tasks -> Status \cup Gone]
      BY DEF TypeOK
    <3> QED
      BY <2>2, <2>3, <2>4, <3>1, <3>2, RecoveryFacts
  <2>6. TypeOK'
    <3>1. /\ runs' \in [RunIds -> RunType \cup {Unused}]
          /\ \A r \in RunIds : runs'[r] = Unused <=> runs[r] = Unused
      BY <2>2, ClosedFacts
    <3>2. /\ claims' \in [Tasks -> Leases \cup {NoLease}] /\ lapsed' \subseteq Tasks
          /\ nextLease' \in 1..(MaxLeases + 1)
      BY <2>1, BoundsAssumption DEF ClaimTask, TypeOK, Leases
    <3>3. UNCHANGED <<archivedFrom, schedule, deps, gated, assignee, retries,
                      nextRun, workers, boardVars>>
      BY <2>1 DEF ClaimTask
    <3>4. quiet' \subseteq Tasks
      BY <2>3 DEF TypeOK
    <3> QED
      BY <2>5, <3>1, <3>2, <3>3, <3>4 DEF TypeOK, RunType, boardVars
  <2>7. \A u \in Tasks : status'[u] = "running" <=> status[u] = "running" /\ u \notin S
    BY <2>4, <2>5
  <2>8. \A u \in Tasks : status[u] = "running" /\ u \notin S => claims'[u] = claims[u]
    BY <2>1, <2>4 DEF ClaimTask
  <2>9. \A u \in Tasks : claims'[u] # NoLease => status'[u] \in LiveStatus
    BY <2>1, <2>4, <2>5 DEF ClaimTask, ClaimsMatch, ClaimOnlyOnLiveTask, LiveStatus
  <2>10. RunsMatch' /\ ClaimsMatch'
    BY <2>2, <2>7, <2>8, <2>9, ClosedStep
  <2> QED
    BY <2>6, <2>10
<1>2. CASE \E t \in Tasks, lease \in Leases : HeartbeatClaim(t, lease)
  <2>1. PICK t \in Tasks, lease \in Leases : HeartbeatClaim(t, lease)
    BY <1>2
  <2>2. TypeOK'
    BY <2>1 DEF HeartbeatClaim, TypeOK, taskVars, claimVars, boardVars
  <2> QED
    BY <2>1, <2>2, StatusStep
       DEF HeartbeatClaim, ClaimsMatch, ClaimOnlyOnLiveTask, LiveStatus, taskVars, claimVars
<1>3. CASE \E t \in Tasks, lease \in Leases : ReleaseClaim(t, lease)
  <2>1. PICK t \in Tasks, lease \in Leases : ReleaseClaim(t, lease)
    BY <1>3
  <2>2. TypeOK'
    BY <2>1 DEF ReleaseClaim, DropClaims, TypeOK, taskVars, runVars, boardVars
  <2>3. status[t] # "running"
    BY <2>1, RunningIsActive DEF ReleaseClaim
  <2>4. \A u \in Tasks : status[u] = "running" => claims'[u] = claims[u]
    BY <2>1, <2>3 DEF ReleaseClaim, DropClaims
  <2>5. \A u \in Tasks : claims'[u] # NoLease => status'[u] \in LiveStatus
    BY <2>1 DEF ReleaseClaim, DropClaims, ClaimsMatch, ClaimOnlyOnLiveTask, LiveStatus, taskVars
  <2> QED
    BY <2>1, <2>2, <2>4, <2>5, StatusStep DEF ReleaseClaim, taskVars, runVars
<1>4. CASE \E t \in Tasks, lease \in Leases : StartClaimedTask(t, lease)
  <2>1. PICK t \in Tasks, lease \in Leases : StartClaimedTask(t, lease)
    BY <1>4
  <2>2. /\ status[t] \in {"todo", "ready"} /\ status' = [status EXCEPT ![t] = "running"]
        /\ RunStarted(runs, t, claims[t])
        /\ UNCHANGED <<archivedFrom, schedule, deps, gated, assignee, retries,
                       claims, lapsed, nextLease, boardVars>>
    BY <2>1 DEF StartClaimedTask, claimVars
  <2>3. workers' \subseteq RunIds
    BY <2>1 DEF StartClaimedTask, TypeOK
  <2> HIDE DEF IndInv
  <2> QED
    BY <2>2, <2>3, StartStep
<1>5. CASE \E t \in Tasks, lease \in Leases : CompleteClaimedTask(t, lease)
  <2>1. PICK t \in Tasks, lease \in Leases : CompleteClaimedTask(t, lease)
    BY <1>5
  <2>2. retries' \in [Tasks -> 0..(MaxRetries + 1)] /\ workers' \subseteq RunIds
    BY <2>1, BoundsAssumption DEF CompleteClaimedTask, TypeOK
  <2>3. Finish(t) /\ failures' = 0 /\ circuitOpen' = FALSE
    BY <2>1 DEF CompleteClaimedTask
  <2>4. failures' \in 0..CircuitThreshold /\ circuitOpen' \in BOOLEAN
    <3>1. 0 \in 0..CircuitThreshold
      BY BoundsAssumption
    <3> QED
      BY <2>3, <3>1
  <2> HIDE DEF IndInv
  <2> QED
    BY <2>2, <2>3, <2>4, FinishStep
<1>6. CASE \E t \in Tasks, lease \in Leases, infrastructure \in BOOLEAN :
             RecordDispatchFailure(t, lease, infrastructure)
  <2>1. PICK t \in Tasks, lease \in Leases, infrastructure \in BOOLEAN :
               RecordDispatchFailure(t, lease, infrastructure)
    BY <1>6
  <2> DEFINE S == {t}
  <2>2. S \in SUBSET Tasks /\ "failed" \in ClosedStatus /\ runs' = Closed(S, "failed")
    BY <2>1 DEF RecordDispatchFailure, ClosedStatus
  <2>3. /\ status' = [status EXCEPT ![t] = status'[t]]
        /\ status'[t] \in {"scheduled", "blocked"}
        /\ schedule' \in [Tasks -> ScheduleVal]
    BY <2>1 DEF RecordDispatchFailure, TypeOK, ScheduleVal
  <2>4. retries' \in [Tasks -> 0..(MaxRetries + 1)]
    BY <2>1, BoundsAssumption DEF RecordDispatchFailure, TypeOK
  <2>5. failures' \in 0..CircuitThreshold /\ circuitOpen' \in BOOLEAN
    BY <2>1, BoundsAssumption DEF RecordDispatchFailure, TypeOK, boardVars
  <2>6. TypeOK'
    <3>1. /\ runs' \in [RunIds -> RunType \cup {Unused}]
          /\ \A r \in RunIds : runs'[r] = Unused <=> runs[r] = Unused
      BY <2>2, ClosedFacts
    <3>2. /\ claims' \in [Tasks -> Leases \cup {NoLease}] /\ lapsed' \subseteq Tasks
          /\ nextLease' = nextLease /\ quiet' \subseteq Tasks
          /\ UNCHANGED <<archivedFrom, deps, gated, assignee, nextRun, workers>>
      BY <2>1 DEF RecordDispatchFailure, DropClaims, TypeOK
    <3> QED
      BY <2>3, <2>4, <2>5, <3>1, <3>2 DEF TypeOK, RunType, Status
  <2>7. \A u \in Tasks : status'[u] = "running" <=> status[u] = "running" /\ u \notin S
    BY <2>3 DEF TypeOK
  <2>8. \A u \in Tasks : status[u] = "running" /\ u \notin S => claims'[u] = claims[u]
    BY <2>1 DEF RecordDispatchFailure, DropClaims
  <2>9. \A u \in Tasks : claims'[u] # NoLease => status'[u] \in LiveStatus
    BY <2>1, <2>3 DEF RecordDispatchFailure, DropClaims, TypeOK, ClaimsMatch,
                      ClaimOnlyOnLiveTask, LiveStatus
  <2> HIDE DEF S
  <2>10. RunsMatch' /\ ClaimsMatch'
    BY <2>2, <2>7, <2>8, <2>9, ClosedStep
  <2> QED
    BY <2>6, <2>10
<1> QED
  BY <1>1, <1>2, <1>3, <1>4, <1>5, <1>6 DEF Claim

LEMMA DispatchStep == IndInv /\ Dispatch => IndInv'
<1> SUFFICES ASSUME IndInv, Dispatch PROVE IndInv'
  OBVIOUS
<1> DEFINE due == SetStatus(DueTasks, "ready")
<1>1. /\ due \in [Tasks -> Status \cup Gone]
      /\ \A u \in Tasks : due[u] = status[u] \/ (status[u] = "scheduled" /\ due[u] = "ready")
  BY DEF IndInv, TypeOK, SetStatus, DueTasks, Status
<1>2. StatusBeforeSelection = StatusAfterRecovery(due, lapsed)
  BY DEF StatusBeforeSelection
<1> HIDE DEF due
<1>3. lapsed \in SUBSET Tasks
  BY DEF IndInv, TypeOK
<1>4. CASE DispatchNothing
  <2>1. /\ status' = StatusAfterRecovery(due, lapsed) /\ runs' = RunsAfterRecovery(lapsed)
        /\ quiet' \subseteq Tasks /\ DropClaims(lapsed)
        /\ UNCHANGED <<archivedFrom, schedule, deps, gated, assignee, retries,
                       nextRun, workers, boardVars>>
    BY <1>2, <1>4 DEF DispatchNothing, IndInv, TypeOK
  <2> QED
    BY <1>1, <1>3, <2>1, RecoveryStep
<1>5. CASE \E t \in Tasks : DispatchTask(t)
  <2> USE DEF IndInv
  <2>1. PICK t \in Tasks : DispatchTask(t)
    BY <1>5
  <2> DEFINE closed == RunsAfterRecovery(lapsed)
             new    == [task |-> t, status |-> "running", lease |-> nextLease]
  <2>2. "timed_out" \in ClosedStatus /\ closed = Closed(lapsed, "timed_out")
    BY DEF ClosedStatus, RunsAfterRecovery
  <2>3. /\ closed \in [RunIds -> RunType \cup {Unused}]
        /\ \A r \in RunIds :
             /\ closed[r] = Unused <=> runs[r] = Unused
             /\ closed[r].task = runs[r].task
             /\ closed[r].lease = runs[r].lease
             /\ closed[r].status = "running" <=> runs[r].status = "running" /\ runs[r].task \notin lapsed
    BY <1>3, <2>2, ClosedFacts
  <2>4. /\ nextRun \in RunIds /\ nextRun' = nextRun + 1
        /\ nextLease \in Leases /\ nextLease' = nextLease + 1
        /\ runs' = [closed EXCEPT ![nextRun] = new]
    BY <2>1 DEF DispatchTask
  <2> HIDE DEF closed
  <2>5. /\ runs'[nextRun] = new
        /\ \A r \in RunIds \ {nextRun} : runs'[r] = closed[r]
    BY <2>3, <2>4
  <2>6. new \in RunType /\ new # Unused
    BY <2>4 DEF RunType, Unused
  <2>7. runs[nextRun] = Unused
    BY <2>4 DEF TypeOK, RunIds
  <2>8. \A u \in Tasks : due[u] = "running" <=> status[u] = "running"
    BY <1>1
  <2>9. /\ StatusBeforeSelection \in [Tasks -> Status \cup Gone]
        /\ \A u \in Tasks : StatusBeforeSelection[u] =
                              IF u \in lapsed /\ status[u] = "running" THEN "blocked" ELSE due[u]
    BY <1>1, <1>2, <1>3, <2>8, RecoveryFacts
  <2>10. StatusBeforeSelection[t] = "ready" /\ status' = [StatusBeforeSelection EXCEPT ![t] = "running"]
    BY <2>1 DEF DispatchTask, Selectable
  <2>11. /\ status' \in [Tasks -> Status \cup Gone] /\ status'[t] = "running"
         /\ \A u \in Tasks \ {t} : status'[u] = StatusBeforeSelection[u]
    BY <2>9, <2>10 DEF Status
  <2>12. \A u \in Tasks : claims'[u] = IF u = t THEN nextLease
                                       ELSE IF u \in lapsed THEN NoLease ELSE claims[u]
    BY <2>1 DEF DispatchTask
  <2>13. TypeOK'
    <3>1. runs' \in [RunIds -> RunType \cup {Unused}]
      BY <2>3, <2>4, <2>6
    <3>2. \A r \in RunIds : runs'[r] = Unused <=> r >= nextRun'
      BY <2>3, <2>4, <2>5, <2>6, BoundsAssumption DEF TypeOK, RunIds
    <3>3. nextRun' \in 1..(MaxRuns + 1) /\ nextLease' \in 1..(MaxLeases + 1)
      BY <2>4, BoundsAssumption DEF RunIds, Leases
    <3>4. claims' \in [Tasks -> Leases \cup {NoLease}]
      BY <2>1, <2>4 DEF DispatchTask, TypeOK
    <3>5. /\ lapsed' \subseteq Tasks /\ quiet' \subseteq Tasks
          /\ UNCHANGED <<archivedFrom, schedule, deps, gated, assignee, retries, workers, boardVars>>
      BY <2>1 DEF DispatchTask, TypeOK
    <3> QED
      BY <2>11, <3>1, <3>2, <3>3, <3>4, <3>5 DEF TypeOK, RunType, boardVars
  <2>14. status[t] # "running"
    <3>1. due[t] # "running"
      BY <2>9, <2>10
    <3> QED
      BY <2>8, <3>1
  <2>15. \A u \in Tasks \ {t} : status'[u] = "running" <=> status[u] = "running" /\ u \notin lapsed
    BY <2>8, <2>9, <2>11
  <2>16. \A u \in Tasks : status[u] = "running" /\ u \notin lapsed => claims'[u] = claims[u]
    BY <2>12, <2>14
  <2>17. \A u \in Tasks : claims'[u] # NoLease => status'[u] \in LiveStatus
    BY <1>1, <2>9, <2>11, <2>12 DEF ClaimsMatch, ClaimOnlyOnLiveTask, LiveStatus
  <2>18. /\ runs'[nextRun].task = t /\ runs'[nextRun].status = "running"
         /\ runs'[nextRun].lease = claims'[t]
    BY <2>5, <2>12
  <2>19. \A r \in RunIds \ {nextRun} :
           /\ runs'[r].task = runs[r].task
           /\ runs'[r].lease = runs[r].lease
           /\ runs'[r].status = "running" <=> runs[r].status = "running" /\ runs[r].task \notin lapsed
    BY <2>3, <2>5
  <2>20. RunsMatch' /\ ClaimsMatch'
    BY <1>3, <2>4, <2>7, <2>11, <2>14, <2>15, <2>16, <2>17, <2>18, <2>19, StartingStep
  <2> QED
    BY <2>13, <2>20
<1> QED
  BY <1>4, <1>5 DEF Dispatch

\* Starting without a claim: by hand, or by the worker of `/board run`.
LEMMA UnclaimedStartStep ==
  ASSUME IndInv, NEW t \in Tasks, NEW from \in SUBSET {"todo", "ready"},
         Start(t, from), workers' \subseteq RunIds
  PROVE  IndInv'
<1>1. /\ status[t] \in {"todo", "ready"} /\ status' = [status EXCEPT ![t] = "running"]
      /\ RunStarted(runs, t, claims[t])
      /\ UNCHANGED <<archivedFrom, schedule, deps, gated, assignee, retries,
                     claims, lapsed, nextLease, boardVars>>
  BY DEF Start, claimVars
<1> QED
  BY <1>1, StartStep

\* A row with an active run for its task is the row of a task.
LEMMA UnusedHasNoRun ==
  ASSUME TypeOK, NEW r \in RunIds, Active(runs[r].task) # {}
  PROVE  runs[r].task \in Tasks
<1>1. PICK q \in RunIds : runs[q].task = runs[r].task /\ runs[q].status = "running"
  BY DEF Active
<1>2. runs[q] \in RunType
  BY <1>1 DEF TypeOK, RunType, Unused
<1> QED
  BY <1>1, <1>2 DEF RunType

\* A worker whose result comes too late changes nothing but the set of workers.
LEMMA WorkerStep ==
  ASSUME IndInv, workers' \subseteq RunIds,
         UNCHANGED <<taskVars, runs, nextRun, quiet, claimVars, boardVars>>
  PROVE  IndInv'
<1> USE DEF IndInv
<1>1. TypeOK'
  BY DEF TypeOK, taskVars, claimVars, boardVars
<1> QED
  BY <1>1, StatusStep DEF ClaimsMatch, ClaimOnlyOnLiveTask, LiveStatus, taskVars, claimVars

LEMMA RunStep == IndInv /\ Run => IndInv'
<1> SUFFICES ASSUME IndInv, Run PROVE IndInv'
  OBVIOUS
<1>0. /\ workers \subseteq RunIds /\ retries \in [Tasks -> 0..(MaxRetries + 1)]
      /\ failures \in 0..CircuitThreshold /\ circuitOpen \in BOOLEAN
  BY DEF IndInv, TypeOK
<1>1. CASE \E t \in Tasks : StartTask(t) \/ RunBoardTask(t)
  <2>1. PICK t \in Tasks : StartTask(t) \/ RunBoardTask(t)
    BY <1>1
  <2>2. CASE StartTask(t)
    BY <1>0, <2>2, UnclaimedStartStep DEF StartTask
  <2>3. CASE RunBoardTask(t)
    <3>1. Start(t, {"ready"}) /\ workers' = workers \cup {nextRun}
      BY <2>3 DEF RunBoardTask
    <3>2. nextRun \in RunIds
      BY <3>1 DEF Start, RunStarted
    <3>3. {"ready"} \in SUBSET {"todo", "ready"} /\ workers' \subseteq RunIds
      BY <1>0, <3>1, <3>2
    <3> QED
      BY <3>1, <3>3, UnclaimedStartStep
  <2> QED
    BY <2>1, <2>2, <2>3
<1>2. CASE \E t \in Tasks : HeartbeatTask(t)
  <2>1. PICK t \in Tasks : HeartbeatTask(t)
    BY <1>2
  <2> USE DEF IndInv
  <2>2. TypeOK'
    BY <2>1 DEF HeartbeatTask, TypeOK, taskVars, claimVars, boardVars
  <2> QED
    BY <2>1, <2>2, StatusStep
       DEF HeartbeatTask, ClaimsMatch, ClaimOnlyOnLiveTask, LiveStatus, taskVars, claimVars
<1>3. CASE \E t \in Tasks : CompleteTask(t)
  <2>1. PICK t \in Tasks : CompleteTask(t)
    BY <1>3
  <2>2. Finish(t) /\ UNCHANGED <<retries, workers, failures, circuitOpen>>
    BY <2>1 DEF CompleteTask, boardVars
  <2> QED
    BY <1>0, <2>2, FinishStep
<1>4. CASE \E t \in Tasks : FailTask(t) \/ BlockTask(t)
  <2>1. PICK t \in Tasks : FailTask(t) \/ BlockTask(t)
    BY <1>4
  <2>2. Interrupt({t}, "failed") /\ UNCHANGED <<workers, boardVars>>
    BY <2>1 DEF FailTask, BlockTask
  <2>3. {t} \in SUBSET Tasks /\ "failed" \in ClosedStatus
    BY DEF ClosedStatus
  <2> QED
    BY <1>0, <2>2, <2>3, InterruptStep
<1>5. CASE \E t \in Tasks, outcome \in {"cancelled", "timed_out"} : CloseActiveRun(t, outcome)
  <2>1. PICK t \in Tasks, outcome \in {"cancelled", "timed_out"} : CloseActiveRun(t, outcome)
    BY <1>5
  <2>2. Interrupt({t}, outcome) /\ UNCHANGED <<workers, boardVars>>
    BY <2>1 DEF CloseActiveRun
  <2>3. {t} \in SUBSET Tasks /\ outcome \in ClosedStatus
    BY DEF ClosedStatus
  <2> QED
    BY <1>0, <2>2, <2>3, InterruptStep
<1>6. CASE \E r \in RunIds : WorkerCompletes(r)
  <2>1. PICK r \in RunIds : WorkerCompletes(r)
    BY <1>6
  <2> DEFINE t == runs[r].task
  <2>2. workers' \subseteq RunIds
    BY <1>0, <2>1 DEF WorkerCompletes
  <2>3. CASE Active(t) # {} /\ r = ActiveRun(t) /\ status[t] = "running"
    <3>1. Finish(t) /\ UNCHANGED <<retries, failures, circuitOpen>>
      BY <2>1, <2>3 DEF WorkerCompletes, boardVars
    <3>2. t \in Tasks
      BY <3>1, UnusedHasNoRun DEF IndInv, Finish
    <3> QED
      BY <1>0, <2>2, <3>1, <3>2, FinishStep
  <2>4. CASE ~(Active(t) # {} /\ r = ActiveRun(t) /\ status[t] = "running")
    BY <2>1, <2>2, <2>4, WorkerStep DEF WorkerCompletes
  <2> QED
    BY <2>3, <2>4
<1>7. CASE \E r \in RunIds : WorkerFails(r)
  <2>1. PICK r \in RunIds : WorkerFails(r)
    BY <1>7
  <2> DEFINE t == runs[r].task
  <2>2. workers' \subseteq RunIds
    BY <1>0, <2>1 DEF WorkerFails
  <2>3. CASE Active(t) # {} /\ r = ActiveRun(t)
    <3>1. Interrupt({t}, "failed") /\ UNCHANGED boardVars
      BY <2>1, <2>3 DEF WorkerFails
    <3>2. t \in Tasks
      BY <2>3, UnusedHasNoRun DEF IndInv
    <3>3. {t} \in SUBSET Tasks /\ "failed" \in ClosedStatus
      BY <3>2 DEF ClosedStatus
    <3> QED
      BY <2>2, <3>1, <3>3, InterruptStep
  <2>4. CASE ~(Active(t) # {} /\ r = ActiveRun(t))
    BY <2>1, <2>2, <2>4, WorkerStep DEF WorkerFails
  <2> QED
    BY <2>3, <2>4
<1> QED
  BY <1>1, <1>2, <1>3, <1>4, <1>5, <1>6, <1>7 DEF Run

LEMMA ReviewStep == IndInv /\ Review => IndInv'
<1> SUFFICES ASSUME IndInv, Review PROVE IndInv'
  OBVIOUS
<1> USE DEF IndInv
<1>1. CASE \E t \in Tasks : RequestReview(t)
  <2>1. PICK t \in Tasks : RequestReview(t)
    BY <1>1
  <2> DEFINE S == {t}
  <2>2. S \in SUBSET Tasks /\ "review_requested" \in ClosedStatus /\ runs' = Closed(S, "review_requested")
    BY <2>1 DEF RequestReview, ClosedStatus
  <2>3. TypeOK'
    <3>1. /\ runs' \in [RunIds -> RunType \cup {Unused}]
          /\ \A r \in RunIds : runs'[r] = Unused <=> runs[r] = Unused
      BY <2>2, ClosedFacts
    <3> QED
      BY <2>1, <3>1 DEF RequestReview, DropClaims, TypeOK, RunType, Status, boardVars
  <2>4. \A u \in Tasks : status'[u] = "running" <=> status[u] = "running" /\ u \notin S
    BY <2>1 DEF RequestReview, TypeOK
  <2>5. \A u \in Tasks : status[u] = "running" /\ u \notin S => claims'[u] = claims[u]
    BY <2>1 DEF RequestReview, DropClaims
  <2>6. \A u \in Tasks : claims'[u] # NoLease => status'[u] \in LiveStatus
    BY <2>1 DEF RequestReview, DropClaims, TypeOK, ClaimsMatch, ClaimOnlyOnLiveTask, LiveStatus
  <2> HIDE DEF S
  <2>7. RunsMatch' /\ ClaimsMatch'
    BY <2>2, <2>4, <2>5, <2>6, ClosedStep
  <2> QED
    BY <2>3, <2>7
<1>2. CASE \E t \in Tasks : ApproveReview(t)
  <2>1. PICK t \in Tasks : ApproveReview(t)
    BY <1>2
  <2> DEFINE finished == [status EXCEPT ![t] = "done"]
  <2>2. finished \in [Tasks -> Status \cup Gone]
    BY DEF TypeOK, Status
  <2>3. finished[t] = "done" /\ \A u \in Tasks \ {t} : finished[u] = status[u]
    BY DEF TypeOK
  <2>4. status[t] = "review" /\ status' = PromoteDependents(finished, t)
    BY <2>1 DEF ApproveReview
  <2> HIDE DEF finished
  <2>5. /\ status' \in [Tasks -> Status \cup Gone]
        /\ status'[t] # "running"
        /\ \A u \in Tasks \ {t} :
             status'[u] = status[u] \/ (status[u] = "todo" /\ status'[u] = "ready")
    BY <2>2, <2>3, <2>4, PromotionFacts
  <2>6. TypeOK'
    BY <2>1, <2>5 DEF ApproveReview, TypeOK, runVars, claimVars, boardVars
  <2>7. \A u \in Tasks : status'[u] = "running" <=> status[u] = "running"
    BY <2>4, <2>5
  <2>8. \A u \in Tasks : claims'[u] # NoLease => status'[u] \in LiveStatus
    BY <2>1, <2>4, <2>5 DEF ApproveReview, ClaimsMatch, ClaimOnlyOnLiveTask, LiveStatus, claimVars
  <2> QED
    BY <2>1, <2>6, <2>7, <2>8, StatusStep DEF ApproveReview, runVars, claimVars
<1>3. CASE \E t \in Tasks : RequestChanges(t) \/ ReopenReview(t)
  <2>1. PICK t \in Tasks : RequestChanges(t) \/ ReopenReview(t)
    BY <1>3
  <2>2. /\ status[t] \in {"review", "blocked"}
        /\ status' = [status EXCEPT ![t] = status'[t]] /\ status'[t] \in {"blocked", "review"}
        /\ UNCHANGED <<archivedFrom, schedule, deps, gated, assignee, retries,
                       runVars, claimVars, boardVars>>
    BY <2>1 DEF RequestChanges, ReopenReview, TypeOK
  <2>3. TypeOK'
    BY <2>2 DEF TypeOK, Status, runVars, claimVars, boardVars
  <2>4. \A u \in Tasks : status'[u] = "running" <=> status[u] = "running"
    BY <2>2 DEF TypeOK
  <2>5. \A u \in Tasks : claims'[u] # NoLease => status'[u] \in LiveStatus
    BY <2>2 DEF TypeOK, ClaimsMatch, ClaimOnlyOnLiveTask, LiveStatus, claimVars
  <2> QED
    BY <2>2, <2>3, <2>4, <2>5, StatusStep DEF runVars, claimVars
<1> QED
  BY <1>1, <1>2, <1>3 DEF Review

\* The second half of repair, which looks for runs and statuses that disagree,
\* finds none after the expired claims have been recovered.
LEMMA RepairFacts ==
  ASSUME IndInv, Repair
  PROVE  LET S == {t \in lapsed : status[t] = "running"}
         IN  /\ S \in SUBSET Tasks
             /\ runs' = Closed(S, "timed_out")
             /\ status' = SetStatus(S, "blocked")
             /\ quiet' = quiet \ S
             /\ DropClaims(lapsed)
             /\ UNCHANGED <<archivedFrom, schedule, deps, gated, assignee, retries,
                            nextRun, workers, boardVars>>
<1> USE DEF IndInv
<1> DEFINE S  == {t \in lapsed : Active(t) # {}}
           st == SetStatus(S, "blocked")
           rs == Closed(S, "timed_out")
           Left(t) == {r \in RunIds : rs[r].task = t /\ rs[r].status = "running"}
<1>1. /\ status' = [t \in Tasks |-> IF st[t] = "running" /\ Left(t) = {} THEN "blocked" ELSE st[t]]
      /\ runs' = [r \in RunIds |-> IF rs[r].status = "running" /\ st[rs[r].task] # "running"
                                   THEN [rs[r] EXCEPT !.status = "blocked"] ELSE rs[r]]
      /\ quiet' = quiet \ S
      /\ DropClaims(lapsed)
      /\ UNCHANGED <<archivedFrom, schedule, deps, gated, assignee, retries,
                     nextRun, workers, boardVars>>
  BY DEF Repair
<1>2. S \in SUBSET Tasks /\ "timed_out" \in ClosedStatus
  BY DEF TypeOK, ClosedStatus
<1>3. S = {t \in lapsed : status[t] = "running"}
  BY RunningIsActive DEF TypeOK
<1>4. \A t \in Tasks : st[t] = IF t \in S THEN "blocked" ELSE status[t]
  BY DEF SetStatus
<1> HIDE DEF S
<1>5. \A r \in RunIds : /\ rs[r].task = runs[r].task
                        /\ rs[r].status = "running" <=> runs[r].status = "running" /\ runs[r].task \notin S
  BY <1>2, ClosedFacts
<1>6. rs = [r \in RunIds |-> rs[r]] /\ st = [t \in Tasks |-> st[t]]
  BY DEF Closed, SetStatus
<1> HIDE DEF st, rs
<1>7. ASSUME NEW r \in RunIds PROVE ~(rs[r].status = "running" /\ st[rs[r].task] # "running")
  <2>1. SUFFICES ASSUME rs[r].status = "running" PROVE st[rs[r].task] = "running"
    OBVIOUS
  <2>2. runs[r].status = "running" /\ runs[r].task \notin S
    BY <1>5, <2>1
  <2>3. runs[r].task \in Tasks
    BY <2>2 DEF TypeOK, Unused
  <2> QED
    BY <1>4, <1>5, <2>2, <2>3 DEF RunsMatch
<1>8. ASSUME NEW t \in Tasks PROVE ~(st[t] = "running" /\ Left(t) = {})
  <2>1. SUFFICES ASSUME st[t] = "running" PROVE Left(t) # {}
    OBVIOUS
  <2>2. status[t] = "running" /\ t \notin S
    BY <1>4, <2>1
  <2>3. PICK r \in RunIds : runs[r].task = t /\ runs[r].status = "running"
    BY <2>2 DEF RunsMatch
  <2> QED
    BY <1>5, <2>2, <2>3
<1>9. runs' = rs
  BY <1>1, <1>6, <1>7
<1>10. status' = st
  BY <1>1, <1>6, <1>8
<1> QED
  BY <1>1, <1>2, <1>3, <1>9, <1>10 DEF st, rs

LEMMA RepairStep == ASSUME IndInv, Repair PROVE IndInv'
<1> USE DEF IndInv
<1> DEFINE S == {t \in lapsed : status[t] = "running"}
<1>1. /\ S \in SUBSET Tasks /\ "timed_out" \in ClosedStatus
      /\ runs' = Closed(S, "timed_out") /\ status' = SetStatus(S, "blocked") /\ quiet' = quiet \ S
      /\ DropClaims(lapsed)
      /\ UNCHANGED <<archivedFrom, schedule, deps, gated, assignee, retries,
                     nextRun, workers, boardVars>>
  BY RepairFacts DEF ClosedStatus
<1>2. \A t \in Tasks : t \in S <=> t \in lapsed /\ status[t] = "running"
  OBVIOUS
<1> HIDE DEF S
<1>3. \A t \in Tasks : status'[t] = IF t \in S THEN "blocked" ELSE status[t]
  BY <1>1 DEF SetStatus
<1>4. TypeOK'
  <2>1. status' \in [Tasks -> Status \cup Gone]
    BY <1>1 DEF SetStatus, TypeOK, Status
  <2>2. /\ runs' \in [RunIds -> RunType \cup {Unused}]
        /\ \A r \in RunIds : runs'[r] = Unused <=> runs[r] = Unused
    BY <1>1, ClosedFacts
  <2> QED
    BY <1>1, <2>1, <2>2 DEF DropClaims, TypeOK, RunType, boardVars
<1>5. \A t \in Tasks : status'[t] = "running" <=> status[t] = "running" /\ t \notin S
  BY <1>3
<1>6. \A t \in Tasks : status[t] = "running" /\ t \notin S => claims'[t] = claims[t]
  BY <1>1, <1>2 DEF DropClaims
<1>7. \A t \in Tasks : claims'[t] # NoLease => status'[t] \in LiveStatus
  <2>1. \A t \in Tasks : claims'[t] # NoLease => claims[t] # NoLease /\ t \notin lapsed
    BY <1>1 DEF DropClaims
  <2> QED
    BY <1>2, <1>3, <2>1 DEF ClaimsMatch, ClaimOnlyOnLiveTask, LiveStatus
<1>8. RunsMatch' /\ ClaimsMatch'
  BY <1>1, <1>5, <1>6, <1>7, ClosedStep
<1> QED
  BY <1>4, <1>8

LEMMA RecoveryGroupStep == IndInv /\ Recovery => IndInv'
<1> SUFFICES ASSUME IndInv, Recovery PROVE IndInv'
  OBVIOUS
<1>0. /\ status \in [Tasks -> Status \cup Gone] /\ lapsed \in SUBSET Tasks
      /\ quiet \subseteq Tasks /\ workers \subseteq RunIds
  BY DEF IndInv, TypeOK
<1>1. CASE RecoverExpiredClaims
  <2>1. /\ status' = StatusAfterRecovery(status, lapsed) /\ runs' = RunsAfterRecovery(lapsed)
        /\ quiet' \subseteq Tasks /\ DropClaims(lapsed)
        /\ UNCHANGED <<archivedFrom, schedule, deps, gated, assignee, retries,
                       nextRun, workers, boardVars>>
    BY <1>0, <1>1 DEF RecoverExpiredClaims
  <2> QED
    BY <1>0, <2>1, RecoveryStep
<1>2. CASE \E S \in SUBSET Tasks, outcome \in {"timed_out", "failed"} : RecoverSilentRuns(S, outcome)
  <2>1. PICK S \in SUBSET Tasks, outcome \in {"timed_out", "failed"} : RecoverSilentRuns(S, outcome)
    BY <1>2
  <2>2. outcome \in ClosedStatus
    BY DEF ClosedStatus
  <2>3. Interrupt(S, outcome) /\ UNCHANGED <<workers, boardVars>>
    BY <2>1 DEF RecoverSilentRuns
  <2> QED
    BY <1>0, <2>2, <2>3, InterruptStep
<1> QED
  BY <1>1, <1>2, RepairStep DEF Recovery

LEMMA EnvironmentStep == IndInv /\ Environment => IndInv'
<1> SUFFICES ASSUME IndInv, Environment PROVE IndInv'
  OBVIOUS
<1> USE DEF IndInv
<1>1. UNCHANGED <<status, runs, claims>>
  BY DEF Environment, LeaseLapses, ScheduleComesDue, RunFallsSilent, CircuitCoolsDown,
         BridgeRestarts, taskVars, runVars, claimVars
<1>2. TypeOK'
  <2>1. CASE \E t \in Tasks : LeaseLapses(t)
    BY <2>1 DEF LeaseLapses, TypeOK, taskVars, runVars, boardVars
  <2>2. CASE \E t \in Tasks : ScheduleComesDue(t)
    BY <2>2 DEF ScheduleComesDue, TypeOK, ScheduleVal, runVars, claimVars, boardVars
  <2>3. CASE \E t \in Tasks : RunFallsSilent(t)
    BY <2>3 DEF RunFallsSilent, TypeOK, taskVars, claimVars, boardVars
  <2>4. CASE CircuitCoolsDown
    BY <2>4 DEF CircuitCoolsDown, TypeOK, taskVars, runVars, claimVars
  <2>5. CASE BridgeRestarts
    BY <2>5 DEF BridgeRestarts, TypeOK, taskVars, claimVars, boardVars
  <2> QED
    BY <2>1, <2>2, <2>3, <2>4, <2>5 DEF Environment
<1> QED
  BY <1>1, <1>2, StatusStep DEF ClaimsMatch, ClaimOnlyOnLiveTask, LiveStatus

-----------------------------------------------------------------------------
(* The theorems *)

LEMMA InitIndInv == Init => IndInv
<1> SUFFICES ASSUME Init PROVE IndInv
  OBVIOUS
<1>1. TypeOK
  <2>1. 0 \in 0..(MaxRetries + 1) /\ 0 \in 0..CircuitThreshold
        /\ 1 \in 1..(MaxRuns + 1) /\ 1 \in 1..(MaxLeases + 1)
    BY BoundsAssumption
  <2>2. \A r \in RunIds : runs[r] = Unused /\ r >= nextRun
    BY BoundsAssumption DEF Init, RunIds
  <2> QED
    BY <2>1, <2>2 DEF Init, TypeOK, Gone, ScheduleVal
<1>2. RunsMatch
  BY DEF Init, RunsMatch, Unused
<1>3. ClaimsMatch
  BY DEF Init, ClaimsMatch, ClaimOnlyOnLiveTask, Unused
<1> QED
  BY <1>1, <1>2, <1>3 DEF IndInv

LEMMA NextIndInv == IndInv /\ [Next]_vars => IndInv'
<1> SUFFICES ASSUME IndInv, [Next]_vars PROVE IndInv'
  OBVIOUS
<1>1. CASE Next
  BY <1>1, PlanStep, ShapeStep, BecomeReadyStep, ClaimStep, DispatchStep, RunStep, ReviewStep,
     RecoveryGroupStep, EnvironmentStep DEF Next
<1>2. CASE UNCHANGED vars
  <2> USE DEF IndInv
  <2>1. UNCHANGED <<taskVars, runs, nextRun, quiet, workers, claims, lapsed, nextLease, failures, circuitOpen>>
    BY <1>2 DEF vars, runVars, claimVars, boardVars
  <2>2. TypeOK'
    BY <2>1 DEF TypeOK, taskVars
  <2> QED
    BY <2>1, <2>2, StatusStep DEF ClaimsMatch, ClaimOnlyOnLiveTask, LiveStatus, taskVars
<1> QED
  BY <1>1, <1>2

\* In every reachable state tasks, runs and claims agree row by row.
THEOREM Agreement == Spec => []IndInv
<1> QED
  BY InitIndInv, NextIndInv, PTL DEF Spec

\* Every variable keeps its type, and run ids are handed out in order.
THEOREM TypeCorrect == Spec => []TypeOK
<1>1. IndInv => TypeOK
  BY DEF IndInv
<1> QED
  BY <1>1, Agreement, PTL

\* A task is running exactly while one run of its history is, after any
\* sequence of claims, dispatches, starts, late results, recoveries and repairs.
THEOREM OneActiveRun == Spec => []RunningIffActiveRun
<1>1. IndInv => RunningIffActiveRun
  <2> SUFFICES ASSUME IndInv, NEW t \in Tasks
               PROVE  IF status[t] = "running" THEN \E r \in RunIds : Active(t) = {r}
                                               ELSE Active(t) = {}
    BY DEF RunningIffActiveRun
  <2>1. CASE status[t] = "running"
    <3>1. Active(t) # {}
      BY <2>1, RunningIsActive DEF IndInv
    <3>2. Active(t) = {ActiveRun(t)} /\ ActiveRun(t) \in RunIds
      BY <3>1, ActiveRunIsActive DEF IndInv, Active
    <3> QED
      BY <2>1, <3>2
  <2>2. CASE status[t] # "running"
    BY <2>2, RunningIsActive DEF IndInv
  <2> QED
    BY <2>1, <2>2
<1> QED
  BY <1>1, Agreement, PTL

\* The claim on a running task is the lease its active run was started under,
\* so a lease left over from an earlier attempt can close nothing.
THEOREM ClaimOfTheRun == Spec => []RunBelongsToClaim
<1>1. IndInv => RunBelongsToClaim
  BY DEF IndInv, ClaimsMatch, RunBelongsToClaim, Active
<1> QED
  BY <1>1, Agreement, PTL

\* No blocked, reviewed, done, archived or deleted task is held by a lease.
THEOREM ClaimsAreLive == Spec => []ClaimOnlyOnLiveTask
<1>1. IndInv => ClaimOnlyOnLiveTask
  BY DEF IndInv, ClaimsMatch
<1> QED
  BY <1>1, Agreement, PTL

-----------------------------------------------------------------------------
(***************************************************************************)
(* Part 2: Board implements TaskLife.                                      *)
(*                                                                         *)
(* The agreement of tasks and runs (IndInv) carries the argument: an       *)
(* operation that closes "the" active run of some tasks closes all their   *)
(* running runs, and those tasks, no others, leave the phase "running".    *)
(* Every operation is then one of four steps: it leaves the phases alone,  *)
(* moves one task that does not run, closes the runs of the tasks it takes *)
(* out of running, or opens a run as well.                                 *)
(***************************************************************************)

history == [r \in RunIds |-> [task |-> runs[r].task, status |-> runs[r].status]]
phase == [t \in Tasks |-> Phase(t)]
LifeStep == [Life!Next]_<<phase, history>>

GivenUp == {"failed", "cancelled", "timed_out"}
OpenStatus == {"triage", "todo", "scheduled", "ready", "blocked"}

\* Statuses that are equal, or both open, are of one phase.
LEMMA SamePhase ==
  ASSUME NEW t \in Tasks, archivedFrom'[t] = archivedFrom[t],
         \/ status'[t] = status[t]
         \/ status[t] \in OpenStatus /\ status'[t] \in OpenStatus
  PROVE  Phase(t)' = Phase(t)
BY DEF Phase, PhaseOf, OpenStatus

\* The phase of a task that is not archived.
LEMMA PhaseFacts ==
  ASSUME NEW t \in Tasks
  PROVE  /\ status[t] \in {"absent", "deleted", "running", "review", "done"} => Phase(t) = status[t]
         /\ status[t] \in OpenStatus => Phase(t) = "open"
         /\ Phase(t) = "running" <=> status[t] = "running"
BY DEF Phase, PhaseOf, OpenStatus

\* An operation that touches neither phases nor runs is no step of TaskLife.
LEMMA NoLifeStep ==
  ASSUME UNCHANGED runs, \A t \in Tasks : Phase(t)' = Phase(t)
  PROVE  LifeStep
<1>1. phase' = phase /\ history' = history
  BY DEF phase, history
<1> QED
  BY <1>1 DEF LifeStep

\* An operation that moves the tasks of S to another phase and touches no run.
LEMMA MoveStep ==
  ASSUME NEW S \in SUBSET Tasks, NEW p, UNCHANGED runs,
         \A t \in S : Phase(t)' = p, \A t \in Tasks \ S : Phase(t)' = Phase(t)
  PROVE  phase' = Life!To(S, p) /\ history' = history
<1>1. phase' = Life!To(S, p)
  BY DEF phase, Life!To
<1>2. history' = history
  BY DEF history
<1> QED
  BY <1>1, <1>2

\* An operation that closes the active runs of the tasks in S moves to phase p those of them
\* that run, and no other task.
LEMMA LeaveStep ==
  ASSUME TypeOK, RunsMatch,
         NEW S \in SUBSET Tasks, NEW outcome, runs' = Closed(S, outcome), NEW p,
         \A t \in S : status[t] = "running" => Phase(t)' = p,
         \A t \in Tasks : ~(t \in S /\ status[t] = "running") => Phase(t)' = Phase(t)
  PROVE  Life!Leave({t \in S : status[t] = "running"}, outcome, p)
<1> DEFINE R == {t \in S : status[t] = "running"}
<1>1. \A t \in R : phase[t] = "running"
  BY PhaseFacts DEF phase
<1>2. phase' = Life!To(R, p)
  BY DEF phase, Life!To
<1>3. \A r \in RunIds : history'[r] = Life!Closed(R, outcome)[r]
  <2>1. TAKE r \in RunIds
  <2>2. runs'[r] = IF runs[r].status = "running" /\ runs[r].task \in S
                   THEN [runs[r] EXCEPT !.status = outcome] ELSE runs[r]
    BY ClosedPointwise
  <2>3. runs[r].status = "running" /\ runs[r].task \in S => runs[r].task \in R
    BY DEF RunsMatch
  <2>4. runs[r] \in RunType \/ runs[r] = Unused
    BY DEF TypeOK, RunType
  <2>5. CASE runs[r].status = "running" /\ runs[r].task \in S
    <3>1. runs[r] \in RunType
      BY <2>4, <2>5 DEF Unused
    <3>2. runs'[r].task = runs[r].task /\ runs'[r].status = outcome
      BY <2>2, <2>5, <3>1 DEF RunType
    <3>3. history'[r] = [task |-> runs[r].task, status |-> outcome]
      BY <3>2 DEF history
    <3>4. Life!Closed(R, outcome)[r] = [[task |-> runs[r].task, status |-> runs[r].status] EXCEPT !.status = outcome]
      BY <2>3, <2>5 DEF Life!Closed, Life!RunIds, RunIds
    <3> QED
      BY <3>3, <3>4
  <2>6. CASE ~(runs[r].status = "running" /\ runs[r].task \in S)
    <3>1. history'[r] = [task |-> runs[r].task, status |-> runs[r].status]
      BY <2>2, <2>6 DEF history
    <3>2. ~(runs[r].status = "running" /\ runs[r].task \in R)
      BY <2>6
    <3>3. Life!Closed(R, outcome)[r] = [task |-> runs[r].task, status |-> runs[r].status]
      BY <3>2 DEF Life!Closed, Life!RunIds, RunIds
    <3> QED
      BY <3>1, <3>3
  <2> QED
    BY <2>5, <2>6
<1>4. history' = Life!Closed(R, outcome)
  BY <1>3 DEF history, Life!Closed, Life!RunIds, RunIds
<1> QED
  BY <1>1, <1>2, <1>4 DEF Life!Leave, phase, history

\* Failing, blocking, cancelling, timing out, archiving and recovering.
LEMMA InterruptLife ==
  ASSUME IndInv, NEW S \in SUBSET Tasks, NEW outcome \in GivenUp, runs' = Closed(S, outcome),
         \A t \in S : status[t] = "running" => Phase(t)' = "open",
         \A t \in Tasks : ~(t \in S /\ status[t] = "running") => Phase(t)' = Phase(t)
  PROVE  LifeStep
<1> DEFINE R == {t \in S : status[t] = "running"}
<1>1. Life!Leave(R, outcome, "open")
  BY LeaveStep DEF IndInv
<1>2. Life!Interrupt(R)
  BY <1>1 DEF Life!Interrupt, GivenUp
<1>3. R \in SUBSET Tasks
  OBVIOUS
<1> QED
  BY <1>2, <1>3 DEF LifeStep, Life!Next

\* Completing a run: the task is done, or in review.
LEMMA FinishLife ==
  ASSUME IndInv, NEW t \in Tasks, Finish(t)
  PROVE  LifeStep
<1> DEFINE finished == [status EXCEPT ![t] = "done"]
<1>1. status[t] = "running" /\ archivedFrom' = archivedFrom
  BY DEF Finish
<1>2. {u \in {t} : status[u] = "running"} = {t}
  BY <1>1
<1>3. CASE t \in gated
  <2>1. status' = [status EXCEPT ![t] = "review"] /\ runs' = Closed({t}, "review_requested")
    BY <1>3 DEF Finish
  <2>2. status'[t] = "review" /\ \A u \in Tasks \ {t} : status'[u] = status[u]
    BY <2>1 DEF IndInv, TypeOK
  <2>3. Phase(t)' = "review"
    BY <2>2 DEF Phase, PhaseOf
  <2>4. \A u \in Tasks \ {t} : Phase(u)' = Phase(u)
    BY <1>1, <2>2, SamePhase
  <2>5. Life!Leave({t}, "review_requested", "review")
    BY <1>2, <2>1, <2>3, <2>4, <1>1, LeaveStep DEF IndInv
  <2> QED
    BY <2>5 DEF LifeStep, Life!Next, Life!AskReview
<1>4. CASE t \notin gated
  <2>1. status' = PromoteDependents(finished, t) /\ runs' = Closed({t}, "done")
    BY <1>4 DEF Finish
  <2>2. /\ finished \in [Tasks -> Status \cup Gone]
        /\ finished[t] = "done" /\ \A u \in Tasks \ {t} : finished[u] = status[u]
    BY DEF IndInv, TypeOK, Status
  <2> HIDE DEF finished
  <2>3. /\ status'[t] = "done"
        /\ \A u \in Tasks \ {t} : status'[u] = status[u] \/ (status[u] = "todo" /\ status'[u] = "ready")
    BY <2>1, <2>2, PromotionFacts
  <2>4. Phase(t)' = "done"
    BY <2>3 DEF Phase, PhaseOf
  <2>5. \A u \in Tasks \ {t} : Phase(u)' = Phase(u)
    BY <1>1, <2>3, SamePhase DEF OpenStatus
  <2>6. Life!Leave({t}, "done", "done")
    BY <1>2, <2>1, <2>4, <2>5, <1>1, LeaveStep DEF IndInv
  <2> QED
    BY <2>6 DEF LifeStep, Life!Next, Life!Complete
<1> QED
  BY <1>3, <1>4

\* Starting a run for t, after the runs of the tasks in S have timed out.
LEMMA BeginLife ==
  ASSUME IndInv, NEW S \in SUBSET Tasks, NEW t \in Tasks, NEW lease, nextRun \in RunIds,
         runs' = [Closed(S, "timed_out") EXCEPT ![nextRun] =
                    [task |-> t, status |-> "running", lease |-> lease]],
         status[t] \in OpenStatus, status'[t] = "running",
         \A u \in S : status[u] = "running" => Phase(u)' = "open",
         \A u \in Tasks \ {t} : ~(u \in S /\ status[u] = "running") => Phase(u)' = Phase(u)
  PROVE  LifeStep
<1> USE DEF IndInv
<1> DEFINE closed == Closed(S, "timed_out")
           n == nextRun
           row == [task |-> t, status |-> "running"]
<1>0. PICK R \in SUBSET Tasks : \A u \in Tasks : u \in R <=> u \in S /\ status[u] = "running"
  <2> WITNESS {u \in S : status[u] = "running"} \in SUBSET Tasks
  <2> QED
    OBVIOUS
<1>1. phase[t] = "open" /\ t \notin R /\ Phase(t)' = "running"
  BY <1>0, PhaseFacts DEF phase, OpenStatus, Phase, PhaseOf
<1>2. \A u \in R : phase[u] = "running"
  BY <1>0, PhaseFacts DEF phase
<1>3. phase' = [Life!To(R, "open") EXCEPT ![t] = "running"]
  BY <1>0, <1>1 DEF phase, Life!To
<1>4. \A q \in RunIds : history[q].status = "unused" <=> q >= n
  <2>1. \A q \in RunIds : runs[q].status = "unused" <=> runs[q] = Unused
    BY DEF TypeOK, Unused, ClosedStatus
  <2> QED
    BY <2>1 DEF TypeOK, history
<1>5. \A r \in RunIds : closed[r] = IF runs[r].status = "running" /\ runs[r].task \in S
                                    THEN [runs[r] EXCEPT !.status = "timed_out"] ELSE runs[r]
  BY ClosedPointwise
<1>6. closed \in [RunIds -> RunType \cup {Unused}]
  BY ClosedFacts DEF ClosedStatus
<1>7. /\ runs'[n] = [task |-> t, status |-> "running", lease |-> lease]
      /\ \A r \in RunIds \ {n} : runs'[r] = closed[r]
  <2>1. runs' = [closed EXCEPT ![n] = [task |-> t, status |-> "running", lease |-> lease]]
    OBVIOUS
  <2> HIDE DEF closed
  <2> QED
    BY <1>6, <2>1
<1> HIDE DEF closed
<1>8. \A r \in RunIds \ {n} : history'[r] = Life!Closed(R, "timed_out")[r]
  <2>1. TAKE r \in RunIds \ {n}
  <2>2. runs[r] \in RunType \/ runs[r] = Unused
    BY DEF TypeOK, RunType
  <2>3. CASE runs[r].status = "running" /\ runs[r].task \in S
    <3>1. runs[r] \in RunType /\ runs[r].task \in R
      BY <1>0, <2>2, <2>3 DEF Unused, RunsMatch, RunType
    <3>2. runs'[r] = [runs[r] EXCEPT !.status = "timed_out"]
      BY <1>5, <1>7, <2>3
    <3>3. runs'[r].task = runs[r].task /\ runs'[r].status = "timed_out"
      BY <3>1, <3>2 DEF RunType
    <3>4. history'[r] = [task |-> runs[r].task, status |-> "timed_out"]
      BY <3>3 DEF history
    <3> QED
      BY <2>3, <3>1, <3>4 DEF Life!Closed, Life!RunIds, RunIds
  <2>4. CASE ~(runs[r].status = "running" /\ runs[r].task \in S)
    <3>1. history'[r] = [task |-> runs[r].task, status |-> runs[r].status]
      BY <1>5, <1>7, <2>4 DEF history
    <3>2. ~(runs[r].status = "running" /\ runs[r].task \in R)
      BY <1>0, <2>4
    <3> QED
      BY <3>1, <3>2 DEF Life!Closed, Life!RunIds, RunIds
  <2> QED
    BY <2>3, <2>4
<1>9. history'[n] = row
  BY <1>7 DEF history
<1>10. history' = [Life!Closed(R, "timed_out") EXCEPT ![n] = row]
  <2> DEFINE before == Life!Closed(R, "timed_out")
  <2>1. before = [r \in RunIds |-> before[r]]
    BY DEF Life!Closed, Life!RunIds, RunIds
  <2>2. history' = [r \in RunIds |-> history'[r]]
    BY DEF history
  <2> HIDE DEF before, row
  <2> QED
    BY <1>8, <1>9, <2>1, <2>2 DEF before
<1>11. Life!Begin(t, R)
  BY <1>1, <1>2, <1>3, <1>4, <1>10 DEF Life!Begin, Life!RunIds, RunIds, phase, history
<1>12. Life!Next
  BY <1>11 DEF Life!Next
<1> QED
  BY <1>12 DEF LifeStep

\* Starting a run when no other is closed.
LEMMA StartLife ==
  ASSUME IndInv, NEW t \in Tasks, NEW lease, RunStarted(runs, t, lease),
         status[t] \in OpenStatus, status' = [status EXCEPT ![t] = "running"],
         UNCHANGED archivedFrom
  PROVE  LifeStep
<1>1. Closed({}, "timed_out") = runs
  BY DEF Closed, IndInv, TypeOK
<1>2. /\ nextRun \in RunIds
      /\ runs' = [Closed({}, "timed_out") EXCEPT ![nextRun] =
                    [task |-> t, status |-> "running", lease |-> lease]]
  BY <1>1 DEF RunStarted
<1>3. status'[t] = "running" /\ \A u \in Tasks \ {t} : status'[u] = status[u]
  BY DEF IndInv, TypeOK
<1>4. \A u \in Tasks \ {t} : Phase(u)' = Phase(u)
  BY <1>3, SamePhase
<1> QED
  BY <1>2, <1>3, <1>4, BeginLife

-----------------------------------------------------------------------------
(* The operations, group by group *)

LEMMA PlanLife == IndInv /\ Plan => LifeStep
<1> SUFFICES ASSUME IndInv,
                    NEW new \in SUBSET {t \in Tasks : status[t] = "absent"},
                    NEW edges \in [new -> SUBSET new], NEW input \in [new -> CreateInputs],
                    CreatePlan(new, edges, input)
             PROVE  LifeStep
  BY DEF Plan
<1>1. \A t \in new : phase[t] = "absent" /\ Phase(t)' = "open"
  BY InputAssumption DEF phase, Phase, PhaseOf, CreatePlan, NewTask
<1>2. \A t \in Tasks \ new : Phase(t)' = Phase(t)
  BY DEF Phase, CreatePlan
<1>3. UNCHANGED runs
  BY DEF CreatePlan, runVars
<1>4. new \in SUBSET Tasks
  OBVIOUS
<1>5. Life!Create(new)
  BY <1>1, <1>2, <1>3, <1>4, MoveStep DEF Life!Create, phase, history
<1> QED
  BY <1>4, <1>5 DEF LifeStep, Life!Next

LEMMA ShapeLife == IndInv /\ Shape => LifeStep
<1> SUFFICES ASSUME IndInv, Shape PROVE LifeStep
  OBVIOUS
<1> USE DEF IndInv
<1>1. ASSUME NEW t \in Tasks,
             \/ AcceptTriage(t)
             \/ \E a \in Agents \cup {NoAgent} : Reassign(t, a)
             \/ \E required \in BOOLEAN : SetReviewGate(t, required)
             \/ \E d \in Tasks : LinkDependency(t, d) \/ RemoveDependency(t, d)
             \/ \E when \in {"future", "due"} : ScheduleTask(t, when)
      PROVE  LifeStep
  <2>1. UNCHANGED runs /\ UNCHANGED archivedFrom
    BY <1>1 DEF AcceptTriage, Reassign, SetReviewGate, LinkDependency, RemoveDependency,
                ScheduleTask, runVars
  <2>2. ASSUME NEW u \in Tasks
        PROVE  status'[u] = status[u] \/ (status[u] \in OpenStatus /\ status'[u] \in OpenStatus)
    BY <1>1 DEF AcceptTriage, Reassign, SetReviewGate, LinkDependency, RemoveDependency,
                ScheduleTask, TypeOK, Status, Gone, Exists, OpenStatus
  <2> QED
    BY <2>1, <2>2, SamePhase, NoLifeStep
<1>2. ASSUME NEW t \in Tasks, DeleteTask(t) PROVE LifeStep
  <2>1. status[t] \notin Gone \cup {"running"}
    BY <1>2, RunningIsActive DEF DeleteTask, Exists
  <2>2. phase[t] \in {"open", "review", "done"}
    BY <2>1 DEF phase, Phase, PhaseOf, TypeOK, Status, Gone
  <2>3. Phase(t)' = "deleted" /\ \A u \in Tasks \ {t} : Phase(u)' = Phase(u)
    BY <1>2 DEF Phase, PhaseOf, DeleteTask, TypeOK
  <2>4. phase' = Life!To({t}, "deleted") /\ history' = history
    BY <1>2, <2>3, MoveStep DEF DeleteTask, runVars
  <2>5. Life!Delete(t)
    BY <2>2, <2>4 DEF Life!Delete, phase, history
  <2> QED
    BY <2>5 DEF LifeStep, Life!Next
<1>3. ASSUME NEW t \in Tasks, ArchiveTask(t) PROVE LifeStep
  <2>1. \A u \in Tasks \ {t} : Phase(u)' = Phase(u)
    BY <1>3 DEF Phase, ArchiveTask, TypeOK
  <2>2. Phase(t)' = IF status[t] = "running" THEN "open" ELSE Phase(t)
    BY <1>3 DEF Phase, PhaseOf, ArchiveTask, TypeOK
  <2>3. runs' = Closed({t}, "cancelled")
    BY <1>3 DEF ArchiveTask
  <2> QED
    BY <2>1, <2>2, <2>3, InterruptLife DEF GivenUp
<1>4. ASSUME NEW t \in Tasks, RestoreTask(t) PROVE LifeStep
  <2>1. \A u \in Tasks \ {t} : Phase(u)' = Phase(u)
    BY <1>4 DEF Phase, RestoreTask, TypeOK
  <2>2. Phase(t)' = Phase(t)
    <3> DEFINE previous == IF archivedFrom[t] = "none" THEN "todo" ELSE archivedFrom[t]
    <3>1. status[t] = "archived" /\ previous \in Status \ {"archived"}
      BY <1>4 DEF RestoreTask, TypeOK, Status
    <3>2. status'[t] = CASE previous = "running"                            -> "blocked"
                         [] previous = "scheduled" /\ Due(t) /\ DepsDone(t) -> "ready"
                         [] previous = "ready" /\ ~DepsDone(t)              -> "todo"
                         [] OTHER                                           -> previous
      BY <1>4 DEF RestoreTask, TypeOK
    <3>3. Phase(t) = IF previous = "running" THEN "open" ELSE PhaseOf(previous)
      BY <3>1 DEF Phase, PhaseOf
    <3>4. CASE previous \in {"running", "scheduled", "ready"}
      <4>1. status'[t] \in OpenStatus
        BY <3>2, <3>4 DEF OpenStatus
      <4> QED
        BY <3>3, <3>4, <4>1 DEF Phase, PhaseOf, OpenStatus
    <3>5. CASE previous \notin {"running", "scheduled", "ready"}
      <4>1. status'[t] = previous
        BY <3>2, <3>5
      <4> QED
        BY <3>1, <3>3, <3>5, <4>1 DEF Phase, Status
    <3> QED
      BY <3>4, <3>5
  <2> QED
    BY <1>4, <2>1, <2>2, NoLifeStep DEF RestoreTask, runVars
<1> QED
  <2>1. CASE \E t \in Tasks : AcceptTriage(t) \/ \E a \in Agents \cup {NoAgent} : Reassign(t, a)
    BY <1>1, <2>1
  <2>2. CASE \E t \in Reviewed, required \in BOOLEAN : SetReviewGate(t, required)
    BY <1>1, <2>2, InputAssumption
  <2>3. CASE \E link \in Links : LinkDependency(link[1], link[2]) \/ RemoveDependency(link[1], link[2])
    BY <1>1, <2>3, InputAssumption
  <2>4. CASE \E t \in Scheduled, when \in {"future", "due"} : ScheduleTask(t, when)
    BY <1>1, <2>4, InputAssumption
  <2>5. CASE \E t \in Deleted : DeleteTask(t)
    BY <1>2, <2>5, InputAssumption
  <2>6. CASE \E t \in Archived : ArchiveTask(t) \/ RestoreTask(t)
    BY <1>3, <1>4, <2>6, InputAssumption
  <2> QED
    BY <2>1, <2>2, <2>3, <2>4, <2>5, <2>6 DEF Shape

LEMMA BecomeReadyLife == IndInv /\ BecomeReady => LifeStep
<1> SUFFICES ASSUME IndInv, BecomeReady PROVE LifeStep
  OBVIOUS
<1>1. UNCHANGED runs /\ UNCHANGED archivedFrom
  BY DEF BecomeReady, MarkReady, PromoteScheduledTask, PromoteDueTasks, Promote, UnblockTask, runVars
<1>2. ASSUME NEW u \in Tasks
      PROVE  status'[u] = status[u] \/ (status[u] \in OpenStatus /\ status'[u] \in OpenStatus)
  BY DEF BecomeReady, MarkReady, PromoteScheduledTask, PromoteDueTasks, Promote, UnblockTask,
         SetStatus, DueTasks, IndInv, TypeOK, OpenStatus
<1> QED
  BY <1>1, <1>2, SamePhase, NoLifeStep

\* The statuses after the lapsed claims of S have been recovered.
LEMMA RecoveredStatus ==
  ASSUME IndInv, NEW S \in SUBSET Tasks, NEW st, NEW u \in Tasks
  PROVE  StatusAfterRecovery(st, S)[u] =
           IF u \in S /\ (status[u] = "running" \/ st[u] = "running") THEN "blocked" ELSE st[u]
BY RunningIsActive DEF IndInv, StatusAfterRecovery

\* What a dispatch does to the statuses before it selects a task.
LEMMA SelectionStatus ==
  ASSUME IndInv, NEW u \in Tasks
  PROVE  IF u \in lapsed /\ status[u] = "running" THEN StatusBeforeSelection[u] = "blocked"
         ELSE \/ StatusBeforeSelection[u] = status[u]
              \/ status[u] = "scheduled" /\ StatusBeforeSelection[u] = "ready"
<1> DEFINE st == SetStatus(DueTasks, "ready")
<1>1. st[u] = status[u] \/ (status[u] = "scheduled" /\ st[u] = "ready")
  BY DEF SetStatus, DueTasks
<1>2. lapsed \in SUBSET Tasks
  BY DEF IndInv, TypeOK
<1> HIDE DEF st
<1>3. StatusAfterRecovery(st, lapsed)[u] =
        IF u \in lapsed /\ (status[u] = "running" \/ st[u] = "running") THEN "blocked" ELSE st[u]
  BY <1>2, RecoveredStatus
<1> QED
  BY <1>1, <1>3 DEF st, StatusBeforeSelection

LEMMA ClaimLife == IndInv /\ Claim => LifeStep
<1> SUFFICES ASSUME IndInv, Claim PROVE LifeStep
  OBVIOUS
<1>1. ASSUME NEW t \in Tasks, ClaimTask(t) PROVE LifeStep
  <2> DEFINE S == {t} \cap lapsed
  <2>1. /\ S \in SUBSET Tasks /\ runs' = Closed(S, "timed_out")
        /\ status' = StatusAfterRecovery(status, S) /\ archivedFrom' = archivedFrom
    BY <1>1 DEF ClaimTask, RunsAfterRecovery
  <2> HIDE DEF S
  <2>2. \A u \in Tasks : status'[u] = IF u \in S /\ status[u] = "running" THEN "blocked" ELSE status[u]
    BY <2>1, RecoveredStatus
  <2>3. \A u \in S : status[u] = "running" => Phase(u)' = "open"
    BY <2>1, <2>2 DEF Phase, PhaseOf
  <2>4. \A u \in Tasks : ~(u \in S /\ status[u] = "running") => Phase(u)' = Phase(u)
    BY <2>1, <2>2, SamePhase
  <2> QED
    BY <2>1, <2>3, <2>4, InterruptLife DEF GivenUp
<1>2. ASSUME NEW t \in Tasks, NEW lease \in Leases, HeartbeatClaim(t, lease) \/ ReleaseClaim(t, lease)
      PROVE  LifeStep
  <2>1. UNCHANGED <<runs, status, archivedFrom>>
    BY <1>2 DEF HeartbeatClaim, ReleaseClaim, taskVars, runVars
  <2> QED
    BY <2>1, SamePhase, NoLifeStep
<1>3. ASSUME NEW t \in Tasks, NEW lease \in Leases, StartClaimedTask(t, lease) PROVE LifeStep
  BY <1>3, StartLife DEF StartClaimedTask, OpenStatus
<1>4. ASSUME NEW t \in Tasks, NEW lease \in Leases, CompleteClaimedTask(t, lease) PROVE LifeStep
  BY <1>4, FinishLife DEF CompleteClaimedTask
<1>5. ASSUME NEW t \in Tasks, NEW lease \in Leases, NEW infrastructure \in BOOLEAN,
             RecordDispatchFailure(t, lease, infrastructure)
      PROVE  LifeStep
  <2>1. status[t] = "running"
    BY <1>5, RunningIsActive DEF RecordDispatchFailure, IndInv
  <2>2. archivedFrom' = archivedFrom /\ runs' = Closed({t}, "failed")
    BY <1>5 DEF RecordDispatchFailure
  <2>3. status'[t] \in {"scheduled", "blocked"} /\ \A u \in Tasks \ {t} : status'[u] = status[u]
    BY <1>5 DEF RecordDispatchFailure, IndInv, TypeOK
  <2>4. Phase(t)' = "open"
    BY <2>3 DEF Phase, PhaseOf
  <2>5. \A u \in Tasks \ {t} : Phase(u)' = Phase(u)
    BY <2>2, <2>3, SamePhase
  <2> QED
    BY <2>1, <2>2, <2>4, <2>5, InterruptLife DEF GivenUp
<1> QED
  BY <1>1, <1>2, <1>3, <1>4, <1>5 DEF Claim

LEMMA DispatchLife == IndInv /\ Dispatch => LifeStep
<1> SUFFICES ASSUME IndInv, Dispatch PROVE LifeStep
  OBVIOUS
<1>1. lapsed \in SUBSET Tasks
  BY DEF IndInv, TypeOK
<1>2. CASE DispatchNothing
  <2>1. /\ status' = StatusBeforeSelection /\ archivedFrom' = archivedFrom
        /\ runs' = Closed(lapsed, "timed_out")
    BY <1>2 DEF DispatchNothing, RunsAfterRecovery
  <2>2. \A u \in lapsed : status[u] = "running" => Phase(u)' = "open"
    BY <1>1, <2>1, SelectionStatus DEF Phase, PhaseOf
  <2>3. \A u \in Tasks : ~(u \in lapsed /\ status[u] = "running") => Phase(u)' = Phase(u)
    BY <2>1, SelectionStatus, SamePhase DEF OpenStatus
  <2> QED
    BY <1>1, <2>1, <2>2, <2>3, InterruptLife DEF GivenUp
<1>3. ASSUME NEW t \in Tasks, DispatchTask(t) PROVE LifeStep
  <2>1. /\ StatusBeforeSelection[t] = "ready" /\ nextRun \in RunIds
        /\ status' = [StatusBeforeSelection EXCEPT ![t] = "running"] /\ archivedFrom' = archivedFrom
        /\ runs' = [Closed(lapsed, "timed_out") EXCEPT ![nextRun] =
                       [task |-> t, status |-> "running", lease |-> nextLease]]
    BY <1>3 DEF DispatchTask, Selectable, RunsAfterRecovery
  <2>2. /\ status'[t] = "running"
        /\ \A u \in Tasks \ {t} : status'[u] = StatusBeforeSelection[u]
    BY <2>1 DEF StatusBeforeSelection, StatusAfterRecovery
  <2>3. status[t] \in OpenStatus
    BY <2>1, SelectionStatus DEF OpenStatus
  <2>4. \A u \in lapsed : status[u] = "running" => Phase(u)' = "open"
    <3>1. TAKE u \in lapsed
    <3>2. HAVE status[u] = "running"
    <3>3. u \in Tasks \ {t}
      BY <1>1, <2>3, <3>2 DEF OpenStatus
    <3> QED
      BY <2>2, <3>2, <3>3, SelectionStatus DEF Phase, PhaseOf
  <2>5. \A u \in Tasks \ {t} : ~(u \in lapsed /\ status[u] = "running") => Phase(u)' = Phase(u)
    BY <2>1, <2>2, SelectionStatus, SamePhase DEF OpenStatus
  <2> QED
    BY <1>1, <2>1, <2>2, <2>3, <2>4, <2>5, BeginLife
<1> QED
  BY <1>2, <1>3 DEF Dispatch

\* Interrupt(S, outcome): the tasks of S are blocked; none of them is done, in review or archived.
LEMMA BlockedLife ==
  ASSUME IndInv, NEW S \in SUBSET Tasks, NEW outcome \in GivenUp, Interrupt(S, outcome),
         \A t \in S : status[t] \in OpenStatus \cup {"running"}
  PROVE  LifeStep
<1>1. /\ runs' = Closed(S, outcome) /\ archivedFrom' = archivedFrom
      /\ \A u \in Tasks : status'[u] = IF u \in S THEN "blocked" ELSE status[u]
  BY DEF Interrupt, SetStatus
<1>2. \A u \in S : status[u] = "running" => Phase(u)' = "open"
  BY <1>1 DEF Phase, PhaseOf
<1>3. \A u \in Tasks : ~(u \in S /\ status[u] = "running") => Phase(u)' = Phase(u)
  BY <1>1, SamePhase DEF OpenStatus
<1> QED
  BY <1>1, <1>2, <1>3, InterruptLife

LEMMA RunLife == IndInv /\ Run => LifeStep
<1> SUFFICES ASSUME IndInv, Run PROVE LifeStep
  OBVIOUS
<1>1. ASSUME NEW t \in Tasks, StartTask(t) \/ RunBoardTask(t) PROVE LifeStep
  <2>1. /\ RunStarted(runs, t, NoLease) /\ status[t] \in OpenStatus
        /\ status' = [status EXCEPT ![t] = "running"] /\ UNCHANGED archivedFrom
    BY <1>1 DEF StartTask, RunBoardTask, Start, OpenStatus
  <2> QED
    BY <2>1, StartLife
<1>2. ASSUME NEW t \in Tasks, HeartbeatTask(t) PROVE LifeStep
  <2>1. UNCHANGED <<runs, status, archivedFrom>>
    BY <1>2 DEF HeartbeatTask, taskVars
  <2> QED
    BY <2>1, SamePhase, NoLifeStep
<1>3. ASSUME NEW t \in Tasks, CompleteTask(t) PROVE LifeStep
  BY <1>3, FinishLife DEF CompleteTask
<1>4. ASSUME NEW t \in Tasks,
             FailTask(t) \/ \E outcome \in {"cancelled", "timed_out"} : CloseActiveRun(t, outcome)
      PROVE  LifeStep
  <2>1. PICK outcome \in GivenUp : Interrupt({t}, outcome)
    BY <1>4 DEF FailTask, CloseActiveRun, GivenUp
  <2>2. status[t] = "running"
    BY <1>4, RunningIsActive DEF FailTask, CloseActiveRun, IndInv
  <2> QED
    BY <2>1, <2>2, BlockedLife
<1>5. ASSUME NEW t \in Tasks, BlockTask(t) PROVE LifeStep
  <2>1. status[t] \in OpenStatus \cup {"running"}
    BY <1>5 DEF BlockTask, Exists, IndInv, TypeOK, Status, Gone, OpenStatus
  <2> QED
    BY <1>5, <2>1, BlockedLife DEF BlockTask, GivenUp
<1>6. ASSUME NEW r \in RunIds, WorkerCompletes(r) \/ WorkerFails(r) PROVE LifeStep
  <2> DEFINE t == runs[r].task
  <2>1. CASE UNCHANGED <<taskVars, runs>>
    BY <2>1, SamePhase, NoLifeStep DEF taskVars
  <2>2. CASE Active(t) # {} /\ (Finish(t) \/ Interrupt({t}, "failed"))
    <3>1. t \in Tasks
      BY <2>2, UnusedHasNoRun DEF IndInv
    <3>2. status[t] = "running"
      BY <2>2, <3>1, RunningIsActive DEF IndInv
    <3> HIDE DEF t
    <3>3. CASE Finish(t)
      BY <3>1, <3>3, FinishLife
    <3>4. CASE Interrupt({t}, "failed")
      BY <3>1, <3>2, <3>4, BlockedLife DEF GivenUp
    <3> QED
      BY <2>2, <3>3, <3>4
  <2> QED
    BY <1>6, <2>1, <2>2 DEF WorkerCompletes, WorkerFails
<1> QED
  BY <1>1, <1>2, <1>3, <1>4, <1>5, <1>6 DEF Run

LEMMA ReviewLife == IndInv /\ Review => LifeStep
<1> SUFFICES ASSUME IndInv, Review PROVE LifeStep
  OBVIOUS
<1>1. ASSUME NEW t \in Tasks, RequestReview(t) PROVE LifeStep
  <2>1. /\ status[t] = "running" /\ runs' = Closed({t}, "review_requested")
        /\ status'[t] = "review" /\ \A u \in Tasks \ {t} : status'[u] = status[u]
        /\ archivedFrom' = archivedFrom
    BY <1>1 DEF RequestReview, IndInv, TypeOK
  <2>2. Phase(t)' = "review"
    BY <2>1 DEF Phase, PhaseOf
  <2>3. \A u \in Tasks \ {t} : Phase(u)' = Phase(u)
    BY <2>1, SamePhase
  <2>4. {u \in {t} : status[u] = "running"} = {t}
    BY <2>1
  <2>5. Life!Leave({t}, "review_requested", "review")
    BY <2>1, <2>2, <2>3, <2>4, LeaveStep DEF IndInv
  <2> QED
    BY <2>5 DEF LifeStep, Life!Next, Life!AskReview
<1>2. ASSUME NEW t \in Tasks, ApproveReview(t) PROVE LifeStep
  <2> DEFINE finished == [status EXCEPT ![t] = "done"]
  <2>1. /\ status[t] = "review" /\ status' = PromoteDependents(finished, t)
        /\ UNCHANGED <<archivedFrom, runs>>
    BY <1>2 DEF ApproveReview, runVars
  <2>2. /\ finished \in [Tasks -> Status \cup Gone]
        /\ finished[t] = "done" /\ \A u \in Tasks \ {t} : finished[u] = status[u]
    BY DEF IndInv, TypeOK, Status
  <2> HIDE DEF finished
  <2>3. /\ status'[t] = "done"
        /\ \A u \in Tasks \ {t} : status'[u] = status[u] \/ (status[u] = "todo" /\ status'[u] = "ready")
    BY <2>1, <2>2, PromotionFacts
  <2>4. Phase(t)' = "done" /\ phase[t] = "review"
    BY <2>1, <2>3 DEF phase, Phase, PhaseOf
  <2>5. \A u \in Tasks \ {t} : Phase(u)' = Phase(u)
    BY <2>1, <2>3, SamePhase DEF OpenStatus
  <2>6. Life!Approve(t)
    BY <2>1, <2>4, <2>5, MoveStep DEF Life!Approve, phase, history
  <2> QED
    BY <2>6 DEF LifeStep, Life!Next
<1>3. ASSUME NEW t \in Tasks, RequestChanges(t) PROVE LifeStep
  <2>1. Phase(t)' = "open" /\ phase[t] = "review" /\ \A u \in Tasks \ {t} : Phase(u)' = Phase(u)
    BY <1>3 DEF RequestChanges, phase, Phase, PhaseOf, IndInv, TypeOK
  <2>2. Life!Reject(t)
    BY <1>3, <2>1, MoveStep DEF RequestChanges, runVars, Life!Reject, phase, history
  <2> QED
    BY <2>2 DEF LifeStep, Life!Next
<1>4. ASSUME NEW t \in Tasks, ReopenReview(t) PROVE LifeStep
  <2>1. Phase(t)' = "review" /\ phase[t] = "open" /\ \A u \in Tasks \ {t} : Phase(u)' = Phase(u)
    BY <1>4 DEF ReopenReview, phase, Phase, PhaseOf, IndInv, TypeOK
  <2>2. PICK r \in RunIds : runs[r].task = t /\ runs[r].status = "review_requested"
    BY <1>4 DEF ReopenReview
  <2>3. \E q \in Life!RunIds : history[q].task = t /\ history[q].status = "review_requested"
    BY <2>2 DEF history, Life!RunIds, RunIds
  <2>4. phase' = Life!To({t}, "review") /\ history' = history
    BY <1>4, <2>1, MoveStep DEF ReopenReview, runVars
  <2>5. Life!Reopen(t)
    BY <2>1, <2>3, <2>4 DEF Life!Reopen, phase, history
  <2> QED
    BY <2>5 DEF LifeStep, Life!Next
<1> QED
  BY <1>1, <1>2, <1>3, <1>4 DEF Review

-----------------------------------------------------------------------------
(* Silent runs *)

\* The tasks recoverTimedOutRuns and recoverStaleRuns find have a run to close.
QuietRuns == \A t \in quiet : status[t] = "running"

LEMMA QuietFinish ==
  ASSUME IndInv, QuietRuns, NEW t \in Tasks, Finish(t)
  PROVE  QuietRuns'
<1> DEFINE finished == [status EXCEPT ![t] = "done"]
<1>1. /\ quiet' = quiet \ {t} /\ status[t] = "running" /\ quiet \subseteq Tasks
      /\ \/ status' = [status EXCEPT ![t] = "review"]
         \/ status' = PromoteDependents(finished, t)
  BY DEF Finish, IndInv, TypeOK
<1>2. /\ finished \in [Tasks -> Status \cup Gone] /\ finished[t] = "done"
      /\ \A u \in Tasks \ {t} : finished[u] = status[u]
  BY DEF IndInv, TypeOK, Status
<1> HIDE DEF finished
<1>3. \A u \in Tasks \ {t} : status'[u] = status[u] \/ (status[u] = "todo" /\ status'[u] = "ready")
  BY <1>1, <1>2, PromotionFacts DEF IndInv, TypeOK
<1> QED
  BY <1>1, <1>3 DEF QuietRuns

LEMMA QuietStep == IndInv /\ QuietRuns /\ [Next]_vars => QuietRuns'
<1> SUFFICES ASSUME IndInv, QuietRuns, [Next]_vars PROVE QuietRuns'
  OBVIOUS
<1> USE DEF IndInv
<1>1. quiet \subseteq Tasks
  BY DEF TypeOK
<1>2. CASE Plan
  BY <1>1, <1>2 DEF Plan, CreatePlan, QuietRuns, runVars
<1>3. CASE Shape
  <2>1. CASE \E u \in Tasks : AcceptTriage(u) \/ \E a \in Agents \cup {NoAgent} : Reassign(u, a)
    BY <1>1, <2>1 DEF AcceptTriage, Reassign, QuietRuns, TypeOK, runVars
  <2>2. CASE \E u \in Reviewed, required \in BOOLEAN : SetReviewGate(u, required)
    BY <2>2 DEF SetReviewGate, QuietRuns, runVars
  <2>3. CASE \E link \in Links : LinkDependency(link[1], link[2]) \/ RemoveDependency(link[1], link[2])
    <3>1. PICK u \in Tasks, d \in Tasks : LinkDependency(u, d) \/ RemoveDependency(u, d)
      BY <2>3, InputAssumption
    <3> QED
      BY <1>1, <3>1 DEF LinkDependency, RemoveDependency, QuietRuns, TypeOK, runVars
  <2>4. CASE \E u \in Deleted : DeleteTask(u)
    <3>1. PICK u \in Tasks : DeleteTask(u)
      BY <2>4, InputAssumption
    <3>2. status[u] # "running"
      BY <3>1, RunningIsActive DEF DeleteTask
    <3> QED
      BY <1>1, <3>1, <3>2 DEF DeleteTask, QuietRuns, TypeOK, runVars
  <2>5. CASE \E u \in Scheduled, when \in {"future", "due"} : ScheduleTask(u, when)
    BY <1>1, <2>5 DEF ScheduleTask, QuietRuns, TypeOK, runVars
  <2>6. CASE \E u \in Archived : ArchiveTask(u) \/ RestoreTask(u)
    BY <1>1, <2>6 DEF ArchiveTask, RestoreTask, QuietRuns, TypeOK, runVars
  <2> QED
    BY <1>3, <2>1, <2>2, <2>3, <2>4, <2>5, <2>6 DEF Shape
<1>4. CASE BecomeReady
  BY <1>1, <1>4
     DEF BecomeReady, MarkReady, PromoteScheduledTask, PromoteDueTasks, Promote, UnblockTask,
         SetStatus, DueTasks, QuietRuns, TypeOK, runVars
<1>5. CASE Claim
  <2>1. ASSUME NEW t \in Tasks, ClaimTask(t) PROVE QuietRuns'
    <3> DEFINE S == {t} \cap lapsed
    <3>1. status' = StatusAfterRecovery(status, S) /\ quiet' = quiet \ S /\ S \in SUBSET Tasks
      BY <2>1 DEF ClaimTask
    <3> HIDE DEF S
    <3>2. \A u \in Tasks : status'[u] = IF u \in S /\ status[u] = "running" THEN "blocked" ELSE status[u]
      BY <3>1, RecoveredStatus
    <3> QED
      BY <1>1, <3>1, <3>2 DEF QuietRuns
  <2>2. ASSUME NEW t \in Tasks, NEW lease \in Leases, HeartbeatClaim(t, lease) \/ ReleaseClaim(t, lease)
        PROVE  QuietRuns'
    BY <2>2 DEF HeartbeatClaim, ReleaseClaim, QuietRuns, taskVars, runVars
  <2>3. ASSUME NEW t \in Tasks, NEW lease \in Leases, StartClaimedTask(t, lease) PROVE QuietRuns'
    BY <1>1, <2>3 DEF StartClaimedTask, RunStarted, QuietRuns, TypeOK
  <2>4. ASSUME NEW t \in Tasks, NEW lease \in Leases, CompleteClaimedTask(t, lease) PROVE QuietRuns'
    BY <2>4, QuietFinish DEF CompleteClaimedTask
  <2>5. ASSUME NEW t \in Tasks, NEW lease \in Leases, NEW infrastructure \in BOOLEAN,
               RecordDispatchFailure(t, lease, infrastructure)
        PROVE  QuietRuns'
    BY <1>1, <2>5 DEF RecordDispatchFailure, QuietRuns, TypeOK
  <2> QED
    BY <1>5, <2>1, <2>2, <2>3, <2>4, <2>5 DEF Claim
<1>6. CASE Dispatch
  <2>1. \A u \in quiet : IF u \in lapsed THEN StatusBeforeSelection[u] = "blocked"
                         ELSE StatusBeforeSelection[u] = "running"
    BY <1>1, SelectionStatus DEF QuietRuns
  <2>2. CASE DispatchNothing
    BY <2>1, <2>2 DEF DispatchNothing, QuietRuns
  <2>3. ASSUME NEW t \in Tasks, DispatchTask(t) PROVE QuietRuns'
    <3>1. \A u \in Tasks : status'[u] = "running" \/ status'[u] = StatusBeforeSelection[u]
      BY <2>3 DEF DispatchTask, StatusBeforeSelection, StatusAfterRecovery
    <3> QED
      BY <1>1, <2>1, <2>3, <3>1 DEF DispatchTask, QuietRuns
  <2> QED
    BY <1>6, <2>2, <2>3 DEF Dispatch
<1>7. CASE Run
  <2>1. ASSUME NEW t \in Tasks, StartTask(t) \/ RunBoardTask(t) PROVE QuietRuns'
    BY <1>1, <2>1 DEF StartTask, RunBoardTask, Start, RunStarted, QuietRuns, TypeOK
  <2>2. ASSUME NEW t \in Tasks, HeartbeatTask(t) PROVE QuietRuns'
    BY <2>2 DEF HeartbeatTask, QuietRuns, taskVars
  <2>3. ASSUME NEW t \in Tasks, CompleteTask(t) PROVE QuietRuns'
    BY <2>3, QuietFinish DEF CompleteTask
  <2>4. ASSUME NEW t \in Tasks,
               \/ FailTask(t) \/ BlockTask(t)
               \/ \E outcome \in {"cancelled", "timed_out"} : CloseActiveRun(t, outcome)
        PROVE  QuietRuns'
    BY <1>1, <2>4 DEF FailTask, BlockTask, CloseActiveRun, Interrupt, SetStatus, QuietRuns
  <2>5. ASSUME NEW r \in RunIds, WorkerCompletes(r) \/ WorkerFails(r) PROVE QuietRuns'
    <3> DEFINE t == runs[r].task
    <3>1. CASE UNCHANGED <<taskVars, quiet>>
      BY <3>1 DEF QuietRuns, taskVars
    <3>2. CASE Active(t) # {} /\ Finish(t)
      BY <3>2, UnusedHasNoRun, QuietFinish
    <3>3. CASE Interrupt({t}, "failed")
      BY <1>1, <3>3 DEF Interrupt, SetStatus, QuietRuns
    <3> QED
      BY <2>5, <3>1, <3>2, <3>3 DEF WorkerCompletes, WorkerFails
  <2> QED
    BY <1>7, <2>1, <2>2, <2>3, <2>4, <2>5 DEF Run
<1>8. CASE Review
  <2>1. ASSUME NEW t \in Tasks, RequestReview(t) \/ RequestChanges(t) \/ ReopenReview(t)
        PROVE  QuietRuns'
    BY <1>1, <2>1 DEF RequestReview, RequestChanges, ReopenReview, QuietRuns, TypeOK, runVars
  <2>2. ASSUME NEW t \in Tasks, ApproveReview(t) PROVE QuietRuns'
    <3> DEFINE finished == [status EXCEPT ![t] = "done"]
    <3>1. status' = PromoteDependents(finished, t) /\ quiet' = quiet /\ status[t] = "review"
      BY <2>2 DEF ApproveReview, runVars
    <3>2. /\ finished \in [Tasks -> Status \cup Gone] /\ finished[t] = "done"
          /\ \A u \in Tasks \ {t} : finished[u] = status[u]
      BY DEF TypeOK, Status
    <3> HIDE DEF finished
    <3>3. \A u \in Tasks \ {t} : status'[u] = status[u] \/ (status[u] = "todo" /\ status'[u] = "ready")
      BY <3>1, <3>2, PromotionFacts
    <3> QED
      BY <1>1, <3>1, <3>3 DEF QuietRuns
  <2> QED
    BY <1>8, <2>1, <2>2 DEF Review
<1>9. CASE Recovery
  <2>1. CASE RecoverExpiredClaims
    <3>1. \A u \in Tasks : status'[u] = IF u \in lapsed /\ status[u] = "running" THEN "blocked" ELSE status[u]
      BY <2>1, RecoveredStatus DEF RecoverExpiredClaims, TypeOK
    <3> QED
      BY <1>1, <2>1, <3>1 DEF RecoverExpiredClaims, QuietRuns
  <2>2. ASSUME NEW S \in SUBSET Tasks, NEW outcome, RecoverSilentRuns(S, outcome) PROVE QuietRuns'
    BY <1>1, <2>2 DEF RecoverSilentRuns, Interrupt, SetStatus, QuietRuns
  <2>3. CASE Repair
    <3> DEFINE S == {t \in lapsed : status[t] = "running"}
    <3>1. status' = SetStatus(S, "blocked") /\ quiet' = quiet \ S
      BY <2>3, RepairFacts
    <3> HIDE DEF S
    <3> QED
      BY <1>1, <3>1 DEF SetStatus, QuietRuns
  <2> QED
    BY <1>9, <2>1, <2>2, <2>3 DEF Recovery
<1>10. CASE Environment
  <2>1. UNCHANGED status
    BY <1>10 DEF Environment, LeaseLapses, ScheduleComesDue, RunFallsSilent, CircuitCoolsDown,
                 BridgeRestarts, taskVars
  <2>2. \A u \in quiet' : u \in quiet \/ (u \in Tasks /\ Active(u) # {})
    BY <1>10 DEF Environment, LeaseLapses, ScheduleComesDue, RunFallsSilent, CircuitCoolsDown,
                 BridgeRestarts, runVars
  <2> QED
    BY <2>1, <2>2, RunningIsActive DEF QuietRuns
<1>11. CASE UNCHANGED vars
  BY <1>11 DEF vars, taskVars, runVars, QuietRuns
<1> QED
  BY <1>2, <1>3, <1>4, <1>5, <1>6, <1>7, <1>8, <1>9, <1>10, <1>11 DEF Next

LEMMA RecoveryLife == IndInv /\ QuietRuns /\ Recovery => LifeStep
<1> SUFFICES ASSUME IndInv, QuietRuns, Recovery PROVE LifeStep
  OBVIOUS
<1>1. CASE RecoverExpiredClaims
  <2>1. /\ lapsed \in SUBSET Tasks /\ runs' = Closed(lapsed, "timed_out")
        /\ status' = StatusAfterRecovery(status, lapsed) /\ archivedFrom' = archivedFrom
    BY <1>1 DEF RecoverExpiredClaims, RunsAfterRecovery, IndInv, TypeOK
  <2>2. \A u \in Tasks : status'[u] = IF u \in lapsed /\ status[u] = "running" THEN "blocked" ELSE status[u]
    BY <2>1, RecoveredStatus
  <2>3. \A u \in lapsed : status[u] = "running" => Phase(u)' = "open"
    BY <2>1, <2>2 DEF Phase, PhaseOf
  <2>4. \A u \in Tasks : ~(u \in lapsed /\ status[u] = "running") => Phase(u)' = Phase(u)
    BY <2>1, <2>2, SamePhase
  <2> QED
    BY <2>1, <2>3, <2>4, InterruptLife DEF GivenUp
<1>2. ASSUME NEW S \in SUBSET Tasks, NEW outcome \in {"timed_out", "failed"},
             RecoverSilentRuns(S, outcome)
      PROVE  LifeStep
  <2>1. Interrupt(S, outcome) /\ S \subseteq quiet
    BY <1>2 DEF RecoverSilentRuns
  <2> QED
    BY <2>1, BlockedLife DEF QuietRuns, GivenUp
<1>3. CASE Repair
  <2> DEFINE S == {t \in lapsed : status[t] = "running"}
  <2>1. /\ S \in SUBSET Tasks /\ runs' = Closed(S, "timed_out")
        /\ status' = SetStatus(S, "blocked") /\ archivedFrom' = archivedFrom
    BY <1>3, RepairFacts
  <2>2. \A u \in S : status[u] = "running"
    OBVIOUS
  <2> HIDE DEF S
  <2>3. \A u \in Tasks : status'[u] = IF u \in S THEN "blocked" ELSE status[u]
    BY <2>1 DEF SetStatus
  <2>4. \A u \in S : status[u] = "running" => Phase(u)' = "open"
    BY <2>1, <2>3 DEF Phase, PhaseOf
  <2>5. \A u \in Tasks : ~(u \in S /\ status[u] = "running") => Phase(u)' = Phase(u)
    BY <2>1, <2>2, <2>3, SamePhase
  <2> QED
    BY <2>1, <2>4, <2>5, InterruptLife DEF GivenUp
<1> QED
  BY <1>1, <1>2, <1>3 DEF Recovery

LEMMA EnvironmentLife == IndInv /\ Environment => LifeStep
<1>1. Environment => UNCHANGED <<runs, status, archivedFrom>>
  BY DEF Environment, LeaseLapses, ScheduleComesDue, RunFallsSilent, CircuitCoolsDown,
         BridgeRestarts, taskVars, runVars
<1> QED
  BY <1>1, SamePhase, NoLifeStep

-----------------------------------------------------------------------------
(* The theorem *)

LEMMA InitLife == Init => Life!Init
<1> SUFFICES ASSUME Init PROVE Life!Init
  OBVIOUS
<1>1. phase = [t \in Tasks |-> "absent"]
  BY DEF Init, phase, Phase, PhaseOf
<1>2. history = [r \in RunIds |-> [task |-> NoTask, status |-> "unused"]]
  BY DEF Init, history, Unused
<1> QED
  BY <1>1, <1>2 DEF Life!Init, Life!RunIds, RunIds, Life!Unopened, phase, history

LEMMA NextLife == IndInv /\ QuietRuns /\ [Next]_vars => LifeStep
<1> SUFFICES ASSUME IndInv, QuietRuns, [Next]_vars PROVE LifeStep
  OBVIOUS
<1>1. CASE Next
  BY <1>1, PlanLife, ShapeLife, BecomeReadyLife, ClaimLife, DispatchLife, RunLife, ReviewLife,
     RecoveryLife, EnvironmentLife DEF Next
<1>2. CASE UNCHANGED vars
  <2>1. UNCHANGED <<runs, status, archivedFrom>>
    BY <1>2 DEF vars, taskVars, runVars
  <2> QED
    BY <2>1, SamePhase, NoLifeStep
<1> QED
  BY <1>1, <1>2

\* Only a running task is silent: every operation that ends a run takes its task off the list.
THEOREM SilentTasksRun == Spec => []QuietRuns
<1>1. Init => QuietRuns
  BY DEF Init, QuietRuns
<1>2. IndInv /\ QuietRuns /\ [Next]_vars => QuietRuns'
  BY QuietStep
<1> QED
  BY <1>1, <1>2, Agreement, PTL DEF Spec

\* Every behaviour of the board is a behaviour of TaskLife: runs are opened one at a time for
\* a task and closed once, with the outcome that becomes of the task, and done is final.
THEOREM Refinement == Spec => IsTaskLife
<1>1. Init => Life!Init
  BY InitLife
<1>2. IndInv /\ QuietRuns /\ [Next]_vars => [Life!Next]_<<phase, history>>
  BY NextLife DEF LifeStep
<1> QED
  BY <1>1, <1>2, Agreement, SilentTasksRun, PTL DEF Spec, IsTaskLife, Life!Spec, phase, history

-----------------------------------------------------------------------------
(***************************************************************************)
(* Part 3: the dependency graph, readiness, the review gate, the WIP       *)
(* limits and the late results of board workers.                           *)
(*                                                                         *)
(* All but four operations leave the graph alone, and Conduct says what    *)
(* they may do to readiness, to done tasks and to the number of running    *)
(* ones.  That a done task stays done until it is deleted is a fact of     *)
(* TaskLife, which the board implements.  Plans, links and deletion, which *)
(* change the graph, are looked at one by one.                             *)
(***************************************************************************)

Running == {t \in Tasks : status[t] = "running"}

\* One more run for t, beside those of the tasks in R, is within the limits.
WithinWip(R, t) ==
  /\ Cardinality(R) < GlobalLimit
  /\ Cardinality({u \in R : Conversation[u] = Conversation[t]}) < ConversationLimit

\* A task becomes done by completion without a gate or by approval.
GateStep ==
  \A t \in Tasks : ~WasDone(t) /\ WasDone(t)' =>
    \/ status[t] = "review"
    \/ status[t] = "running" /\ t \notin gated

\* At most one task starts running, and it was within the limits.
LimitStep ==
  \/ Running' \subseteq Running
  \/ \E t \in Tasks, R \in SUBSET Running : Running' \subseteq R \cup {t} /\ WithinWip(R, t)

\* Tasks go on existing, and become ready only when their dependencies are done.
KeptGraph ==
  /\ UNCHANGED deps
  /\ \A t \in Tasks :
       /\ Exists(t) => Exists(t)'
       /\ status'[t] = "ready" => status[t] = "ready" \/ \A d \in deps[t] : status'[d] = "done"

Conduct == KeptGraph /\ GateStep /\ LimitStep

GraphInv == DependenciesAcyclic /\ DependenciesExist /\ ReadyDepsWereDone

-----------------------------------------------------------------------------
(* Ways to conduct oneself *)

\* Operations that start nothing and finish nothing.
LEMMA QuietConduct ==
  ASSUME UNCHANGED <<deps, archivedFrom>>,
         \A t \in Tasks :
           \/ status'[t] = status[t]
           \/ status'[t] \in {"triage", "todo", "scheduled", "blocked", "review"}
           \/ status'[t] = "ready" /\ \A d \in deps[t] : status'[d] = "done"
  PROVE  Conduct
<1>1. KeptGraph
  BY DEF KeptGraph, Exists, Gone
<1>2. GateStep
  BY DEF GateStep, WasDone
<1>3. LimitStep
  BY DEF LimitStep, Running
<1> QED
  BY <1>1, <1>2, <1>3 DEF Conduct

\* Operations that start t, after some scheduled tasks became ready and some runs were given up.
LEMMA StartConduct ==
  ASSUME UNCHANGED <<deps, archivedFrom>>, NEW t \in Tasks, NEW st, WipOk(st, t),
         status'[t] = "running", \A u \in Tasks \ {t} : status'[u] = st[u],
         \A u \in Tasks :
           \/ st[u] = status[u]
           \/ st[u] = "blocked"
           \/ st[u] = "ready" /\ \A d \in deps[u] : status'[d] = "done"
  PROVE  Conduct
<1>1. KeptGraph
  BY DEF KeptGraph, Exists, Gone
<1>2. GateStep
  BY DEF GateStep, WasDone
<1>3. LimitStep
  <2> DEFINE R == {u \in Tasks : st[u] = "running"}
  <2>1. R \in SUBSET Running
    BY DEF Running
  <2>2. Running' \subseteq R \cup {t}
    BY DEF Running
  <2>3. WithinWip(R, t)
    BY DEF WipOk, WithinWip
  <2> QED
    BY <2>1, <2>2, <2>3 DEF LimitStep
<1> QED
  BY <1>1, <1>2, <1>3 DEF Conduct

\* Operations that make t done: its dependents are promoted.
LEMMA DoneConduct ==
  ASSUME IndInv, UNCHANGED <<deps, archivedFrom>>, NEW t \in Tasks,
         status[t] = "review" \/ (status[t] = "running" /\ t \notin gated),
         status' = PromoteDependents([status EXCEPT ![t] = "done"], t)
  PROVE  Conduct
<1> DEFINE finished == [status EXCEPT ![t] = "done"]
<1>1. finished[t] = "done" /\ \A u \in Tasks \ {t} : finished[u] = status[u]
  BY DEF IndInv, TypeOK
<1> HIDE DEF finished
<1>2. \A u \in Tasks :
        \/ status'[u] = finished[u]
        \/ /\ finished[u] = "todo" /\ status'[u] = "ready"
           /\ \A d \in deps[u] : finished[d] = "done"
  BY DEF PromoteDependents, finished
<1>3. \A u \in Tasks : finished[u] = "done" => status'[u] = "done"
  BY <1>2
<1>4. \A u \in Tasks : deps[u] \subseteq Tasks
  BY DEF IndInv, TypeOK
<1>5. KeptGraph
  BY <1>1, <1>2, <1>3, <1>4 DEF KeptGraph, Exists, Gone
<1>6. GateStep
  BY <1>1, <1>2 DEF GateStep, WasDone
<1>7. LimitStep
  BY <1>1, <1>2 DEF LimitStep, Running
<1> QED
  BY <1>5, <1>6, <1>7 DEF Conduct

LEMMA FinishConduct ==
  ASSUME IndInv, NEW t \in Tasks, Finish(t)
  PROVE  Conduct
<1>1. UNCHANGED <<deps, archivedFrom>> /\ status[t] = "running"
  BY DEF Finish
<1>2. CASE t \in gated
  <2>1. status' = [status EXCEPT ![t] = "review"]
    BY <1>2 DEF Finish
  <2>2. \A u \in Tasks : status'[u] = status[u] \/ status'[u] = "review"
    BY <2>1
  <2> QED
    BY <1>1, <2>2, QuietConduct
<1>3. CASE t \notin gated
  BY <1>1, <1>3, DoneConduct DEF Finish
<1> QED
  BY <1>2, <1>3

\* The tasks of S are blocked.
LEMMA BlockedConduct ==
  ASSUME NEW S, NEW outcome, Interrupt(S, outcome)
  PROVE  Conduct
<1>1. \A t \in Tasks : status'[t] = status[t] \/ status'[t] = "blocked"
  BY DEF Interrupt, SetStatus
<1> QED
  BY <1>1, QuietConduct DEF Interrupt

\* Statuses before a dispatch selects: promoted tasks have their dependencies done.
LEMMA SelectionConduct ==
  ASSUME IndInv
  PROVE  \A u \in Tasks :
           \/ StatusBeforeSelection[u] = status[u]
           \/ StatusBeforeSelection[u] = "blocked"
           \/ StatusBeforeSelection[u] = "ready" /\ \A d \in deps[u] : status[d] = "done"
<1> DEFINE st == SetStatus(DueTasks, "ready")
<1>1. TAKE u \in Tasks
<1>2. st[u] = status[u] \/ (st[u] = "ready" /\ \A d \in deps[u] : status[d] = "done")
  BY DEF SetStatus, DueTasks, DepsDone
<1>3. StatusBeforeSelection[u] = st[u] \/ StatusBeforeSelection[u] = "blocked"
  BY DEF StatusBeforeSelection, StatusAfterRecovery
<1> QED
  BY <1>2, <1>3

-----------------------------------------------------------------------------
(* The operations that leave the graph alone *)

LEMMA BecomeReadyConduct == IndInv /\ BecomeReady => Conduct
<1> SUFFICES ASSUME IndInv, BecomeReady PROVE Conduct
  OBVIOUS
<1>1. ASSUME NEW t \in Tasks, MarkReady(t) \/ UnblockTask(t) PROVE Conduct
  <2>1. /\ UNCHANGED <<deps, archivedFrom>> /\ status[t] # "done"
        /\ \/ status' = [status EXCEPT ![t] = "ready"] /\ \A d \in deps[t] : status[d] = "done"
           \/ status' = [status EXCEPT ![t] = "todo"]
    BY <1>1 DEF MarkReady, UnblockTask, DepsDone
  <2>2. deps[t] \subseteq Tasks
    BY DEF IndInv, TypeOK
  <2>3. \A d \in deps[t] : status[d] = "done" => status'[d] = "done"
    BY <2>1, <2>2 DEF IndInv, TypeOK
  <2>4. \A u \in Tasks \ {t} : status'[u] = status[u]
    BY <2>1 DEF IndInv, TypeOK
  <2>5. status'[t] = "todo" \/ (status'[t] = "ready" /\ \A d \in deps[t] : status'[d] = "done")
    BY <2>1, <2>3 DEF IndInv, TypeOK
  <2> QED
    BY <2>1, <2>4, <2>5, QuietConduct
<1>2. ASSUME NEW S, Promote(S) PROVE Conduct
  <2>1. UNCHANGED <<deps, archivedFrom>> /\ status' = SetStatus(S, "ready") /\ S \subseteq DueTasks
    BY <1>2 DEF Promote
  <2>2. \A u \in Tasks : status[u] = "done" => status'[u] = "done"
    BY <2>1 DEF SetStatus, DueTasks
  <2>3. \A u \in Tasks : deps[u] \subseteq Tasks
    BY DEF IndInv, TypeOK
  <2>4. \A u \in Tasks : \/ status'[u] = status[u]
                         \/ status'[u] = "ready" /\ \A d \in deps[u] : status'[d] = "done"
    BY <2>1, <2>2, <2>3 DEF SetStatus, DueTasks, DepsDone
  <2> QED
    BY <2>1, <2>4, QuietConduct
<1> QED
  BY <1>1, <1>2 DEF BecomeReady, PromoteScheduledTask, PromoteDueTasks

LEMMA ClaimConduct == IndInv /\ Claim => Conduct
<1> SUFFICES ASSUME IndInv, Claim PROVE Conduct
  OBVIOUS
<1>1. ASSUME NEW t \in Tasks, ClaimTask(t) PROVE Conduct
  <2>1. \A u \in Tasks : status'[u] = status[u] \/ status'[u] = "blocked"
    BY <1>1 DEF ClaimTask, StatusAfterRecovery
  <2> QED
    BY <1>1, <2>1, QuietConduct DEF ClaimTask
<1>2. ASSUME NEW t \in Tasks, NEW lease \in Leases, HeartbeatClaim(t, lease) \/ ReleaseClaim(t, lease)
      PROVE  Conduct
  BY <1>2, QuietConduct DEF HeartbeatClaim, ReleaseClaim, taskVars
<1>3. ASSUME NEW t \in Tasks, NEW lease \in Leases, StartClaimedTask(t, lease) PROVE Conduct
  <2>1. status'[t] = "running" /\ \A u \in Tasks \ {t} : status'[u] = status[u]
    BY <1>3 DEF StartClaimedTask, IndInv, TypeOK
  <2> QED
    BY <1>3, <2>1, StartConduct DEF StartClaimedTask
<1>4. ASSUME NEW t \in Tasks, NEW lease \in Leases, CompleteClaimedTask(t, lease) PROVE Conduct
  BY <1>4, FinishConduct DEF CompleteClaimedTask
<1>5. ASSUME NEW t \in Tasks, NEW lease \in Leases, NEW infrastructure \in BOOLEAN,
             RecordDispatchFailure(t, lease, infrastructure)
      PROVE  Conduct
  <2>1. \A u \in Tasks : status'[u] = status[u] \/ status'[u] \in {"scheduled", "blocked"}
    BY <1>5 DEF RecordDispatchFailure, IndInv, TypeOK
  <2> QED
    BY <1>5, <2>1, QuietConduct DEF RecordDispatchFailure
<1> QED
  BY <1>1, <1>2, <1>3, <1>4, <1>5 DEF Claim

LEMMA DispatchConduct == IndInv /\ Dispatch => Conduct
<1> SUFFICES ASSUME IndInv, Dispatch PROVE Conduct
  OBVIOUS
<1>1. \A u \in Tasks : status[u] = "done" => StatusBeforeSelection[u] = "done"
  BY SelectionStatus
<1>2. \A u \in Tasks : deps[u] \subseteq Tasks
  BY DEF IndInv, TypeOK
<1>3. CASE DispatchNothing
  <2>1. status' = StatusBeforeSelection /\ UNCHANGED <<deps, archivedFrom>>
    BY <1>3 DEF DispatchNothing
  <2>2. \A u \in Tasks : \/ status'[u] = status[u]
                         \/ status'[u] = "blocked"
                         \/ status'[u] = "ready" /\ \A d \in deps[u] : status'[d] = "done"
    BY <1>1, <1>2, <2>1, SelectionConduct
  <2> QED
    BY <2>1, <2>2, QuietConduct
<1>4. ASSUME NEW t \in Tasks, DispatchTask(t) PROVE Conduct
  <2>1. /\ WipOk(StatusBeforeSelection, t) /\ StatusBeforeSelection[t] = "ready"
        /\ status' = [StatusBeforeSelection EXCEPT ![t] = "running"]
        /\ UNCHANGED <<deps, archivedFrom>>
    BY <1>4 DEF DispatchTask, Selectable
  <2>2. status'[t] = "running" /\ \A u \in Tasks \ {t} : status'[u] = StatusBeforeSelection[u]
    BY <2>1 DEF StatusBeforeSelection, StatusAfterRecovery
  <2>3. \A u \in Tasks : status[u] = "done" => status'[u] = "done"
    BY <1>1, <2>1, <2>2
  <2>4. \A u \in Tasks : \/ StatusBeforeSelection[u] = status[u]
                         \/ StatusBeforeSelection[u] = "blocked"
                         \/ /\ StatusBeforeSelection[u] = "ready"
                            /\ \A d \in deps[u] : status'[d] = "done"
    BY <1>2, <2>3, SelectionConduct
  <2> HIDE DEF StatusBeforeSelection
  <2> QED
    BY <2>1, <2>2, <2>4, StartConduct
<1> QED
  BY <1>3, <1>4 DEF Dispatch

LEMMA RunConduct == IndInv /\ Run => Conduct
<1> SUFFICES ASSUME IndInv, Run PROVE Conduct
  OBVIOUS
<1>1. ASSUME NEW t \in Tasks, StartTask(t) \/ RunBoardTask(t) PROVE Conduct
  <2>1. /\ status'[t] = "running" /\ \A u \in Tasks \ {t} : status'[u] = status[u]
        /\ WipOk(status, t) /\ UNCHANGED <<deps, archivedFrom>>
    BY <1>1 DEF StartTask, RunBoardTask, Start, IndInv, TypeOK
  <2> QED
    BY <2>1, StartConduct
<1>2. ASSUME NEW t \in Tasks, HeartbeatTask(t) PROVE Conduct
  BY <1>2, QuietConduct DEF HeartbeatTask, taskVars
<1>3. ASSUME NEW t \in Tasks, CompleteTask(t) PROVE Conduct
  BY <1>3, FinishConduct DEF CompleteTask
<1>4. ASSUME NEW t \in Tasks,
             \/ FailTask(t) \/ BlockTask(t)
             \/ \E outcome \in {"cancelled", "timed_out"} : CloseActiveRun(t, outcome)
      PROVE  Conduct
  BY <1>4, BlockedConduct DEF FailTask, BlockTask, CloseActiveRun
<1>5. ASSUME NEW r \in RunIds, WorkerCompletes(r) \/ WorkerFails(r) PROVE Conduct
  <2> DEFINE t == runs[r].task
  <2>1. CASE UNCHANGED taskVars
    BY <2>1, QuietConduct DEF taskVars
  <2>2. CASE Active(t) # {} /\ Finish(t)
    BY <2>2, UnusedHasNoRun, FinishConduct DEF IndInv
  <2>3. CASE Interrupt({t}, "failed")
    BY <2>3, BlockedConduct
  <2> QED
    BY <1>5, <2>1, <2>2, <2>3 DEF WorkerCompletes, WorkerFails
<1> QED
  BY <1>1, <1>2, <1>3, <1>4, <1>5 DEF Run

LEMMA ReviewConduct == IndInv /\ Review => Conduct
<1> SUFFICES ASSUME IndInv, Review PROVE Conduct
  OBVIOUS
<1>1. ASSUME NEW t \in Tasks, RequestReview(t) \/ RequestChanges(t) \/ ReopenReview(t) PROVE Conduct
  <2>1. \A u \in Tasks : status'[u] = status[u] \/ status'[u] \in {"blocked", "review"}
    BY <1>1 DEF RequestReview, RequestChanges, ReopenReview, IndInv, TypeOK
  <2> QED
    BY <1>1, <2>1, QuietConduct DEF RequestReview, RequestChanges, ReopenReview
<1>2. ASSUME NEW t \in Tasks, ApproveReview(t) PROVE Conduct
  BY <1>2, DoneConduct DEF ApproveReview
<1> QED
  BY <1>1, <1>2 DEF Review

LEMMA RecoveryConduct == IndInv /\ Recovery => Conduct
<1> SUFFICES ASSUME IndInv, Recovery PROVE Conduct
  OBVIOUS
<1>1. CASE RecoverExpiredClaims
  <2>1. \A u \in Tasks : status'[u] = status[u] \/ status'[u] = "blocked"
    BY <1>1 DEF RecoverExpiredClaims, StatusAfterRecovery
  <2> QED
    BY <1>1, <2>1, QuietConduct DEF RecoverExpiredClaims
<1>2. ASSUME NEW S, NEW outcome, RecoverSilentRuns(S, outcome) PROVE Conduct
  BY <1>2, BlockedConduct DEF RecoverSilentRuns
<1>3. CASE Repair
  <2>1. \A u \in Tasks : status'[u] = status[u] \/ status'[u] = "blocked"
    BY <1>3 DEF Repair, SetStatus
  <2> QED
    BY <1>3, <2>1, QuietConduct DEF Repair
<1> QED
  BY <1>1, <1>2, <1>3 DEF Recovery

LEMMA EnvironmentConduct == IndInv /\ Environment => Conduct
<1>1. Environment => UNCHANGED <<status, deps, archivedFrom>>
  BY DEF Environment, LeaseLapses, ScheduleComesDue, RunFallsSilent, CircuitCoolsDown,
         BridgeRestarts, taskVars
<1> QED
  BY <1>1, QuietConduct

-----------------------------------------------------------------------------
(* A done task stays done *)

\* TaskLife moves no task out of done but to delete it.
LEMMA DoneStays ==
  ASSUME IndInv, QuietRuns, [Next]_vars, NEW t \in Tasks, WasDone(t), Exists(t)'
  PROVE  WasDone(t)'
<1>1. phase[t] = "done" /\ phase'[t] = Phase(t)'
  BY DEF WasDone, phase, Phase, PhaseOf
<1>2. Phase(t)' # "deleted"
  <2>1. archivedFrom'[t] # "deleted"
    BY NextIndInv DEF IndInv, TypeOK, Status
  <2> QED
    BY <2>1 DEF Exists, Gone, Phase, PhaseOf
<1>3. phase'[t] \in {"done", "deleted"}
  <2>1. LifeStep
    BY NextLife
  <2>2. CASE UNCHANGED <<phase, history>>
    BY <1>1, <2>2
  <2>3. CASE Life!Next
    <3>1. CASE \E S \in SUBSET Tasks : Life!Create(S) \/ Life!Interrupt(S)
      BY <1>1, <3>1 DEF Life!Create, Life!Interrupt, Life!Leave, Life!To, phase
    <3>2. CASE \E u \in Tasks : Life!Complete(u) \/ Life!AskReview(u)
      BY <1>1, <3>2 DEF Life!Complete, Life!AskReview, Life!Leave, Life!To, phase
    <3>3. CASE \E u \in Tasks : Life!Approve(u) \/ Life!Reject(u) \/ Life!Reopen(u) \/ Life!Delete(u)
      BY <1>1, <3>3 DEF Life!Approve, Life!Reject, Life!Reopen, Life!Delete, Life!To, phase
    <3>4. CASE \E u \in Tasks, S \in SUBSET Tasks : Life!Begin(u, S)
      BY <1>1, <3>4 DEF Life!Begin, Life!To, phase
    <3> QED
      BY <2>3, <3>1, <3>2, <3>3, <3>4 DEF Life!Next
  <2> QED
    BY <2>1, <2>2, <2>3 DEF LifeStep
<1>4. Phase(t)' = "done"
  BY <1>1, <1>2, <1>3
<1> QED
  BY <1>4 DEF WasDone, Phase, PhaseOf

-----------------------------------------------------------------------------
(* The graph *)

\* Fewer edges close no cycle.
LEMMA FewerEdges ==
  ASSUME DependenciesAcyclic, \A t \in Tasks : deps'[t] \subseteq deps[t]
  PROVE  DependenciesAcyclic'
<1> SUFFICES ASSUME NEW S \in SUBSET Tasks, S # {}
             PROVE  \E t \in S : deps'[t] \cap S = {}
  BY DEF DependenciesAcyclic, Acyclic
<1>1. PICK t \in S : deps[t] \cap S = {}
  BY DEF DependenciesAcyclic, Acyclic
<1> QED
  BY <1>1

\* An operation of good conduct keeps the graph.
LEMMA ConductGraph ==
  ASSUME IndInv, QuietRuns, [Next]_vars, GraphInv, KeptGraph
  PROVE  GraphInv'
<1>1. \A t \in Tasks : deps[t] \subseteq Tasks
  BY DEF IndInv, TypeOK
<1>2. DependenciesAcyclic'
  BY FewerEdges DEF GraphInv, KeptGraph
<1>3. DependenciesExist'
  BY <1>1 DEF GraphInv, KeptGraph, DependenciesExist
<1>4. ReadyDepsWereDone'
  <2> SUFFICES ASSUME NEW t \in Tasks, status'[t] = "ready", NEW d \in deps[t]
               PROVE  WasDone(d)'
    BY DEF ReadyDepsWereDone, KeptGraph
  <2>1. d \in Tasks /\ Exists(d)'
    BY <1>1 DEF GraphInv, DependenciesExist, KeptGraph
  <2>2. CASE status[t] = "ready"
    <3>1. WasDone(d)
      BY <2>2 DEF GraphInv, ReadyDepsWereDone
    <3> QED
      BY <2>1, <3>1, DoneStays
  <2>3. CASE status'[d] = "done"
    BY <2>3 DEF WasDone
  <2> QED
    BY <2>2, <2>3 DEF KeptGraph
<1> QED
  BY <1>2, <1>3, <1>4 DEF GraphInv

\* A plan's edges join its own tasks, which no earlier task depends on.
LEMMA PlanGraph ==
  ASSUME IndInv, GraphInv, Plan
  PROVE  GraphInv' /\ GateStep /\ LimitStep
<1>0. PICK new \in SUBSET {t \in Tasks : status[t] = "absent"} :
        \E edges \in [new -> SUBSET new], input \in [new -> CreateInputs] : CreatePlan(new, edges, input)
  BY DEF Plan
<1>1. PICK edges \in [new -> SUBSET new], input \in [new -> CreateInputs] :
        CreatePlan(new, edges, input)
  BY <1>0
<1>2. /\ \A t \in new : status[t] = "absent" /\ deps'[t] = edges[t] /\ edges[t] \subseteq new
      /\ \A t \in Tasks \ new : deps'[t] = deps[t] /\ status'[t] = status[t]
      /\ archivedFrom' = archivedFrom
  BY <1>1 DEF CreatePlan
<1>3. \A t \in new : status'[t] \in {"triage", "todo", "scheduled"}
  BY <1>1, InputAssumption DEF CreatePlan, NewTask
<1>4. DependenciesAcyclic'
  <2> SUFFICES ASSUME NEW S \in SUBSET Tasks, S # {}
               PROVE  \E t \in S : deps'[t] \cap S = {}
    BY DEF DependenciesAcyclic, Acyclic
  <2>1. CASE S \cap new = {}
    <3>1. PICK t \in S : deps[t] \cap S = {}
      BY DEF GraphInv, DependenciesAcyclic, Acyclic
    <3> QED
      BY <1>2, <2>1, <3>1
  <2>2. CASE S \cap new # {}
    <3> DEFINE added == [t \in Tasks |-> IF t \in new THEN edges[t] ELSE {}]
    <3>1. Acyclic(added)
      BY <1>1 DEF CreatePlan
    <3>2. PICK t \in S \cap new : added[t] \cap (S \cap new) = {}
      <4> DEFINE T == S \cap new
      <4>1. T \in SUBSET Tasks /\ T # {}
        BY <2>2
      <4> HIDE DEF added, T
      <4>2. \E t \in T : added[t] \cap T = {}
        BY <3>1, <4>1 DEF Acyclic
      <4> QED
        BY <4>2 DEF T
    <3>3. added[t] = edges[t] /\ deps'[t] = edges[t] /\ edges[t] \subseteq new /\ t \in S
      BY <1>2, <3>2
    <3> QED
      BY <3>2, <3>3
  <2> QED
    BY <2>1, <2>2
<1>5. DependenciesExist'
  BY <1>2, <1>3 DEF GraphInv, DependenciesExist, Exists, Gone, IndInv, TypeOK
<1>6. ReadyDepsWereDone'
  <2> SUFFICES ASSUME NEW t \in Tasks, status'[t] = "ready", NEW d \in deps'[t]
               PROVE  WasDone(d)'
    BY DEF ReadyDepsWereDone
  <2>1. t \notin new /\ status[t] = "ready" /\ d \in deps[t]
    BY <1>2, <1>3
  <2>2. d \in Tasks /\ WasDone(d)
    BY <2>1 DEF GraphInv, ReadyDepsWereDone, IndInv, TypeOK
  <2>3. d \notin new
    BY <1>2, <2>2 DEF WasDone
  <2> QED
    BY <1>2, <2>2, <2>3 DEF WasDone
<1>7. GateStep
  BY <1>2, <1>3 DEF GateStep, WasDone
<1>8. LimitStep
  BY <1>2, <1>3 DEF LimitStep, Running
<1> QED
  BY <1>4, <1>5, <1>6, <1>7, <1>8 DEF GraphInv

\* A link that closed a cycle would join a task to one that reaches it: the
\* tasks reached from d are closed under dependencies and t is not among them.
LEMMA LinkGraph ==
  ASSUME IndInv, GraphInv, NEW t \in Tasks, NEW d \in Tasks, LinkDependency(t, d)
  PROVE  GraphInv' /\ GateStep /\ LimitStep
<1>1. /\ Exists(d) /\ ~Reaches(d, t) /\ archivedFrom' = archivedFrom
      /\ deps'[t] = deps[t] \cup {d} /\ \A u \in Tasks \ {t} : deps'[u] = deps[u]
      /\ \A u \in Tasks \ {t} : status'[u] = status[u]
      /\ \/ status'[t] = "todo" /\ status[t] = "ready"
         \/ /\ status'[t] = status[t]
            /\ status[t] = "ready" => \A u \in deps[t] \cup {d} : status[u] = "done"
  BY DEF LinkDependency, IndInv, TypeOK
<1>2. PICK C \in SUBSET Tasks : d \in C /\ t \notin C /\ \A x \in C : deps[x] \subseteq C
  BY <1>1 DEF Reaches
<1>3. DependenciesAcyclic'
  <2> SUFFICES ASSUME NEW S \in SUBSET Tasks, S # {}
               PROVE  \E u \in S : deps'[u] \cap S = {}
    BY DEF DependenciesAcyclic, Acyclic
  <2>1. CASE d \in S
    <3>1. S \cap C \in SUBSET Tasks /\ S \cap C # {}
      BY <1>2, <2>1
    <3>2. PICK u \in S \cap C : deps[u] \cap (S \cap C) = {}
      BY <3>1 DEF GraphInv, DependenciesAcyclic, Acyclic
    <3> QED
      BY <1>1, <1>2, <3>2
  <2>2. CASE d \notin S
    <3>1. PICK u \in S : deps[u] \cap S = {}
      BY DEF GraphInv, DependenciesAcyclic, Acyclic
    <3> QED
      BY <1>1, <2>2, <3>1
  <2> QED
    BY <2>1, <2>2
<1>4. DependenciesExist'
  BY <1>1 DEF GraphInv, DependenciesExist, Exists, Gone, IndInv, TypeOK
<1>5. ReadyDepsWereDone'
  <2> SUFFICES ASSUME NEW u \in Tasks, status'[u] = "ready", NEW x \in deps'[u]
               PROVE  WasDone(x)'
    BY DEF ReadyDepsWereDone
  <2>1. status[u] = "ready" /\ x \in Tasks
    BY <1>1 DEF IndInv, TypeOK
  <2>2. WasDone(x)
    BY <1>1, <2>1 DEF GraphInv, ReadyDepsWereDone, WasDone
  <2>3. x # t \/ status'[t] = status[t]
    BY <1>1, <2>2 DEF WasDone
  <2> QED
    BY <1>1, <2>1, <2>2, <2>3 DEF WasDone
<1>6. GateStep
  BY <1>1 DEF GateStep, WasDone
<1>7. LimitStep
  BY <1>1 DEF LimitStep, Running
<1> QED
  BY <1>3, <1>4, <1>5, <1>6, <1>7 DEF GraphInv

LEMMA UnlinkGraph ==
  ASSUME IndInv, GraphInv, NEW t \in Tasks, NEW d \in Tasks, RemoveDependency(t, d)
  PROVE  GraphInv' /\ GateStep /\ LimitStep
<1>1. /\ archivedFrom' = archivedFrom
      /\ deps'[t] = deps[t] \ {d} /\ \A u \in Tasks \ {t} : deps'[u] = deps[u]
      /\ \A u \in Tasks \ {t} : status'[u] = status[u]
      /\ \/ status'[t] = status[t]
         \/ /\ status'[t] = "ready" /\ status[t] = "todo"
            /\ \A u \in deps[t] \ {d} : status[u] = "done"
  BY DEF RemoveDependency, IndInv, TypeOK
<1>2. DependenciesAcyclic'
  BY <1>1, FewerEdges DEF GraphInv
<1>3. DependenciesExist'
  BY <1>1 DEF GraphInv, DependenciesExist, Exists, Gone, IndInv, TypeOK
<1>4. ReadyDepsWereDone'
  <2> SUFFICES ASSUME NEW u \in Tasks, status'[u] = "ready", NEW x \in deps'[u]
               PROVE  WasDone(x)'
    BY DEF ReadyDepsWereDone
  <2>1. x \in Tasks /\ WasDone(x)
    BY <1>1 DEF GraphInv, ReadyDepsWereDone, WasDone, IndInv, TypeOK
  <2>2. x # t \/ status'[t] = status[t]
    BY <1>1, <2>1 DEF WasDone
  <2> QED
    BY <1>1, <2>1, <2>2 DEF WasDone
<1>5. GateStep
  BY <1>1 DEF GateStep, WasDone
<1>6. LimitStep
  BY <1>1 DEF LimitStep, Running
<1> QED
  BY <1>2, <1>3, <1>4, <1>5, <1>6 DEF GraphInv

\* A deleted task is taken out of the dependencies of the others.
LEMMA DeleteGraph ==
  ASSUME IndInv, GraphInv, NEW t \in Tasks, DeleteTask(t)
  PROVE  GraphInv' /\ GateStep /\ LimitStep
<1>1. /\ status'[t] = "deleted" /\ deps'[t] = {}
      /\ \A u \in Tasks \ {t} : /\ status'[u] = status[u] /\ archivedFrom'[u] = archivedFrom[u]
                                /\ deps'[u] = deps[u] \ {t}
  BY DEF DeleteTask, IndInv, TypeOK
<1>2. DependenciesAcyclic'
  BY <1>1, FewerEdges DEF GraphInv
<1>3. DependenciesExist'
  BY <1>1 DEF GraphInv, DependenciesExist, Exists, Gone, IndInv, TypeOK
<1>4. ReadyDepsWereDone'
  BY <1>1 DEF GraphInv, ReadyDepsWereDone, WasDone, IndInv, TypeOK
<1>5. GateStep
  BY <1>1 DEF GateStep, WasDone
<1>6. LimitStep
  BY <1>1 DEF LimitStep, Running
<1> QED
  BY <1>2, <1>3, <1>4, <1>5, <1>6 DEF GraphInv

\* Every step keeps the graph, the gate and the limits.
LEMMA NextGraph ==
  ASSUME IndInv, QuietRuns, GraphInv, [Next]_vars
  PROVE  GraphInv' /\ GateStep /\ LimitStep
<1>1. CASE Conduct
  BY <1>1, ConductGraph DEF Conduct
<1>2. CASE Plan
  BY <1>2, PlanGraph
<1>3. CASE Shape
  <2>1. CASE \E t \in Tasks : AcceptTriage(t) \/ \E a \in Agents \cup {NoAgent} : Reassign(t, a)
    <3>1. /\ UNCHANGED <<deps, archivedFrom>>
          /\ \A u \in Tasks : status'[u] = status[u] \/ status'[u] = "todo"
      BY <2>1 DEF AcceptTriage, Reassign, IndInv, TypeOK
    <3> QED
      BY <1>1, <3>1, QuietConduct
  <2>2. CASE \E t \in Reviewed, required \in BOOLEAN : SetReviewGate(t, required)
    BY <1>1, <2>2, QuietConduct DEF SetReviewGate
  <2>3. CASE \E link \in Links : LinkDependency(link[1], link[2]) \/ RemoveDependency(link[1], link[2])
    <3>1. PICK t \in Tasks, d \in Tasks : LinkDependency(t, d) \/ RemoveDependency(t, d)
      BY <2>3, InputAssumption
    <3> QED
      BY <3>1, LinkGraph, UnlinkGraph
  <2>4. CASE \E t \in Deleted : DeleteTask(t)
    BY <2>4, DeleteGraph, InputAssumption
  <2>5. CASE \E t \in Scheduled, when \in {"future", "due"} : ScheduleTask(t, when)
    <3>1. /\ UNCHANGED <<deps, archivedFrom>>
          /\ \A u \in Tasks : status'[u] = status[u] \/ status'[u] = "scheduled"
      BY <2>5 DEF ScheduleTask, IndInv, TypeOK
    <3> QED
      BY <1>1, <3>1, QuietConduct
  <2>6. ASSUME NEW t \in Tasks, ArchiveTask(t) PROVE Conduct
    <3>1. /\ UNCHANGED deps /\ status'[t] = "archived" /\ archivedFrom'[t] = status[t]
          /\ status[t] # "archived"
          /\ \A u \in Tasks \ {t} : status'[u] = status[u] /\ archivedFrom'[u] = archivedFrom[u]
      BY <2>6 DEF ArchiveTask, IndInv, TypeOK
    <3>2. KeptGraph
      BY <3>1 DEF KeptGraph, Exists, Gone
    <3>3. GateStep
      BY <3>1 DEF GateStep, WasDone
    <3>4. LimitStep
      BY <3>1 DEF LimitStep, Running
    <3> QED
      BY <3>2, <3>3, <3>4 DEF Conduct
  <2>7. ASSUME NEW t \in Tasks, RestoreTask(t) PROVE Conduct
    <3>1. /\ UNCHANGED deps /\ status[t] = "archived" /\ archivedFrom'[t] = "none"
          /\ \A u \in Tasks \ {t} : status'[u] = status[u] /\ archivedFrom'[u] = archivedFrom[u]
      BY <2>7 DEF RestoreTask, IndInv, TypeOK
    <3>2. /\ status'[t] \in {"triage", "todo", "scheduled", "ready", "review", "blocked", "done"}
          /\ status'[t] = "ready" => \A d \in deps[t] : status[d] = "done"
          /\ status'[t] = "done" => archivedFrom[t] = "done"
      <4>1. archivedFrom[t] \in (Status \ {"archived"}) \cup {"none"}
        BY DEF IndInv, TypeOK
      <4> QED
        BY <2>7, <4>1 DEF RestoreTask, DepsDone, Status, IndInv, TypeOK
    <3>3. deps[t] \subseteq Tasks
      BY DEF IndInv, TypeOK
    <3>4. KeptGraph
      BY <3>1, <3>2, <3>3 DEF KeptGraph, Exists, Gone
    <3>5. GateStep
      BY <3>1, <3>2 DEF GateStep, WasDone
    <3>6. LimitStep
      BY <3>1, <3>2 DEF LimitStep, Running
    <3> QED
      BY <3>4, <3>5, <3>6 DEF Conduct
  <2> QED
    BY <1>1, <1>3, <2>1, <2>2, <2>3, <2>4, <2>5, <2>6, <2>7, InputAssumption DEF Shape
<1>4. CASE UNCHANGED vars
  BY <1>1, <1>4, QuietConduct DEF vars, taskVars
<1> QED
  BY <1>1, <1>2, <1>3, <1>4, BecomeReadyConduct, ClaimConduct, DispatchConduct, RunConduct,
     ReviewConduct, RecoveryConduct, EnvironmentConduct DEF Next

LEMMA InitGraph == Init => GraphInv
BY DEF Init, GraphInv, DependenciesAcyclic, Acyclic, DependenciesExist, ReadyDepsWereDone

\* The graph of dependencies is sound in every reachable state.
THEOREM SoundGraph == Spec => []GraphInv
<1>1. IndInv /\ QuietRuns /\ GraphInv /\ [Next]_vars => GraphInv'
  BY NextGraph
<1> QED
  BY <1>1, InitGraph, Agreement, SilentTasksRun, PTL DEF Spec

\* No sequence of plans, links, removals and deletions closes a cycle of dependencies.
THEOREM NoCycle == Spec => []DependenciesAcyclic
<1>1. GraphInv => DependenciesAcyclic
  BY DEF GraphInv
<1> QED
  BY <1>1, SoundGraph, PTL

\* No dependency is left on a task that was deleted.
THEOREM NoDanglingDependency == Spec => []DependenciesExist
<1>1. GraphInv => DependenciesExist
  BY DEF GraphInv
<1> QED
  BY <1>1, SoundGraph, PTL

\* A ready task has no dependency that was never done, so that dispatchNext may
\* start it without looking.
THEOREM ReadyIsReady == Spec => []ReadyDepsWereDone
<1>1. GraphInv => ReadyDepsWereDone
  BY DEF GraphInv
<1> QED
  BY <1>1, SoundGraph, PTL

\* No task becomes done but by completion without a gate or by approval.
THEOREM GateHolds == Spec => ReviewGateHolds
<1>1. IndInv /\ QuietRuns /\ GraphInv /\ [Next]_vars => GateStep
  BY NextGraph
<1> QED
  BY <1>1, Agreement, SilentTasksRun, SoundGraph, PTL DEF Spec, ReviewGateHolds, GateStep

-----------------------------------------------------------------------------
(* The limits on running tasks *)

Neighbours(R, t) == {u \in R : Conversation[u] = Conversation[t]}

\* The limits bound every smaller set of running tasks.
LEMMA FewerRunning ==
  ASSUME NEW R \in SUBSET Tasks, NEW Q \in SUBSET R, NEW t
  PROVE  /\ Cardinality(Q) \in Nat /\ Cardinality(R) \in Nat
         /\ Cardinality(Q) <= Cardinality(R)
         /\ Cardinality(Neighbours(Q, t)) \in Nat /\ Cardinality(Neighbours(R, t)) \in Nat
         /\ Cardinality(Neighbours(Q, t)) <= Cardinality(Neighbours(R, t))
<1>1. IsFiniteSet(R)
  BY TaskAssumption, FS_Subset
<1>2. Neighbours(R, t) \in SUBSET R /\ Neighbours(Q, t) \in SUBSET Neighbours(R, t)
  BY DEF Neighbours
<1>3. IsFiniteSet(Neighbours(R, t)) /\ IsFiniteSet(Q)
  BY <1>1, <1>2, FS_Subset
<1>4. IsFiniteSet(Neighbours(Q, t))
  BY <1>2, <1>3, FS_Subset
<1>5. Cardinality(Q) <= Cardinality(R)
  BY <1>1, FS_Subset
<1>6. Cardinality(Neighbours(Q, t)) <= Cardinality(Neighbours(R, t))
  BY <1>2, <1>3, FS_Subset
<1> QED
  BY <1>1, <1>3, <1>4, <1>5, <1>6, FS_CardinalityType

\* One more run beside those of R.
LEMMA OneMoreRunning ==
  ASSUME NEW R \in SUBSET Tasks, NEW t \in Tasks, WithinWip(R, t)
  PROVE  /\ Cardinality(R \cup {t}) <= GlobalLimit
         /\ Cardinality(Neighbours(R, t) \cup {t}) <= ConversationLimit
<1>1. Neighbours(R, t) \in SUBSET Tasks
  BY DEF Neighbours
<1>2. IsFiniteSet(R) /\ IsFiniteSet(Neighbours(R, t))
  BY <1>1, TaskAssumption, FS_Subset
<1>3. Cardinality(R) \in Nat /\ Cardinality(Neighbours(R, t)) \in Nat
  BY <1>2, FS_CardinalityType
<1>4. Cardinality(R) < GlobalLimit /\ Cardinality(Neighbours(R, t)) < ConversationLimit
  BY DEF WithinWip, Neighbours
<1>5. /\ Cardinality(R \cup {t}) = IF t \in R THEN Cardinality(R) ELSE Cardinality(R) + 1
      /\ Cardinality(Neighbours(R, t) \cup {t}) =
           IF t \in Neighbours(R, t) THEN Cardinality(Neighbours(R, t))
           ELSE Cardinality(Neighbours(R, t)) + 1
  BY <1>2, FS_AddElement
<1> QED
  BY <1>3, <1>4, <1>5, BoundsAssumption

WipInv ==
  /\ Cardinality(Running) <= GlobalLimit
  /\ \A t \in Running : Cardinality(Neighbours(Running, t)) <= ConversationLimit

LEMMA WipStep ==
  ASSUME WipInv, LimitStep
  PROVE  WipInv'
<1>1. Running \in SUBSET Tasks /\ Running' \in SUBSET Tasks
  BY DEF Running
<1>2. WipInv' <=> /\ Cardinality(Running') <= GlobalLimit
                  /\ \A t \in Running' : Cardinality(Neighbours(Running', t)) <= ConversationLimit
  BY DEF WipInv, Neighbours
<1>3. CASE Running' \subseteq Running
  <2>1. Cardinality(Running') <= GlobalLimit
    BY <1>1, <1>3, FewerRunning, BoundsAssumption DEF WipInv
  <2>2. ASSUME NEW u \in Running' PROVE Cardinality(Neighbours(Running', u)) <= ConversationLimit
    <3>1. Cardinality(Neighbours(Running, u)) <= ConversationLimit
      BY <1>3, <2>2 DEF WipInv
    <3>2. /\ Cardinality(Neighbours(Running', u)) \in Nat
          /\ Cardinality(Neighbours(Running, u)) \in Nat
          /\ Cardinality(Neighbours(Running', u)) <= Cardinality(Neighbours(Running, u))
      BY <1>1, <1>3, FewerRunning
    <3> QED
      BY <3>1, <3>2, BoundsAssumption
  <2> QED
    BY <1>2, <2>1, <2>2
<1>4. CASE \E t \in Tasks, R \in SUBSET Running : Running' \subseteq R \cup {t} /\ WithinWip(R, t)
  <2>1. PICK t \in Tasks, R \in SUBSET Running : Running' \subseteq R \cup {t} /\ WithinWip(R, t)
    BY <1>4
  <2>2. R \in SUBSET Tasks /\ R \cup {t} \in SUBSET Tasks
    BY <1>1, <2>1
  <2>3. /\ Cardinality(R \cup {t}) <= GlobalLimit
        /\ Cardinality(Neighbours(R, t) \cup {t}) <= ConversationLimit
    BY <2>1, <2>2, OneMoreRunning
  <2>4. Cardinality(Running') <= GlobalLimit
    <3>1. /\ Cardinality(Running') \in Nat /\ Cardinality(R \cup {t}) \in Nat
          /\ Cardinality(Running') <= Cardinality(R \cup {t})
      BY <2>1, <2>2, FewerRunning
    <3> QED
      BY <2>3, <3>1, BoundsAssumption
  <2>5. ASSUME NEW u \in Running' PROVE Cardinality(Neighbours(Running', u)) <= ConversationLimit
    <3>1. /\ Cardinality(Neighbours(Running', u)) \in Nat
          /\ Cardinality(Neighbours(R \cup {t}, u)) \in Nat
          /\ Cardinality(Neighbours(Running', u)) <= Cardinality(Neighbours(R \cup {t}, u))
      BY <2>1, <2>2, FewerRunning
    <3>2. CASE Conversation[u] = Conversation[t]
      <4>1. Neighbours(R \cup {t}, u) = Neighbours(R, t) \cup {t}
        BY <3>2 DEF Neighbours
      <4> QED
        BY <2>3, <3>1, <4>1, BoundsAssumption
    <3>3. CASE Conversation[u] # Conversation[t]
      <4>1. Neighbours(R \cup {t}, u) = Neighbours(R, u)
        BY <3>3 DEF Neighbours
      <4>2. u \in Running
        BY <2>1, <2>5, <3>3
      <4>3. Cardinality(Neighbours(Running, u)) <= ConversationLimit
        BY <4>2 DEF WipInv
      <4>4. /\ Cardinality(Neighbours(R, u)) \in Nat /\ Cardinality(Neighbours(Running, u)) \in Nat
            /\ Cardinality(Neighbours(R, u)) <= Cardinality(Neighbours(Running, u))
        BY <1>1, <2>1, FewerRunning
      <4> QED
        BY <3>1, <4>1, <4>3, <4>4, BoundsAssumption
    <3> QED
      BY <3>2, <3>3
  <2> QED
    BY <1>2, <2>4, <2>5
<1> QED
  BY <1>3, <1>4 DEF LimitStep

LEMMA InitWip == Init => WipInv
<1> SUFFICES ASSUME Init PROVE WipInv
  OBVIOUS
<1>1. Running = {}
  BY DEF Init, Running
<1> QED
  BY <1>1, FS_EmptySet, BoundsAssumption DEF WipInv

\* The global and the per-conversation limit hold whichever way runs are started:
\* by hand, by a board worker, under a claim or by dispatchNext.
THEOREM LimitsHold == Spec => []WipRespected
<1>1. IndInv /\ QuietRuns /\ GraphInv /\ WipInv /\ [Next]_vars => WipInv'
  BY NextGraph, WipStep
<1>2. WipInv => WipRespected
  BY DEF WipInv, WipRespected, Running, Neighbours
<1> QED
  BY <1>1, <1>2, InitWip, Agreement, SilentTasksRun, SoundGraph, PTL DEF Spec

-----------------------------------------------------------------------------
(* Late results *)

LateStep ==
  \A r \in workers \ workers' :
    /\ \A q \in RunIds \ {r} : runs'[q] = runs[q]
    /\ runs[r].status # "running" => UNCHANGED <<taskVars, claimVars>>

\* A worker whose run was closed meanwhile changes nothing; one whose run is active closes it.
LEMMA WorkerLate ==
  ASSUME IndInv, NEW r \in RunIds, WorkerCompletes(r) \/ WorkerFails(r)
  PROVE  LateStep
<1> DEFINE t == runs[r].task
<1>1. workers' = workers \ {r}
  BY DEF WorkerCompletes, WorkerFails
<1>2. CASE UNCHANGED <<runs, taskVars, claimVars>>
  BY <1>1, <1>2 DEF LateStep
<1>3. CASE Active(t) # {} /\ r = ActiveRun(t) /\ \E outcome : runs' = Closed({t}, outcome)
  <2>1. \A q \in RunIds \ {r} : runs'[q] = runs[q]
    BY <1>3 DEF Closed
  <2>2. t \in Tasks
    BY <1>3, UnusedHasNoRun DEF IndInv
  <2>3. runs[r].status = "running"
    <3>1. r \in Active(t)
      BY <1>3, <2>2, ActiveRunIsActive DEF IndInv
    <3> QED
      BY <3>1 DEF Active
  <2> QED
    BY <1>1, <2>1, <2>3 DEF LateStep
<1> QED
  BY <1>2, <1>3 DEF WorkerCompletes, WorkerFails, Finish, Interrupt

LEMMA NextLate == IndInv /\ [Next]_vars => LateStep
<1> SUFFICES ASSUME IndInv, [Next]_vars PROVE LateStep
  OBVIOUS
<1>1. CASE workers \subseteq workers'
  BY <1>1 DEF LateStep
<1>2. CASE \E r \in RunIds : WorkerCompletes(r) \/ WorkerFails(r)
  BY <1>2, WorkerLate
<1>3. CASE UNCHANGED <<runs, taskVars, claimVars>>
  BY <1>3 DEF LateStep
<1>4. Plan => UNCHANGED workers
  BY DEF Plan, CreatePlan, runVars
<1>5. Shape => UNCHANGED workers
  BY DEF Shape, AcceptTriage, Reassign, SetReviewGate, LinkDependency, RemoveDependency,
         DeleteTask, ScheduleTask, ArchiveTask, RestoreTask, runVars
<1>6. BecomeReady => UNCHANGED workers
  BY DEF BecomeReady, MarkReady, PromoteScheduledTask, PromoteDueTasks, Promote, UnblockTask, runVars
<1>7. Claim => UNCHANGED workers
  BY DEF Claim, ClaimTask, HeartbeatClaim, ReleaseClaim, StartClaimedTask, CompleteClaimedTask,
         RecordDispatchFailure, runVars
<1>8. Dispatch => UNCHANGED workers
  BY DEF Dispatch, DispatchNothing, DispatchTask
<1>9. Run => workers \subseteq workers' \/ \E r \in RunIds : WorkerCompletes(r) \/ WorkerFails(r)
  BY DEF Run, StartTask, RunBoardTask, HeartbeatTask, CompleteTask, FailTask, BlockTask, CloseActiveRun
<1>10. Review => UNCHANGED workers
  BY DEF Review, RequestReview, ApproveReview, RequestChanges, ReopenReview, runVars
<1>11. Recovery => UNCHANGED workers
  BY DEF Recovery, RecoverExpiredClaims, Repair, RecoverSilentRuns
<1>12. Environment => UNCHANGED workers \/ UNCHANGED <<runs, taskVars, claimVars>>
  BY DEF Environment, LeaseLapses, ScheduleComesDue, RunFallsSilent, CircuitCoolsDown,
         BridgeRestarts, runVars
<1>13. UNCHANGED vars => UNCHANGED workers
  BY DEF vars, runVars
<1> QED
  BY <1>1, <1>2, <1>3, <1>4, <1>5, <1>6, <1>7, <1>8, <1>9, <1>10, <1>11, <1>12, <1>13 DEF Next

\* After its run was closed by someone else and the task was started again, a
\* worker's late result leaves the new run alone, and every task and claim too.
THEOREM LateResultsAreHarmless == Spec => LateResultTouchesOnlyItsRun
<1>1. IndInv /\ [Next]_vars => LateStep
  BY NextLate
<1> QED
  BY <1>1, Agreement, PTL DEF Spec, LateResultTouchesOnlyItsRun, LateStep
=============================================================================
