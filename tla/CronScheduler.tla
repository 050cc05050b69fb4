----------------------------- MODULE CronScheduler -----------------------------
(***************************************************************************)
(* Scheduled jobs: the store of src/src/state/cron-store.ts and the timers *)
(* and runs of src/src/runtime/cron-scheduler.ts, with the commands that   *)
(* add, remove, toggle and run jobs.                                       *)
(*                                                                         *)
(* Writes to the store are serialised and atomic.  Between any two awaits  *)
(* of runJob other callbacks run: timers fire, commands edit the store and *)
(* refresh the timers from a list they read before.  A run has a lane of   *)
(* its job: the bookkeeping of one run may overlap the next.               *)
(***************************************************************************)
EXTENDS Naturals, Sequences, FiniteSets

CONSTANTS
  Jobs,           \* job ids
  EnabledLimit,   \* MAX_ENABLED_CRON_JOBS_PER_CHAT; one conversation is modelled
  MaxFailures,    \* maxFailures of the jobs; longer streaks are counted as this
  Lanes,          \* bound: runs of one job that may overlap
  MaxEdits,       \* bound: commands
  MaxMishaps,     \* bound: stops, crashes, failing reads and writes of the store
  NoRun           \* an unused lane

VARIABLES
  store,      \* job -> [state, runOnce, timed, failures]: the file
  phase,      \* job -> "future", "due" or "missed": now against its targetAt; "never":
              \* a one-shot of the file without a usable targetAt
  service,    \* "up", "stopping" (scheduler.stop was called) or "down"
  timer,      \* job -> "off", "armed", or, of a one-shot, "fired" or "skipped"
  active,     \* activeJobIds
  run,        \* lane of a job -> the runJob under way in it, or NoRun
  unread,     \* refreshes that have yet to read the store
  lists,      \* enabled jobs as read by refreshes that have yet to apply them
  edits, mishaps,   \* counters of the bounds
  unsaved,    \* history: jobs whose last run did not complete its bookkeeping, one-shots
              \* whose last run could not read its job
  reenabled,  \* history: jobs enabled by a command since their last recorded run
  overlooked  \* history: jobs a refresh failed to list, until one lists them

vars == <<store, phase, service, timer, active, run, unread, lists,
          edits, mishaps, unsaved, reenabled, overlooked>>
memory == <<timer, active, run, unread, lists>>
history == <<unsaved, reenabled, overlooked>>
bounds == <<edits, mishaps>>

JobRecord == [state : {"none", "enabled", "disabled", "removed"},
           runOnce : BOOLEAN,   \* a one-shot with a targetAt, or a cron expression
           timed : BOOLEAN,     \* timeoutMins > 0
           failures : 0..MaxFailures]
Slots == Jobs \X Lanes
Steps == {"get", "trigger", "execute", "record", "disable", "notify", "retire", "linger",
          "recordMissed", "disableMissed"}
Outcomes == {"none", "success", "failed", "denied"}
Run == [at : Steps, outcome : Outcomes, lingers : BOOLEAN]

ASSUME CronAssumption ==
  /\ EnabledLimit \in Nat /\ MaxFailures \in Nat \ {0}
  /\ MaxEdits \in Nat /\ MaxMishaps \in Nat /\ Lanes # {}
  /\ NoRun \notin Run

-----------------------------------------------------------------------------
OneShots == {j \in Jobs : store[j].runOnce}
Recurring == Jobs \ OneShots
Enabled == {j \in Jobs : store[j].state = "enabled"}
Serving == service = "up"
Working == service # "down"

\* A run goes to its next await.
StepOf(s) == IF run[s] = NoRun THEN "none" ELSE run[s].at
At(s, step) == Working /\ StepOf(s) = step
Goto(s, step) == [run EXCEPT ![s].at = step]

\* Executions that have started and have not ended, timed out or not.
Lingers(s) == IF run[s] = NoRun THEN FALSE ELSE run[s].lingers
Executing(j) == {l \in Lanes : StepOf(<<j, l>>) = "execute" \/ Lingers(<<j, l>>)}

SetState(j, state) == [store EXCEPT ![j].state = state]

\* recordRun: a success clears the count of failures, a failure adds to it.
CountRun(j, success) ==
  [store EXCEPT ![j].failures =
     IF success THEN 0 ELSE IF @ < MaxFailures THEN @ + 1 ELSE @]

\* A run with nothing left to write: it is gone once its execution ended.
After(s) == [run EXCEPT ![s] = IF @.lingers THEN [@ EXCEPT !.at = "linger"] ELSE NoRun]

-----------------------------------------------------------------------------
(* Commands: each edits the store and then refreshes the scheduler *)

Edit == Serving /\ edits < MaxEdits /\ edits' = edits + 1

Add(j) ==
  /\ Edit
  /\ store[j].state = "none" /\ Cardinality(Enabled) < EnabledLimit
  /\ store' = SetState(j, "enabled")
  /\ unread' = unread + 1
  /\ UNCHANGED <<phase, service, timer, active, run, lists, mishaps, history>>

RemoveJob(j) ==
  /\ Edit
  /\ store[j].state \in {"enabled", "disabled"}
  /\ store' = SetState(j, "removed")
  /\ unread' = unread + 1
  /\ UNCHANGED <<phase, service, timer, active, run, lists, mishaps, history>>

ToggleOff(j) ==
  /\ Edit
  /\ store[j].state = "enabled"
  /\ store' = SetState(j, "disabled")
  /\ unread' = unread + 1
  /\ UNCHANGED <<phase, service, timer, active, run, lists, mishaps, history>>

\* Mutant of ToggleOn: the scheduler is not told.
ToggleOnUnscheduled(j) ==
  /\ Edit
  /\ store[j].state = "disabled" /\ Cardinality(Enabled) < EnabledLimit
  /\ store' = SetState(j, "enabled")
  /\ reenabled' = reenabled \cup {j}
  /\ UNCHANGED <<phase, service, memory, mishaps, unsaved, overlooked>>

\* The count of failures is kept.
ToggleOn(j) ==
  /\ Edit
  /\ store[j].state = "disabled" /\ Cardinality(Enabled) < EnabledLimit
  /\ store' = SetState(j, "enabled")
  /\ unread' = unread + 1
  /\ reenabled' = reenabled \cup {j}
  /\ UNCHANGED <<phase, service, timer, active, run, lists, mishaps, unsaved, overlooked>>

\* /cron mode edits a field that nothing here depends on, and refreshes.
ChangeMode ==
  /\ Edit
  /\ \E j \in Jobs : store[j].state \in {"enabled", "disabled"}
  /\ unread' = unread + 1
  /\ UNCHANGED <<store, phase, service, timer, active, run, lists, mishaps, history>>

-----------------------------------------------------------------------------
(* refresh and scheduleJob *)

ReadJobs ==
  /\ Serving /\ unread > 0
  /\ unread' = unread - 1
  /\ lists' = Append(lists, Enabled)
  /\ overlooked' = {}
  /\ UNCHANGED <<store, phase, service, timer, active, run, bounds, unsaved, reenabled>>

\* store.list throws: the refresh is lost, and the command that asked for it fails.
ReadFails ==
  /\ Serving /\ unread > 0 /\ mishaps < MaxMishaps
  /\ mishaps' = mishaps + 1
  /\ unread' = unread - 1
  /\ overlooked' = overlooked \cup Enabled
  /\ UNCHANGED <<store, phase, service, timer, active, run, lists, edits, unsaved, reenabled>>

\* The timers after scheduleJob of every job listed as enabled and
\* unscheduleJob of all others.
TimersFor(listed) ==
  [j \in Jobs |-> IF j \in listed /\ phase[j] \notin {"missed", "never"} THEN "armed" ELSE "off"]

\* markRunOnceMissed begins for the one-shots that are overdue beyond the grace.
Overdue(listed) == {j \in listed : phase[j] = "missed"}
Missed == [at |-> "recordMissed", outcome |-> "failed", lingers |-> FALSE]
FirstFree(j) == CHOOSE l \in Lanes : run[<<j, l>>] = NoRun
FreeLane(s) == run[s] = NoRun /\ s[2] = FirstFree(s[1])
\* Mutant of RunsFor: a one-shot beyond the grace is passed over in silence.
RunsForNone(listed) == run

RunsFor(listed) ==
  [s \in Slots |-> IF s[1] \in Overdue(listed) /\ FreeLane(s) THEN Missed ELSE run[s]]

\* Within the bound on overlapping runs.
LanesFor(listed) == \A j \in Overdue(listed) : \E l \in Lanes : run[<<j, l>>] = NoRun

ApplyJobs ==
  /\ Serving /\ lists # <<>>
  /\ LanesFor(Head(lists))
  /\ timer' = TimersFor(Head(lists))
  /\ run' = RunsFor(Head(lists))
  /\ lists' = Tail(lists)
  /\ UNCHANGED <<store, phase, service, active, unread, bounds, history>>

-----------------------------------------------------------------------------
(* runJob *)

\* A fire while the job is active is skipped.
Begin(j) ==
  IF j \in active
  THEN UNCHANGED <<active, run>>
  ELSE /\ active' = active \cup {j}
       /\ \E l \in Lanes :
            /\ FreeLane(<<j, l>>)
            /\ run' = [run EXCEPT ![<<j, l>>] =
                         [at |-> "get", outcome |-> "none", lingers |-> FALSE]]

\* A timer goes off: that of a one-shot is spent, its entry stays.
Spent(j) == IF j \in Recurring THEN "armed" ELSE IF j \in active THEN "skipped" ELSE "fired"
Fire(j) ==
  /\ Serving /\ timer[j] = "armed" /\ phase[j] # "future"
  /\ timer' = [timer EXCEPT ![j] = Spent(j)]
  /\ Begin(j)
  /\ UNCHANGED <<store, phase, service, unread, lists, bounds, history>>

\* /cron run of an enabled job
RunNow(j) ==
  /\ Edit
  /\ j \in Enabled
  /\ Begin(j)
  /\ UNCHANGED <<store, phase, service, timer, unread, lists, mishaps, history>>

\* store.get: a job that is gone, or disabled, is not run; nor is any once the
\* scheduler was stopped.
GetJob(s) ==
  LET j == s[1] IN
  /\ At(s, "get")
  /\ IF j \in Enabled /\ Serving
     THEN run' = Goto(s, "trigger") /\ UNCHANGED <<timer, active>>
     ELSE /\ run' = [run EXCEPT ![s] = NoRun]
          /\ active' = active \ {j}
          /\ timer' = IF store[j].state = "removed" THEN [timer EXCEPT ![j] = "off"] ELSE timer
  /\ UNCHANGED <<store, phase, service, unread, lists, bounds, history>>

\* store.get throws: the run is given up; the timer of a one-shot stays spent.
GetFails(s) ==
  /\ At(s, "get") /\ mishaps < MaxMishaps
  /\ mishaps' = mishaps + 1
  /\ run' = [run EXCEPT ![s] = NoRun]
  /\ active' = active \ {s[1]}
  /\ unsaved' = unsaved \cup ({s[1]} \cap OneShots)
  /\ UNCHANGED <<store, phase, service, timer, unread, lists, edits, reenabled, overlooked>>

\* The timeline event is written; the executor starts.
StartExecution(s) ==
  /\ At(s, "trigger")
  /\ run' = Goto(s, "execute")
  /\ UNCHANGED <<store, phase, service, timer, active, unread, lists, bounds, history>>

\* The execution ends: the job is no longer active, its bookkeeping begins.
EndExecution(s) ==
  /\ At(s, "execute")
  /\ \E outcome \in {"success", "failed", "denied"} :
       run' = [run EXCEPT ![s].at = "record", ![s].outcome = outcome]
  /\ active' = active \ {s[1]}
  /\ UNCHANGED <<store, phase, service, timer, unread, lists, bounds, history>>

\* Mutant of TimeOut: the job counts as idle although its execution goes on.
TimeOutAndForget(s) ==
  /\ At(s, "execute") /\ store[s[1]].timed
  /\ run' = [run EXCEPT ![s] = [at |-> "record", outcome |-> "failed", lingers |-> TRUE]]
  /\ active' = active \ {s[1]}
  /\ UNCHANGED <<store, phase, service, timer, unread, lists, bounds, history>>

\* The timeout is reported as a failure while the execution goes on.
TimeOut(s) ==
  /\ At(s, "execute") /\ store[s[1]].timed
  /\ run' = [run EXCEPT ![s] = [at |-> "record", outcome |-> "failed", lingers |-> TRUE]]
  /\ UNCHANGED <<store, phase, service, timer, active, unread, lists, bounds, history>>

EndLingering(s) ==
  /\ Working /\ Lingers(s)
  /\ run' = [run EXCEPT ![s] = IF @.at = "linger" THEN NoRun ELSE [@ EXCEPT !.lingers = FALSE]]
  /\ active' = active \ {s[1]}
  /\ UNCHANGED <<store, phase, service, timer, unread, lists, bounds, history>>

-----------------------------------------------------------------------------
(* Bookkeeping of a run *)

\* What is left to do for a run of job j once its outcome is recorded, or not.
NextStep(j, outcome, recorded) ==
  IF /\ recorded
     /\ \/ outcome = "denied"
        \/ outcome = "failed" /\ j \in Recurring /\ store'[j].failures >= MaxFailures
  THEN "disable"
  ELSE IF outcome = "failed" THEN "notify"
  ELSE IF j \in OneShots THEN "retire" ELSE "over"

Proceed(s, step) == run' = IF step = "over" THEN After(s) ELSE Goto(s, step)

\* recordRun; a job that was removed meanwhile has no record.
Record(s) ==
  LET j == s[1]
      recorded == store[j].state # "removed"
  IN
  /\ At(s, "record")
  /\ store' = IF recorded THEN CountRun(j, run[s].outcome = "success") ELSE store
  /\ Proceed(s, NextStep(j, run[s].outcome, recorded))
  /\ unsaved' = unsaved \ {j}
  /\ reenabled' = reenabled \ {j}
  /\ UNCHANGED <<phase, service, timer, active, unread, lists, bounds, overlooked>>

RecordFails(s) ==
  /\ At(s, "record") /\ mishaps < MaxMishaps
  /\ mishaps' = mishaps + 1
  /\ UNCHANGED store
  /\ Proceed(s, NextStep(s[1], run[s].outcome, FALSE))
  /\ unsaved' = unsaved \cup {s[1]}
  /\ UNCHANGED <<phase, service, timer, active, unread, lists, edits, reenabled, overlooked>>

AfterDisable(s) ==
  IF run[s].outcome = "failed" THEN "notify" ELSE IF s[1] \in OneShots THEN "retire" ELSE "over"

\* store.update of enabled to FALSE, if the job is still there.
Disabled(j) == IF store[j].state = "enabled" THEN SetState(j, "disabled") ELSE store

\* Mutant of Disable: only the timer is stopped.
DisableTimerOnly(s) ==
  /\ At(s, "disable")
  /\ timer' = [timer EXCEPT ![s[1]] = "off"]
  /\ Proceed(s, AfterDisable(s))
  /\ UNCHANGED <<store, phase, service, active, unread, lists, bounds, history>>

\* disableAfterFailures: the timer goes with the job.
Disable(s) ==
  /\ At(s, "disable")
  /\ store' = Disabled(s[1])
  /\ timer' = [timer EXCEPT ![s[1]] = "off"]
  /\ Proceed(s, AfterDisable(s))
  /\ UNCHANGED <<phase, service, active, unread, lists, bounds, history>>

DisableFails(s) ==
  /\ At(s, "disable") /\ mishaps < MaxMishaps
  /\ mishaps' = mishaps + 1
  /\ Proceed(s, AfterDisable(s))
  /\ unsaved' = unsaved \cup {s[1]}
  /\ UNCHANGED <<store, phase, service, timer, active, unread, lists,
                 edits, reenabled, overlooked>>

\* onJobFailure tells the chat; its own failure is only logged.
Notify(s) ==
  /\ At(s, "notify")
  /\ Proceed(s, IF s[1] \in OneShots THEN "retire" ELSE "over")
  /\ UNCHANGED <<store, phase, service, timer, active, unread, lists, bounds, history>>

\* The one-shot is disabled after its attempt, whatever the outcome.
Retire(s) ==
  /\ At(s, "retire")
  /\ store' = Disabled(s[1])
  /\ timer' = [timer EXCEPT ![s[1]] = "off"]
  /\ Proceed(s, "over")
  /\ UNCHANGED <<phase, service, active, unread, lists, bounds, history>>

RetireFails(s) ==
  /\ At(s, "retire") /\ mishaps < MaxMishaps
  /\ mishaps' = mishaps + 1
  /\ timer' = [timer EXCEPT ![s[1]] = "off"]
  /\ Proceed(s, "over")
  /\ unsaved' = unsaved \cup {s[1]}
  /\ UNCHANGED <<store, phase, service, active, unread, lists, edits, reenabled, overlooked>>

RecordMissed(s) ==
  /\ At(s, "recordMissed")
  /\ IF store[s[1]].state = "removed"
     THEN UNCHANGED store /\ run' = [run EXCEPT ![s] = NoRun]
     ELSE store' = CountRun(s[1], FALSE) /\ run' = Goto(s, "disableMissed")
  /\ UNCHANGED <<phase, service, timer, active, unread, lists, bounds, history>>

DisableMissed(s) ==
  /\ At(s, "disableMissed")
  /\ store' = Disabled(s[1])
  /\ run' = [run EXCEPT ![s] = NoRun]
  /\ UNCHANGED <<phase, service, timer, active, unread, lists, bounds, history>>

\* A failed write of either kind is logged and ends markRunOnceMissed.
MarkMissedFails(s) ==
  /\ At(s, "recordMissed") \/ At(s, "disableMissed")
  /\ mishaps < MaxMishaps
  /\ mishaps' = mishaps + 1
  /\ run' = [run EXCEPT ![s] = NoRun]
  /\ unsaved' = unsaved \cup {s[1]}
  /\ UNCHANGED <<store, phase, service, timer, active, unread, lists, edits, reenabled, overlooked>>

-----------------------------------------------------------------------------
(* Service and time *)

\* stop: timers are cleared; commands have no scheduler any more.
Stop ==
  /\ Serving /\ mishaps < MaxMishaps
  /\ mishaps' = mishaps + 1
  /\ service' = "stopping"
  /\ timer' = [j \in Jobs |-> "off"]
  /\ UNCHANGED <<store, phase, active, run, unread, lists, edits, history>>

\* The process ends: what is in memory is gone, runs that had executed leave
\* their bookkeeping undone.
Ended == {s \in Slots : StepOf(s) \notin {"none", "get", "trigger", "execute"}}
Halt ==
  /\ service' = "down"
  /\ timer' = [j \in Jobs |-> "off"]
  /\ active' = {}
  /\ run' = [s \in Slots |-> NoRun]
  /\ unread' = 0
  /\ lists' = <<>>
  /\ unsaved' = unsaved \cup {s[1] : s \in Ended}
  /\ overlooked' = {}
  /\ UNCHANGED <<store, phase, edits, reenabled>>

\* stop waits for executions, for 30 seconds at most, and never for bookkeeping.
Exit == service = "stopping" /\ Halt /\ UNCHANGED mishaps

Crash == Serving /\ mishaps < MaxMishaps /\ mishaps' = mishaps + 1 /\ Halt

\* start schedules the enabled jobs of the store.
Boot ==
  /\ service = "down"
  /\ service' = "up"
  /\ timer' = TimersFor(Enabled)
  /\ run' = RunsFor(Enabled)
  /\ UNCHANGED <<store, phase, active, unread, lists, bounds, history>>

TargetReached(j) ==
  /\ j \in OneShots /\ phase[j] = "future" /\ store[j].state # "none"
  /\ phase' = [phase EXCEPT ![j] = "due"]
  /\ UNCHANGED <<store, service, memory, bounds, history>>

\* An hour passes only while nothing but executions is under way: a pending
\* timer, refresh or write takes far less.
Waiting == /\ unread = 0 /\ lists = <<>>
           /\ \A s \in Slots : StepOf(s) \in {"none", "execute", "linger"}
GraceExpires(j) ==
  /\ j \in OneShots /\ phase[j] = "due" /\ Waiting /\ timer[j] # "armed"
  /\ phase' = [phase EXCEPT ![j] = "missed"]
  /\ UNCHANGED <<store, service, memory, bounds, history>>

-----------------------------------------------------------------------------
\* The service starts over a store with any jobs in it.
Init ==
  /\ store \in [Jobs -> {job \in JobRecord : job.state # "removed" /\ job.failures = 0}]
  /\ Cardinality(Enabled) <= EnabledLimit
  /\ phase \in [Jobs -> {"future", "due", "never"}]
  /\ \A j \in Jobs : phase[j] = "due" <=> j \in Recurring
  /\ \A j \in Jobs : store[j].state = "none" => phase[j] # "never"
  /\ service = "down"
  /\ timer = [j \in Jobs |-> "off"]
  /\ active = {} /\ run = [s \in Slots |-> NoRun]
  /\ unread = 0 /\ lists = <<>>
  /\ edits = 0 /\ mishaps = 0
  /\ unsaved = {} /\ reenabled = {} /\ overlooked = {}

Bookkeeping(s) ==
  \/ Record(s) \/ RecordFails(s) \/ Disable(s) \/ DisableFails(s) \/ Notify(s)
  \/ Retire(s) \/ RetireFails(s)
  \/ RecordMissed(s) \/ DisableMissed(s) \/ MarkMissedFails(s)
Step(s) ==
  GetJob(s) \/ GetFails(s) \/ StartExecution(s) \/ EndExecution(s) \/ EndLingering(s) \/ Bookkeeping(s)

Next ==
  \/ \E j \in Jobs : Add(j) \/ RemoveJob(j) \/ ToggleOff(j) \/ ToggleOn(j) \/ RunNow(j)
  \/ ChangeMode \/ ReadJobs \/ ReadFails \/ ApplyJobs
  \/ \E j \in Jobs : Fire(j) \/ TargetReached(j) \/ GraceExpires(j)
  \/ \E s \in Slots : Step(s) \/ TimeOut(s)
  \/ Stop \/ Exit \/ Crash \/ Boot

\* Timers go off, awaits return, executions end (they are aborted when they
\* time out), a stopped service exits and one that is down is started again.
Fairness ==
  /\ \A j \in Jobs : WF_vars(Fire(j))
  /\ \A s \in Slots : WF_vars(Step(s))
  /\ WF_vars(ReadJobs) /\ WF_vars(ApplyJobs) /\ WF_vars(Exit) /\ WF_vars(Boot)

Spec == Init /\ [][Next]_vars
FairSpec == Spec /\ Fairness

-----------------------------------------------------------------------------
\* Types; and a job counts as active exactly while a run of it is on its way to
\* its execution or executes: an entry left behind would skip every later fire.
TypeOK ==
  /\ active = {j \in Jobs : \/ Executing(j) # {}
                            \/ \E l \in Lanes : StepOf(<<j, l>>) \in {"get", "trigger"}}
  /\ store \in [Jobs -> JobRecord]
  /\ phase \in [Jobs -> {"future", "due", "missed", "never"}]
  /\ service \in {"up", "stopping", "down"}
  /\ timer \in [Jobs -> {"off", "armed", "fired", "skipped"}]
  /\ active \subseteq Jobs
  /\ run \in [Slots -> Run \cup {NoRun}]
  /\ unread \in 0..MaxEdits /\ lists \in Seq(SUBSET Jobs)
  /\ edits \in 0..MaxEdits /\ mishaps \in 0..MaxMishaps
  /\ unsaved \subseteq Jobs /\ reenabled \subseteq Jobs /\ overlooked \subseteq Jobs

\* A job never runs twice at once, through timeouts, /cron run, refreshes and
\* fires that come while it is still at work (cron-scheduler.ts:200).
NoOverlap == \A j \in Jobs : Cardinality(Executing(j)) <= 1

Idle(j) == \A l \in Lanes : run[<<j, l>>] = NoRun

\* A job the user sees as enabled has its timer: once every refresh is applied
\* and no run of the job is under way, it is armed.  What leaves a job enabled
\* and dead is named: a bookkeeping write that failed, a one-shot's run that could
\* not read the job, a one-shot's fire skipped while an execution that had timed
\* out went on, a refresh that failed to read the store and none since, and a
\* one-shot of the file without a targetAt.
EnabledIsArmed ==
  Serving /\ unread = 0 /\ lists = <<>> =>
    \A j \in Enabled :
      Idle(j) => \/ timer[j] \in {"armed", "skipped"} \/ phase[j] = "never"
                 \/ j \in unsaved \cup overlooked

\* A recurring job with MaxFailures failures in a row is disabled once its
\* runs are over, unless a command enabled it again, a bookkeeping write
\* failed or the process ended in between.
StreakDisables ==
  \A j \in Recurring \cap Enabled :
    Idle(j) /\ store[j].failures >= MaxFailures => j \in reenabled \cup unsaved

\* A one-shot that is due is run, recorded as missed, or taken back: it does
\* not stay enabled for ever, whatever stops, crashes and restarts do, but for
\* the exceptions of EnabledIsArmed.
OneShotSettles ==
  \A j \in Jobs :
    (j \in OneShots \cap Enabled /\ phase[j] \in {"due", "missed"})
      ~> (j \notin Enabled \/ j \in unsaved \cup overlooked \/ timer[j] = "skipped")

\* docs/state-model.md:504: "runOnce jobs are disabled after their first
\* execution attempt": no second attempt starts over the first one's.
Attempts(j) == {l \in Lanes : StepOf(<<j, l>>) \in {"execute", "record", "disable", "notify", "retire"}}
OneAttempt == \A j \in OneShots : Cardinality(Attempts(j)) <= 1
=============================================================================
