------------------------------ MODULE CronProofs ------------------------------
(***************************************************************************)
(* A job never runs twice at once; one that fails too often in a row is    *)
(* disabled; an enabled one has its timer: for any jobs, limits, lanes and *)
(* commands.                                                               *)
(*                                                                         *)
(* A run holds its job from its start to the end of its execution, timed   *)
(* out or not; activeJobIds covers the jobs held, and a job has at most    *)
(* one run that holds it.  Bookkeeping of earlier runs goes on beside it.  *)
(***************************************************************************)
EXTENDS CronScheduler, FiniteSetTheorems, TLAPS

Early == {"get", "trigger", "execute"}

\* What a lane may hold, and whether the run in it holds its job.
Fit(r) ==
  \/ r = NoRun
  \/ /\ r \in Run
     /\ r.at \in Early => r.lingers = FALSE
     /\ r.at = "record" => r.outcome # "none"
Holds(r) == r # NoRun /\ (r.at \in Early \/ r.lingers = TRUE)

Held ==
  /\ run = [s \in Slots |-> run[s]]
  /\ \A s \in Slots : Fit(run[s])
  /\ \A s \in Slots : Holds(run[s]) => s[1] \in active
  /\ \A s, t \in Slots : Holds(run[s]) /\ Holds(run[t]) /\ s[1] = t[1] => s = t

-----------------------------------------------------------------------------
\* Initially no run is under way.
LEMMA InitHeld == Init => Held
  BY DEF Init, Held, Fit, Holds

\* A run goes on, or ends and gives its job up.
LEMMA Replace ==
  ASSUME Held, NEW s \in Slots, NEW r, Fit(r), run' = [run EXCEPT ![s] = r],
         Holds(r) => Holds(run[s]),
         \/ active' = active
         \/ active' = active \ {s[1]} /\ ~Holds(r) /\ Holds(run[s])
  PROVE  Held'
<1>1. /\ run' = [t \in Slots |-> run'[t]] /\ run'[s] = r
      /\ \A t \in Slots : t # s => run'[t] = run[t]
  BY DEF Held
<1>2. \A t \in Slots : Holds(run'[t]) => Holds(run[t])
  BY <1>1
<1>3. \A t \in Slots : Fit(run'[t])
  BY <1>1 DEF Held
<1>4. \A t \in Slots : Holds(run'[t]) => t[1] \in active'
  <2> SUFFICES ASSUME NEW t \in Slots, Holds(run'[t]) PROVE t[1] \in active'
    OBVIOUS
  <2>1. Holds(run[t]) /\ t[1] \in active
    BY <1>2 DEF Held
  <2>2. CASE active' = active
    BY <2>1, <2>2
  <2>3. CASE active' = active \ {s[1]} /\ ~Holds(r) /\ Holds(run[s])
    <3>1. t # s
      BY <1>1, <2>3
    <3>2. t[1] # s[1]
      BY <2>1, <2>3, <3>1 DEF Held
    <3> QED BY <2>1, <2>3, <3>2
  <2> QED BY <2>2, <2>3
<1>5. \A t, u \in Slots : Holds(run'[t]) /\ Holds(run'[u]) /\ t[1] = u[1] => t = u
  BY <1>2 DEF Held
<1> QED BY <1>1, <1>3, <1>4, <1>5 DEF Held, Fit, Holds

\* Neither the runs nor the set of active jobs change.
LEMMA SameRuns == ASSUME Held, UNCHANGED <<active, run>> PROVE Held'
  BY DEF Held, Fit, Holds

\* A step of one run that is past its execution.
LEMMA StepFacts ==
  ASSUME Held, NEW s \in Slots, run[s] # NoRun
  PROVE  /\ run[s] \in Run
         /\ run[s].at \in Early => run[s].lingers = FALSE
         /\ run[s].at = "record" => run[s].outcome # "none"
  BY DEF Held, Fit

\* Going on to another await keeps what the run knows.
LEMMA Going ==
  ASSUME Held, NEW s \in Slots, run[s] # NoRun, NEW step \in Steps
  PROVE  LET r == [run[s] EXCEPT !.at = step] IN
         /\ r \in Run /\ r # NoRun /\ r.at = step /\ r.lingers = run[s].lingers
         /\ Goto(s, step) = [run EXCEPT ![s] = r]
<1>1. run[s] \in Run
  BY StepFacts
<1> QED BY <1>1, CronAssumption DEF Run, Goto

\* Bookkeeping that goes on, or is over, leaves the job held or free as it was.
LEMMA ProceedHeld ==
  ASSUME Held, NEW s \in Slots, run[s] # NoRun, run[s].at \notin Early,
         NEW step \in (Steps \ (Early \cup {"record"})) \cup {"over"}, Proceed(s, step), active' = active
  PROVE  Held'
<1>1. run[s] \in Run
  BY StepFacts
<1>2. CASE step # "over"
  <2> DEFINE r == [run[s] EXCEPT !.at = step]
  <2>1. run' = [run EXCEPT ![s] = r] /\ r \in Run /\ r # NoRun
        /\ r.at = step /\ r.lingers = run[s].lingers
    BY <1>2, Going DEF Proceed
  <2>2. Fit(r) /\ (Holds(r) => Holds(run[s]))
    BY <2>1, <1>2 DEF Fit, Holds
  <2> HIDE DEF r
  <2> QED BY <2>1, <2>2, Replace
<1>3. CASE step = "over" /\ run[s].lingers = TRUE
  <2> DEFINE r == [run[s] EXCEPT !.at = "linger"]
  <2>1. run' = [run EXCEPT ![s] = r]
    BY <1>3, <1>1 DEF Proceed, After, Held
  <2>2. r \in Run /\ r # NoRun /\ r.at = "linger" /\ r.lingers = run[s].lingers
    BY Going DEF Steps
  <2>3. Fit(r) /\ (Holds(r) => Holds(run[s]))
    BY <2>2 DEF Fit, Holds, Early
  <2> HIDE DEF r
  <2> QED BY <2>1, <2>3, Replace
<1>4. CASE step = "over" /\ run[s].lingers = FALSE
  <2>1. run' = [run EXCEPT ![s] = NoRun]
    BY <1>4, <1>1 DEF Proceed, After, Held
  <2>2. Fit(NoRun) /\ ~Holds(NoRun)
    BY DEF Fit, Holds
  <2> QED BY <2>1, <2>2, Replace
<1>5. run[s].lingers \in BOOLEAN
  BY <1>1 DEF Run
<1> QED BY <1>2, <1>3, <1>4, <1>5

\* A run that is past its execution and does not linger disappears.
LEMMA GoneHeld ==
  ASSUME Held, NEW s \in Slots, run[s] # NoRun, run' = [run EXCEPT ![s] = NoRun],
         \/ active' = active
         \/ active' = active \ {s[1]} /\ Holds(run[s])
  PROVE  Held'
<1>1. Fit(NoRun) /\ ~Holds(NoRun)
  BY DEF Fit, Holds
<1> QED BY <1>1, Replace

\* A timer or a command starts a run of a job that no run holds, or none.
LEMMA BeginHeld == ASSUME Held, NEW j \in Jobs, Begin(j) PROVE Held'
<1>1. CASE j \in active
  BY <1>1, SameRuns DEF Begin
<1>2. CASE j \notin active
  <2> DEFINE r == [at |-> "get", outcome |-> "none", lingers |-> FALSE]
  <2>1. active' = active \cup {j}
    BY <1>2 DEF Begin
  <2>2. PICK l \in Lanes : run' = [run EXCEPT ![<<j, l>>] = r]
    BY <1>2 DEF Begin
  <2> DEFINE s == <<j, l>>
  <2>3. s \in Slots /\ s[1] = j
    BY DEF Slots
  <2>4. r \in Run /\ r.at = "get" /\ r.lingers = FALSE
    BY DEF Run, Steps, Outcomes
  <2>5. Fit(r)
    BY <2>4 DEF Fit
  <2> HIDE DEF r, s
  <2>6. /\ run' = [t \in Slots |-> run'[t]] /\ run'[s] = r
        /\ \A t \in Slots : t # s => run'[t] = run[t]
    BY <2>2, <2>3 DEF Held, s
  <2>7. \A t \in Slots : t[1] = j => ~Holds(run[t])
    BY <1>2 DEF Held
  <2>8. \A t \in Slots : Holds(run'[t]) => t = s \/ (Holds(run[t]) /\ t[1] # j)
    BY <2>6, <2>7
  <2>9. \A t \in Slots : Fit(run'[t])
    BY <2>5, <2>6 DEF Held
  <2>10. \A t \in Slots : Holds(run'[t]) => t[1] \in active'
    BY <2>1, <2>3, <2>8 DEF Held
  <2>11. \A t, u \in Slots : Holds(run'[t]) /\ Holds(run'[u]) /\ t[1] = u[1] => t = u
    BY <2>3, <2>8 DEF Held
  <2> QED BY <2>6, <2>9, <2>10, <2>11 DEF Held, Fit, Holds
<1> QED BY <1>1, <1>2

\* The records of missed one-shots hold no job.
LEMMA MissedHeld ==
  ASSUME Held, NEW listed, run' = RunsFor(listed), active' = active
  PROVE  Held'
<1>1. Missed \in Run /\ Missed.at = "recordMissed" /\ Missed.lingers = FALSE
  BY DEF Missed, Run, Steps, Outcomes
<1>2. Fit(Missed) /\ ~Holds(Missed)
  BY <1>1 DEF Fit, Holds, Early
<1>3. run' = [s \in Slots |-> run'[s]] /\ \A s \in Slots : run'[s] \in {Missed, run[s]}
  BY DEF RunsFor
<1>4. \A s \in Slots : Fit(run'[s])
  BY <1>2, <1>3 DEF Held
<1>5. \A s \in Slots : Holds(run'[s]) => Holds(run[s])
  BY <1>2, <1>3
<1>6. \A s \in Slots : Holds(run'[s]) => s[1] \in active'
  BY <1>5 DEF Held
<1>7. \A s, t \in Slots : Holds(run'[s]) /\ Holds(run'[t]) /\ s[1] = t[1] => s = t
  BY <1>5 DEF Held
<1> QED BY <1>3, <1>4, <1>6, <1>7 DEF Held, Fit, Holds

-----------------------------------------------------------------------------
(* The steps of a run *)

\* Reading the job, the execution's start and end, its timeout and late end.
LEMMA ExecutionHeld ==
  ASSUME Held, NEW s \in Slots,
         \/ GetJob(s) \/ StartExecution(s) \/ EndExecution(s) \/ TimeOut(s) \/ EndLingering(s)
  PROVE  Held'
<1>1. CASE GetJob(s)
  <2>1. run[s] # NoRun /\ run[s].at = "get"
    BY <1>1 DEF GetJob, At, StepOf
  <2>2. Holds(run[s])
    BY <2>1 DEF Holds, Early
  <2>3. CASE s[1] \in Enabled /\ Serving
    <3> DEFINE r == [run[s] EXCEPT !.at = "trigger"]
    <3>1. run' = Goto(s, "trigger") /\ active' = active
      BY <1>1, <2>3 DEF GetJob
    <3>2. run' = [run EXCEPT ![s] = r] /\ r \in Run /\ r.at = "trigger" /\ r.lingers = run[s].lingers
      BY <3>1, <2>1, Going DEF Steps
    <3>3. Fit(r)
      BY <3>2, <2>1, StepFacts DEF Fit, Early
    <3> HIDE DEF r
    <3> QED BY <3>1, <3>2, <3>3, <2>2, Replace
  <2>4. CASE ~(s[1] \in Enabled /\ Serving)
    <3>1. run' = [run EXCEPT ![s] = NoRun] /\ active' = active \ {s[1]}
      BY <1>1, <2>4 DEF GetJob
    <3> QED BY <3>1, <2>1, <2>2, GoneHeld
  <2> QED BY <2>3, <2>4
<1>2. CASE StartExecution(s)
  <2>1. run[s] # NoRun /\ run[s].at = "trigger"
    BY <1>2 DEF StartExecution, At, StepOf
  <2> DEFINE r == [run[s] EXCEPT !.at = "execute"]
  <2>2. run' = [run EXCEPT ![s] = r] /\ r \in Run /\ r.at = "execute" /\ r.lingers = run[s].lingers
    BY <1>2, <2>1, Going DEF StartExecution, Steps
  <2>3. Fit(r) /\ Holds(run[s])
    BY <2>2, <2>1, StepFacts DEF Fit, Holds, Early
  <2>4. active' = active
    BY <1>2 DEF StartExecution
  <2> HIDE DEF r
  <2> QED BY <2>2, <2>3, <2>4, Replace
<1>3. CASE EndExecution(s)
  <2>1. run[s] # NoRun /\ run[s].at = "execute"
    BY <1>3 DEF EndExecution, At, StepOf
  <2>2. PICK outcome \in {"success", "failed", "denied"} :
          run' = [run EXCEPT ![s].at = "record", ![s].outcome = outcome]
    BY <1>3 DEF EndExecution
  <2> DEFINE r == [run[s] EXCEPT !.at = "record", !.outcome = outcome]
  <2>3. run[s] \in Run /\ run[s].lingers = FALSE /\ Holds(run[s])
    BY <2>1, StepFacts DEF Holds, Early
  <2>4. run' = [run EXCEPT ![s] = r]
    BY <2>2, <2>3 DEF Held, Run
  <2>5. r \in Run /\ r.at = "record" /\ r.lingers = FALSE /\ r.outcome # "none"
    BY <2>3 DEF Run, Steps, Outcomes
  <2>6. Fit(r) /\ ~Holds(r)
    BY <2>5 DEF Fit, Holds, Early
  <2>7. active' = active \ {s[1]}
    BY <1>3 DEF EndExecution
  <2> HIDE DEF r
  <2> QED BY <2>3, <2>4, <2>6, <2>7, Replace
<1>4. CASE TimeOut(s)
  <2> DEFINE r == [at |-> "record", outcome |-> "failed", lingers |-> TRUE]
  <2>1. run[s] # NoRun /\ run[s].at = "execute" /\ run' = [run EXCEPT ![s] = r] /\ active' = active
    BY <1>4 DEF TimeOut, At, StepOf
  <2>2. r \in Run /\ r.at = "record" /\ r.outcome # "none"
    BY DEF Run, Steps, Outcomes
  <2>3. Fit(r) /\ Holds(run[s])
    BY <2>1, <2>2 DEF Fit, Holds, Early
  <2> HIDE DEF r
  <2> QED BY <2>1, <2>3, Replace
<1>5. CASE EndLingering(s)
  <2>1. run[s] # NoRun /\ run[s].lingers = TRUE
    BY <1>5 DEF EndLingering, Lingers
  <2>2. run[s] \in Run /\ run[s].at \notin Early /\ Holds(run[s])
    BY <2>1, StepFacts DEF Holds
  <2>3. active' = active \ {s[1]}
    BY <1>5 DEF EndLingering
  <2>4. CASE run[s].at = "linger"
    <3>1. run' = [run EXCEPT ![s] = NoRun]
      BY <1>5, <2>4 DEF EndLingering, Held
    <3> QED BY <3>1, <2>1, <2>2, <2>3, GoneHeld
  <2>5. CASE run[s].at # "linger"
    <3> DEFINE r == [run[s] EXCEPT !.lingers = FALSE]
    <3>1. run' = [run EXCEPT ![s] = r]
      BY <1>5, <2>5 DEF EndLingering, Held
    <3>2. r \in Run /\ r.at = run[s].at /\ r.outcome = run[s].outcome /\ r.lingers = FALSE
      BY <2>2 DEF Run
    <3>3. Fit(r) /\ ~Holds(r)
      BY <3>2, <2>1, <2>2, StepFacts DEF Fit, Holds
    <3> HIDE DEF r
    <3> QED BY <3>1, <3>3, <2>2, <2>3, Replace
  <2> QED BY <2>4, <2>5
<1> QED BY <1>1, <1>2, <1>3, <1>4, <1>5

\* Bookkeeping writes, done or failed, of a run and of a missed one-shot.
LEMMA BookkeepingHeld == ASSUME Held, NEW s \in Slots, Bookkeeping(s) PROVE Held'
<1> DEFINE Later == (Steps \ (Early \cup {"record"})) \cup {"over"}
<1>1. /\ run[s] # NoRun /\ run[s].at \notin Early
      /\ active' = active
  BY DEF Bookkeeping, Record, RecordFails, Disable, DisableFails, Notify, Retire,
         RetireFails, RecordMissed, DisableMissed, MarkMissedFails, At, StepOf, Early
<1>2. CASE run' = [run EXCEPT ![s] = NoRun]
  BY <1>1, <1>2, GoneHeld
<1>3. CASE \E step \in Later : Proceed(s, step)
  BY <1>1, <1>3, ProceedHeld
<1>4. CASE run' = Goto(s, "disableMissed")
  <2>1. Proceed(s, "disableMissed") /\ "disableMissed" \in Later
    BY <1>4 DEF Proceed, Steps, Early
  <2> QED BY <1>3, <2>1
<1>5. \A recorded : NextStep(s[1], run[s].outcome, recorded) \in Later
  BY DEF NextStep, Steps, Early
<1>6. AfterDisable(s) \in Later
  BY DEF AfterDisable, Steps, Early
<1>7. {"retire", "over"} \subseteq Later
  BY DEF Steps, Early
<1>8. CASE Record(s)
  BY <1>8, <1>5, <1>3 DEF Record
<1>9. CASE RecordFails(s)
  BY <1>9, <1>5, <1>3 DEF RecordFails
<1>10. CASE Disable(s) \/ DisableFails(s)
  BY <1>10, <1>6, <1>3 DEF Disable, DisableFails
<1>11. CASE Notify(s) \/ Retire(s) \/ RetireFails(s)
  BY <1>11, <1>7, <1>3 DEF Notify, Retire, RetireFails
<1>12. CASE RecordMissed(s)
  <2>1. \/ run' = [run EXCEPT ![s] = NoRun]
        \/ run' = Goto(s, "disableMissed")
    BY <1>12 DEF RecordMissed
  <2> QED BY <2>1, <1>2, <1>4
<1>13. CASE DisableMissed(s) \/ MarkMissedFails(s)
  BY <1>13, <1>2 DEF DisableMissed, MarkMissedFails
<1> QED
  BY <1>8, <1>9, <1>10, <1>11, <1>12, <1>13 DEF Bookkeeping

\* The process ends: no run is left.
LEMMA HaltHeld == ASSUME Halt PROVE Held'
<1>1. run' = [s \in Slots |-> NoRun]
  BY DEF Halt
<1> QED BY <1>1 DEF Held, Fit, Holds

\* Every step keeps a job to one run that holds it.
LEMMA NextHeld == ASSUME Held, [Next]_vars PROVE Held'
<1>1. CASE \E j \in Jobs : Add(j) \/ RemoveJob(j) \/ ToggleOff(j) \/ ToggleOn(j)
  <2>1. UNCHANGED <<active, run>>
    BY <1>1 DEF Add, RemoveJob, ToggleOff, ToggleOn
  <2> QED BY <2>1, SameRuns
<1>2. CASE \E j \in Jobs : RunNow(j) \/ Fire(j)
  BY <1>2, BeginHeld DEF RunNow, Fire
<1>3. CASE ChangeMode \/ ReadJobs \/ ReadFails \/ Stop
  <2>1. UNCHANGED <<active, run>>
    BY <1>3 DEF ChangeMode, ReadJobs, ReadFails, Stop
  <2> QED BY <2>1, SameRuns
<1>4. CASE \E j \in Jobs : TargetReached(j) \/ GraceExpires(j)
  <2>1. UNCHANGED <<active, run>>
    BY <1>4 DEF TargetReached, GraceExpires, memory
  <2> QED BY <2>1, SameRuns
<1>5. CASE ApplyJobs
  BY <1>5, MissedHeld DEF ApplyJobs
<1>6. CASE Boot
  BY <1>6, MissedHeld DEF Boot
<1>7. CASE \E s \in Slots : Step(s) \/ TimeOut(s)
  <2> PICK s \in Slots : Step(s) \/ TimeOut(s)
    BY <1>7
  <2>1. CASE Bookkeeping(s)
    BY <2>1, BookkeepingHeld
  <2>2. CASE GetFails(s)
    <3>1. run[s] # NoRun /\ Holds(run[s])
      BY <2>2 DEF GetFails, At, StepOf, Holds, Early
    <3>2. run' = [run EXCEPT ![s] = NoRun] /\ active' = active \ {s[1]}
      BY <2>2 DEF GetFails
    <3> QED BY <3>1, <3>2, GoneHeld
  <2>3. CASE ~(Bookkeeping(s) \/ GetFails(s))
    BY <2>3, ExecutionHeld DEF Step
  <2> QED BY <2>1, <2>2, <2>3
<1>8. CASE Exit \/ Crash
  BY <1>8, HaltHeld DEF Exit, Crash
<1>9. CASE UNCHANGED vars
  <2>1. UNCHANGED <<active, run>>
    BY <1>9 DEF vars
  <2> QED BY <2>1, SameRuns
<1> QED
  BY <1>1, <1>2, <1>3, <1>4, <1>5, <1>6, <1>7, <1>8, <1>9 DEF Next

\* Lanes that execute hold their job, so there is at most one.
LEMMA HeldOnce == ASSUME Held PROVE NoOverlap
<1> SUFFICES ASSUME NEW j \in Jobs PROVE Cardinality(Executing(j)) <= 1
  BY DEF NoOverlap
<1>1. \A l \in Executing(j) : l \in Lanes /\ <<j, l>> \in Slots /\ Holds(run[<<j, l>>])
  BY DEF Executing, StepOf, Lingers, Holds, Early, Slots
<1>2. \A l, m \in Executing(j) : l = m
  <2> SUFFICES ASSUME NEW l \in Executing(j), NEW m \in Executing(j) PROVE l = m
    OBVIOUS
  <2>1. <<j, l>> = <<j, m>>
    BY <1>1 DEF Held
  <2> QED BY <2>1
<1>3. CASE Executing(j) = {}
  BY <1>3, FS_EmptySet
<1>4. CASE Executing(j) # {}
  <2> PICK l \in Executing(j) : TRUE
    BY <1>4
  <2>1. Executing(j) = {l}
    BY <1>2
  <2>2. Cardinality(Executing(j)) = 1
    BY <2>1, FS_Singleton, Zenon
  <2> QED BY <2>2
<1> QED BY <1>3, <1>4

\* A job never runs twice at once, whatever fires, commands, timeouts, refreshes
\* and restarts do (runJob and its activeJobIds).
THEOREM NoOverlapEver == Spec => []NoOverlap
<1>1. Init => Held
  BY InitHeld
<1>2. Held /\ [Next]_vars => Held'
  BY NextHeld
<1>3. Held => NoOverlap
  BY HeldOnce
<1> QED BY <1>1, <1>2, <1>3, PTL DEF Spec

-----------------------------------------------------------------------------
(***************************************************************************)
(* A job over its limit of failures is about to be disabled, unless a      *)
(* command has enabled it again or a write of its bookkeeping was lost.    *)
(* A job that was never added has neither timer nor run, so that it is     *)
(* added without failures.                                                 *)
(***************************************************************************)
Timers == [Jobs -> {"off", "armed", "fired", "skipped"}]
Stored == store \in [Jobs -> JobRecord] /\ timer \in Timers /\ lists \in Seq(SUBSET Jobs)

Unrun(j) == \A s \in Slots : s[1] = j => run[s] = NoRun
Known ==
  \A j \in Jobs : store[j].state = "none" =>
    /\ store[j].failures = 0 /\ timer[j] # "armed" /\ Unrun(j)
    /\ \A i \in 1..Len(lists) : j \notin lists[i]

Caught(j) ==
  \/ store[j].runOnce = TRUE \/ store[j].state # "enabled" \/ store[j].failures < MaxFailures
  \/ j \in reenabled \cup unsaved
  \/ \E s \in Slots : s[1] = j /\ StepOf(s) = "disable"

StreakInv == Stored /\ Known /\ \A j \in Jobs : Caught(j)

\* Initially there are no failures, no timers, no runs and no lists.
LEMMA InitStreak == Init => StreakInv
<1> SUFFICES ASSUME Init PROVE StreakInv
  OBVIOUS
<1>1. store \in [Jobs -> JobRecord] /\ \A j \in Jobs : store[j].failures = 0
  BY DEF Init
<1>2. lists = <<>> /\ lists \in Seq(SUBSET Jobs)
  BY DEF Init
<1>3. \A j \in Jobs : timer[j] = "off" /\ Unrun(j)
  BY DEF Init, Unrun
<1>4. Known
  BY <1>1, <1>2, <1>3 DEF Known
<1>5. \A j \in Jobs : Caught(j)
  BY <1>1, CronAssumption DEF Caught
<1>6. timer \in Timers
  BY DEF Init, Timers
<1> QED BY <1>1, <1>2, <1>4, <1>5, <1>6 DEF StreakInv, Stored

\* What recording a run, or setting the state, leaves of the job, and of others.
LEMMA CountFacts ==
  ASSUME Stored, NEW j \in Jobs, NEW success
  PROVE  LET after == CountRun(j, success) IN
         /\ after \in [Jobs -> JobRecord]
         /\ \A i \in Jobs : after[i].state = store[i].state /\ after[i].runOnce = store[i].runOnce
         /\ \A i \in Jobs : i # j => after[i] = store[i]
<1> DEFINE after == CountRun(j, success)
<1> DEFINE f == after[j].failures
<1>1. store \in [Jobs -> JobRecord]
  BY DEF Stored
<1>2. f \in 0..MaxFailures
  BY <1>1, CronAssumption DEF CountRun, JobRecord
<1>3. after = [store EXCEPT ![j] = [store[j] EXCEPT !.failures = f]]
  BY <1>1 DEF CountRun, JobRecord
<1> HIDE DEF after, f
<1>4. after \in [Jobs -> JobRecord]
  BY <1>1, <1>2, <1>3 DEF JobRecord
<1>5. \A i \in Jobs : after[i].state = store[i].state /\ after[i].runOnce = store[i].runOnce
  BY <1>1, <1>2, <1>3 DEF JobRecord
<1>6. \A i \in Jobs : i # j => after[i] = store[i]
  BY <1>1, <1>3
<1> QED BY <1>4, <1>5, <1>6 DEF after

\* What setting the state of a job leaves as it was.
LEMMA StateFacts ==
  ASSUME Stored, NEW j \in Jobs, NEW state \in {"none", "enabled", "disabled", "removed"}
  PROVE  LET after == SetState(j, state) IN
         /\ after \in [Jobs -> JobRecord] /\ after[j].state = state
         /\ after[j].failures = store[j].failures /\ after[j].runOnce = store[j].runOnce
         /\ \A i \in Jobs : i # j => after[i] = store[i]
<1>1. store \in [Jobs -> JobRecord]
  BY DEF Stored
<1>2. SetState(j, state) = [store EXCEPT ![j] = [store[j] EXCEPT !.state = state]]
  BY DEF SetState
<1> QED BY <1>1, <1>2 DEF JobRecord

\* Nothing about a job changes that could let it pass its limit unseen.
LEMMA StillCaught ==
  ASSUME NEW j \in Jobs, Caught(j),
         store'[j] = store[j] \/ store'[j].state # "enabled",
         j \in reenabled => j \in reenabled', j \in unsaved => j \in unsaved',
         \A s \in Slots : s[1] = j /\ StepOf(s) = "disable" => StepOf(s)' = "disable"
  PROVE  Caught(j)'
<1>1. CASE store'[j].state # "enabled"
  BY <1>1 DEF Caught
<1>2. CASE store'[j] = store[j]
  BY <1>2 DEF Caught
<1> QED BY <1>1, <1>2

\* Jobs that were never added are known to nobody, while the store keeps them so.
LEMMA StillKnown ==
  ASSUME Known, Stored, lists' = lists,
         \A j \in Jobs : store'[j].state = "none" =>
           /\ store'[j] = store[j] /\ timer'[j] # "armed"
           /\ \A s \in Slots : s[1] = j => run'[s] = run[s]
  PROVE  Known'
<1> SUFFICES ASSUME NEW j \in Jobs, store'[j].state = "none"
    PROVE  /\ store'[j].failures = 0 /\ timer'[j] # "armed" /\ Unrun(j)'
           /\ \A i \in 1..Len(lists') : j \notin lists'[i]
  BY DEF Known
<1>1. /\ store[j].failures = 0 /\ Unrun(j)
      /\ \A i \in 1..Len(lists) : j \notin lists[i]
  BY DEF Known
<1> QED BY <1>1 DEF Unrun

\* Commands that set a job's state: a job enabled by one is new, or remembered.
LEMMA CommandStreak ==
  ASSUME StreakInv, NEW j \in Jobs,
         Add(j) \/ RemoveJob(j) \/ ToggleOff(j) \/ ToggleOn(j)
  PROVE  StreakInv'
<1>1. /\ run' = run /\ timer' = timer /\ lists' = lists /\ unsaved' = unsaved
      /\ reenabled \subseteq reenabled'
  BY DEF Add, RemoveJob, ToggleOff, ToggleOn, history
<1>2. PICK state \in {"enabled", "disabled", "removed"} : store' = SetState(j, state)
  BY DEF Add, RemoveJob, ToggleOff, ToggleOn
<1>3. /\ store' \in [Jobs -> JobRecord] /\ store'[j].state = state
      /\ store'[j].failures = store[j].failures
      /\ \A i \in Jobs : i # j => store'[i] = store[i]
  BY <1>2, StateFacts DEF StreakInv
<1>4. Stored'
  BY <1>1, <1>3 DEF StreakInv, Stored
<1>5. Known'
  <2>1. \A i \in Jobs : store'[i].state = "none" => store'[i] = store[i] /\ i # j
    BY <1>3
  <2>2. \A i \in Jobs : store'[i].state = "none" => timer'[i] # "armed"
    BY <2>1, <1>1 DEF StreakInv, Known
  <2> QED BY <2>1, <2>2, <1>1, StillKnown DEF StreakInv
<1>6. \A i \in Jobs : i # j => Caught(i)'
  BY <1>1, <1>3, StillCaught DEF StreakInv, StepOf
<1>7. Caught(j)'
  <2>1. CASE Add(j)
    <3>1. store[j].failures = 0
      BY <2>1 DEF Add, StreakInv, Known
    <3> QED BY <3>1, <1>3, CronAssumption DEF Caught
  <2>2. CASE ToggleOn(j)
    <3>1. j \in reenabled'
      BY <2>2 DEF ToggleOn
    <3> QED BY <3>1 DEF Caught
  <2>3. CASE RemoveJob(j) \/ ToggleOff(j)
    <3>1. store'[j].state # "enabled"
      BY <2>3, StateFacts DEF RemoveJob, ToggleOff, StreakInv
    <3> QED BY <3>1 DEF Caught
  <2> QED BY <2>1, <2>2, <2>3
<1> QED BY <1>4, <1>5, <1>6, <1>7 DEF StreakInv

\* Runs begin only for jobs that were added: by a timer or a command.
LEMMA BeginStreak ==
  ASSUME StreakInv, Held, NEW j \in Jobs, RunNow(j) \/ Fire(j)
  PROVE  StreakInv'
<1>1. /\ store' = store /\ lists' = lists /\ unsaved' = unsaved /\ reenabled' = reenabled
      /\ Begin(j)
  BY DEF RunNow, Fire, history
<1>2. store[j].state # "none"
  BY DEF RunNow, Fire, Enabled, StreakInv, Known
<1>3. \A s \in Slots : run'[s] = run[s] \/ (s[1] = j /\ run[s] = NoRun)
  <2>1. CASE j \in active
    BY <1>1, <2>1 DEF Begin
  <2>2. CASE j \notin active
    <3> DEFINE r == [at |-> "get", outcome |-> "none", lingers |-> FALSE]
    <3>1. PICK l \in Lanes : FreeLane(<<j, l>>) /\ run' = [run EXCEPT ![<<j, l>>] = r]
      BY <1>1, <2>2 DEF Begin
    <3> HIDE DEF r
    <3>2. run[<<j, l>>] = NoRun /\ <<j, l>>[1] = j
      BY <3>1 DEF FreeLane
    <3>3. \A s \in Slots : s # <<j, l>> => run'[s] = run[s]
      BY <3>1 DEF Held
    <3> QED BY <3>2, <3>3
  <2> QED BY <2>1, <2>2
<1>4. timer' \in Timers /\ \A i \in Jobs : i # j => timer'[i] = timer[i]
  <2>1. timer' = timer \/ timer' = [timer EXCEPT ![j] = Spent(j)]
    BY DEF RunNow, Fire
  <2>2. Spent(j) \in {"off", "armed", "fired", "skipped"}
    BY DEF Spent
  <2> QED BY <2>1, <2>2 DEF StreakInv, Stored, Timers
<1>5. Stored'
  BY <1>1, <1>4 DEF StreakInv, Stored
<1>6. Known'
  <2>1. \A i \in Jobs : store'[i].state = "none" => i # j
    BY <1>1, <1>2
  <2>2. \A i \in Jobs : store'[i].state = "none" => timer'[i] # "armed"
    BY <2>1, <1>1, <1>4 DEF StreakInv, Known
  <2> QED BY <2>1, <2>2, <1>1, <1>3, StillKnown DEF StreakInv
<1>7. \A i \in Jobs : Caught(i)'
  BY <1>1, <1>3, StillCaught DEF StreakInv, StepOf
<1> QED BY <1>5, <1>6, <1>7 DEF StreakInv

\* A list that is read holds jobs that were added.
LEMMA ReadStreak == ASSUME StreakInv, ReadJobs PROVE StreakInv'
<1>1. /\ store' = store /\ run' = run /\ timer' = timer
      /\ unsaved' = unsaved /\ reenabled' = reenabled /\ lists' = Append(lists, Enabled)
  BY DEF ReadJobs, history
<1>2. Enabled \in SUBSET Jobs /\ lists \in Seq(SUBSET Jobs)
  BY DEF Enabled, StreakInv, Stored
<1>3. /\ lists' \in Seq(SUBSET Jobs)
      /\ \A i \in 1..Len(lists') : lists'[i] = Enabled \/ (i \in 1..Len(lists) /\ lists'[i] = lists[i])
  BY <1>1, <1>2
<1>4. Stored'
  BY <1>1, <1>3 DEF StreakInv, Stored
<1>5. Known'
  <2> SUFFICES ASSUME NEW j \in Jobs, store[j].state = "none"
      PROVE  \A i \in 1..Len(lists') : j \notin lists'[i]
    BY <1>1 DEF StreakInv, Known, Unrun
  <2>1. j \notin Enabled
    BY DEF Enabled
  <2> QED BY <2>1, <1>3 DEF StreakInv, Known
<1>6. \A j \in Jobs : Caught(j)'
  BY <1>1, StillCaught DEF StreakInv, StepOf
<1> QED BY <1>4, <1>5, <1>6 DEF StreakInv

\* Timers are set, and missed one-shots recorded, for jobs that were added.
LEMMA ScheduleStreak ==
  ASSUME StreakInv, Held, NEW listed \in SUBSET Jobs,
         \A j \in listed : store[j].state # "none",
         store' = store, unsaved' = unsaved, reenabled' = reenabled,
         timer' = TimersFor(listed), run' = RunsFor(listed),
         lists' \in Seq(SUBSET Jobs),
         \A i \in 1..Len(lists') : \E k \in 1..Len(lists) : lists'[i] = lists[k]
  PROVE  StreakInv'
<1>1. \A s \in Slots : run'[s] = run[s] \/ (s[1] \in listed /\ run[s] = NoRun)
  BY DEF RunsFor, Overdue, FreeLane
<1>2. Stored'
  BY DEF StreakInv, Stored, Timers, TimersFor
<1>3. Known'
  <2> SUFFICES ASSUME NEW j \in Jobs, store[j].state = "none"
      PROVE  /\ store[j].failures = 0 /\ timer'[j] # "armed" /\ Unrun(j)'
             /\ \A i \in 1..Len(lists') : j \notin lists'[i]
    BY DEF Known
  <2>1. /\ store[j].failures = 0 /\ Unrun(j)
        /\ \A i \in 1..Len(lists) : j \notin lists[i]
    BY DEF StreakInv, Known
  <2>2. j \notin listed
    OBVIOUS
  <2>3. timer'[j] # "armed"
    BY <2>2 DEF TimersFor
  <2>4. Unrun(j)'
    BY <2>1, <2>2, <1>1 DEF Unrun
  <2> QED BY <2>1, <2>3, <2>4
<1>4. \A j \in Jobs : Caught(j)'
  BY <1>1, StillCaught DEF StreakInv, StepOf
<1> QED BY <1>2, <1>3, <1>4 DEF StreakInv

\* A refresh applies the list it read, a start the store.
LEMMA RefreshStreak == ASSUME StreakInv, Held, ApplyJobs \/ Boot PROVE StreakInv'
<1>1. lists \in Seq(SUBSET Jobs)
  BY DEF StreakInv, Stored
<1>2. CASE ApplyJobs
  <2>1. /\ lists # <<>> /\ lists' = Tail(lists) /\ store' = store
        /\ unsaved' = unsaved /\ reenabled' = reenabled
        /\ timer' = TimersFor(Head(lists)) /\ run' = RunsFor(Head(lists))
    BY <1>2 DEF ApplyJobs, history
  <2>2. /\ Head(lists) = lists[1] /\ 1 \in 1..Len(lists) /\ lists[1] \in SUBSET Jobs
        /\ Tail(lists) \in Seq(SUBSET Jobs)
        /\ \A i \in 1..Len(Tail(lists)) : i + 1 \in 1..Len(lists) /\ Tail(lists)[i] = lists[i + 1]
    BY <1>1, <2>1
  <2>3. \A j \in Head(lists) : store[j].state # "none"
    BY <2>2 DEF StreakInv, Known
  <2> QED BY <2>1, <2>2, <2>3, ScheduleStreak
<1>3. CASE Boot
  <2>1. /\ lists' = lists /\ store' = store /\ unsaved' = unsaved /\ reenabled' = reenabled
        /\ timer' = TimersFor(Enabled) /\ run' = RunsFor(Enabled)
    BY <1>3 DEF Boot, history
  <2>2. Enabled \in SUBSET Jobs /\ \A j \in Enabled : store[j].state # "none"
    BY DEF Enabled
  <2> QED BY <2>1, <2>2, <1>1, ScheduleStreak
<1> QED BY <1>2, <1>3

\* Steps about the execution leave the store, and what is to be disabled, alone.
LEMMA ExecutionStreak ==
  ASSUME StreakInv, Held, NEW s \in Slots,
         \/ GetJob(s) \/ StartExecution(s) \/ EndExecution(s) \/ TimeOut(s) \/ EndLingering(s)
  PROVE  StreakInv'
<1>1. store' = store /\ lists' = lists /\ unsaved' = unsaved /\ reenabled' = reenabled
  BY DEF GetJob, StartExecution, EndExecution, TimeOut, EndLingering, history
<1>2. run[s] # NoRun /\ store[s[1]].state # "none" /\ s[1] \in Jobs
  <2>1. run[s] # NoRun
    BY DEF GetJob, StartExecution, EndExecution, TimeOut, EndLingering, At, StepOf, Lingers
  <2> QED BY <2>1 DEF StreakInv, Known, Unrun, Slots
<1>3. \A t \in Slots : t # s => run'[t] = run[t]
  BY DEF GetJob, StartExecution, EndExecution, TimeOut, EndLingering, Goto, Held
<1>4. timer' \in Timers /\ \A i \in Jobs : i # s[1] => timer'[i] = timer[i]
  <2>1. timer' = timer \/ timer' = [timer EXCEPT ![s[1]] = "off"]
    BY DEF GetJob, StartExecution, EndExecution, TimeOut, EndLingering
  <2> QED BY <2>1, <1>2 DEF StreakInv, Stored, Timers
<1>5. StepOf(s) = "disable" => StepOf(s)' = "disable"
  <2> SUFFICES ASSUME StepOf(s) = "disable" PROVE StepOf(s)' = "disable"
    OBVIOUS
  <2>1. run[s] \in Run /\ run[s].at = "disable"
    BY <1>2, StepFacts DEF StepOf
  <2>2. EndLingering(s)
    BY DEF GetJob, StartExecution, EndExecution, TimeOut, At
  <2>3. run' = [run EXCEPT ![s] = [run[s] EXCEPT !.lingers = FALSE]]
    BY <2>1, <2>2 DEF EndLingering, Held
  <2>4. run'[s] = [run[s] EXCEPT !.lingers = FALSE]
    BY <2>3 DEF Held
  <2>5. run'[s] \in Run /\ run'[s].at = "disable"
    BY <2>1, <2>4 DEF Run
  <2>6. run'[s] # NoRun
    BY <2>5, CronAssumption
  <2> QED BY <2>5, <2>6 DEF StepOf
<1>6. Stored'
  BY <1>1, <1>4 DEF StreakInv, Stored
<1>7. Known'
  <2>1. \A i \in Jobs : store'[i].state = "none" => i # s[1] /\ timer'[i] = timer[i]
    BY <1>1, <1>2, <1>4
  <2>2. \A i \in Jobs : store'[i].state = "none" => timer'[i] # "armed"
    BY <2>1, <1>1 DEF StreakInv, Known
  <2> QED BY <2>1, <2>2, <1>1, <1>3, StillKnown DEF StreakInv
<1>8. \A i \in Jobs : Caught(i)'
  <2>1. \A t \in Slots : StepOf(t) = "disable" => StepOf(t)' = "disable"
    BY <1>3, <1>5 DEF StepOf
  <2> QED BY <2>1, <1>1, StillCaught DEF StreakInv
<1> QED BY <1>6, <1>7, <1>8 DEF StreakInv

\* A run that cannot read its job is gone, and was not about to disable it.
LEMMA GetFailsStreak ==
  ASSUME StreakInv, Held, NEW s \in Slots, GetFails(s)
  PROVE  StreakInv'
<1>1. /\ store' = store /\ lists' = lists /\ timer' = timer /\ reenabled' = reenabled
      /\ unsaved \subseteq unsaved' /\ run' = [run EXCEPT ![s] = NoRun] /\ StepOf(s) = "get"
  BY DEF GetFails, At
<1>2. run[s] # NoRun /\ s[1] \in Jobs
  BY <1>1 DEF StepOf, Slots
<1>3. store[s[1]].state # "none"
  BY <1>2 DEF StreakInv, Known, Unrun
<1>4. \A t \in Slots : t # s => run'[t] = run[t]
  BY <1>1 DEF Held
<1>5. Stored'
  BY <1>1 DEF StreakInv, Stored
<1>6. Known'
  <2>1. \A j \in Jobs : store[j].state = "none" => timer[j] # "armed" /\ j # s[1]
    BY <1>3 DEF StreakInv, Known
  <2> QED BY <2>1, <1>1, <1>4, StillKnown DEF StreakInv
<1>7. \A j \in Jobs : Caught(j)'
  <2>1. \A t \in Slots : StepOf(t) = "disable" => StepOf(t)' = "disable"
    BY <1>1, <1>4 DEF StepOf
  <2> QED BY <2>1, <1>1, StillCaught DEF StreakInv
<1> QED BY <1>5, <1>6, <1>7 DEF StreakInv

-----------------------------------------------------------------------------
(* Only one-shots are ever missed, or have no time *)

MissedSteps == {"recordMissed", "disableMissed"}
MissedOnes ==
  /\ phase \in [Jobs -> {"future", "due", "missed", "never"}]
  /\ \A j \in Jobs : phase[j] \in {"missed", "never"} => store[j].runOnce = TRUE
  /\ \A s \in Slots : StepOf(s) \in MissedSteps => store[s[1]].runOnce = TRUE

\* Initially no job is missed.
LEMMA InitMissed == Init => MissedOnes
<1> SUFFICES ASSUME Init PROVE MissedOnes
  OBVIOUS
<1>1. phase \in [Jobs -> {"future", "due", "missed", "never"}]
  BY DEF Init
<1>2. ASSUME NEW j \in Jobs, phase[j] \in {"missed", "never"} PROVE store[j].runOnce = TRUE
  <2>1. j \notin Recurring
    <3>1. j \in Recurring => phase[j] = "due"
      BY DEF Init
    <3> QED BY <3>1, <1>2
  <2>2. store[j].runOnce \in BOOLEAN
    BY DEF Init, JobRecord
  <2> QED BY <2>1, <2>2 DEF Recurring, OneShots
<1>3. \A s \in Slots : StepOf(s) \notin MissedSteps
  BY DEF Init, StepOf, MissedSteps
<1> QED BY <1>1, <1>2, <1>3 DEF MissedOnes

\* Jobs keep their kind, and nothing new is missed.
LEMMA SameMissed ==
  ASSUME MissedOnes, phase' = phase,
         \A j \in Jobs : store'[j].runOnce = store[j].runOnce,
         \A s \in Slots : StepOf(s)' \in MissedSteps =>
           StepOf(s) \in MissedSteps \/ phase[s[1]] = "missed"
  PROVE  MissedOnes'
<1>1. \A s \in Slots : s[1] \in Jobs
  BY DEF Slots
<1>2. \A j \in Jobs : phase'[j] \in {"missed", "never"} => store'[j].runOnce = TRUE
  BY DEF MissedOnes
<1>3. \A s \in Slots : StepOf(s)' \in MissedSteps => store'[s[1]].runOnce = TRUE
  BY <1>1 DEF MissedOnes
<1> QED BY <1>2, <1>3 DEF MissedOnes

\* Going on, or ending, leads to the record of a missed one-shot from there only.
LEMMA SlotMissed ==
  ASSUME MissedOnes, Held, NEW s \in Slots, NEW r, run' = [run EXCEPT ![s] = r],
         phase' = phase, \A j \in Jobs : store'[j].runOnce = store[j].runOnce,
         r = NoRun \/ r.at \notin MissedSteps \/ StepOf(s) \in MissedSteps
  PROVE  MissedOnes'
<1>1. run'[s] = r /\ \A t \in Slots : t # s => run'[t] = run[t]
  BY DEF Held
<1>2. \A t \in Slots : StepOf(t)' \in MissedSteps => StepOf(t) \in MissedSteps
  BY <1>1 DEF StepOf, MissedSteps
<1> QED BY <1>2, SameMissed

\* No write to the store changes a job's kind.
LEMMA KindsKept ==
  ASSUME Stored, NEW j \in Jobs,
         \/ store' = store \/ store' = Disabled(j)
         \/ \E success \in BOOLEAN : store' = CountRun(j, success)
         \/ \E state \in {"enabled", "disabled", "removed"} : store' = SetState(j, state)
  PROVE  \A i \in Jobs : store'[i].runOnce = store[i].runOnce
<1>1. \A state \in {"enabled", "disabled", "removed"} : \A i \in Jobs :
        SetState(j, state)[i].runOnce = store[i].runOnce
  BY StateFacts
<1>2. \A i \in Jobs : Disabled(j)[i].runOnce = store[i].runOnce
  BY <1>1 DEF Disabled
<1>3. \A success : \A i \in Jobs : CountRun(j, success)[i].runOnce = store[i].runOnce
  BY CountFacts
<1> QED BY <1>1, <1>2, <1>3

\* Bookkeeping leads to a missed one-shot's record from there only.
LEMMA BookkeepingMissed ==
  ASSUME MissedOnes, Held, Stored, NEW s \in Slots, Bookkeeping(s)
  PROVE  MissedOnes'
<1> DEFINE Plain == {"disable", "notify", "retire", "over"}
<1>1. phase' = phase /\ run[s] # NoRun /\ s[1] \in Jobs /\ run[s] \in Run
  <2>1. phase' = phase /\ run[s] # NoRun
    BY DEF Bookkeeping, Record, RecordFails, Disable, DisableFails, Notify, Retire,
           RetireFails, RecordMissed, DisableMissed, MarkMissedFails, At, StepOf
  <2> QED BY <2>1, StepFacts DEF Slots
<1>2. \A i \in Jobs : store'[i].runOnce = store[i].runOnce
  <2>1. \/ store' = store \/ store' = Disabled(s[1])
        \/ store' = CountRun(s[1], run[s].outcome = "success") \/ store' = CountRun(s[1], FALSE)
    BY DEF Bookkeeping, Record, RecordFails, Disable, DisableFails, Notify, Retire,
           RetireFails, RecordMissed, DisableMissed, MarkMissedFails
  <2>2. (run[s].outcome = "success") \in BOOLEAN
    OBVIOUS
  <2> QED BY <2>1, <2>2, <1>1, KindsKept
<1>3. CASE run' = [run EXCEPT ![s] = NoRun]
  BY <1>1, <1>2, <1>3, SlotMissed
<1>4. CASE \E step \in Plain : Proceed(s, step)
  <2> PICK step \in Plain : Proceed(s, step)
    BY <1>4
  <2>1. CASE step # "over"
    <3>1. step \in Steps /\ step \notin MissedSteps
      BY <2>1 DEF Steps, MissedSteps
    <3> DEFINE r == [run[s] EXCEPT !.at = step]
    <3>2. run' = [run EXCEPT ![s] = r] /\ r.at = step
      BY <3>1, <2>1, <1>1, Going DEF Proceed
    <3> HIDE DEF r
    <3> QED BY <3>1, <3>2, <1>1, <1>2, SlotMissed
  <2>2. CASE step = "over"
    <3> DEFINE r == [run[s] EXCEPT !.at = "linger"]
    <3>1. r.at = "linger" /\ r.at \notin MissedSteps
      BY <1>1, Going DEF Steps, MissedSteps
    <3>2. run' = [run EXCEPT ![s] = r] \/ run' = [run EXCEPT ![s] = NoRun]
      BY <2>2, <1>1 DEF Proceed, After, Held
    <3> HIDE DEF r
    <3> QED BY <3>1, <3>2, <1>1, <1>2, SlotMissed
  <2> QED BY <2>1, <2>2
<1>5. \A recorded : NextStep(s[1], run[s].outcome, recorded) \in Plain
  BY DEF NextStep
<1>6. AfterDisable(s) \in Plain
  BY DEF AfterDisable
<1>7. CASE Record(s)
  BY <1>7, <1>5, <1>4 DEF Record
<1>8. CASE RecordFails(s)
  BY <1>8, <1>5, <1>4 DEF RecordFails
<1>9. CASE Disable(s) \/ DisableFails(s)
  BY <1>9, <1>6, <1>4 DEF Disable, DisableFails
<1>10. CASE Notify(s) \/ Retire(s) \/ RetireFails(s)
  BY <1>10, <1>4 DEF Notify, Retire, RetireFails
<1>11. CASE RecordMissed(s)
  <2>1. StepOf(s) \in MissedSteps
    BY <1>11 DEF RecordMissed, At, MissedSteps
  <2> DEFINE r == [run[s] EXCEPT !.at = "disableMissed"]
  <2>2. run' = [run EXCEPT ![s] = r] \/ run' = [run EXCEPT ![s] = NoRun]
    BY <1>11 DEF RecordMissed, Goto, Held
  <2> HIDE DEF r
  <2> QED BY <2>1, <2>2, <1>1, <1>2, SlotMissed
<1>12. CASE DisableMissed(s) \/ MarkMissedFails(s)
  BY <1>12, <1>3 DEF DisableMissed, MarkMissedFails
<1> QED
  BY <1>7, <1>8, <1>9, <1>10, <1>11, <1>12 DEF Bookkeeping

\* The steps about the execution lead to no record of a missed one-shot.
LEMMA ExecutionMissed ==
  ASSUME MissedOnes, Held, NEW s \in Slots,
         \/ GetJob(s) \/ StartExecution(s) \/ EndExecution(s) \/ TimeOut(s) \/ EndLingering(s)
  PROVE  MissedOnes'
<1>1. phase' = phase /\ store' = store
  BY DEF GetJob, StartExecution, EndExecution, TimeOut, EndLingering
<1>2. run[s] # NoRun /\ run[s] \in Run
  <2>1. run[s] # NoRun
    BY DEF GetJob, StartExecution, EndExecution, TimeOut, EndLingering, At, StepOf, Lingers
  <2> QED BY <2>1, StepFacts
<1>3. CASE GetJob(s)
  <2> DEFINE r == [run[s] EXCEPT !.at = "trigger"]
  <2>1. run' = [run EXCEPT ![s] = NoRun] \/ run' = [run EXCEPT ![s] = r]
    BY <1>3 DEF GetJob, Goto, Held
  <2>2. r.at \notin MissedSteps
    BY <1>2, Going DEF MissedSteps, Steps
  <2> HIDE DEF r
  <2> QED BY <2>1, <2>2, <1>1, SlotMissed
<1>4. CASE StartExecution(s)
  <2> DEFINE r == [run[s] EXCEPT !.at = "execute"]
  <2>1. run' = [run EXCEPT ![s] = r]
    BY <1>4 DEF StartExecution, Goto, Held
  <2>2. r.at \notin MissedSteps
    BY <1>2, Going DEF MissedSteps, Steps
  <2> HIDE DEF r
  <2> QED BY <2>1, <2>2, <1>1, SlotMissed
<1>5. CASE EndExecution(s)
  <2>1. PICK outcome \in {"success", "failed", "denied"} :
          run' = [run EXCEPT ![s].at = "record", ![s].outcome = outcome]
    BY <1>5 DEF EndExecution
  <2> DEFINE r == [run[s] EXCEPT !.at = "record", !.outcome = outcome]
  <2>2. run' = [run EXCEPT ![s] = r]
    BY <2>1, <1>2 DEF Held, Run
  <2>3. r.at \notin MissedSteps
    BY <1>2 DEF MissedSteps, Run
  <2> HIDE DEF r
  <2> QED BY <2>2, <2>3, <1>1, SlotMissed
<1>6. CASE TimeOut(s)
  <2> DEFINE r == [at |-> "record", outcome |-> "failed", lingers |-> TRUE]
  <2>1. run' = [run EXCEPT ![s] = r] /\ r.at \notin MissedSteps
    BY <1>6 DEF TimeOut, MissedSteps
  <2> HIDE DEF r
  <2> QED BY <2>1, <1>1, SlotMissed
<1>7. CASE EndLingering(s)
  <2> DEFINE r == [run[s] EXCEPT !.lingers = FALSE]
  <2>1. run' = [run EXCEPT ![s] = NoRun] \/ run' = [run EXCEPT ![s] = r]
    BY <1>7 DEF EndLingering, Held
  <2>2. r.at = run[s].at
    BY <1>2 DEF Run
  <2>3. r.at \notin MissedSteps \/ StepOf(s) \in MissedSteps
    BY <2>2, <1>2 DEF StepOf
  <2> HIDE DEF r
  <2> QED BY <2>1, <2>3, <1>1, SlotMissed
<1> QED BY <1>3, <1>4, <1>5, <1>6, <1>7

\* A refresh or a start records those that are missed.
LEMMA RefreshMissed ==
  ASSUME MissedOnes, Held, NEW listed, run' = RunsFor(listed), phase' = phase, store' = store
  PROVE  MissedOnes'
<1>1. \A s \in Slots : run'[s] = run[s] \/ phase[s[1]] = "missed"
  BY DEF RunsFor, Overdue
<1>2. \A s \in Slots : StepOf(s)' \in MissedSteps =>
        StepOf(s) \in MissedSteps \/ phase[s[1]] = "missed"
  BY <1>1 DEF StepOf
<1> QED BY <1>2, SameMissed

\* Only one-shots are missed, whatever happens.
LEMMA NextMissed == ASSUME MissedOnes, Held, Stored, [Next]_vars PROVE MissedOnes'
<1>1. CASE \E j \in Jobs : Add(j) \/ RemoveJob(j) \/ ToggleOff(j) \/ ToggleOn(j)
  <2>1. run' = run /\ phase' = phase
    BY <1>1 DEF Add, RemoveJob, ToggleOff, ToggleOn
  <2>2. \A i \in Jobs : store'[i].runOnce = store[i].runOnce
    BY <1>1, KindsKept DEF Add, RemoveJob, ToggleOff, ToggleOn
  <2> QED BY <2>1, <2>2, SameMissed DEF StepOf
<1>2. CASE \E j \in Jobs : RunNow(j) \/ Fire(j)
  <2> PICK j \in Jobs : RunNow(j) \/ Fire(j)
    BY <1>2
  <2>1. phase' = phase /\ store' = store /\ Begin(j)
    BY DEF RunNow, Fire
  <2>2. CASE j \in active
    BY <2>1, <2>2, SameMissed DEF Begin, StepOf
  <2>3. CASE j \notin active
    <3> DEFINE r == [at |-> "get", outcome |-> "none", lingers |-> FALSE]
    <3>1. PICK l \in Lanes : run' = [run EXCEPT ![<<j, l>>] = r]
      BY <2>1, <2>3 DEF Begin
    <3>2. r.at \notin MissedSteps /\ <<j, l>> \in Slots
      BY DEF MissedSteps, Slots
    <3> HIDE DEF r
    <3> QED BY <3>1, <3>2, <2>1, SlotMissed
  <2> QED BY <2>2, <2>3
<1>3. CASE ChangeMode \/ ReadJobs \/ ReadFails \/ Stop
  <2>1. run' = run /\ phase' = phase /\ store' = store
    BY <1>3 DEF ChangeMode, ReadJobs, ReadFails, Stop
  <2> QED BY <2>1, SameMissed DEF StepOf
<1>4. CASE ApplyJobs
  BY <1>4, RefreshMissed DEF ApplyJobs
<1>5. CASE Boot
  BY <1>5, RefreshMissed DEF Boot
<1>6. CASE \E j \in Jobs : TargetReached(j) \/ GraceExpires(j)
  <2> PICK j \in Jobs : TargetReached(j) \/ GraceExpires(j)
    BY <1>6
  <2>1. run' = run /\ store' = store /\ store[j].runOnce = TRUE
    BY DEF TargetReached, GraceExpires, memory, OneShots, Stored, JobRecord
  <2>2. /\ phase' \in [Jobs -> {"future", "due", "missed", "never"}]
        /\ \A i \in Jobs : i # j => phase'[i] = phase[i]
    BY DEF TargetReached, GraceExpires, MissedOnes
  <2> QED BY <2>1, <2>2 DEF MissedOnes, StepOf
<1>7. CASE \E s \in Slots : Step(s) \/ TimeOut(s)
  <2> PICK s \in Slots : Step(s) \/ TimeOut(s)
    BY <1>7
  <2>1. CASE Bookkeeping(s)
    BY <2>1, BookkeepingMissed
  <2>2. CASE GetFails(s)
    BY <2>2, SlotMissed DEF GetFails
  <2>3. CASE ~(Bookkeeping(s) \/ GetFails(s))
    BY <2>3, ExecutionMissed DEF Step
  <2> QED BY <2>1, <2>2, <2>3
<1>8. CASE Exit \/ Crash
  <2>1. /\ phase' = phase /\ store' = store /\ run' = [s \in Slots |-> NoRun]
    BY <1>8 DEF Exit, Crash, Halt
  <2>2. \A s \in Slots : StepOf(s)' = "none"
    BY <2>1 DEF StepOf
  <2> QED BY <2>1, <2>2, SameMissed DEF MissedSteps
<1>9. CASE UNCHANGED vars
  <2>1. run' = run /\ phase' = phase /\ store' = store
    BY <1>9 DEF vars
  <2> QED BY <2>1, SameMissed DEF StepOf
<1> QED
  BY <1>1, <1>2, <1>3, <1>4, <1>5, <1>6, <1>7, <1>8, <1>9 DEF Next

-----------------------------------------------------------------------------
(* Bookkeeping, endings, and the theorem *)

\* Bookkeeping of a run concerns its own job.
LEMMA BookStreak ==
  ASSUME StreakInv, Held, NEW s \in Slots, Bookkeeping(s), Caught(s[1])'
  PROVE  StreakInv'
<1> DEFINE j == s[1]
<1>1. run[s] # NoRun /\ j \in Jobs /\ store[j].state # "none" /\ lists' = lists
  <2>1. run[s] # NoRun /\ lists' = lists
    BY DEF Bookkeeping, Record, RecordFails, Disable, DisableFails, Notify, Retire,
           RetireFails, RecordMissed, DisableMissed, MarkMissedFails, At, StepOf
  <2> QED BY <2>1 DEF StreakInv, Known, Unrun, Slots
<1>2. /\ store' \in [Jobs -> JobRecord]
      /\ store'[j].state # "none"
      /\ \A i \in Jobs : i # j => store'[i] = store[i]
  <2>1. \/ store' = store \/ store' = SetState(j, "disabled")
        \/ store' = CountRun(j, run[s].outcome = "success") \/ store' = CountRun(j, FALSE)
    BY DEF Bookkeeping, Record, RecordFails, Disable, DisableFails, Notify, Retire,
           RetireFails, RecordMissed, DisableMissed, MarkMissedFails, Disabled
  <2>2. CASE store' = store
    BY <2>2, <1>1 DEF StreakInv, Stored
  <2>3. CASE store' = SetState(j, "disabled")
    BY <2>3, <1>1, StateFacts DEF StreakInv
  <2>4. ASSUME NEW success, store' = CountRun(j, success)
        PROVE  /\ store' \in [Jobs -> JobRecord]
               /\ store'[j].state # "none"
               /\ \A i \in Jobs : i # j => store'[i] = store[i]
    <3>1. Stored BY DEF StreakInv
    <3>2. /\ store' \in [Jobs -> JobRecord]
          /\ store'[j].state = store[j].state
          /\ \A i \in Jobs : i # j => store'[i] = store[i]
      BY <3>1, <2>4, <1>1, CountFacts
    <3> QED BY <3>2, <1>1
  <2>5. CASE store' = CountRun(j, run[s].outcome = "success")
    BY <2>5, <2>4
  <2>6. CASE store' = CountRun(j, FALSE)
    BY <2>6, <2>4
  <2> QED BY <2>1, <2>2, <2>3, <2>5, <2>6
<1>3. timer' \in Timers /\ \A i \in Jobs : i # j => timer'[i] = timer[i]
  <2>1. timer' = timer \/ timer' = [timer EXCEPT ![j] = "off"]
    BY DEF Bookkeeping, Record, RecordFails, Disable, DisableFails, Notify, Retire,
           RetireFails, RecordMissed, DisableMissed, MarkMissedFails
  <2> QED BY <2>1, <1>1 DEF StreakInv, Stored, Timers
<1>4. \A t \in Slots : t # s => run'[t] = run[t]
  BY DEF Bookkeeping, Record, RecordFails, Disable, DisableFails, Notify, Retire,
         RetireFails, RecordMissed, DisableMissed, MarkMissedFails, Proceed, After, Goto, Held
<1>5. \A i \in Jobs : i # j => /\ i \in unsaved => i \in unsaved'
                               /\ i \in reenabled => i \in reenabled'
  BY DEF Bookkeeping, Record, RecordFails, Disable, DisableFails, Notify, Retire,
         RetireFails, RecordMissed, DisableMissed, MarkMissedFails, history
<1>6. Stored'
  BY <1>1, <1>2, <1>3 DEF StreakInv, Stored
<1>7. Known'
  <2>1. \A i \in Jobs : store'[i].state = "none" => i # j
    BY <1>2
  <2>2. \A i \in Jobs : store'[i].state = "none" => timer'[i] # "armed"
    BY <2>1, <1>2, <1>3 DEF StreakInv, Known
  <2> QED BY <2>1, <2>2, <1>1, <1>2, <1>4, StillKnown DEF StreakInv
<1>8. \A i \in Jobs : i # j => Caught(i)'
  <2>1. \A t \in Slots : t[1] # j => StepOf(t)' = StepOf(t)
    BY <1>4 DEF StepOf
  <2> HIDE DEF j
  <2> QED BY <2>1, <1>2, <1>5, StillCaught DEF StreakInv
<1> QED BY <1>6, <1>7, <1>8 DEF StreakInv

\* A run that goes on to "disable" is there.
LEMMA GoneToDisable ==
  ASSUME Held, NEW s \in Slots, run[s] # NoRun, Proceed(s, "disable")
  PROVE  StepOf(s)' = "disable"
<1> DEFINE r == [run[s] EXCEPT !.at = "disable"]
<1>1. run' = [run EXCEPT ![s] = r] /\ r.at = "disable" /\ r # NoRun
  BY Going DEF Proceed, Steps
<1> HIDE DEF r
<1>2. run'[s] = r
  BY <1>1 DEF Held
<1> QED BY <1>1, <1>2 DEF StepOf

\* A run that takes a recurring job to its limit goes on to disable it.
LEMMA RecordCaught ==
  ASSUME StreakInv, Held, NEW s \in Slots, Record(s)
  PROVE  Caught(s[1])'
<1> DEFINE j == s[1]
           outcome == run[s].outcome
<1>1. /\ run[s] # NoRun /\ run[s] \in Run /\ outcome # "none" /\ j \in Jobs
      /\ outcome \in Outcomes
  <2>1. run[s] # NoRun /\ run[s].at = "record"
    BY DEF Record, At, StepOf
  <2> QED BY <2>1, StepFacts DEF Slots, Run
<1>2. CASE store[j].state = "removed"
  <2>1. store' = store
    BY <1>2 DEF Record
  <2> QED BY <2>1, <1>2 DEF Caught
<1>3. CASE store[j].state # "removed"
  <2>1. /\ store' = CountRun(j, outcome = "success")
        /\ Proceed(s, NextStep(j, outcome, TRUE))
    <3>1. (store[j].state # "removed") = TRUE
      BY <1>3
    <3> QED BY <1>3, <3>1 DEF Record
  <2>2. store' \in [Jobs -> JobRecord] /\ store'[j].runOnce = store[j].runOnce
    BY <2>1, <1>1, CountFacts DEF StreakInv
  <2>3. store'[j].failures \in 0..MaxFailures
    BY <2>2, <1>1 DEF JobRecord
  <2>4. CASE outcome = "success"
    <3>1. store'[j].failures = 0
      BY <2>1, <2>4, <1>1 DEF CountRun, StreakInv, Stored, JobRecord
    <3> QED BY <3>1, CronAssumption DEF Caught
  <2>5. CASE outcome = "denied"
    <3>1. NextStep(j, outcome, TRUE) = "disable"
      BY <2>5 DEF NextStep
    <3>2. StepOf(s)' = "disable"
      BY <3>1, <2>1, <1>1, GoneToDisable
    <3> QED BY <3>2 DEF Caught
  <2>6. CASE outcome = "failed" /\ store[j].runOnce = TRUE
    BY <2>2, <2>6 DEF Caught
  <2>7. CASE outcome = "failed" /\ store[j].runOnce = FALSE /\ store'[j].failures >= MaxFailures
    <3>1. j \in Recurring
      BY <2>7, <1>1 DEF Recurring, OneShots
    <3>2. NextStep(j, outcome, TRUE) = "disable"
      BY <3>1, <2>7 DEF NextStep
    <3>3. StepOf(s)' = "disable"
      BY <3>2, <2>1, <1>1, GoneToDisable
    <3> QED BY <3>3 DEF Caught
  <2>8. CASE ~(store'[j].failures >= MaxFailures)
    <3>1. store'[j].failures < MaxFailures
      BY <2>3, <2>8, CronAssumption
    <3> QED BY <3>1 DEF Caught
  <2>9. store[j].runOnce \in BOOLEAN
    BY <1>1 DEF StreakInv, Stored, JobRecord
  <2>10. outcome \in {"success", "denied", "failed"}
    BY <1>1 DEF Outcomes
  <2> QED BY <2>4, <2>5, <2>6, <2>7, <2>8, <2>9, <2>10
<1> QED BY <1>2, <1>3

\* The bookkeeping of a job keeps it from passing its limit unseen.
LEMMA BookkeepingStreak ==
  ASSUME StreakInv, MissedOnes, Held, NEW s \in Slots, Bookkeeping(s)
  PROVE  StreakInv'
<1> DEFINE j == s[1]
<1>0. j \in Jobs /\ store \in [Jobs -> JobRecord]
  BY DEF Slots, StreakInv, Stored
<1>1. SUFFICES Caught(j)'
  BY BookStreak
<1>2. CASE Record(s)
  BY <1>2, RecordCaught
<1>3. CASE RecordFails(s) \/ DisableFails(s) \/ RetireFails(s) \/ MarkMissedFails(s)
  <2>1. j \in unsaved'
    BY <1>3 DEF RecordFails, DisableFails, RetireFails, MarkMissedFails
  <2> QED BY <2>1 DEF Caught
<1>4. CASE Disable(s) \/ Retire(s) \/ DisableMissed(s)
  <2>1. store' = Disabled(j)
    BY <1>4 DEF Disable, Retire, DisableMissed
  <2>2. Disabled(j)[j].state # "enabled"
    BY <1>0, StateFacts DEF Disabled, StreakInv
  <2> QED BY <2>1, <2>2 DEF Caught
<1>5. CASE Notify(s)
  <2>1. StepOf(s) = "notify" /\ store' = store /\ unsaved' = unsaved /\ reenabled' = reenabled
    BY <1>5 DEF Notify, At, history
  <2>2. \A t \in Slots : t # s => run'[t] = run[t]
    BY <1>5 DEF Notify, Proceed, After, Goto, Held
  <2>3. \A t \in Slots : StepOf(t) = "disable" => StepOf(t)' = "disable"
    BY <2>1, <2>2 DEF StepOf
  <2> HIDE DEF j
  <2> QED BY <2>1, <2>3, <1>0, StillCaught DEF StreakInv
<1>6. CASE RecordMissed(s)
  <2>1. store[j].runOnce = TRUE
    BY <1>6 DEF RecordMissed, At, MissedOnes, MissedSteps
  <2>2. store' = store \/ store' = CountRun(j, FALSE)
    BY <1>6 DEF RecordMissed
  <2> HIDE DEF j
  <2>3. CountRun(j, FALSE)[j].runOnce = store[j].runOnce
    BY <1>0, CountFacts DEF StreakInv
  <2>4. store'[j].runOnce = TRUE
    BY <2>1, <2>2, <2>3
  <2> QED BY <2>4 DEF Caught, j
<1> QED
  BY <1>2, <1>3, <1>4, <1>5, <1>6 DEF Bookkeeping

\* A process that ends loses no job: those about to be disabled are unsaved.
LEMMA HaltStreak == ASSUME StreakInv, Held, Halt PROVE StreakInv'
<1>1. /\ store' = store /\ reenabled' = reenabled /\ lists' = <<>>
      /\ timer' = [j \in Jobs |-> "off"] /\ run' = [s \in Slots |-> NoRun]
      /\ unsaved' = unsaved \cup {s[1] : s \in Ended}
  BY DEF Halt
<1>2. Stored'
  BY <1>1 DEF StreakInv, Stored, Timers
<1>3. Known'
  BY <1>1 DEF StreakInv, Known, Unrun
<1>4. ASSUME NEW j \in Jobs PROVE Caught(j)'
  <2>1. CASE \E s \in Slots : s[1] = j /\ StepOf(s) = "disable"
    <3>1. PICK s \in Slots : s[1] = j /\ StepOf(s) = "disable"
      BY <2>1
    <3>2. s \in Ended
      BY <3>1 DEF Ended
    <3>3. j \in unsaved'
      BY <3>1, <3>2, <1>1
    <3> QED BY <3>3 DEF Caught
  <2>2. CASE ~\E s \in Slots : s[1] = j /\ StepOf(s) = "disable"
    BY <2>2, <1>1, StillCaught DEF StreakInv
  <2> QED BY <2>1, <2>2
<1> QED BY <1>2, <1>3, <1>4 DEF StreakInv

\* Nothing but the timers, or the phase of a job, changes.
LEMMA SameStreak ==
  ASSUME StreakInv, UNCHANGED <<store, run, lists, unsaved, reenabled>>,
         timer' = timer \/ timer' = [j \in Jobs |-> "off"]
  PROVE  StreakInv'
<1>2. timer' \in Timers
  BY DEF StreakInv, Stored, Timers
<1>3. Stored'
  BY <1>2 DEF StreakInv, Stored
<1>4. Known'
  BY DEF StreakInv, Known, Unrun
<1>5. \A j \in Jobs : Caught(j)'
  BY StillCaught DEF StreakInv, StepOf
<1> QED BY <1>3, <1>4, <1>5 DEF StreakInv

\* Every step keeps jobs from passing their limit unseen.
LEMMA NextStreak ==
  ASSUME StreakInv, MissedOnes, Held, [Next]_vars
  PROVE  StreakInv'
<1>1. CASE \E j \in Jobs : Add(j) \/ RemoveJob(j) \/ ToggleOff(j) \/ ToggleOn(j)
  BY <1>1, CommandStreak
<1>2. CASE \E j \in Jobs : RunNow(j) \/ Fire(j)
  BY <1>2, BeginStreak
<1>3. CASE ReadJobs
  BY <1>3, ReadStreak
<1>4. CASE ApplyJobs \/ Boot
  BY <1>4, RefreshStreak
<1>5. CASE ChangeMode \/ ReadFails \/ Stop \/ UNCHANGED vars
  <2>1. /\ UNCHANGED <<store, run, lists, unsaved, reenabled>>
        /\ timer' = timer \/ timer' = [j \in Jobs |-> "off"]
    BY <1>5 DEF ChangeMode, ReadFails, Stop, vars, history
  <2> QED BY <2>1, SameStreak
<1>6. CASE \E j \in Jobs : TargetReached(j) \/ GraceExpires(j)
  <2>1. UNCHANGED <<store, run, lists, unsaved, reenabled>> /\ timer' = timer
    BY <1>6 DEF TargetReached, GraceExpires, memory, history
  <2> QED BY <2>1, SameStreak
<1>7. CASE \E s \in Slots : Step(s) \/ TimeOut(s)
  <2> PICK s \in Slots : Step(s) \/ TimeOut(s)
    BY <1>7
  <2>1. CASE Bookkeeping(s)
    BY <2>1, BookkeepingStreak
  <2>2. CASE GetFails(s)
    BY <2>2, GetFailsStreak
  <2>3. CASE ~(Bookkeeping(s) \/ GetFails(s))
    BY <2>3, ExecutionStreak DEF Step
  <2> QED BY <2>1, <2>2, <2>3
<1>8. CASE Exit \/ Crash
  BY <1>8, HaltStreak DEF Exit, Crash
<1> QED
  BY <1>1, <1>2, <1>3, <1>4, <1>5, <1>6, <1>7, <1>8 DEF Next

\* A job at its limit whose runs are all over is disabled, or remembered.
LEMMA CaughtInTime == ASSUME StreakInv PROVE StreakDisables
<1> SUFFICES ASSUME NEW j \in Recurring \cap Enabled, Idle(j), store[j].failures >= MaxFailures
    PROVE  j \in reenabled \cup unsaved
  BY DEF StreakDisables
<1>1. j \in Jobs /\ store[j].runOnce # TRUE /\ store[j].state = "enabled"
  BY DEF Recurring, Enabled, OneShots
<1>2. ~(store[j].failures < MaxFailures)
  <2>1. store[j].failures \in Nat /\ MaxFailures \in Nat
    BY <1>1, CronAssumption DEF StreakInv, Stored, JobRecord
  <2> QED BY <2>1
<1>3. \A s \in Slots : s[1] = j => StepOf(s) # "disable"
  <2> SUFFICES ASSUME NEW s \in Slots, s[1] = j PROVE StepOf(s) # "disable"
    OBVIOUS
  <2>1. s = <<j, s[2]>> /\ s[2] \in Lanes
    BY DEF Slots
  <2>2. run[s] = NoRun
    BY <2>1 DEF Idle
  <2> QED BY <2>2 DEF StepOf
<1> QED BY <1>1, <1>2, <1>3 DEF StreakInv, Caught

\* A recurring job that fails too often in a row is disabled by the time its
\* runs are over: no interleaving of runs, late executions, commands, refreshes
\* and restarts lets it go on unless a command or a lost write explains it
\* (finishRun and disableAfterFailures).
THEOREM StreaksEnd == Spec => []StreakDisables
<1>1. Init => Held /\ MissedOnes /\ StreakInv
  BY InitHeld, InitMissed, InitStreak
<1>2. Held /\ MissedOnes /\ StreakInv /\ [Next]_vars => (Held /\ MissedOnes /\ StreakInv)'
  <2> SUFFICES ASSUME Held, MissedOnes, StreakInv, [Next]_vars
      PROVE  Held' /\ MissedOnes' /\ StreakInv'
    OBVIOUS
  <2>1. Stored
    BY DEF StreakInv
  <2> QED BY <2>1, NextHeld, NextMissed, NextStreak
<1>3. StreakInv => StreakDisables
  BY CaughtInTime
<1> QED BY <1>1, <1>2, <1>3, PTL DEF Spec

-----------------------------------------------------------------------------
(***************************************************************************)
(* An enabled job has its timer whenever no refresh is under way, or a run *)
(* that will settle it.  While a refresh is under way, the last one that   *)
(* has read the store knows every enabled job.                             *)
(***************************************************************************)
Settling(s) == StepOf(s) \notin {"none", "linger"}

Alive(j) == store[j].state = "enabled" =>
  \/ timer[j] = "armed" \/ j \in overlooked
  \/ /\ store[j].runOnce = TRUE
     /\ \/ timer[j] = "skipped" \/ phase[j] = "never" \/ j \in unsaved
        \/ \E s \in Slots : s[1] = j /\ Settling(s)

Retires == \A s \in Slots : StepOf(s) = "retire" => store[s[1]].runOnce = TRUE

Empty == unread = 0 /\ lists = <<>> /\ \A s \in Slots : run[s] = NoRun

ArmedInv ==
  /\ unread \in Nat
  /\ service = "down" => Empty
  /\ Serving /\ unread = 0 /\ lists # <<>> => Enabled \subseteq lists[Len(lists)] \cup overlooked
  /\ Serving /\ unread = 0 /\ lists = <<>> => \A j \in Jobs : Alive(j)
  /\ Retires

\* Initially the service is down.
LEMMA InitArmed == Init => ArmedInv
  BY DEF Init, ArmedInv, Empty, Retires, StepOf, Serving

\* One job stays alive through a step of a run of it, or through none.
LEMMA StillAlive ==
  ASSUME NEW j \in Jobs, Alive(j), phase' = phase, overlooked' = overlooked,
         \/ store'[j].state # "enabled"
         \/ /\ store'[j].state = store[j].state /\ store'[j].runOnce = store[j].runOnce
            /\ timer'[j] = timer[j] \/ (store[j].runOnce = TRUE /\ j \in unsaved')
            /\ \/ store[j].runOnce # TRUE
               \/ j \in unsaved' \/ \E s \in Slots : s[1] = j /\ Settling(s)'
               \/ /\ j \in unsaved => j \in unsaved'
                  /\ \A s \in Slots : s[1] = j /\ Settling(s) => Settling(s)'
  PROVE  Alive(j)'
<1>1. CASE store'[j].state # "enabled"
  BY <1>1 DEF Alive
<1>2. CASE store'[j].state = store[j].state
  BY <1>2 DEF Alive
<1> QED BY <1>1, <1>2

\* A step that starts no refresh and ends none, and enables no job.
LEMMA SameArmed ==
  ASSUME ArmedInv, UNCHANGED <<unread, lists, overlooked>>, service # "down", service' = service,
         Enabled' \subseteq Enabled,
         Serving => \A j \in Jobs : Alive(j) => Alive(j)',
         Retires'
  PROVE  ArmedInv'
  BY DEF ArmedInv, Serving

\* A command that starts a refresh.
LEMMA EditArmed ==
  ASSUME ArmedInv, unread' = unread + 1, Serving, service' = service, Retires'
  PROVE  ArmedInv'
  BY DEF ArmedInv, Serving

\* The runs that retire a job are those of one-shots, as before.
LEMMA SlotRetires ==
  ASSUME Retires, Held, NEW s \in Slots, NEW r, run' = [run EXCEPT ![s] = r],
         \A j \in Jobs : store'[j].runOnce = store[j].runOnce,
         \/ r = NoRun \/ r.at # "retire" \/ StepOf(s) = "retire"
         \/ store[s[1]].runOnce = TRUE
  PROVE  Retires'
<1>1. run'[s] = r /\ \A t \in Slots : t # s => run'[t] = run[t]
  BY DEF Held
<1>2. \A t \in Slots : t[1] \in Jobs
  BY DEF Slots
<1>3. StepOf(s)' = "retire" => store[s[1]].runOnce = TRUE
  BY <1>1 DEF StepOf, Retires
<1>4. \A t \in Slots : t # s => StepOf(t)' = StepOf(t)
  BY <1>1 DEF StepOf
<1> QED BY <1>2, <1>3, <1>4 DEF Retires

\* Commands refresh the scheduler after the store.
LEMMA CommandArmed ==
  ASSUME ArmedInv, Stored, NEW j \in Jobs,
         Add(j) \/ RemoveJob(j) \/ ToggleOff(j) \/ ToggleOn(j) \/ ChangeMode
  PROVE  ArmedInv'
<1>1. unread' = unread + 1 /\ Serving /\ service' = service /\ run' = run
  BY DEF Add, RemoveJob, ToggleOff, ToggleOn, ChangeMode, Edit
<1>2. \A i \in Jobs : store'[i].runOnce = store[i].runOnce
  <2>1. store' = store \/ \E state \in {"enabled", "disabled", "removed"} : store' = SetState(j, state)
    BY DEF Add, RemoveJob, ToggleOff, ToggleOn, ChangeMode
  <2> QED BY <2>1, KindsKept
<1>3. Retires'
  BY <1>1, <1>2 DEF ArmedInv, Retires, StepOf, Slots
<1> QED BY <1>1, <1>3, EditArmed

\* A run that begins takes the place of the timer that fired.
LEMMA BeginArmed ==
  ASSUME ArmedInv, Stored, Held, NEW j \in Jobs, RunNow(j) \/ Fire(j)
  PROVE  ArmedInv'
<1> DEFINE r == [at |-> "get", outcome |-> "none", lingers |-> FALSE]
<1>1. /\ store' = store /\ lists' = lists /\ unread' = unread /\ unsaved' = unsaved
      /\ phase' = phase /\ overlooked' = overlooked
      /\ Serving /\ service' = service /\ service # "down" /\ Begin(j)
  BY DEF RunNow, Fire, history, Serving, Edit
<1>2. CASE j \in active
  <2>1. run' = run
    BY <1>1, <1>2 DEF Begin
  <2>2. Retires'
    BY <2>1, <1>1 DEF ArmedInv, Retires, StepOf
  <2>3. \A i \in Jobs : i # j => timer'[i] = timer[i]
    BY DEF RunNow, Fire, Stored, Timers
  <2>4. timer'[j] = timer[j] \/ timer'[j] = "armed" \/ (store[j].runOnce = TRUE /\ timer'[j] = "skipped")
    <3>1. CASE RunNow(j)
      BY <3>1 DEF RunNow
    <3>2. CASE Fire(j)
      <4>1. timer'[j] = Spent(j)
        BY <3>2 DEF Fire, Stored, Timers
      <4>2. j \in Recurring \/ store[j].runOnce = TRUE
        BY DEF Recurring, OneShots, Stored, JobRecord
      <4> QED BY <4>1, <4>2, <1>2 DEF Spent
    <3> QED BY <3>1, <3>2
  <2>5. \A i \in Jobs : Alive(i) => Alive(i)'
    BY <2>1, <2>3, <2>4, <1>1 DEF Alive, Settling, StepOf
  <2>6. Enabled' = Enabled
    BY <1>1 DEF Enabled
  <2> QED BY <2>2, <2>5, <2>6, <1>1, SameArmed
<1>3. CASE j \notin active
  <2>1. PICK l \in Lanes : FreeLane(<<j, l>>) /\ run' = [run EXCEPT ![<<j, l>>] = r]
    BY <1>1, <1>3 DEF Begin
  <2>2. r.at = "get" /\ <<j, l>> \in Slots /\ <<j, l>>[1] = j /\ run[<<j, l>>] = NoRun
    BY <2>1 DEF Slots, FreeLane
  <2>3. r # NoRun
    <3>1. r \in Run
      BY DEF Run, Steps, Outcomes
    <3> QED BY <3>1, CronAssumption
  <2> HIDE DEF r
  <2>4. /\ run'[<<j, l>>] = r /\ \A t \in Slots : t # <<j, l>> => run'[t] = run[t]
    BY <2>1, <2>2 DEF Held
  <2>5. Retires'
    BY <2>1, <2>2, <1>1, SlotRetires DEF ArmedInv
  <2>6. \A i \in Jobs : i # j => timer'[i] = timer[i]
    BY DEF RunNow, Fire, Stored, Timers
  <2>7. Settling(<<j, l>>)'
    BY <2>2, <2>3, <2>4 DEF Settling, StepOf
  <2>8. \A t \in Slots : Settling(t) => Settling(t)'
    BY <2>4, <2>7 DEF Settling, StepOf
  <2>9. timer'[j] = timer[j] \/ timer'[j] = "armed" \/ store[j].runOnce = TRUE
    <3>1. CASE RunNow(j)
      BY <3>1 DEF RunNow
    <3>2. CASE Fire(j)
      <4>1. timer'[j] = Spent(j)
        BY <3>2 DEF Fire, Stored, Timers
      <4>2. j \in Recurring \/ store[j].runOnce = TRUE
        BY DEF Recurring, OneShots, Stored, JobRecord
      <4> QED BY <4>1, <4>2 DEF Spent
    <3> QED BY <3>1, <3>2
  <2>10. Alive(j) => Alive(j)'
    BY <2>2, <2>7, <2>9, <1>1 DEF Alive
  <2>11. \A i \in Jobs : i # j => (Alive(i) => Alive(i)')
    BY <2>6, <2>8, <1>1 DEF Alive
  <2>12. Enabled' = Enabled
    BY <1>1 DEF Enabled
  <2> QED BY <2>5, <2>10, <2>11, <2>12, <1>1, SameArmed
<1> QED BY <1>2, <1>3

\* A refresh that reads the store knows the jobs that are enabled now.
LEMMA ReadArmed ==
  ASSUME ArmedInv, Stored, ReadJobs
  PROVE  ArmedInv'
<1>1. /\ store' = store /\ run' = run /\ service' = service /\ Serving
      /\ unread > 0 /\ unread' = unread - 1 /\ lists' = Append(lists, Enabled)
  BY DEF ReadJobs
<1>2. Enabled \in SUBSET Jobs /\ lists \in Seq(SUBSET Jobs) /\ unread \in Nat /\ Enabled' = Enabled
  BY <1>1 DEF Enabled, Stored, ArmedInv
<1>3. lists' # <<>> /\ lists'[Len(lists')] = Enabled
  BY <1>1, <1>2
<1>4. Retires'
  BY <1>1 DEF ArmedInv, Retires, StepOf
<1> QED BY <1>1, <1>2, <1>3, <1>4 DEF ArmedInv, Serving

\* One that fails overlooks the jobs that are enabled now.
LEMMA MissArmed ==
  ASSUME ArmedInv, ReadFails
  PROVE  ArmedInv'
<1>1. /\ store' = store /\ run' = run /\ service' = service /\ Serving /\ lists' = lists
      /\ unread > 0 /\ unread' = unread - 1 /\ Enabled \subseteq overlooked'
  BY DEF ReadFails
<1>2. unread' \in Nat /\ Enabled' = Enabled
  BY <1>1 DEF Enabled, ArmedInv
<1>3. Retires'
  BY <1>1 DEF ArmedInv, Retires, StepOf
<1>4. \A j \in Jobs : Alive(j)'
  BY <1>1 DEF Alive, Enabled
<1> QED BY <1>1, <1>2, <1>3, <1>4 DEF ArmedInv, Serving

\* Every listed job is scheduled, or recorded as missed in a free lane.
LEMMA ScheduledAlive ==
  ASSUME Stored, MissedOnes, Held, NEW listed \in SUBSET Jobs, Enabled \subseteq listed \cup overlooked,
         LanesFor(listed), UNCHANGED <<store, phase, overlooked>>,
         timer' = TimersFor(listed), run' = RunsFor(listed)
  PROVE  \A j \in Jobs : Alive(j)'
<1> SUFFICES ASSUME NEW j \in Jobs, store[j].state = "enabled", j \notin overlooked
    PROVE  \/ timer'[j] = "armed"
           \/ /\ store'[j].runOnce = TRUE
              /\ phase'[j] = "never" \/ \E s \in Slots : s[1] = j /\ Settling(s)'
  BY DEF Alive
<1>1. j \in listed
  BY DEF Enabled
<1>2. CASE phase[j] \notin {"missed", "never"}
  BY <1>1, <1>2 DEF TimersFor
<1>4. CASE phase[j] = "never"
  BY <1>4 DEF MissedOnes
<1>3. CASE phase[j] = "missed"
  <2>1. store[j].runOnce = TRUE
    BY <1>3 DEF MissedOnes
  <2>2. j \in Overdue(listed)
    BY <1>1, <1>3 DEF Overdue
  <2>3. FirstFree(j) \in Lanes /\ run[<<j, FirstFree(j)>>] = NoRun
    BY <2>2 DEF LanesFor, FirstFree
  <2>4. PICK s \in Slots : s[1] = j /\ FreeLane(s)
    <3>1. <<j, FirstFree(j)>> \in Slots
      BY <2>3 DEF Slots
    <3> QED BY <2>3, <3>1 DEF FreeLane
  <2>5. run'[s] = Missed
    BY <2>2, <2>4 DEF RunsFor
  <2>6. Missed # NoRun /\ Missed.at = "recordMissed"
    <3>1. Missed \in Run
      BY DEF Missed, Run, Steps, Outcomes
    <3> QED BY <3>1, CronAssumption DEF Missed
  <2>7. Settling(s)'
    BY <2>5, <2>6 DEF Settling, StepOf
  <2> QED BY <2>1, <2>4, <2>7
<1> QED BY <1>2, <1>3, <1>4

\* The records of missed one-shots retire nothing.
LEMMA MissedRetires ==
  ASSUME Retires, NEW listed, run' = RunsFor(listed), store' = store
  PROVE  Retires'
<1>1. Missed.at # "retire"
  BY DEF Missed
<1>2. \A s \in Slots : run'[s] \in {Missed, run[s]}
  BY DEF RunsFor
<1> QED BY <1>1, <1>2 DEF Retires, StepOf

\* The last refresh to be applied knows every enabled job, and so does a start.
LEMMA RefreshArmed ==
  ASSUME ArmedInv, Stored, MissedOnes, Held, ApplyJobs \/ Boot
  PROVE  ArmedInv'
<1>1. lists \in Seq(SUBSET Jobs) /\ unread \in Nat
  BY DEF Stored, ArmedInv
<1>2. /\ UNCHANGED <<store, phase, overlooked>> /\ unread' = unread /\ Enabled' = Enabled
  BY DEF ApplyJobs, Boot, Enabled, history
<1>3. CASE ApplyJobs
  <2>1. /\ Serving /\ service' = service /\ lists # <<>> /\ lists' = Tail(lists)
        /\ LanesFor(Head(lists)) /\ timer' = TimersFor(Head(lists)) /\ run' = RunsFor(Head(lists))
    BY <1>3 DEF ApplyJobs
  <2>2. /\ Head(lists) \in SUBSET Jobs
        /\ lists' = <<>> => Head(lists) = lists[Len(lists)]
        /\ lists' # <<>> => lists'[Len(lists')] = lists[Len(lists)]
    <3>1. /\ Len(lists) \in Nat /\ Len(lists) >= 1 /\ lists' \in Seq(SUBSET Jobs)
          /\ Head(lists) = lists[1] /\ lists[1] \in SUBSET Jobs
          /\ Len(lists') = Len(lists) - 1
          /\ \A i \in 1..Len(lists') : lists'[i] = lists[i + 1]
      BY <1>1, <2>1
    <3>2. lists' = <<>> <=> Len(lists') = 0
      BY <3>1
    <3>3. ASSUME lists' # <<>>
          PROVE  lists'[Len(lists')] = lists[Len(lists)]
      <4>1. Len(lists') \in 1..Len(lists') /\ Len(lists') + 1 = Len(lists)
        BY <3>1, <3>2, <3>3
      <4> QED BY <4>1, <3>1
    <3>4. lists' = <<>> => Len(lists) = 1
      BY <3>1, <3>2
    <3> QED BY <3>1, <3>3, <3>4
  <2>3. Retires'
    BY <2>1, <1>2, MissedRetires DEF ArmedInv
  <2>4. ASSUME unread = 0, lists' = <<>>
        PROVE  \A j \in Jobs : Alive(j)'
    <3>1. Enabled \subseteq Head(lists) \cup overlooked
      BY <2>1, <2>2, <2>4 DEF ArmedInv
    <3> QED BY <3>1, <2>1, <2>2, <1>2, ScheduledAlive
  <2>5. unread = 0 /\ lists' # <<>> => Enabled \subseteq lists'[Len(lists')] \cup overlooked
    BY <2>1, <2>2 DEF ArmedInv
  <2> QED BY <2>1, <2>3, <2>4, <2>5, <1>1, <1>2 DEF ArmedInv, Serving
<1>4. CASE Boot
  <2>1. /\ service = "down" /\ service' = "up" /\ lists' = lists
        /\ timer' = TimersFor(Enabled) /\ run' = RunsFor(Enabled)
    BY <1>4 DEF Boot
  <2>2. Empty
    BY <2>1 DEF ArmedInv
  <2>3. LanesFor(Enabled)
    <3> SUFFICES ASSUME NEW j \in Overdue(Enabled) PROVE \E l \in Lanes : run[<<j, l>>] = NoRun
      BY DEF LanesFor
    <3>1. PICK l \in Lanes : TRUE
      BY CronAssumption
    <3>2. <<j, l>> \in Slots
      BY DEF Overdue, Enabled, Slots
    <3> QED BY <3>2, <2>2 DEF Empty
  <2>4. \A j \in Jobs : Alive(j)'
    BY <2>1, <2>3, <1>2, ScheduledAlive DEF Enabled
  <2>5. Retires'
    BY <2>1, <1>2, MissedRetires DEF ArmedInv
  <2> QED BY <2>1, <2>2, <2>4, <2>5, <1>1, <1>2 DEF ArmedInv, Serving, Empty
<1> QED BY <1>3, <1>4

\* Where the steps about the execution take a run.
LEMMA ExecutionStep ==
  ASSUME Held, NEW s \in Slots,
         \/ GetJob(s) \/ StartExecution(s) \/ EndExecution(s) \/ TimeOut(s) \/ EndLingering(s)
  PROVE  \E r : /\ run' = [run EXCEPT ![s] = r]
                /\ \/ r = NoRun /\ (StepOf(s) = "linger" \/ s[1] \notin Enabled \/ ~Serving)
                   \/ r # NoRun /\ r.at \in {"trigger", "execute", "record", StepOf(s)}
<1>1. run[s] # NoRun /\ run[s] \in Run /\ StepOf(s) = run[s].at
  <2>1. run[s] # NoRun
    BY DEF GetJob, StartExecution, EndExecution, TimeOut, EndLingering, At, StepOf, Lingers
  <2> QED BY <2>1, StepFacts DEF StepOf
<1>2. CASE GetJob(s)
  <2>1. CASE s[1] \in Enabled /\ Serving
    <3> DEFINE r == [run[s] EXCEPT !.at = "trigger"]
    <3>1. r # NoRun /\ r.at = "trigger" /\ Goto(s, "trigger") = [run EXCEPT ![s] = r]
      BY <1>1, Going DEF Steps
    <3>2. run' = Goto(s, "trigger")
      BY <1>2, <2>1 DEF GetJob
    <3> HIDE DEF r
    <3> QED BY <3>1, <3>2
  <2>2. CASE ~(s[1] \in Enabled /\ Serving)
    <3>1. run' = [run EXCEPT ![s] = NoRun]
      BY <1>2, <2>2 DEF GetJob
    <3> QED BY <3>1, <2>2
  <2> QED BY <2>1, <2>2
<1>3. CASE StartExecution(s)
  <2> DEFINE r == [run[s] EXCEPT !.at = "execute"]
  <2>1. r # NoRun /\ r.at = "execute" /\ Goto(s, "execute") = [run EXCEPT ![s] = r]
    BY <1>1, Going DEF Steps
  <2>2. run' = Goto(s, "execute")
    BY <1>3 DEF StartExecution
  <2> HIDE DEF r
  <2> QED BY <2>1, <2>2
<1>4. CASE EndExecution(s)
  <2>1. PICK outcome \in {"success", "failed", "denied"} :
          run' = [run EXCEPT ![s].at = "record", ![s].outcome = outcome]
    BY <1>4 DEF EndExecution
  <2> DEFINE r == [run[s] EXCEPT !.at = "record", !.outcome = outcome]
  <2>2. run' = [run EXCEPT ![s] = r]
    BY <2>1, <1>1 DEF Held, Run
  <2>3. r \in Run /\ r.at = "record"
    BY <1>1 DEF Run, Steps, Outcomes
  <2> HIDE DEF r
  <2> QED BY <2>2, <2>3, CronAssumption
<1>5. CASE TimeOut(s)
  <2> DEFINE r == [at |-> "record", outcome |-> "failed", lingers |-> TRUE]
  <2>1. run' = [run EXCEPT ![s] = r] /\ r.at = "record"
    BY <1>5 DEF TimeOut
  <2>2. r \in Run
    BY DEF Run, Steps, Outcomes
  <2> HIDE DEF r
  <2> QED BY <2>1, <2>2, CronAssumption
<1>6. CASE EndLingering(s)
  <2> DEFINE r == [run[s] EXCEPT !.lingers = FALSE]
  <2>1. \/ run[s].at = "linger" /\ run' = [run EXCEPT ![s] = NoRun]
        \/ run' = [run EXCEPT ![s] = r]
    BY <1>6 DEF EndLingering, Held
  <2>2. r \in Run /\ r.at = StepOf(s)
    BY <1>1 DEF Run
  <2> HIDE DEF r
  <2> QED BY <2>1, <2>2, <1>1, CronAssumption
<1> QED BY <1>2, <1>3, <1>4, <1>5, <1>6

\* A run that is read, started or ended settles its job as before.
LEMMA ExecutionArmed ==
  ASSUME ArmedInv, Stored, Held, NEW s \in Slots,
         \/ GetJob(s) \/ StartExecution(s) \/ EndExecution(s) \/ TimeOut(s) \/ EndLingering(s)
  PROVE  ArmedInv'
<1>1. /\ store' = store /\ lists' = lists /\ unread' = unread /\ unsaved' = unsaved
      /\ service' = service /\ service # "down" /\ s[1] \in Jobs
      /\ phase' = phase /\ overlooked' = overlooked
  BY DEF GetJob, StartExecution, EndExecution, TimeOut, EndLingering, history, At, Working, Slots
<1>2. PICK r : /\ run' = [run EXCEPT ![s] = r]
               /\ \/ r = NoRun /\ (StepOf(s) = "linger" \/ s[1] \notin Enabled \/ ~Serving)
                  \/ r # NoRun /\ r.at \in {"trigger", "execute", "record", StepOf(s)}
  BY ExecutionStep
<1>3. run'[s] = r /\ \A t \in Slots : t # s => run'[t] = run[t]
  BY <1>2 DEF Held
<1>4. Retires'
  <2>1. \/ r = NoRun \/ r.at # "retire" \/ StepOf(s) = "retire"
    BY <1>2
  <2> QED BY <2>1, <1>1, <1>2, SlotRetires DEF ArmedInv
<1>5. \A t \in Slots : t # s => StepOf(t)' = StepOf(t)
  BY <1>3 DEF StepOf
<1>6. Settling(s)' \/ ~Settling(s) \/ s[1] \notin Enabled \/ ~Serving
  BY <1>2, <1>3 DEF Settling, StepOf
<1>7. \A i \in Jobs : i # s[1] => timer'[i] = timer[i]
  BY DEF GetJob, StartExecution, EndExecution, TimeOut, EndLingering, Stored, Timers
<1>8. timer'[s[1]] = timer[s[1]] \/ store[s[1]].state # "enabled"
  BY DEF GetJob, StartExecution, EndExecution, TimeOut, EndLingering
<1>9. ASSUME Serving, NEW j \in Jobs, Alive(j)
      PROVE  Alive(j)'
  <2>1. CASE store[j].state # "enabled"
    BY <2>1, <1>1 DEF Alive
  <2>2. CASE store[j].state = "enabled"
    <3>1. timer'[j] = timer[j]
      BY <2>2, <1>7, <1>8
    <3>2. \A t \in Slots : t[1] = j /\ Settling(t) => Settling(t)'
      BY <2>2, <1>5, <1>6, <1>9 DEF Settling, Enabled
    <3> QED BY <3>1, <3>2, <1>1, <1>9, StillAlive
  <2> QED BY <2>1, <2>2
<1>10. Enabled' = Enabled
  BY <1>1 DEF Enabled
<1> QED BY <1>1, <1>4, <1>9, <1>10, SameArmed

\* A one-shot whose run could not read it is remembered; a recurring job has its timer.
LEMMA GetFailsArmed ==
  ASSUME ArmedInv, Stored, Held, NEW s \in Slots, GetFails(s)
  PROVE  ArmedInv'
<1>1. /\ UNCHANGED <<store, lists, unread, service, timer, phase, overlooked>> /\ service # "down"
      /\ unsaved' = unsaved \cup ({s[1]} \cap OneShots) /\ run' = [run EXCEPT ![s] = NoRun]
  BY DEF GetFails, At, Working
<1>2. \A t \in Slots : t # s => StepOf(t)' = StepOf(t)
  BY <1>1 DEF StepOf, Held
<1>3. Retires'
  BY <1>1, SlotRetires DEF ArmedInv
<1>4. ASSUME NEW j \in Jobs, Alive(j) PROVE Alive(j)'
  <2>1. CASE j # s[1]
    <3>1. \A t \in Slots : t[1] = j /\ Settling(t) => Settling(t)'
      BY <2>1, <1>2 DEF Settling
    <3> QED BY <3>1, <1>1, <1>4, StillAlive
  <2>2. CASE j = s[1]
    <3>1. store[j].runOnce = TRUE => j \in unsaved'
      BY <2>2, <1>1 DEF OneShots
    <3> QED BY <3>1, <1>1, <1>4, StillAlive
  <2> QED BY <2>1, <2>2
<1>5. Enabled' = Enabled
  BY <1>1 DEF Enabled
<1> QED BY <1>1, <1>3, <1>4, <1>5, SameArmed

\* The process ends, or the scheduler stops: nothing is promised until a start.
LEMMA HaltArmed == ASSUME ArmedInv, Exit \/ Crash \/ Stop PROVE ArmedInv'
<1>1. CASE Stop
  <2>1. run' = run /\ store' = store /\ unread' = unread /\ service' = "stopping"
    BY <1>1 DEF Stop
  <2> QED BY <2>1 DEF ArmedInv, Retires, StepOf, Serving
<1>2. CASE Exit \/ Crash
  <2>1. run' = [s \in Slots |-> NoRun] /\ unread' = 0 /\ lists' = <<>> /\ service' = "down"
    BY <1>2 DEF Exit, Crash, Halt
  <2> QED BY <2>1 DEF ArmedInv, Retires, StepOf, Serving, Empty
<1> QED BY <1>1, <1>2

\* Time passes, or nothing happens.
LEMMA SameJobs ==
  ASSUME ArmedInv, UNCHANGED <<store, service, timer, run, unread, lists, unsaved, overlooked>>,
         \A j \in Jobs : phase[j] = "never" => phase'[j] = "never"
  PROVE  ArmedInv'
<1>1. Retires' /\ (Empty => Empty')
  BY DEF ArmedInv, Retires, StepOf, Empty
<1>2. \A j \in Jobs : Alive(j) => Alive(j)'
  BY DEF Alive, Settling, StepOf
<1>3. Enabled' = Enabled
  BY DEF Enabled
<1> QED BY <1>1, <1>2, <1>3 DEF ArmedInv, Serving

\* A run that goes on settles its job; only that of a one-shot retires it.
LEMMA Onward ==
  ASSUME Retires, Held, NEW s \in Slots, run[s] # NoRun,
         NEW step \in {"disable", "notify", "retire", "over"}, Proceed(s, step),
         step = "retire" => store[s[1]].runOnce = TRUE,
         \A i \in Jobs : store'[i].runOnce = store[i].runOnce
  PROVE  Retires' /\ (step # "over" => Settling(s)')
<1>1. CASE step # "over"
  <2> DEFINE r == [run[s] EXCEPT !.at = step]
  <2>0. step \in Steps /\ run' = Goto(s, step)
    <3>1. step \in Steps
      BY <1>1 DEF Steps
    <3> QED BY <1>1, <3>1 DEF Proceed
  <2>1. r # NoRun /\ r.at = step /\ run' = [run EXCEPT ![s] = r]
    <3>1. r # NoRun /\ r.at = step /\ Goto(s, step) = [run EXCEPT ![s] = r]
      BY ONLY Held, s \in Slots, run[s] # NoRun, <2>0, Going
    <3> QED BY <2>0, <3>1
  <2> HIDE DEF r
  <2>2. run'[s] = r
    BY <2>1 DEF Held
  <2>3. Settling(s)'
    BY <1>1, <2>1, <2>2 DEF Settling, StepOf
  <2> QED BY <2>1, <2>3, SlotRetires
<1>2. CASE step = "over"
  <2> DEFINE r == [run[s] EXCEPT !.at = "linger"]
  <2>1. r.at = "linger"
    BY Going DEF Steps
  <2>2. run' = [run EXCEPT ![s] = r] \/ run' = [run EXCEPT ![s] = NoRun]
    BY <1>2 DEF Proceed, After, Held
  <2> HIDE DEF r
  <2> QED BY <1>2, <2>1, <2>2, SlotRetires
<1> QED BY <1>1, <1>2

\* What bookkeeping leaves as it was.
LEMMA BookFrame ==
  ASSUME Stored, Held, NEW s \in Slots, Bookkeeping(s)
  PROVE  /\ UNCHANGED <<lists, unread, service, phase, overlooked>>
         /\ service # "down" /\ s[1] \in Jobs
         /\ run[s] # NoRun /\ run[s] \in Run
         /\ \A t \in Slots : t # s => run'[t] = run[t]
         /\ \A i \in Jobs : i # s[1] =>
              store'[i] = store[i] /\ timer'[i] = timer[i] /\ (i \in unsaved => i \in unsaved')
         /\ \A i \in Jobs : store'[i].runOnce = store[i].runOnce
         /\ store'[s[1]].state \in {store[s[1]].state, "disabled"}
<1> DEFINE j == s[1]
<1>1. UNCHANGED <<lists, unread, service, phase, overlooked>> /\ service # "down" /\ run[s] # NoRun
  BY DEF Bookkeeping, Record, RecordFails, Disable, DisableFails, Notify, Retire,
         RetireFails, RecordMissed, DisableMissed, MarkMissedFails, At, StepOf, Working, history
<1>2. j \in Jobs /\ run[s] \in Run
  BY <1>1, StepFacts DEF Slots
<1>3. \A t \in Slots : t # s => run'[t] = run[t]
  BY DEF Bookkeeping, Record, RecordFails, Disable, DisableFails, Notify, Retire,
         RetireFails, RecordMissed, DisableMissed, MarkMissedFails, Proceed, After, Goto, Held
<1>4. timer' = timer \/ timer' = [timer EXCEPT ![j] = "off"]
  BY DEF Bookkeeping, Record, RecordFails, Disable, DisableFails, Notify, Retire,
         RetireFails, RecordMissed, DisableMissed, MarkMissedFails
<1>5. unsaved' \in {unsaved, unsaved \ {j}, unsaved \cup {j}}
  BY DEF Bookkeeping, Record, RecordFails, Disable, DisableFails, Notify, Retire,
         RetireFails, RecordMissed, DisableMissed, MarkMissedFails, history
<1>6. \/ store' = store \/ store' = SetState(j, "disabled")
      \/ \E success \in BOOLEAN : store' = CountRun(j, success)
  BY DEF Bookkeeping, Record, RecordFails, Disable, DisableFails, Notify, Retire,
         RetireFails, RecordMissed, DisableMissed, MarkMissedFails, Disabled
<1> HIDE DEF j
<1>7. /\ \A i \in Jobs : i # j => store'[i] = store[i]
      /\ \A i \in Jobs : store'[i].runOnce = store[i].runOnce
      /\ store'[j].state \in {store[j].state, "disabled"}
  <2>1. CASE store' = store
    BY <2>1
  <2>2. CASE store' = SetState(j, "disabled")
    <3>1. /\ store'[j].state = "disabled" /\ store'[j].runOnce = store[j].runOnce
          /\ \A i \in Jobs : i # j => store'[i] = store[i]
      BY <2>2, <1>2, StateFacts
    <3> QED BY <3>1
  <2>3. CASE \E success \in BOOLEAN : store' = CountRun(j, success)
    <3>1. /\ \A i \in Jobs : store'[i].state = store[i].state /\ store'[i].runOnce = store[i].runOnce
          /\ \A i \in Jobs : i # j => store'[i] = store[i]
      BY <2>3, <1>2, CountFacts
    <3> QED BY <3>1, <1>2
  <2> QED BY <1>6, <2>1, <2>2, <2>3
<1>8. \A i \in Jobs : i # j => timer'[i] = timer[i]
  BY <1>4, <1>2 DEF Stored, Timers
<1> QED BY <1>1, <1>2, <1>3, <1>5, <1>7, <1>8 DEF j

\* What each kind of bookkeeping leaves of its own job.
LEMMA BookOwn ==
  ASSUME ArmedInv, Stored, MissedOnes, Held, NEW s \in Slots, Bookkeeping(s)
  PROVE  /\ Retires'
         /\ \/ store'[s[1]].state # "enabled"
            \/ /\ timer'[s[1]] = timer[s[1]] \/ (store[s[1]].runOnce = TRUE /\ s[1] \in unsaved')
               /\ store[s[1]].runOnce # TRUE \/ s[1] \in unsaved' \/ Settling(s)'
<1> DEFINE j == s[1]
           once == store[j].runOnce = TRUE
<1>1. /\ run[s] # NoRun /\ run[s] \in Run /\ j \in Jobs /\ Retires
      /\ \A i \in Jobs : store'[i].runOnce = store[i].runOnce
  BY BookFrame DEF ArmedInv
<1>2. j \in OneShots <=> once
  BY <1>1 DEF OneShots, Stored, JobRecord
<1>3. ASSUME NEW step \in {"disable", "notify", "retire", "over"}, Proceed(s, step),
             step = "retire" => once, once => step # "over"
      PROVE  Retires' /\ (once => Settling(s)')
  BY <1>1, <1>3, Onward
<1>4. ASSUME NEW step, Proceed(s, step),
             \/ \E recorded : step = NextStep(j, run[s].outcome, recorded)
             \/ step = AfterDisable(s)
             \/ step = (IF j \in OneShots THEN "retire" ELSE "over")
      PROVE  Retires' /\ (once => Settling(s)')
  <2>1. /\ step \in {"disable", "notify", "retire", "over"}
        /\ (step = "retire" => once) /\ (once => step # "over")
    BY <1>2, <1>4 DEF NextStep, AfterDisable
  <2> QED BY <2>1, <1>3, <1>4
<1>5. CASE Record(s)
  <2>1. timer' = timer /\ \E recorded : Proceed(s, NextStep(j, run[s].outcome, recorded))
    BY <1>5 DEF Record
  <2> QED BY <2>1, <1>4
<1>6. CASE RecordFails(s)
  <2>1. timer' = timer /\ Proceed(s, NextStep(j, run[s].outcome, FALSE))
    BY <1>6 DEF RecordFails
  <2> QED BY <2>1, <1>4
<1>7. CASE Disable(s) \/ DisableFails(s)
  <2>1. Proceed(s, AfterDisable(s))
    BY <1>7 DEF Disable, DisableFails
  <2>2. Retires'
    BY <2>1, <1>4
  <2>3. CASE Disable(s)
    <3>1. store'[j].state # "enabled"
      BY <2>3, <1>1, StateFacts DEF Disable, Disabled
    <3> QED BY <3>1, <2>2
  <2>4. CASE DisableFails(s)
    <3>1. timer' = timer /\ j \in unsaved'
      BY <2>4 DEF DisableFails
    <3> QED BY <3>1, <2>2
  <2> QED BY <1>7, <2>3, <2>4
<1>8. CASE Notify(s)
  <2>1. timer' = timer /\ Proceed(s, IF j \in OneShots THEN "retire" ELSE "over")
    BY <1>8 DEF Notify
  <2> QED BY <2>1, <1>4
<1>9. CASE Retire(s) \/ RetireFails(s)
  <2>1. Proceed(s, "over") /\ once
    BY <1>9, <1>1 DEF Retire, RetireFails, At, Retires
  <2>2. Retires'
    BY <2>1, <1>1, Onward
  <2>3. CASE Retire(s)
    <3>1. store'[j].state # "enabled"
      BY <2>3, <1>1, StateFacts DEF Retire, Disabled
    <3> QED BY <3>1, <2>2
  <2>4. CASE RetireFails(s)
    <3>1. j \in unsaved'
      BY <2>4 DEF RetireFails
    <3> QED BY <3>1, <2>1, <2>2
  <2> QED BY <1>9, <2>3, <2>4
<1>10. CASE RecordMissed(s)
  <2>1. CASE store[j].state = "removed"
    <3>1. store' = store /\ run' = [run EXCEPT ![s] = NoRun]
      BY <1>10, <2>1 DEF RecordMissed
    <3>2. Retires'
      BY <3>1, <1>1, SlotRetires
    <3> QED BY <3>1, <3>2, <2>1
  <2>2. CASE store[j].state # "removed"
    <3> DEFINE r == [run[s] EXCEPT !.at = "disableMissed"]
    <3>1. timer' = timer /\ run' = Goto(s, "disableMissed")
      BY <1>10, <2>2 DEF RecordMissed
    <3>2. r # NoRun /\ r.at = "disableMissed" /\ run' = [run EXCEPT ![s] = r]
      BY <1>1, <3>1, Going DEF Steps
    <3> HIDE DEF r
    <3>3. Retires'
      BY <3>2, <1>1, SlotRetires
    <3>4. Settling(s)'
      BY <3>2 DEF Settling, StepOf, Held
    <3> QED BY <3>1, <3>3, <3>4
  <2> QED BY <2>1, <2>2
<1>11. CASE DisableMissed(s) \/ MarkMissedFails(s)
  <2>1. run' = [run EXCEPT ![s] = NoRun]
    BY <1>11 DEF DisableMissed, MarkMissedFails
  <2>2. Retires'
    BY <2>1, <1>1, SlotRetires
  <2>3. CASE DisableMissed(s)
    <3>1. store'[j].state # "enabled"
      BY <2>3, <1>1, StateFacts DEF DisableMissed, Disabled
    <3> QED BY <3>1, <2>2
  <2>4. CASE MarkMissedFails(s)
    <3>1. timer' = timer /\ j \in unsaved'
      BY <2>4 DEF MarkMissedFails
    <3> QED BY <3>1, <2>2
  <2> QED BY <1>11, <2>3, <2>4
<1> QED
  BY <1>5, <1>6, <1>7, <1>8, <1>9, <1>10, <1>11 DEF Bookkeeping

\* Bookkeeping disables its job, or leaves it with its timer, unsaved or settling.
LEMMA BookArmed ==
  ASSUME ArmedInv, Stored, MissedOnes, Held, NEW s \in Slots, Bookkeeping(s)
  PROVE  ArmedInv'
<1> DEFINE j == s[1]
<1>1. /\ UNCHANGED <<lists, unread, service, phase, overlooked>> /\ service # "down" /\ j \in Jobs
      /\ \A t \in Slots : t # s => run'[t] = run[t]
      /\ \A i \in Jobs : i # j =>
           store'[i] = store[i] /\ timer'[i] = timer[i] /\ (i \in unsaved => i \in unsaved')
      /\ \A i \in Jobs : store'[i].runOnce = store[i].runOnce
      /\ store'[j].state \in {store[j].state, "disabled"}
  BY BookFrame
<1>2. /\ Retires'
      /\ \/ store'[j].state # "enabled"
         \/ /\ timer'[j] = timer[j] \/ (store[j].runOnce = TRUE /\ j \in unsaved')
            /\ store[j].runOnce # TRUE \/ j \in unsaved' \/ Settling(s)'
  BY BookOwn
<1>3. s \in Slots /\ s[1] = j
  OBVIOUS
<1> HIDE DEF j
<1>4. ASSUME Alive(j) PROVE Alive(j)'
  BY <1>1, <1>2, <1>3, <1>4, StillAlive
<1>5. ASSUME NEW i \in Jobs, i # j, Alive(i) PROVE Alive(i)'
  <2>1. \A t \in Slots : t[1] = i /\ Settling(t) => Settling(t)'
    BY <1>1, <1>3, <1>5 DEF Settling, StepOf
  <2>2. /\ store'[i].state = store[i].state /\ store'[i].runOnce = store[i].runOnce
        /\ timer'[i] = timer[i] /\ (i \in unsaved => i \in unsaved')
    BY <1>1, <1>5
  <2>3. phase' = phase /\ overlooked' = overlooked
    BY <1>1
  <2> QED BY <2>1, <2>2, <2>3, <1>5, StillAlive
<1>6. Enabled' \subseteq Enabled
  BY <1>1 DEF Enabled
<1>7. \A i \in Jobs : Alive(i) => Alive(i)'
  BY <1>4, <1>5
<1> QED BY <1>1, <1>2, <1>6, <1>7, SameArmed

\* Every step keeps the timers of the enabled jobs.
LEMMA NextArmed ==
  ASSUME ArmedInv, Stored, MissedOnes, Held, [Next]_vars
  PROVE  ArmedInv'
<1>1. CASE \E j \in Jobs : Add(j) \/ RemoveJob(j) \/ ToggleOff(j) \/ ToggleOn(j)
  BY <1>1, CommandArmed
<1>2. CASE ChangeMode
  <2>1. PICK j \in Jobs : TRUE
    BY <1>2 DEF ChangeMode
  <2> QED BY <1>2, <2>1, CommandArmed
<1>3. CASE \E j \in Jobs : RunNow(j) \/ Fire(j)
  BY <1>3, BeginArmed
<1>4. CASE ReadJobs \/ ReadFails
  BY <1>4, ReadArmed, MissArmed
<1>5. CASE ApplyJobs \/ Boot
  BY <1>5, RefreshArmed
<1>6. CASE \E j \in Jobs : TargetReached(j) \/ GraceExpires(j)
  <2> PICK j \in Jobs : TargetReached(j) \/ GraceExpires(j)
    BY <1>6
  <2>1. UNCHANGED <<store, service, timer, run, unread, lists, unsaved, overlooked>>
    BY DEF TargetReached, GraceExpires, memory, history
  <2>2. \A i \in Jobs : phase[i] = "never" => phase'[i] = "never"
    BY DEF TargetReached, GraceExpires, MissedOnes
  <2> QED BY <2>1, <2>2, SameJobs
<1>7. CASE \E s \in Slots : Step(s) \/ TimeOut(s)
  <2> PICK s \in Slots : Step(s) \/ TimeOut(s)
    BY <1>7
  <2>1. CASE Bookkeeping(s)
    BY <2>1, BookArmed
  <2>2. CASE GetFails(s)
    BY <2>2, GetFailsArmed
  <2>3. CASE ~(Bookkeeping(s) \/ GetFails(s))
    BY <2>3, ExecutionArmed DEF Step
  <2> QED BY <2>1, <2>2, <2>3
<1>8. CASE Stop \/ Exit \/ Crash
  BY <1>8, HaltArmed
<1>9. CASE UNCHANGED vars
  BY <1>9, SameJobs DEF vars
<1> QED
  BY <1>1, <1>2, <1>3, <1>4, <1>5, <1>6, <1>7, <1>8, <1>9 DEF Next

\* A job without a run has its timer, unless its fire was skipped or its
\* bookkeeping lost.
LEMMA AliveArmed == ASSUME ArmedInv PROVE EnabledIsArmed
<1> SUFFICES ASSUME Serving, unread = 0, lists = <<>>, NEW j \in Enabled, Idle(j)
             PROVE  \/ timer[j] \in {"armed", "skipped"} \/ phase[j] = "never"
                    \/ j \in unsaved \cup overlooked
  BY DEF EnabledIsArmed
<1>1. j \in Jobs /\ store[j].state = "enabled" /\ Alive(j)
  BY DEF Enabled, ArmedInv
<1>2. \A s \in Slots : s[1] = j => ~Settling(s)
  <2> SUFFICES ASSUME NEW s \in Slots, s[1] = j PROVE ~Settling(s)
    OBVIOUS
  <2>1. s = <<j, s[2]>> /\ s[2] \in Lanes
    BY DEF Slots
  <2>2. run[s] = NoRun
    BY <2>1 DEF Idle
  <2> QED BY <2>2 DEF Settling, StepOf
<1> QED BY <1>1, <1>2 DEF Alive

\* A job that is enabled will fire: no interleaving of commands, refreshes from
\* lists read before them, fires, late executions, lost writes and restarts
\* leaves an enabled job without its timer, but for a bookkeeping write, a
\* one-shot's read of its job or a refresh's of the store that failed, a one-shot
\* whose fire found it running, and one without a targetAt (refresh, scheduleJob,
\* runJob and markRunOnceMissed).
THEOREM EnabledArmed == Spec => []EnabledIsArmed
<1>1. Init => Held /\ MissedOnes /\ StreakInv /\ ArmedInv
  BY InitHeld, InitMissed, InitStreak, InitArmed
<1>2. Held /\ MissedOnes /\ StreakInv /\ ArmedInv /\ [Next]_vars
        => (Held /\ MissedOnes /\ StreakInv /\ ArmedInv)'
  <2> SUFFICES ASSUME Held, MissedOnes, StreakInv, ArmedInv, [Next]_vars
      PROVE  Held' /\ MissedOnes' /\ StreakInv' /\ ArmedInv'
    OBVIOUS
  <2>1. Stored
    BY DEF StreakInv
  <2> QED BY <2>1, NextHeld, NextMissed, NextStreak, NextArmed
<1>3. ArmedInv => EnabledIsArmed
  BY AliveArmed
<1> QED BY <1>1, <1>2, <1>3, PTL DEF Spec
=============================================================================
