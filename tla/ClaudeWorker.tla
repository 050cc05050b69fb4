------------------------------ MODULE ClaudeWorker ------------------------------
(***************************************************************************)
(* src/src/codex/claude-stream-adapter.ts: the turns of one conversation   *)
(* on a Claude CLI process that stays alive between them, and the          *)
(* background tasks that outlive the turn that started them.               *)
(*                                                                         *)
(* The adapter writes prompts into the CLI's stdin and reads one stream of *)
(* lines: those of turns, those of tasks, and those of the review turns    *)
(* the CLI inserts on its own when a task ends.  Nothing but the order,    *)
(* and the slot pendingTaskNotification, says to which of them a line      *)
(* belongs.  A line is handled as it is emitted, by one action that is     *)
(* both a step of the CLI and the adapter's handleMessage; prompts wait in *)
(* stdin.  Requests come one at a time: the locks of the bridge.           *)
(*                                                                         *)
(* Left out: texts, approvals, files, foreground tool calls that the CLI   *)
(* reports as tasks (their lines are ignored), tasks of older CLIs, whose  *)
(* lines name no tool call (:1112 keeps those that an unattended turn      *)
(* starts, :1190 gives the slot to one that is tracked no more), several   *)
(* sessions.                                                               *)
(***************************************************************************)
EXTENDS Naturals, Sequences, FiniteSets

CONSTANTS
  Turns,    \* requests of the conversation
  Tasks,    \* background tasks its turns and reviews may start
  Workers,  \* CLI processes
  Styles,   \* how a CLI announces a review: "envelope" or "init"
  None

ASSUME ClaudeAssumption ==
  /\ Cardinality(Workers) >= Cardinality(Turns)   \* each request spawns one at most
  /\ Styles \subseteq {"envelope", "init"}
  /\ None \notin Turns \cup Tasks \cup Workers
  /\ (Turns \cup {None}) \cap {"early", "cut", "task", "killed"} = {}   \* the marks of reply

VARIABLES
  current,  \* the worker the keys of the session lead to, or None
  worker,   \* worker -> ClaudeWorker
  at,       \* request -> where its sendUserMessage stands
  on,       \* the worker the request in work waits for or writes to, or None
  grace,    \* the request that waits has its timer armed
  cli,      \* worker -> the process: what it runs, and what lies in its stdin
  life,     \* task -> where it stands in the CLI
  told,     \* task -> its terminal events, as the user gets them
  reply,    \* request -> whose answer it was given
  muddled   \* history: the slot and the review in work fell apart: the late
            \* notice of a collected task took it, hours without a line dropped
            \* it, or the init of a turn that no request waits for claimed it

adapterVars == <<current, worker, at, on, grace>>
historyVars == <<told, reply, muddled>>
vars == <<adapterVars, cli, life, historyVars>>

-----------------------------------------------------------------------------
\* pendingTaskNotification and the queued ones: whose review, which turn
\* started the task, and how old.
Notice == [task : Tasks, turn : Turns \cup {None}, age : {"fresh", "late", "old"}]
ASSUME NoticeAssumption == None \notin Notice

ClaudeWorker ==
  [child : {"unborn", "live", "killed", "closed"},
   pending : Turns \cup {None},    \* pendingTurn
   tool : BOOLEAN,                 \* it has an outstanding tool call
   settling : BOOLEAN,             \* its backgroundCompletionTimer is armed
   notice : Notice \cup {None},    \* pendingTaskNotification
   active : BOOLEAN,               \* taskNotificationTurnActive
   queue : Seq([task : Tasks, turn : Turns \cup {None}, review : BOOLEAN]),
   tracked : [Tasks -> {"no", "running", "finished"}],  \* backgroundTasks
   aged : SUBSET Tasks,            \* those silent for backgroundTaskMaxAgeMs
   owner : [Tasks -> Turns \cup {None}],                \* their turnId
   collected : SUBSET Tasks]       \* collectedBackgroundTaskIds

Unborn ==
  [child |-> "unborn", pending |-> None, tool |-> FALSE, settling |-> FALSE,
   notice |-> None, active |-> FALSE, queue |-> <<>>,
   tracked |-> [k \in Tasks |-> "no"], aged |-> {}, owner |-> [k \in Tasks |-> None],
   collected |-> {}]

Idle(style) == [mode |-> "idle", who |-> None, tool |-> FALSE, style |-> style, stdin |-> <<>>]

Tracked(W) == {k \in Tasks : W.tracked[k] # "no"}
Running(W) == {k \in Tasks : W.tracked[k] = "running"}
Forget(W, ks) == [W EXCEPT !.tracked = [k \in Tasks |-> IF k \in ks THEN "no" ELSE @[k]],
                           !.owner = [k \in Tasks |-> IF k \in ks THEN None ELSE @[k]],
                           !.aged = @ \ ks]
\* Tasks whose review never started, and tasks nothing was heard of for hours.
Tell(unreviewed, pruned) ==
  told' = [k \in Tasks |-> CASE k \in unreviewed          -> Append(told[k], "unreviewed")
                             [] k \in pruned \ unreviewed -> Append(told[k], "pruned")
                             [] OTHER                     -> told[k]]
Event(k, how) == told' = [told EXCEPT ![k] = Append(@, how)]
Keep(W, w) == worker' = [worker EXCEPT ![w] = W]

-----------------------------------------------------------------------------
(* The slot of the review, its queue, and the requests that wait for it *)

Busy(W) == W.active \/ (W.notice # None /\ W.notice.age = "fresh")

\* settleExpiredTaskNotification: the review did not start within its grace.
Expired(W) == ~W.active /\ W.notice # None /\ W.notice.age # "fresh"
GivenUp(W) == {k \in Tasks : Expired(W) /\ W.notice.task = k /\ W.tracked[k] = "finished"}
SettleExpired(W) ==
  IF Expired(W)
  THEN [Forget(W, GivenUp(W)) EXCEPT !.notice = None, !.collected = @ \cup GivenUp(W)]
  ELSE W

InstallNext(W) ==
  IF W.active \/ W.queue = <<>> \/ W.notice # None THEN W
  ELSE [W EXCEPT !.notice = [task |-> Head(W.queue).task, turn |-> Head(W.queue).turn, age |-> "fresh"],
                 !.active = Head(W.queue).review,
                 !.queue = Tail(@)]

\* advanceTaskNotificationQueue.  One round: an installed notice is fresh.
Advance(W) == InstallNext(SettleExpired(W))

\* A request that was woken goes on before anything else is handled, but for
\* the other lines of the batch that woke it.
Woken == {t \in Turns : at[t] \in {"line", "timer"}}
Batch(w) == \A t \in Woken : at[t] = "line" /\ on = w

Waiting(w) == {t \in Turns : at[t] = "waiting" /\ on = w}

\* Mutant of Wake: the timer of who waits on is not armed again.
WakeWithoutTimer(w, W, armed, by) ==
  /\ grace' = (Busy(W) /\ armed)
  /\ at' = [t \in Turns |-> IF t \in Waiting(w) /\ ~Busy(W) THEN by ELSE at[t]]

\* resolveTaskNotificationWaiters, once the queue has advanced to W: who
\* waits is woken by a line or by a timer, or waits on with a timer of its
\* own if a fresh notice came up.
Wake(w, W, armed, by) ==
  /\ grace' = (Busy(W) /\ (armed \/ (Waiting(w) # {} /\ ~W.active)))
  /\ at' = [t \in Turns |-> IF t \in Waiting(w) /\ ~Busy(W) THEN by ELSE at[t]]

-----------------------------------------------------------------------------
(* The end of a worker *)

\* failWorker, killProcessTree, removeWorker: W without its turn, killed and
\* no longer found; who waited or was answered by it fails.
Killed(W) == [W EXCEPT !.pending = None, !.tool = FALSE, !.settling = FALSE,
                       !.child = IF @ = "live" THEN "killed" ELSE @]
Drop(w) == current' = IF current = w THEN None ELSE current
FailRequests(w) ==
  /\ at' = [t \in Turns |-> IF on = w /\ at[t] \in {"waiting", "sent"} THEN "failed" ELSE at[t]]
  /\ grace' = (grace /\ Waiting(w) = {})
  /\ on' = IF on = w THEN None ELSE on
Down(w) ==
  /\ Keep(Killed(worker[w]), w)
  /\ Drop(w)
  /\ FailRequests(w)
  /\ UNCHANGED <<cli, life, historyVars>>

\* failBackgroundTasks: every task the worker still tracked is reported.
FailTasks(W) ==
  told' = [k \in Tasks |-> CASE W.tracked[k] = "running"  -> Append(told[k], "died")
                             [] W.tracked[k] = "finished" -> Append(told[k], "unreviewed")
                             [] OTHER -> told[k]]

\* The handler of close; the CLI may also exit by itself.  Nothing of a
\* closed worker is read again.
Close(w) ==
  /\ Woken = {} /\ worker[w].child \in {"live", "killed"}
  /\ Keep([Unborn EXCEPT !.child = "closed"], w)
  /\ cli' = [cli EXCEPT ![w] = Idle("envelope")]
  /\ FailTasks(worker[w])
  /\ Drop(w)
  /\ FailRequests(w)
  /\ UNCHANGED <<life, reply, muddled>>

\* The inactivity watchdog, a broken stdin, or output over the limit.
GivesOut(w) ==
  /\ worker[w].child \in {"live", "killed"} /\ worker[w].pending # None
  /\ Down(w)

-----------------------------------------------------------------------------
(* sendUserMessage *)

InWork == {t \in Turns : at[t] \in {"waiting", "sent"}} \cup Woken
Unspawned == {w \in Workers : worker[w].child = "unborn"}
NextWorker == CHOOSE w \in Unspawned : TRUE

\* waitForTaskNotificationTurn: the timer runs only while no review does.
Wait(t, w, W) ==
  /\ at' = [at EXCEPT ![t] = "waiting"]
  /\ on' = w
  /\ grace' = ~W.active
  /\ Keep(W, w)
  /\ UNCHANGED <<current, cli>>

\* sendTurn: the prompt lies in stdin, which a killed process never reads.
Write(t, w, W) ==
  /\ at' = [at EXCEPT ![t] = "sent"]
  /\ on' = w
  /\ grace' = FALSE
  /\ Keep([W EXCEPT !.pending = t, !.tool = FALSE, !.settling = FALSE], w)
  /\ cli' = [cli EXCEPT ![w].stdin = Append(@, t)]
  /\ UNCHANGED current

\* A new process, beside the workers so far, takes the turn.
Respawn(t, workers) ==
  /\ Unspawned # {}
  /\ \E style \in Styles : LET w == NextWorker IN
       /\ worker' = [v \in Workers |->
                       IF v = w THEN [Unborn EXCEPT !.child = "live", !.pending = t]
                       ELSE workers[v]]
       /\ cli' = [cli EXCEPT ![w] = [Idle(style) EXCEPT !.stdin = <<t>>]]
       /\ current' = w
       /\ at' = [at EXCEPT ![t] = "sent"]
       /\ on' = w
       /\ grace' = FALSE

\* pruneExpiredBackgroundTasks
Pruned(W) == Tracked(W) \cap W.aged
Untracked(W) == W.notice # None /\ W.notice.age = "old" /\ W.tracked[W.notice.task] = "no"
SlotPruned(W) == W.notice # None /\ (Untracked(W) \/ W.notice.task \in Pruned(W))
PruneTasks(W) ==
  IF SlotPruned(W)
  THEN Advance([Forget(W, Pruned(W)) EXCEPT !.notice = None, !.active = FALSE])
  ELSE Forget(W, Pruned(W))
PruneTold(W) == Pruned(W) \cup {k \in Tasks : Untracked(W) /\ W.notice.task = k}

\* getOrCreateWorker on the worker W the keys lead to.  The settings of the
\* request may differ from those W was spawned with: an option, or the
\* workspace or the approval mode, which no running task may see changed.
Reconfigure(t, w, W, change) ==
  \/ /\ Running(W) = {}
     /\ Respawn(t, [worker EXCEPT ![w] = Killed(W)])
  \/ /\ Running(W) # {} /\ change = "option"
     /\ Write(t, w, W)
  \/ /\ Running(W) # {} /\ change = "security"
     /\ at' = [at EXCEPT ![t] = "failed"]
     /\ on' = None
     /\ grace' = FALSE
     /\ Keep(W, w)
     /\ UNCHANGED <<current, cli>>

\* A request meets the worker w, whose queue has advanced to W.
Dispatch(t, w, W) ==
  LET unreviewed == GivenUp(worker[w]) IN
  \/ Busy(W) /\ Wait(t, w, W) /\ Tell(unreviewed, {})
  \/ ~Busy(W) /\ Write(t, w, W) /\ Tell(unreviewed, {})
  \/ /\ ~Busy(W)
     /\ \E change \in {"option", "security"} : Reconfigure(t, w, PruneTasks(W), change)
     /\ Tell(unreviewed, PruneTold(W))

Go(t) ==
  /\ \/ current = None /\ Respawn(t, worker) /\ UNCHANGED told
     \/ current # None /\ Dispatch(t, current, Advance(worker[current]))
  /\ UNCHANGED <<life, reply, muddled>>

Begin(t) == at[t] = "new" /\ InWork = {} /\ Go(t)

Resume(t) ==
  /\ t \in Woken
  /\ \/ /\ Busy(worker[on])
        /\ Wait(t, on, worker[on])
        /\ UNCHANGED <<life, historyVars>>
     \/ ~Busy(worker[on]) /\ Go(t)

\* /stop: a request that waits just ends, one that was written takes its
\* process with it.
Abort(t) ==
  \/ /\ at[t] = "waiting"
     /\ at' = [at EXCEPT ![t] = "failed"]
     /\ on' = None
     /\ grace' = FALSE
     /\ UNCHANGED <<current, worker, cli, life, historyVars>>
  \/ /\ at[t] = "sent"
     /\ Down(on)
-----------------------------------------------------------------------------
(* handleMessage, line by line: what the CLI does and what it is taken for *)

\* Every line registers its worker again, a killed one too.  A line of a
\* worker whose session another one serves by now changes nothing: its
\* worker was killed before.
Hears(w) ==
  /\ worker[w].child \in {"live", "killed"} /\ current \in {None, w} /\ Batch(w)
  /\ current' = w
Live(w) == worker[w].child = "live"
Mode(w, mode, who) == cli' = [cli EXCEPT ![w].mode = mode, ![w].who = who, ![w].tool = FALSE]
At(k, w, phases) == life[k].at \in phases /\ life[k].by = w
Moves(k, w, phase) == life' = [life EXCEPT ![k] = [at |-> phase, by |-> IF phase = "done" THEN None ELSE w]]

\* A line while a review runs keeps its slot young; any other one of the
\* pending turn stops the timer that would settle it.
Heard(W) ==
  IF W.active /\ W.notice # None THEN [W EXCEPT !.notice.age = "fresh"] ELSE W
Quiet(W) == IF W.active THEN Heard(W) ELSE [W EXCEPT !.settling = FALSE]
Attended(W) == W.active \/ W.pending # None

\* An init names nobody.  With no turn pending it counts as that of the review
\* the slot holds, whatever turn it announces: its request may have been
\* settled, or given the result of an earlier one.
Misread(W) == W.notice # None /\ W.pending = None
Announced(W) == [W EXCEPT !.active = @ \/ Misread(W)]

InitOfTurn(w) ==
  /\ LET W == Heard(worker[w]) IN
       Keep(Announced(W), w) /\ muddled' = (muddled \/ (Misread(W) /\ ~W.active))
  /\ UNCHANGED <<at, on, grace, life, told, reply>>

ReadPrompt(w) ==
  /\ Live(w) /\ Hears(w) /\ cli[w].mode = "idle" /\ cli[w].stdin # <<>>
  /\ cli' = [cli EXCEPT ![w].mode = "turn", ![w].who = Head(cli[w].stdin), ![w].stdin = Tail(@)]
  /\ InitOfTurn(w)

\* A turn may initialise its session again, as /compact does.
Reinit(w) ==
  /\ Hears(w) /\ cli[w].mode = "turn"
  /\ InitOfTurn(w)
  /\ UNCHANGED cli

\* A prompt read during a review becomes part of it and gets no result.
FoldPrompt(w) ==
  /\ Live(w) /\ Batch(w) /\ cli[w].mode = "review" /\ cli[w].stdin # <<>>
  /\ cli' = [cli EXCEPT ![w].stdin = Tail(@)]
  /\ UNCHANGED <<adapterVars, life, historyVars>>

ToolStarts(w) ==
  /\ Hears(w) /\ cli[w].mode = "turn" /\ ~cli[w].tool
  /\ cli' = [cli EXCEPT ![w].tool = TRUE]
  /\ LET W == Quiet(worker[w]) IN
       Keep(IF W.active \/ W.pending = None THEN W ELSE [W EXCEPT !.tool = TRUE], w)
  /\ UNCHANGED <<at, on, grace, life, historyVars>>

ToolEnds(w) ==
  /\ Hears(w) /\ cli[w].mode = "turn" /\ cli[w].tool
  /\ cli' = [cli EXCEPT ![w].tool = FALSE]
  /\ LET W == Quiet(worker[w]) IN Keep(IF W.active THEN W ELSE [W EXCEPT !.tool = FALSE], w)
  /\ UNCHANGED <<at, on, grace, life, historyVars>>

\* task_started.  The tool call that asked for the task was noticed only if
\* a turn is pending or a review runs.
StartTask(w, k) ==
  /\ Hears(w) /\ cli[w].mode \in {"turn", "review"} /\ life[k].at = "new"
  /\ Moves(k, w, "runs")
  /\ LET W == Quiet(worker[w]) IN
       Keep(IF Attended(W)
            THEN [W EXCEPT !.tracked[k] = "running", !.aged = @ \ {k}, !.collected = @ \ {k},
                           !.owner[k] = IF W.active /\ W.notice # None THEN W.notice.turn ELSE W.pending]
            ELSE W, w)
  /\ UNCHANGED <<at, on, grace, cli, historyVars>>

\* Mutant of Collect: the task is not kept as collected.
CollectUnmarked(w, k) ==
  /\ Hears(w) /\ cli[w].mode \in {"turn", "review"} /\ At(k, w, {"runs", "owed"})
  /\ Moves(k, w, IF life[k].at = "runs" THEN "collected" ELSE "owed")
  /\ LET W == Quiet(worker[w]) IN
       IF Attended(W) /\ W.tracked[k] # "no"
       THEN Keep(Forget(W, {k}), w) /\ Event(k, "collected")
       ELSE Keep(W, w) /\ UNCHANGED told
  /\ UNCHANGED <<at, on, grace, cli, reply, muddled>>

\* TaskOutput returns the terminal result of k inside a turn or a review.
Collect(w, k) ==
  /\ Hears(w) /\ cli[w].mode \in {"turn", "review"} /\ At(k, w, {"runs", "owed"})
  /\ Moves(k, w, IF life[k].at = "runs" THEN "collected" ELSE "owed")
  /\ LET W == Quiet(worker[w]) IN
       IF Attended(W) /\ W.tracked[k] # "no"
       THEN Keep([Forget(W, {k}) EXCEPT !.collected = @ \cup {k}], w) /\ Event(k, "collected")
       ELSE Keep(W, w) /\ UNCHANGED told
  /\ UNCHANGED <<at, on, grace, cli, reply, muddled>>

\* Mutant of ForeignReview: a review in work is not kept apart.
ForeignReviewNever(W, k) == FALSE

ForeignReview(W, k) == W.active /\ W.notice # None /\ W.notice.task # k

\* task_notification: the task is finished, and its review claims the slot,
\* or queues for it while another one runs.  That of a collected task takes
\* the slot at once.
Finished(W, k) == IF W.tracked[k] = "running"
                  THEN [W EXCEPT !.tracked[k] = "finished", !.aged = @ \ {k}] ELSE W
Claims(W, k, review) ==
  IF ForeignReview(W, k)
  THEN [W EXCEPT !.queue = Append(@, [task |-> k, turn |-> W.owner[k], review |-> review])]
  ELSE [W EXCEPT !.notice = [task |-> k, turn |-> W.owner[k], age |-> "fresh"],
                 !.active = @ \/ review]
Notified(V, k) ==
  LET W == Heard(V) IN
  IF k \in W.collected THEN [W EXCEPT !.notice = [task |-> k, turn |-> None, age |-> "fresh"]]
  ELSE IF W.tracked[k] = "no" THEN W
  ELSE Claims(Finished(W, k), k, FALSE)

\* A task ends; one that was collected may be announced all the same.
Announce(w, k) ==
  /\ Hears(w) /\ At(k, w, {"runs", "collected"})
  /\ Moves(k, w, "owed")
  /\ Keep(Notified(worker[w], k), w)
  /\ muddled' = (muddled \/ (k \in worker[w].collected /\ worker[w].active
                              /\ worker[w].notice # None /\ worker[w].notice.task # k))
  /\ UNCHANGED <<at, on, grace, cli, told, reply>>

\* The CLI takes note of a completion within a turn and reviews nothing.
Swallow(w, k) ==
  /\ Live(w) /\ Batch(w) /\ cli[w].mode = "turn" /\ At(k, w, {"owed"})
  /\ Moves(k, w, "done")
  /\ UNCHANGED <<adapterVars, cli, historyVars>>

\* A review turn begins: with an envelope that names its task, which newer
\* CLIs send, or with an init, which names none and counts only when no turn
\* is pending.
BeginReview(w, k) ==
  /\ Hears(w) /\ cli[w].mode = "idle"
  /\ Mode(w, "review", k)
  /\ Moves(k, w, "done")
  /\ LET W == Heard(worker[w]) IN
     \/ /\ cli[w].style = "envelope" /\ At(k, w, {"runs", "owed"})
        /\ Keep(Claims(Finished(W, k), k, TRUE), w)
     \/ /\ cli[w].style = "init" /\ At(k, w, {"owed"})
        /\ Keep(Announced(W), w)
  /\ UNCHANGED <<at, on, grace, historyVars>>

\* The result of a review.  Older CLIs name the task in it; else it is that
\* of the slot.  W is the worker, id the task named.
ReviewOf(W, id) == IF id # None THEN id ELSE IF W.notice # None THEN W.notice.task ELSE None
TurnOf(W, k) == IF W.notice # None THEN W.notice.turn ELSE IF k # None THEN W.owner[k] ELSE None
ReviewResult(w, W, id) ==
  LET k == ReviewOf(W, id)
      settles == W.pending # None /\ TurnOf(W, k) = W.pending
      free == InstallNext([W EXCEPT !.notice = None, !.active = FALSE])
  IN
  /\ Wake(w, free, grace, "line")
  /\ IF k # None /\ k \in W.collected
     THEN Keep([free EXCEPT !.collected = @ \ {k}], w) /\ UNCHANGED told
     ELSE /\ Keep([Forget(free, {k} \cap Tasks) EXCEPT !.settling = @ \/ settles], w)
          /\ IF k # None THEN Event(k, "review") ELSE UNCHANGED told
  /\ UNCHANGED on

EndReview(w) ==
  /\ Hears(w) /\ cli[w].mode = "review"
  /\ Mode(w, "idle", None)
  /\ ReviewResult(w, worker[w], IF cli[w].style = "init" THEN cli[w].who ELSE None)
  /\ UNCHANGED <<life, reply, muddled>>

\* A task that ends within the turn that waits for it: announced and at once
\* its result, with which the turn may be over.
FoldCompletion(w, k) ==
  /\ Hears(w) /\ cli[w].mode = "turn" /\ At(k, w, {"runs"})
  /\ worker[w].tracked[k] # "no"
  /\ Moves(k, w, "done")
  /\ \/ ~cli[w].tool /\ Mode(w, "idle", None)
     \/ UNCHANGED cli
  /\ ReviewResult(w, Notified(worker[w], k), None)
  /\ UNCHANGED <<reply, muddled>>

\* The result of a turn ends the pending request, whichever that is; with
\* none pending it clears the slot.
Answered(w, t, whose) ==
  /\ at' = [at EXCEPT ![t] = "answered"]
  /\ reply' = [reply EXCEPT ![t] = IF Live(w) THEN whose ELSE "killed"]
  /\ on' = None
  /\ UNCHANGED grace
NoTurn(W) == [W EXCEPT !.pending = None, !.tool = FALSE, !.settling = FALSE]
Refreshed(W) == IF W.notice = None THEN W ELSE [W EXCEPT !.notice.age = "fresh"]

Result(w, W) ==
  \/ /\ W.pending # None
     /\ Keep(Refreshed(NoTurn(W)), w)
     /\ Answered(w, W.pending, cli[w].who)
     /\ UNCHANGED told
  \/ /\ W.pending # None
     /\ Keep(NoTurn(W), w)
     /\ at' = [at EXCEPT ![W.pending] = "failed"]
     /\ on' = None
     /\ UNCHANGED <<grace, told, reply>>
  \/ /\ W.pending = None
     /\ LET free == InstallNext([W EXCEPT !.notice = None]) IN
          Keep(free, w) /\ Wake(w, free, grace, "line")
     /\ UNCHANGED <<on, told, reply>>

EndTurn(w) ==
  /\ Hears(w) /\ cli[w].mode = "turn" /\ ~cli[w].tool
  /\ Mode(w, "idle", None)
  /\ IF worker[w].active THEN ReviewResult(w, worker[w], None) /\ UNCHANGED reply
     ELSE Result(w, worker[w])
  /\ UNCHANGED <<life, muddled>>

-----------------------------------------------------------------------------
(* Timers *)

\* taskNotificationStartGraceMs, counted from lastSeenAt.
GraceExpires(w) ==
  /\ Woken = {} /\ worker[w].child \in {"live", "killed"} /\ worker[w].notice # None
  /\ worker[w].notice.age = "fresh" /\ ~worker[w].active
  /\ Keep([worker[w] EXCEPT !.notice.age = "late"], w)
  /\ UNCHANGED <<current, at, on, grace, cli, life, historyVars>>

\* backgroundTaskMaxAgeMs without a word of the tasks or of the review.
HoursPass(w) ==
  LET W == worker[w] IN
  /\ Woken = {} /\ W.child \in {"live", "killed"}
  /\ Keep([W EXCEPT !.aged = Tracked(W),
                    !.notice = IF @ = None THEN None ELSE [@ EXCEPT !.age = "old"]], w)
  /\ worker' # worker
  /\ UNCHANGED <<current, at, on, grace, cli, life, historyVars>>

GraceTimer(t) ==
  /\ at[t] = "waiting" /\ grace
  /\ LET W == Advance(worker[on]) IN
       Keep(W, on) /\ Wake(on, W, FALSE, "timer")
  /\ Tell(GivenUp(worker[on]), {})
  /\ UNCHANGED <<current, on, cli, life, reply, muddled>>

\* Whose answer a turn gets that is settled by a task: the result of its own
\* is still to come while it runs, or while its prompt lies in stdin.
Instead(w) ==
  CASE cli[w].mode = "turn" -> IF cli[w].tool THEN "cut" ELSE "early"
    [] OTHER -> IF \E i \in DOMAIN cli[w].stdin : cli[w].stdin[i] = worker[w].pending
                THEN "early" ELSE "task"

\* Mutant of SettleTimer: a tool call still running is not asked for.
SettleTimerAnyway(w) ==
  /\ worker[w].settling
  /\ Keep(NoTurn(worker[w]), w)
  /\ Answered(w, worker[w].pending, Instead(w))
  /\ UNCHANGED <<current, cli, life, told, muddled>>

\* A turn whose own task has ended is over when the CLI then keeps silent
\* and no tool runs.
SettleTimer(w) ==
  /\ worker[w].settling
  /\ \/ /\ worker[w].tool
        /\ Keep([worker[w] EXCEPT !.settling = FALSE], w)
        /\ UNCHANGED <<at, on, grace, reply>>
     \/ /\ ~worker[w].tool
        /\ Keep(NoTurn(worker[w]), w)
        /\ Answered(w, worker[w].pending, Instead(w))
  /\ UNCHANGED <<current, cli, life, told, muddled>>

\* reapIdleWorkers, on the worker of the session.
Reap(w) ==
  LET A == Advance(worker[w])
      P == PruneTasks(A)
      idle == P.pending = None /\ Running(P) = {} /\ ~Busy(P) /\ Waiting(w) = {}
  IN
  /\ Woken = {} /\ current = w
  /\ Tell(GivenUp(worker[w]), PruneTold(A))
  /\ IF SlotPruned(A) THEN Wake(w, P, grace, "timer") ELSE UNCHANGED <<at, grace>>
  /\ \/ Keep(P, w) /\ UNCHANGED current
     \/ idle /\ Keep(Killed(P), w) /\ current' = None
  /\ muddled' = (muddled \/ (A.active /\ SlotPruned(A)))
  /\ UNCHANGED <<on, cli, life, reply>>

-----------------------------------------------------------------------------
Init ==
  /\ current = None
  /\ worker = [w \in Workers |-> Unborn]
  /\ at = [t \in Turns |-> "new"]
  /\ on = None
  /\ grace = FALSE
  /\ cli = [w \in Workers |-> Idle("envelope")]
  /\ life = [k \in Tasks |-> [at |-> "new", by |-> None]]
  /\ told = [k \in Tasks |-> <<>>]
  /\ reply = [t \in Turns |-> None]
  /\ muddled = FALSE

Request(t) == Begin(t) \/ Resume(t) \/ Abort(t) \/ GraceTimer(t)
Process(w) ==
  \/ ReadPrompt(w) \/ Reinit(w) \/ FoldPrompt(w) \/ ToolStarts(w) \/ ToolEnds(w) \/ EndTurn(w) \/ EndReview(w)
  \/ \E k \in Tasks : StartTask(w, k) \/ Collect(w, k) \/ Announce(w, k) \/ Swallow(w, k)
                        \/ BeginReview(w, k) \/ FoldCompletion(w, k)
Clock(w) == GraceExpires(w) \/ HoursPass(w) \/ SettleTimer(w) \/ Reap(w) \/ GivesOut(w)

Next ==
  \/ \E t \in Turns : Request(t)
  \/ \E w \in Workers : Process(w) \/ Clock(w) \/ Close(w)

\* Timers fire and time passes, and a killed process ends.  The CLI owes
\* nothing.
Fairness ==
  /\ WF_vars(\E t \in Turns : Resume(t)) /\ WF_vars(\E t \in Turns : GraceTimer(t))
  /\ \A w \in Workers :
       WF_vars(HoursPass(w)) /\ WF_vars(Reap(w)) /\ WF_vars(worker[w].child = "killed" /\ Close(w))

Spec == Init /\ [][Next]_vars /\ Fairness

-----------------------------------------------------------------------------
\* Types; and a request that waits or was written has its worker.
TypeOK ==
  /\ current \in Workers \cup {None}
  /\ \A w \in Workers : worker[w].tracked \in [Tasks -> {"no", "running", "finished"}]
  /\ at \in [Turns -> {"new", "waiting", "line", "timer", "sent", "answered", "failed"}]
  /\ grace \in BOOLEAN
  /\ InWork # {} => on \in Workers
  /\ \A w \in Workers : worker[w].settling => worker[w].pending # None

\* The result of a review reaches the task that was reviewed, or that task
\* was reported before: it is not shown under the name of another one,
\* whichever tasks end, start or are collected while it runs.  Exempt is what
\* follows once the slot and the review in work fell apart (muddled): by the
\* late notice of a task collected in a turn (:1159), by a review dropped after
\* hours without a line, or by the init of a turn that no request waits for
\* while a notice holds the slot (:1281): the turn was settled early, or given
\* the result of the one before, or its process was stopped.
ReviewReachesItsTask ==
  [][\A w \in Workers : \A k \in Tasks :
       cli[w].mode = "review" /\ cli[w].who = k /\ cli'[w].mode = "idle"
         /\ worker'[w].child # "closed" =>
         muddled \/ (told'[k] # <<>> /\ \A j \in Tasks \ {k} : told'[j] = told[j])]_vars

\* What the user sees of a task comes first and once: no review of a task
\* that was collected in a turn or given up, and no second one.  Only what
\* was dropped after hours without a word may still turn up.  Exempt is what
\* follows the three ways above: the result of a turn may then be shown as the
\* review of a task whose own review is still to come, and be shown again.
ShownOnce ==
  muddled \/ \A k \in Tasks : \A i, j \in DOMAIN told[k] :
    i < j /\ told[k][j] \in {"review", "died"} => told[k][i] = "pruned"

\* A request is answered with the result of its own turn.  A task's result
\* in its stead never cuts a turn short in which a tool runs; after one that
\* came before the turn had ended, results are off by one.  Exempt: what a
\* stopped process still says.
AnswerIsItsOwn ==
  \A t \in Turns : reply[t] \in {"cut"} \cup (Turns \ {t}) => \E s \in Turns : reply[s] = "early"

\* No request is answered by a process that was stopped before it was sent.
StoppedIsSilent == \A t \in Turns : reply[t] # "killed"

\* Who waits for a review has a way out: while none runs a timer is armed,
\* although notices replace each other, reviews never start, and follow each
\* other without a pause.  (One that runs ends, or is dropped after hours.)
NobodyWaitsUnarmed ==
  \A t \in Turns : at[t] = "waiting" => grace \/ worker[on].active

\* Every request ends, those that wait for a review too, although reviews
\* may never start, never end, or follow each other.
EveryRequestEnds ==
  \A t \in Turns : at[t] = "waiting" ~> at[t] \in {"answered", "failed", "sent"}

\* Every task the adapter tracks is reported, so that nothing waits for it
\* for ever: the deferred restart of the service, or a change of settings.
EveryTaskIsTold ==
  \A w \in Workers : \A k \in Tasks : worker[w].tracked[k] # "no" ~> told[k] # <<>>

\* As the comment on the grace says: a review cannot start before the turn
\* in flight has ended, so a task is not given up as unreviewed until then.
GraceFromTurnEnd ==
  [][\A w \in Workers : worker[w].pending # None /\ worker'[w].pending # None =>
       \A k \in GivenUp(worker[w]) : told'[k] # Append(told[k], "unreviewed")]_vars
=============================================================================
