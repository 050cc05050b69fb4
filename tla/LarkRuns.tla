------------------------------- MODULE LarkRuns -------------------------------
(***************************************************************************)
(* One Lark conversation: how an accepted message becomes a turn           *)
(* (src/src/lark/message-handler.ts), and which run a stop reaches         *)
(* (src/src/lark/bus.ts, commands.ts, card-actions.ts, cron.ts).           *)
(*                                                                         *)
(* A message is parked in an attachment burst, steered into the running    *)
(* turn, or queued, in preempt mode after it aborted the running turn and  *)
(* cleared the queue.  The turns of the queue run one at a time; the       *)
(* pursuit of a /goal and the commands of board cards run beside them, and *)
(* they all share the one slot that a stop looks at.  The queue is that of *)
(* ChatQueue, reduced to its order and to the tasks it skips.              *)
(***************************************************************************)
EXTENDS Naturals, Sequences, SequencesExt

CONSTANTS
  N,         \* how many messages arrive, in the order of their numbers
  Kinds,     \* what they may be
  Modes,     \* CCTB_LARK_QUEUE_MODE
  Cards,     \* taps of commands on board cards
  None,
  MaxTouches, MaxWaitCards   \* bounds: stops and taps; tasks that wait for long

Messages == 1..N

AllKinds == {"text",        \* plain text
             "attachment",  \* it carries one, or announces one
             "quote",       \* a quoted reply
             "q",           \* /q
             "goal",        \* /goal: its run is the pursuit
             "command"}     \* any other command, a firing of a cron job, a tap of a choice card
AllModes == {"fifo", "preempt", "batch", "preempt-batch"}

ASSUME LarkRunsAssumption ==
  /\ N \in Nat /\ MaxTouches \in Nat /\ MaxWaitCards \in Nat
  /\ Kinds \subseteq AllKinds /\ Modes \subseteq AllModes
  /\ Messages \cap Cards = {} /\ None \notin Messages \cup Cards

VARIABLES
  mode,
  pc,        \* message -> how far it is
  kind,      \* message -> its kind, once it has arrived
  burst,     \* pendingBatches[conversation]: the members, in the order they joined
  carrier,   \* member of a burst -> the member whose turn it was merged into
  seen,      \* message -> the active run it read before its access check
  queue, busy, skip,   \* the tasks waiting, the one running, the ones to be skipped
  slot,      \* activeRuns[conversation]
  attached,  \* pursuit -> its concurrentTurn
  host,      \* run -> the pursuit its release detaches from
  aborted,   \* runs that still go on although their signal has fired
  tap,       \* board card -> where its command is
  waitCard,  \* message -> its "queued" card
  early,     \* history: messages cancelled before the send of that card was answered
  stops, touches   \* counters: stops; stops and taps

intake == <<mode, kind, burst, carrier, seen>>
tasks == <<queue, busy, skip>>
runs == <<slot, attached, host, aborted>>
cards == <<waitCard, early>>
counters == <<stops, touches>>
vars == <<intake, pc, tasks, runs, tap, cards, counters>>

Runs == Messages \cup Cards
Preempts == mode \in {"preempt", "preempt-batch"}
Batches == mode \in {"batch", "preempt-batch"}
IsPursuit(r) == r \in Messages /\ kind[r] = "goal"
Live(r) == /\ r \notin aborted
           /\ IF r \in Cards THEN tap[r] = "running" ELSE pc[r] \in {"running", "watching"}

\* liveConcurrentTurn.
Concurrent(g) == IF attached[g] # None /\ Live(attached[g]) THEN attached[g] ELSE None

\* Mutant of Reached: the holder of the slot is aborted, whatever runs beside it.
ReachedHolder(r) == {r} \ {None}

\* abort() on the controller of a run: that of a pursuit passes it on to its concurrent turn.
Reached(r) ==
  IF r = None THEN {} ELSE IF IsPursuit(r) /\ Concurrent(r) # None THEN {Concurrent(r)} ELSE {r}

Abort(rs) == aborted' = aborted \cup {r \in rs : Live(r)}

Init ==
  /\ mode \in Modes
  /\ pc = [m \in Messages |-> "new"] /\ kind = [m \in Messages |-> None]
  /\ burst = <<>> /\ carrier = [m \in Messages |-> None] /\ seen = [m \in Messages |-> None]
  /\ queue = <<>> /\ busy = None /\ skip = {}
  /\ slot = None /\ attached = [m \in Messages |-> None] /\ host = [r \in Runs |-> None]
  /\ aborted = {} /\ tap = [c \in Cards |-> "idle"]
  /\ waitCard = [m \in Messages |-> "none"] /\ early = {} /\ stops = 0 /\ touches = 0

-----------------------------------------------------------------------------
(* The intake of a message, after its sender was let in. *)

\* The turn of a burst is that of its newest member; the others wait for it.
Lead == Last(burst)
Merge(where) == [m \in Messages |-> IF m \notin Range(burst) THEN pc[m]
                                    ELSE IF m = Lead THEN where ELSE "merged"]
Carry == [m \in Messages |-> IF m \in Range(burst) \ {Lead} THEN Lead ELSE carrier[m]]

\* Mutant of Submits: the burst stays parked.
SubmitsNever(k) == FALSE

\* /q and quoted replies submit a parked burst first (queuePendingLarkBatchNow).
Submits(k) == k \in {"q", "quote"} /\ burst # <<>>
QueueThen(k) == IF Submits(k) THEN Append(queue, Lead) ELSE queue
BurstThen(k) == IF Submits(k) THEN <<>> ELSE burst
PcThen(k) == IF Submits(k) THEN Merge("queued") ELSE pc

\* shouldBatchLarkMessage: in a batch mode any text, else what has to do with attachments,
\* unless a burst of another member of the group is parked.
Parks(k, same) == \/ Batches /\ k \in {"text", "quote"}
                  \/ same /\ (k = "attachment" \/ (k = "text" /\ burst # <<>>))

\* trySteerActiveLarkTurn: plain text, an ordinary turn running, and no burst that owns it.
Steers(k) == /\ ~Preempts /\ ~Batches /\ k = "text" /\ burst = <<>>
             /\ slot # None /\ (IsPursuit(slot) => Concurrent(slot) # None)

\* preemptActiveLarkTurnIfEnabled, as far as its access check.
Preempting(k, tasksThen) == Preempts /\ k \notin {"q", "goal", "command"} /\ (slot # None \/ tasksThen # <<>>)

\* handleLarkMessage: what becomes of a message is decided with what it finds.
Arrive(m) ==
  /\ pc[m] = "new" /\ \A earlier \in 1..(m - 1) : pc[earlier] # "new"
  /\ \E k \in Kinds : \E same \in IF burst = <<>> \/ Batches THEN {TRUE} ELSE BOOLEAN :
       /\ kind' = [kind EXCEPT ![m] = k]
       /\ carrier' = IF Submits(k) THEN Carry ELSE carrier
       /\ \/ /\ Parks(k, same)
             /\ pc' = [PcThen(k) EXCEPT ![m] = "parked"] /\ burst' = Append(BurstThen(k), m)
             /\ queue' = QueueThen(k) /\ UNCHANGED seen
          \/ /\ Steers(k)
             /\ pc' = [pc EXCEPT ![m] = "steering"] /\ UNCHANGED <<burst, queue, seen>>
          \/ /\ ~Parks(k, same) /\ Preempting(k, QueueThen(k))
             /\ pc' = [PcThen(k) EXCEPT ![m] = "preempting"] /\ seen' = [seen EXCEPT ![m] = slot]
             /\ burst' = BurstThen(k) /\ queue' = QueueThen(k)
          \/ /\ ~Parks(k, same) /\ ~Steers(k) /\ ~Preempting(k, QueueThen(k))
             /\ pc' = [PcThen(k) EXCEPT ![m] = "queued"]
             /\ burst' = BurstThen(k) /\ queue' = Append(QueueThen(k), m) /\ UNCHANGED seen
  /\ UNCHANGED <<mode, busy, skip, runs, tap, cards, counters>>

\* The quiet window of the burst is over (flushBatchedLarkTurn).
WindowEnds ==
  /\ burst # <<>> /\ burst' = <<>> /\ carrier' = Carry
  /\ IF Preempting("attachment", queue)
     THEN pc' = Merge("preempting") /\ seen' = [seen EXCEPT ![Lead] = slot] /\ UNCHANGED queue
     ELSE pc' = Merge("queued") /\ queue' = Append(queue, Lead) /\ UNCHANGED seen
  /\ UNCHANGED <<mode, kind, busy, skip, runs, tap, cards, counters>>

\* The config was read: with a backlog the message queues.
SteerReady(m) ==
  /\ pc[m] = "steering"
  /\ IF queue = <<>>
     THEN pc' = [pc EXCEPT ![m] = "injecting"] /\ UNCHANGED queue
     ELSE pc' = [pc EXCEPT ![m] = "queued"] /\ queue' = Append(queue, m)
  /\ UNCHANGED <<intake, busy, skip, runs, tap, cards, counters>>

\* steerActiveTurn: the engine takes it into the turn that runs by now, or refuses.
SteerAnswered(m) ==
  /\ pc[m] = "injecting"
  /\ \/ /\ busy # None /\ Live(busy)
        /\ pc' = [pc EXCEPT ![m] = "steered"] /\ UNCHANGED queue
     \/ pc' = [pc EXCEPT ![m] = "queued"] /\ queue' = Append(queue, m)
  /\ UNCHANGED <<intake, busy, skip, runs, tap, cards, counters>>

\* The access check is over: the run read before it is aborted, or only its concurrent turn
\* when it is a pursuit; what waits by now is skipped; the message queues.
PreemptReady(m) ==
  /\ pc[m] = "preempting"
  /\ Abort({IF seen[m] # None /\ IsPursuit(seen[m]) THEN Concurrent(seen[m]) ELSE seen[m]} \ {None})
  /\ seen' = [seen EXCEPT ![m] = None]
  /\ skip' = skip \cup Range(queue)
  /\ pc' = [pc EXCEPT ![m] = "queued"] /\ queue' = Append(queue, m)
  /\ UNCHANGED <<mode, kind, burst, carrier, busy, slot, attached, host, tap, cards, counters>>

-----------------------------------------------------------------------------
(* The slot. *)

\* claimLarkRunSlot: attach to a pursuit, else take the slot; with "leave" only a free one.
Claim(r, leave) ==
  IF slot # None /\ IsPursuit(slot)
  THEN /\ attached' = [attached EXCEPT ![slot] = r] /\ host' = [host EXCEPT ![r] = slot]
       /\ UNCHANGED slot
  ELSE /\ slot' = IF leave /\ slot # None THEN slot ELSE r
       /\ UNCHANGED <<attached, host>>

\* Mutant of Release: the slot is freed whoever has it by now.
ReleaseAnyway(r) ==
  /\ slot' = None /\ host' = [host EXCEPT ![r] = None]
  /\ aborted' = aborted \ {r} /\ UNCHANGED attached

\* Its release undoes no more than its own claim.
Release(r) ==
  /\ slot' = IF slot = r THEN None ELSE slot
  /\ attached' = IF host[r] # None /\ attached[host[r]] = r
                 THEN [attached EXCEPT ![host[r]] = None] ELSE attached
  /\ host' = [host EXCEPT ![r] = None]
  /\ aborted' = aborted \ {r}

\* A message settles with those of its burst.
Settles(m, how) ==
  /\ pc' = [x \in Messages |-> IF x = m \/ carrier[x] = m THEN how ELSE pc[x]]
  /\ carrier' = [x \in Messages |-> IF carrier[x] = m THEN None ELSE carrier[x]]

-----------------------------------------------------------------------------
(* The tasks of the queue. *)

\* A task is skipped: its card says so, unless the tap that cancelled it did already.
Skip ==
  /\ busy = None /\ queue # <<>> /\ Head(queue) \in skip
  /\ queue' = Tail(queue) /\ skip' = skip \ {Head(queue)}
  /\ Settles(Head(queue), "skipped")
  /\ waitCard' = [waitCard EXCEPT ![Head(queue)] =
                    IF @ = "shown" /\ Head(queue) \notin early THEN "settled" ELSE @]
  /\ UNCHANGED <<mode, kind, burst, seen, busy, runs, tap, early, counters>>

NextTask ==
  /\ busy = None /\ queue # <<>> /\ Head(queue) \notin skip
  /\ busy' = Head(queue) /\ queue' = Tail(queue)
  /\ pc' = [pc EXCEPT ![Head(queue)] = "started"]
  /\ UNCHANGED <<intake, skip, runs, tap, cards, counters>>

\* activateRun, and the claims of commands, crons and card turns; the "queued" card goes.
\* A bus command claims a free slot only; the turn of a choice card first aborts an ordinary
\* run that has the slot.
Activate(m) ==
  /\ pc[m] = "started" /\ kind[m] # "goal"
  /\ pc' = [pc EXCEPT ![m] = "running"]
  /\ \/ Claim(m, FALSE) /\ UNCHANGED aborted
     \/ kind[m] = "command" /\ Claim(m, TRUE) /\ UNCHANGED aborted
     \/ kind[m] = "command" /\ Claim(m, FALSE) /\ Abort({r \in {slot} \ {None} : ~IsPursuit(r)})
  /\ waitCard' = [waitCard EXCEPT ![m] = IF @ = "shown" THEN "settled" ELSE @]
  /\ UNCHANGED <<intake, tasks, tap, early, counters>>

\* The task returns: the engine is done, or was told to stop, or the task never reached a
\* turn (a command, a denied sender).  A card still "queued" is settled.
Finish(m) ==
  /\ busy = m /\ pc[m] \in {"started", "running"} /\ kind[m] # "goal"
  /\ busy' = None /\ Settles(m, "done") /\ Release(m)
  /\ waitCard' = [waitCard EXCEPT ![m] = IF @ = "shown" THEN "settled" ELSE @]
  /\ UNCHANGED <<mode, kind, burst, seen, queue, skip, tap, early, counters>>

\* /goal: whatever has the slot is aborted, with a concurrent turn; the pursuit takes it and
\* goes on beside the queue.
Pursue(m) ==
  /\ busy = m /\ pc[m] = "started" /\ kind[m] = "goal" /\ busy' = None
  /\ Abort({slot, IF slot # None /\ IsPursuit(slot) THEN Concurrent(slot) ELSE None} \ {None})
  /\ slot' = m /\ pc' = [pc EXCEPT ![m] = "watching"]
  /\ waitCard' = [waitCard EXCEPT ![m] = IF @ = "shown" THEN "settled" ELSE @]
  /\ UNCHANGED <<intake, queue, skip, attached, host, tap, early, counters>>

\* /goal clear ends the pursuit, never the turn beside it.
ClearGoal(m) ==
  /\ busy = m /\ pc[m] = "started" /\ kind[m] = "command" /\ busy' = None
  /\ Abort({r \in {slot} \ {None} : IsPursuit(r)})
  /\ pc' = [pc EXCEPT ![m] = "done"]
  /\ waitCard' = [waitCard EXCEPT ![m] = IF @ = "shown" THEN "settled" ELSE @]
  /\ UNCHANGED <<intake, queue, skip, slot, attached, host, tap, early, counters>>

\* The watch of a pursuit returns: the turn beside it takes over the slot.
PursuitEnds(g) ==
  /\ pc[g] = "watching" /\ pc' = [pc EXCEPT ![g] = "done"]
  /\ slot' = IF slot = g THEN Concurrent(g) ELSE slot
  /\ aborted' = aborted \ {g}
  /\ UNCHANGED <<intake, tasks, attached, host, tap, cards, counters>>

-----------------------------------------------------------------------------
(* What happens beside the queue. *)

\* Mutant of DropBurst: the waiters are forgotten.
DropBurstSilently == burst' = <<>> /\ UNCHANGED pc

\* dropPendingLarkAttachmentBurst: the members of a parked burst settle at once.
DropBurst ==
  /\ burst' = <<>>
  /\ pc' = [m \in Messages |-> IF m \in Range(burst) THEN "dropped" ELSE pc[m]]

\* /stop, and the stop button of a run card.
Stop ==
  /\ touches < MaxTouches /\ touches' = touches + 1 /\ stops' = stops + 1
  /\ Abort(Reached(slot)) /\ DropBurst
  /\ UNCHANGED <<mode, kind, carrier, seen, tasks, slot, attached, host, tap, cards>>

\* A command tapped on a board card runs at once, outside the queue.
TapBoard(c) ==
  /\ touches < MaxTouches /\ touches' = touches + 1
  /\ tap[c] = "idle" /\ tap' = [tap EXCEPT ![c] = "running"] /\ Claim(c, TRUE)
  /\ UNCHANGED <<intake, pc, tasks, aborted, cards, stops>>

BoardEnds(c) ==
  /\ tap[c] = "running" /\ tap' = [tap EXCEPT ![c] = "over"] /\ Release(c)
  /\ UNCHANGED <<intake, pc, tasks, cards, counters>>

\* A task that waits for long gets a card with a cancel button...
NotifyWait(m) ==
  /\ pc[m] = "queued" /\ waitCard[m] = "none" /\ m \notin skip
  /\ Cardinality({x \in Messages : waitCard[x] # "none"}) < MaxWaitCards
  /\ waitCard' = [waitCard EXCEPT ![m] = "sending"]
  /\ UNCHANGED <<intake, pc, tasks, runs, tap, early, counters>>

\* Mutant of WaitNotified: the answer of the send is taken as it comes.
WaitNotifiedLate(m) ==
  /\ waitCard[m] = "sending" /\ waitCard' = [waitCard EXCEPT ![m] = "shown"]
  /\ UNCHANGED <<intake, pc, tasks, runs, tap, early, counters>>

\* ...which is settled when the task stopped waiting before the send was answered.
WaitNotified(m) ==
  /\ waitCard[m] = "sending"
  /\ waitCard' = [waitCard EXCEPT ![m] = IF pc[m] = "queued" THEN "shown" ELSE "settled"]
  /\ UNCHANGED <<intake, pc, tasks, runs, tap, early, counters>>

\* The cancel button: only this task is skipped, and its card says so.
CancelTask(m) ==
  /\ pc[m] = "queued" /\ waitCard[m] \in {"sending", "shown"}
  /\ skip' = skip \cup {m}
  /\ IF waitCard[m] = "shown"
     THEN waitCard' = [waitCard EXCEPT ![m] = "settled"] /\ UNCHANGED early
     ELSE early' = early \cup {m} /\ UNCHANGED waitCard
  /\ UNCHANGED <<intake, pc, queue, busy, runs, tap, counters>>

-----------------------------------------------------------------------------
\* What goes on by itself: no one has to stop, cancel or tap anything.
Work ==
  \/ WindowEnds \/ Skip \/ NextTask
  \/ \E m \in Messages :
       SteerReady(m) \/ SteerAnswered(m) \/ PreemptReady(m) \/ Activate(m) \/ Finish(m)
       \/ Pursue(m) \/ ClearGoal(m) \/ PursuitEnds(m) \/ WaitNotified(m)
  \/ \E c \in Cards : BoardEnds(c)

Next ==
  \/ Work \/ Stop
  \/ \E m \in Messages : Arrive(m) \/ NotifyWait(m) \/ CancelTask(m)
  \/ \E c \in Cards : TapBoard(c)

Spec == Init /\ [][Next]_vars

-----------------------------------------------------------------------------
Settled(m) == pc[m] \in {"done", "skipped", "dropped", "steered", "watching"}

TypeOK ==
  /\ mode \in Modes
  /\ pc \in [Messages -> {"new", "parked", "steering", "injecting", "preempting", "merged", "queued",
                          "started", "running", "watching", "done", "skipped", "dropped", "steered"}]
  /\ kind \in [Messages -> Kinds \cup {None}]
  /\ burst \in Seq(Messages) /\ queue \in Seq(Messages) /\ busy \in Messages \cup {None}
  /\ carrier \in [Messages -> Messages \cup {None}]
  /\ seen \in [Messages -> Runs \cup {None}] /\ slot \in Runs \cup {None}
  /\ skip \subseteq Range(queue)
  /\ attached \in [Messages -> Runs \cup {None}] /\ host \in [Runs -> Messages \cup {None}]
  /\ aborted \subseteq Runs /\ tap \in [Cards -> {"idle", "running", "over"}]
  /\ waitCard \in [Messages -> {"none", "sending", "shown", "settled"}]
  /\ early \subseteq Messages /\ touches \in 0..MaxTouches /\ stops \in 0..touches

NoTap == \A c \in Cards : tap[c] = "idle"
Reachable(r) == slot = r \/ (slot # None /\ IsPursuit(slot) /\ attached[slot] = r)

\* A stop reaches every turn and every pursuit that goes on, as long as no board card was
\* tapped: no claim takes the slot from a live run, and no stale release frees it.
StopReaches ==
  NoTap => \A m \in Messages : pc[m] \in {"running", "watching"} /\ Live(m) => Reachable(m)

\* A pursuit is ended by /goal clear, by the /goal that replaces it, and by a stop when no
\* ordinary turn runs beside it ("the pursuit survives"), as long as no board card was tapped.
PursuitSurvives ==
  [][NoTap => \A g \in aborted' \ aborted : IsPursuit(g) =>
       \/ \E m \in Messages : kind[m] = "command" /\ pc[m] = "started" /\ pc'[m] = "done"
       \/ slot' # g /\ pc'[slot'] = "watching"
       \/ \A m \in Messages : pc[m] = "running" => m \in aborted]_vars

\* /q and quoted replies do not run ahead of attachments sent before them, in the modes that
\* do not preempt.
BurstGoesFirst ==
  ~Preempts => \A a, m \in Messages :
     /\ a < m /\ kind[m] \in {"q", "quote"} /\ pc[m] \in {"started", "running"}
     /\ kind[a] = "attachment"
     => pc[a] \notin {"parked", "queued"} /\ (pc[a] = "merged" => pc[carrier[a]] # "queued")

\* A task that no longer waits has no card that says it does, unless its cancel button was
\* tapped before the send of the card was answered.
NoStaleWaitCard ==
  \A m \in Messages : waitCard[m] = "shown" => pc[m] \in {"queued", "started"} \/ m \in early

\* Every accepted message comes to an end: it is answered, steered, merged into a turn that
\* ends, skipped or dropped.  No work is done twice, so this is the same as: while a message
\* has not settled there is work to do.
NeverStuck == ENABLED Work \/ \A m \in Messages : pc[m] = "new" \/ Settled(m)

\* "/stop (or a stop button) while an ordinary turn runs alongside the pursuit stops that
\* ORDINARY turn; the pursuit survives."
StopSparesThePursuit ==
  [][\A g \in aborted' \ aborted :
       IsPursuit(g) /\ stops' # stops => \A m \in Messages : pc[m] = "running" => m \in aborted]_vars

=============================================================================
