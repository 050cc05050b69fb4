------------------------------- MODULE AppServer -------------------------------
(***************************************************************************)
(* The adapter of the Codex app-server                                     *)
(* (src/src/codex/app-server-adapter.ts) for one engine thread: the turns  *)
(* the bridge sends on it, the preventive compaction before a turn, and    *)
(* the pursuit of a /goal that runs beside the turns on the same thread,   *)
(* with the caller that watches it (src/src/lark/commands.ts).             *)
(*                                                                         *)
(* Requests reach the child in order and its lines come back in order; the *)
(* lines of an engine turn say whose they are, but the adapter learns the  *)
(* id of its own turn only from the answer to turn/start.  The engine is   *)
(* external: it may run the turns of a thread side by side.                *)
(***************************************************************************)
EXTENDS Naturals, Sequences, Functions

CONSTANTS
  N,           \* how many attempts of sendUserMessage (a retry in a new child is another
               \* one); a number is also the id of the engine turn that its attempt starts
  Pursuits,    \* calls of watchThreadGoal; also the id of the engine turns of its goal
  Compaction,  \* the id of the engine turn of a compaction
  None,
  MaxTroubles, MaxGoalTurns   \* bounds: aborts, drops, stops and deaths together; turns of goals

Turns == 1..N

ASSUME AppServerAssumption ==
  /\ N \in Nat
  /\ Turns \cap Pursuits = {} /\ Compaction \notin Turns \cup Pursuits
  /\ None \notin Turns \cup Pursuits \cup {Compaction}
  /\ MaxTroubles \in Nat /\ MaxGoalTurns \in Nat

VARIABLES
  pc,          \* turn -> where sendUserMessage is
  owner,       \* pendingTurns[thread]: the turn that owns the thread, or None
  tid,         \* turn -> PendingTurn.turnId
  cut,         \* turns with abortedBeforeTurnId
  held,        \* turn -> its pendingUnidentifiedLines
  from,        \* turn -> the engine turn whose completion settled it, or None
  aborted,     \* turns whose abort signal fired before startTurn listened
  loaded,      \* the thread is in loadedThreads
  full,        \* its context is past the compaction threshold
  compacting,  \* it is in pendingCompactions
  compactionId,       \* that entry's turnId
  settledCompactions, \* settledCompactionTurnIds
  pw,          \* pursuit -> where its watch is
  watcher,     \* goalWatchers[thread]
  resolved,    \* pursuits whose terminal promise is resolved
  stopped,     \* pursuits whose abort signal fired
  requests,    \* what the adapter wrote and the child has not read
  lines,       \* what the child wrote and the adapter has not read
  running,     \* engine turns in progress
  interrupted, \* those of them the child was told to interrupt
  goal,        \* the goal of the thread: None, or whose it is and whether it is terminal
  troubles, goalTurns,  \* counters
  died         \* history: the child has died

calls == <<pc, owner, tid, cut, held, from, aborted>>
thread == <<loaded, full, compacting, compactionId, settledCompactions>>
watch == <<pw, watcher, resolved, stopped>>
engine == <<running, interrupted, goal>>
counters == <<troubles, goalTurns, died>>
vars == <<calls, thread, watch, requests, lines, engine, counters>>

EngineTurns == Turns \cup Pursuits \cup {Compaction}
Request == [op : {"resume", "compact", "start", "interrupt", "clear", "set", "read"}, of : EngineTurns]
Line == [kind : {"resumed", "startAnswer", "started", "completed", "compacted",
                 "cleared", "set", "goalEnded", "read", "refused"}, of : EngineTurns]
Goals == [of : Pursuits, ended : BOOLEAN]

Ask(op, x) == requests' = Append(requests, [op |-> op, of |-> x])
Say(kind, x) == lines' = Append(lines, [kind |-> kind, of |-> x])

InFlight(t) == pc[t] \in {"resuming", "compacting", "started", "reading"}
Active(p) == pw[p] \notin {"idle", "over"}

\* pendingTurnsByTurnId: a turn is under its id from registerTurnId until it settles.
Named(k) == {t \in Turns : tid[t] = k /\ pc[t] \in {"started", "reading"}}

Init ==
  /\ pc = [t \in Turns |-> "idle"] /\ owner = None
  /\ tid = [t \in Turns |-> None] /\ cut = {} /\ held = [t \in Turns |-> <<>>]
  /\ from = [t \in Turns |-> None] /\ aborted = {}
  /\ loaded = FALSE /\ full = TRUE
  /\ compacting = FALSE /\ compactionId = None /\ settledCompactions = {}
  /\ pw = [p \in Pursuits |-> "idle"] /\ watcher = None /\ resolved = {} /\ stopped = {}
  /\ requests = <<>> /\ lines = <<>>
  /\ running = {} /\ interrupted = {} /\ goal = None
  /\ troubles = 0 /\ goalTurns = 0 /\ died = FALSE

-----------------------------------------------------------------------------
(* A turn: resume the thread, compact it when it is full, start. *)

\* startTurn: the turn takes the thread and asks for its start, unless its signal has fired.
StartTurn(t) ==
  IF t \in aborted
  THEN /\ pc' = [pc EXCEPT ![t] = "failed"] /\ loaded' = FALSE
       /\ UNCHANGED <<owner, requests>>
  ELSE /\ pc' = [pc EXCEPT ![t] = "started"] /\ owner' = t /\ loaded' = TRUE
       /\ Ask("start", t)

\* prepareThreadForTurn: never compact under a pursuit.  Its turn waits for a compaction, so
\* no other turn of the thread ever joins one in flight.
Prepare(t) ==
  IF watcher = None /\ full
  THEN /\ pc' = [pc EXCEPT ![t] = "compacting"] /\ loaded' = TRUE
       /\ compacting' = TRUE /\ Ask("compact", Compaction) /\ UNCHANGED owner
  ELSE StartTurn(t) /\ UNCHANGED compacting

\* sendUserMessage: a thread has one turn at a time (reserve), and a thread whose
\* compaction failed has been left for a fresh one.
Send(t) ==
  /\ pc[t] = "idle" /\ \A other \in Turns : ~InFlight(other) /\ pc[other] # "elsewhere"
  /\ \A other \in 1..(t - 1) : pc[other] # "idle"
  /\ IF loaded
     THEN Prepare(t)
     ELSE /\ pc' = [pc EXCEPT ![t] = "resuming"] /\ Ask("resume", t)
          /\ UNCHANGED <<owner, loaded, compacting>>
  /\ UNCHANGED <<tid, cut, held, from, aborted, full, compactionId, settledCompactions,
                 watch, lines, engine, counters>>

\* abortTurn: /stop, the turn timeout and the inactivity timeout.  The turn is rejected at
\* once; an engine turn whose id is not known yet is interrupted when the id arrives.
Abort(t) ==
  /\ troubles < MaxTroubles /\ troubles' = troubles + 1
  /\ \/ /\ pc[t] \in {"resuming", "compacting"} /\ t \notin aborted /\ aborted' = aborted \cup {t}
        /\ UNCHANGED <<pc, owner, cut, held, loaded, requests>>
     \/ /\ pc[t] \in {"started", "reading"}
        /\ pc' = [pc EXCEPT ![t] = "failed"]
        /\ owner' = IF owner = t THEN None ELSE owner
        /\ loaded' = FALSE
        /\ held' = [held EXCEPT ![t] = <<>>]
        /\ IF tid[t] = None
           THEN cut' = cut \cup {t} /\ UNCHANGED requests
           ELSE Ask("interrupt", tid[t]) /\ UNCHANGED cut
        /\ UNCHANGED aborted
  /\ UNCHANGED <<tid, from, full, compacting, compactionId, settledCompactions,
                 watch, lines, engine, goalTurns, died>>

\* failPendingTurn: the turn that owns the thread is rejected and evicted, and its engine turn
\* is not interrupted, neither now nor when the answer to turn/start comes.
Drop ==
  /\ owner # None /\ troubles < MaxTroubles /\ troubles' = troubles + 1
  /\ pc' = [pc EXCEPT ![owner] = "dropped"] /\ owner' = None /\ loaded' = FALSE
  /\ held' = [held EXCEPT ![owner] = <<>>]
  /\ UNCHANGED <<tid, cut, from, aborted, full, compacting, compactionId, settledCompactions,
                 watch, requests, engine, goalTurns, died>>

\* handleServerRequest: a request the adapter does not know names the thread.
Unsupported == Drop /\ UNCHANGED lines

-----------------------------------------------------------------------------
(* The watch of a goal: clear the old goal, set the new one, wait for a terminal status
   or the abort signal; then the caller clears the goal it watched. *)

Register(p) == /\ watcher' = p /\ pw' = [pw EXCEPT ![p] = "clearing"] /\ Ask("clear", p)

\* /goal: a pursuit that holds the conversation is aborted and replaced.
Watch(p) ==
  /\ pw[p] = "idle"
  /\ stopped' = stopped \cup {q \in Pursuits : Active(q)}
  /\ IF loaded
     THEN Register(p)
     ELSE pw' = [pw EXCEPT ![p] = "resuming"] /\ Ask("resume", p) /\ UNCHANGED watcher
  /\ UNCHANGED <<resolved, calls, thread, lines, engine, counters>>

\* /stop with nothing else running, or /goal clear.
Stop(p) ==
  /\ Active(p) /\ p \notin stopped /\ troubles < MaxTroubles
  /\ troubles' = troubles + 1 /\ stopped' = stopped \cup {p}
  /\ UNCHANGED <<pw, watcher, resolved, calls, thread, requests, lines, engine, goalTurns, died>>

\* Mutant: the poll waits for the goal to be gone.
PollForNoGoal(p) ==
  /\ pw[p] = "waiting" /\ p \notin resolved /\ goal = None /\ resolved' = resolved \cup {p}
  /\ UNCHANGED <<pw, watcher, stopped, calls, thread, requests, lines, engine, counters>>

\* The poll reads the goal of the thread every 30 seconds.
Poll(p) ==
  /\ pw[p] = "waiting" /\ p \notin resolved
  /\ goal # None /\ goal.ended
  /\ resolved' = resolved \cup {p}
  /\ UNCHANGED <<pw, watcher, stopped, calls, thread, requests, lines, engine, counters>>

\* The watch returns: its finally drops the watcher of the thread, and the caller clears the goal.
WatchReturns(p) ==
  /\ pw[p] = "waiting" /\ p \in resolved \cup stopped
  /\ watcher' = None
  /\ IF loaded
     THEN pw' = [pw EXCEPT ![p] = "forgetting"] /\ Ask("clear", p)
     ELSE pw' = [pw EXCEPT ![p] = "leaving"] /\ Ask("resume", p)
  /\ UNCHANGED <<resolved, stopped, calls, thread, lines, engine, counters>>

-----------------------------------------------------------------------------
(* The lines of the child. *)

\* bufferUnidentifiedTurnLine: beside a pursuit, the lines of an unknown engine turn wait
\* until the turn that owns the thread knows its own id.
Holds(k) == /\ watcher # None /\ owner # None /\ tid[owner] = None /\ Named(k) = {}

\* matchPendingTurn: an unknown id is adopted by a turn that has none, unless it is that
\* of a compaction or a pursuit shares the thread.
Adoptable(k) == /\ owner # None /\ tid[owner] = None /\ watcher = None /\ k \notin settledCompactions
Matched(k) == IF Named(k) # {} THEN Named(k) ELSE IF Adoptable(k) THEN {owner} ELSE {}

\* turn/completed of engine turn k settles turn t, after a thread/read when it said nothing.
Completes(t, k) ==
  /\ owner' = IF owner = t THEN None ELSE owner
  /\ from' = [from EXCEPT ![t] = k]
  /\ \/ pc' = [pc EXCEPT ![t] = "answered"] /\ UNCHANGED requests
     \/ pc' = [pc EXCEPT ![t] = "reading"] /\ Ask("read", t)

\* Mutant: the held lines are dropped.
RegistersWithoutReplay(t, k) ==
  /\ tid' = [tid EXCEPT ![t] = k] /\ held' = [held EXCEPT ![t] = <<>>]
  /\ UNCHANGED <<owner, from, pc, requests>>

\* registerTurnId replays the held lines of the turn's own id and drops the others.
Registers(t, k) ==
  /\ tid' = [tid EXCEPT ![t] = k] /\ held' = [held EXCEPT ![t] = <<>>]
  /\ IF [kind |-> "completed", of |-> k] \in Range(held[t])
     THEN Completes(t, k)
     ELSE UNCHANGED <<owner, from, pc, requests>>

\* settleCompaction: the turn that waits for it starts.
CompactionSettles ==
  /\ compacting' = FALSE /\ compactionId' = None /\ full' = FALSE
  /\ settledCompactions' = settledCompactions \cup ({compactionId} \ {None})
  /\ \E t \in Turns : pc[t] = "compacting" /\ StartTurn(t)

Arrived(kind) == lines # <<>> /\ Head(lines).kind = kind /\ lines' = Tail(lines)
X == Head(lines).of

Hold ==
  /\ \E kind \in {"started", "completed"} : Arrived(kind)
  /\ Holds(X) /\ held' = [held EXCEPT ![owner] = Append(@, Head(lines))]
  /\ UNCHANGED <<pc, owner, tid, cut, from, aborted, thread, watch, requests, engine, counters>>

\* The lines held, those the model leaves out among them, are too many.
Overflow == (\E kind \in {"started", "completed"} : Arrived(kind)) /\ Holds(X) /\ Drop

\* thread/resume was answered: the turn or the watch that asked goes on.
Resumed ==
  /\ Arrived("resumed")
  /\ IF X \in Turns
     THEN Prepare(X) /\ UNCHANGED <<pw, watcher>>
     ELSE /\ loaded' = TRUE
          /\ IF pw[X] = "resuming"
             THEN Register(X)
             ELSE pw' = [pw EXCEPT ![X] = "forgetting"] /\ Ask("clear", X) /\ UNCHANGED watcher
          /\ UNCHANGED <<pc, owner, compacting>>
  /\ UNCHANGED <<tid, cut, held, from, aborted, full, compactionId, settledCompactions,
                 resolved, stopped, engine, counters>>

\* Mutant: the answer for a turn given up is ignored.
StartAnsweredIfTracked ==
  /\ Arrived("startAnswer")
  /\ IF pc[X] \in {"started", "reading"} /\ tid[X] = None
     THEN Registers(X, X)
     ELSE UNCHANGED <<pc, owner, tid, held, from, requests>>
  /\ UNCHANGED <<cut, aborted, thread, watch, engine, counters>>

\* The answer to turn/start carries the id; a turn aborted before it is interrupted now, a
\* dropped one is not.
StartAnswered ==
  /\ Arrived("startAnswer")
  /\ \/ /\ pc[X] \in {"started", "reading"} /\ tid[X] = None
        /\ Registers(X, X) /\ UNCHANGED cut
     \/ /\ pc[X] = "failed" /\ X \in cut /\ cut' = cut \ {X}
        /\ Ask("interrupt", X) /\ UNCHANGED <<pc, owner, tid, held, from>>
     \/ /\ (pc[X] \in {"started", "reading"} => tid[X] # None) /\ X \notin cut
        /\ UNCHANGED <<pc, owner, tid, held, from, cut, requests>>
  /\ UNCHANGED <<aborted, thread, watch, engine, counters>>

\* turn/started names the turn that owns the thread, or the compaction.
Started ==
  /\ Arrived("started") /\ ~Holds(X)
  /\ \/ /\ Adoptable(X) /\ Registers(owner, X) /\ UNCHANGED <<compactionId, settledCompactions>>
     \/ /\ owner = None /\ compacting /\ compactionId = None /\ compactionId' = X
        /\ settledCompactions' = settledCompactions \cup {X}
        /\ UNCHANGED <<pc, owner, tid, held, from, requests>>
     \/ /\ ~Adoptable(X) /\ ~(owner = None /\ compacting /\ compactionId = None)
        /\ UNCHANGED <<pc, owner, tid, held, from, requests, compactionId, settledCompactions>>
  /\ UNCHANGED <<cut, aborted, loaded, full, compacting, watch, engine, counters>>

\* turn/completed settles the compaction or the turn it belongs to, if any.
Completed ==
  /\ Arrived("completed") /\ ~Holds(X)
  /\ \/ /\ compacting /\ owner = None /\ compactionId \in {None, X}
        /\ CompactionSettles /\ UNCHANGED <<tid, held, from>>
     \/ /\ ~(compacting /\ owner = None /\ compactionId \in {None, X})
        /\ \E t \in Matched(X) :
             /\ tid' = [tid EXCEPT ![t] = X] /\ held' = [held EXCEPT ![t] = <<>>]
             /\ Completes(t, X)
        /\ UNCHANGED thread
     \/ /\ ~(compacting /\ owner = None /\ compactionId \in {None, X}) /\ Matched(X) = {}
        /\ UNCHANGED <<pc, owner, tid, held, from, requests, thread>>
  /\ UNCHANGED <<cut, aborted, watch, engine, counters>>

Compacted ==
  /\ Arrived("compacted")
  /\ IF compacting /\ compactionId \in {None, X}
     THEN CompactionSettles
     ELSE UNCHANGED <<pc, owner, requests, thread>>
  /\ UNCHANGED <<tid, cut, held, from, aborted, watch, engine, counters>>

\* thread/goal/clear was answered: a new watch sets its goal; the caller's own clear ends
\* whatever watch the thread has.
Cleared ==
  /\ Arrived("cleared")
  /\ IF pw[X] = "clearing"
     THEN pw' = [pw EXCEPT ![X] = "setting"] /\ Ask("set", X) /\ UNCHANGED resolved
     ELSE /\ pw' = [pw EXCEPT ![X] = "over"] /\ UNCHANGED requests
          /\ resolved' = resolved \cup ({watcher} \ {None})
  /\ UNCHANGED <<watcher, stopped, calls, thread, engine, counters>>

Set ==
  /\ Arrived("set") /\ pw' = [pw EXCEPT ![X] = "waiting"]
  /\ UNCHANGED <<watcher, resolved, stopped, calls, thread, requests, engine, counters>>

\* thread/goal/updated with a terminal status.
GoalEnded ==
  /\ Arrived("goalEnded") /\ resolved' = resolved \cup ({watcher} \ {None})
  /\ UNCHANGED <<pw, watcher, stopped, calls, thread, requests, engine, counters>>

Read ==
  /\ Arrived("read")
  /\ IF pc[X] = "reading"
     THEN pc' = [pc EXCEPT ![X] = "answered"]
     ELSE UNCHANGED pc
  /\ UNCHANGED <<owner, tid, cut, held, from, aborted, thread, watch, requests, engine, counters>>

\* turn/start failed, as with an active-writer conflict.
StartRefused ==
  /\ Arrived("refused")
  /\ IF owner = X
     THEN /\ pc' = [pc EXCEPT ![X] = "failed"] /\ owner' = None /\ loaded' = FALSE
          /\ held' = [held EXCEPT ![X] = <<>>]
     ELSE UNCHANGED <<pc, owner, loaded, held>>
  /\ UNCHANGED <<tid, cut, from, aborted, full, compacting, compactionId, settledCompactions,
                 watch, requests, engine, counters>>

Receive == Hold \/ Overflow \/ StartRefused \/ Resumed \/ StartAnswered \/ Started \/ Completed \/ Compacted
           \/ Cleared \/ Set \/ GoalEnded \/ Read

\* The compaction is refused or times out: the turn that waits goes on in a fresh thread.
CompactionFails ==
  /\ compacting /\ compacting' = FALSE /\ compactionId' = None
  /\ settledCompactions' = settledCompactions \cup ({compactionId} \ {None})
  /\ full' = FALSE /\ loaded' = FALSE
  /\ pc' = [t \in Turns |-> IF pc[t] = "compacting" THEN "elsewhere" ELSE pc[t]]
  /\ UNCHANGED <<owner, tid, cut, held, from, aborted, watch, requests, lines, engine, counters>>

-----------------------------------------------------------------------------
(* The child. *)

\* It reads a request.  A turn may say that it started, and even that it completed, before
\* its turn/start is answered; a start may be refused while the thread has another writer.
Serve ==
  /\ requests # <<>> /\ requests' = Tail(requests)
  /\ LET op == Head(requests).op
         x == Head(requests).of
     IN \/ /\ op = "resume" /\ Say("resumed", x) /\ UNCHANGED engine
        \/ /\ op = "compact" /\ Say("started", x)
           /\ running' = running \cup {x} /\ UNCHANGED <<interrupted, goal>>
        \/ /\ op = "start"
           /\ LET answer == <<[kind |-> "startAnswer", of |-> x]>>
                  notice == <<[kind |-> "started", of |-> x]>>
                  end == <<[kind |-> "completed", of |-> x]>>
              IN \/ /\ running' = running \cup {x}
                    /\ lines' \in {lines \o answer \o notice, lines \o notice \o answer}
                 \/ lines' = lines \o notice \o end \o answer /\ UNCHANGED running
           /\ UNCHANGED <<interrupted, goal>>
        \/ /\ op = "start" /\ running # {} /\ Say("refused", x) /\ UNCHANGED engine
        \/ /\ op = "interrupt" /\ interrupted' = interrupted \cup ({x} \cap running)
           /\ UNCHANGED <<running, goal, lines>>
        \/ /\ op = "clear" /\ goal' = None /\ Say("cleared", x)
           /\ UNCHANGED <<running, interrupted>>
        \/ /\ op = "set" /\ goal' = [of |-> x, ended |-> FALSE] /\ Say("set", x)
           /\ UNCHANGED <<running, interrupted>>
        \/ /\ op = "read" /\ Say("read", x) /\ UNCHANGED engine
  /\ UNCHANGED <<calls, thread, watch, counters>>

\* An engine turn ends by itself or because it was interrupted.
Finish(k) ==
  /\ k \in running /\ running' = running \ {k} /\ interrupted' = interrupted \ {k}
  /\ IF k = Compaction
     THEN lines' = lines \o <<[kind |-> "compacted", of |-> k], [kind |-> "completed", of |-> k]>>
     ELSE Say("completed", k)
  /\ UNCHANGED <<calls, thread, watch, requests, goal, counters>>

\* The engine pursues the goal by turns of its own...
GoalTurn ==
  /\ goal # None /\ ~goal.ended /\ goal.of \notin running /\ goalTurns < MaxGoalTurns
  /\ goalTurns' = goalTurns + 1 /\ running' = running \cup {goal.of} /\ Say("started", goal.of)
  /\ UNCHANGED <<calls, thread, watch, requests, interrupted, goal, troubles, died>>

\* ...until it is complete or out of budget; the notice of it may be missed.
GoalEnds ==
  /\ goal # None /\ ~goal.ended /\ goal' = [goal EXCEPT !.ended = TRUE]
  /\ Say("goalEnded", goal.of) \/ UNCHANGED lines
  /\ UNCHANGED <<calls, thread, watch, requests, running, interrupted, counters>>

\* The child exits, or is destroyed by a request that timed out: failAllPending and resetChildState.
\* The lines of a retired child are ignored.
ChildDies ==
  /\ troubles < MaxTroubles /\ troubles' = troubles + 1 /\ died' = TRUE
  /\ pc' = [t \in Turns |-> IF InFlight(t) THEN "failed" ELSE pc[t]]
  /\ owner' = None /\ cut' = {} /\ held' = [t \in Turns |-> <<>>]
  /\ loaded' = FALSE /\ full' = FALSE
  /\ compacting' = FALSE /\ compactionId' = None /\ settledCompactions' = {}
  /\ pw' = [p \in Pursuits |-> IF Active(p) /\ pw[p] # "waiting" THEN "over" ELSE pw[p]]
  /\ watcher' = None /\ resolved' = resolved \cup ({watcher} \ {None})
  /\ requests' = <<>> /\ lines' = <<>> /\ running' = {} /\ interrupted' = {}
  /\ UNCHANGED <<tid, from, aborted, stopped, goal, goalTurns>>

-----------------------------------------------------------------------------
Next ==
  \/ \E t \in Turns : Send(t) \/ Abort(t)
  \/ \E p \in Pursuits : Watch(p) \/ Stop(p) \/ Poll(p) \/ WatchReturns(p)
  \/ Receive \/ Unsupported \/ CompactionFails
  \/ Serve \/ \E k \in EngineTurns : Finish(k)
  \/ GoalTurn \/ GoalEnds \/ ChildDies

Spec == Init /\ [][Next]_vars

\* The event loop runs, the child answers, its turns and its goal end, the poll ticks and
\* the compaction timer fires.  Nothing makes a turn's own timers fire, a user stop it or
\* the adapter drop it.
Fairness ==
  /\ WF_vars(Receive) /\ WF_vars(Serve) /\ WF_vars(CompactionFails) /\ WF_vars(GoalEnds)
  /\ \A k \in EngineTurns : WF_vars(Finish(k))
  /\ \A p \in Pursuits : WF_vars(Poll(p)) /\ WF_vars(WatchReturns(p))
FairSpec == Spec /\ Fairness

-----------------------------------------------------------------------------
TypeOK ==
  /\ pc \in [Turns -> {"idle", "resuming", "compacting", "started", "reading", "answered", "failed",
                   "dropped", "elsewhere"}]
  /\ owner \in Turns \cup {None} /\ tid \in [Turns -> EngineTurns \cup {None}]
  /\ cut \subseteq Turns /\ aborted \subseteq Turns
  /\ \A t \in Turns : held[t] \in Seq(Line)
  /\ from \in [Turns -> EngineTurns \cup {None}]
  /\ {loaded, full, compacting} \subseteq BOOLEAN
  /\ compactionId \in EngineTurns \cup {None} /\ settledCompactions \subseteq EngineTurns
  /\ pw \in [Pursuits -> {"idle", "resuming", "clearing", "setting", "waiting", "leaving", "forgetting", "over"}]
  /\ watcher \in Pursuits \cup {None} /\ resolved \subseteq Pursuits /\ stopped \subseteq Pursuits
  /\ requests \in Seq(Request) /\ lines \in Seq(Line)
  /\ running \subseteq EngineTurns /\ interrupted \subseteq running
  /\ goal \in Goals \cup {None}

\* The turn/completed of a compaction that settled early never answers the turn that waited
\* for it (settledCompactionTurnIds), unless the late completion of a turn given up before, or
\* of a pursuit's turn, was taken for that of the compaction.
CompactionKeptApart ==
  troubles = 0 /\ goalTurns = 0 => \A t \in Turns : from[t] # Compaction

\* A turn aborted under its own id, or before it had one, or refused, does not keep the writer
\* of the thread: its engine turn is interrupted, or the interrupt is on its way, or the answer
\* to turn/start that will send it is.  A turn failPendingTurn dropped may: nothing interrupts it.
NoLeakedWriter ==
  \A t \in Turns : pc[t] = "failed" /\ t \in running /\ tid[t] \in {None, t} =>
     \/ t \in interrupted
     \/ [op |-> "interrupt", of |-> t] \in Range(requests)
     \/ t \in cut /\ [kind |-> "startAnswer", of |-> t] \in Range(lines)

\* When every pursuit is over no goal is left set in the engine to shape later messages,
\* unless the child died under it.
GoalForgotten == (\A p \in Pursuits : ~Active(p)) /\ ~died => goal = None

\* A turn the engine finishes is settled without waiting for its timeout: no completion is
\* dropped for coming early, late, or beside a pursuit or a compaction.
EveryTurnSettles == (\E t \in Turns : InFlight(t)) ~> (\A t \in Turns : ~InFlight(t))

\* A watch ends once its goal is terminal, stopped or cleared ("so the watch always resolves").
WatchResolves == \A p \in Pursuits : pw[p] # "idle" ~> pw[p] = "over"

=============================================================================
