------------------------------- MODULE ChatQueue -------------------------------
(***************************************************************************)
(* The per-conversation queue of src/src/runtime/chat-queue.ts, and the    *)
(* turns the bridge puts into it: a turn of one conversation may run       *)
(* another bridge turn in a second conversation and wait for it            *)
(* (runQueuedBridgeTurn in src/src/service.ts).                            *)
(*                                                                         *)
(* The queue is a chain of promises: a task starts when the one that was   *)
(* last when it was enqueued has settled.  The callbacks of a settled      *)
(* promise, the start of the next task and the cleanup, are steps of their *)
(* own.                                                                    *)
(***************************************************************************)
EXTENDS Naturals, FiniteSets

CONSTANTS
  Conversations,  \* conversation keys
  Turns,          \* tasks of incoming messages
  Nested,         \* tasks of runQueuedBridgeTurn: turns that call no further one
  Named,          \* tasks enqueued with a taskId
  None,           \* no task, no conversation
  RefusesBusy,    \* a nested turn is refused while its conversation is busy: the
                  \* Telegram bridge asks isBusy, the Lark bridge just enqueues
  MaxClears       \* bound: calls of clearPending

Tasks == Turns \cup Nested

ASSUME QueueAssumption ==
  /\ Turns \cap Nested = {} /\ Named \subseteq Tasks
  /\ None \notin Tasks \cup Conversations /\ MaxClears \in Nat
  /\ RefusesBusy \in BOOLEAN

VARIABLES
  at,             \* task -> "new", "pending", "running", "calling", "skipping", "settled", "done"
  of,             \* task -> its conversation, or None
  previous,       \* task -> the task it is chained behind, or None
  generation,     \* task -> the generation it was enqueued in
  caller,         \* nested task -> the turn that waits for it, or None
  queues,         \* conversation -> the last task of its chain, or None
  generations,    \* conversation -> its generation
  pendingCounts,  \* conversation -> tasks that have not started
  pendingTaskIds, cancelledTaskIds,   \* conversation -> named tasks
  clears,
  dropped         \* history: tasks cleared or cancelled before they started

vars == <<at, of, previous, generation, caller, queues, generations, pendingCounts,
          pendingTaskIds, cancelledTaskIds, clears, dropped>>
chain == <<of, previous, generation, caller>>

States == {"new", "pending", "running", "calling", "skipping", "settled", "done"}
Settled(t) == at[t] \in {"settled", "done"}
Pending(c) == {t \in Tasks : of[t] = c /\ at[t] = "pending"}
Goto(t, state) == at' = [at EXCEPT ![t] = state]

-----------------------------------------------------------------------------
\* Task t joins conversation c; x waits for it.
Join(t, c, x) ==
  /\ of' = [of EXCEPT ![t] = c]
  /\ previous' = [previous EXCEPT ![t] = queues[c]]
  /\ generation' = [generation EXCEPT ![t] = generations[c]]
  /\ caller' = [caller EXCEPT ![t] = x]
  /\ queues' = [queues EXCEPT ![c] = t]
  /\ pendingCounts' = [pendingCounts EXCEPT ![c] = @ + 1]
  /\ pendingTaskIds' = [pendingTaskIds EXCEPT ![c] = @ \cup ({t} \cap Named)]
  /\ UNCHANGED <<generations, cancelledTaskIds, clears, dropped>>

Enqueue(t, c) ==
  /\ t \in Turns /\ at[t] = "new"
  /\ Goto(t, "pending")
  /\ Join(t, c, None)

\* Mutant of Consume: a task that runs can still be cancelled as if it waited.
ConsumeKeepingId(t) ==
  /\ pendingCounts' = [pendingCounts EXCEPT ![of[t]] = @ - 1]
  /\ UNCHANGED <<pendingTaskIds, cancelledTaskIds>>

\* A task leaves the pending ones as it starts.
Consume(t) ==
  LET c == of[t] IN
  /\ pendingCounts' = [pendingCounts EXCEPT ![c] = @ - 1]
  /\ pendingTaskIds' = [pendingTaskIds EXCEPT ![c] = @ \ {t}]
  /\ cancelledTaskIds' = [cancelledTaskIds EXCEPT ![c] = @ \ {t}]

\* A task that was cancelled, or enqueued before a clear, is skipped.
Start(t) ==
  /\ at[t] = "pending"
  /\ previous[t] # None => Settled(previous[t])
  /\ Goto(t, IF \/ t \in cancelledTaskIds[of[t]]
                \/ generations[of[t]] # generation[t]
             THEN "skipping" ELSE "running")
  /\ Consume(t)
  /\ UNCHANGED <<chain, queues, generations, clears, dropped>>

\* A turn that asked several conversations at once goes on when all have answered.
LastCallOf(t) == \A u \in Tasks \ {t} : caller[u] = caller[t] => Settled(u)

\* The job, or onSkipped, ends; a turn that waits for it goes on.
Settle(t) ==
  /\ at[t] \in {"running", "skipping"}
  /\ at' = [u \in Tasks |-> IF u = t THEN "settled"
                            ELSE IF u = caller[t] /\ LastCallOf(t) THEN "running" ELSE at[u]]
  /\ UNCHANGED <<chain, queues, generations, pendingCounts, pendingTaskIds, cancelledTaskIds,
                 clears, dropped>>

\* Mutant of Cleanup: any task that settles takes the queue down.
CleanupAnyRun(t) ==
  /\ at[t] = "settled"
  /\ Goto(t, "done")
  /\ queues' = [queues EXCEPT ![of[t]] = None]
  /\ generations' = [generations EXCEPT ![of[t]] = 0]
  /\ cancelledTaskIds' = [cancelledTaskIds EXCEPT ![of[t]] = {}]
  /\ UNCHANGED <<chain, pendingCounts, pendingTaskIds, clears, dropped>>

\* The last task of the chain takes the conversation's entries with it.
Cleanup(t) ==
  LET c == of[t]
      last == queues[c] = t
      idle == last /\ pendingCounts[c] = 0
  IN
  /\ at[t] = "settled"
  /\ Goto(t, "done")
  /\ queues' = [queues EXCEPT ![c] = IF last THEN None ELSE @]
  /\ generations' = [generations EXCEPT ![c] = IF idle THEN 0 ELSE @]
  /\ cancelledTaskIds' = [cancelledTaskIds EXCEPT ![c] = IF idle THEN {} ELSE @]
  /\ UNCHANGED <<chain, pendingCounts, pendingTaskIds, clears, dropped>>

-----------------------------------------------------------------------------
\* clearPending of /stop
Clear(c) ==
  /\ clears < MaxClears
  /\ pendingCounts[c] > 0
  /\ generations' = [generations EXCEPT ![c] = @ + 1]
  /\ clears' = clears + 1
  /\ dropped' = dropped \cup Pending(c)
  /\ UNCHANGED <<at, chain, queues, pendingCounts, pendingTaskIds, cancelledTaskIds>>

\* cancel from a card's button
Cancel(t, c) ==
  /\ t \in pendingTaskIds[c] \ cancelledTaskIds[c]
  /\ cancelledTaskIds' = [cancelledTaskIds EXCEPT ![c] = @ \cup {t}]
  /\ dropped' = dropped \cup {t}
  /\ UNCHANGED <<at, chain, queues, generations, pendingCounts, pendingTaskIds, clears>>

\* Mutant of Call: the turn waits in line.
CallWaitingInLine(t, n, c) ==
  /\ t \in Turns /\ at[t] \in {"running", "calling"}
  /\ n \in Nested /\ at[n] = "new" /\ c # of[t]
  /\ at' = [at EXCEPT ![t] = "calling", ![n] = "pending"]
  /\ Join(n, c, t)

\* runQueuedBridgeTurn: `/mini ask` and `chain` call one turn after another,
\* `/mini fan` several at once; the current topic is answered in place.
Call(t, n, c) ==
  /\ t \in Turns /\ at[t] \in {"running", "calling"}
  /\ n \in Nested /\ at[n] = "new" /\ c # of[t]
  /\ RefusesBusy => queues[c] = None
  /\ at' = [at EXCEPT ![t] = "calling", ![n] = "pending"]
  /\ Join(n, c, t)

-----------------------------------------------------------------------------
Init ==
  /\ at = [t \in Tasks |-> "new"]
  /\ of = [t \in Tasks |-> None] /\ previous = of /\ caller = of
  /\ generation = [t \in Tasks |-> 0]
  /\ queues = [c \in Conversations |-> None]
  /\ generations = [c \in Conversations |-> 0] /\ pendingCounts = generations
  /\ pendingTaskIds = [c \in Conversations |-> {}] /\ cancelledTaskIds = pendingTaskIds
  /\ clears = 0 /\ dropped = {}

Next ==
  \/ \E t \in Tasks : Start(t) \/ Settle(t) \/ Cleanup(t)
  \/ \E c \in Conversations :
       \/ Clear(c)
       \/ \E t \in Tasks : Enqueue(t, c) \/ Cancel(t, c)
       \/ \E t \in Turns, n \in Nested : Call(t, n, c)

\* Callbacks run; a turn ends or is aborted by its timeout.
Fairness == \A t \in Tasks : WF_vars(Start(t)) /\ WF_vars(Settle(t)) /\ WF_vars(Cleanup(t))

Spec == Init /\ [][Next]_vars
FairSpec == Spec /\ Fairness

-----------------------------------------------------------------------------
\* Types; and pendingCount is the number of tasks that wait.
TypeOK ==
  /\ at \in [Tasks -> States]
  /\ of \in [Tasks -> Conversations \cup {None}]
  /\ previous \in [Tasks -> Tasks \cup {None}]
  /\ generation \in [Tasks -> 0..MaxClears]
  /\ caller \in [Tasks -> Turns \cup {None}]
  /\ queues \in [Conversations -> Tasks \cup {None}]
  /\ generations \in [Conversations -> 0..MaxClears]
  /\ pendingCounts \in [Conversations -> Nat]
  /\ pendingTaskIds \in [Conversations -> SUBSET Named]
  /\ cancelledTaskIds \in [Conversations -> SUBSET Named]
  /\ clears \in 0..MaxClears /\ dropped \subseteq Tasks
  /\ \A c \in Conversations : pendingCounts[c] = Cardinality(Pending(c))

\* A conversation runs one task at a time, also across the moment in which its
\* queue is taken down and a new message starts another.
Serial ==
  \A t, u \in Tasks :
    {at[t], at[u]} \subseteq {"running", "calling", "skipping"} /\ of[t] = of[u] => t = u

\* A stop or a cancel that said it caught a waiting task did: the task never
\* runs; and no other task is ever skipped, not one enqueued after the stop.
SkipsExactlyTheDropped ==
  \A t \in Tasks : /\ at[t] = "skipping" => t \in dropped
                   /\ at[t] \in {"running", "calling"} => t \notin dropped

\* Every task that was enqueued settles: turns of two conversations that call
\* into each other never wait for one another for ever.  (Tasks are enqueued
\* once: whoever is never settled keeps the bridge from coming to rest.)
EverySettles == []<>(\A t \in Tasks : at[t] = "new" \/ Settled(t))
=============================================================================
