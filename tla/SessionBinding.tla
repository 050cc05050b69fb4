----------------------------- MODULE SessionBinding -----------------------------
(***************************************************************************)
(* Which engine thread a conversation is bound to, and the turns that      *)
(* resolve, use and rebind it (src/src/runtime/bridge.ts,                  *)
(* session-manager.ts, turn-lock.ts, turn-pool.ts and                      *)
(* src/src/state/session-store.ts), in the Telegram bridge: messages and   *)
(* commands of a conversation go through its queue, scheduled turns do     *)
(* not.  A turn takes the lock of its conversation, then that of its       *)
(* session, then a lease of the pool all bridge processes of the host      *)
(* share.  Locks and leases are files: they outlive a process that dies.   *)
(***************************************************************************)
EXTENDS Naturals, FiniteSets

CONSTANTS
  Processes,      \* bridge processes of the host, one per instance
  Conversations,  \* conversation keys
  Home,           \* conversation -> the process that serves it
  Turns,          \* turns of messages and of scheduled jobs
  Lane,           \* turn -> its conversation
  Aside,          \* turns of scheduled jobs: the cron executor calls the bridge itself
  Threads,        \* engine threads
  Local,          \* those of them made outside the bridge, which a user may resume
  MaxActive,      \* process -> its maxActive (TAROCUB_MAX_CONCURRENT_TURNS)
  None,           \* no thread, no record, nobody
  MaxCommands, MaxTroubles  \* bounds: commands; crashes, lost releases, dropped leases

ASSUME BindingAssumption ==
  /\ Processes # {} /\ IsFiniteSet(Turns)
  /\ Home \in [Conversations -> Processes] /\ Lane \in [Turns -> Conversations]
  /\ Aside \subseteq Turns
  /\ Local \subseteq Threads /\ Threads \cap Conversations = {}
  /\ None \notin Threads \cup Conversations \cup Turns
  /\ MaxActive \in [Processes -> Nat \ {0}]
  /\ MaxCommands \in Nat /\ MaxTroubles \in Nat

VARIABLES
  records,        \* session.json: conversation -> its record, or None
  used,           \* threads the engine has made
  pc,             \* turn -> where it is
  want,           \* turn -> the session it resolved
  thread,         \* turn -> the thread the engine runs it on
  kept,           \* turn -> the record bindSession read before it writes
  stale, retried, \* turns the engine knew no thread for; turns that began again for it
  queue,          \* conversation -> the turn that runs in its queue, or None
  conversationLock,   \* conversation -> its holder, or None
  sessionLock,    \* session -> its holder, or None
  leases,         \* turns with a lease in turns.json
  commands, troubles,         \* counters
  touched,        \* history: turns whose conversation was given another record by a
                  \* command, or lost a stale one, after they resolved it
  home,           \* history: conversation -> the record /resume found, or None
  disturbed,      \* history: conversations in which a command ran beside a turn
  unrenewed       \* history: turns whose lease was dropped while they needed it

locks == <<conversationLock, sessionLock, leases>>
counters == <<commands, troubles>>
history == <<touched, home, disturbed, unrenewed>>
turn == <<want, thread, kept, stale, retried>>
vars == <<records, used, pc, turn, queue, locks, counters, history>>

Sessions == Threads \cup Conversations  \* a conversation stands for its `telegram-<chat>`
Snapshots == [session : Threads \cup {None}, resume : Threads \cup {None}]
Records == [session : Threads, resume : Threads \cup {None}, suspended : Snapshots \cup {None}]

Bound(c) == IF records[c] = None THEN c ELSE records[c].session
Of(t) == Lane[t]
Goto(t, state) == pc' = [pc EXCEPT ![t] = state]

\* The states of a turn that holds its conversation's lock, the session's, a lease.
InEngine == {"telling", "binding", "running", "bound", "answered", "late"}
WithLease == {"opening", "leaving"} \cup InEngine
WithSession == {"pool", "unlocking"} \cup WithLease
WithConversation == {"resolving", "session"} \cup WithSession
AtRest == {"new", "done", "gone"}
InFlight(t) == pc[t] \notin AtRest

\* Mutant of Free: the lock of a dead process stays taken.
FreeWhenReleased(holder) == holder = None

\* A lock whose holder's process is gone is recovered by the next one who wants it.
Free(holder) == IF holder = None THEN TRUE ELSE pc[holder] = "gone"
\* Leases of processes that still run.
Alive == {t \in leases : pc[t] # "gone"}

-----------------------------------------------------------------------------
\* Turns

\* A message's turn starts when its queue lets it; a scheduled one when its job fires.
Begin(t) ==
  /\ pc[t] = "new"
  /\ t \notin Aside => queue[Of(t)] = None
  /\ Goto(t, "locking")
  /\ queue' = IF t \in Aside THEN queue ELSE [queue EXCEPT ![Of(t)] = t]
  /\ UNCHANGED <<records, used, turn, locks, counters, history>>

\* Mutant of LockConversation: only the session is locked.
LockNoConversation(t) ==
  /\ pc[t] = "locking" /\ Goto(t, "resolving")
  /\ UNCHANGED <<records, used, turn, queue, locks, counters, history>>

LockConversation(t) ==
  /\ pc[t] = "locking" /\ Free(conversationLock[Of(t)])
  /\ Goto(t, "resolving")
  /\ conversationLock' = [conversationLock EXCEPT ![Of(t)] = t]
  /\ UNCHANGED <<records, used, turn, queue, sessionLock, leases, counters, history>>

\* getOrCreateSession
Resolve(t) ==
  /\ pc[t] = "resolving" /\ Goto(t, "session")
  /\ want' = [want EXCEPT ![t] = Bound(Of(t))]
  /\ touched' = touched \ {t}
  /\ UNCHANGED <<records, used, thread, kept, stale, retried, queue, locks, counters, home,
                 disturbed, unrenewed>>

LockSession(t) ==
  /\ pc[t] = "session" /\ Free(sessionLock[want[t]])
  /\ Goto(t, "pool")
  /\ sessionLock' = [sessionLock EXCEPT ![want[t]] = t]
  /\ UNCHANGED <<records, used, turn, queue, conversationLock, leases, counters, history>>

\* Mutant of TakeLease: every process counts its own turns.
TakeLeaseOfOwn(t) ==
  /\ pc[t] = "pool" /\ Goto(t, "opening")
  /\ Cardinality({u \in Alive : Home[Of(u)] = Home[Of(t)]}) < MaxActive[Home[Of(t)]]
  /\ leases' = Alive \cup {t}
  /\ UNCHANGED <<records, used, turn, queue, conversationLock, sessionLock, counters, history>>

\* tryAcquire: the leases of dead processes go, then there is room or not.
TakeLease(t) ==
  /\ pc[t] = "pool" /\ Goto(t, "opening")
  /\ Cardinality(Alive) < MaxActive[Home[Of(t)]]
  /\ leases' = Alive \cup {t}
  /\ UNCHANGED <<records, used, turn, queue, conversationLock, sessionLock, counters, history>>

\* A turn that waits for a lease is stopped.
StopWaiting(t) ==
  /\ pc[t] = "pool" /\ Goto(t, "unlocking")
  /\ UNCHANGED <<records, used, turn, queue, locks, counters, history>>

Fresh == CHOOSE s \in Threads : s \notin used \cup Local

\* The engine opens the thread, a new one for a logical session; a known one may come
\* back under a new name.  Adapters with a session event tell it before the turn goes on.
Open(t, s) ==
  /\ pc[t] = "opening"
  /\ \/ s = want[t] /\ s \in Threads
     \/ ~(Threads \subseteq used \cup Local) /\ s = Fresh
  /\ thread' = [thread EXCEPT ![t] = s] /\ used' = used \cup ({s} \ Local)
  /\ Goto(t, "running") \/ (s # want[t] /\ Goto(t, "telling"))
  /\ UNCHANGED <<records, want, kept, stale, retried, queue, locks, counters, history>>

\* The engine knows no such thread (any more).
FindStale(t) ==
  /\ pc[t] = "opening" /\ want[t] \in Threads
  /\ Goto(t, "leaving") /\ stale' = stale \cup {t}
  /\ UNCHANGED <<records, used, want, thread, kept, retried, queue, locks, counters, history>>

\* bindSession reads the record it is about to replace, for what it keeps of it ...
ReadRecord(t) ==
  /\ \/ pc[t] = "telling" /\ Goto(t, "binding")
     \/ pc[t] = "answered" /\ Goto(t, "late")
  /\ kept' = [kept EXCEPT ![t] = records[Of(t)]]
  /\ UNCHANGED <<records, used, want, thread, stale, retried, queue, locks, counters, history>>

Rebound(record, s) ==
  IF record = None THEN [session |-> s, resume |-> None, suspended |-> None]
                   ELSE [record EXCEPT !.session = s]

\* ... and writes it.
WriteRecord(t) ==
  /\ \/ pc[t] = "binding" /\ Goto(t, "bound")
     \/ pc[t] = "late" /\ Goto(t, "leaving")
  /\ records' = [records EXCEPT ![Of(t)] = Rebound(kept[t], thread[t])]
  /\ UNCHANGED <<used, turn, queue, locks, counters, history>>

\* The engine answers: the bridge binds a thread it was not told of before.
Answer(t) ==
  /\ pc[t] \in {"running", "bound"}
  /\ Goto(t, IF pc[t] = "bound" \/ thread[t] = want[t] THEN "leaving" ELSE "answered")
  /\ UNCHANGED <<records, used, turn, queue, locks, counters, history>>

\* The engine's turn fails or is aborted.
Fail(t) ==
  /\ pc[t] \in {"opening", "running", "bound"} /\ Goto(t, "leaving")
  /\ UNCHANGED <<records, used, turn, queue, locks, counters, history>>

Trouble == troubles < MaxTroubles /\ troubles' = troubles + 1

\* The lease is given back; an error doing so is swallowed and leaves it there.
Leave(t) ==
  /\ pc[t] = "leaving" /\ Goto(t, "unlocking")
  /\ \/ leases' = leases \ {t} /\ UNCHANGED troubles
     \/ Trouble /\ UNCHANGED leases
  /\ UNCHANGED <<records, used, turn, queue, conversationLock, sessionLock, commands, history>>

\* A lease nobody renews any more goes stale, and the next to look drops it.
LeaseLapses(t) ==
  /\ t \in leases /\ pc[t] \notin WithLease
  /\ leases' = leases \ {t}
  /\ UNCHANGED <<records, used, pc, turn, queue, conversationLock, sessionLock, counters, history>>

\* So does that of a turn in work whose renewals fail, or whose host slept, for longer
\* than staleLeaseMs: the errors are swallowed, and no renewal brings the lease back.
RenewalsFail(t) ==
  /\ t \in leases /\ pc[t] \in WithLease /\ Trouble
  /\ leases' = leases \ {t} /\ unrenewed' = unrenewed \cup {t}
  /\ UNCHANGED <<records, used, pc, turn, queue, conversationLock, sessionLock, commands, touched,
                 home, disturbed>>

\* Where a turn goes from its locks: to a retry, once, when its session was stale.
Ends(t) == IF t \in stale \ retried THEN "dropping" ELSE "done"

\* A call that ended has no variables.
Forget(gone) ==
  /\ want' = [t \in Turns |-> IF t \in gone THEN None ELSE want[t]]
  /\ thread' = [t \in Turns |-> IF t \in gone THEN None ELSE thread[t]]
  /\ kept' = [t \in Turns |-> IF t \in gone THEN None ELSE kept[t]]
  /\ touched' = touched \ gone /\ unrenewed' = unrenewed \ gone

\* The session's lock and the conversation's are released, innermost first.
Unlock(t) ==
  /\ pc[t] = "unlocking" /\ Goto(t, Ends(t))
  /\ Forget({t})
  /\ conversationLock' = [conversationLock EXCEPT ![Of(t)] = IF @ = t THEN None ELSE @]
  /\ sessionLock' = [sessionLock EXCEPT ![want[t]] = None]
  /\ queue' = IF Ends(t) = "done" /\ t \notin Aside THEN [queue EXCEPT ![Of(t)] = None] ELSE queue
  /\ UNCHANGED <<records, used, stale, retried, leases, counters, home, disturbed>>

\* What a command or a dropped session does to those who have resolved already.
Touch(c) == touched' = touched \cup {t \in Turns : Lane[t] = c /\ pc[t] \in WithConversation}

\* The stale session's record is removed, and the turn begins again.
DropStale(t) ==
  /\ pc[t] = "dropping" /\ Goto(t, "locking")
  /\ records' = [records EXCEPT ![Of(t)] = None]
  /\ retried' = retried \cup {t}
  /\ home' = [home EXCEPT ![Of(t)] = None]
  /\ Touch(Of(t))
  /\ UNCHANGED <<used, want, thread, kept, stale, queue, locks, counters, disturbed, unrenewed>>

-----------------------------------------------------------------------------
\* Commands: tasks of the conversation's queue that take none of these locks

Command(c) ==
  /\ queue[c] = None /\ commands < MaxCommands
  /\ commands' = commands + 1
  /\ Touch(c)
  /\ disturbed' = IF \E t \in Turns : Lane[t] = c /\ InFlight(t) THEN disturbed \cup {c} ELSE disturbed
  /\ UNCHANGED <<used, pc, turn, queue, locks, troubles, unrenewed>>

\* buildSuspendedPreviousSnapshot
Snapshot(record) ==
  IF record = None THEN None
  ELSE IF record.suspended # None THEN record.suspended
  ELSE [session |-> record.session, resume |-> record.resume]

\* /resume binds the conversation to a session of the user's choice.
Resume(c, s) ==
  /\ Command(c)
  /\ records' = [records EXCEPT ![c] = [session |-> s, resume |-> s, suspended |-> Snapshot(@)]]
  /\ home' = [home EXCEPT ![c] = IF @ # None \/ records[c] = None THEN @ ELSE records[c]]

\* /detach restores what was suspended.
Detach(c) ==
  /\ Command(c) /\ records[c] # None
  /\ LET previous == records[c].suspended IN
     records' = [records EXCEPT ![c] =
       IF previous = None \/ previous.session = None THEN None
       ELSE [session |-> previous.session, resume |-> previous.resume, suspended |-> None]]
  /\ home' = [home EXCEPT ![c] = None]

\* /reset
Reset(c) ==
  /\ Command(c) /\ records[c] # None
  /\ records' = [records EXCEPT ![c] = None]
  /\ home' = [home EXCEPT ![c] = None]

-----------------------------------------------------------------------------
\* The process dies; another one takes its place.
Crash(p) ==
  /\ Trouble
  /\ LET gone == {t \in Turns : InFlight(t) /\ Home[Of(t)] = p} IN
     /\ pc' = [t \in Turns |-> IF t \in gone THEN "gone" ELSE pc[t]]
     /\ Forget(gone)
  /\ queue' = [c \in Conversations |-> IF Home[c] = p THEN None ELSE queue[c]]
  /\ UNCHANGED <<records, used, stale, retried, locks, commands, home, disturbed>>

Init ==
  /\ records = [c \in Conversations |-> None] /\ home = records /\ queue = records
  /\ conversationLock = records
  /\ used = {}
  /\ pc = [t \in Turns |-> "new"]
  /\ want = [t \in Turns |-> None] /\ thread = want /\ kept = want
  /\ stale = {} /\ retried = {} /\ leases = {}
  /\ sessionLock = [s \in Sessions |-> None]
  /\ commands = 0 /\ troubles = 0
  /\ touched = {} /\ disturbed = {} /\ unrenewed = {}

Work(t) ==
  \/ LockConversation(t) \/ Resolve(t) \/ LockSession(t) \/ TakeLease(t)
  \/ \E s \in Threads : Open(t, s)
  \/ ReadRecord(t) \/ WriteRecord(t) \/ Answer(t) \/ Fail(t) \/ Leave(t) \/ LeaseLapses(t)
  \/ Unlock(t) \/ DropStale(t)

Next ==
  \/ \E t \in Turns : Begin(t) \/ Work(t) \/ StopWaiting(t) \/ FindStale(t) \/ RenewalsFail(t)
  \/ \E c \in Conversations : Detach(c) \/ Reset(c) \/ \E s \in Local : Resume(c, s)
  \/ \E p \in Processes : Crash(p)

\* The bridge goes on with every turn it began; engines answer in the end.
Fairness == \A t \in Turns : WF_vars(Work(t))

Spec == Init /\ [][Next]_vars
FairSpec == Spec /\ Fairness

-----------------------------------------------------------------------------
\* Types; and whoever is between its lock and its unlock holds it, in a file no
\* living turn has taken over.
TypeOK ==
  /\ records \in [Conversations -> Records \cup {None}]
  /\ used \subseteq Threads
  /\ pc \in [Turns -> AtRest \cup WithConversation \cup {"locking", "dropping"}]
  /\ want \in [Turns -> Sessions \cup {None}] /\ thread \in [Turns -> Threads \cup {None}]
  /\ kept \in [Turns -> Records \cup {None}]
  /\ stale \subseteq Turns /\ retried \subseteq stale /\ leases \subseteq Turns
  /\ queue \in [Conversations -> Turns \cup {None}]
  /\ conversationLock \in [Conversations -> Turns \cup {None}]
  /\ sessionLock \in [Sessions -> Turns \cup {None}]
  /\ \A t \in Turns :
       /\ pc[t] \in WithConversation => conversationLock[Of(t)] = t
       /\ pc[t] \in WithSession => sessionLock[want[t]] = t

\* A turn never opens a thread its conversation has been moved away from by another
\* turn: what it resolved is what is bound, unless a command changed it since.
NoStaleThread ==
  \A t \in Turns :
    pc[t] \in {"session", "pool", "opening"} /\ t \notin touched => want[t] = Bound(Of(t))

\* The engine turns of all processes together stay within the widest pool, though
\* every process reads its own limit, dies with leases and fails to give some back.
\* A turn whose lease was dropped under it, unrenewed for staleLeaseMs, is the one
\* exception: it goes on beside the pool, and others are admitted in its place.
PoolRespected ==
  \E p \in Processes :
    Cardinality({t \in Turns : pc[t] \in WithLease /\ t \notin unrenewed}) <= MaxActive[p]

\* /detach returns to the conversation /resume found, however many resumes and
\* turns there were in between, if none of them ran beside a command.
DetachReturns ==
  [][\A c \in Conversations :
       Detach(c) /\ home[c] # None /\ c \notin disturbed' =>
         records'[c] # None /\ records'[c].session = home[c].session]_vars

\* Every turn that began ends, as the bridge comes to rest again and again: turns of
\* several conversations and processes that hold locks and wait for others, or for
\* leases, never wait for one another for ever, also when some die with what they hold.
EveryTurnEnds == []<>(\A t \in Turns : ~InFlight(t))

\* After /reset the next turn starts afresh: no turn binds the conversation back to
\* a thread from before.
ResetHolds ==
  [][\A t \in Turns : WriteRecord(t) => t \notin touched]_vars
=============================================================================
