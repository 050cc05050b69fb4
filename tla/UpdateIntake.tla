----------------------------- MODULE UpdateIntake -----------------------------
(***************************************************************************)
(* How the Telegram bridge takes updates in: the polling loop, the         *)
(* processing of a fetched batch and the watermark lastHandledUpdateId, in *)
(* src/src/service.ts over src/src/state/runtime-state.ts.                 *)
(*                                                                         *)
(* The loop does not wait for a batch to be processed, and it asks for     *)
(* updates after the watermark, not after what it has fetched: the same    *)
(* update is fetched again while it is at work, and the batches of several *)
(* polls are processed side by side.  Between two awaits code is atomic:   *)
(* an action runs from the return of an await to the next await.           *)
(*                                                                         *)
(* What a turn does is left out; a turn ends some time.  An update's kind  *)
(* says which awaits its way through the loop has; the photos, and the     *)
(* group photos, of a run are one album.  Which updates share a chat is    *)
(* left open; a chat may also be busy with a cron or a bus turn.           *)
(***************************************************************************)
EXTENDS Naturals, FiniteSets, Sequences, FiniteSetsExt

CONSTANTS
  N,             \* bound: updates are 1..N, in the order Telegram numbered them
  Kinds,         \* the sequences of kinds of updates that are tried
  Processors,    \* bound: batches processed side by side, by number
  MaxEvents      \* bound: updates, crashes, shutdowns and failing accesses to files together

Updates == 1..N
KindsKnown == {"message", "photo", "button", "group", "unaddressed", "group photo", "approval",
               "stop"}

ASSUME IntakeAssumption ==
  /\ N \in Nat /\ Processors \subseteq Nat /\ MaxEvents \in Nat
  /\ Kinds \subseteq Seq(KindsKnown) /\ \A s \in Kinds : Len(s) <= N

VARIABLES
  kind,          \* update -> its kind
  arrived,       \* Telegram has the updates 1..arrived
  forgotten,     \* and has forgotten 1..forgotten: a poll asked for later ones
  service,       \* "up", "stopping" (shutdown signal) or "down"
  offset,        \* the poll loop's offset; 0 is undefined
  polled,        \* the loop has spawned a batch and is about to read the watermark
  lastHandled,   \* lastHandledUpdateId in runtime-state.json; 0 is null
  enqueued,      \* enqueuedUpdateIds
  completed,     \* completedOutOfOrderUpdateIds
  proc,          \* processor -> a call of processTelegramUpdates
  writes,        \* pendingWrite: the processors whose writes are asked for, in order
  turn,          \* <<processor, update>> -> the turn it enqueued
  begun,         \* history: updates whose turn or handling began in this process
  twice,         \* history: updates that began twice in one process
  settled,       \* history: updates that were handled to the end
  refused,       \* history: updates whose turn refused to start in a shutdown
  givenUp,       \* history: updates that failed before they were handled
  slipped,       \* history: /stops that were no longer enqueued before they were marked
  crashes, faults

memory == <<offset, polled, enqueued, completed, proc, writes, turn, begun>>
failures == <<givenUp, slipped>>
history == <<twice, settled, refused, failures>>
intakeVars == <<kind, arrived, forgotten, service, lastHandled, memory, history, crashes, faults>>

\* A processor: where it is, what is left of its batch and the place of the
\* album in it, its copy of the watermark, the queued turns it waits for, the
\* update it marks, and the watermark it is about to write.
Free == [at |-> "free", todo |-> {}, album |-> 0, seen |-> 0, queued |-> {}, marks |-> 0,
         next |-> 0, retry |-> FALSE]
Places == {"free", "load", "ack", "config", "approve", "stop", "mark", "flush", "write", "wait"}
NoTurns == [pu \in Processors \X Updates |-> "none"]

Album == {u \in DOMAIN kind : kind[u] \in {"photo", "group photo"}}

\* The last update of an album stands for the ones merged into it.
Covered(u) == IF u \in Album /\ u = Max(Album) THEN Album ELSE {u}

Begin(S) ==
  /\ begun' = begun \cup S
  /\ twice' = twice \cup (begun \cap S)

-----------------------------------------------------------------------------
(* The polling loop *)

\* coalesceTelegramMediaGroupUpdates: an album takes the place of its first
\* update and the id of its last.
Coalesced(S) == (S \ Album) \cup {u \in S \cap Album : \A v \in S \cap Album : v <= u}
AlbumPlace(S) == IF S \cap Album = {} THEN 0 ELSE Min(S \cap Album)

\* A batch is gone through in the order of these places, and its turns are
\* waited for in that order.
Place(p, u) == IF u \in Album THEN proc[p].album ELSE u
First(p, S) == CHOOSE u \in S : \A v \in S : Place(p, u) <= Place(p, v)

\* getUpdates(offset): Telegram forgets what came before the offset.  The batch
\* goes to a processor of its own; nobody waits for it.
Fetch(p) ==
  /\ service = "up" /\ ~polled
  /\ LET first == IF offset = 0 THEN forgotten + 1 ELSE offset
         fetched == {u \in Updates : first <= u /\ u <= arrived}
     IN  /\ fetched # {}
         /\ proc[p] = Free /\ \A q \in Processors : q < p => proc[q] # Free
         /\ proc' = [proc EXCEPT ![p] = [Free EXCEPT !.at = "load", !.todo = Coalesced(fetched),
                                                      !.album = AlbumPlace(fetched)]]
         /\ forgotten' = first - 1
  /\ polled' = TRUE
  /\ UNCHANGED <<kind, arrived, service, lastHandled, offset, enqueued, completed, writes, turn,
                 begun, history, crashes, faults>>

\* The next poll starts behind the watermark.
ReadOffset ==
  /\ service = "up" /\ polled
  /\ polled' = FALSE
  /\ offset' = IF lastHandled > 0 THEN lastHandled + 1 ELSE offset
  /\ UNCHANGED <<kind, arrived, forgotten, service, lastHandled, enqueued, completed, proc, writes,
                 turn, begun, history, crashes, faults>>

-----------------------------------------------------------------------------
(* The loop over a batch *)

HasAck(u) == kind[u] \in {"button", "approval"}

\* Mutant of Known: an update that completed out of order is taken for a new one.
KnownWhileEnqueued(u, enq, seen) == u \in enq \/ u <= seen

\* The update is at work, complete but not yet below the watermark, or below it.
Known(u, enq, seen) == u \in enq \cup completed \/ u <= seen

\* What the loop awaits at the first of the updates that are left.
Awaits(p, rest) ==
  CASE rest = {} -> "wait"
    [] rest # {} /\ HasAck(First(p, rest)) -> "ack"
    [] rest # {} /\ kind[First(p, rest)] \in {"group", "unaddressed", "group photo"} -> "config"
    [] OTHER -> "stop"

\* From the return of an await the loop runs on through its batch: known
\* updates are passed over, private messages are enqueued, until an update
\* needs an await or the batch is done.  An update in "through" is beyond its
\* own await.  A shutdown ends the loop.
RunOn(p, todo, seen, through, enq) ==
  LET passes(u) ==
        \/ u \in through
        \/ ~HasAck(u) /\ (Known(u, enq, seen) \/ kind[u] \in {"message", "photo"})
      gone == IF service = "stopping" THEN through
              ELSE {u \in todo : \A v \in todo : ~passes(v) => Place(p, u) < Place(p, v)}
      rest == IF service = "stopping" THEN {} ELSE todo \ gone
      new == {u \in gone : ~Known(u, enq, seen) \/ u \in through}
      stopped == IF Awaits(p, rest) = "stop" THEN {First(p, rest)} ELSE {}
  IN  /\ enqueued' = enq \cup new \cup stopped
      /\ Begin(new \cup stopped)
      /\ turn' = [pu \in DOMAIN turn |->
                    IF pu[1] = p /\ pu[2] \in new THEN "queued" ELSE turn[pu]]
      /\ proc' = [proc EXCEPT ![p] = [@ EXCEPT !.at = Awaits(p, rest), !.todo = rest,
                                                !.seen = seen, !.queued = proc[p].queued \cup new,
                                                !.marks = 0, !.next = 0, !.retry = FALSE]]

Elsewhere == UNCHANGED <<kind, arrived, forgotten, service, lastHandled, offset, polled, crashes>>
At(p, place) == service # "down" /\ proc[p].at = place

\* The first await of a batch: the watermark is read once.
Load(p) ==
  /\ At(p, "load")
  /\ RunOn(p, proc[p].todo, lastHandled, {}, enqueued)
  /\ Elsewhere /\ UNCHANGED <<writes, completed, settled, refused, failures, faults>>

MoveTo(p, place) == proc' = [proc EXCEPT ![p].at = place]
MarkNext(p, u) == proc' = [proc EXCEPT ![p] = [@ EXCEPT !.at = "mark", !.marks = u]]

\* An error is caught: the update is marked all the same, or, in a shutdown, left
\* unmarked, which ends the loop.
MarkAnyway(p, u) ==
  proc' = [proc EXCEPT ![p] = [@ EXCEPT !.at = "mark", !.marks = u, !.next = 0, !.retry = TRUE]]
LeaveUnmarked(p, u) ==
  /\ proc' = [proc EXCEPT ![p] = [@ EXCEPT !.at = "wait", !.todo = {}, !.queued = proc[p].queued \ {u},
                                            !.marks = 0, !.next = 0, !.retry = FALSE]]
  /\ enqueued' = enqueued \ {u}

\* A /stop is taken out of the enqueued updates before its error is caught.
Caught(p, u) ==
  \/ service = "stopping" /\ LeaveUnmarked(p, u) /\ UNCHANGED slipped
  \/ /\ service = "up" /\ MarkAnyway(p, u)
     /\ \/ kind[u] = "stop" /\ enqueued' = enqueued \ {u} /\ slipped' = slipped \cup {u}
        \/ kind[u] # "stop" /\ UNCHANGED <<enqueued, slipped>>

Fault == Len(kind) + crashes + faults < MaxEvents /\ faults' = faults + 1

\* Telegram answers the acknowledgement of a button.  Only now does the loop
\* look whether the update is known, with the watermark it read before.
Acknowledged(p) ==
  /\ At(p, "ack")
  /\ LET u == First(p, proc[p].todo) IN
     \/ /\ Known(u, enqueued, proc[p].seen)
        /\ RunOn(p, proc[p].todo \ {u}, proc[p].seen, {}, enqueued)
        /\ UNCHANGED completed
     \/ /\ ~Known(u, enqueued, proc[p].seen) /\ kind[u] = "approval"
        /\ MoveTo(p, "approve") /\ Begin({u})
        /\ UNCHANGED <<enqueued, completed, turn>>
     \/ /\ ~Known(u, enqueued, proc[p].seen) /\ kind[u] = "button"
        /\ RunOn(p, proc[p].todo, proc[p].seen, {u}, enqueued)
        /\ UNCHANGED completed
  /\ Elsewhere /\ UNCHANGED <<writes, settled, refused, failures, faults>>

\* The group configuration has been read: a message to the bot is enqueued, any
\* other is marked at once.
ConfigRead(p) ==
  /\ At(p, "config")
  /\ LET u == First(p, proc[p].todo) IN
     \/ /\ kind[u] = "group"
        /\ RunOn(p, proc[p].todo, proc[p].seen, {u}, enqueued)
        /\ UNCHANGED settled
     \/ /\ kind[u] \in {"unaddressed", "group photo"}
        /\ MarkNext(p, u)
        /\ settled' = settled \cup Covered(u)
        /\ UNCHANGED <<enqueued, turn, begun, twice>>
  /\ Elsewhere /\ UNCHANGED <<writes, completed, refused, failures, faults>>

\* An approval has been answered.
Approved(p) ==
  /\ At(p, "approve")
  /\ MarkNext(p, First(p, proc[p].todo))
  /\ settled' = settled \cup Covered(First(p, proc[p].todo))
  /\ Elsewhere /\ UNCHANGED <<writes, enqueued, completed, turn, begun, twice, refused, failures, faults>>

\* /stop: the waiting turns of its chat are dropped, and the user is told.
Stopped(p) ==
  /\ At(p, "stop")
  /\ MarkNext(p, First(p, proc[p].todo))
  /\ \E dropped \in SUBSET {pu \in DOMAIN turn : turn[pu] = "queued"} :
     /\ turn' = [pu \in DOMAIN turn |-> IF pu \in dropped THEN "ended" ELSE turn[pu]]
     /\ settled' = settled \cup Covered(First(p, proc[p].todo)) \cup UNION {Covered(pu[2]) : pu \in dropped}
  /\ Elsewhere /\ UNCHANGED <<writes, enqueued, completed, begun, twice, refused, failures, faults>>

\* The configuration, or who may approve or stop, cannot be read.
HandlingFails(p) ==
  /\ At(p, "config") \/ At(p, "approve") \/ At(p, "stop")
  /\ Fault
  /\ LET u == First(p, proc[p].todo) IN Caught(p, u) /\ givenUp' = givenUp \cup Covered(u)
  /\ Elsewhere /\ UNCHANGED <<writes, completed, turn, begun, twice, settled, refused>>

-----------------------------------------------------------------------------
(* The watermark *)

\* What follows markUpdateCompleted(u): the loop goes on behind u, or the wait
\* for the queued turns does.  Only enqueued updates are taken out again.
Marked(p, seen, done) ==
  LET u == proc[p].marks
      waits == proc[p].queued # {} /\ First(p, proc[p].queued) = u /\ proc[p].todo = {}
  IN  /\ completed' = done
      /\ IF waits
         THEN /\ proc' = [proc EXCEPT ![p] = [@ EXCEPT !.at = "wait", !.queued = proc[p].queued \ {u},
                                                       !.seen = seen, !.marks = 0, !.next = 0,
                                                       !.retry = FALSE]]
              /\ enqueued' = enqueued \ {u}
              /\ UNCHANGED <<turn, begun, twice>>
         ELSE RunOn(p, proc[p].todo \ {u}, seen, {},
                    IF kind[u] = "stop" THEN enqueued \ {u} ELSE enqueued)

\* Mutant of Flushable: whatever is complete may be flushed.
FlushableInAnyOrder(seen, done) == {c \in done : c > seen}

\* Mutant of Flushable: an update waits for itself, as it is still enqueued.
FlushableUnlessEnqueued(seen, done) ==
  {c \in done : c > seen /\ \A e \in enqueued : e > seen => e > c}

\* Updates handled to the end, with none enqueued before them that is not.
Flushable(seen, done) ==
  {c \in done : c > seen /\ \A e \in enqueued \ done : e > seen => e > c}

Flush(p, seen, done, others) ==
  IF Flushable(seen, done) = {}
  THEN Marked(p, seen, done) /\ writes' = others
  ELSE /\ proc' = [proc EXCEPT ![p] = [@ EXCEPT !.at = "write", !.seen = seen,
                                                !.next = Min(Flushable(seen, done))]]
       /\ completed' = done
       /\ writes' = Append(others, p)
       /\ UNCHANGED <<enqueued, turn, begun, twice>>

MarkCompleted(p) ==
  /\ At(p, "mark")
  /\ LET u == proc[p].marks IN
     IF u <= lastHandled
     THEN Marked(p, lastHandled, completed \ {u})
     ELSE /\ completed' = completed \cup {u}
          /\ MoveTo(p, "flush")
          /\ UNCHANGED <<enqueued, turn, begun, twice>>
  /\ Elsewhere /\ UNCHANGED <<writes, settled, refused, failures, faults>>

FlushCompleted(p) ==
  /\ At(p, "flush")
  /\ Flush(p, lastHandled, completed, writes)
  /\ Elsewhere /\ UNCHANGED <<settled, refused, failures, faults>>

\* markHandledUpdateId, which never lowers the watermark.
WriteHandled(p) ==
  /\ At(p, "write") /\ Head(writes) = p
  /\ LET w == proc[p].next IN
     /\ lastHandled' = Max({lastHandled, w})
     /\ Flush(p, w, {c \in completed : c > w}, Tail(writes))
  /\ UNCHANGED <<kind, arrived, forgotten, service, offset, polled, crashes, settled, refused,
                 failures, faults>>

\* The state file cannot be read or written.
NoAccess(p) ==
  \/ (At(p, "mark") \/ At(p, "flush")) /\ UNCHANGED writes
  \/ At(p, "write") /\ Head(writes) = p /\ writes' = Tail(writes)

\* The error is caught once, and the update marked again.
MarkFails(p) ==
  /\ NoAccess(p) /\ Fault
  /\ ~proc[p].retry
  /\ Caught(p, proc[p].marks)
  /\ Elsewhere /\ UNCHANGED <<completed, turn, begun, twice, settled, refused, givenUp>>

\* An error of the second attempt, or of the first read, ends the processing of
\* the batch: its turns go on, but nobody waits for them to be marked.
BatchFails(p) ==
  /\ \/ At(p, "load") /\ UNCHANGED writes
     \/ proc[p].retry /\ NoAccess(p)
  /\ Fault
  /\ proc' = [proc EXCEPT ![p] = Free]
  /\ Elsewhere /\ UNCHANGED <<enqueued, completed, turn, begun, history>>

-----------------------------------------------------------------------------
(* The queued turns *)

StartTurn(pu) ==
  /\ service = "up" /\ turn[pu] = "queued"
  /\ turn' = [turn EXCEPT ![pu] = "running"]
  /\ Elsewhere /\ UNCHANGED <<writes, enqueued, completed, proc, begun, history, faults>>

\* A turn ends, well, with an error that was reported, or stopped by its abort
\* signal: that counts as stopped by the user, in a shutdown too.
EndTurn(pu) ==
  /\ service # "down" /\ turn[pu] = "running"
  /\ turn' = [turn EXCEPT ![pu] = "ended"]
  /\ settled' = settled \cup Covered(pu[2])
  /\ Elsewhere /\ UNCHANGED <<writes, enqueued, completed, proc, begun, twice, refused, failures, faults>>

\* markTurnStarted throws, and the turn is over before it handled anything; or
\* markTurnCompleted does, when it has.
TurnFails(pu) ==
  /\ Fault
  /\ turn' = [turn EXCEPT ![pu] = "failed"]
  /\ \/ /\ service = "up" /\ turn[pu] = "queued"
        /\ givenUp' = givenUp \cup Covered(pu[2]) /\ UNCHANGED settled
     \/ /\ service # "down" /\ turn[pu] = "running"
        /\ settled' = settled \cup Covered(pu[2]) /\ UNCHANGED givenUp
  /\ Elsewhere /\ UNCHANGED <<writes, enqueued, completed, proc, begun, twice, refused, slipped>>

\* During a shutdown a waiting turn refuses to start.
RefuseTurn(pu) ==
  /\ service = "stopping" /\ turn[pu] = "queued"
  /\ turn' = [turn EXCEPT ![pu] = "refused"]
  /\ refused' = refused \cup Covered(pu[2])
  /\ Elsewhere /\ UNCHANGED <<writes, enqueued, completed, proc, begun, twice, settled, failures, faults>>

\* The turns of a batch are waited for in the order they were enqueued in.
TurnAwaited(p) ==
  /\ At(p, "wait") /\ proc[p].queued # {}
  /\ LET u == First(p, proc[p].queued) IN
     /\ turn' = [turn EXCEPT ![<<p, u>>] = "none"]
     /\ \/ turn[<<p, u>>] = "ended" /\ MarkNext(p, u) /\ UNCHANGED <<enqueued, slipped>>
        \/ turn[<<p, u>>] \in {"failed", "refused"} /\ Caught(p, u)
  /\ Elsewhere
  /\ UNCHANGED <<writes, completed, begun, twice, settled, refused, givenUp, faults>>

BatchEnds(p) ==
  /\ At(p, "wait") /\ proc[p].queued = {}
  /\ proc' = [proc EXCEPT ![p] = Free]
  /\ Elsewhere /\ UNCHANGED <<writes, enqueued, completed, turn, begun, history, faults>>

-----------------------------------------------------------------------------
(* The process *)

Arrive ==
  /\ arrived < Len(kind)
  /\ arrived' = arrived + 1
  /\ UNCHANGED <<kind, forgotten, service, lastHandled, memory, history, crashes, faults>>

\* SIGTERM, or a 409 Conflict of another poller.
Shutdown ==
  /\ service = "up" /\ Len(kind) + crashes + faults < MaxEvents
  /\ service' = "stopping" /\ crashes' = crashes + 1
  /\ UNCHANGED <<kind, arrived, forgotten, lastHandled, memory, history, faults>>

Forget ==
  /\ service' = "down"
  /\ offset' = 0 /\ polled' = FALSE
  /\ enqueued' = {} /\ completed' = {} /\ begun' = {} /\ writes' = <<>>
  /\ proc' = [p \in Processors |-> Free] /\ turn' = NoTurns
  /\ UNCHANGED <<kind, arrived, forgotten, lastHandled, history, faults>>

\* The drain is over or has timed out.
Exit == service = "stopping" /\ Forget /\ UNCHANGED crashes
Crash == service = "up" /\ Len(kind) + crashes + faults < MaxEvents /\ Forget /\ crashes' = crashes + 1

Restart ==
  /\ service = "down"
  /\ service' = "up"
  /\ UNCHANGED <<kind, arrived, forgotten, lastHandled, memory, history, crashes, faults>>

IntakeInit ==
  /\ kind \in Kinds
  /\ arrived = 0 /\ forgotten = 0 /\ service = "up" /\ lastHandled = 0
  /\ offset = 0 /\ polled = FALSE
  /\ enqueued = {} /\ completed = {} /\ begun = {} /\ writes = <<>>
  /\ proc = [p \in Processors |-> Free] /\ turn = NoTurns
  /\ twice = {} /\ settled = {} /\ refused = {} /\ givenUp = {} /\ slipped = {}
  /\ crashes = 0 /\ faults = 0

Process(p) ==
  \/ Load(p) \/ Acknowledged(p) \/ ConfigRead(p) \/ Approved(p) \/ Stopped(p) \/ HandlingFails(p)
  \/ MarkCompleted(p) \/ FlushCompleted(p) \/ WriteHandled(p) \/ MarkFails(p) \/ BatchFails(p)
  \/ TurnAwaited(p) \/ BatchEnds(p)
Turn(pu) == StartTurn(pu) \/ TurnFails(pu) \/ EndTurn(pu) \/ RefuseTurn(pu)
Poll == ReadOffset \/ \E p \in Processors : Fetch(p)

IntakeNext ==
  \/ Poll
  \/ \E p \in Processors : Process(p)
  \/ \E pu \in Processors \X Updates : Turn(pu)
  \/ Arrive \/ Shutdown \/ Exit \/ Crash \/ Restart

\* The loop polls for ever, awaits return, turns end or are aborted by their
\* timeout, a service that ends is started again.
IntakeFairness ==
  /\ WF_intakeVars(Poll) /\ WF_intakeVars(Exit \/ Restart)
  /\ WF_intakeVars(\E pu \in Processors \X Updates : Turn(pu))
  /\ \A p \in Processors : WF_intakeVars(Process(p))

IntakeSpec == IntakeInit /\ [][IntakeNext]_intakeVars
FairIntake == IntakeSpec /\ IntakeFairness

-----------------------------------------------------------------------------
IntakeTypeOK ==
  /\ kind \in Kinds
  /\ arrived <= Len(kind) /\ forgotten \in 0..arrived /\ arrived \in 0..N /\ lastHandled \in 0..N
  /\ service \in {"up", "stopping", "down"}
  /\ offset \in 0..(N + 1) /\ polled \in BOOLEAN
  /\ enqueued \subseteq Updates /\ completed \subseteq Updates
  /\ \A p \in Processors :
       /\ proc[p].at \in Places /\ proc[p].seen \in 0..N
       /\ proc[p].marks \in 0..N /\ proc[p].next \in 0..N
       /\ (proc[p].at = "wait" => proc[p].todo = {})
  /\ turn \in [Processors \X Updates -> {"none", "queued", "running", "failed", "ended", "refused"}]
  /\ begun \subseteq Updates /\ twice \subseteq Updates
  /\ settled \subseteq Updates /\ refused \subseteq Updates
  /\ givenUp \subseteq Updates /\ slipped \subseteq Updates

\* No update is lost to a crash, an error of the state file or a poll that
\* fetched it twice: the watermark, and what Telegram has forgotten, are never
\* ahead of an update that was not handled to the end.  The exceptions are updates
\* whose turn refused to start in a shutdown, and those that failed before they
\* were handled: when the start of a turn cannot be recorded, or the configuration
\* not be read, the update is marked as if it were complete.
NothingLost == \A u \in 1..Max({lastHandled, forgotten}) : u \in settled \cup refused \cup givenUp

\* "Offset is NOT advanced here ... to avoid message loss on crash": nor is an
\* update lost that a shutdown kept from its turn.
NoneLost == \A u \in 1..Max({lastHandled, forgotten}) : u \in settled \cup givenUp

\* While only private messages and /stop come in, no update is handled twice by
\* one process, however many polls fetch it.  Once a /stop has failed, or its mark,
\* nothing is promised: it is not known to the next poll while it is marked again.
HandledOnce ==
  (\A u \in DOMAIN kind : kind[u] \in {"message", "photo", "stop"}) /\ slipped = {} => twice = {}

\* Once no more updates arrive, all are handled and the watermark reaches the
\* last: no order of completion, and no crash, leaves it waiting for ever.
\* (After a failing access to a file only the former, or given up: the second
\* attempt does not flush what waits.)
CatchesUp ==
  <>[](lastHandled >= arrived \/ (faults > 0 /\ 1..arrived \subseteq settled \cup givenUp))
=============================================================================
