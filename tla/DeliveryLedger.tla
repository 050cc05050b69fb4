---------------------------- MODULE DeliveryLedger ----------------------------
(***************************************************************************)
(* Final answers owed to the chat platform: the ledger of                  *)
(* src/src/state/delivery-obligation-store.ts, the turn of                 *)
(* src/src/lark/message-handler.ts that settles its rows, the recovery of  *)
(* src/src/lark/delivery-recovery.ts, and the boot of                      *)
(* src/src/lark/service.ts with its restart-loop breaker.                  *)
(*                                                                         *)
(* Every ledger mutation reads and writes the file under a file mutex and  *)
(* is one action.  A turn and the recovery send to the platform between    *)
(* two mutations, so the process may die after the platform has taken an   *)
(* answer and before the ledger says so.                                   *)
(*                                                                         *)
(* An answer is one obligation id.  The text of an answer and the parts    *)
(* sent after it (files, images) are two facts: whether the user can see   *)
(* the text, whether every part was acknowledged.  Retention (200 rows,    *)
(* seven days) is left out: nothing here reaches it.                       *)
(***************************************************************************)
EXTENDS Naturals, FiniteSets

CONSTANTS
  Replies,        \* answers the engine will give
  Early,          \* those whose turn may end between connect and sweep
  Faulty,         \* those of whose ledger writes some may fail
  MaxAttempts,    \* DELIVERY_MAX_ATTEMPTS
  MaxUnclean,     \* DEFAULT_MAX_UNCLEAN_BOOTS
  MaxStops        \* bound: how often the process ends

VARIABLES
  row,        \* the ledger: reply -> state, attempts
  stale,      \* rows created more than DELIVERY_STALE_AFTER_MS ago
  mine,       \* rows whose ownerPid is the running process
  fresh,      \* rows of this process updated within the last second
  unclean,    \* unclean endings in the window of restart-loop.json, saturating
  lock,       \* the service lock file: free, held, or left by a dead process
  phase,      \* the process: down, booting (connected), recovering, up
  skipped,    \* this boot skips recovery
  turn,       \* reply -> where its turn is
  multipart,  \* replies with parts to send after the text (hasLarkPostTurnDelivery)
  visible,    \* replies whose turn knows the user sees the text (answerVisibleToUser)
  job,        \* reply -> where its redelivery is
  marked,     \* claimed replies with needsMarker
  retried,    \* claimed replies whose row was failed
  shown,      \* replies whose text the user has
  complete,   \* replies all of whose parts were acknowledged
  \* history, for the properties
  resent,     \* redeliveries sent of each reply
  silent,     \* replies of which a second copy arrived without a marker
  raced,      \* replies swept while their turn was alive
  faulted,    \* replies one of whose ledger writes was lost
  died,       \* the last process ended uncleanly, within the window
  loop,       \* boots after an unclean ending that did recover, in the window
  stops       \* endings so far

ledgerVars  == <<row, stale, mine, fresh>>
bootVars    == <<unclean, lock, phase, skipped>>
turnVars    == <<turn, multipart, visible>>
jobVars     == <<job, marked, retried>>
chatVars    == <<shown, complete>>
historyVars == <<resent, silent, raced, faulted, died, loop, stops>>
vars == <<ledgerVars, bootVars, turnVars, jobVars, chatVars, historyVars>>

RowState  == {"none", "pending", "attempting", "delivered", "failed", "abandoned"}
TurnState == {"engine", "recorded", "sending", "acked", "unsure", "thrown", "over"}
JobState  == {"none", "queued", "confirmed", "unconfirmed"}

ASSUME LedgerAssumption ==
  /\ MaxAttempts \in Nat /\ MaxUnclean \in Nat \ {0} /\ MaxStops \in Nat
  /\ Early \subseteq Replies /\ Faulty \subseteq Replies

Unsettled == {r \in Replies : row[r].state \in {"pending", "attempting", "failed"}}

-----------------------------------------------------------------------------
(* One mutation of the ledger *)

\* updateState: the row, if there is one, gets a new state; a failure is swallowed.
Mark(r, to) ==
  \/ /\ row' = [row EXCEPT ![r].state = IF @ = "none" THEN @ ELSE to]
     /\ fresh' = IF r \in mine THEN fresh \cup {r} ELSE fresh
     /\ UNCHANGED <<stale, mine, faulted>>
  \/ /\ r \in Faulty
     /\ faulted' = faulted \cup {r}
     /\ UNCHANGED ledgerVars

-----------------------------------------------------------------------------
(* The turn *)

Serving(r) == phase \in {"recovering", "up"} \/ (phase = "booting" /\ r \in Early)

\* recordDeliveryObligation; a refused or failed record leaves a turn without a row.
EngineFinishes(r) ==
  /\ turn[r] = "engine" /\ Serving(r)
  /\ turn' = [turn EXCEPT ![r] = "recorded"]
  /\ multipart' \in {multipart, multipart \cup {r}}
  /\ \/ /\ row' = [row EXCEPT ![r] = [state |-> "pending", attempts |-> 0]]
        /\ mine' = mine \cup {r} /\ fresh' = fresh \cup {r}
        /\ UNCHANGED faulted
     \/ /\ r \in Faulty
        /\ faulted' = faulted \cup {r}
        /\ UNCHANGED <<row, mine, fresh>>
  /\ UNCHANGED <<stale, bootVars, visible, jobVars, chatVars,
                 resent, silent, raced, died, loop, stops>>

StartSending(r) ==
  /\ turn[r] = "recorded"
  /\ turn' = [turn EXCEPT ![r] = "sending"]
  /\ Mark(r, "attempting")
  /\ UNCHANGED <<bootVars, multipart, visible, jobVars, chatVars, resent, silent, raced, died, loop, stops>>

\* Card, continuation cards or document, then deliverLarkResponse: everything
\* acknowledged; something unconfirmed, whatever the user got; or an exception.
TurnSends(r) ==
  /\ turn[r] = "sending"
  /\ \/ /\ turn' = [turn EXCEPT ![r] = "acked"]
        /\ shown' = shown \cup {r} /\ complete' = complete \cup {r}
        /\ visible' = visible \cup {r}
     \/ /\ turn' = [turn EXCEPT ![r] = "unsure"]
        /\ shown' \in {shown, shown \cup {r}}
        /\ UNCHANGED <<visible, complete>>
     \/ /\ turn' = [turn EXCEPT ![r] = "thrown"]
        /\ \/ shown' = shown \cup {r} /\ visible' \in {visible, visible \cup {r}}
           \/ UNCHANGED <<shown, visible>>
        /\ UNCHANGED complete
  /\ silent' = IF r \in shown /\ turn'[r] = "acked" THEN silent \cup {r} ELSE silent
  /\ UNCHANGED <<ledgerVars, bootVars, multipart, jobVars, resent, raced, faulted, died, loop, stops>>

SettleTurn(r) ==
  /\ turn[r] \in {"acked", "unsure"}
  /\ Mark(r, IF turn[r] = "acked" THEN "delivered" ELSE "failed")
  /\ turn' = [turn EXCEPT ![r] = "over"]
  /\ UNCHANGED <<bootVars, multipart, visible, jobVars, chatVars, resent, silent, raced, died, loop, stops>>

\* Mutant of SalvageTurn: a visible text is taken for a complete delivery.
SalvageForgettingParts(r) ==
  /\ turn[r] = "thrown"
  /\ \E salvaged \in {(r \in visible), TRUE} :
       /\ shown' = IF salvaged THEN shown \cup {r} ELSE shown
       /\ Mark(r, IF salvaged THEN "delivered" ELSE "failed")
  /\ turn' = [turn EXCEPT ![r] = "over"]
  /\ UNCHANGED <<bootVars, multipart, visible, complete, jobVars, resent, silent, raced, died, loop, stops>>

\* The error path: the card is finished with the answer if it can be, and the
\* row is settled as delivered only when no part is still owed.
SalvageTurn(r) ==
  /\ turn[r] = "thrown"
  /\ \E salvaged \in {(r \in visible), TRUE} :
       /\ shown' = IF salvaged THEN shown \cup {r} ELSE shown
       /\ Mark(r, IF salvaged /\ r \notin multipart THEN "delivered" ELSE "failed")
  /\ turn' = [turn EXCEPT ![r] = "over"]
  /\ UNCHANGED <<bootVars, multipart, visible, complete, jobVars, resent, silent, raced, died, loop, stops>>

-----------------------------------------------------------------------------
(* Recovery *)

\* Rows of dead processes, and rows this process has not touched for a second.
Claimable(r) == r \in Unsettled /\ r \notin fresh
Expired(r) == row[r].attempts >= MaxAttempts \/ r \in stale

\* The rows in taken are claimed, those in spent abandoned; a claim costs so
\* many attempts, and those in plain are redelivered without a marker.
Claim(taken, spent, cost, plain) ==
  /\ phase = "booting"
  /\ phase' = "recovering"
  /\ row' = [r \in Replies |->
              IF r \in taken THEN [row[r] EXCEPT !.attempts = @ + cost]
              ELSE IF r \in spent THEN [row[r] EXCEPT !.state = "abandoned"] ELSE row[r]]
  /\ mine' = mine \cup taken
  /\ fresh' = fresh \cup taken \cup (spent \cap mine)
  /\ job' = [r \in Replies |-> IF r \in taken THEN "queued" ELSE "none"]
  /\ marked' = taken \ plain
  /\ retried' = {r \in taken : row[r].state = "failed"}
  /\ raced' = raced \cup {r \in taken : turn[r] \notin {"engine", "over"}}
  /\ UNCHANGED <<stale, unclean, lock, skipped, turnVars, chatVars,
                 resent, silent, faulted, died, loop, stops>>

In(states) == {r \in Replies : row[r].state \in states}
Taken == {r \in Replies : Claimable(r) /\ ~Expired(r)}
Spent == {r \in Replies : Claimable(r) /\ Expired(r)}

\* Mutants of Sweep: a failed row needs no marker; an attempt is not counted; a
\* row that was being sent when the process died is left to the platform.
SweepMarkingAttemptingOnly == Claim(Taken, Spent, 1, In({"pending", "failed"}))
SweepWithoutCounting       == Claim(Taken, Spent, 0, In({"pending"}))
SweepLeavingAttempting     == Claim(Taken \ In({"attempting"}), Spent, 1, In({"pending"}))

\* sweepRecoverableDeliveries.
Sweep == Claim(Taken, Spent, 1, In({"pending"}))

\* A sweep whose ledger write fails claims nothing.
SweepFails ==
  /\ phase = "booting" /\ Faulty # {}
  /\ phase' = "recovering"
  /\ skipped' = TRUE
  /\ UNCHANGED <<ledgerVars, unclean, lock, turnVars, jobVars, chatVars, historyVars>>

\* The rows are redelivered one after the other.
NextJob(r) == job[r] = "queued" /\ \A q \in Replies : job[q] \in {"none", "queued"}

\* A replay that fails the preflight again, with errors the user has already
\* seen, is given up; what the preflight finds depends on the files of the day.
AbandonReplay(r) ==
  /\ NextJob(r) /\ r \in retried
  /\ Mark(r, "abandoned")
  /\ job' = [job EXCEPT ![r] = "none"]
  /\ UNCHANGED <<bootVars, turnVars, marked, retried, chatVars,
                 resent, silent, raced, died, loop, stops>>

\* deliverLarkResponse of the replay; the row is not marked as attempting first.
Resend(r) ==
  /\ NextJob(r)
  /\ resent' = [resent EXCEPT ![r] = @ + 1]
  /\ \/ /\ job' = [job EXCEPT ![r] = "confirmed"]
        /\ shown' = shown \cup {r} /\ complete' = complete \cup {r}
     \/ /\ job' = [job EXCEPT ![r] = "unconfirmed"]
        /\ shown' \in {shown, shown \cup {r}}
        /\ UNCHANGED complete
  /\ silent' = IF r \in shown /\ r \notin marked /\ job'[r] = "confirmed"
               THEN silent \cup {r} ELSE silent
  /\ UNCHANGED <<ledgerVars, bootVars, turnVars, marked, retried,
                 raced, faulted, died, loop, stops>>

SettleResend(r) ==
  /\ job[r] \in {"confirmed", "unconfirmed"}
  /\ Mark(r, IF job[r] = "confirmed" THEN "delivered" ELSE "failed")
  /\ job' = [job EXCEPT ![r] = "none"]
  /\ UNCHANGED <<bootVars, turnVars, marked, retried, chatVars,
                 resent, silent, raced, died, loop, stops>>

RecoveryEnds ==
  /\ phase = "recovering" /\ \A r \in Replies : job[r] = "none"
  /\ phase' = "up"
  /\ UNCHANGED <<ledgerVars, unclean, lock, skipped, turnVars, jobVars, chatVars, historyVars>>

-----------------------------------------------------------------------------
(* The process *)

\* The lock is taken and the restart-loop breaker asked; a tripped breaker
\* leaves the ledger alone for this boot.
Boot ==
  LET endings == IF lock = "stale" /\ unclean < MaxUnclean THEN unclean + 1 ELSE unclean
      trips   == endings >= MaxUnclean
  IN  /\ phase = "down"
      /\ unclean' = endings
      /\ lock' = "held"
      /\ skipped' = trips
      /\ phase' = IF trips THEN "up" ELSE "booting"
      /\ loop' = IF died /\ ~trips THEN loop + 1 ELSE loop
      /\ UNCHANGED <<ledgerVars, turnVars, jobVars, chatVars,
                     resent, silent, raced, faulted, died, stops>>

\* What every end of the process takes with it: turns, redeliveries, ownership.
Ends ==
  /\ phase # "down" /\ stops < MaxStops
  /\ phase' = "down"
  /\ stops' = stops + 1
  /\ turn' = [r \in Replies |-> IF turn[r] = "engine" THEN "engine" ELSE "over"]
  /\ job' = [r \in Replies |-> "none"]
  /\ marked' = {} /\ retried' = {}
  /\ mine' = {} /\ fresh' = {}
  /\ UNCHANGED <<row, stale, skipped, multipart, visible, chatVars, resent, silent, raced, faulted>>

Crash ==
  /\ Ends
  /\ lock' = "stale" /\ died' = TRUE
  /\ UNCHANGED <<unclean, loop>>

\* Mutant of FatalExit: the ending is not recorded, and the released lock hides it.
FatalExitUnrecorded ==
  /\ Ends
  /\ lock' = "free" /\ died' = TRUE
  /\ UNCHANGED <<unclean, loop>>

\* A fatal error unwinds and releases the lock, but records the ending.
FatalExit ==
  /\ Ends
  /\ lock' = "free" /\ died' = TRUE
  /\ unclean' = IF unclean < MaxUnclean THEN unclean + 1 ELSE unclean
  /\ UNCHANGED loop

CleanStop ==
  /\ Ends
  /\ lock' = "free" /\ died' = FALSE
  /\ unclean' = 0 /\ loop' = 0

-----------------------------------------------------------------------------
(* The clock *)

SecondPasses(r) ==
  /\ r \in fresh
  /\ fresh' = fresh \ {r}
  /\ UNCHANGED <<row, stale, mine, bootVars, turnVars, jobVars, chatVars, historyVars>>

DayPasses(r) ==
  /\ r \in Unsettled \ stale
  /\ stale' = stale \cup {r}
  /\ UNCHANGED <<row, mine, fresh, bootVars, turnVars, jobVars, chatVars, historyVars>>

\* The window of the breaker is abstracted to one that expires as a whole.  An
\* ending seen only at the next boot, from the stale lock, is dated then.
WindowPasses ==
  /\ unclean > 0
  /\ unclean' = 0 /\ loop' = 0
  /\ died' = (died /\ lock = "stale")
  /\ UNCHANGED <<ledgerVars, lock, phase, skipped, turnVars, jobVars, chatVars,
                 resent, silent, raced, faulted, stops>>

-----------------------------------------------------------------------------
Init ==
  /\ row = [r \in Replies |-> [state |-> "none", attempts |-> 0]]
  /\ stale = {} /\ mine = {} /\ fresh = {}
  /\ unclean = 0 /\ lock = "free" /\ phase = "down" /\ skipped = FALSE
  /\ turn = [r \in Replies |-> "engine"] /\ multipart = {} /\ visible = {}
  /\ job = [r \in Replies |-> "none"] /\ marked = {} /\ retried = {}
  /\ shown = {} /\ complete = {}
  /\ resent = [r \in Replies |-> 0]
  /\ silent = {} /\ raced = {} /\ faulted = {}
  /\ died = FALSE /\ loop = 0 /\ stops = 0

Turn(r) == EngineFinishes(r) \/ StartSending(r) \/ TurnSends(r) \/ SettleTurn(r) \/ SalvageTurn(r)
Redelivery(r) == AbandonReplay(r) \/ Resend(r) \/ SettleResend(r)
Clock == WindowPasses \/ \E r \in Replies : SecondPasses(r) \/ DayPasses(r)

Next ==
  \/ \E r \in Replies : Turn(r) \/ Redelivery(r)
  \/ Sweep \/ SweepFails \/ RecoveryEnds
  \/ Boot \/ Crash \/ FatalExit \/ CleanStop
  \/ Clock

\* The service is started again after it ended, and a running service goes on
\* with its boot: sweep, redeliveries one after the other.
Fairness ==
  /\ WF_vars(Boot)
  /\ WF_vars(Sweep \/ SweepFails)
  /\ \A r \in Replies : WF_vars(Redelivery(r))

Spec == Init /\ [][Next]_vars /\ Fairness

-----------------------------------------------------------------------------
TypeOK ==
  /\ row \in [Replies -> [state : RowState, attempts : 0..MaxAttempts]]
  /\ stale \subseteq Replies /\ mine \subseteq Replies /\ fresh \subseteq mine
  /\ unclean \in 0..MaxUnclean
  /\ lock \in {"free", "held", "stale"}
  /\ phase \in {"down", "booting", "recovering", "up"}
  /\ skipped \in BOOLEAN
  /\ turn \in [Replies -> TurnState] /\ multipart \subseteq Replies /\ visible \subseteq Replies
  /\ job \in [Replies -> JobState] /\ marked \subseteq Replies /\ retried \subseteq Replies
  /\ shown \subseteq Replies /\ complete \subseteq Replies
  /\ resent \in [Replies -> Nat]
  /\ silent \subseteq Replies /\ raced \subseteq Replies /\ faulted \subseteq Replies
  /\ died \in BOOLEAN /\ loop \in Nat /\ stops \in 0..MaxStops

\* A row settled as delivered means the user has the text and every part was
\* acknowledged, by the turn or by a redelivery: no error path, salvage, crash
\* or restart settles an answer that is still owed.
DeliveredWasComplete ==
  \A r \in Replies : row[r].state = "delivered" =>
    r \in shown /\ (r \in multipart => r \in complete)

\* A poison answer cannot spin: however the process dies, a row is redelivered
\* at most MaxAttempts times.
RedeliveryBounded == \A r \in Replies : resent[r] <= MaxAttempts

\* The first redelivery of an answer is no silent duplicate: if its turn may
\* have shown it, the copy is marked.  (Unless a ledger write was lost, or the
\* row was swept while its turn was still at work.)
FirstRedeliveryHonest ==
  \A r \in silent : resent[r] >= 2 \/ r \in faulted \cup raced

\* "Never a silent duplicate": no second copy of an answer without the marker.
NoSilentDuplicate == silent = {}

\* A crash loop cannot be driven by recovery for long: of the boots after
\* unclean endings within the window fewer than MaxUnclean do recovery,
\* whether the process crashes or exits with a fatal error.
RecoveryLoopBroken == loop < MaxUnclean

\* An answer the process died with, recorded but not settled, is settled once
\* the service runs again: delivered, failed or given up.  (Unless the
\* breaker or a lost write skipped the recovery.)
OrphanSettles ==
  \A r \in Replies :
    (row[r].state \in {"pending", "attempting"} /\ r \notin mine)
      ~> (row[r].state \in {"delivered", "failed", "abandoned"} \/ skipped \/ r \in faulted)
=============================================================================
