----------------------------- MODULE ServiceProofs -----------------------------
(***************************************************************************)
(* The service of a state directory: the answers it owes, and the lock it  *)
(* serves under.                                                           *)
(*                                                                         *)
(* What the ledger promises of every answer, for any answers, limits and   *)
(* number of endings: settled as delivered only when complete, redelivered *)
(* a bounded number of times, the first time never as a silent duplicate.  *)
(* And the breaker cuts a crash loop that recovery drives.                 *)
(*                                                                         *)
(* The answers do not depend on each other: Sound is about one of them,    *)
(* and a step changes one, or is a sweep or an ending.  The breaker counts *)
(* on its own (Counted).                                                   *)
(*                                                                         *)
(* InstanceLock.  Of two processes that contend for one state directory at *)
(* most one serves, and the next one reports when it died with its lock.   *)
(* The argument has three layers.  In the mutex a token is written once,   *)
(* so the directory of a process at work is not what another has judged    *)
(* stale, and is put back when it was taken by mistake (Side).  The lock   *)
(* file is that of whoever serves or is about to, and what a start is      *)
(* about to remove is that of a dead process (Filed).  And the end of a    *)
(* service is unnoticed as long as its file lies there or a recovery that  *)
(* removed it is not done (Noticed).                                       *)
(***************************************************************************)
EXTENDS DeliveryLedger, InstanceLock, FiniteSetTheorems, TLAPS

-----------------------------------------------------------------------------
(* The ledger *)

Answering(r) == turn[r] \in {"sending", "acked", "unsure", "thrown"}

\* No row before the engine has finished, and nothing to redeliver without one.
Recorded(r) ==
  /\ turn[r] = "engine" => row[r].state = "none" /\ r \notin shown
  /\ row[r].state = "none" => row[r].attempts = 0 /\ resent[r] = 0 /\ job[r] = "none"

\* What a turn or a redelivery has had acknowledged, the user has.
Acknowledged(r) ==
  /\ turn[r] = "acked" \/ job[r] = "confirmed" => r \in shown /\ r \in complete
  /\ row[r].state = "delivered" => r \in shown /\ (r \in multipart => r \in complete)

\* Every redelivery was counted when its row was claimed.
Counting(r) ==
  /\ resent[r] <= row[r].attempts
  /\ job[r] = "queued" => resent[r] < row[r].attempts

\* An answer none of whose ledger writes was lost and which was not swept while
\* its turn was at work: the row says "pending" only until it is sent, and it
\* was first claimed after its turn.
Regular(r) == r \notin faulted \cup raced
Honest(r) ==
  /\ Regular(r) /\ Answering(r) => row[r].state # "pending"
  /\ Regular(r) /\ row[r].state = "pending" /\ resent[r] = 0 => r \notin shown
  /\ Regular(r) /\ turn[r] \in {"recorded", "sending"} => r \notin shown
  /\ Regular(r) /\ job[r] # "none" => turn[r] = "over"
  /\ Regular(r) /\ job[r] = "queued" /\ r \notin marked /\ resent[r] = 0 => row[r].state = "pending"
  /\ r \in silent => resent[r] >= 2 \/ ~Regular(r)

Sound(r) == Recorded(r) /\ Acknowledged(r) /\ Counting(r) /\ Honest(r)

\* The unclean endings the breaker knows of cover the boots that did recover.
Counted ==
  /\ loop <= unclean /\ loop < MaxUnclean
  /\ phase = "down" /\ died /\ lock # "stale" => loop < unclean \/ unclean = MaxUnclean

LedgerInv == TypeOK /\ (\A r \in Replies : Sound(r)) /\ Counted

-----------------------------------------------------------------------------
\* Initially no answer is on record.
LEMMA InitLedger == Init => LedgerInv
<1> USE LedgerAssumption
<1>1. Init => TypeOK
  <2>1. Init => row \in [Replies -> [state : RowState, attempts : 0..MaxAttempts]]
    BY DEF Init, RowState

  <2>2. Init => turn \in [Replies -> TurnState] /\ job \in [Replies -> JobState] /\ resent \in [Replies -> Nat]
    BY DEF Init, TurnState, JobState
  <2>3. Init => skipped \in BOOLEAN /\ died \in BOOLEAN
    BY DEF Init
  <2> QED
    BY <2>1, <2>2, <2>3 DEF Init, TypeOK
<1>2. Init => \A r \in Replies : Sound(r)
  BY DEF Init, Sound, Recorded, Acknowledged, Counting, Honest, Answering, Regular
<1>3. Init => Counted
  BY DEF Init, Counted
<1> QED
  BY <1>1, <1>2, <1>3 DEF LedgerInv

\* A step that does not concern an answer leaves it sound.
LEMMA Untouched ==
  ASSUME NEW r \in Replies, Sound(r),
         row'[r] = row[r], turn'[r] = turn[r], job'[r] = job[r], resent'[r] = resent[r],
         r \in multipart' <=> r \in multipart, r \in shown' <=> r \in shown,
         r \in complete' <=> r \in complete, r \in marked' <=> r \in marked,
         r \in silent' <=> r \in silent, r \in raced' <=> r \in raced,
         r \in faulted' <=> r \in faulted
  PROVE  Sound(r)'
BY DEF Sound, Recorded, Acknowledged, Counting, Honest, Answering, Regular

\* Neither the counts of the breaker nor the process change.
LEMMA SameCount ==
  ASSUME Counted, UNCHANGED <<unclean, lock, phase, died, loop>> PROVE Counted'
BY DEF Counted

\* Mark writes one row and touches nothing else of it than the state.
MarkEffect(r, to) ==
  /\ row' \in [Replies -> [state : RowState, attempts : 0..MaxAttempts]]
  /\ stale' \subseteq Replies /\ mine' \subseteq Replies /\ fresh' \subseteq mine'
  /\ faulted' \subseteq Replies /\ faulted \subseteq faulted'
  /\ \A q \in Replies \ {r} : row'[q] = row[q] /\ (q \in faulted' <=> q \in faulted)
  /\ row'[r].attempts = row[r].attempts
  /\ row'[r].state = "none" <=> row[r].state = "none"
  /\ \/ row'[r].state = to /\ faulted' = faulted
     \/ row[r].state = "none" /\ row'[r].state = "none" /\ faulted' = faulted
     \/ row' = row /\ r \in faulted'

\* What a mark does, whether its write succeeds, fails or finds nothing.
LEMMA MarkFacts ==
  ASSUME TypeOK, NEW r \in Replies, NEW to \in RowState \ {"none", "pending"}, Mark(r, to)
  PROVE  MarkEffect(r, to)
<1> USE DEF MarkEffect
<1>1. CASE /\ row' = [row EXCEPT ![r].state = IF @ = "none" THEN @ ELSE to]
           /\ fresh' = IF r \in mine THEN fresh \cup {r} ELSE fresh
           /\ UNCHANGED <<stale, mine, faulted>>
  <2>1. /\ row' \in [Replies -> [state : RowState, attempts : 0..MaxAttempts]]
        /\ row'[r].attempts = row[r].attempts
        /\ row'[r].state = IF row[r].state = "none" THEN "none" ELSE to
        /\ \A q \in Replies \ {r} : row'[q] = row[q]
    BY <1>1 DEF TypeOK
  <2> QED
    BY <1>1, <2>1 DEF TypeOK
<1>2. CASE faulted' = faulted \cup {r} /\ r \in Faulty /\ UNCHANGED ledgerVars
  BY <1>2, LedgerAssumption DEF TypeOK, ledgerVars
<1> QED
  BY <1>1, <1>2 DEF Mark

-----------------------------------------------------------------------------
(* The turn *)

\* The answer is recorded before it is sent, or the record fails.
LEMMA EngineFinishesStep ==
  ASSUME LedgerInv, NEW r \in Replies, EngineFinishes(r) PROVE LedgerInv'
<1> USE LedgerAssumption DEF LedgerInv
<1>1. /\ turn[r] = "engine" /\ turn' = [turn EXCEPT ![r] = "recorded"]
      /\ multipart' \in {multipart, multipart \cup {r}}
      /\ \/ /\ row' = [row EXCEPT ![r] = [state |-> "pending", attempts |-> 0]]
            /\ mine' = mine \cup {r} /\ fresh' = fresh \cup {r} /\ faulted' = faulted
         \/ faulted' = faulted \cup {r} /\ UNCHANGED <<row, mine, fresh>>
      /\ UNCHANGED <<stale, unclean, lock, phase, skipped, visible, job, marked, retried, shown, complete,
                     resent, silent, raced, died, loop, stops>>
  BY DEF EngineFinishes, bootVars, jobVars, chatVars
<1>2. TypeOK'
  BY <1>1 DEF TypeOK, RowState, TurnState
<1>3. ASSUME NEW q \in Replies PROVE Sound(q)'
  <2>1. CASE q # r
    BY <2>1, <1>1, Untouched DEF TypeOK
  <2>2. CASE q = r
    <3>1. turn'[r] = "recorded" /\ job[r] = "none" /\ resent[r] = 0 /\ row[r].state = "none" /\ r \notin shown
      BY <1>1 DEF Sound, Recorded, TypeOK
    <3>2. \/ row'[r] = [state |-> "pending", attempts |-> 0]
          \/ row'[r] = row[r] /\ r \in faulted'
      BY <1>1 DEF TypeOK
    <3> QED
      BY <2>2, <3>1, <3>2, <1>1 DEF Sound, Recorded, Acknowledged, Counting, Honest, Answering, Regular
  <2> QED
    BY <2>1, <2>2
<1>4. Counted'
  BY <1>1, SameCount
<1> QED
  BY <1>2, <1>3, <1>4

\* The row says that a copy may be out before one is sent.
LEMMA StartSendingStep ==
  ASSUME LedgerInv, NEW r \in Replies, StartSending(r) PROVE LedgerInv'
<1> USE LedgerAssumption DEF LedgerInv
<1>1. /\ turn[r] = "recorded" /\ turn' = [turn EXCEPT ![r] = "sending"] /\ Mark(r, "attempting")
      /\ UNCHANGED <<unclean, lock, phase, skipped, multipart, visible, job, marked, retried,
                     shown, complete, resent, silent, raced, died, loop, stops>>
  BY DEF StartSending, bootVars, jobVars, chatVars
<1>2. MarkEffect(r, "attempting")
  BY <1>1, MarkFacts DEF RowState
<1>3. TypeOK'
  BY <1>1, <1>2 DEF MarkEffect, TypeOK, TurnState
<1>4. ASSUME NEW q \in Replies PROVE Sound(q)'
  <2>1. CASE q # r
    BY <2>1, <1>1, <1>2, Untouched DEF MarkEffect, TypeOK
  <2>2. CASE q = r
    <3>1. turn'[r] = "sending"
      BY <1>1 DEF TypeOK
    <3> QED
      BY <2>2, <3>1, <1>1, <1>2 DEF MarkEffect, Sound, Recorded, Acknowledged, Counting, Honest,
         Answering, Regular, TypeOK
  <2> QED
    BY <2>1, <2>2
<1>5. Counted'
  BY <1>1, SameCount
<1> QED
  BY <1>3, <1>4, <1>5

\* The chat acknowledges all of the answer, or the turn does not know.
LEMMA TurnSendsStep ==
  ASSUME LedgerInv, NEW r \in Replies, TurnSends(r) PROVE LedgerInv'
<1> USE LedgerAssumption DEF LedgerInv
<1>1. /\ turn[r] = "sending"
      /\ \/ /\ turn' = [turn EXCEPT ![r] = "acked"]
            /\ shown' = shown \cup {r} /\ complete' = complete \cup {r}
            /\ visible' = visible \cup {r}
         \/ /\ turn' = [turn EXCEPT ![r] = "unsure"]
            /\ shown' \in {shown, shown \cup {r}}
            /\ UNCHANGED <<visible, complete>>
         \/ /\ turn' = [turn EXCEPT ![r] = "thrown"]
            /\ shown' \in {shown, shown \cup {r}} /\ visible' \in {visible, visible \cup {r}}
            /\ UNCHANGED complete
      /\ silent' = IF r \in shown /\ turn'[r] = "acked" THEN silent \cup {r} ELSE silent
      /\ UNCHANGED <<row, stale, mine, fresh, unclean, lock, phase, skipped, multipart, job, marked,
                     retried, resent, raced, faulted, died, loop, stops>>
  BY DEF TurnSends, ledgerVars, bootVars, jobVars
<1>2. TypeOK'
  BY <1>1 DEF TypeOK, TurnState
<1>3. ASSUME NEW q \in Replies PROVE Sound(q)'
  <2>1. CASE q # r
    BY <2>1, <1>1, Untouched DEF TypeOK
  <2>2. CASE q = r
    <3>1. Answering(r) /\ Answering(r)' /\ turn'[r] \in {"acked", "unsure", "thrown"}
      BY <1>1 DEF TypeOK, Answering
    <3>2. turn'[r] = "acked" => r \in shown' /\ r \in complete'
      BY <1>1 DEF TypeOK
    <3>3. Sound(r) /\ (r \in shown => r \in shown') /\ (r \in complete => r \in complete')
      BY <1>1
    <3>4. r \in silent' => r \in silent \/ r \in shown
      BY <1>1
    <3> QED
      BY <2>2, <3>1, <3>2, <3>3, <3>4, <1>1 DEF Sound, Recorded, Acknowledged, Counting, Honest,
         Answering, Regular
  <2> QED
    BY <2>1, <2>2
<1>4. Counted'
  BY <1>1, SameCount
<1> QED
  BY <1>2, <1>3, <1>4

\* The row of a turn that knows its answer was shown is settled.
LEMMA SettleTurnStep ==
  ASSUME LedgerInv, NEW r \in Replies, SettleTurn(r) PROVE LedgerInv'
<1> USE LedgerAssumption DEF LedgerInv
<1>1. /\ turn[r] \in {"acked", "unsure"} /\ turn' = [turn EXCEPT ![r] = "over"]
      /\ UNCHANGED <<unclean, lock, phase, skipped, multipart, visible, job, marked, retried,
                     shown, complete, resent, silent, raced, died, loop, stops>>
  BY DEF SettleTurn, bootVars, jobVars, chatVars
<1> DEFINE to == IF turn[r] = "acked" THEN "delivered" ELSE "failed"
<1>2. Mark(r, to) /\ to \in RowState \ {"none", "pending"}
  BY DEF SettleTurn, RowState
<1>3. MarkEffect(r, to)
  BY <1>2, MarkFacts
<1>4. TypeOK'
  BY <1>1, <1>3 DEF MarkEffect, TypeOK, TurnState, JobState
<1>5. ASSUME NEW q \in Replies PROVE Sound(q)'
  <2>1. CASE q # r
    BY <2>1, <1>1, <1>3, Untouched DEF MarkEffect, TypeOK
  <2>2. CASE q = r
    <3>1. turn'[r] = "over"
      BY <1>1 DEF TypeOK
    <3> QED
      BY <2>2, <3>1, <1>1, <1>3 DEF MarkEffect, Sound, Recorded, Acknowledged, Counting, Honest,
         Answering, Regular, TypeOK
  <2> QED
    BY <2>1, <2>2
<1>6. Counted'
  BY <1>1, SameCount
<1> QED
  BY <1>4, <1>5, <1>6

\* What a turn that threw could still show is not taken for delivered.
LEMMA SalvageTurnStep ==
  ASSUME LedgerInv, NEW r \in Replies, SalvageTurn(r) PROVE LedgerInv'
<1> USE LedgerAssumption DEF LedgerInv
<1>1. /\ turn[r] = "thrown" /\ turn' = [turn EXCEPT ![r] = "over"]
      /\ UNCHANGED <<unclean, lock, phase, skipped, multipart, visible, complete, job, marked, retried,
                     resent, silent, raced, died, loop, stops>>
  BY DEF SalvageTurn, bootVars, jobVars
<1>2. PICK salvaged \in BOOLEAN :
        /\ shown' = IF salvaged THEN shown \cup {r} ELSE shown
        /\ Mark(r, IF salvaged /\ r \notin multipart THEN "delivered" ELSE "failed")
  BY DEF SalvageTurn
<1> DEFINE to == IF salvaged /\ r \notin multipart THEN "delivered" ELSE "failed"
<1>3. Mark(r, to) /\ to \in RowState \ {"none", "pending"}
  BY <1>2 DEF RowState
<1>4. MarkEffect(r, to)
  BY <1>3, MarkFacts
<1>5. TypeOK'
  BY <1>1, <1>4, <1>2 DEF MarkEffect, TypeOK, TurnState, JobState
<1>6. ASSUME NEW q \in Replies PROVE Sound(q)'
  <2>1. CASE q # r
    BY <2>1, <1>1, <1>4, <1>2, Untouched DEF MarkEffect, TypeOK
  <2>2. CASE q = r
    <3>1. turn'[r] = "over"
      BY <1>1 DEF TypeOK
    <3> QED
      BY <2>2, <3>1, <1>1, <1>4, <1>2 DEF MarkEffect, Sound, Recorded, Acknowledged, Counting, Honest,
         Answering, Regular, TypeOK
  <2> QED
    BY <2>1, <2>2
<1>7. Counted'
  BY <1>1, SameCount
<1> QED
  BY <1>5, <1>6, <1>7

-----------------------------------------------------------------------------
(* Recovery *)

\* An answer that is not sent again is given up.
LEMMA AbandonReplayStep ==
  ASSUME LedgerInv, NEW r \in Replies, AbandonReplay(r) PROVE LedgerInv'
<1> USE LedgerAssumption DEF LedgerInv
<1>1. /\ job[r] = "queued" /\ job' = [job EXCEPT ![r] = "none"]
      /\ UNCHANGED <<unclean, lock, phase, skipped, turn, multipart, visible, marked, retried,
                     shown, complete, resent, silent, raced, died, loop, stops>>
  BY DEF AbandonReplay, NextJob, bootVars, turnVars, chatVars
<1> DEFINE to == "abandoned"
<1>2. Mark(r, to) /\ to \in RowState \ {"none", "pending"}
  BY DEF AbandonReplay, RowState
<1>3. MarkEffect(r, to)
  BY <1>2, MarkFacts
<1>4. TypeOK'
  BY <1>1, <1>3 DEF MarkEffect, TypeOK, TurnState, JobState
<1>5. ASSUME NEW q \in Replies PROVE Sound(q)'
  <2>1. CASE q # r
    BY <2>1, <1>1, <1>3, Untouched DEF MarkEffect, TypeOK
  <2>2. CASE q = r
    <3>1. job'[r] = "none"
      BY <1>1 DEF TypeOK
    <3> QED
      BY <2>2, <3>1, <1>1, <1>3 DEF MarkEffect, Sound, Recorded, Acknowledged, Counting, Honest,
         Answering, Regular, TypeOK
  <2> QED
    BY <2>1, <2>2
<1>6. Counted'
  BY <1>1, SameCount
<1> QED
  BY <1>4, <1>5, <1>6

\* The row of an answer that was sent again is settled by what the chat said.
LEMMA SettleResendStep ==
  ASSUME LedgerInv, NEW r \in Replies, SettleResend(r) PROVE LedgerInv'
<1> USE LedgerAssumption DEF LedgerInv
<1>1. /\ job[r] \in {"confirmed", "unconfirmed"} /\ job' = [job EXCEPT ![r] = "none"]
      /\ UNCHANGED <<unclean, lock, phase, skipped, turn, multipart, visible, marked, retried,
                     shown, complete, resent, silent, raced, died, loop, stops>>
  BY DEF SettleResend, bootVars, turnVars, chatVars
<1> DEFINE to == IF job[r] = "confirmed" THEN "delivered" ELSE "failed"
<1>2. Mark(r, to) /\ to \in RowState \ {"none", "pending"}
  BY DEF SettleResend, RowState
<1>3. MarkEffect(r, to)
  BY <1>2, MarkFacts
<1>4. TypeOK'
  BY <1>1, <1>3 DEF MarkEffect, TypeOK, TurnState, JobState
<1>5. ASSUME NEW q \in Replies PROVE Sound(q)'
  <2>1. CASE q # r
    BY <2>1, <1>1, <1>3, Untouched DEF MarkEffect, TypeOK
  <2>2. CASE q = r
    <3>1. job'[r] = "none"
      BY <1>1 DEF TypeOK
    <3> QED
      BY <2>2, <3>1, <1>1, <1>3 DEF MarkEffect, Sound, Recorded, Acknowledged, Counting, Honest,
         Answering, Regular, TypeOK
  <2> QED
    BY <2>1, <2>2
<1>6. Counted'
  BY <1>1, SameCount
<1> QED
  BY <1>4, <1>5, <1>6

\* A copy is counted when it is sent.
LEMMA ResendStep ==
  ASSUME LedgerInv, NEW r \in Replies, Resend(r) PROVE LedgerInv'
<1> USE LedgerAssumption DEF LedgerInv
<1>1. /\ job[r] = "queued" /\ resent' = [resent EXCEPT ![r] = @ + 1]
      /\ \/ /\ job' = [job EXCEPT ![r] = "confirmed"]
            /\ shown' = shown \cup {r} /\ complete' = complete \cup {r}
         \/ /\ job' = [job EXCEPT ![r] = "unconfirmed"]
            /\ shown' \in {shown, shown \cup {r}}
            /\ UNCHANGED complete
      /\ silent' = IF r \in shown /\ r \notin marked /\ job'[r] = "confirmed"
                   THEN silent \cup {r} ELSE silent
      /\ UNCHANGED <<row, stale, mine, fresh, unclean, lock, phase, skipped, turn, multipart, visible,
                     marked, retried, raced, faulted, died, loop, stops>>
  BY DEF Resend, NextJob, ledgerVars, bootVars, turnVars
<1>2. TypeOK'
  BY <1>1 DEF TypeOK, JobState
<1>3. ASSUME NEW q \in Replies PROVE Sound(q)'
  <2>1. CASE q # r
    BY <2>1, <1>1, Untouched DEF TypeOK
  <2>2. CASE q = r
    <3>1. /\ Sound(r) /\ job'[r] \in {"confirmed", "unconfirmed"} /\ resent'[r] = resent[r] + 1
          /\ resent[r] \in Nat /\ row[r].attempts \in Nat
          /\ job'[r] = "confirmed" => r \in shown' /\ r \in complete'
          /\ r \in shown => r \in shown'
          /\ r \in complete => r \in complete'
          /\ r \in silent' => r \in silent \/ (r \in shown /\ r \notin marked)
      BY <1>1 DEF TypeOK
    <3>2. Recorded(r)' /\ Acknowledged(r)' /\ Counting(r)'
      BY <3>1, <1>1 DEF Sound, Recorded, Acknowledged, Counting
    <3>3. Honest(r)'
      BY <3>1, <1>1 DEF Sound, Honest, Answering, Regular
    <3> QED
      BY <2>2, <3>2, <3>3 DEF Sound
  <2> QED
    BY <2>1, <2>2
<1>4. Counted'
  BY <1>1, SameCount
<1> QED
  BY <1>2, <1>3, <1>4

\* A claim is counted, and one that races a turn is known to.
LEMMA SweepStep == ASSUME LedgerInv, Sweep PROVE LedgerInv'
<1> USE LedgerAssumption DEF LedgerInv
<1>1. /\ phase = "booting" /\ phase' = "recovering"
      /\ row' = [r \in Replies |->
                  IF r \in Taken THEN [row[r] EXCEPT !.attempts = @ + 1]
                  ELSE IF r \in Spent THEN [row[r] EXCEPT !.state = "abandoned"] ELSE row[r]]
      /\ mine' = mine \cup Taken /\ fresh' = fresh \cup Taken \cup (Spent \cap mine)
      /\ job' = [r \in Replies |-> IF r \in Taken THEN "queued" ELSE "none"]
      /\ marked' = Taken \ In({"pending"})
      /\ retried' = {r \in Taken : row[r].state = "failed"}
      /\ raced' = raced \cup {r \in Taken : turn[r] \notin {"engine", "over"}}
      /\ UNCHANGED <<stale, unclean, lock, skipped, turn, multipart, visible, shown, complete,
                     resent, silent, faulted, died, loop, stops>>
  BY DEF Sweep, Claim, turnVars, chatVars
<1>2. /\ Taken \subseteq Replies /\ Spent \subseteq Replies /\ Taken \cap Spent = {}
      /\ \A r \in Taken : row[r].state \in {"pending", "attempting", "failed"}
                         /\ row[r].attempts < MaxAttempts
      /\ \A r \in Spent : row[r].state \in {"pending", "attempting", "failed"}
  BY DEF Taken, Spent, Claimable, Unsettled, Expired, TypeOK
<1>3. \A r \in Replies : row[r] \in [state : RowState, attempts : 0..MaxAttempts]
  BY DEF TypeOK
<1>4. ASSUME NEW r \in Replies
      PROVE  /\ row'[r] \in [state : RowState, attempts : 0..MaxAttempts]
             /\ r \in Taken => row'[r].state = row[r].state /\ row'[r].attempts = row[r].attempts + 1
             /\ r \in Spent => row'[r].state = "abandoned" /\ row'[r].attempts = row[r].attempts
             /\ r \notin Taken \cup Spent => row'[r] = row[r]
  BY <1>1, <1>2, <1>3 DEF RowState
<1>5. TypeOK'
  <2>1. row' \in [Replies -> [state : RowState, attempts : 0..MaxAttempts]]
    BY <1>1, <1>4
  <2>2. job' \in [Replies -> JobState]
    BY <1>1 DEF JobState
  <2> QED
    BY <2>1, <2>2, <1>1, <1>2 DEF TypeOK
<1>6. ASSUME NEW r \in Replies PROVE Sound(r)'
  <2>1. /\ Sound(r) /\ row[r].attempts \in Nat /\ resent[r] \in Nat
        /\ job'[r] = IF r \in Taken THEN "queued" ELSE "none"
        /\ Regular(r)' <=> Regular(r) /\ ~(r \in Taken /\ turn[r] \notin {"engine", "over"})
    BY <1>1, <1>3 DEF TypeOK, Regular
  <2>2. Recorded(r)' /\ Acknowledged(r)' /\ Counting(r)'
    BY <2>1, <1>1, <1>2, <1>4 DEF Sound, Recorded, Acknowledged, Counting
  <2>3. Honest(r)'
    <3>1. r \in Taken => turn[r] # "engine"
      BY <2>1, <1>2 DEF Sound, Recorded
    <3>2. r \in Taken /\ r \notin marked' => row[r].state = "pending"
      BY <1>1 DEF In
    <3>3. row'[r].state = "pending" => row[r].state = "pending"
      BY <1>2, <1>4
    <3>4. Answering(r)' <=> Answering(r)
      BY <1>1 DEF Answering
    <3>5. /\ Regular(r)' => Regular(r)
          /\ Regular(r)' /\ job'[r] # "none" => turn[r] = "over"
          /\ job'[r] # "none" => r \in Taken /\ job'[r] = "queued"
          /\ r \in Taken => row'[r].state = row[r].state
      BY <2>1, <3>1, <1>4
    <3> QED
      BY <2>1, <3>2, <3>3, <3>4, <3>5, <1>1 DEF Sound, Honest
  <2> QED
    BY <2>2, <2>3 DEF Sound
<1>7. Counted'
  BY <1>1 DEF Counted
<1> QED
  BY <1>5, <1>6, <1>7

-----------------------------------------------------------------------------
(* The process and the clock *)

\* Only the process moves on.
LEMMA BootStep == ASSUME LedgerInv, SweepFails \/ RecoveryEnds \/ Boot PROVE LedgerInv'
<1> USE LedgerAssumption DEF LedgerInv
<1>1. UNCHANGED <<row, stale, mine, fresh, turn, multipart, visible, job, marked, retried, shown, complete,
                  resent, silent, raced, faulted, died, stops>>
  BY DEF SweepFails, RecoveryEnds, Boot, ledgerVars, turnVars, jobVars, chatVars, historyVars
<1>2. ASSUME NEW r \in Replies PROVE Sound(r)'
  BY <1>1, Untouched
<1>3. CASE SweepFails \/ RecoveryEnds
  <2>1. UNCHANGED <<unclean, lock, loop, died>> /\ phase \in {"booting", "recovering"}
        /\ phase' \in {"recovering", "up"} /\ skipped' \in {skipped, TRUE}
    BY <1>3 DEF SweepFails, RecoveryEnds, historyVars
  <2>2. TypeOK'
    BY <2>1, <1>1 DEF TypeOK
  <2>3. Counted'
    BY <2>1 DEF Counted
  <2> QED
    BY <1>2, <2>2, <2>3
<1>4. CASE Boot
  <2> DEFINE endings == IF lock = "stale" /\ unclean < MaxUnclean THEN unclean + 1 ELSE unclean
             trips == endings >= MaxUnclean
  <2>1. /\ phase = "down" /\ unclean' = endings /\ lock' = "held" /\ skipped' = trips
        /\ phase' = IF trips THEN "up" ELSE "booting"
        /\ loop' = IF died /\ ~trips THEN loop + 1 ELSE loop
    BY <1>4 DEF Boot
  <2>2. endings \in 0..MaxUnclean /\ trips \in BOOLEAN /\ loop \in Nat /\ unclean \in 0..MaxUnclean
    BY DEF TypeOK
  <2>3. TypeOK'
    BY <2>1, <2>2, <1>1 DEF TypeOK
  <2>4. Counted'
    BY <2>1, <2>2, <1>1 DEF Counted
  <2> QED
    BY <1>2, <2>3, <2>4
<1> QED
  BY <1>3, <1>4

\* What a process takes with it when it ends leaves every answer sound.
LEMMA EndsStep ==
  ASSUME LedgerInv, Ends, Crash \/ FatalExit \/ CleanStop PROVE LedgerInv'
<1> USE LedgerAssumption DEF LedgerInv
<1>1. /\ phase # "down" /\ phase' = "down" /\ stops < MaxStops /\ stops' = stops + 1
      /\ turn' = [r \in Replies |-> IF turn[r] = "engine" THEN "engine" ELSE "over"]
      /\ job' = [r \in Replies |-> "none"] /\ marked' = {} /\ retried' = {}
      /\ mine' = {} /\ fresh' = {}
      /\ UNCHANGED <<row, stale, skipped, multipart, visible, shown, complete, resent, silent, raced,
                     faulted>>
  BY DEF Ends, chatVars
<1>2. \/ lock' = "stale" /\ died' = TRUE /\ UNCHANGED <<unclean, loop>>
      \/ /\ lock' = "free" /\ died' = TRUE /\ UNCHANGED loop
         /\ unclean' = IF unclean < MaxUnclean THEN unclean + 1 ELSE unclean
      \/ lock' = "free" /\ died' = FALSE /\ unclean' = 0 /\ loop' = 0
  BY DEF Crash, FatalExit, CleanStop
<1>3. loop \in Nat /\ unclean \in 0..MaxUnclean
  BY DEF TypeOK
<1>4. TypeOK'
  <2>1. turn' \in [Replies -> TurnState] /\ job' \in [Replies -> JobState]
    BY <1>1 DEF TurnState, JobState
  <2>2. lock' \in {"free", "stale"} /\ unclean' \in 0..MaxUnclean /\ loop' \in Nat
    BY <1>2, <1>3
  <2>3. died' \in BOOLEAN
    BY <1>2
  <2>4. stops' \in 0..MaxStops
    BY <1>1 DEF TypeOK
  <2> QED
    BY <2>1, <2>2, <2>3, <2>4, <1>1 DEF TypeOK
<1>5. ASSUME NEW r \in Replies PROVE Sound(r)'
  <2>1. /\ Sound(r) /\ job'[r] = "none"
        /\ turn'[r] = IF turn[r] = "engine" THEN "engine" ELSE "over"
    BY <1>1
  <2> QED
    BY <2>1, <1>1 DEF Sound, Recorded, Acknowledged, Counting, Honest, Answering, Regular, TypeOK
<1>6. Counted'
  BY <1>1, <1>2, <1>3 DEF Counted
<1> QED
  BY <1>4, <1>5, <1>6

\* Time makes rows stale and stops old, and moves nothing else.
LEMMA ClockStep == ASSUME LedgerInv, Clock PROVE LedgerInv'
<1> USE LedgerAssumption DEF LedgerInv
<1>1. UNCHANGED <<row, mine, lock, phase, skipped, turn, multipart, visible, job, marked, retried, shown,
                  complete, resent, silent, raced, faulted, stops>>
  BY DEF Clock, WindowPasses, SecondPasses, DayPasses, ledgerVars, bootVars, turnVars, jobVars,
     chatVars, historyVars
<1>2. ASSUME NEW r \in Replies PROVE Sound(r)'
  BY <1>1, Untouched
<1>3. stale' \subseteq Replies /\ fresh' \subseteq mine
  BY DEF Clock, WindowPasses, SecondPasses, DayPasses, ledgerVars, Unsettled, TypeOK
<1>4. UNCHANGED <<unclean, died, loop>> \/ (unclean' = 0 /\ loop' = 0 /\ died' = (died /\ lock = "stale"))
  BY DEF Clock, WindowPasses, SecondPasses, DayPasses, bootVars, historyVars
<1>5. died' \in BOOLEAN /\ (died' => died) /\ (died' /\ lock # "stale" => UNCHANGED <<unclean, died, loop>>)
  <2>1. died \in BOOLEAN
    BY DEF TypeOK
  <2>2. CASE UNCHANGED <<unclean, died, loop>>
    BY <2>1, <2>2
  <2>3. CASE died' = (died /\ lock = "stale")
    <3>1. died' \in BOOLEAN
      BY <2>3, Zenon
    <3>2. died' <=> died /\ lock = "stale"
      BY <2>3, Zenon
    <3> QED
      BY <3>1, <3>2, Zenon
  <2> QED
    BY <2>2, <2>3, <1>4
<1>6. unclean' \in 0..MaxUnclean /\ loop' \in Nat
  BY <1>4 DEF TypeOK
<1>7. TypeOK'
  BY <1>1, <1>3, <1>5, <1>6 DEF TypeOK
<1>8. Counted'
  BY <1>1, <1>4, <1>5 DEF Counted
<1> QED
  BY <1>2, <1>7, <1>8

\* Every step keeps the books.
LEMMA NextLedger == ASSUME LedgerInv, [Next]_vars PROVE LedgerInv'
<1>1. ASSUME NEW r \in Replies, Turn(r) PROVE LedgerInv'
  BY <1>1, EngineFinishesStep, StartSendingStep, TurnSendsStep, SettleTurnStep, SalvageTurnStep DEF Turn
<1>2. ASSUME NEW r \in Replies, Redelivery(r) PROVE LedgerInv'
  BY <1>2, AbandonReplayStep, ResendStep, SettleResendStep DEF Redelivery
<1>3. CASE Sweep
  BY <1>3, SweepStep
<1>4. CASE SweepFails \/ RecoveryEnds \/ Boot
  BY <1>4, BootStep
<1>5. CASE Crash \/ FatalExit \/ CleanStop
  BY <1>5, EndsStep DEF Crash, FatalExit, CleanStop
<1>6. CASE Clock
  BY <1>6, ClockStep
<1>7. CASE UNCHANGED vars
  <2>1. UNCHANGED <<row, stale, mine, fresh, unclean, lock, phase, skipped, turn, multipart, visible, job,
                    marked, retried, shown, complete, resent, silent, raced, faulted, died, loop, stops>>
    BY <1>7 DEF vars, ledgerVars, bootVars, turnVars, jobVars, chatVars, historyVars
  <2>2. \A r \in Replies : Sound(r)'
    BY <2>1, Untouched DEF LedgerInv
  <2>3. TypeOK' /\ Counted'
    BY <2>1 DEF LedgerInv, TypeOK, Counted
  <2> QED
    BY <2>2, <2>3 DEF LedgerInv
<1> QED
  BY <1>1, <1>2, <1>3, <1>4, <1>5, <1>6, <1>7 DEF Next

-----------------------------------------------------------------------------
\* The types of the ledger, the turns and the process, and what each answer's
\* state says of the others, in every reachable state.
THEOREM LedgerSound == Spec => []LedgerInv
<1>1. Init => LedgerInv
  BY InitLedger
<1>2. LedgerInv /\ [Next]_vars => LedgerInv'
  BY NextLedger
<1> QED
  BY <1>1, <1>2, PTL DEF Spec

\* No error path, salvage, crash or restart settles an answer as delivered that
\* is still owed (settleLarkPostTurnDelivery, recoverPendingDeliveries).
THEOREM DeliveredIsComplete == Spec => []DeliveredWasComplete
<1>1. LedgerInv => DeliveredWasComplete
  BY DEF LedgerInv, Sound, Acknowledged, DeliveredWasComplete
<1> QED
  BY <1>1, LedgerSound, PTL

\* A row is redelivered at most MaxAttempts times, however often the process
\* dies over it (DELIVERY_MAX_ATTEMPTS).
THEOREM PoisonIsBounded == Spec => []RedeliveryBounded
<1>1. LedgerInv => RedeliveryBounded
  <2> SUFFICES ASSUME LedgerInv, NEW r \in Replies PROVE resent[r] <= MaxAttempts
    BY DEF RedeliveryBounded
  <2>1. resent[r] <= row[r].attempts /\ row[r].attempts \in 0..MaxAttempts /\ resent[r] \in Nat
    BY DEF LedgerInv, Sound, Counting, TypeOK
  <2> QED
    BY <2>1, LedgerAssumption
<1> QED
  BY <1>1, LedgerSound, PTL

\* The first copy after a crash is plain only if the user had nothing.
THEOREM FirstCopyIsHonest == Spec => []FirstRedeliveryHonest
<1>1. LedgerInv => FirstRedeliveryHonest
  BY DEF LedgerInv, TypeOK, Sound, Honest, Regular, FirstRedeliveryHonest
<1> QED
  BY <1>1, LedgerSound, PTL

\* The breaker stops a crash loop that recovery drives before MaxUnclean boots.
THEOREM LoopIsCut == Spec => []RecoveryLoopBroken
<1>1. LedgerInv => RecoveryLoopBroken
  BY DEF LedgerInv, Counted, RecoveryLoopBroken
<1> QED
  BY <1>1, LedgerSound, PTL

-----------------------------------------------------------------------------
(* The lock: the mutex *)

\* Not more than two processes contend for the path.
Pair == \A p, q, r \in Processes : p = q \/ q = r \/ p = r

-----------------------------------------------------------------------------
(* The mutex: types *)

\* What a directory record is.
LEMMA NewDirs ==
  /\ \A t \in Token \cup {NoOwner} : \A b \in BOOLEAN : [owner |-> t, old |-> b] \in Dir
  /\ \A d \in Dir : d # NoDir /\ d.owner \in Token \cup {NoOwner} /\ d.old \in BOOLEAN
  BY MutexAssumption DEF MutexAssumption, Dir

\* A token names its process and acquisition.
LEMMA TokenIs ==
  ASSUME MutexTypeOK, NEW p \in Processes
  PROVE  /\ TokenOf(p) \in Token
         /\ TokenOf(p).pid = p
         /\ TokenOf(p).n = count[p]
         /\ TokenOf(p) # NoOwner
  BY MutexAssumption DEF MutexAssumption, MutexTypeOK, TokenOf, Token

\* The path is as the processes find it.
LEMMA InitMutexTypes == ASSUME MutexInit PROVE MutexTypeOK
<1> USE MutexAssumption
<1>1. [pid |-> Dead, n |-> 0] \in Token
  BY DEF MutexAssumption, Token
<1>2. mutex \in Dir \cup {NoDir}
  <2>1. PICK l \in Leftovers : mutex = LeftAs(l)
    BY DEF MutexInit
  <2>2. l = NoDir \/ l = NoOwner \/ l = Dead
    BY DEF MutexAssumption
  <2>3. LeftAs(l) \in {NoDir, [owner |-> NoOwner, old |-> FALSE],
                       [owner |-> [pid |-> Dead, n |-> 0], old |-> FALSE]}
    BY <2>2 DEF LeftAs
  <2>4. /\ [owner |-> NoOwner, old |-> FALSE] \in Dir
        /\ [owner |-> [pid |-> Dead, n |-> 0], old |-> FALSE] \in Dir
    BY <1>1, NewDirs
  <2> QED BY <2>1, <2>3, <2>4
<1>3. \A p \in Processes : ~(trash[p] # NoDir) /\ pc[p] \notin {"reread", "restore", "discard"}
  BY DEF MutexInit
<1>4. /\ alive \subseteq Processes /\ pc \in [Processes -> Steps]
      /\ trash \in [Processes -> Dir \cup {NoDir}] /\ judged \in [Processes -> Token \cup {NoOwner}]
      /\ anonymous \in BOOLEAN
  BY DEF MutexInit, Steps
<1>5. count \in [Processes -> 0..MaxAcquisitions]
  <2>1. 0 \in 0..MaxAcquisitions
    BY DEF MutexAssumption
  <2> QED BY <2>1 DEF MutexInit
<1> QED BY <1>2, <1>3, <1>4, <1>5 DEF MutexTypeOK

\* Every file operation keeps the types.
LEMMA MutexTypes ==
  ASSUME MutexTypeOK, [MutexNext]_mutexVars
  PROVE  MutexTypeOK'
<1> USE MutexAssumption DEF MutexTypeOK, Goto, At, Steps
<1>0. CASE UNCHANGED mutexVars
  BY <1>0 DEF mutexVars
<1>1. CASE LockAges
  BY <1>1 DEF LockAges, Dir, MutexAssumption
<1>2. ASSUME NEW p \in Processes, Request(p) \/ Acquire(p) \/ Recover(p) \/ Release(p) \/ Perish(p)
      PROVE  MutexTypeOK'
  <2> USE MutexAssumption
  <2>1. CASE Request(p)
    <3>1. count'[p] \in 0..MaxAcquisitions
      BY <2>1 DEF Request, MutexAssumption
    <3> QED BY <2>1, <3>1 DEF Request
  <2>2. CASE MakeDir(p)
    <3>1. [owner |-> NoOwner, old |-> FALSE] \in Dir
      BY NewDirs
    <3> QED BY <2>2, <3>1 DEF MakeDir
  <2>3. CASE WriteOwner(p)
    <3>1. [owner |-> TokenOf(p), old |-> FALSE] \in Dir
      BY NewDirs, TokenIs
    <3> QED BY <2>3, <3>1 DEF WriteOwner
  <2>4. CASE Judge(p)
    <3>1. mutex # NoDir => mutex.owner \in Token \cup {NoOwner}
      BY NewDirs
    <3> QED BY <2>4, <3>1 DEF Judge
  <2>5. CASE Rename(p)
    BY <2>5 DEF Rename
  <2>6. CASE Reread(p)
    BY <2>6 DEF Reread
  <2>7. CASE Restore(p)
    BY <2>7 DEF Restore
  <2>8. CASE Discard(p)
    <3>1. Empty(trash[p]) \in BOOLEAN
      BY DEF Empty
    <3> QED BY <2>8, <3>1 DEF Discard
  <2>9. CASE Leave(p) \/ CheckToken(p) \/ Remove(p)
    BY <2>9 DEF Leave, CheckToken, Remove
  <2>10. CASE Perish(p)
    BY <2>10 DEF Perish
  <2> QED BY <1>2, <2>1, <2>2, <2>3, <2>4, <2>5, <2>6, <2>7, <2>8, <2>9, <2>10
          DEF Acquire, Recover, Release
<1> QED BY <1>0, <1>1, <1>2 DEF MutexNext

-----------------------------------------------------------------------------
(* The mutex: two processes *)

Holds(p) == pc[p] \in {"critical", "check", "remove"}

\* The tokens on record anywhere: an acquisition's own is new until it writes it.
Used(t) ==
  \/ \E r \in Processes : judged[r] = t \/ (trash[r] # NoDir /\ trash[r].owner = t)
  \/ mutex # NoDir /\ mutex.owner = t
Fresh(p) ==
  \A n \in 0..MaxAcquisitions : Used([pid |-> p, n |-> n]) =>
    n <= count[p] /\ (n = count[p] => pc[p] = "idle" \/ Holds(p))

\* The directory of a holder is at the path, or was taken away by mistake and
\* will be put back.
Kept(p, q) ==
  Holds(p) =>
    /\ judged[q] # TokenOf(p)
    /\ \/ mutex # NoDir /\ mutex.owner = TokenOf(p) /\ ~mutex.old
       \/ mutex = NoDir /\ trash[q] # NoDir /\ trash[q].owner = TokenOf(p) /\ ~trash[q].old

\* While p is about to write its owner record q holds nothing; the directory p
\* made, or one that q restored over it, is at the path, or q has it.
Writing(p, q) ==
  pc[p] = "write" =>
    /\ pc[q] # "write" /\ ~Holds(q)
    /\ \/ mutex # NoDir /\ ~mutex.old /\ mutex.owner = NoOwner
       \/ /\ mutex # NoDir /\ ~mutex.old /\ mutex.owner # NoOwner /\ mutex.owner.pid = p
          /\ pc[q] \in {"idle", "mkdir", "judge"}
       \/ mutex = NoDir /\ trash[q] # NoDir /\ trash[q].owner = NoOwner /\ ~trash[q].old

\* What q has taken away is what it judged, or is the other's and new.
Away(q, p) ==
  trash[q] # NoDir =>
    /\ pc[q] = "discard" => trash[q].owner = judged[q]
    /\ pc[q] = "restore" => trash[q].owner # judged[q]
    /\ \/ trash[q].owner = judged[q]
       \/ ~trash[q].old /\ (trash[q].owner = NoOwner \/ trash[q].owner.pid = p)
    /\ trash[p] = NoDir
    /\ mutex # NoDir => pc[p] = "write" \/ Holds(p)

\* What q is about to take away likewise.
Renaming(q, p) ==
  pc[q] = "rename" =>
    /\ mutex # NoDir =>
         \/ mutex.owner = judged[q]
         \/ pc[p] = "write" /\ mutex.owner = NoOwner /\ ~mutex.old
         \/ Holds(p) /\ mutex.owner = TokenOf(p)
    /\ trash[p] # NoDir => trash[p].owner = judged[q]

Side(p, q) == Kept(p, q) /\ Writing(p, q) /\ Away(p, q) /\ Renaming(p, q)

\* One process moves, and two sides of the mutex stay as they should: it asks.
LEMMA RequestKeeps ==
  ASSUME MutexTypeOK, NEW p \in Processes, NEW q \in Processes, p # q,
         p \in alive, q \in alive, Fresh(p), Fresh(q), Side(p, q), Side(q, p),
         Request(p), ~anonymous'
  PROVE  Side(p, q)' /\ Side(q, p)'
<1> USE MutexAssumption DEF Holds, TokenOf, Request, At, Goto
<1>1. MutexTypeOK'
  BY MutexTypes DEF MutexNext, Acquire, Recover, Release
<1>a. Kept(p, q)'
  BY <1>1, NewDirs, TokenIs DEF MutexTypeOK, Side, Kept, Writing, Away, Renaming
<1>b. Kept(q, p)'
  BY <1>1, NewDirs, TokenIs DEF MutexTypeOK, Side, Kept, Writing, Away, Renaming
<1>c. Writing(p, q)'
  BY <1>1, NewDirs, TokenIs DEF MutexTypeOK, Side, Kept, Writing, Away, Renaming
<1>d. Writing(q, p)'
  BY <1>1, NewDirs, TokenIs DEF MutexTypeOK, Side, Kept, Writing, Away, Renaming
<1>e. Away(p, q)'
  BY <1>1, NewDirs, TokenIs DEF MutexTypeOK, Side, Kept, Writing, Away, Renaming
<1>f. Away(q, p)'
  BY <1>1, NewDirs, TokenIs DEF MutexTypeOK, Side, Kept, Writing, Away, Renaming
<1>g. Renaming(p, q)'
  BY <1>1, NewDirs, TokenIs DEF MutexTypeOK, Side, Kept, Writing, Away, Renaming
<1>h. Renaming(q, p)'
  BY <1>1, NewDirs, TokenIs DEF MutexTypeOK, Side, Kept, Writing, Away, Renaming
<1> QED BY <1>a, <1>b, <1>c, <1>d, <1>e, <1>f, <1>g, <1>h DEF Side

\* It makes the directory, or finds one.
LEMMA MakeDirKeeps ==
  ASSUME MutexTypeOK, NEW p \in Processes, NEW q \in Processes, p # q,
         p \in alive, q \in alive, Fresh(p), Fresh(q), Side(p, q), Side(q, p),
         MakeDir(p), ~anonymous'
  PROVE  Side(p, q)' /\ Side(q, p)'
<1> USE MutexAssumption DEF Holds, TokenOf, MakeDir, At, Goto
<1>1. MutexTypeOK'
  BY MutexTypes DEF MutexNext, Acquire, Recover, Release
<1>a. Kept(p, q)'
  BY <1>1, NewDirs, TokenIs DEF MutexTypeOK, Side, Kept, Writing, Away, Renaming
<1>b. Kept(q, p)'
  BY <1>1, NewDirs, TokenIs DEF MutexTypeOK, Side, Kept, Writing, Away, Renaming
<1>c. Writing(p, q)'
  <2> SUFFICES ASSUME mutex = NoDir PROVE Writing(p, q)'
    BY DEF MutexTypeOK, Writing
  <2>1. trash[p] = NoDir
    BY DEF MutexTypeOK
  <2>2. pc[q] # "write" /\ ~Holds(q)
    BY <2>1 DEF Side, Kept, Writing
  <2>3. pc'[q] = pc[q]
    BY DEF MutexTypeOK
  <2>4. mutex' = [owner |-> NoOwner, old |-> FALSE] /\ mutex' # NoDir
    BY NewDirs
  <2> QED BY <2>2, <2>3, <2>4 DEF Writing
<1>d. Writing(q, p)'
  BY <1>1, NewDirs, TokenIs DEF MutexTypeOK, Side, Kept, Writing, Away, Renaming
<1>e. Away(p, q)'
  BY <1>1, NewDirs, TokenIs DEF MutexTypeOK, Side, Kept, Writing, Away, Renaming
<1>f. Away(q, p)'
  BY <1>1, NewDirs, TokenIs DEF MutexTypeOK, Side, Kept, Writing, Away, Renaming
<1>g. Renaming(p, q)'
  BY <1>1, NewDirs, TokenIs DEF MutexTypeOK, Side, Kept, Writing, Away, Renaming
<1>h. Renaming(q, p)'
  BY <1>1, NewDirs, TokenIs DEF MutexTypeOK, Side, Kept, Writing, Away, Renaming
<1> QED BY <1>a, <1>b, <1>c, <1>d, <1>e, <1>f, <1>g, <1>h DEF Side

\* It writes its token into the directory that is there.
LEMMA WriteOwnerKeeps ==
  ASSUME MutexTypeOK, NEW p \in Processes, NEW q \in Processes, p # q,
         p \in alive, q \in alive, Fresh(p), Fresh(q), Side(p, q), Side(q, p),
         WriteOwner(p), ~anonymous'
  PROVE  Side(p, q)' /\ Side(q, p)'
<1> USE MutexAssumption DEF Holds, TokenOf, WriteOwner, At, Goto
<1>1. MutexTypeOK'
  BY MutexTypes DEF MutexNext, Acquire, Recover, Release
<1>a. Kept(p, q)'
  <2>1. ~Used(TokenOf(p))
    BY DEF Fresh, MutexTypeOK
  <2>2. judged[q] # TokenOf(p)
    <3> HIDE DEF TokenOf
    <3> QED BY <2>1 DEF Used
  <2>3. [owner |-> TokenOf(p), old |-> FALSE] \in Dir
    BY NewDirs, TokenIs
  <2>4. CASE mutex = NoDir
    BY <2>4 DEF MutexTypeOK, Kept
  <2>5. CASE mutex # NoDir
    <3>1. mutex' = [owner |-> TokenOf(p), old |-> FALSE] /\ mutex' # NoDir
      BY <2>3, <2>5, NewDirs
    <3>2. judged' = judged /\ count' = count
      OBVIOUS
    <3> QED BY <2>2, <3>1, <3>2 DEF Kept
  <2> QED BY <2>4, <2>5
<1>b. Kept(q, p)'
  BY <1>1, NewDirs, TokenIs DEF MutexTypeOK, Side, Kept, Writing, Away, Renaming
<1>c. Writing(p, q)'
  BY <1>1, NewDirs, TokenIs DEF MutexTypeOK, Side, Kept, Writing, Away, Renaming
<1>d. Writing(q, p)'
  BY <1>1, NewDirs, TokenIs DEF MutexTypeOK, Side, Kept, Writing, Away, Renaming
<1>e. Away(p, q)'
  BY <1>1, NewDirs, TokenIs DEF MutexTypeOK, Side, Kept, Writing, Away, Renaming
<1>f. Away(q, p)'
  BY <1>1, NewDirs, TokenIs DEF MutexTypeOK, Side, Kept, Writing, Away, Renaming
<1>g. Renaming(p, q)'
  BY <1>1, NewDirs, TokenIs DEF MutexTypeOK, Side, Kept, Writing, Away, Renaming
<1>h. Renaming(q, p)'
  BY <1>1, NewDirs, TokenIs DEF MutexTypeOK, Side, Kept, Writing, Away, Renaming
<1> QED BY <1>a, <1>b, <1>c, <1>d, <1>e, <1>f, <1>g, <1>h DEF Side

\* It judges a directory: that of a living process at work is not stale.
LEMMA JudgeKeeps ==
  ASSUME MutexTypeOK, NEW p \in Processes, NEW q \in Processes, p # q,
         p \in alive, q \in alive, Fresh(p), Fresh(q), Side(p, q), Side(q, p),
         Judge(p), ~anonymous'
  PROVE  Side(p, q)' /\ Side(q, p)'
<1> USE MutexAssumption DEF Holds, TokenOf, Judge, At, Goto
<1>1. MutexTypeOK'
  BY MutexTypes DEF MutexNext, Acquire, Recover, Release
<1>a. Kept(p, q)'
  BY <1>1, NewDirs, TokenIs DEF MutexTypeOK, Side, Kept, Writing, Away, Renaming
<1>b. Kept(q, p)'
  BY <1>1, NewDirs, TokenIs DEF MutexTypeOK, Side, Kept, Writing, Away, Renaming, IsStale
<1>c. Writing(p, q)'
  BY <1>1, NewDirs, TokenIs DEF MutexTypeOK, Side, Kept, Writing, Away, Renaming
<1>d. Writing(q, p)'
  BY <1>1, NewDirs, TokenIs DEF MutexTypeOK, Side, Kept, Writing, Away, Renaming, IsStale
<1>e. Away(p, q)'
  BY <1>1, NewDirs, TokenIs DEF MutexTypeOK, Side, Kept, Writing, Away, Renaming
<1>f. Away(q, p)'
  BY <1>1, NewDirs, TokenIs DEF MutexTypeOK, Side, Kept, Writing, Away, Renaming
<1>g. Renaming(p, q)'
  BY <1>1, NewDirs, TokenIs DEF MutexTypeOK, Side, Kept, Writing, Away, Renaming
<1>h. Renaming(q, p)'
  BY <1>1, NewDirs, TokenIs DEF MutexTypeOK, Side, Kept, Writing, Away, Renaming
<1> QED BY <1>a, <1>b, <1>c, <1>d, <1>e, <1>f, <1>g, <1>h DEF Side

\* It takes the directory away, maybe not the one it judged.
LEMMA RenameKeeps ==
  ASSUME MutexTypeOK, NEW p \in Processes, NEW q \in Processes, p # q,
         p \in alive, q \in alive, Fresh(p), Fresh(q), Side(p, q), Side(q, p),
         Rename(p), ~anonymous'
  PROVE  Side(p, q)' /\ Side(q, p)'
<1> USE MutexAssumption DEF Holds, TokenOf, Rename, At, Goto
<1>1. MutexTypeOK'
  BY MutexTypes DEF MutexNext, Acquire, Recover, Release
<1>a. Kept(p, q)'
  BY <1>1, NewDirs, TokenIs DEF MutexTypeOK, Side, Kept, Writing, Away, Renaming
<1>b. Kept(q, p)'
  BY <1>1, NewDirs, TokenIs DEF MutexTypeOK, Side, Kept, Writing, Away, Renaming
<1>c. Writing(p, q)'
  BY <1>1, NewDirs, TokenIs DEF MutexTypeOK, Side, Kept, Writing, Away, Renaming
<1>d. Writing(q, p)'
  BY <1>1, NewDirs, TokenIs DEF MutexTypeOK, Side, Kept, Writing, Away, Renaming
<1>e. Away(p, q)'
  BY <1>1, NewDirs, TokenIs DEF MutexTypeOK, Side, Kept, Writing, Away, Renaming
<1>f. Away(q, p)'
  BY <1>1, NewDirs, TokenIs DEF MutexTypeOK, Side, Kept, Writing, Away, Renaming
<1>g. Renaming(p, q)'
  BY <1>1, NewDirs, TokenIs DEF MutexTypeOK, Side, Kept, Writing, Away, Renaming
<1>h. Renaming(q, p)'
  BY <1>1, NewDirs, TokenIs DEF MutexTypeOK, Side, Kept, Writing, Away, Renaming
<1> QED BY <1>a, <1>b, <1>c, <1>d, <1>e, <1>f, <1>g, <1>h DEF Side

\* It looks at what it took.
LEMMA RereadKeeps ==
  ASSUME MutexTypeOK, NEW p \in Processes, NEW q \in Processes, p # q,
         p \in alive, q \in alive, Fresh(p), Fresh(q), Side(p, q), Side(q, p),
         Reread(p), ~anonymous'
  PROVE  Side(p, q)' /\ Side(q, p)'
<1> USE MutexAssumption DEF Holds, TokenOf, Reread, At, Goto
<1>1. MutexTypeOK'
  BY MutexTypes DEF MutexNext, Acquire, Recover, Release
<1>a. Kept(p, q)'
  BY <1>1, NewDirs, TokenIs DEF MutexTypeOK, Side, Kept, Writing, Away, Renaming
<1>b. Kept(q, p)'
  BY <1>1, NewDirs, TokenIs DEF MutexTypeOK, Side, Kept, Writing, Away, Renaming
<1>c. Writing(p, q)'
  BY <1>1, NewDirs, TokenIs DEF MutexTypeOK, Side, Kept, Writing, Away, Renaming
<1>d. Writing(q, p)'
  BY <1>1, NewDirs, TokenIs DEF MutexTypeOK, Side, Kept, Writing, Away, Renaming
<1>e. Away(p, q)'
  BY <1>1, NewDirs, TokenIs DEF MutexTypeOK, Side, Kept, Writing, Away, Renaming
<1>f. Away(q, p)'
  BY <1>1, NewDirs, TokenIs DEF MutexTypeOK, Side, Kept, Writing, Away, Renaming
<1>g. Renaming(p, q)'
  BY <1>1, NewDirs, TokenIs DEF MutexTypeOK, Side, Kept, Writing, Away, Renaming
<1>h. Renaming(q, p)'
  BY <1>1, NewDirs, TokenIs DEF MutexTypeOK, Side, Kept, Writing, Away, Renaming
<1> QED BY <1>a, <1>b, <1>c, <1>d, <1>e, <1>f, <1>g, <1>h DEF Side

\* It puts back what it should not have taken.
LEMMA RestoreKeeps ==
  ASSUME MutexTypeOK, NEW p \in Processes, NEW q \in Processes, p # q,
         p \in alive, q \in alive, Fresh(p), Fresh(q), Side(p, q), Side(q, p),
         Restore(p), ~anonymous'
  PROVE  Side(p, q)' /\ Side(q, p)'
<1> USE MutexAssumption DEF Holds, TokenOf, Restore, At, Goto
<1>1. MutexTypeOK'
  BY MutexTypes DEF MutexNext, Acquire, Recover, Release
<1>a. Kept(p, q)'
  BY <1>1, NewDirs, TokenIs DEF MutexTypeOK, Side, Kept, Writing, Away, Renaming
<1>b. Kept(q, p)'
  BY <1>1, NewDirs, TokenIs DEF MutexTypeOK, Side, Kept, Writing, Away, Renaming, Empty
<1>c. Writing(p, q)'
  BY <1>1, NewDirs, TokenIs DEF MutexTypeOK, Side, Kept, Writing, Away, Renaming
<1>d. Writing(q, p)'
  BY <1>1, NewDirs, TokenIs DEF MutexTypeOK, Side, Kept, Writing, Away, Renaming
<1>e. Away(p, q)'
  BY <1>1, NewDirs, TokenIs DEF MutexTypeOK, Side, Kept, Writing, Away, Renaming
<1>f. Away(q, p)'
  BY <1>1, NewDirs, TokenIs DEF MutexTypeOK, Side, Kept, Writing, Away, Renaming
<1>g. Renaming(p, q)'
  BY <1>1, NewDirs, TokenIs DEF MutexTypeOK, Side, Kept, Writing, Away, Renaming
<1>h. Renaming(q, p)'
  BY <1>1, NewDirs, TokenIs DEF MutexTypeOK, Side, Kept, Writing, Away, Renaming
<1> QED BY <1>a, <1>b, <1>c, <1>d, <1>e, <1>f, <1>g, <1>h DEF Side

\* It discards what it judged: nobody at work has that token.
LEMMA DiscardKeeps ==
  ASSUME MutexTypeOK, NEW p \in Processes, NEW q \in Processes, p # q,
         p \in alive, q \in alive, Fresh(p), Fresh(q), Side(p, q), Side(q, p),
         Discard(p), ~anonymous'
  PROVE  Side(p, q)' /\ Side(q, p)'
<1> USE MutexAssumption DEF Holds, TokenOf, Discard, At, Goto
<1>1. MutexTypeOK'
  BY MutexTypes DEF MutexNext, Acquire, Recover, Release
<1>a. Kept(p, q)'
  BY <1>1, NewDirs, TokenIs DEF MutexTypeOK, Side, Kept, Writing, Away, Renaming
<1>b. Kept(q, p)'
  BY <1>1, NewDirs, TokenIs DEF MutexTypeOK, Side, Kept, Writing, Away, Renaming
<1>c. Writing(p, q)'
  BY <1>1, NewDirs, TokenIs DEF MutexTypeOK, Side, Kept, Writing, Away, Renaming
<1>d. Writing(q, p)'
  <2> SUFFICES ASSUME pc[q] = "write" PROVE Writing(q, p)'
    BY DEF MutexTypeOK, Writing
  <2>1. ~(trash[p] # NoDir /\ trash[p].owner = NoOwner)
    BY DEF Empty
  <2>2. pc[p] # "write" /\ ~Holds(p) /\ mutex # NoDir /\ ~mutex.old /\ mutex.owner = NoOwner
    BY <2>1 DEF Side, Writing
  <2>3. pc'[p] = "mkdir" /\ mutex' = mutex
    BY DEF MutexTypeOK
  <2> QED BY <2>2, <2>3 DEF Writing
<1>e. Away(p, q)'
  BY <1>1, NewDirs, TokenIs DEF MutexTypeOK, Side, Kept, Writing, Away, Renaming
<1>f. Away(q, p)'
  BY <1>1, NewDirs, TokenIs DEF MutexTypeOK, Side, Kept, Writing, Away, Renaming
<1>g. Renaming(p, q)'
  BY <1>1, NewDirs, TokenIs DEF MutexTypeOK, Side, Kept, Writing, Away, Renaming
<1>h. Renaming(q, p)'
  BY <1>1, NewDirs, TokenIs DEF MutexTypeOK, Side, Kept, Writing, Away, Renaming
<1> QED BY <1>a, <1>b, <1>c, <1>d, <1>e, <1>f, <1>g, <1>h DEF Side

\* It leaves the critical section.
LEMMA LeaveKeeps ==
  ASSUME MutexTypeOK, NEW p \in Processes, NEW q \in Processes, p # q,
         p \in alive, q \in alive, Fresh(p), Fresh(q), Side(p, q), Side(q, p),
         Leave(p), ~anonymous'
  PROVE  Side(p, q)' /\ Side(q, p)'
<1> USE MutexAssumption DEF Holds, TokenOf, Leave, At, Goto
<1>1. MutexTypeOK'
  BY MutexTypes DEF MutexNext, Acquire, Recover, Release
<1>a. Kept(p, q)'
  BY <1>1, NewDirs, TokenIs DEF MutexTypeOK, Side, Kept, Writing, Away, Renaming
<1>b. Kept(q, p)'
  BY <1>1, NewDirs, TokenIs DEF MutexTypeOK, Side, Kept, Writing, Away, Renaming
<1>c. Writing(p, q)'
  BY <1>1, NewDirs, TokenIs DEF MutexTypeOK, Side, Kept, Writing, Away, Renaming
<1>d. Writing(q, p)'
  BY <1>1, NewDirs, TokenIs DEF MutexTypeOK, Side, Kept, Writing, Away, Renaming
<1>e. Away(p, q)'
  BY <1>1, NewDirs, TokenIs DEF MutexTypeOK, Side, Kept, Writing, Away, Renaming
<1>f. Away(q, p)'
  BY <1>1, NewDirs, TokenIs DEF MutexTypeOK, Side, Kept, Writing, Away, Renaming
<1>g. Renaming(p, q)'
  BY <1>1, NewDirs, TokenIs DEF MutexTypeOK, Side, Kept, Writing, Away, Renaming
<1>h. Renaming(q, p)'
  BY <1>1, NewDirs, TokenIs DEF MutexTypeOK, Side, Kept, Writing, Away, Renaming
<1> QED BY <1>a, <1>b, <1>c, <1>d, <1>e, <1>f, <1>g, <1>h DEF Side

\* It looks whether the directory is its own.
LEMMA CheckTokenKeeps ==
  ASSUME MutexTypeOK, NEW p \in Processes, NEW q \in Processes, p # q,
         p \in alive, q \in alive, Fresh(p), Fresh(q), Side(p, q), Side(q, p),
         CheckToken(p), ~anonymous'
  PROVE  Side(p, q)' /\ Side(q, p)'
<1> USE MutexAssumption DEF Holds, TokenOf, CheckToken, At, Goto
<1>1. MutexTypeOK'
  BY MutexTypes DEF MutexNext, Acquire, Recover, Release
<1>a. Kept(p, q)'
  BY <1>1, NewDirs, TokenIs DEF MutexTypeOK, Side, Kept, Writing, Away, Renaming
<1>b. Kept(q, p)'
  BY <1>1, NewDirs, TokenIs DEF MutexTypeOK, Side, Kept, Writing, Away, Renaming
<1>c. Writing(p, q)'
  BY <1>1, NewDirs, TokenIs DEF MutexTypeOK, Side, Kept, Writing, Away, Renaming
<1>d. Writing(q, p)'
  BY <1>1, NewDirs, TokenIs DEF MutexTypeOK, Side, Kept, Writing, Away, Renaming
<1>e. Away(p, q)'
  BY <1>1, NewDirs, TokenIs DEF MutexTypeOK, Side, Kept, Writing, Away, Renaming
<1>f. Away(q, p)'
  BY <1>1, NewDirs, TokenIs DEF MutexTypeOK, Side, Kept, Writing, Away, Renaming
<1>g. Renaming(p, q)'
  BY <1>1, NewDirs, TokenIs DEF MutexTypeOK, Side, Kept, Writing, Away, Renaming
<1>h. Renaming(q, p)'
  BY <1>1, NewDirs, TokenIs DEF MutexTypeOK, Side, Kept, Writing, Away, Renaming
<1> QED BY <1>a, <1>b, <1>c, <1>d, <1>e, <1>f, <1>g, <1>h DEF Side

\* It removes its own directory.
LEMMA RemoveKeeps ==
  ASSUME MutexTypeOK, NEW p \in Processes, NEW q \in Processes, p # q,
         p \in alive, q \in alive, Fresh(p), Fresh(q), Side(p, q), Side(q, p),
         Remove(p), ~anonymous'
  PROVE  Side(p, q)' /\ Side(q, p)'
<1> USE MutexAssumption DEF Holds, TokenOf, Remove, At, Goto
<1>1. MutexTypeOK'
  BY MutexTypes DEF MutexNext, Acquire, Recover, Release
<1>a. Kept(p, q)'
  BY <1>1, NewDirs, TokenIs DEF MutexTypeOK, Side, Kept, Writing, Away, Renaming
<1>b. Kept(q, p)'
  BY <1>1, NewDirs, TokenIs DEF MutexTypeOK, Side, Kept, Writing, Away, Renaming
<1>c. Writing(p, q)'
  BY <1>1, NewDirs, TokenIs DEF MutexTypeOK, Side, Kept, Writing, Away, Renaming
<1>d. Writing(q, p)'
  BY <1>1, NewDirs, TokenIs DEF MutexTypeOK, Side, Kept, Writing, Away, Renaming
<1>e. Away(p, q)'
  BY <1>1, NewDirs, TokenIs DEF MutexTypeOK, Side, Kept, Writing, Away, Renaming
<1>f. Away(q, p)'
  BY <1>1, NewDirs, TokenIs DEF MutexTypeOK, Side, Kept, Writing, Away, Renaming
<1>g. Renaming(p, q)'
  BY <1>1, NewDirs, TokenIs DEF MutexTypeOK, Side, Kept, Writing, Away, Renaming
<1>h. Renaming(q, p)'
  BY <1>1, NewDirs, TokenIs DEF MutexTypeOK, Side, Kept, Writing, Away, Renaming
<1> QED BY <1>a, <1>b, <1>c, <1>d, <1>e, <1>f, <1>g, <1>h DEF Side


-----------------------------------------------------------------------------
(* The mutex: tokens *)

\* Only an acquisition that writes its token adds one.
LEMMA UsedGrows ==
  ASSUME MutexTypeOK, [MutexNext]_mutexVars, NEW t \in Token, Used(t)'
  PROVE  Used(t) \/ \E r \in Processes : WriteOwner(r) /\ t = TokenOf(r) /\ pc'[r] = "critical"
<1> USE MutexAssumption DEF MutexTypeOK, Goto, At
<1>0. t # NoOwner
  BY DEF MutexAssumption
<1>1. ASSUME UNCHANGED <<mutex, trash, judged>>
      PROVE  Used(t)
  BY <1>1 DEF Used
<1>2. CASE LockAges
  <2>1. mutex # NoDir /\ mutex' = [mutex EXCEPT !.old = TRUE] /\ UNCHANGED <<trash, judged>>
    BY <1>2 DEF LockAges
  <2>2. mutex'.owner = mutex.owner
    BY <2>1 DEF Dir
  <2> QED BY <2>1, <2>2 DEF Used
<1>3. ASSUME NEW r \in Processes, MakeDir(r)
      PROVE  Used(t)
  <2>1. UNCHANGED <<trash, judged>> /\ (mutex' = mutex \/ mutex'.owner = NoOwner)
    BY <1>3 DEF MakeDir
  <2> QED BY <1>0, <2>1 DEF Used
<1>4. ASSUME NEW r \in Processes, WriteOwner(r)
      PROVE  Used(t) \/ (t = TokenOf(r) /\ pc'[r] = "critical")
  <2>1. UNCHANGED <<trash, judged>>
    BY <1>4 DEF WriteOwner
  <2>2. mutex' = mutex \/ (mutex'.owner = TokenOf(r) /\ pc'[r] = "critical")
    BY <1>4 DEF WriteOwner
  <2> QED BY <2>1, <2>2 DEF Used
<1>5. ASSUME NEW r \in Processes, Judge(r)
      PROVE  Used(t)
  <2>1. UNCHANGED <<trash, mutex>>
    BY <1>5 DEF Judge
  <2>2. judged' = judged \/ (mutex # NoDir /\ judged' = [judged EXCEPT ![r] = mutex.owner])
    BY <1>5 DEF Judge
  <2>3. \A s \in Processes : judged'[s] = judged[s] \/ (mutex # NoDir /\ judged'[s] = mutex.owner)
    BY <2>2
  <2> QED BY <2>1, <2>3 DEF Used
<1>6. ASSUME NEW r \in Processes, Rename(r)
      PROVE  Used(t)
  <2>1. judged' = judged /\ (mutex' = mutex \/ mutex' = NoDir)
    BY <1>6 DEF Rename
  <2>2. \A s \in Processes : trash'[s] = trash[s] \/ trash'[s] = mutex
    BY <1>6 DEF Rename
  <2> QED BY <2>1, <2>2 DEF Used
<1>7. ASSUME NEW r \in Processes, Restore(r)
      PROVE  Used(t)
  <2>1. judged' = judged /\ (mutex' = mutex \/ mutex' = trash[r])
    BY <1>7 DEF Restore
  <2>2. \A s \in Processes : trash'[s] = trash[s] \/ trash'[s] = NoDir
    BY <1>7 DEF Restore
  <2> QED BY <2>1, <2>2 DEF Used
<1>8. ASSUME NEW r \in Processes, Discard(r)
      PROVE  Used(t)
  <2>1. judged' = judged /\ mutex' = mutex
    BY <1>8 DEF Discard
  <2>2. \A s \in Processes : trash'[s] = trash[s] \/ trash'[s] = NoDir
    BY <1>8 DEF Discard
  <2> QED BY <2>1, <2>2 DEF Used
<1>9. ASSUME NEW r \in Processes, Remove(r)
      PROVE  Used(t)
  <2>1. UNCHANGED <<trash, judged>> /\ mutex' = NoDir
    BY <1>9 DEF Remove
  <2> QED BY <2>1 DEF Used
<1>10. ASSUME NEW r \in Processes, Request(r) \/ Reread(r) \/ Leave(r) \/ CheckToken(r) \/ Perish(r)
       PROVE  Used(t)
  BY <1>1, <1>10 DEF Request, Reread, Leave, CheckToken, Perish
<1>11. CASE UNCHANGED mutexVars
  BY <1>1, <1>11 DEF mutexVars
<1> QED BY <1>2, <1>3, <1>4, <1>5, <1>6, <1>7, <1>8, <1>9, <1>10, <1>11
        DEF MutexNext, Acquire, Recover, Release

\* An acquisition keeps its token until it has let go.
LEMMA Counts ==
  ASSUME MutexTypeOK, [MutexNext]_mutexVars, NEW p \in Processes
  PROVE  /\ count[p] \in Nat
         /\ \/ count'[p] = count[p] /\ (pc[p] = "idle" \/ Holds(p) => pc'[p] = "idle" \/ Holds(p)')
            \/ count'[p] = count[p] + 1
<1> USE DEF MutexTypeOK, Goto, At, Holds
<1>1. CASE UNCHANGED <<count, pc>>
  BY <1>1
<1>2. ASSUME NEW r \in Processes,
             Request(r) \/ Acquire(r) \/ Recover(r) \/ Release(r)
      PROVE  \/ count'[p] = count[p] /\ (pc[p] = "idle" \/ Holds(p) => pc'[p] = "idle" \/ Holds(p)')
             \/ count'[p] = count[p] + 1
  <2>1. CASE Request(r)
    BY <2>1 DEF Request
  <2>2. CASE Release(r)
    BY <2>2 DEF Release, Leave, CheckToken, Remove
  <2>3. CASE Acquire(r)
    BY <2>3 DEF Acquire, MakeDir, WriteOwner
  <2>4. CASE Recover(r)
    BY <2>4 DEF Recover, Judge, Rename, Reread, Restore, Discard
  <2> QED BY <1>2, <2>1, <2>2, <2>3, <2>4
<1>3. ASSUME NEW r \in Processes, Perish(r) PROVE UNCHANGED <<count, pc>>
  BY <1>3 DEF Perish
<1> QED BY <1>1, <1>2, <1>3 DEF MutexNext, LockAges, mutexVars

\* No token is used again.
LEMMA FreshKept ==
  ASSUME MutexTypeOK, [MutexNext]_mutexVars, NEW p \in Processes, Fresh(p)
  PROVE  Fresh(p)'
<1> USE MutexAssumption
<1> SUFFICES ASSUME NEW n \in 0..MaxAcquisitions, Used([pid |-> p, n |-> n])'
             PROVE  n <= count'[p] /\ (n = count'[p] => pc'[p] = "idle" \/ Holds(p)')
  BY DEF Fresh
<1> DEFINE t == [pid |-> p, n |-> n]
<1>1. t \in Token /\ t.pid = p /\ t.n = n
  BY DEF Token
<1>2. CASE Used(t)
  <2>1. n <= count[p] /\ (n = count[p] => pc[p] = "idle" \/ Holds(p))
    BY <1>2 DEF Fresh
  <2>2. n \in Nat
    BY DEF MutexAssumption
  <2> QED BY <2>1, <2>2, Counts
<1>3. ASSUME NEW r \in Processes, WriteOwner(r), t = TokenOf(r), pc'[r] = "critical"
      PROVE  n <= count'[p] /\ (n = count'[p] => pc'[p] = "idle" \/ Holds(p)')
  <2>1. r = p /\ n = count[p] /\ count' = count
    BY <1>1, <1>3, TokenIs DEF WriteOwner
  <2> QED BY <1>3, <2>1, Counts DEF Holds
<1> HIDE DEF t
<1>4. Used(t)'
  BY DEF t
<1> QED BY <1>1, <1>2, <1>3, <1>4, UsedGrows

-----------------------------------------------------------------------------
(* The mutex: the invariant *)

\* A directory ages only when nobody at work holds it.
LEMMA AgesKeeps ==
  ASSUME MutexTypeOK, NEW p \in Processes, NEW q \in Processes, p # q,
         p \in alive, q \in alive, Side(p, q), Side(q, p), LockAges
  PROVE  Side(p, q)'
<1> USE MutexAssumption
<1>1. /\ mutex # NoDir /\ mutex' = [mutex EXCEPT !.old = TRUE]
      /\ UNCHANGED <<trash, alive, pc, count, judged, anonymous>>
  BY DEF LockAges
<1>2. mutex \in Dir /\ mutex' \in Dir /\ mutex' # NoDir /\ mutex'.owner = mutex.owner
  <2>1. mutex \in Dir
    BY <1>1 DEF MutexTypeOK
  <2>2. mutex' \in Dir /\ mutex'.owner = mutex.owner
    BY <1>1, <2>1 DEF Dir
  <2> QED BY <2>1, <2>2 DEF MutexAssumption
<1>3. pc[p] # "write" /\ pc[q] # "write"
  BY DEF LockAges, Creating
<1>4. ~(Holds(p) /\ mutex.owner = TokenOf(p)) /\ ~(Holds(q) /\ mutex.owner = TokenOf(q))
  BY TokenIs DEF LockAges, Holding, Holds
<1>5. ~Holds(p) /\ ~Holds(q)
  BY <1>1, <1>4 DEF Side, Kept
<1>6. Kept(p, q)' /\ Writing(p, q)'
  BY <1>1, <1>3, <1>5 DEF Kept, Writing, Holds
<1>7. Away(p, q)'
  BY <1>1, <1>3, <1>5 DEF Side, Away, Holds
<1>8. Renaming(p, q)'
  BY <1>1, <1>2, <1>3, <1>5 DEF Side, Renaming, Holds
<1> QED BY <1>6, <1>7, <1>8 DEF Side

MutexInv ==
  /\ MutexTypeOK /\ \A p \in Processes : Fresh(p)
  /\ alive = Processes /\ ~anonymous => \A p, q \in Processes : p # q => Side(p, q)

\* Nobody holds anything.
LEMMA InitMutexInv == ASSUME MutexInit PROVE MutexInv
<1> USE MutexAssumption
<1>1. MutexTypeOK
  BY InitMutexTypes
<1>2. \A p \in Processes : Fresh(p)
  <2> SUFFICES ASSUME NEW p \in Processes, NEW n \in 0..MaxAcquisitions, Used([pid |-> p, n |-> n])
               PROVE  FALSE
    BY DEF Fresh
  <2> DEFINE t == [pid |-> p, n |-> n]
  <2>1. t \in Token /\ t # NoOwner /\ t.pid = p /\ p # Dead
    BY DEF MutexAssumption, Token
  <2>2. mutex # NoDir => mutex.owner = NoOwner \/ mutex.owner.pid = Dead
    BY DEF MutexInit, LeftAs
  <2>3. \A r \in Processes : judged[r] = NoOwner /\ trash[r] = NoDir
    BY DEF MutexInit
  <2>4. Used(t)
    OBVIOUS
  <2> HIDE DEF t
  <2> QED BY <2>1, <2>2, <2>3, <2>4 DEF Used
<1>3. \A p, q \in Processes : Side(p, q)
  <2>1. \A p \in Processes : pc[p] = "idle" /\ trash[p] = NoDir
    BY DEF MutexInit
  <2> QED BY <2>1 DEF Side, Kept, Writing, Away, Renaming, Holds
<1> QED BY <1>1, <1>2, <1>3 DEF MutexInv

\* Every step keeps the mutex, as long as nobody dies: then one process is left.
LEMMA MutexStepKeeps ==
  ASSUME Pair, MutexInv, [MutexNext]_mutexVars
  PROVE  MutexInv'
<1> USE MutexAssumption
<1>1. MutexTypeOK /\ MutexTypeOK' /\ (\A p \in Processes : Fresh(p)')
  BY MutexTypes, FreshKept DEF MutexInv
<1> SUFFICES ASSUME alive' = Processes, ~anonymous', NEW p \in Processes, NEW q \in Processes, p # q
             PROVE  Side(p, q)'
  BY <1>1 DEF MutexInv
<1>2. ~anonymous /\ alive' \subseteq alive
  <2>1. CASE UNCHANGED mutexVars \/ LockAges
    BY <2>1 DEF mutexVars, LockAges
  <2>2. ASSUME NEW r \in Processes,
               Request(r) \/ Acquire(r) \/ Recover(r) \/ Release(r) \/ Perish(r)
        PROVE  ~anonymous /\ alive' \subseteq alive
    <3> USE DEF Request, Acquire, Recover, Release, Perish, MakeDir, WriteOwner, Judge, Rename,
                Reread, Restore, Discard, Leave, CheckToken, Remove
    <3>1. CASE Request(r) \/ Perish(r)
      BY <3>1
    <3>2. CASE Acquire(r) \/ Release(r)
      BY <3>2
    <3>3. CASE Recover(r)
      <4>1. CASE Judge(r) \/ Rename(r) \/ Reread(r) \/ Restore(r)
        <5>1. UNCHANGED <<alive, anonymous>>
          BY <4>1
        <5> QED BY <5>1
      <4>2. CASE Discard(r)
        <5>1. alive' = alive /\ anonymous' = (anonymous \/ Empty(trash[r]))
          BY <4>2
        <5> QED BY <5>1
      <4> QED BY <3>3, <4>1, <4>2
    <3> QED BY <2>2, <3>1, <3>2, <3>3
  <2> QED BY <2>1, <2>2 DEF MutexNext
<1>3. /\ alive = Processes /\ p \in alive /\ q \in alive
      /\ Fresh(p) /\ Fresh(q) /\ Side(p, q) /\ Side(q, p)
  BY <1>1, <1>2 DEF MutexInv, MutexTypeOK
<1>4. ASSUME NEW r \in {p, q}, NEW s \in {p, q}, r # s,
             Request(r) \/ Acquire(r) \/ Recover(r) \/ Release(r)
      PROVE  Side(r, s)' /\ Side(s, r)'
  <2>1. /\ r \in Processes /\ s \in Processes /\ r \in alive /\ s \in alive
        /\ Fresh(r) /\ Fresh(s) /\ Side(r, s) /\ Side(s, r)
    BY <1>3, <1>4
  <2>2. CASE Request(r)
    BY <1>1, <1>4, <2>1, <2>2, RequestKeeps
  <2>3. CASE Acquire(r)
    BY <1>1, <1>4, <2>1, <2>3, MakeDirKeeps, WriteOwnerKeeps DEF Acquire
  <2>4. CASE Release(r)
    BY <1>1, <1>4, <2>1, <2>4, LeaveKeeps, CheckTokenKeeps, RemoveKeeps DEF Release
  <2>5. CASE Recover(r)
    BY <1>1, <1>4, <2>1, <2>5, JudgeKeeps, RenameKeeps, RereadKeeps, RestoreKeeps, DiscardKeeps
       DEF Recover
  <2> QED BY <1>4, <2>2, <2>3, <2>4, <2>5
<1>5. CASE LockAges
  BY <1>1, <1>3, <1>5, AgesKeeps
<1>6. CASE UNCHANGED mutexVars
  BY <1>3, <1>6 DEF mutexVars, Side, Kept, Writing, Away, Renaming, Holds, TokenOf
<1>7. ASSUME NEW r \in Processes, Perish(r)
      PROVE  FALSE
  BY <1>3, <1>7 DEF Perish
<1>8. ASSUME NEW r \in Processes, Request(r) \/ Acquire(r) \/ Recover(r) \/ Release(r)
      PROVE  Side(p, q)'
  <2>1. r = p \/ r = q
    BY DEF Pair
  <2> QED BY <1>4, <1>8, <2>1
<1> QED BY <1>5, <1>6, <1>7, <1>8 DEF MutexNext

\* Two that are alive are not both in the critical section, unless a directory
\* without an owner was discarded.
LEMMA OneInside ==
  ASSUME Pair, MutexInv, ~anonymous, NEW p \in alive, NEW q \in alive,
         pc[p] = "critical", pc[q] = "critical"
  PROVE  p = q
<1> USE MutexAssumption
<1> SUFFICES ASSUME p # q PROVE FALSE
  OBVIOUS
<1>1. alive = Processes
  BY DEF Pair, MutexInv, MutexTypeOK
<1>2. Side(p, q) /\ Side(q, p) /\ MutexTypeOK
  BY <1>1 DEF MutexInv
<1>3. trash[p] = NoDir /\ trash[q] = NoDir
  BY <1>1, <1>2 DEF MutexTypeOK
<1>4. mutex # NoDir /\ mutex.owner = TokenOf(p) /\ mutex.owner = TokenOf(q)
  BY <1>2, <1>3 DEF Side, Kept, Holds
<1> QED BY <1>1, <1>2, <1>4, TokenIs

-----------------------------------------------------------------------------
(* The lock of the service: where its starts stand *)

Acquiring == {"mkdir", "write", "judge", "rename", "reread", "restore", "discard"}

FileTypes ==
  /\ file \in File \cup {NoFile} /\ stage \in [Processes -> Stages]
  /\ starts \in [Processes -> 0..MaxStarts] /\ recovered \in [Processes -> BOOLEAN]
  /\ unnoticed \in BOOLEAN /\ misread \in BOOLEAN /\ gap \in BOOLEAN

\* A start asks for the mutex and works inside it, and returns when it has let go.
Inside(p) ==
  /\ stage[p] \in {"down", "create", "fill", "held", "unlink"} => pc[p] = "idle"
  /\ stage[p] = "queue" => pc[p] \in Acquiring \cup {"critical"}
  /\ stage[p] \in {"read", "remove", "recreate", "refill"} => pc[p] = "critical"
  /\ stage[p] \in {"entered", "refused"} => pc[p] \in {"check", "remove", "idle"}

Unreported(p) ==
  stage[p] \in {"create", "fill", "queue", "read", "remove", "recreate"} => ~recovered[p]

Orderly == FileTypes /\ \A p \in Processes : Inside(p) /\ Unreported(p)

\* What a lock file is, before and after it is filled.
LEMMA NewFiles ==
  ASSUME FileTypes
  PROVE  /\ \A p \in Processes : /\ Me(p).pid = p /\ Me(p).n = starts[p]
                               /\ \A b \in BOOLEAN : [by |-> Me(p), whole |-> b] \in File
                               /\ Filled(p) \in File \cup {NoFile}
         /\ \A f \in File : f # NoFile /\ f.by \in Holder /\ f.whole \in BOOLEAN
         /\ \A f \in File : /\ [f EXCEPT !.whole = TRUE] \in File /\ [f EXCEPT !.whole = TRUE].by = f.by
                               /\ [f EXCEPT !.whole = TRUE].whole = TRUE
<1> USE InstanceAssumption
<1>1. \A p \in Processes : Me(p) \in Holder /\ Me(p).pid = p /\ Me(p).n = starts[p]
  BY DEF Holder, Me, FileTypes
<1>2. \A f \in File : /\ [f EXCEPT !.whole = TRUE] \in File /\ [f EXCEPT !.whole = TRUE].by = f.by
                            /\ [f EXCEPT !.whole = TRUE].whole = TRUE
  BY DEF File
<1>3. \A f \in File : f # NoFile /\ f.by \in Holder /\ f.whole \in BOOLEAN
  BY DEF File, InstanceAssumption
<1>4. \A p \in Processes : \A b \in BOOLEAN : [by |-> Me(p), whole |-> b] \in File
  BY <1>1 DEF File
<1>5. \A p \in Processes : Filled(p) \in File \cup {NoFile}
  BY <1>1, <1>2, <1>4 DEF FileTypes, Filled
<1> QED BY <1>1, <1>2, <1>3, <1>4, <1>5

\* Where an acquisition stands after a step of its mutex.
LEMMA MutexMoves ==
  ASSUME MutexTypeOK, NEW p \in Processes, MutexStep(p)
  PROVE  /\ alive' = alive /\ UNCHANGED lockVars
         /\ \A r \in Processes : r # p => pc'[r] = pc[r]
         /\ \/ pc[p] \in Acquiring /\ pc'[p] \in Acquiring \cup {"critical"}
            \/ pc[p] = "check" /\ pc'[p] \in {"remove", "idle"}
            \/ pc[p] = "remove" /\ pc'[p] = "idle"
<1> USE DEF MutexTypeOK, Goto, At, Acquiring
<1>1. CASE Acquire(p)
  BY <1>1 DEF MutexStep, Acquire, MakeDir, WriteOwner
<1>2. CASE Recover(p)
  BY <1>2 DEF MutexStep, Recover, Judge, Rename, Reread, Restore, Discard
<1>3. CASE CheckToken(p) \/ Remove(p)
  BY <1>3 DEF MutexStep, CheckToken, Remove
<1> QED BY <1>1, <1>2, <1>3 DEF MutexStep

\* A step of the lock is a step of the mutex, or leaves it alone.
LEMMA MutexPart ==
  ASSUME LockNext \/ UNCHANGED allVars
  PROVE  [MutexNext]_mutexVars
<1>1. ASSUME NEW p \in Processes, Start(p) \/ ReleaseService(p) \/ Dies(p) PROVE [MutexNext]_mutexVars
  BY <1>1 DEF Start, ReleaseService, Dies, MutexNext
<1>2. ASSUME NEW p \in Processes, Create(p) \/ Fill(p) \/ Retry(p) \/ Read(p) \/ RemoveStale(p)
      PROVE [MutexNext]_mutexVars
  BY <1>2 DEF Create, Fill, Retry, Read, RemoveStale, MutexNext, Release
<1>3. ASSUME NEW p \in Processes, Recreate(p) \/ Refill(p) \/ Return(p) \/ Unlink(p) \/ MutexStep(p)
      PROVE [MutexNext]_mutexVars
  BY <1>3 DEF Recreate, Refill, Return, Unlink, MutexStep, MutexNext, Release
<1> QED BY <1>1, <1>2, <1>3 DEF LockNext, Works, MutexAges, MutexNext, allVars

\* No start is under way.
LEMMA InitOrderly == ASSUME LockInit PROVE Orderly
<1> USE MutexAssumption, InstanceAssumption
<1>1. 0 \in 0..MaxStarts
  BY DEF InstanceAssumption, MutexAssumption
<1>2. FileTypes
  BY <1>1 DEF LockInit, FileTypes, InstanceAssumption, Stages
<1>3. \A p \in Processes : Inside(p) /\ Unreported(p)
  BY DEF LockInit, MutexInit, Inside, Unreported
<1> QED BY <1>2, <1>3 DEF Orderly

\* Each step leaves every start where its mutex lets it be.
LEMMA StartOrderly ==
  ASSUME MutexTypeOK, Orderly, NEW p \in Processes, Start(p)
  PROVE  Orderly'
<1> USE MutexAssumption, InstanceAssumption DEF Start, AtStage, To, At, Goto, Locked
<1>1. FileTypes'
  BY NewFiles DEF Orderly, FileTypes, Stages, InstanceAssumption, mutexVars
<1>2. ASSUME NEW r \in Processes PROVE Inside(r)' /\ Unreported(r)'
  BY DEF Orderly, FileTypes, Inside, Unreported, MutexTypeOK, mutexVars, Acquiring
<1> QED BY <1>1, <1>2 DEF Orderly

\* The same for creating the file.
LEMMA CreateOrderly ==
  ASSUME MutexTypeOK, Orderly, NEW p \in Processes, Create(p)
  PROVE  Orderly'
<1> USE MutexAssumption, InstanceAssumption DEF Create, Request, AtStage, To, At, Goto, Locked
<1>1. FileTypes'
  <2>1. [by |-> Me(p), whole |-> FALSE] \in File
    BY NewFiles DEF Orderly
  <2>2. file' \in File \cup {NoFile} /\ stage' \in [Processes -> Stages]
    BY <2>1 DEF Orderly, FileTypes, Stages
  <2>3. starts' = starts /\ unnoticed' = unnoticed /\ misread' = misread
    OBVIOUS
  <2>4. gap' \in BOOLEAN /\ recovered' \in [Processes -> BOOLEAN]
    BY DEF Orderly, FileTypes
  <2> QED BY <2>2, <2>3, <2>4 DEF Orderly, FileTypes
<1>2. ASSUME NEW r \in Processes PROVE Inside(r)' /\ Unreported(r)'
  BY DEF Orderly, FileTypes, Inside, Unreported, MutexTypeOK, mutexVars, Acquiring
<1> QED BY <1>1, <1>2 DEF Orderly

\* The same for filling it.
LEMMA FillOrderly ==
  ASSUME MutexTypeOK, Orderly, NEW p \in Processes, Fill(p)
  PROVE  Orderly'
<1> USE MutexAssumption, InstanceAssumption DEF Fill, Serves, AtStage, To, At, Goto, Locked
<1>1. FileTypes'
  BY NewFiles DEF Orderly, FileTypes, Stages, InstanceAssumption, mutexVars
<1>2. ASSUME NEW r \in Processes PROVE Inside(r)' /\ Unreported(r)'
  BY DEF Orderly, FileTypes, Inside, Unreported, MutexTypeOK, mutexVars, Acquiring
<1> QED BY <1>1, <1>2 DEF Orderly

\* The same for the second try.
LEMMA RetryOrderly ==
  ASSUME MutexTypeOK, Orderly, NEW p \in Processes, Retry(p)
  PROVE  Orderly'
<1> USE MutexAssumption, InstanceAssumption DEF Retry, AtStage, To, At, Goto, Locked
<1>1. FileTypes'
  <2>1. [by |-> Me(p), whole |-> FALSE] \in File
    BY NewFiles DEF Orderly
  <2>2. file' \in File \cup {NoFile} /\ stage' \in [Processes -> Stages]
    BY <2>1 DEF Orderly, FileTypes, Stages
  <2>3. starts' = starts /\ unnoticed' = unnoticed /\ misread' = misread /\ recovered' = recovered
    OBVIOUS
  <2>4. gap' \in BOOLEAN
    BY DEF Orderly, FileTypes
  <2> QED BY <2>2, <2>3, <2>4 DEF Orderly, FileTypes
<1>2. ASSUME NEW r \in Processes PROVE Inside(r)' /\ Unreported(r)'
  BY DEF Orderly, FileTypes, Inside, Unreported, MutexTypeOK, mutexVars, Acquiring
<1> QED BY <1>1, <1>2 DEF Orderly

\* The same for the reading.
LEMMA ReadOrderly ==
  ASSUME MutexTypeOK, Orderly, NEW p \in Processes, Read(p)
  PROVE  Orderly'
<1> USE MutexAssumption, InstanceAssumption DEF Read, Leave, AtStage, To, At, Goto, Locked
<1>1. FileTypes'
  BY NewFiles DEF Orderly, FileTypes, Stages, InstanceAssumption, mutexVars
<1>2. ASSUME NEW r \in Processes PROVE Inside(r)' /\ Unreported(r)'
  BY DEF Orderly, FileTypes, Inside, Unreported, MutexTypeOK, mutexVars, Acquiring
<1> QED BY <1>1, <1>2 DEF Orderly

\* The same for the removal.
LEMMA RemoveStaleOrderly ==
  ASSUME MutexTypeOK, Orderly, NEW p \in Processes, RemoveStale(p)
  PROVE  Orderly'
<1> USE MutexAssumption, InstanceAssumption DEF RemoveStale, AtStage, To, At, Goto, Locked
<1>1. FileTypes'
  BY NewFiles DEF Orderly, FileTypes, Stages, InstanceAssumption, mutexVars
<1>2. ASSUME NEW r \in Processes PROVE Inside(r)' /\ Unreported(r)'
  BY DEF Orderly, FileTypes, Inside, Unreported, MutexTypeOK, mutexVars, Acquiring
<1> QED BY <1>1, <1>2 DEF Orderly

\* The same for the file after it.
LEMMA RecreateOrderly ==
  ASSUME MutexTypeOK, Orderly, NEW p \in Processes, Recreate(p)
  PROVE  Orderly'
<1> USE MutexAssumption, InstanceAssumption DEF Recreate, Leave, AtStage, To, At, Goto, Locked
<1>1. FileTypes'
  <2>1. [by |-> Me(p), whole |-> FALSE] \in File
    BY NewFiles DEF Orderly
  <2>2. file' \in File \cup {NoFile} /\ stage' \in [Processes -> Stages]
    BY <2>1 DEF Orderly, FileTypes, Stages
  <2>3. starts' = starts /\ unnoticed' = unnoticed /\ misread' = misread
    OBVIOUS
  <2>4. gap' \in BOOLEAN /\ recovered' \in [Processes -> BOOLEAN]
    BY DEF Orderly, FileTypes
  <2> QED BY <2>2, <2>3, <2>4 DEF Orderly, FileTypes
<1>2. ASSUME NEW r \in Processes PROVE Inside(r)' /\ Unreported(r)'
  BY DEF Orderly, FileTypes, Inside, Unreported, MutexTypeOK, mutexVars, Acquiring
<1> QED BY <1>1, <1>2 DEF Orderly

\* The same for filling that one.
LEMMA RefillOrderly ==
  ASSUME MutexTypeOK, Orderly, NEW p \in Processes, Refill(p)
  PROVE  Orderly'
<1> USE MutexAssumption, InstanceAssumption DEF Refill, Leave, AtStage, To, At, Goto, Locked
<1>1. FileTypes'
  BY NewFiles DEF Orderly, FileTypes, Stages, InstanceAssumption, mutexVars
<1>2. ASSUME NEW r \in Processes PROVE Inside(r)' /\ Unreported(r)'
  BY DEF Orderly, FileTypes, Inside, Unreported, MutexTypeOK, mutexVars, Acquiring
<1> QED BY <1>1, <1>2 DEF Orderly

\* The same for the way out of the mutex.
LEMMA ReturnOrderly ==
  ASSUME MutexTypeOK, Orderly, NEW p \in Processes, Return(p)
  PROVE  Orderly'
<1> USE MutexAssumption, InstanceAssumption DEF Return, Serves, AtStage, To, At, Goto, Locked
<1>1. FileTypes'
  BY NewFiles DEF Orderly, FileTypes, Stages, InstanceAssumption, mutexVars
<1>2. ASSUME NEW r \in Processes PROVE Inside(r)' /\ Unreported(r)'
  BY DEF Orderly, FileTypes, Inside, Unreported, MutexTypeOK, mutexVars, Acquiring
<1> QED BY <1>1, <1>2 DEF Orderly

\* The same for a release that begins.
LEMMA ReleaseServiceOrderly ==
  ASSUME MutexTypeOK, Orderly, NEW p \in Processes, ReleaseService(p)
  PROVE  Orderly'
<1> USE MutexAssumption, InstanceAssumption DEF ReleaseService, AtStage, To, At, Goto, Locked
<1>1. FileTypes'
  BY NewFiles DEF Orderly, FileTypes, Stages, InstanceAssumption, mutexVars
<1>2. ASSUME NEW r \in Processes PROVE Inside(r)' /\ Unreported(r)'
  BY DEF Orderly, FileTypes, Inside, Unreported, MutexTypeOK, mutexVars, Acquiring
<1> QED BY <1>1, <1>2 DEF Orderly

\* The same for the release.
LEMMA UnlinkOrderly ==
  ASSUME MutexTypeOK, Orderly, NEW p \in Processes, Unlink(p)
  PROVE  Orderly'
<1> USE MutexAssumption, InstanceAssumption DEF Unlink, AtStage, To, At, Goto, Locked
<1>1. FileTypes'
  BY NewFiles DEF Orderly, FileTypes, Stages, InstanceAssumption, mutexVars
<1>2. ASSUME NEW r \in Processes PROVE Inside(r)' /\ Unreported(r)'
  BY DEF Orderly, FileTypes, Inside, Unreported, MutexTypeOK, mutexVars, Acquiring
<1> QED BY <1>1, <1>2 DEF Orderly

\* The same for an end.
LEMMA DiesOrderly ==
  ASSUME MutexTypeOK, Orderly, NEW p \in Processes, Dies(p)
  PROVE  Orderly'
<1> USE MutexAssumption, InstanceAssumption DEF Dies, Perish, AtStage, To, At, Goto, Locked
<1>1. FileTypes'
  BY NewFiles DEF Orderly, FileTypes, Stages, InstanceAssumption, mutexVars
<1>2. ASSUME NEW r \in Processes PROVE Inside(r)' /\ Unreported(r)'
  BY DEF Orderly, FileTypes, Inside, Unreported, MutexTypeOK, mutexVars, Acquiring
<1> QED BY <1>1, <1>2 DEF Orderly


\* The same for the mutex.
LEMMA MutexOrderly ==
  ASSUME MutexTypeOK, Orderly, NEW p \in Processes, MutexStep(p)
  PROVE  Orderly'
<1>1. FileTypes'
  BY MutexMoves DEF Orderly, FileTypes, lockVars
<1>2. ASSUME NEW r \in Processes PROVE Inside(r)' /\ Unreported(r)'
  BY MutexMoves DEF Orderly, Inside, Unreported, lockVars, Acquiring
<1> QED BY <1>1, <1>2 DEF Orderly

\* Every step keeps the starts in order.
LEMMA OrderlyStep ==
  ASSUME MutexTypeOK, Orderly, LockNext \/ UNCHANGED allVars
  PROVE  Orderly'
<1> USE MutexAssumption, InstanceAssumption
<1>1. CASE MutexAges
  <2>1. UNCHANGED <<pc, lockVars>>
    BY <1>1 DEF MutexAges, LockAges
  <2> QED BY <2>1 DEF lockVars, Orderly, FileTypes, Inside, Unreported
<1>2. CASE UNCHANGED allVars
  BY <1>2 DEF allVars, mutexVars, lockVars, Orderly, FileTypes, Inside, Unreported
<1>3. ASSUME NEW p \in Processes, Start(p) \/ Works(p) \/ ReleaseService(p) \/ Dies(p)
      PROVE  Orderly'
  BY <1>3, StartOrderly, CreateOrderly, FillOrderly, RetryOrderly, ReadOrderly, RemoveStaleOrderly,
     RecreateOrderly, RefillOrderly, ReturnOrderly, ReleaseServiceOrderly, UnlinkOrderly, DiesOrderly,
     MutexOrderly DEF Works
<1> QED BY <1>1, <1>2, <1>3 DEF LockNext

-----------------------------------------------------------------------------
(* The lock of the service: whose the file is *)

Owner(p) == stage[p] \in {"fill", "refill", "entered", "held", "unlink"}
Orphan == file # NoFile /\ file.by.pid \notin alive

\* Whoever is on its way to be the service, or is it, has the file, and the
\* file of a living process is that of one of these.  What is about to be
\* removed is a dead one's.
Filed(p) ==
  /\ Owner(p) =>
       /\ file # NoFile
       /\ file.by = Me(p)
       /\ (file.whole <=> stage[p] \notin {"fill", "refill"})
  /\ (file # NoFile /\ file.by.pid = p) => Owner(p)
  /\ stage[p] = "remove" => Orphan

\* Each step leaves the file with whom it belongs to.
LEMMA StartFiled ==
  ASSUME MutexTypeOK, Orderly, (\A r \in alive : Filed(r)), NEW p \in Processes, Start(p)
  PROVE  \A r \in alive' : Filed(r)'
<1> USE InstanceAssumption DEF Start, AtStage, To, At
<1>1. alive' \subseteq alive /\ alive \subseteq Processes
  BY DEF MutexTypeOK, mutexVars
<1> SUFFICES ASSUME NEW r \in Processes, r \in alive, r \in alive' PROVE Filed(r)'
  BY <1>1
<1>2. Filed(p) /\ Filed(r) /\ p \in alive
  OBVIOUS
<1> QED BY <1>1, <1>2, NewFiles DEF Orderly, FileTypes, Filed, Owner, Orphan, Me, Inside, mutexVars

\* The file is created where none is.
LEMMA CreateFiled ==
  ASSUME MutexTypeOK, Orderly, (\A r \in alive : Filed(r)), NEW p \in Processes, Create(p)
  PROVE  \A r \in alive' : Filed(r)'
<1> USE InstanceAssumption DEF Create, AtStage, To, At
<1>1. alive' \subseteq alive /\ alive \subseteq Processes
  BY DEF MutexTypeOK, mutexVars, Request
<1> SUFFICES ASSUME NEW r \in Processes, r \in alive, r \in alive' PROVE Filed(r)'
  BY <1>1
<1>2. Filed(p) /\ Filed(r) /\ p \in alive
  OBVIOUS
<1>3. CASE file = NoFile
  <2>1. file' = [by |-> Me(p), whole |-> FALSE] /\ file' # NoFile
    BY <1>1, <1>3, NewFiles DEF Orderly
  <2>2. file'.by = Me(p) /\ file'.whole = FALSE /\ file'.by.pid = p
    BY <1>1, <2>1, NewFiles DEF Orderly
  <2>3. stage' = [stage EXCEPT ![p] = "fill"] /\ UNCHANGED <<alive, starts>>
    BY <1>3 DEF mutexVars
  <2>4. Me(r)' = Me(r)
    BY <2>3 DEF Me
  <2>5. r # p => ~Owner(r)
    BY <1>2, <1>3 DEF Filed
  <2>6. stage[r] # "remove"
    BY <1>2, <1>3 DEF Filed, Orphan
  <2> HIDE DEF Create
  <2>7. CASE r = p
    BY <2>1, <2>2, <2>3, <2>4, <2>7 DEF Orderly, FileTypes, Filed, Owner
  <2>8. CASE r # p
    BY <2>2, <2>3, <2>4, <2>5, <2>6, <2>8 DEF Orderly, FileTypes, Filed, Owner
  <2> QED BY <2>7, <2>8
<1>4. CASE file # NoFile
  <2>1. stage' = [stage EXCEPT ![p] = "queue"] /\ UNCHANGED <<file, alive, starts>>
    BY <1>4 DEF mutexVars, Request
  <2>2. ~Owner(p)
    BY DEF Owner
  <2>3. Me(r)' = Me(r) /\ (Orphan <=> Orphan')
    BY <2>1 DEF Me, Orphan
  <2>4. (Owner(r)' <=> Owner(r)) /\ (stage'[r] = "remove" => stage[r] = "remove")
    BY <2>1, <2>2 DEF Owner, Orderly, FileTypes
  <2>5. Owner(r) => stage'[r] = stage[r]
    BY <2>1, <2>2 DEF Orderly, FileTypes
  <2> HIDE DEF Create
  <2> QED BY <1>2, <2>1, <2>3, <2>4, <2>5 DEF Filed
<1> QED BY <1>3, <1>4

\* Its creator fills it.
LEMMA FillFiled ==
  ASSUME MutexTypeOK, Orderly, (\A r \in alive : Filed(r)), NEW p \in Processes, Fill(p)
  PROVE  \A r \in alive' : Filed(r)'
<1> USE InstanceAssumption DEF Fill, Serves, Filled, AtStage, To, At
<1>1. alive' \subseteq alive /\ alive \subseteq Processes
  BY DEF MutexTypeOK, mutexVars
<1> SUFFICES ASSUME NEW r \in Processes, r \in alive, r \in alive' PROVE Filed(r)'
  BY <1>1
<1>2. Filed(p) /\ Filed(r) /\ p \in alive
  OBVIOUS
<1>3. file # NoFile /\ file.by = Me(p) /\ file \in File /\ p \in Processes
  <2>1. stage[p] = "fill"
    OBVIOUS
  <2>2. Owner(p)
    BY <2>1 DEF Owner
  <2> HIDE DEF Fill, Filled
  <2> QED BY <1>2, <2>2 DEF Filed, Orderly, FileTypes
<1>4. file' # NoFile /\ file'.by = Me(p) /\ file'.whole = TRUE
  BY <1>3, NewFiles DEF Orderly
<1>5. UNCHANGED <<alive, starts>> /\ stage' = [stage EXCEPT ![p] = "held"]
  BY DEF mutexVars
<1> HIDE DEF Fill, Filled
<1> QED BY <1>1, <1>2, <1>3, <1>4, <1>5, NewFiles DEF Orderly, FileTypes, Filed, Owner, Orphan, Me

\* Inside the mutex the same.
LEMMA RetryFiled ==
  ASSUME MutexTypeOK, Orderly, (\A r \in alive : Filed(r)), NEW p \in Processes, Retry(p)
  PROVE  \A r \in alive' : Filed(r)'
<1> USE InstanceAssumption DEF Retry, AtStage, To, At
<1>1. alive' \subseteq alive /\ alive \subseteq Processes
  BY DEF MutexTypeOK, mutexVars
<1> SUFFICES ASSUME NEW r \in Processes, r \in alive, r \in alive' PROVE Filed(r)'
  BY <1>1
<1>2. Filed(p) /\ Filed(r) /\ p \in alive
  OBVIOUS
<1>3. CASE file = NoFile
  <2>1. file' = [by |-> Me(p), whole |-> FALSE] /\ file' # NoFile
    BY <1>1, <1>3, NewFiles DEF Orderly
  <2>2. file'.by = Me(p) /\ file'.whole = FALSE /\ file'.by.pid = p
    BY <1>1, <2>1, NewFiles DEF Orderly
  <2>3. stage' = [stage EXCEPT ![p] = "refill"] /\ UNCHANGED <<alive, starts>>
    BY <1>3 DEF mutexVars
  <2>4. Me(r)' = Me(r)
    BY <2>3 DEF Me
  <2>5. r # p => ~Owner(r)
    BY <1>2, <1>3 DEF Filed
  <2>6. stage[r] # "remove"
    BY <1>2, <1>3 DEF Filed, Orphan
  <2> HIDE DEF Retry
  <2>7. CASE r = p
    BY <2>1, <2>2, <2>3, <2>4, <2>7 DEF Orderly, FileTypes, Filed, Owner
  <2>8. CASE r # p
    BY <2>2, <2>3, <2>4, <2>5, <2>6, <2>8 DEF Orderly, FileTypes, Filed, Owner
  <2> QED BY <2>7, <2>8
<1>4. CASE file # NoFile
  <2>1. stage' = [stage EXCEPT ![p] = "read"] /\ UNCHANGED <<file, alive, starts>>
    BY <1>4 DEF mutexVars
  <2>2. ~Owner(p)
    BY DEF Owner
  <2>3. Me(r)' = Me(r) /\ (Orphan <=> Orphan')
    BY <2>1 DEF Me, Orphan
  <2>4. (Owner(r)' <=> Owner(r)) /\ (stage'[r] = "remove" => stage[r] = "remove")
    BY <2>1, <2>2 DEF Owner, Orderly, FileTypes
  <2>5. Owner(r) => stage'[r] = stage[r]
    BY <2>1, <2>2 DEF Orderly, FileTypes
  <2> HIDE DEF Retry
  <2> QED BY <1>2, <2>1, <2>3, <2>4, <2>5 DEF Filed
<1> QED BY <1>3, <1>4

\* A file that is whole, or being filled, is not taken for a dead one's.
LEMMA ReadFiled ==
  ASSUME MutexTypeOK, Orderly, (\A r \in alive : Filed(r)), NEW p \in Processes, Read(p), ~misread'
  PROVE  \A r \in alive' : Filed(r)'
<1> USE InstanceAssumption DEF Read, Leave, AtStage, To, At
<1>1. alive' \subseteq alive /\ alive \subseteq Processes
  BY DEF MutexTypeOK, mutexVars
<1> SUFFICES ASSUME NEW r \in Processes, r \in alive, r \in alive' PROVE Filed(r)'
  BY <1>1
<1>2. Filed(p) /\ Filed(r) /\ p \in alive
  OBVIOUS
<1>3. CASE Served
  BY <1>1, <1>2, <1>3 DEF Orderly, FileTypes, Filed, Owner, Orphan, Me
<1>4. CASE ~Served
  <2>1. file # NoFile /\ ~Filling /\ UNCHANGED <<file, alive, starts>>
    BY <1>4 DEF Orderly, FileTypes, mutexVars
  <2>2. \A t \in alive : file.by.pid # t
    <3> SUFFICES ASSUME NEW t \in alive, file.by.pid = t PROVE FALSE
      OBVIOUS
    <3>1. Owner(t) /\ file.by = Me(t) /\ (file.whole <=> stage[t] \notin {"fill", "refill"})
      <4> HIDE DEF Read
      <4>1. Filed(t)
        OBVIOUS
      <4> QED BY <2>1, <4>1 DEF Filed
    <3>2. CASE file.whole
      BY <1>4, <2>1, <3>2 DEF Served
    <3>3. CASE ~file.whole
      BY <2>1, <3>1, <3>3 DEF Filling
    <3> QED BY <3>2, <3>3
  <2>3. stage' = [stage EXCEPT ![p] = "remove"]
    BY <1>4
  <2> HIDE DEF Read
  <2> QED BY <1>1, <1>2, <2>1, <2>2, <2>3 DEF Orderly, FileTypes, Filed, Owner, Orphan, Me
<1> QED BY <1>3, <1>4

\* Only one start removes: the mutex excludes the others.
LEMMA RemoveStaleFiled ==
  ASSUME MutexTypeOK, Orderly, (\A r \in alive : Filed(r)), NEW p \in Processes, RemoveStale(p),
         \A r, t \in alive : pc[r] = "critical" /\ pc[t] = "critical" => r = t
  PROVE  \A r \in alive' : Filed(r)'
<1> USE InstanceAssumption DEF RemoveStale, AtStage, To, At
<1>1. alive' \subseteq alive /\ alive \subseteq Processes
  BY DEF MutexTypeOK, mutexVars
<1> SUFFICES ASSUME NEW r \in Processes, r \in alive, r \in alive' PROVE Filed(r)'
  BY <1>1
<1>2. Filed(p) /\ Filed(r) /\ p \in alive
  OBVIOUS
<1> QED BY <1>1, <1>2, NewFiles DEF Orderly, FileTypes, Filed, Owner, Orphan, Me, Inside, mutexVars

\* A file that is there by now is left alone.
LEMMA RecreateFiled ==
  ASSUME MutexTypeOK, Orderly, (\A r \in alive : Filed(r)), NEW p \in Processes, Recreate(p)
  PROVE  \A r \in alive' : Filed(r)'
<1> USE InstanceAssumption DEF Recreate, Leave, AtStage, To, At
<1>1. alive' \subseteq alive /\ alive \subseteq Processes
  BY DEF MutexTypeOK, mutexVars
<1> SUFFICES ASSUME NEW r \in Processes, r \in alive, r \in alive' PROVE Filed(r)'
  BY <1>1
<1>2. Filed(p) /\ Filed(r) /\ p \in alive
  OBVIOUS
<1>3. CASE file = NoFile
  <2>1. file' = [by |-> Me(p), whole |-> FALSE] /\ file' # NoFile
    BY <1>1, <1>3, NewFiles DEF Orderly
  <2>2. file'.by = Me(p) /\ file'.whole = FALSE /\ file'.by.pid = p
    BY <1>1, <2>1, NewFiles DEF Orderly
  <2>3. stage' = [stage EXCEPT ![p] = "refill"] /\ UNCHANGED <<alive, starts>>
    BY <1>3 DEF mutexVars
  <2>4. Me(r)' = Me(r)
    BY <2>3 DEF Me
  <2>5. r # p => ~Owner(r)
    BY <1>2, <1>3 DEF Filed
  <2>6. stage[r] # "remove"
    BY <1>2, <1>3 DEF Filed, Orphan
  <2> HIDE DEF Recreate
  <2>7. CASE r = p
    BY <2>1, <2>2, <2>3, <2>4, <2>7 DEF Orderly, FileTypes, Filed, Owner
  <2>8. CASE r # p
    BY <2>2, <2>3, <2>4, <2>5, <2>6, <2>8 DEF Orderly, FileTypes, Filed, Owner
  <2> QED BY <2>7, <2>8
<1>4. CASE file # NoFile
  <2>1. stage' = [stage EXCEPT ![p] = "refused"] /\ UNCHANGED <<file, alive, starts>>
    BY <1>4 DEF mutexVars
  <2>2. ~Owner(p)
    BY DEF Owner
  <2>3. Me(r)' = Me(r) /\ (Orphan <=> Orphan')
    BY <2>1 DEF Me, Orphan
  <2>4. (Owner(r)' <=> Owner(r)) /\ (stage'[r] = "remove" => stage[r] = "remove")
    BY <2>1, <2>2 DEF Owner, Orderly, FileTypes
  <2>5. Owner(r) => stage'[r] = stage[r]
    BY <2>1, <2>2 DEF Orderly, FileTypes
  <2> HIDE DEF Recreate
  <2> QED BY <1>2, <2>1, <2>3, <2>4, <2>5 DEF Filed
<1> QED BY <1>3, <1>4

\* Its creator fills it, inside the mutex.
LEMMA RefillFiled ==
  ASSUME MutexTypeOK, Orderly, (\A r \in alive : Filed(r)), NEW p \in Processes, Refill(p)
  PROVE  \A r \in alive' : Filed(r)'
<1> USE InstanceAssumption DEF Refill, Filled, Leave, AtStage, To, At
<1>1. alive' \subseteq alive /\ alive \subseteq Processes
  BY DEF MutexTypeOK, mutexVars
<1> SUFFICES ASSUME NEW r \in Processes, r \in alive, r \in alive' PROVE Filed(r)'
  BY <1>1
<1>2. Filed(p) /\ Filed(r) /\ p \in alive
  OBVIOUS
<1>3. file # NoFile /\ file.by = Me(p) /\ file \in File /\ p \in Processes
  <2>1. stage[p] = "refill"
    OBVIOUS
  <2>2. Owner(p)
    BY <2>1 DEF Owner
  <2> HIDE DEF Refill, Filled
  <2> QED BY <1>2, <2>2 DEF Filed, Orderly, FileTypes
<1>4. file' # NoFile /\ file'.by = Me(p) /\ file'.whole = TRUE
  BY <1>3, NewFiles DEF Orderly
<1>5. UNCHANGED <<alive, starts>> /\ stage' = [stage EXCEPT ![p] = "entered"]
  BY DEF mutexVars
<1> HIDE DEF Refill, Filled
<1> QED BY <1>1, <1>2, <1>3, <1>4, <1>5, NewFiles DEF Orderly, FileTypes, Filed, Owner, Orphan, Me

\* The same for the way out of the mutex.
LEMMA ReturnFiled ==
  ASSUME MutexTypeOK, Orderly, (\A r \in alive : Filed(r)), NEW p \in Processes, Return(p)
  PROVE  \A r \in alive' : Filed(r)'
<1> USE InstanceAssumption DEF Return, Serves, AtStage, To, At
<1>1. alive' \subseteq alive /\ alive \subseteq Processes
  BY DEF MutexTypeOK, mutexVars
<1> SUFFICES ASSUME NEW r \in Processes, r \in alive, r \in alive' PROVE Filed(r)'
  BY <1>1
<1>2. Filed(p) /\ Filed(r) /\ p \in alive
  OBVIOUS
<1> QED BY <1>1, <1>2, NewFiles DEF Orderly, FileTypes, Filed, Owner, Orphan, Me, Inside, mutexVars

\* A service finds its own file.
LEMMA ReleaseServiceFiled ==
  ASSUME MutexTypeOK, Orderly, (\A r \in alive : Filed(r)), NEW p \in Processes, ReleaseService(p)
  PROVE  \A r \in alive' : Filed(r)'
<1> USE InstanceAssumption DEF ReleaseService, AtStage, To, At
<1>1. alive' \subseteq alive /\ alive \subseteq Processes
  BY DEF MutexTypeOK, mutexVars
<1> SUFFICES ASSUME NEW r \in Processes, r \in alive, r \in alive' PROVE Filed(r)'
  BY <1>1
<1>2. Filed(p) /\ Filed(r) /\ p \in alive
  OBVIOUS
<1>3. file \in File /\ file.by = Me(p) /\ file.whole = TRUE
  <2>1. file \in File /\ file.by = Me(p) /\ file.whole
    BY <1>1, <1>2 DEF Filed, Owner, Orderly, FileTypes
  <2> QED BY <2>1 DEF File
<1>4. file = [by |-> Me(p), whole |-> TRUE]
  BY <1>3 DEF File
<1>5. stage' = [stage EXCEPT ![p] = "unlink"] /\ UNCHANGED <<file, alive, starts>>
  BY <1>4 DEF mutexVars
<1>6. Me(r)' = Me(r) /\ (Orphan <=> Orphan')
  BY <1>5 DEF Me, Orphan
<1>7. Owner(r)' <=> Owner(r)
  BY <1>5 DEF Owner, Orderly, FileTypes
<1>8. stage'[r] = stage[r] \/ (stage[r] = "held" /\ stage'[r] = "unlink")
  BY <1>5 DEF Orderly, FileTypes
<1> HIDE DEF ReleaseService
<1> QED BY <1>2, <1>5, <1>6, <1>7, <1>8 DEF Filed

\* The same for the release.
LEMMA UnlinkFiled ==
  ASSUME MutexTypeOK, Orderly, (\A r \in alive : Filed(r)), NEW p \in Processes, Unlink(p)
  PROVE  \A r \in alive' : Filed(r)'
<1> USE InstanceAssumption DEF Unlink, AtStage, To, At
<1>1. alive' \subseteq alive /\ alive \subseteq Processes
  BY DEF MutexTypeOK, mutexVars
<1> SUFFICES ASSUME NEW r \in Processes, r \in alive, r \in alive' PROVE Filed(r)'
  BY <1>1
<1>2. Filed(p) /\ Filed(r) /\ p \in alive
  OBVIOUS
<1> QED BY <1>1, <1>2, NewFiles DEF Orderly, FileTypes, Filed, Owner, Orphan, Me, Inside, mutexVars

\* The same for an end.
LEMMA DiesFiled ==
  ASSUME MutexTypeOK, Orderly, (\A r \in alive : Filed(r)), NEW p \in Processes, Dies(p)
  PROVE  \A r \in alive' : Filed(r)'
<1> USE InstanceAssumption DEF Dies, Perish, AtStage, To, At
<1>1. alive' \subseteq alive /\ alive \subseteq Processes
  BY DEF MutexTypeOK, mutexVars
<1> SUFFICES ASSUME NEW r \in Processes, r \in alive, r \in alive' PROVE Filed(r)'
  BY <1>1
<1>2. Filed(p) /\ Filed(r) /\ p \in alive
  OBVIOUS
<1> QED BY <1>1, <1>2, NewFiles DEF Orderly, FileTypes, Filed, Owner, Orphan, Me, Inside, mutexVars

\* What happened has happened, and nobody comes back to life.
LEMMA FlagsGrow ==
  ASSUME LockNext \/ UNCHANGED allVars
  PROVE  (anonymous => anonymous') /\ (misread => misread') /\ (gap => gap') /\ alive' \subseteq alive
<1>1. CASE UNCHANGED allVars \/ MutexAges
  BY <1>1 DEF allVars, mutexVars, lockVars, MutexAges, LockAges
<1>2. ASSUME NEW p \in Processes, Start(p) \/ ReleaseService(p) \/ Unlink(p) \/ Dies(p) \/ Return(p)
      PROVE  UNCHANGED <<anonymous, misread, gap>> /\ alive' \subseteq alive
  BY <1>2 DEF Start, ReleaseService, Unlink, Dies, Perish, Return, mutexVars
<1>3. ASSUME NEW p \in Processes, Fill(p) \/ RemoveStale(p) \/ Recreate(p) \/ Refill(p)
      PROVE  UNCHANGED <<anonymous, misread, gap>> /\ alive' \subseteq alive
  BY <1>3 DEF Fill, RemoveStale, Recreate, Refill, Leave, mutexVars
<1>4. ASSUME NEW p \in Processes, Create(p) \/ Retry(p)
      PROVE  UNCHANGED <<anonymous, misread, alive>> /\ (gap => gap')
  <2>1. UNCHANGED <<anonymous, misread, alive>>
    BY <1>4 DEF Create, Retry, Request, mutexVars
  <2>2. gap => gap'
    BY <1>4 DEF Create, Retry
  <2> QED BY <2>1, <2>2
<1>5. ASSUME NEW p \in Processes, Read(p)
      PROVE  UNCHANGED <<anonymous, gap, alive>> /\ (misread => misread')
  <2>1. UNCHANGED <<anonymous, gap, alive>>
    BY <1>5 DEF Read, Leave, mutexVars
  <2>2. misread => misread'
    BY <1>5 DEF Read
  <2> QED BY <2>1, <2>2
<1>6. ASSUME NEW p \in Processes, MutexStep(p)
      PROVE  UNCHANGED <<misread, gap, alive>> /\ (anonymous => anonymous')
  <2>1. UNCHANGED <<misread, gap>>
    BY <1>6 DEF MutexStep, lockVars
  <2>2. CASE Discard(p)
    <3>1. alive' = alive /\ anonymous' = (anonymous \/ Empty(trash[p]))
      BY <2>2 DEF Discard
    <3> QED BY <2>1, <3>1
  <2>3. CASE ~Discard(p)
    BY <1>6, <2>1, <2>3 DEF MutexStep, Acquire, Recover, MakeDir, WriteOwner, Judge, Rename, Reread,
       Restore, CheckToken, Remove
  <2> QED BY <2>2, <2>3
<1> QED BY <1>1, <1>2, <1>3, <1>4, <1>5, <1>6 DEF LockNext, Works

\* Every step keeps the file with whom it belongs to.
LEMMA FiledStep ==
  ASSUME Pair, MutexInv, Orderly, (\A r \in alive : Filed(r)),
         ~anonymous, ~misread', LockNext \/ UNCHANGED allVars
  PROVE  \A r \in alive' : Filed(r)'
<1> USE MutexAssumption, InstanceAssumption
<1>1. MutexTypeOK /\ \A r, t \in alive : pc[r] = "critical" /\ pc[t] = "critical" => r = t
  BY OneInside DEF MutexInv
<1>2. ASSUME UNCHANGED <<lockVars, alive>>
      PROVE  \A r \in alive' : Filed(r)'
  BY <1>2 DEF lockVars, Filed, Owner, Orphan, Me
<1>3. CASE MutexAges \/ UNCHANGED allVars
  BY <1>2, <1>3 DEF MutexAges, LockAges, allVars, mutexVars
<1>4. ASSUME NEW p \in Processes, MutexStep(p)
      PROVE  \A r \in alive' : Filed(r)'
  BY <1>1, <1>2, <1>4, MutexMoves
<1>5. ASSUME NEW p \in Processes, Start(p) \/ Works(p) \/ ReleaseService(p) \/ Dies(p)
      PROVE  \A r \in alive' : Filed(r)'
  BY <1>1, <1>4, <1>5, StartFiled, CreateFiled, FillFiled, RetryFiled, ReadFiled, RemoveStaleFiled,
     RecreateFiled, RefillFiled, ReturnFiled, ReleaseServiceFiled, UnlinkFiled, DiesFiled DEF Works
<1> QED BY <1>3, <1>5 DEF LockNext

\* A file found is that of a process that died.
LEMMA InitFiled ==
  ASSUME LockInit
  PROVE  \A r \in alive : Filed(r)
<1> USE MutexAssumption, InstanceAssumption
<1> SUFFICES ASSUME NEW r \in alive PROVE Filed(r)
  OBVIOUS
<1>1. r \in Processes /\ stage[r] = "down" /\ alive = Processes
  BY DEF LockInit, MutexInit
<1>2. file # NoFile => file.by.pid = Dead
  BY DEF LockInit, InstanceAssumption
<1> QED BY <1>1, <1>2 DEF Filed, Owner, MutexAssumption

\* Who has the file is alone, and it is not left behind.
LEMMA OneOwner ==
  ASSUME MutexTypeOK, Orderly, (\A r \in alive : Filed(r)), NEW p \in alive, Owner(p)
  PROVE  /\ file # NoFile
         /\ file.by = Me(p)
         /\ ~Orphan
         /\ \A q \in alive : Owner(q) => q = p
<1> USE InstanceAssumption
<1>1. file # NoFile /\ file.by = Me(p)
  BY DEF Filed
<1>2. \A q \in alive : Owner(q) => file.by = Me(q)
  BY DEF Filed
<1>3. \A q \in alive : Me(q).pid = q
  BY NewFiles DEF Orderly, MutexTypeOK
<1> QED BY <1>1, <1>2, <1>3 DEF Orphan

-----------------------------------------------------------------------------
(* The lock of the service: whose end has not been noticed *)

\* A start that has recovered a stale file and is not yet the service.
Recovering == \E p \in alive : stage[p] \in {"refill", "entered"} /\ recovered[p]

\* The last service died unnoticed exactly when its file lies there, or a
\* recovery has removed it and is not done.  A gap has one recovery in it.
Noticed ==
  /\ (InGap => file = NoFile)
  /\ \A q, t \in Processes : stage[q] = "recreate" /\ stage[t] = "recreate" => q = t
  /\ (unnoticed <=> (Orphan \/ InGap \/ Recovering))

\* What does not touch file, recoveries and processes leaves the book alone.
LEMMA Unmoved ==
  ASSUME MutexTypeOK, Noticed, UNCHANGED <<file, alive, unnoticed>>,
         \A r \in Processes :
           /\ ((stage'[r] = "recreate") <=> (stage[r] = "recreate"))
           /\ ((stage'[r] \in {"refill", "entered"} /\ recovered'[r])
                 <=> (stage[r] \in {"refill", "entered"} /\ recovered[r]))
  PROVE  Noticed'
<1>1. InGap' <=> InGap
  BY DEF InGap
<1>2. Orphan' <=> Orphan
  BY DEF Orphan
<1>3. Recovering' <=> Recovering
  BY DEF Recovering, MutexTypeOK
<1> QED BY <1>1, <1>2, <1>3 DEF Noticed

\* Starts that look, and releases that begin, change nothing of it.
LEMMA QuietNoticed ==
  ASSUME MutexTypeOK, Orderly, Noticed, NEW p \in Processes,
         Start(p) \/ Read(p) \/ ReleaseService(p) \/ (Create(p) /\ file # NoFile)
           \/ (Retry(p) /\ file # NoFile) \/ (Return(p) /\ AtStage(p, "refused"))
  PROVE  Noticed'
<1> USE DEF AtStage, To
<1> DEFINE Same(r) ==
      /\ ((stage'[r] = "recreate") <=> (stage[r] = "recreate"))
      /\ ((stage'[r] \in {"refill", "entered"} /\ recovered'[r])
            <=> (stage[r] \in {"refill", "entered"} /\ recovered[r]))
<1>1. stage \in [Processes -> Stages] /\ recovered \in [Processes -> BOOLEAN]
  BY DEF Orderly, FileTypes
<1>2. CASE Start(p)
  <2>1. UNCHANGED <<file, alive, unnoticed>>
    BY <1>2 DEF Start, mutexVars
  <2>2. \A r \in Processes : Same(r)
    BY <1>1, <1>2 DEF Start
  <2> QED BY <2>1, <2>2, Unmoved
<1>3. CASE Read(p)
  <2>1. UNCHANGED <<file, alive, unnoticed, recovered>>
    BY <1>3 DEF Read, Leave, mutexVars
  <2>2. \A r \in Processes : Same(r)
    BY <1>1, <1>3, <2>1 DEF Read
  <2> QED BY <2>1, <2>2, Unmoved
<1>4. CASE ReleaseService(p)
  <2>1. UNCHANGED <<file, alive, unnoticed, recovered>>
    BY <1>4 DEF ReleaseService, mutexVars
  <2>2. \A r \in Processes : Same(r)
    BY <1>1, <1>4, <2>1 DEF ReleaseService
  <2> QED BY <2>1, <2>2, Unmoved
<1>5. CASE Create(p) /\ file # NoFile
  <2>1. UNCHANGED <<file, alive, unnoticed, recovered>>
    BY <1>5 DEF Create, Request, mutexVars
  <2>2. \A r \in Processes : Same(r)
    BY <1>1, <1>5, <2>1 DEF Create
  <2> QED BY <2>1, <2>2, Unmoved
<1>6. CASE Retry(p) /\ file # NoFile
  <2>1. UNCHANGED <<file, alive, unnoticed, recovered>>
    BY <1>6 DEF Retry, mutexVars
  <2>2. \A r \in Processes : Same(r)
    BY <1>1, <1>6, <2>1 DEF Retry
  <2> QED BY <2>1, <2>2, Unmoved
<1>7. CASE Return(p) /\ AtStage(p, "refused")
  <2>1. UNCHANGED <<file, alive, unnoticed, recovered>>
    BY <1>7 DEF Return, mutexVars
  <2>2. \A r \in Processes : Same(r)
    BY <1>1, <1>7, <2>1 DEF Return
  <2> QED BY <2>1, <2>2, Unmoved
<1> QED BY <1>2, <1>3, <1>4, <1>5, <1>6, <1>7

\* Nor does filling the file.
LEMMA RefillNoticed ==
  ASSUME MutexTypeOK, Orderly, (\A r \in alive : Filed(r)), Noticed,
         NEW p \in Processes, Refill(p)
  PROVE  Noticed'
<1> USE InstanceAssumption DEF AtStage, To
<1>1. UNCHANGED <<alive, unnoticed, recovered>> /\ file' = Filled(p) /\ p \in alive
      /\ stage[p] = "refill" /\ stage' = [stage EXCEPT ![p] = "entered"]
  BY DEF Refill, Leave
<1>2. file \in File /\ file # NoFile /\ file.by = Me(p)
  BY <1>1, OneOwner DEF Owner, Orderly, FileTypes
<1>3. file' # NoFile /\ file'.by = file.by
  BY <1>1, <1>2, NewFiles DEF Filled, Orderly
<1>4. Orphan' <=> Orphan
  BY <1>1, <1>2, <1>3 DEF Orphan
<1>5. \A r \in Processes : /\ (stage'[r] = "recreate" <=> stage[r] = "recreate")
                          /\ (stage'[r] \in {"refill", "entered"} <=> stage[r] \in {"refill", "entered"})
  BY <1>1 DEF Orderly, FileTypes
<1>6. InGap' <=> InGap
  BY <1>5 DEF InGap
<1>7. Recovering' <=> Recovering
  BY <1>1, <1>5 DEF Recovering, MutexTypeOK
<1> QED BY <1>1, <1>2, <1>3, <1>4, <1>5, <1>6, <1>7 DEF Noticed

\* A new file where there is none ends nothing but the gap.
LEMMA CreateNoticed ==
  ASSUME MutexTypeOK, Orderly, (\A r \in alive : Filed(r)), Noticed, ~gap',
         NEW p \in Processes, Create(p) \/ Retry(p), file = NoFile
  PROVE  Noticed'
<1> USE InstanceAssumption DEF AtStage, To
<1>1. /\ UNCHANGED <<alive, unnoticed, recovered>> /\ p \in alive
      /\ file' = [by |-> Me(p), whole |-> FALSE]
      /\ stage[p] \in {"create", "queue"} /\ stage' \in {[stage EXCEPT ![p] = s] : s \in {"fill", "refill"}}
      /\ ~InGap
  BY DEF Create, Retry, mutexVars
<1>2. file' # NoFile /\ file'.by.pid = p
  BY <1>1, NewFiles DEF Orderly
<1>3. ~Orphan /\ ~Recovering
  BY DEF Orphan, Recovering, Filed, Owner
<1>4. ~Orphan'
  BY <1>1, <1>2 DEF Orphan
<1>5. \A r \in Processes : /\ stage'[r] # "recreate"
                          /\ (r # p => stage'[r] = stage[r])
  BY <1>1 DEF Orderly, FileTypes, InGap
<1>6. ~recovered[p]
  BY <1>1 DEF Orderly, Unreported
<1>7. ~Recovering'
  BY <1>1, <1>3, <1>5, <1>6 DEF Recovering, MutexTypeOK
<1> QED BY <1>1, <1>2, <1>3, <1>4, <1>5, <1>7 DEF Noticed, InGap

\* A process that becomes the service notices what it has recovered.
LEMMA ServesNoticed ==
  ASSUME MutexTypeOK, Orderly, (\A r \in alive : Filed(r)), Noticed,
         NEW p \in Processes, Fill(p) \/ (Return(p) /\ AtStage(p, "entered"))
  PROVE  Noticed' /\ (unnoticed <=> recovered[p])
<1> USE InstanceAssumption DEF AtStage, To, Serves
<1>1. /\ UNCHANGED <<alive, recovered>>
      /\ ~unnoticed'
      /\ p \in alive
      /\ file' \in {file, Filled(p)}
      /\ stage[p] \in {"fill", "entered"} /\ stage' = [stage EXCEPT ![p] = "held"]
  BY DEF Fill, Return, mutexVars
<1>2. file \in File /\ file # NoFile /\ file.by = Me(p) /\ ~Orphan /\ \A q \in alive : Owner(q) => q = p
  BY <1>1, OneOwner DEF Owner, Orderly, FileTypes
<1>3. file' # NoFile /\ file'.by = file.by
  BY <1>1, <1>2, NewFiles DEF Filled, Orderly
<1>4. ~Orphan'
  BY <1>1, <1>2, <1>3 DEF Orphan
<1>5. ~InGap
  BY <1>2 DEF Noticed
<1>6. \A r \in Processes : /\ stage'[r] # "recreate"
                          /\ (r # p => stage'[r] = stage[r])
                          /\ stage'[p] = "held"
  BY <1>1, <1>5 DEF Orderly, FileTypes, InGap
<1>7. ~Recovering'
  BY <1>1, <1>2, <1>6 DEF Recovering, MutexTypeOK, Owner
<1>8. Noticed'
  BY <1>1, <1>3, <1>4, <1>6, <1>7 DEF Noticed, InGap
<1>9. Recovering <=> recovered[p]
  <2>1. Recovering => recovered[p]
    BY <1>2 DEF Recovering, Owner
  <2>2. recovered[p] => Recovering
    BY <1>1 DEF Recovering, Orderly, Unreported
  <2> QED BY <2>1, <2>2
<1> QED BY <1>2, <1>5, <1>8, <1>9 DEF Noticed

\* The file of a dead process is removed: from here the recovery knows.
LEMMA RemoveStaleNoticed ==
  ASSUME MutexTypeOK, Orderly, (\A r \in alive : Filed(r)), Noticed,
         NEW p \in Processes, RemoveStale(p)
  PROVE  Noticed'
<1> USE InstanceAssumption DEF AtStage, To
<1>1. /\ UNCHANGED <<alive, unnoticed, recovered>> /\ p \in alive /\ file' = NoFile
      /\ stage[p] = "remove" /\ stage' = [stage EXCEPT ![p] = "recreate"]
  BY DEF RemoveStale, mutexVars
<1>2. Orphan
  BY <1>1 DEF Filed
<1>3. unnoticed /\ ~InGap
  BY <1>2 DEF Noticed, Orphan
<1>4. stage'[p] = "recreate" /\ \A r \in Processes : r # p => stage'[r] = stage[r]
  BY <1>1 DEF Orderly, FileTypes
<1> QED BY <1>1, <1>3, <1>4 DEF Noticed, InGap

\* And goes on knowing with a file of its own.
LEMMA RecreateNoticed ==
  ASSUME MutexTypeOK, Orderly, (\A r \in alive : Filed(r)), Noticed,
         NEW p \in Processes, Recreate(p)
  PROVE  Noticed'
<1> USE InstanceAssumption DEF AtStage, To
<1>1. stage[p] = "recreate" /\ p \in alive
  BY DEF Recreate
<1>2. InGap /\ file = NoFile /\ unnoticed
  BY <1>1 DEF Noticed, InGap
<1>3. /\ UNCHANGED <<alive, unnoticed>> /\ file' = [by |-> Me(p), whole |-> FALSE]
      /\ recovered' = [recovered EXCEPT ![p] = TRUE]
      /\ stage' = [stage EXCEPT ![p] = "refill"]
  BY <1>2 DEF Recreate, mutexVars
<1>4. /\ stage'[p] = "refill"
      /\ recovered'[p]
      /\ \A r \in Processes : r # p => stage'[r] = stage[r]
  BY <1>3 DEF Orderly, FileTypes
<1>5. \A r \in Processes : stage'[r] # "recreate"
  BY <1>1, <1>4 DEF Noticed
<1>6. Recovering'
  BY <1>1, <1>3, <1>4 DEF Recovering
<1> QED BY <1>2, <1>3, <1>5, <1>6 DEF Noticed, InGap

\* A service that releases leaves nothing to be noticed.
LEMMA UnlinkNoticed ==
  ASSUME MutexTypeOK, Orderly, (\A r \in alive : Filed(r)), Noticed,
         NEW p \in Processes, Unlink(p)
  PROVE  Noticed'
<1> USE InstanceAssumption DEF AtStage, To
<1>1. /\ UNCHANGED <<alive, unnoticed, recovered>> /\ p \in alive /\ file' = NoFile
      /\ stage[p] = "unlink" /\ stage' = [stage EXCEPT ![p] = "down"]
  BY DEF Unlink, mutexVars
<1>2. file # NoFile /\ ~Orphan /\ \A q \in alive : Owner(q) => q = p
  BY <1>1, OneOwner DEF Owner
<1>3. ~InGap
  BY <1>2 DEF Noticed
<1>4. ~Recovering
  BY <1>1, <1>2 DEF Recovering, Owner
<1>5. stage'[p] = "down" /\ \A r \in Processes : r # p => stage'[r] = stage[r]
  BY <1>1 DEF Orderly, FileTypes
<1>6. ~Recovering'
  BY <1>1, <1>4, <1>5 DEF Recovering, MutexTypeOK
<1>7. \A r \in Processes : stage'[r] # "recreate"
  BY <1>3, <1>5 DEF InGap
<1> QED BY <1>1, <1>2, <1>3, <1>4, <1>6, <1>7 DEF Noticed, InGap, Orphan

\* One that dies with its file does.
LEMMA DiesNoticed ==
  ASSUME MutexTypeOK, Orderly, (\A r \in alive : Filed(r)), Noticed,
         NEW p \in Processes, Dies(p)
  PROVE  Noticed'
<1> USE InstanceAssumption
<1>1. /\ UNCHANGED <<file, stage, recovered>> /\ p \in alive /\ alive' = alive \ {p}
  BY DEF Dies, Perish
<1>2. unnoticed' <=> (unnoticed \/ (file # NoFile /\ file.by = Me(p)))
  BY DEF Dies
<1>3. (file # NoFile /\ file.by.pid = p) <=> (file # NoFile /\ file.by = Me(p))
  <2>1. Me(p).pid = p
    BY NewFiles DEF Orderly
  <2>2. file # NoFile /\ file.by.pid = p => file.by = Me(p)
    BY <1>1 DEF Filed
  <2> QED BY <2>1, <2>2
<1>4. Orphan' <=> (Orphan \/ (file # NoFile /\ file.by.pid = p))
  BY <1>1 DEF Orphan
<1>5. Recovering' => Recovering
  BY <1>1 DEF Recovering
<1>6. Recovering => Recovering' \/ (file # NoFile /\ file.by = Me(p))
  <2> SUFFICES ASSUME NEW q \in alive, stage[q] \in {"refill", "entered"}, recovered[q]
               PROVE  Recovering' \/ (file # NoFile /\ file.by = Me(p))
    BY DEF Recovering
  <2>1. CASE q = p
    BY <2>1 DEF Filed, Owner
  <2>2. CASE q # p
    BY <1>1, <2>2 DEF Recovering
  <2> QED BY <2>1, <2>2
<1>7. (InGap' <=> InGap) /\ (InGap => file = NoFile)
  BY <1>1 DEF InGap, Noticed
<1>8. unnoticed <=> (Orphan \/ InGap \/ Recovering)
  BY DEF Noticed
<1>9. unnoticed' <=> (Orphan' \/ InGap' \/ Recovering')
  BY <1>2, <1>3, <1>4, <1>5, <1>6, <1>7, <1>8
<1> QED BY <1>1, <1>7, <1>9 DEF Noticed

\* Every step keeps the book.
LEMMA NoticedStep ==
  ASSUME MutexTypeOK, Orderly, (\A r \in alive : Filed(r)), Noticed, ~gap',
         LockNext \/ UNCHANGED allVars
  PROVE  Noticed'
<1> USE InstanceAssumption
<1>1. ASSUME UNCHANGED <<lockVars, alive>>
      PROVE  Noticed'
  BY <1>1, Unmoved DEF lockVars
<1>2. CASE MutexAges \/ UNCHANGED allVars
  BY <1>1, <1>2 DEF MutexAges, LockAges, allVars, mutexVars
<1>3. ASSUME NEW p \in Processes, MutexStep(p)
      PROVE  Noticed'
  BY <1>1, <1>3, MutexMoves
<1>4. ASSUME NEW p \in Processes, Return(p)
      PROVE  Noticed'
  <2>1. AtStage(p, "entered") \/ AtStage(p, "refused")
    BY <1>4 DEF Return
  <2> QED BY <1>4, <2>1, ServesNoticed, QuietNoticed
<1>5. ASSUME NEW p \in Processes, Start(p) \/ Works(p) \/ ReleaseService(p) \/ Dies(p)
      PROVE  Noticed'
  BY <1>3, <1>4, <1>5, QuietNoticed, CreateNoticed, ServesNoticed, RemoveStaleNoticed, RecreateNoticed,
     RefillNoticed, UnlinkNoticed, DiesNoticed DEF Works
<1> QED BY <1>2, <1>5 DEF LockNext

-----------------------------------------------------------------------------
(* The lock of the service: the invariant *)

LockInv ==
  /\ MutexInv
  /\ Orderly
  /\ (~anonymous /\ ~misread => \A p \in alive : Filed(p))
  /\ (~anonymous /\ ~misread /\ ~gap => Noticed)

\* The processes find the state directory as a dead one left it.
LEMMA InitLock == ASSUME LockInit PROVE LockInv
<1> USE MutexAssumption, InstanceAssumption
<1>1. MutexInit
  BY DEF LockInit
<1>2. Noticed
  <2>1. /\ alive = Processes /\ (unnoticed <=> (file # NoFile)) /\ \A p \in Processes : stage[p] = "down"
    BY DEF LockInit, MutexInit
  <2>2. Orphan <=> (file # NoFile)
    BY <2>1 DEF Orphan, LockInit, InstanceAssumption, MutexAssumption
  <2> QED BY <2>1, <2>2 DEF Noticed, InGap, Recovering
<1> QED BY <1>1, <1>2, InitMutexInv, InitOrderly, InitFiled DEF LockInv

\* Every step keeps the lock.
LEMMA LockStepKeeps ==
  ASSUME Pair, LockInv, [LockNext]_allVars
  PROVE  LockInv'
<1> USE MutexAssumption, InstanceAssumption
<1>1. LockNext \/ UNCHANGED allVars
  OBVIOUS
<1>2. MutexInv' /\ MutexTypeOK
  BY <1>1, MutexPart, MutexStepKeeps DEF LockInv, MutexInv
<1>3. Orderly'
  BY <1>1, <1>2, OrderlyStep DEF LockInv
<1>4. ASSUME ~anonymous', ~misread'
      PROVE  \A p \in alive' : Filed(p)'
  <2>1. ~anonymous /\ ~misread
    BY <1>1, <1>4, FlagsGrow
  <2> QED BY <1>1, <1>4, <2>1, FiledStep DEF LockInv
<1>5. ASSUME ~anonymous', ~misread', ~gap'
      PROVE  Noticed'
  <2>1. ~anonymous /\ ~misread /\ ~gap
    BY <1>1, <1>5, FlagsGrow
  <2> QED BY <1>1, <1>2, <1>5, <2>1, NoticedStep DEF LockInv
<1> QED BY <1>2, <1>3, <1>4, <1>5 DEF LockInv

\* The types of the lock, and that whoever is in the critical section is a start
\* at the steps inside, for any number of processes.
THEOREM LockIsTyped == LockSpec => []LockTypeOK
<1>1. LockInit => MutexTypeOK /\ Orderly
  BY InitMutexTypes, InitOrderly DEF LockInit
<1>2. MutexTypeOK /\ Orderly /\ [LockNext]_allVars => MutexTypeOK' /\ Orderly'
  <2> SUFFICES ASSUME MutexTypeOK, Orderly, LockNext \/ UNCHANGED allVars PROVE MutexTypeOK' /\ Orderly'
    OBVIOUS
  <2> QED BY MutexPart, MutexTypes, OrderlyStep
<1>3. MutexTypeOK /\ Orderly => LockTypeOK
  BY DEF Orderly, FileTypes, Inside, LockTypeOK, Locked, Stages
<1> QED BY <1>1, <1>2, <1>3, PTL DEF LockSpec

\* What the mutex, the starts, the file and the book say of each other, in every
\* reachable state, while not more than two processes contend.
THEOREM LockIsSound == ASSUME Pair PROVE LockSpec => []LockInv
<1>1. LockInit => LockInv
  BY InitLock, InstanceAssumption, MutexAssumption
<1>2. LockInv /\ [LockNext]_allVars => LockInv'
  BY LockStepKeeps, InstanceAssumption, MutexAssumption
<1> QED BY <1>1, <1>2, PTL DEF LockSpec

\* No two living processes are the service of one state directory, unless a
\* directory without an owner was discarded or a start misjudged a file
\* (acquireInstanceLock, release).
THEOREM OneServiceAtATime == ASSUME Pair PROVE LockSpec => []SingleService
<1>1. LockInv => SingleService
  <2> SUFFICES ASSUME LockInv, ~anonymous, ~misread PROVE Cardinality(Services) <= 1
    BY DEF SingleService, OneService
  <2>1. \A p, q \in Services : p = q
    BY OneOwner, InstanceAssumption DEF LockInv, MutexInv, Services, Owner
  <2>2. CASE Services = {}
    BY <2>2, FS_EmptySet
  <2>3. ASSUME NEW p \in Services PROVE Cardinality(Services) = 1
    <3>1. Services = {p}
      BY <2>1, <2>3
    <3> QED BY <3>1, FS_Singleton
  <2> QED BY <2>2, <2>3
<1> QED BY <1>1, LockIsSound, PTL

\* recoveredStale is reported exactly when the last service died with its lock,
\* but for the exemptions of the property (acquireInstanceLock).
THEOREM UncleanEndIsReported == ASSUME Pair PROVE LockSpec => ReportsUncleanEnd
<1> DEFINE Reports(p) ==
      stage[p] \in {"fill", "entered"} /\ stage'[p] = "held" =>
         anonymous \/ misread \/ gap \/ (recovered[p] <=> unnoticed)
<1>1. LockInv /\ [LockNext]_allVars => [\A p \in Processes : Reports(p)]_allVars
  <2> SUFFICES ASSUME LockInv, LockNext, NEW p \in Processes, stage[p] \in {"fill", "entered"},
                      stage'[p] = "held", ~anonymous, ~misread, ~gap
               PROVE  recovered[p] <=> unnoticed
    OBVIOUS
  <2>1. MutexTypeOK /\ Orderly /\ (\A r \in alive : Filed(r)) /\ Noticed
        /\ stage \in [Processes -> Stages]
    BY DEF LockInv, MutexInv, Orderly, FileTypes
  <2>2. Fill(p) \/ (Return(p) /\ AtStage(p, "entered"))
    <3>1. PICK q \in Processes : Start(q) \/ Works(q) \/ ReleaseService(q) \/ Dies(q)
      BY <2>1 DEF LockNext, MutexAges, lockVars
    <3>2. ~(Start(q) \/ ReleaseService(q) \/ Dies(q))
      BY <2>1 DEF Start, ReleaseService, Dies, To
    <3>3. ~(Create(q) \/ Retry(q) \/ Read(q) \/ RemoveStale(q) \/ Recreate(q) \/ Refill(q)
            \/ Unlink(q) \/ MutexStep(q))
      BY <2>1 DEF Create, Retry, Read, RemoveStale, Recreate, Refill, Unlink, MutexStep, lockVars, To
    <3>4. Fill(q) \/ Return(q)
      BY <3>1, <3>2, <3>3 DEF Works
    <3>5. q = p
      BY <2>1, <3>4 DEF Fill, Return, Serves, To
    <3> QED BY <2>1, <3>4, <3>5 DEF Return, AtStage, To
  <2> QED BY <2>1, <2>2, ServesNoticed, InstanceAssumption
<1> QED BY <1>1, LockIsSound, PTL DEF LockSpec, ReportsUncleanEnd

\* Two processes exclude each other by their tokens (acquireFileMutex,
\* tryRecoverStaleLock, releaseFileMutex); three do not.
THEOREM TokenExcludes == ASSUME Pair PROVE MutexSpec => []ExclusionByToken
<1>1. MutexInit => MutexInv
  BY InitMutexInv, MutexAssumption
<1>2. MutexInv /\ [MutexNext]_mutexVars => MutexInv'
  BY MutexStepKeeps, MutexAssumption
<1>3. MutexInv => ExclusionByToken
  <2> SUFFICES ASSUME MutexInv, ~anonymous PROVE Cardinality(InCritical) <= 1
    BY DEF ExclusionByToken, MutualExclusion
  <2>1. \A p, q \in InCritical : p = q
    BY OneInside, MutexAssumption DEF InCritical
  <2>2. CASE InCritical = {}
    BY <2>2, FS_EmptySet
  <2>3. ASSUME NEW p \in InCritical PROVE Cardinality(InCritical) = 1
    <3>1. InCritical = {p}
      BY <2>1, <2>3
    <3> QED BY <3>1, FS_Singleton
  <2> QED BY <2>2, <2>3
<1> QED BY <1>1, <1>2, <1>3, PTL DEF MutexSpec
=============================================================================
