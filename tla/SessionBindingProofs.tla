------------------------- MODULE SessionBindingProofs -------------------------
(***************************************************************************)
(* A turn opens the thread its conversation is bound to, and the engine    *)
(* turns of all processes stay within the widest pool: for any processes,  *)
(* conversations, turns and limits, with crashes, lost releases and leases *)
(* dropped under their turns, which the second does not count any more.    *)
(*                                                                         *)
(* The locks carry the first.  They are files that name their holder, and  *)
(* are taken over only from a holder that is gone; so a turn past its lock *)
(* is the one the file names, and no other turn of its conversation is     *)
(* there to rebind it.  The second counts the leases and not the turns: a  *)
(* turn in the engine has one, unless it was dropped under it unrenewed,   *)
(* and they are counted when one is taken.                                 *)
(***************************************************************************)
EXTENDS SessionBinding, FiniteSetTheorems, TLAPS

PCs == AtRest \cup WithConversation \cup {"locking", "dropping"}

Types ==
  /\ records \in [Conversations -> Records \cup {None}]
  /\ used \subseteq Threads
  /\ pc \in [Turns -> PCs]
  /\ want \in [Turns -> Sessions \cup {None}] /\ thread \in [Turns -> Threads \cup {None}]
  /\ kept \in [Turns -> Records \cup {None}]
  /\ stale \subseteq Turns /\ retried \subseteq stale /\ leases \subseteq Turns
  /\ queue \in [Conversations -> Turns \cup {None}]
  /\ conversationLock \in [Conversations -> Turns \cup {None}]
  /\ sessionLock \in [Sessions -> Turns \cup {None}]

\* A step of a turn, or of what it holds.
StepOf(t) == Begin(t) \/ Work(t) \/ StopWaiting(t) \/ FindStale(t) \/ RenewalsFail(t)

\* What a turn knows where it is.
Knows(t) ==
  /\ pc[t] \in {"session"} \cup WithSession => want[t] \in Sessions
  /\ pc[t] \in InEngine => thread[t] \in Threads
  /\ pc[t] = "dropping" => t \in stale
  /\ pc[t] \in WithLease => t \in leases \cup unrenewed
Known == \A t \in Turns : Knows(t)

\* Whoever is between its lock and its unlock is named in the file.
Holding ==
  \A t \in Turns :
    /\ pc[t] \in WithConversation => conversationLock[Of(t)] = t
    /\ pc[t] \in WithSession => sessionLock[want[t]] = t

Bounded == \E p \in Processes : Cardinality(leases) <= MaxActive[p]

-----------------------------------------------------------------------------
\* Initially no turn has begun.
LEMMA InitBinding == Init => Types /\ Known /\ Holding /\ Bounded /\ NoStaleThread
<1> SUFFICES ASSUME Init PROVE Types /\ Known /\ Holding /\ Bounded /\ NoStaleThread
  OBVIOUS
<1> USE BindingAssumption
<1>1. Types
  BY DEF Init, Types, PCs, AtRest
<1>2. Known /\ Holding /\ NoStaleThread
  BY DEF Init, Known, Knows, Holding, NoStaleThread, WithConversation, WithSession, WithLease, InEngine
<1>3. Bounded
  <2>1. PICK p \in Processes : TRUE
    OBVIOUS
  <2>2. Cardinality(leases) = 0
    BY FS_EmptySet DEF Init
  <2>3. MaxActive[p] \in Nat
    OBVIOUS
  <2> QED BY <2>1, <2>2, <2>3 DEF Bounded
<1> QED BY <1>1, <1>2, <1>3

\* A turn goes on, and only it.
LEMMA Going ==
  ASSUME Types, NEW t \in Turns, NEW state \in PCs, Goto(t, state)
  PROVE  /\ pc' \in [Turns -> PCs] /\ pc'[t] = state
         /\ \A u \in Turns : u # t => pc'[u] = pc[u]
  BY DEF Types, Goto

\* A record that is bound, resumed or restored is a record.
LEMMA RecordFacts ==
  ASSUME NEW record \in Records \cup {None}, NEW s \in Threads
  PROVE  /\ Rebound(record, s) \in Records
         /\ Snapshot(record) \in Snapshots \cup {None}
         /\ [session |-> s, resume |-> s, suspended |-> Snapshot(record)] \in Records
<1>1. CASE record = None
  BY <1>1 DEF Rebound, Snapshot, Records
<1>2. CASE record # None
  <2>1. record \in Records
    BY <1>2
  <2>2. Rebound(record, s) \in Records
    BY <1>2, <2>1 DEF Rebound, Records
  <2>3. Snapshot(record) \in Snapshots \cup {None}
    BY <1>2, <2>1 DEF Snapshot, Records, Snapshots
  <2> QED BY <2>2, <2>3 DEF Records
<1> QED BY <1>1, <1>2

\* Forgetting the calls that ended keeps the types of what they knew.
LEMMA ForgetTypes ==
  ASSUME Types, NEW gone, Forget(gone)
  PROVE  /\ want' \in [Turns -> Sessions \cup {None}]
         /\ thread' \in [Turns -> Threads \cup {None}]
         /\ kept' \in [Turns -> Records \cup {None}]
         /\ \A t \in Turns : t \notin gone => want'[t] = want[t] /\ thread'[t] = thread[t]
  BY DEF Types, Forget

\* The types, action by action.
LEMMA TypesWork ==
  ASSUME Types, Known, NEW t \in Turns, StepOf(t)
  PROVE  Types'
<1> USE BindingAssumption
<1>0. pc' \in [Turns -> PCs]
  BY DEF StepOf, Begin, Work, StopWaiting, FindStale, LockConversation, Resolve, LockSession, TakeLease, Open,
         ReadRecord, WriteRecord, Answer, Fail, Leave, LeaseLapses, RenewalsFail, Unlock, DropStale, Ends,
         Goto, Types, PCs, AtRest, WithConversation, WithSession, WithLease, InEngine
<1>1. Of(t) \in Conversations
  BY DEF Of
<1>2. CASE Begin(t)
  BY <1>0, <1>1, <1>2 DEF Begin, Types, turn, locks
<1>3. CASE LockConversation(t)
  BY <1>0, <1>1, <1>3 DEF LockConversation, Types, turn
<1>4. CASE Resolve(t)
  <2>1. Bound(Of(t)) \in Sessions
    BY <1>1 DEF Bound, Types, Records, Sessions
  <2> QED BY <1>0, <2>1, <1>4 DEF Resolve, Types, locks
<1>5. CASE LockSession(t)
  BY <1>0, <1>5 DEF LockSession, Types, turn
<1>6. CASE TakeLease(t)
  BY <1>0, <1>6 DEF TakeLease, Alive, Types, turn
<1>7. CASE \E s \in Threads : Open(t, s)
  BY <1>0, <1>7 DEF Open, Types, locks
<1>8. CASE ReadRecord(t)
  BY <1>0, <1>1, <1>8 DEF ReadRecord, Types, locks
<1>9. CASE WriteRecord(t)
  <2>1. thread[t] \in Threads /\ kept[t] \in Records \cup {None}
    BY <1>9 DEF WriteRecord, Known, Knows, InEngine, Types
  <2>2. Rebound(kept[t], thread[t]) \in Records
    BY <2>1, RecordFacts
  <2> QED BY <1>0, <2>2, <1>9 DEF WriteRecord, Types, turn, locks
<1>10. CASE Answer(t) \/ Fail(t) \/ StopWaiting(t)
  BY <1>0, <1>10 DEF Answer, Fail, StopWaiting, Types, turn, locks
<1>11. CASE Leave(t) \/ LeaseLapses(t) \/ RenewalsFail(t)
  BY <1>0, <1>11 DEF Leave, LeaseLapses, RenewalsFail, Types, turn
<1>12. CASE Unlock(t)
  <2>1. /\ want' \in [Turns -> Sessions \cup {None}]
        /\ thread' \in [Turns -> Threads \cup {None}]
        /\ kept' \in [Turns -> Records \cup {None}]
    BY <1>12, ForgetTypes DEF Unlock
  <2>2. /\ conversationLock' \in [Conversations -> Turns \cup {None}]
        /\ sessionLock' \in [Sessions -> Turns \cup {None}]
        /\ queue' \in [Conversations -> Turns \cup {None}]
    BY <1>12, <1>1 DEF Unlock, Types
  <2>3. UNCHANGED <<records, used, stale, retried, leases>>
    BY <1>12 DEF Unlock
  <2> QED BY <1>0, <2>1, <2>2, <2>3 DEF Types
<1>13. CASE DropStale(t)
  <2>1. t \in stale
    BY <1>13 DEF DropStale, Known, Knows
  <2> QED BY <1>0, <2>1, <1>1, <1>13 DEF DropStale, Types, locks
<1>14. CASE FindStale(t)
  BY <1>0, <1>14 DEF FindStale, Types, locks
<1> QED
  BY <1>2, <1>3, <1>4, <1>5, <1>6, <1>7, <1>8, <1>9, <1>10, <1>11, <1>12, <1>13, <1>14 DEF StepOf, Work

\* Commands and crashes keep the types.
LEMMA TypesElse ==
  ASSUME Types,
         \/ \E c \in Conversations : Detach(c) \/ Reset(c) \/ \E s \in Local : Resume(c, s)
         \/ \E p \in Processes : Crash(p)
  PROVE  Types'
<1> USE BindingAssumption
<1>1. CASE \E p \in Processes : Crash(p)
  <2> PICK p \in Processes : Crash(p)
    BY <1>1
  <2>1. pc' \in [Turns -> PCs]
    BY DEF Crash, Types, PCs, AtRest
  <2>2. /\ want' \in [Turns -> Sessions \cup {None}]
        /\ thread' \in [Turns -> Threads \cup {None}]
        /\ kept' \in [Turns -> Records \cup {None}]
    BY ForgetTypes DEF Crash
  <2>3. queue' \in [Conversations -> Turns \cup {None}]
    BY DEF Crash, Types
  <2>4. UNCHANGED <<records, used, stale, retried, locks>>
    BY DEF Crash
  <2> QED BY <2>1, <2>2, <2>3, <2>4 DEF Types, locks
<1>2. CASE \E c \in Conversations : Detach(c) \/ Reset(c) \/ \E s \in Local : Resume(c, s)
  <2> PICK c \in Conversations : Detach(c) \/ Reset(c) \/ \E s \in Local : Resume(c, s)
    BY <1>2
  <2>1. UNCHANGED <<used, pc, turn, queue, locks>>
    BY DEF Detach, Reset, Resume, Command
  <2>2. \E record \in Records \cup {None} : records' = [records EXCEPT ![c] = record]
    <3>1. CASE Detach(c)
      <4>1. records[c] \in Records
        BY <3>1 DEF Detach, Types
      <4> DEFINE previous == records[c].suspended
      <4>2. previous = None \/ previous \in Snapshots
        BY <4>1 DEF Records
      <4>3. CASE previous = None \/ previous.session = None
        BY <4>3, <3>1 DEF Detach
      <4>4. CASE ~(previous = None \/ previous.session = None)
        <5>1. previous.session \in Threads /\ previous.resume \in Threads \cup {None}
          BY <4>2, <4>4 DEF Snapshots
        <5>2. [session |-> previous.session, resume |-> previous.resume, suspended |-> None] \in Records
          BY <5>1 DEF Records
        <5> QED BY <5>2, <4>4, <3>1 DEF Detach
      <4> QED BY <4>3, <4>4
    <3>2. CASE Reset(c)
      BY <3>2 DEF Reset
    <3>3. CASE \E s \in Local : Resume(c, s)
      <4> PICK s \in Local : Resume(c, s)
        BY <3>3
      <4>1. s \in Threads /\ records[c] \in Records \cup {None}
        BY DEF Types
      <4>2. [session |-> s, resume |-> s, suspended |-> Snapshot(records[c])] \in Records
        BY <4>1, RecordFacts
      <4>3. records' = [records EXCEPT ![c] =
                         [session |-> s, resume |-> s, suspended |-> Snapshot(records[c])]]
        BY DEF Resume, Types
      <4> QED BY <4>2, <4>3
    <3> QED BY <3>1, <3>2, <3>3
  <2> QED BY <2>1, <2>2 DEF Types, turn, locks
<1> QED BY <1>1, <1>2

\* Every step keeps the types.
LEMMA NextTypes == ASSUME Types, Known, [Next]_vars PROVE Types'
<1>1. CASE UNCHANGED vars
  BY <1>1 DEF vars, turn, locks, Types
<1> QED BY <1>1, TypesWork, TypesElse DEF StepOf, Next

\* Commands move no turn, and change nothing but the record of their conversation.
LEMMA CommandFacts ==
  ASSUME Types, NEW c \in Conversations, Detach(c) \/ Reset(c) \/ \E s \in Local : Resume(c, s)
  PROVE  /\ UNCHANGED <<pc, want, thread, stale, locks, unrenewed>>
         /\ \A d \in Conversations : d # c => records'[d] = records[d]
         /\ touched' = touched \cup {t \in Turns : Lane[t] = c /\ pc[t] \in WithConversation}
  BY DEF Detach, Reset, Resume, Command, Touch, turn, Types

\* A turn's own step moves that turn only.
LEMMA OthersStay ==
  ASSUME Types, NEW t \in Turns, StepOf(t)
  PROVE  \A u \in Turns \ {t} :
           /\ pc'[u] = pc[u] /\ want'[u] = want[u] /\ thread'[u] = thread[u]
           /\ u \in stale => u \in stale'
           /\ u \in leases /\ pc[u] # "gone" => u \in leases'
           /\ u \in unrenewed => u \in unrenewed'
<1>1. CASE Begin(t) \/ LockConversation(t) \/ Resolve(t) \/ LockSession(t)
  BY <1>1 DEF Begin, LockConversation, Resolve, LockSession, Goto, Types, turn, locks, history
<1>2. CASE TakeLease(t)
  BY <1>2 DEF TakeLease, Alive, Goto, Types, turn, history
<1>3. CASE \E s \in Threads : Open(t, s)
  BY <1>3 DEF Open, Goto, Types, locks, history
<1>4. CASE ReadRecord(t) \/ WriteRecord(t) \/ Answer(t) \/ Fail(t) \/ StopWaiting(t) \/ FindStale(t)
  BY <1>4 DEF ReadRecord, WriteRecord, Answer, Fail, StopWaiting, FindStale, Goto, Types, turn,
         locks, history
<1>5. CASE Leave(t) \/ LeaseLapses(t) \/ RenewalsFail(t)
  BY <1>5 DEF Leave, LeaseLapses, RenewalsFail, Goto, Types, turn, history
<1>6. CASE Unlock(t)
  <2>1. \A u \in Turns \ {t} : want'[u] = want[u] /\ thread'[u] = thread[u]
    BY <1>6, ForgetTypes DEF Unlock
  <2>2. unrenewed' = unrenewed \ {t}
    BY <1>6 DEF Unlock, Forget
  <2> QED BY <1>6, <2>1, <2>2 DEF Unlock, Goto, Types
<1>7. CASE DropStale(t)
  BY <1>7 DEF DropStale, Goto, Types, locks, history
<1> QED
  BY <1>1, <1>2, <1>3, <1>4, <1>5, <1>6, <1>7 DEF StepOf, Work

\* A turn learns what it needs before it goes where it needs it.
LEMMA KnownWork ==
  ASSUME Types, Known, NEW t \in Turns, StepOf(t)
  PROVE  Knows(t)'
<1> USE BindingAssumption DEF Knows, InEngine, WithLease, WithSession
<1>0. Knows(t) /\ pc \in [Turns -> PCs] /\ Of(t) \in Conversations
  BY DEF Known, Types, Of
<1>1. CASE Begin(t) \/ LockConversation(t)
  BY <1>0, <1>1 DEF Begin, LockConversation, Goto
<1>2. CASE Resolve(t)
  <2>1. Bound(Of(t)) \in Sessions
    BY <1>0 DEF Bound, Types, Records, Sessions
  <2>2. want'[t] \in Sessions /\ pc'[t] = "session"
    BY <2>1, <1>0, <1>2 DEF Resolve, Goto, Types
  <2> QED BY <2>2
<1>3. CASE LockSession(t)
  BY <1>0, <1>3 DEF LockSession, Goto, turn, history
<1>4. CASE TakeLease(t)
  BY <1>0, <1>4 DEF TakeLease, Goto, turn, history
<1>5. CASE \E s \in Threads : Open(t, s)
  <2>1. pc[t] = "opening" /\ pc'[t] \in {"running", "telling"} /\ UNCHANGED <<want, leases, unrenewed>>
    BY <1>0, <1>5 DEF Open, Goto, locks, history
  <2>2. thread'[t] \in Threads
    BY <1>5 DEF Open, Types
  <2> QED BY <1>0, <2>1, <2>2
<1>6. CASE ReadRecord(t) \/ WriteRecord(t) \/ Answer(t) \/ Fail(t)
  <2>1. /\ pc[t] \in WithLease /\ pc'[t] \in WithLease
        /\ pc'[t] \in InEngine => pc[t] \in InEngine
        /\ UNCHANGED <<want, thread, leases, unrenewed>>
    BY <1>0, <1>6 DEF ReadRecord, WriteRecord, Answer, Fail, Goto, turn, locks, history
  <2> QED BY <1>0, <2>1
<1>7. CASE FindStale(t)
  BY <1>0, <1>7 DEF FindStale, Goto, locks, history
<1>8. CASE StopWaiting(t)
  BY <1>0, <1>8 DEF StopWaiting, Goto, turn, history
<1>9. CASE Leave(t)
  BY <1>0, <1>9 DEF Leave, Goto, turn, history
<1>10. CASE LeaseLapses(t)
  BY <1>0, <1>10 DEF LeaseLapses, turn, history
<1>11. CASE Unlock(t)
  <2>1. pc'[t] = Ends(t) /\ stale' = stale
    BY <1>0, <1>11 DEF Unlock, Goto
  <2>2. Ends(t) = "done" \/ (Ends(t) = "dropping" /\ t \in stale)
    BY DEF Ends
  <2> QED BY <2>1, <2>2
<1>12. CASE DropStale(t)
  BY <1>0, <1>12 DEF DropStale, Goto
<1>13. CASE RenewalsFail(t)
  BY <1>0, <1>13 DEF RenewalsFail, turn, history
<1> QED
  BY <1>1, <1>2, <1>3, <1>4, <1>5, <1>6, <1>7, <1>8, <1>9, <1>10, <1>11, <1>12, <1>13 DEF StepOf, Work

\* Who is not gone when a process dies goes on with what it has; the files stay.
LEMMA CrashFacts ==
  ASSUME Types, NEW p \in Processes, Crash(p)
  PROVE  /\ UNCHANGED <<records, stale, locks>>
         /\ \A t \in Turns : pc'[t] # "gone" =>
              /\ pc'[t] = pc[t] /\ want'[t] = want[t] /\ thread'[t] = thread[t]
              /\ t \in touched => t \in touched'
              /\ t \in unrenewed => t \in unrenewed'
<1> DEFINE gone == {t \in Turns : InFlight(t) /\ Home[Of(t)] = p}
<1>1. /\ pc' = [t \in Turns |-> IF t \in gone THEN "gone" ELSE pc[t]] /\ Forget(gone)
      /\ UNCHANGED <<records, stale, locks>>
  BY DEF Crash
<1> HIDE DEF gone
<1>2. \A t \in Turns : t \notin gone => want'[t] = want[t] /\ thread'[t] = thread[t]
  BY <1>1, ForgetTypes
<1>3. touched' = touched \ gone /\ unrenewed' = unrenewed \ gone
  BY <1>1 DEF Forget
<1> QED BY <1>1, <1>2, <1>3

\* Every step keeps what turns know.
LEMMA NextKnown == ASSUME Types, Known, [Next]_vars PROVE Known'
<1>1. CASE UNCHANGED vars
  BY <1>1 DEF vars, turn, locks, history, Known, Knows
<1>2. ASSUME NEW t \in Turns, StepOf(t)
      PROVE  Known'
  <2>1. Knows(t)'
    BY <1>2, KnownWork
  <2>2. ASSUME NEW u \in Turns \ {t} PROVE Knows(u)'
    <3>1. /\ pc'[u] = pc[u] /\ want'[u] = want[u] /\ thread'[u] = thread[u]
          /\ u \in stale => u \in stale'
          /\ u \in leases /\ pc[u] # "gone" => u \in leases'
          /\ u \in unrenewed => u \in unrenewed'
      BY <1>2, OthersStay
    <3>2. pc[u] \in WithLease => pc[u] # "gone"
      BY DEF WithLease, InEngine
    <3> QED BY <3>1, <3>2 DEF Known, Knows
  <2> QED BY <2>1, <2>2 DEF Known
<1>3. ASSUME NEW c \in Conversations, Detach(c) \/ Reset(c) \/ \E s \in Local : Resume(c, s)
      PROVE  Known'
  BY <1>3, CommandFacts DEF Known, Knows, locks
<1>4. ASSUME NEW p \in Processes, Crash(p) PROVE Known'
  <2>1. \A t \in Turns : pc'[t] = "gone" => Knows(t)'
    BY DEF Knows, WithSession, WithLease, InEngine
  <2>2. leases' = leases
    BY <1>4, CrashFacts DEF locks
  <2>3. \A t \in Turns : pc'[t] # "gone" => Knows(t)'
    BY <1>4, <2>2, CrashFacts DEF Known, Knows
  <2> QED BY <2>1, <2>3 DEF Known
<1> QED BY <1>1, <1>2, <1>3, <1>4 DEF StepOf, Next

-----------------------------------------------------------------------------
(* Locks *)

\* No turn enters where a lock is needed, and the locks stay with who is there.
LEMMA SameHolding ==
  ASSUME Holding, UNCHANGED <<conversationLock, sessionLock>>,
         \A t \in Turns :
           /\ pc'[t] \in WithConversation => pc[t] \in WithConversation
           /\ pc'[t] \in WithSession => pc[t] \in WithSession /\ want'[t] = want[t]
  PROVE  Holding'
  BY DEF Holding

\* Locks are taken from nobody who is there, and released by their holder.
LEMMA HoldingWork ==
  ASSUME Types, Known, Holding, NEW t \in Turns,
         StepOf(t)
  PROVE  Holding'
<1> USE BindingAssumption
<1>0. /\ pc \in [Turns -> PCs] /\ Of(t) \in Conversations
      /\ \A u \in Turns \ {t} : pc'[u] = pc[u] /\ want'[u] = want[u]
      /\ WithSession \subseteq WithConversation /\ "gone" \notin WithConversation
      /\ None \notin Turns
  BY OthersStay DEF Types, Of, WithConversation, WithSession, WithLease, InEngine
<1>1. CASE LockConversation(t)
  <2>1. /\ pc[t] = "locking" /\ pc'[t] = "resolving" /\ sessionLock' = sessionLock
        /\ conversationLock' = [conversationLock EXCEPT ![Of(t)] = t]
        /\ Free(conversationLock[Of(t)])
    BY <1>0, <1>1 DEF LockConversation, Goto
  <2>2. \A u \in Turns : conversationLock[Of(t)] = u => pc[u] \notin WithConversation
    BY <2>1, <1>0 DEF Free
  <2>3. pc'[t] \notin WithSession
    BY <2>1 DEF WithSession, WithLease, InEngine
  <2>4. \A u \in Turns \ {t} : pc[u] \in WithConversation => Of(u) # Of(t) /\ conversationLock[Of(u)] = u
    BY <2>2 DEF Holding
  <2>5. conversationLock'[Of(t)] = t
    BY <2>1, <1>0 DEF Types
  <2>6. \A u \in Turns \ {t} : pc[u] \in WithConversation => conversationLock'[Of(u)] = u
    BY <2>1, <2>4
  <2> QED BY <1>0, <2>1, <2>3, <2>5, <2>6 DEF Holding
<1>2. CASE LockSession(t)
  <2>1. /\ pc[t] = "session" /\ pc'[t] = "pool" /\ conversationLock' = conversationLock
        /\ sessionLock' = [sessionLock EXCEPT ![want[t]] = t] /\ want' = want
        /\ Free(sessionLock[want[t]])
    BY <1>0, <1>2 DEF LockSession, Goto, turn
  <2>2. \A u \in Turns : sessionLock[want[t]] = u => pc[u] \notin WithSession
    BY <2>1, <1>0 DEF Free
  <2>3. pc[t] \in WithConversation /\ pc'[t] \in WithConversation /\ want[t] \in Sessions
    BY <2>1 DEF Known, Knows, WithConversation, WithSession
  <2>4. \A u \in Turns \ {t} : pc[u] \in WithSession => want[u] # want[t] /\ sessionLock[want[u]] = u
    BY <2>2 DEF Holding
  <2>5. sessionLock'[want[t]] = t
    BY <2>1, <2>3 DEF Types
  <2>6. \A u \in Turns \ {t} : pc[u] \in WithSession => sessionLock'[want[u]] = u
    BY <2>1, <2>4
  <2> QED BY <1>0, <2>1, <2>3, <2>5, <2>6 DEF Holding
<1>3. CASE Unlock(t)
  <2>1. /\ pc[t] = "unlocking" /\ pc'[t] \in {"done", "dropping"}
        /\ conversationLock' = [conversationLock EXCEPT ![Of(t)] =
                                  IF conversationLock[Of(t)] = t THEN None ELSE conversationLock[Of(t)]]
        /\ sessionLock' = [sessionLock EXCEPT ![want[t]] = None]
    BY <1>0, <1>3 DEF Unlock, Goto, Ends
  <2>2. pc[t] \in WithConversation /\ pc[t] \in WithSession /\ pc'[t] \notin WithConversation
    BY <2>1 DEF WithConversation, WithSession, WithLease, InEngine
  <2>3. conversationLock[Of(t)] = t /\ sessionLock[want[t]] = t
    BY <2>2 DEF Holding
  <2>4. \A u \in Turns \ {t} : pc[u] \in WithConversation =>
          Of(u) # Of(t) /\ conversationLock[Of(u)] = u
    BY <2>3 DEF Holding
  <2>5. \A u \in Turns \ {t} : pc[u] \in WithSession =>
          want[u] # want[t] /\ sessionLock[want[u]] = u
    BY <2>3 DEF Holding
  <2>6. \A u \in Turns \ {t} : pc[u] \in WithConversation => conversationLock'[Of(u)] = u
    BY <2>1, <2>4
  <2>7. \A u \in Turns \ {t} : pc[u] \in WithSession => sessionLock'[want[u]] = u
    BY <2>1, <2>5
  <2> QED BY <1>0, <2>2, <2>6, <2>7 DEF Holding
<1>4. CASE ~(LockConversation(t) \/ LockSession(t) \/ Unlock(t))
  <2>1. UNCHANGED <<conversationLock, sessionLock>>
    BY <1>4 DEF StepOf, Begin, Work, StopWaiting, FindStale, Resolve, TakeLease, Open, ReadRecord, WriteRecord,
           Answer, Fail, Leave, LeaseLapses, RenewalsFail, DropStale, locks
  <2>2. pc'[t] \in WithConversation => pc[t] \in WithConversation
    BY <1>0, <1>4 DEF StepOf, Begin, Work, StopWaiting, FindStale, Resolve, TakeLease, Open, ReadRecord, WriteRecord,
           Answer, Fail, Leave, LeaseLapses, RenewalsFail, DropStale, Goto, WithConversation,
           WithSession, WithLease, InEngine
  <2>3. pc'[t] \in WithSession => pc[t] \in WithSession /\ want'[t] = want[t]
    BY <1>0, <1>4 DEF StepOf, Begin, Work, StopWaiting, FindStale, Resolve, TakeLease, Open, ReadRecord, WriteRecord,
           Answer, Fail, Leave, LeaseLapses, RenewalsFail, DropStale, Goto, turn, WithSession,
           WithLease, InEngine
  <2> QED BY <1>0, <2>1, <2>2, <2>3, SameHolding
<1> QED BY <1>1, <1>2, <1>3, <1>4

\* Every step keeps the locks with who is past them.
LEMMA NextHolding == ASSUME Types, Known, Holding, [Next]_vars PROVE Holding'
<1>1. CASE UNCHANGED vars
  BY <1>1, SameHolding DEF vars, turn, locks
<1>2. ASSUME NEW c \in Conversations, Detach(c) \/ Reset(c) \/ \E s \in Local : Resume(c, s)
      PROVE  Holding'
  BY <1>2, CommandFacts, SameHolding DEF locks
<1>3. ASSUME NEW p \in Processes, Crash(p) PROVE Holding'
  <2>1. "gone" \notin WithConversation /\ "gone" \notin WithSession
    BY DEF WithConversation, WithSession, WithLease, InEngine
  <2> QED BY <1>3, <2>1, CrashFacts, SameHolding DEF locks
<1> QED BY <1>1, <1>2, <1>3, HoldingWork DEF StepOf, Next

-----------------------------------------------------------------------------
(* The thread a turn opens *)

Opening(t) == pc[t] \in {"session", "pool", "opening"} /\ t \notin touched

\* A turn that is about to open a thread still finds its conversation as it was.
LEMMA SameThread ==
  ASSUME NoStaleThread,
         \A t \in Turns : Opening(t)' =>
           /\ Opening(t) /\ want'[t] = want[t] /\ records'[Of(t)] = records[Of(t)]
  PROVE  NoStaleThread'
  BY DEF NoStaleThread, Opening, Bound

\* Only the holder of a conversation's lock rebinds it, and it is past opening.
LEMMA StaleWork ==
  ASSUME Types, Known, Holding, NoStaleThread, NEW t \in Turns,
         StepOf(t)
  PROVE  NoStaleThread'
<1> USE BindingAssumption
<1>0. /\ pc \in [Turns -> PCs] /\ Of(t) \in Conversations
      /\ \A u \in Turns : Of(u) \in Conversations
      /\ \A u \in Turns \ {t} : pc'[u] = pc[u] /\ want'[u] = want[u]
  BY OthersStay DEF Types, Of
<1>1. CASE Resolve(t)
  <2>1. /\ want' = [want EXCEPT ![t] = Bound(Of(t))] /\ records' = records
        /\ touched' = touched \ {t}
    BY <1>1 DEF Resolve
  <2>2. want'[t] = Bound(Of(t))'
    BY <2>1 DEF Types, Bound
  <2>3. \A u \in Turns \ {t} : Opening(u)' => Opening(u) /\ want'[u] = want[u]
    BY <1>0, <2>1 DEF Opening
  <2>4. \A u \in Turns \ {t} : Opening(u)' => want'[u] = Bound(Of(u))'
    BY <2>1, <2>3 DEF NoStaleThread, Opening, Bound
  <2> QED BY <2>2, <2>4 DEF NoStaleThread, Opening
<1>2. CASE WriteRecord(t)
  <2>1. /\ pc[t] \in {"binding", "late"} /\ pc'[t] \in {"bound", "leaving"}
        /\ want' = want /\ touched' = touched
        /\ records' = [records EXCEPT ![Of(t)] = Rebound(kept[t], thread[t])]
    BY <1>0, <1>2 DEF WriteRecord, Goto, turn, history
  <2>2. pc[t] \in WithConversation
    BY <2>1 DEF WithConversation, WithSession, WithLease, InEngine
  <2>3. \A u \in Turns \ {t} : pc[u] \in WithConversation => Of(u) # Of(t)
    BY <2>2 DEF Holding
  <2>4. \A u \in Turns : Opening(u)' => u # t /\ Opening(u) /\ pc[u] \in WithConversation
    BY <1>0, <2>1 DEF Opening, WithConversation, WithSession, WithLease
  <2>5. \A u \in Turns : Opening(u)' => records'[Of(u)] = records[Of(u)]
    BY <1>0, <2>1, <2>3, <2>4 DEF Types
  <2> QED BY <2>1, <2>4, <2>5, SameThread
<1>3. CASE DropStale(t)
  <2>1. /\ pc'[t] = "locking" /\ want' = want
        /\ records' = [records EXCEPT ![Of(t)] = None]
        /\ touched' = touched \cup {u \in Turns : Lane[u] = Of(t) /\ pc[u] \in WithConversation}
    BY <1>0, <1>3 DEF DropStale, Goto, Touch
  <2>2. \A u \in Turns : Opening(u)' => u # t /\ Opening(u) /\ pc[u] \in WithConversation
    BY <1>0, <2>1 DEF Opening, WithConversation, WithSession, WithLease
  <2>3. \A u \in Turns : Opening(u)' => Of(u) # Of(t)
    BY <2>1, <2>2 DEF Opening, Of
  <2>4. \A u \in Turns : Opening(u)' => records'[Of(u)] = records[Of(u)]
    BY <1>0, <2>1, <2>3 DEF Types
  <2> QED BY <2>1, <2>2, <2>4, SameThread
<1>4. CASE Unlock(t)
  <2>1. pc'[t] \in {"done", "dropping"} /\ records' = records /\ touched' = touched \ {t}
    BY <1>0, <1>4 DEF Unlock, Goto, Ends, Forget
  <2>2. \A u \in Turns : Opening(u)' => u # t /\ Opening(u)
    BY <1>0, <2>1 DEF Opening
  <2> QED BY <1>0, <2>1, <2>2, SameThread
<1>5. CASE ~(Resolve(t) \/ WriteRecord(t) \/ DropStale(t) \/ Unlock(t))
  <2>1. /\ records' = records /\ touched' = touched /\ want' = want
        /\ pc'[t] \in {"session", "pool", "opening"} => pc[t] \in {"session", "pool", "opening"}
    BY <1>0, <1>5 DEF StepOf, Begin, Work, StopWaiting, FindStale, LockConversation, LockSession, TakeLease, Open,
           ReadRecord, Answer, Fail, Leave, LeaseLapses, RenewalsFail, Goto, turn, history
  <2>2. \A u \in Turns : Opening(u)' => Opening(u)
    BY <1>0, <2>1 DEF Opening
  <2> QED BY <2>1, <2>2, SameThread
<1> QED BY <1>1, <1>2, <1>3, <1>4, <1>5

\* Every step leaves turns about to open a thread with the right one.
LEMMA NextStale == ASSUME Types, Known, Holding, NoStaleThread, [Next]_vars PROVE NoStaleThread'
<1> USE BindingAssumption
<1>1. CASE UNCHANGED vars
  BY <1>1 DEF vars, turn, history, NoStaleThread, Bound
<1>2. ASSUME NEW c \in Conversations, Detach(c) \/ Reset(c) \/ \E s \in Local : Resume(c, s)
      PROVE  NoStaleThread'
  <2>1. /\ pc' = pc /\ want' = want
        /\ \A d \in Conversations : d # c => records'[d] = records[d]
        /\ touched' = touched \cup {t \in Turns : Lane[t] = c /\ pc[t] \in WithConversation}
    BY <1>2, CommandFacts
  <2>2. \A t \in Turns : Opening(t)' => Opening(t) /\ pc[t] \in WithConversation
    BY <2>1 DEF Opening, WithConversation, WithSession, WithLease
  <2>3. \A t \in Turns : Opening(t)' => Of(t) # c /\ Of(t) \in Conversations
    BY <2>1, <2>2 DEF Opening, Of
  <2> QED BY <2>1, <2>2, <2>3, SameThread
<1>3. ASSUME NEW p \in Processes, Crash(p) PROVE NoStaleThread'
  <2>1. records' = records
    BY <1>3, CrashFacts
  <2>2. \A t \in Turns : Opening(t)' => Opening(t) /\ want'[t] = want[t]
    BY <1>3, CrashFacts DEF Opening
  <2> QED BY <2>1, <2>2, SameThread
<1> QED BY <1>1, <1>2, <1>3, StaleWork DEF StepOf, Next

-----------------------------------------------------------------------------
(* The pool *)

\* No more leases than before.
LEMMA FewerLeases == ASSUME Types, Bounded, leases' \subseteq leases PROVE Bounded'
<1> USE BindingAssumption
<1>1. IsFiniteSet(leases)
  BY FS_Subset DEF Types
<1>2. IsFiniteSet(leases') /\ Cardinality(leases') <= Cardinality(leases)
  BY <1>1, FS_Subset
<1>3. Cardinality(leases') \in Nat /\ Cardinality(leases) \in Nat
  BY <1>1, <1>2, FS_CardinalityType
<1>4. PICK p \in Processes : Cardinality(leases) <= MaxActive[p]
  BY DEF Bounded
<1>5. MaxActive[p] \in Nat
  OBVIOUS
<1>6. Cardinality(leases') <= MaxActive[p]
  BY <1>2, <1>3, <1>4, <1>5
<1> QED BY <1>6 DEF Bounded

\* A lease is taken where those alive are fewer than the taker's own limit.
LEMMA BoundedTake == ASSUME Types, NEW t \in Turns, TakeLease(t) PROVE Bounded'
<1> USE BindingAssumption
<1> DEFINE p == Home[Of(t)]
<1>1. p \in Processes /\ MaxActive[p] \in Nat
  BY DEF Of
<1>2. IsFiniteSet(Alive)
  BY FS_Subset DEF Alive, Types
<1>3. Cardinality(Alive) \in Nat /\ Cardinality(Alive) < MaxActive[p]
  BY <1>2, FS_CardinalityType DEF TakeLease
<1>4. leases' = Alive \cup {t}
  BY DEF TakeLease
<1>5. \/ Cardinality(leases') = Cardinality(Alive)
      \/ Cardinality(leases') = Cardinality(Alive) + 1
  BY <1>2, <1>4, FS_AddElement
<1> HIDE DEF p
<1>6. Cardinality(leases') <= MaxActive[p]
  BY <1>1, <1>3, <1>5
<1> QED BY <1>1, <1>6 DEF Bounded

\* Every step keeps the number of leases within the widest pool.
LEMMA NextBounded == ASSUME Types, Bounded, [Next]_vars PROVE Bounded'
<1>1. ASSUME NEW t \in Turns, TakeLease(t) PROVE Bounded'
  BY <1>1, BoundedTake
<1>2. CASE ~\E t \in Turns : TakeLease(t)
  <2>1. leases' \subseteq leases
    BY <1>2 DEF Next, Begin, Work, StopWaiting, FindStale, LockConversation, Resolve, LockSession, Open,
           ReadRecord, WriteRecord, Answer, Fail, Leave, LeaseLapses, RenewalsFail, Unlock, DropStale, Detach, Reset,
           Resume, Command, Crash, locks, vars
  <2> QED BY <2>1, FewerLeases
<1> QED BY <1>1, <1>2

\* The turns in the engine have a lease each, unless it was dropped under them.
LEMMA EngineWithinPool == ASSUME Types, Known, Bounded PROVE PoolRespected
<1> USE BindingAssumption
<1> DEFINE Engine == {t \in Turns : pc[t] \in WithLease /\ t \notin unrenewed}
<1>1. Engine \subseteq leases
  BY DEF Known, Knows
<1>2. IsFiniteSet(leases)
  BY FS_Subset DEF Types
<1> HIDE DEF Engine
<1>3. IsFiniteSet(Engine) /\ Cardinality(Engine) <= Cardinality(leases)
  BY <1>1, <1>2, FS_Subset
<1>4. Cardinality(Engine) \in Nat /\ Cardinality(leases) \in Nat
  BY <1>2, <1>3, FS_CardinalityType
<1>5. PICK p \in Processes : Cardinality(leases) <= MaxActive[p]
  BY DEF Bounded
<1>6. MaxActive[p] \in Nat
  OBVIOUS
<1>7. Cardinality(Engine) <= MaxActive[p]
  BY <1>3, <1>4, <1>5, <1>6
<1> QED BY <1>7 DEF PoolRespected, Engine

-----------------------------------------------------------------------------
BindingInv == Types /\ Known /\ Holding /\ Bounded /\ NoStaleThread

\* The types, who holds which lock and lease, and what each turn knows, in every
\* reachable state.
THEOREM BindingSound == Spec => []BindingInv
<1>1. Init => BindingInv
  BY InitBinding DEF BindingInv
<1>2. BindingInv /\ [Next]_vars => BindingInv'
  BY NextTypes, NextKnown, NextHolding, NextBounded, NextStale DEF BindingInv
<1> QED BY <1>1, <1>2, PTL DEF Spec

\* Turns of messages and of scheduled jobs, retries and crashes never make a turn
\* open a thread its conversation has left (runWithSession, bindSession and the
\* two locks).
THEOREM ThreadsAreCurrent == Spec => []NoStaleThread
<1>1. BindingInv => NoStaleThread
  BY DEF BindingInv
<1> QED BY <1>1, BindingSound, PTL

\* All processes of the host together stay within the widest pool, through
\* crashes and lost releases; turns whose lease was dropped under them are not
\* counted (tryAcquire).
THEOREM PoolIsShared == Spec => []PoolRespected
<1>1. BindingInv => PoolRespected
  BY EngineWithinPool DEF BindingInv
<1> QED BY <1>1, BindingSound, PTL
=============================================================================
