--------------------------- MODULE ClaudeWorkerProofs ---------------------------
(***************************************************************************)
(* No request waits for ever for a review of a background task: while no   *)
(* review runs, its timer is armed.  A request gets the result of its own  *)
(* turn, the result of a review reaches the task reviewed, and no task is  *)
(* shown twice.                                                            *)
(*                                                                         *)
(* One request is in work at a time.  While it waits, the session leads to *)
(* the worker it waits for, so that every line that could end its wait is  *)
(* one of that worker, and every change of the slot wakes it or arms its   *)
(* timer again.  A worker that has a turn pending has that of the request, *)
(* and it is the one the CLI runs or has yet to read (OwnTurn).  A review  *)
(* counts as running only while the CLI runs a turn (Attend), and, unless  *)
(* the init of such a turn was misread (muddled), a review (Apart).        *)
(*                                                                         *)
(* What may still be shown of a task is open in one worker alone, the one  *)
(* that tracks it, whose CLI owes it, or reviews it.  Nothing was told of  *)
(* an open task but that it was dropped, unless its worker keeps it aside  *)
(* as collected; and the review that runs has the slot (TaskInv).          *)
(***************************************************************************)
EXTENDS ClaudeWorker, SequenceTheorems, TLAPS

Phases == {"new", "waiting", "line", "timer", "sent", "answered", "failed"}

\* What no step on the slot, the queue and the tasks of a worker changes, but
\* for a review that may begin.
Same(W, V) ==
  /\ V \in ClaudeWorker /\ V.pending = W.pending /\ V.child = W.child
  /\ V.settling = TRUE => W.settling = TRUE
Grows(W, V) == Same(W, V) /\ (W.active = TRUE => V.active = TRUE)

-----------------------------------------------------------------------------
(* The operators on a worker *)

\* Tasks that are forgotten leave the rest of the worker alone.
LEMMA Forgets ==
  ASSUME NEW W \in ClaudeWorker, NEW ks
  PROVE  Same(W, Forget(W, ks)) /\ Forget(W, ks).active = W.active
<1> DEFINE tr == [k \in Tasks |-> IF k \in ks THEN "no" ELSE W.tracked[k]]
           ow == [k \in Tasks |-> IF k \in ks THEN None ELSE W.owner[k]]
<1>1. tr \in [Tasks -> {"no", "running", "finished"}] /\ ow \in [Tasks -> Turns \cup {None}]
      /\ W.aged \ ks \in SUBSET Tasks
  BY DEF ClaudeWorker
<1>2. Forget(W, ks) = [W EXCEPT !.tracked = tr, !.owner = ow, !.aged = W.aged \ ks]
  BY DEF Forget, ClaudeWorker
<1> HIDE DEF tr, ow
<1> QED BY <1>1, <1>2 DEF Same, ClaudeWorker

\* A review that did not start is given up; none ends.
LEMMA Settles ==
  ASSUME NEW W \in ClaudeWorker
  PROVE  Same(W, SettleExpired(W)) /\ SettleExpired(W).active = W.active
<1> DEFINE F == Forget(W, GivenUp(W))
<1>1. F \in ClaudeWorker /\ Same(W, F) /\ F.active = W.active
  BY Forgets DEF Same
<1>2. CASE Expired(W)
  <2>1. SettleExpired(W) = [F EXCEPT !.notice = None, !.collected = @ \cup GivenUp(W)]
    BY <1>2 DEF SettleExpired
  <2>2. GivenUp(W) \subseteq Tasks
    BY DEF GivenUp
  <2> HIDE DEF F
  <2> DEFINE c == F.collected \cup GivenUp(W)
             V == [F EXCEPT !.notice = None, !.collected = c]
  <2>3. SettleExpired(W) = V
    BY <1>1, <2>1 DEF ClaudeWorker
  <2>4. c \in SUBSET Tasks
    BY <1>1, <2>2 DEF ClaudeWorker
  <2> HIDE DEF c
  <2>5. /\ V \in ClaudeWorker /\ V.active = F.active /\ V.pending = F.pending
        /\ V.child = F.child /\ V.settling = F.settling
    BY <1>1, <2>4 DEF ClaudeWorker
  <2> HIDE DEF V
  <2> QED BY <1>1, <2>3, <2>5 DEF Same
<1>3. CASE ~Expired(W)
  BY <1>3 DEF SettleExpired, Same
<1> QED BY <1>2, <1>3

\* The next review in the queue takes the slot, if it is free.
LEMMA Installs ==
  ASSUME NEW W \in ClaudeWorker
  PROVE  Grows(W, InstallNext(W)) /\ (W.active = TRUE => InstallNext(W) = W)
<1>1. CASE W.active = TRUE \/ W.queue = <<>> \/ W.notice # None
  BY <1>1 DEF InstallNext, Same, Grows
<1>2. CASE ~(W.active = TRUE \/ W.queue = <<>> \/ W.notice # None)
  <2>1. /\ Head(W.queue) \in [task : Tasks, turn : Turns \cup {None}, review : BOOLEAN]
        /\ Tail(W.queue) \in Seq([task : Tasks, turn : Turns \cup {None}, review : BOOLEAN])
        /\ W.active = FALSE
    <3>1. /\ W.queue \in Seq([task : Tasks, turn : Turns \cup {None}, review : BOOLEAN])
          /\ W.active \in BOOLEAN
      BY DEF ClaudeWorker
    <3>2. W.queue # <<>> /\ W.active # TRUE
      BY <1>2
    <3>3. W.active = FALSE
      BY <3>1, <3>2
    <3>4. \A S : \A q \in Seq(S) : q # <<>> => Head(q) \in S /\ Tail(q) \in Seq(S)
      BY HeadTailProperties
    <3> QED BY <3>1, <3>2, <3>3, <3>4
  <2> DEFINE n == [task |-> Head(W.queue).task, turn |-> Head(W.queue).turn, age |-> "fresh"]
             a == Head(W.queue).review
             q == Tail(W.queue)
  <2>2. n \in Notice /\ a \in BOOLEAN
    BY <2>1 DEF Notice
  <2>3. InstallNext(W) = [W EXCEPT !.notice = n, !.active = a, !.queue = q]
    BY <1>2 DEF InstallNext, ClaudeWorker
  <2>4. q \in Seq([task : Tasks, turn : Turns \cup {None}, review : BOOLEAN])
    BY <2>1
  <2> HIDE DEF n, a, q
  <2> QED BY <2>1, <2>2, <2>3, <2>4 DEF Same, Grows, ClaudeWorker
<1> QED BY <1>1, <1>2

\* Both.
LEMMA Advances ==
  ASSUME NEW W \in ClaudeWorker
  PROVE  Grows(W, Advance(W))
<1>1. SettleExpired(W) \in ClaudeWorker /\ Same(W, SettleExpired(W)) /\ SettleExpired(W).active = W.active
  BY Settles DEF Same
<1>2. Grows(SettleExpired(W), Advance(W))
  BY <1>1, Installs DEF Advance
<1> QED BY <1>1, <1>2 DEF Grows, Same

\* Tasks silent for hours are dropped, and a review ends only with its slot.
LEMMA Prunes ==
  ASSUME NEW W \in ClaudeWorker
  PROVE  Same(W, PruneTasks(W)) /\ (SlotPruned(W) \/ PruneTasks(W).active = W.active)
<1> DEFINE F == Forget(W, Pruned(W))
           G == [F EXCEPT !.notice = None, !.active = FALSE]
<1>1. F \in ClaudeWorker /\ Same(W, F) /\ F.active = W.active
  BY Forgets DEF Same
<1>2. CASE SlotPruned(W)
  <2>1. PruneTasks(W) = Advance(G)
    BY <1>2 DEF PruneTasks
  <2> HIDE DEF F
  <2>2. G \in ClaudeWorker /\ Same(F, G)
    BY <1>1 DEF Same, ClaudeWorker
  <2> HIDE DEF G
  <2>3. Same(G, Advance(G))
    BY <2>2, Advances DEF Grows
  <2> QED BY <1>1, <1>2, <2>1, <2>2, <2>3 DEF Same
<1>3. CASE ~SlotPruned(W)
  BY <1>1, <1>3 DEF PruneTasks
<1> QED BY <1>2, <1>3

\* A line keeps the slot of a review young.
LEMMA Hearings ==
  ASSUME NEW W \in ClaudeWorker
  PROVE  /\ Same(W, Heard(W)) /\ Heard(W).active = W.active
         /\ Same(W, Quiet(W)) /\ Quiet(W).active = W.active
<1>1. Same(W, Heard(W)) /\ Heard(W).active = W.active
  <2>1. CASE W.active = TRUE /\ W.notice # None
    <3> DEFINE n == [W.notice EXCEPT !.age = "fresh"]
    <3>1. n \in Notice
      BY <2>1 DEF ClaudeWorker, Notice
    <3>2. Heard(W) = [W EXCEPT !.notice = n]
      BY <2>1 DEF Heard, ClaudeWorker
    <3> HIDE DEF n
    <3> QED BY <3>1, <3>2 DEF Same, ClaudeWorker
  <2>2. CASE ~(W.active = TRUE /\ W.notice # None)
    BY <2>2 DEF Heard, Same, ClaudeWorker
  <2> QED BY <2>1, <2>2
<1>2. Same(W, Quiet(W)) /\ Quiet(W).active = W.active
  <2>1. CASE W.active = TRUE
    BY <1>1, <2>1 DEF Quiet
  <2>2. CASE W.active # TRUE
    BY <2>2 DEF Quiet, Same, ClaudeWorker
  <2> QED BY <2>1, <2>2
<1> QED BY <1>1, <1>2

\* A notice takes the slot, or queues for it.
LEMMA ClaimsSlot ==
  ASSUME NEW W \in ClaudeWorker, NEW k \in Tasks, NEW review \in BOOLEAN
  PROVE  Grows(W, Claims(Finished(W, k), k, review))
<1> DEFINE F == Finished(W, k)
           n == [task |-> k, turn |-> F.owner[k], age |-> "fresh"]
           e == [task |-> k, turn |-> F.owner[k], review |-> review]
<1>1. F \in ClaudeWorker /\ Same(W, F) /\ F.active = W.active
  <2>1. CASE W.tracked[k] = "running"
    <3> DEFINE tr == [W.tracked EXCEPT ![k] = "finished"]
    <3>1. tr \in [Tasks -> {"no", "running", "finished"}] /\ W.aged \ {k} \in SUBSET Tasks
      BY DEF ClaudeWorker
    <3>2. F = [W EXCEPT !.tracked = tr, !.aged = W.aged \ {k}]
      BY <2>1 DEF Finished, ClaudeWorker
    <3> HIDE DEF tr, F
    <3> QED BY <3>1, <3>2 DEF Same, ClaudeWorker
  <2>2. CASE W.tracked[k] # "running"
    BY <2>2 DEF Finished, Same
  <2> QED BY <2>1, <2>2
<1> HIDE DEF F
<1> SUFFICES Grows(W, Claims(F, k, review))
  BY DEF F
<1>2. F.owner[k] \in Turns \cup {None}
  BY <1>1 DEF ClaudeWorker
<1>3. n \in Notice /\ e \in [task : Tasks, turn : Turns \cup {None}, review : BOOLEAN]
  BY <1>2 DEF Notice
<1> DEFINE q == Append(F.queue, e)
           a == F.active \/ review
<1>4. \/ Claims(F, k, review) = [F EXCEPT !.queue = q]
      \/ Claims(F, k, review) = [F EXCEPT !.notice = n, !.active = a]
  BY <1>1 DEF Claims, ClaudeWorker
<1>5. /\ q \in Seq([task : Tasks, turn : Turns \cup {None}, review : BOOLEAN])
      /\ a \in BOOLEAN /\ (F.active = TRUE => a = TRUE)
  <2>1. F.queue \in Seq([task : Tasks, turn : Turns \cup {None}, review : BOOLEAN])
    BY <1>1 DEF ClaudeWorker
  <2> HIDE DEF e
  <2> QED BY <2>1, <1>3
<1> HIDE DEF n, e, q, a
<1>6. CASE Claims(F, k, review) = [F EXCEPT !.queue = q]
  BY <1>1, <1>5, <1>6 DEF Same, Grows, ClaudeWorker
<1>7. CASE Claims(F, k, review) = [F EXCEPT !.notice = n, !.active = a]
  <2> DEFINE V == [F EXCEPT !.notice = n, !.active = a]
  <2>1. V \in ClaudeWorker /\ V.active = a /\ V.pending = F.pending
        /\ V.child = F.child /\ V.settling = F.settling
    BY <1>1, <1>3, <1>5 DEF ClaudeWorker
  <2> HIDE DEF V
  <2>2. Claims(F, k, review) = V
    BY <1>7 DEF V
  <2> QED BY <1>1, <1>5, <2>1, <2>2 DEF Same, Grows
<1> QED BY <1>4, <1>6, <1>7

\* An announcement does, unless nothing is known of its task.
LEMMA Notifies ==
  ASSUME NEW W \in ClaudeWorker, NEW k \in Tasks
  PROVE  Grows(W, Notified(W, k))
<1> DEFINE H == Heard(W)
           n == [task |-> k, turn |-> None, age |-> "fresh"]
<1>1. H \in ClaudeWorker /\ Same(W, H) /\ H.active = W.active
  BY Hearings DEF Same
<1>2. n \in Notice
  BY DEF Notice
<1>3. \/ Notified(W, k) = [H EXCEPT !.notice = n]
      \/ Notified(W, k) = H
      \/ Notified(W, k) = Claims(Finished(H, k), k, FALSE)
  BY DEF Notified
<1> HIDE DEF H, n
<1>4. Grows(H, Claims(Finished(H, k), k, FALSE))
  BY <1>1, ClaimsSlot
<1>5. CASE Notified(W, k) = [H EXCEPT !.notice = n]
  BY <1>1, <1>2, <1>5 DEF Same, Grows, ClaudeWorker
<1>6. CASE Notified(W, k) # [H EXCEPT !.notice = n]
  BY <1>1, <1>3, <1>4, <1>6 DEF Same, Grows
<1> QED BY <1>5, <1>6

-----------------------------------------------------------------------------
(* The invariant *)

Awaiting == {"waiting", "line", "timer"}

Typed ==
  /\ worker \in [Workers -> ClaudeWorker] /\ at \in [Turns -> Phases]
  /\ grace \in BOOLEAN /\ current \in Workers \cup {None}

\* One request is in work; on is its worker, and while it waits, or was just
\* woken, the one the session leads to.
OneRequest ==
  /\ \A s, t \in Turns : at[s] \in Awaiting \cup {"sent"} /\ at[t] \in Awaiting \cup {"sent"} => s = t
  /\ \A t \in Turns : at[t] \in Awaiting \cup {"sent"} => on \in Workers
  /\ \A t \in Turns : at[t] \in Awaiting => current = on

\* A turn is pending on the worker that its request was written to.
Pendings ==
  \A w \in Workers :
    /\ worker[w].pending # None => at[worker[w].pending] = "sent" /\ on = w
    /\ worker[w].settling = TRUE => worker[w].pending # None

ClaudeInv == Typed /\ OneRequest /\ Pendings /\ NobodyWaitsUnarmed

\* Initially there is neither a worker nor a request.
LEMMA InitClaude == Init => ClaudeInv
<1> SUFFICES ASSUME Init PROVE ClaudeInv
  OBVIOUS
<1>1. Unborn \in ClaudeWorker /\ Unborn.pending = None /\ Unborn.settling = FALSE
  <2>1. <<>> \in Seq([task : Tasks, turn : Turns \cup {None}, review : BOOLEAN])
    OBVIOUS
  <2> QED BY <2>1 DEF Unborn, ClaudeWorker
<1> QED BY <1>1 DEF Init, ClaudeInv, Typed, OneRequest, Pendings, NobodyWaitsUnarmed, Phases, Awaiting

\* What the invariant says of one worker with a turn pending.
LEMMA PendingIs ==
  ASSUME ClaudeInv, NEW w \in Workers, worker[w].pending # None
  PROVE  /\ worker[w].pending \in Turns /\ at[worker[w].pending] = "sent" /\ on = w
         /\ \A t \in Turns : at[t] \in Awaiting \cup {"sent"} => t = worker[w].pending
         /\ \A t \in Turns : at[t] \notin Awaiting
         /\ \A v \in Workers : v # w => worker[v].pending = None
<1>1. worker[w] \in ClaudeWorker
  BY DEF ClaudeInv, Typed
<1>2. worker[w].pending \in Turns
  BY <1>1 DEF ClaudeWorker
<1> QED BY <1>2 DEF ClaudeInv, OneRequest, Pendings, Awaiting

\* A line or a timer that changes one worker, but ends no review there.
LEMMA Grown ==
  ASSUME ClaudeInv, NEW w \in Workers, NEW V, Keep(V, w), Grows(worker[w], V),
         current' = current \/ (current \in {None, w} /\ current' = w),
         UNCHANGED <<at, on, grace>>
  PROVE  ClaudeInv'
<1>1. /\ worker \in [Workers -> ClaudeWorker] /\ V \in ClaudeWorker
      /\ worker'[w] = V /\ \A v \in Workers : v # w => worker'[v] = worker[v]
      /\ worker' \in [Workers -> ClaudeWorker]
  BY DEF Keep, Grows, Same, ClaudeInv, Typed
<1>2. Typed'
  BY <1>1 DEF ClaudeInv, Typed
<1>3. OneRequest'
  BY ClaudeAssumption DEF ClaudeInv, OneRequest
<1>4. Pendings'
  BY <1>1 DEF ClaudeInv, Pendings, Grows, Same
<1>5. NobodyWaitsUnarmed'
  <2> SUFFICES ASSUME NEW t \in Turns, at[t] = "waiting" PROVE grace = TRUE \/ worker'[on].active = TRUE
    BY DEF NobodyWaitsUnarmed
  <2>1. on \in Workers /\ (grace = TRUE \/ worker[on].active = TRUE)
    BY DEF ClaudeInv, NobodyWaitsUnarmed, OneRequest, Awaiting, Typed, ClaudeWorker
  <2> QED BY <2>1, <1>1 DEF Grows
<1> QED BY <1>2, <1>3, <1>4, <1>5 DEF ClaudeInv

\* A review ended, or a notice came up: who waits is woken or waits on.
LEMMA Woke ==
  ASSUME ClaudeInv, NEW w \in Workers, NEW V, Keep(V, w), V \in ClaudeWorker,
         V.pending = worker[w].pending,
         V.settling = TRUE => worker[w].settling = TRUE \/ worker[w].pending # None,
         NEW U, U.active = V.active,
         NEW armed, NEW by \in {"line", "timer"}, Wake(w, U, armed, by),
         current \in {None, w}, current' = w, on' = on
  PROVE  ClaudeInv'
<1>1. /\ worker \in [Workers -> ClaudeWorker] /\ worker'[w] = V
      /\ \A v \in Workers : v # w => worker'[v] = worker[v]
      /\ worker' \in [Workers -> ClaudeWorker]
  BY DEF Keep, ClaudeInv, Typed
<1>2. /\ \A t \in Turns : at[t] = "waiting" => t \in Waiting(w)
      /\ \A t \in Waiting(w) : at[t] = "waiting"
  BY ClaudeAssumption DEF ClaudeInv, OneRequest, Awaiting, Waiting
<1>3. /\ at' = [t \in Turns |-> IF t \in Waiting(w) /\ ~Busy(U) THEN by ELSE at[t]]
      /\ grace' = (Busy(U) /\ (armed \/ (Waiting(w) # {} /\ ~U.active)))
  BY DEF Wake
<1>4. /\ \A t \in Turns : at'[t] = at[t] \/ (at[t] = "waiting" /\ at'[t] = by /\ ~Busy(U))
      /\ \A t \in Turns : at'[t] = "waiting" => at[t] = "waiting" /\ Busy(U)
  BY <1>2, <1>3
<1>5. Typed'
  <2>1. at' \in [Turns -> Phases]
    BY <1>3 DEF ClaudeInv, Typed, Phases
  <2>2. grace' \in BOOLEAN
    BY <1>3
  <2> QED BY <2>1, <2>2, <1>1 DEF Typed
<1>6. OneRequest'
  BY <1>4, ClaudeAssumption DEF ClaudeInv, OneRequest, Awaiting
<1>7. Pendings'
  <2> SUFFICES ASSUME NEW v \in Workers
               PROVE  /\ worker'[v].pending # None => at'[worker'[v].pending] = "sent" /\ on' = v
                      /\ worker'[v].settling = TRUE => worker'[v].pending # None
    BY DEF Pendings
  <2>1. worker'[v].pending = worker[v].pending
    BY <1>1
  <2>2. worker[v].pending # None => at[worker[v].pending] = "sent" /\ on = v /\ worker[v].pending \in Turns
    BY PendingIs
  <2>3. worker'[v].settling = TRUE => worker[v].settling = TRUE \/ worker[v].pending # None
    BY <1>1
  <2> QED BY <2>1, <2>2, <2>3, <1>4 DEF ClaudeInv, Pendings
<1>8. NobodyWaitsUnarmed'
  <2> SUFFICES ASSUME NEW t \in Turns, at'[t] = "waiting" PROVE grace' \/ worker'[on'].active
    BY DEF NobodyWaitsUnarmed
  <2>1. at[t] = "waiting" /\ Busy(U) /\ Waiting(w) # {}
    BY <1>2, <1>4
  <2>2. on' = w
    BY <2>1, <1>2 DEF Waiting
  <2>3. grace' \/ U.active
    BY <2>1, <1>3
  <2> QED BY <2>2, <2>3, <1>1
<1> QED BY <1>5, <1>6, <1>7, <1>8 DEF ClaudeInv

\* The request whose turn is pending is answered, or fails.
LEMMA Ends ==
  ASSUME ClaudeInv, NEW w \in Workers, NEW V, Keep(V, w), V \in ClaudeWorker,
         worker[w].pending # None, V.pending = None, V.settling # TRUE,
         NEW how \in {"answered", "failed"}, at' = [at EXCEPT ![worker[w].pending] = how],
         on' = None, grace' = grace, current' \in Workers \cup {None}
  PROVE  ClaudeInv'
<1>1. /\ worker \in [Workers -> ClaudeWorker] /\ worker'[w] = V
      /\ \A v \in Workers : v # w => worker'[v] = worker[v]
      /\ worker' \in [Workers -> ClaudeWorker]
  BY DEF Keep, ClaudeInv, Typed
<1>2. /\ \A t \in Turns : at[t] \in Awaiting \cup {"sent"} => t = worker[w].pending
      /\ \A v \in Workers : v # w => worker[v].pending = None
      /\ worker[w].pending \in Turns
  BY PendingIs
<1>3. \A t \in Turns : at'[t] \notin Awaiting \cup {"sent"}
  BY <1>2 DEF Awaiting, ClaudeInv, Typed
<1>4. Typed'
  BY <1>1 DEF ClaudeInv, Typed, Phases
<1>5. OneRequest'
  BY <1>3 DEF OneRequest
<1>6. Pendings'
  BY <1>1, <1>2 DEF Pendings, ClaudeInv
<1>7. NobodyWaitsUnarmed'
  BY <1>3 DEF NobodyWaitsUnarmed, Awaiting
<1> QED BY <1>4, <1>5, <1>6, <1>7 DEF ClaudeInv

\* A worker ends, and with it the request that waits for it or was written to it.
LEMMA Fails ==
  ASSUME ClaudeInv, NEW w \in Workers, NEW V, Keep(V, w), V \in ClaudeWorker,
         V.pending = None, V.settling # TRUE, Drop(w), FailRequests(w),
         \A t \in Turns : at[t] \in {"line", "timer"} => on # w
  PROVE  ClaudeInv'
<1>1. /\ worker \in [Workers -> ClaudeWorker] /\ worker'[w] = V
      /\ \A v \in Workers : v # w => worker'[v] = worker[v]
      /\ worker' \in [Workers -> ClaudeWorker]
  BY DEF Keep, ClaudeInv, Typed
<1>2. /\ at' = [t \in Turns |-> IF on = w /\ at[t] \in {"waiting", "sent"} THEN "failed" ELSE at[t]]
      /\ grace' = (grace /\ Waiting(w) = {})
      /\ on' = IF on = w THEN None ELSE on
      /\ current' = IF current = w THEN None ELSE current
  BY DEF FailRequests, Drop
<1>3. Typed'
  <2>1. at' \in [Turns -> Phases]
    BY <1>2 DEF ClaudeInv, Typed, Phases
  <2>2. grace' \in BOOLEAN
    BY <1>2
  <2> QED BY <2>1, <2>2, <1>1, <1>2 DEF ClaudeInv, Typed
<1>4. CASE on = w
  <2>1. \A t \in Turns : at'[t] \notin Awaiting \cup {"sent"}
    BY <1>2, <1>4 DEF Awaiting
  <2>2. OneRequest' /\ NobodyWaitsUnarmed'
    BY <2>1 DEF OneRequest, NobodyWaitsUnarmed, Awaiting
  <2>3. \A v \in Workers : v # w => worker[v].pending = None
    BY <1>4 DEF ClaudeInv, Pendings
  <2>4. Pendings'
    BY <2>3, <1>1 DEF ClaudeInv, Pendings
  <2> QED BY <1>3, <2>2, <2>4 DEF ClaudeInv
<1>5. CASE on # w
  <2>1. at' = at /\ on' = on
    BY <1>2, <1>5 DEF ClaudeInv, Typed
  <2>2. OneRequest'
    BY <2>1, <1>2, <1>5 DEF ClaudeInv, OneRequest
  <2>3. Pendings'
    BY <2>1, <1>1 DEF ClaudeInv, Pendings
  <2>4. Waiting(w) = {}
    BY <1>5 DEF Waiting
  <2>5. grace' = grace
    BY <2>4, <1>2 DEF ClaudeInv, Typed
  <2>6. \A t \in Turns : at[t] = "waiting" => on \in Workers /\ worker'[on] = worker[on]
    BY <1>1, <1>5 DEF ClaudeInv, OneRequest, Awaiting
  <2>7. NobodyWaitsUnarmed'
    BY <2>1, <2>5, <2>6 DEF ClaudeInv, NobodyWaitsUnarmed
  <2> QED BY <1>3, <2>2, <2>3, <2>7 DEF ClaudeInv
<1> QED BY <1>4, <1>5

\* The request that may go on is the only one in work.
Only(t) ==
  /\ \A s \in Turns : at[s] \in Awaiting \cup {"sent"} => s = t
  /\ at[t] \in {"new", "line", "timer"}

\* Then no turn is pending.
LEMMA OnlyOne ==
  ASSUME ClaudeInv, NEW t \in Turns, Only(t)
  PROVE  /\ \A w \in Workers : worker[w].pending = None /\ worker[w].settling # TRUE
         /\ at[t] \notin {"waiting", "sent"}
<1>1. \A w \in Workers : worker[w].pending = None
  BY PendingIs DEF Only, Awaiting
<1> QED BY <1>1 DEF ClaudeInv, Pendings, Only

\* It waits for a review on the worker of the session.
LEMMA Waits ==
  ASSUME ClaudeInv, NEW t \in Turns, Only(t), current \in Workers,
         NEW W, Same(worker[current], W), Wait(t, current, W)
  PROVE  ClaudeInv'
<1>1. /\ worker' \in [Workers -> ClaudeWorker] /\ worker'[current] = W
      /\ worker \in [Workers -> ClaudeWorker]
      /\ \A v \in Workers : v # current => worker'[v] = worker[v]
  BY DEF Wait, Keep, Same, ClaudeInv, Typed
<1>2. at' = [at EXCEPT ![t] = "waiting"] /\ on' = current /\ grace' = (~W.active) /\ current' = current
  BY DEF Wait
<1>3. \A w \in Workers : worker'[w].pending = None /\ worker'[w].settling # TRUE
  BY <1>1, OnlyOne DEF Same
<1>4. /\ at'[t] = "waiting" /\ \A s \in Turns : s # t => at'[s] = at[s] /\ at[s] \notin Awaiting \cup {"sent"}
  BY <1>2 DEF Only, ClaudeInv, Typed
<1>5. Typed'
  <2>1. at' \in [Turns -> Phases]
    BY <1>2 DEF ClaudeInv, Typed, Phases
  <2>2. grace' \in BOOLEAN
    BY <1>2
  <2> QED BY <1>1, <1>2, <2>1, <2>2 DEF ClaudeInv, Typed
<1>6. OneRequest'
  BY <1>2, <1>4 DEF OneRequest
<1>7. Pendings'
  BY <1>3 DEF Pendings
<1>8. NobodyWaitsUnarmed'
  <2>1. grace' \/ worker'[on'].active
    BY <1>1, <1>2
  <2> QED BY <1>4, <2>1 DEF NobodyWaitsUnarmed, Awaiting
<1> QED BY <1>5, <1>6, <1>7, <1>8 DEF ClaudeInv

\* It was written to a worker, old or new.
LEMMA Sends ==
  ASSUME ClaudeInv, NEW t \in Turns, Only(t), NEW w \in Workers,
         at' = [at EXCEPT ![t] = "sent"], on' = w, grace' = FALSE,
         current' \in Workers \cup {None},
         worker' \in [Workers -> ClaudeWorker],
         \A v \in Workers : worker'[v].settling # TRUE /\ worker'[v].pending = (IF v = w THEN t ELSE None)
  PROVE  ClaudeInv'
<1>1. /\ at'[t] = "sent" /\ \A s \in Turns : s # t => at'[s] = at[s] /\ at[s] \notin Awaiting \cup {"sent"}
  BY DEF Only, ClaudeInv, Typed
<1>2. Typed'
  BY DEF ClaudeInv, Typed, Phases
<1>3. OneRequest'
  BY <1>1 DEF OneRequest, Awaiting
<1>4. Pendings'
  BY <1>1 DEF Pendings
<1>5. NobodyWaitsUnarmed'
  BY <1>1 DEF NobodyWaitsUnarmed, Awaiting
<1> QED BY <1>2, <1>3, <1>4, <1>5 DEF ClaudeInv

\* It is refused.
LEMMA Refused ==
  ASSUME ClaudeInv, NEW t \in Turns, Only(t) \/ at[t] = "waiting",
         at' = [at EXCEPT ![t] = "failed"], on' = None, grace' = FALSE, current' = current,
         worker' \in [Workers -> ClaudeWorker],
         \A v \in Workers : worker'[v].settling # TRUE /\ worker'[v].pending = None
  PROVE  ClaudeInv'
<1>1. \A s \in Turns : at'[s] \notin Awaiting \cup {"sent"}
  <2>1. \A s \in Turns : at[s] \in Awaiting \cup {"sent"} => s = t
    BY DEF Only, ClaudeInv, OneRequest, Awaiting
  <2> QED BY <2>1 DEF ClaudeInv, Typed, Awaiting
<1>2. Typed'
  BY DEF ClaudeInv, Typed, Phases
<1> QED BY <1>1, <1>2 DEF ClaudeInv, OneRequest, Pendings, NobodyWaitsUnarmed, Awaiting

-----------------------------------------------------------------------------
(* The steps of a request *)

\* A killed worker has no turn pending.
LEMMA Kills ==
  ASSUME NEW W \in ClaudeWorker
  PROVE  Killed(W) \in ClaudeWorker /\ Killed(W).pending = None /\ Killed(W).settling = FALSE
<1> DEFINE c == IF W.child = "live" THEN "killed" ELSE W.child
<1>1. c \in {"unborn", "live", "killed", "closed"}
  BY DEF ClaudeWorker
<1>2. Killed(W) = [W EXCEPT !.pending = None, !.tool = FALSE, !.settling = FALSE, !.child = c]
  BY DEF Killed, ClaudeWorker
<1> HIDE DEF c
<1> QED BY <1>1, <1>2 DEF ClaudeWorker

\* The worker of a process that was just spawned.
LEMMA Blank ==
  ASSUME NEW t \in Turns
  PROVE  LET V == [Unborn EXCEPT !.child = "live", !.pending = t] IN
         V \in ClaudeWorker /\ V.pending = t /\ V.settling = FALSE
<1>1. <<>> \in Seq([task : Tasks, turn : Turns \cup {None}, review : BOOLEAN])
  OBVIOUS
<1> QED BY <1>1 DEF Unborn, ClaudeWorker

\* A new process takes the turn.
LEMMA Respawns ==
  ASSUME ClaudeInv, NEW t \in Turns, Only(t), NEW workers \in [Workers -> ClaudeWorker],
         \A v \in Workers : workers[v].pending = None /\ workers[v].settling # TRUE,
         Respawn(t, workers)
  PROVE  ClaudeInv'
<1> DEFINE w == NextWorker
           V == [Unborn EXCEPT !.child = "live", !.pending = t]
<1>1. /\ w \in Workers
      /\ worker' = [v \in Workers |-> IF v = w THEN V ELSE workers[v]]
      /\ at' = [at EXCEPT ![t] = "sent"] /\ on' = w /\ grace' = FALSE /\ current' = w
  <2>1. w \in Unspawned
    BY DEF Respawn, NextWorker
  <2> QED BY <2>1 DEF Respawn, Unspawned
<1>2. V \in ClaudeWorker /\ V.pending = t /\ V.settling = FALSE
  BY Blank
<1> HIDE DEF V
<1>3. PICK n \in Workers : n = w
  BY <1>1
<1> HIDE DEF w
<1>4. /\ worker' \in [Workers -> ClaudeWorker]
      /\ \A v \in Workers : worker'[v].settling # TRUE
                            /\ worker'[v].pending = (IF v = n THEN t ELSE None)
  BY <1>1, <1>2, <1>3
<1> QED BY <1>1, <1>3, <1>4, Sends

\* A running process does.
LEMMA Writes ==
  ASSUME ClaudeInv, NEW t \in Turns, Only(t), current \in Workers,
         NEW W, Same(worker[current], W), Write(t, current, W)
  PROVE  ClaudeInv'
<1> DEFINE V == [W EXCEPT !.pending = t, !.tool = FALSE, !.settling = FALSE]
<1>1. V \in ClaudeWorker /\ V.pending = t /\ V.settling = FALSE
  BY DEF Same, ClaudeWorker
<1>2. /\ worker' = [worker EXCEPT ![current] = V] /\ current' = current
      /\ at' = [at EXCEPT ![t] = "sent"] /\ on' = current /\ grace' = FALSE
  BY DEF Write, Keep
<1> HIDE DEF V
<1>3. worker \in [Workers -> ClaudeWorker]
  BY DEF ClaudeInv, Typed
<1>4. PICK n \in Workers : n = current
  OBVIOUS
<1>5. /\ worker' \in [Workers -> ClaudeWorker]
      /\ \A v \in Workers : worker'[v].settling # TRUE
                            /\ worker'[v].pending = (IF v = n THEN t ELSE None)
  BY <1>1, <1>2, <1>3, <1>4, OnlyOne
<1> QED BY <1>2, <1>4, <1>5, Sends

\* A request meets the worker of the session, or none.
LEMMA Goes ==
  ASSUME ClaudeInv, NEW t \in Turns, Only(t), Go(t)
  PROVE  ClaudeInv'
<1>1. worker \in [Workers -> ClaudeWorker] /\ current \in Workers \cup {None}
  BY DEF ClaudeInv, Typed
<1>2. CASE current = None
  <2>1. Respawn(t, worker)
    BY <1>2 DEF Go
  <2> QED BY <2>1, <1>1, OnlyOne, Respawns
<1>3. CASE current # None
  <2> DEFINE W == Advance(worker[current])
             P == PruneTasks(W)
  <2>1. current \in Workers /\ worker[current] \in ClaudeWorker
    BY <1>1, <1>3
  <2>2. Same(worker[current], W) /\ W \in ClaudeWorker
    BY <2>1, Advances DEF Grows, Same
  <2>3. Dispatch(t, current, W)
    BY <1>3 DEF Go
  <2> HIDE DEF W
  <2>4. Same(worker[current], P) /\ P \in ClaudeWorker
    BY <2>2, Prunes DEF Same
  <2>5. CASE Wait(t, current, W)
    BY <2>1, <2>2, <2>5, Waits
  <2>6. CASE Write(t, current, W)
    BY <2>1, <2>2, <2>6, Writes
  <2>7. CASE \E change \in {"option", "security"} : Reconfigure(t, current, P, change)
    <3> HIDE DEF P
    <3>1. CASE Respawn(t, [worker EXCEPT ![current] = Killed(P)])
      <4> DEFINE workers == [worker EXCEPT ![current] = Killed(P)]
      <4>1. /\ workers \in [Workers -> ClaudeWorker]
            /\ \A v \in Workers : workers[v].pending = None /\ workers[v].settling # TRUE
        BY <1>1, <2>1, <2>4, Kills, OnlyOne
      <4> HIDE DEF workers
      <4> QED BY <3>1, <4>1, Respawns DEF workers
    <3>2. CASE Write(t, current, P)
      BY <2>1, <2>4, <3>2, Writes
    <3>3. CASE /\ at' = [at EXCEPT ![t] = "failed"]
               /\ on' = None
               /\ grace' = FALSE
               /\ Keep(P, current)
               /\ UNCHANGED <<current, cli>>
      <4>1. /\ worker' \in [Workers -> ClaudeWorker]
            /\ \A v \in Workers : worker'[v].settling # TRUE /\ worker'[v].pending = None
        BY <1>1, <2>1, <2>4, <3>3, OnlyOne DEF Keep, Same
      <4> QED BY <3>3, <4>1, Refused
    <3> QED BY <2>7, <3>1, <3>2, <3>3 DEF Reconfigure
  <2> QED BY <2>3, <2>5, <2>6, <2>7 DEF Dispatch
<1> QED BY <1>2, <1>3

\* A request is made, goes on, or is stopped.
LEMMA RequestStep ==
  ASSUME ClaudeInv, NEW t \in Turns, Begin(t) \/ Resume(t) \/ Abort(t)
  PROVE  ClaudeInv'
<1>1. worker \in [Workers -> ClaudeWorker]
  BY DEF ClaudeInv, Typed
<1>2. CASE Begin(t)
  <2>1. Only(t)
    BY <1>2 DEF Begin, InWork, Woken, Only, Awaiting
  <2> QED BY <1>2, <2>1, Goes DEF Begin
<1>3. CASE Resume(t)
  <2>1. at[t] \in {"line", "timer"} /\ current = on /\ on \in Workers
    BY <1>3 DEF Resume, Woken, ClaudeInv, OneRequest, Awaiting
  <2>2. Only(t)
    BY <2>1 DEF Only, ClaudeInv, OneRequest, Awaiting
  <2>3. CASE Go(t)
    BY <2>2, <2>3, Goes
  <2>4. CASE Wait(t, on, worker[on])
    <3>1. Same(worker[current], worker[current])
      BY <1>1, <2>1 DEF Same
    <3> QED BY <2>1, <2>2, <2>4, <3>1, Waits
  <2> QED BY <1>3, <2>3, <2>4 DEF Resume
<1>4. CASE Abort(t)
  <2>1. CASE at[t] = "waiting"
    <3>1. \A v \in Workers : worker[v].pending = None
      BY <2>1, PendingIs DEF Awaiting
    <3>2. /\ at' = [at EXCEPT ![t] = "failed"] /\ on' = None /\ grace' = FALSE
          /\ current' = current /\ worker' = worker
      BY <1>4, <2>1 DEF Abort
    <3>3. \A v \in Workers : worker'[v].settling # TRUE /\ worker'[v].pending = None
      BY <3>1, <3>2 DEF ClaudeInv, Pendings
    <3> QED BY <1>1, <2>1, <3>2, <3>3, Refused
  <2>2. CASE at[t] = "sent"
    <3>1. Down(on) /\ on \in Workers /\ worker[on] \in ClaudeWorker
      BY <1>1, <1>4, <2>2 DEF Abort, ClaudeInv, OneRequest
    <3>2. \A s \in Turns : at[s] \notin {"line", "timer"}
      BY <2>2 DEF ClaudeInv, OneRequest, Awaiting
    <3>3. PICK w \in Workers : w = on
      BY <3>1
    <3> QED BY <3>1, <3>2, <3>3, Kills, Fails DEF Down
  <2> QED BY <1>4, <2>1, <2>2 DEF Abort
<1> QED BY <1>2, <1>3, <1>4

-----------------------------------------------------------------------------
(* The lines *)

\* What hearing a line says.
LEMMA Hearing ==
  ASSUME ClaudeInv, NEW w \in Workers, Hears(w)
  PROVE  worker[w] \in ClaudeWorker /\ current \in {None, w} /\ current' = w
  BY DEF Hears, ClaudeInv, Typed

\* A tool call starts or ends.
LEMMA ToolStep ==
  ASSUME ClaudeInv, NEW w \in Workers, ToolStarts(w) \/ ToolEnds(w)
  PROVE  ClaudeInv'
<1> DEFINE Q == Quiet(worker[w])
<1>1. worker[w] \in ClaudeWorker /\ current \in {None, w} /\ current' = w /\ UNCHANGED <<at, on, grace>>
  BY Hearing DEF ToolStarts, ToolEnds
<1>2. Q \in ClaudeWorker /\ Same(worker[w], Q) /\ Q.active = worker[w].active
  BY <1>1, Hearings DEF Same
<1>3. PICK V \in {Q, [Q EXCEPT !.tool = TRUE], [Q EXCEPT !.tool = FALSE]} : Keep(V, w)
  BY DEF ToolStarts, ToolEnds
<1> HIDE DEF Q
<1>4. \A tool \in BOOLEAN : Same(Q, [Q EXCEPT !.tool = tool]) /\ [Q EXCEPT !.tool = tool].active = Q.active
  BY <1>2 DEF Same, ClaudeWorker
<1>5. V = Q \/ \E tool \in BOOLEAN : V = [Q EXCEPT !.tool = tool]
  BY <1>3
<1>6. Grows(worker[w], V)
  BY <1>2, <1>4, <1>5 DEF Grows, Same
<1> QED BY <1>1, <1>3, <1>6, Grown

\* A task starts.
LEMMA StartStep ==
  ASSUME ClaudeInv, NEW w \in Workers, NEW k \in Tasks, StartTask(w, k)
  PROVE  ClaudeInv'
<1> DEFINE Q == Quiet(worker[w])
           o == IF Q.active /\ Q.notice # None THEN Q.notice.turn ELSE Q.pending
           V == [Q EXCEPT !.tracked[k] = "running", !.aged = @ \ {k}, !.collected = @ \ {k}, !.owner[k] = o]
<1>1. worker[w] \in ClaudeWorker /\ current \in {None, w} /\ current' = w /\ UNCHANGED <<at, on, grace>>
  BY Hearing DEF StartTask
<1>2. Q \in ClaudeWorker /\ Same(worker[w], Q) /\ Q.active = worker[w].active
  BY <1>1, Hearings DEF Same
<1>3. Keep(V, w) \/ Keep(Q, w)
  BY DEF StartTask
<1> HIDE DEF Q
<1>4. Grows(worker[w], V)
  <2> DEFINE tr == [Q.tracked EXCEPT ![k] = "running"]
             ow == [Q.owner EXCEPT ![k] = o]
  <2>1. o \in Turns \cup {None}
    BY <1>2 DEF ClaudeWorker, Notice
  <2> HIDE DEF o
  <2>2. /\ tr \in [Tasks -> {"no", "running", "finished"}] /\ ow \in [Tasks -> Turns \cup {None}]
        /\ Q.aged \ {k} \in SUBSET Tasks /\ Q.collected \ {k} \in SUBSET Tasks
    BY <1>2, <2>1 DEF ClaudeWorker
  <2>3. V = [Q EXCEPT !.tracked = tr, !.aged = Q.aged \ {k}, !.collected = Q.collected \ {k}, !.owner = ow]
    BY <1>2 DEF ClaudeWorker
  <2> HIDE DEF tr, ow, V
  <2> QED BY <1>2, <2>2, <2>3 DEF Grows, Same, ClaudeWorker
<1>5. Grows(worker[w], Q)
  BY <1>2 DEF Grows
<1> HIDE DEF V
<1> QED BY <1>1, <1>3, <1>4, <1>5, Grown

\* A task's result is collected.
LEMMA CollectStep ==
  ASSUME ClaudeInv, NEW w \in Workers, NEW k \in Tasks, Collect(w, k)
  PROVE  ClaudeInv'
<1> DEFINE Q == Quiet(worker[w])
           F == Forget(Q, {k})
           V == [F EXCEPT !.collected = @ \cup {k}]
<1>1. worker[w] \in ClaudeWorker /\ current \in {None, w} /\ current' = w /\ UNCHANGED <<at, on, grace>>
  BY Hearing DEF Collect
<1>2. Q \in ClaudeWorker /\ Same(worker[w], Q) /\ Q.active = worker[w].active
  BY <1>1, Hearings DEF Same
<1>3. Keep(V, w) \/ Keep(Q, w)
  BY DEF Collect
<1> HIDE DEF Q
<1>4. F \in ClaudeWorker /\ Same(Q, F) /\ F.active = Q.active
  BY <1>2, Forgets DEF Same
<1> HIDE DEF F
<1>5. Grows(worker[w], V)
  BY <1>2, <1>4 DEF Grows, Same, ClaudeWorker
<1>6. Grows(worker[w], Q)
  BY <1>2 DEF Grows
<1> HIDE DEF V
<1> QED BY <1>1, <1>3, <1>5, <1>6, Grown

\* An init may begin a review.
LEMMA Announces ==
  ASSUME NEW W \in ClaudeWorker
  PROVE  Grows(W, Announced(W))
<1> DEFINE a == W.active \/ Misread(W)
<1>1. Announced(W) = [W EXCEPT !.active = a]
  BY DEF Announced, ClaudeWorker
<1>2. a \in BOOLEAN /\ (W.active = TRUE => a = TRUE)
  OBVIOUS
<1> HIDE DEF a
<1> QED BY <1>1, <1>2 DEF Grows, Same, ClaudeWorker

\* The init of a turn.
LEMMA InitStep ==
  ASSUME ClaudeInv, NEW w \in Workers, ReadPrompt(w) \/ Reinit(w)
  PROVE  ClaudeInv'
<1> DEFINE H == Heard(worker[w])
<1>1. worker[w] \in ClaudeWorker /\ current \in {None, w} /\ current' = w /\ UNCHANGED <<at, on, grace>>
  BY Hearing DEF ReadPrompt, Reinit, InitOfTurn
<1>2. H \in ClaudeWorker /\ Same(worker[w], H) /\ H.active = worker[w].active
  BY <1>1, Hearings DEF Same
<1>3. Keep(Announced(H), w)
  BY DEF ReadPrompt, Reinit, InitOfTurn
<1> HIDE DEF H
<1>4. Grows(worker[w], Announced(H))
  BY <1>2, Announces DEF Grows, Same
<1> QED BY <1>1, <1>3, <1>4, Grown

\* A task is announced, or its review begins.
LEMMA ReviewStep ==
  ASSUME ClaudeInv, NEW w \in Workers, NEW k \in Tasks, Announce(w, k) \/ BeginReview(w, k)
  PROVE  ClaudeInv'
<1> DEFINE H == Heard(worker[w])
           V == Announced(H)
<1>1. worker[w] \in ClaudeWorker /\ current \in {None, w} /\ current' = w /\ UNCHANGED <<at, on, grace>>
  BY Hearing DEF Announce, BeginReview
<1>2. H \in ClaudeWorker /\ Same(worker[w], H) /\ H.active = worker[w].active
  BY <1>1, Hearings DEF Same
<1>3. Keep(Notified(worker[w], k), w) \/ Keep(Claims(Finished(H, k), k, TRUE), w) \/ Keep(V, w)
  BY DEF Announce, BeginReview
<1>4. Grows(worker[w], Notified(worker[w], k))
  BY <1>1, Notifies
<1> HIDE DEF H
<1>5. Grows(H, Claims(Finished(H, k), k, TRUE))
  BY <1>2, ClaimsSlot
<1>6. Grows(worker[w], Claims(Finished(H, k), k, TRUE))
  BY <1>2, <1>5 DEF Grows, Same
<1>7. Grows(worker[w], V)
  BY <1>2, Announces DEF Grows, Same
<1> HIDE DEF V
<1> QED BY <1>1, <1>3, <1>4, <1>6, <1>7, Grown

\* A review is over.
LEMMA Reviewed ==
  ASSUME ClaudeInv, NEW w \in Workers, NEW W, Grows(worker[w], W), NEW id, ReviewResult(w, W, id),
         current \in {None, w}, current' = w
  PROVE  ClaudeInv'
<1> DEFINE k == ReviewOf(W, id)
           settles == W.pending # None /\ TurnOf(W, k) = W.pending
           clear == [W EXCEPT !.notice = None, !.active = FALSE]
           free == InstallNext(clear)
           collected == [free EXCEPT !.collected = @ \ {k}]
           F == Forget(free, {k} \cap Tasks)
           settled == [F EXCEPT !.settling = @ \/ settles]
<1>1. /\ Wake(w, free, grace, "line") /\ on' = on
      /\ Keep(collected, w) \/ Keep(settled, w)
  BY DEF ReviewResult
<1>2. clear \in ClaudeWorker /\ Same(worker[w], clear)
  BY DEF Grows, Same, ClaudeWorker
<1> HIDE DEF clear
<1>3. free \in ClaudeWorker /\ Same(worker[w], free)
  BY <1>2, Installs DEF Grows, Same
<1> HIDE DEF free
<1>4. F \in ClaudeWorker /\ Same(worker[w], F) /\ F.active = free.active
  BY <1>3, Forgets DEF Same
<1>5. W.pending = worker[w].pending
  BY DEF Grows, Same
<1> HIDE DEF F
<1>6. /\ collected \in ClaudeWorker /\ collected.pending = worker[w].pending
      /\ collected.settling = TRUE => worker[w].settling = TRUE
      /\ free.active = collected.active
  BY <1>3 DEF Same, ClaudeWorker
<1>7. /\ settled \in ClaudeWorker /\ settled.pending = worker[w].pending
      /\ settled.settling = TRUE => worker[w].settling = TRUE \/ worker[w].pending # None
      /\ free.active = settled.active
  <2> DEFINE b == F.settling \/ settles
  <2>1. settled = [F EXCEPT !.settling = b]
    BY <1>4 DEF ClaudeWorker
  <2>2. b \in BOOLEAN /\ (b = TRUE => F.settling = TRUE \/ worker[w].pending # None)
    BY <1>4, <1>5 DEF ClaudeWorker
  <2> HIDE DEF b, settled, settles
  <2> QED BY <1>4, <2>1, <2>2 DEF Same, ClaudeWorker
<1> HIDE DEF collected, settled
<1>8. CASE Keep(collected, w)
  BY <1>1, <1>6, <1>8, Woke
<1>9. CASE Keep(settled, w)
  BY <1>1, <1>7, <1>9, Woke
<1> QED BY <1>1, <1>8, <1>9

\* A worker without its turn.
LEMMA TurnGone ==
  ASSUME NEW W \in ClaudeWorker
  PROVE  /\ NoTurn(W) \in ClaudeWorker /\ NoTurn(W).pending = None /\ NoTurn(W).settling = FALSE
         /\ Refreshed(NoTurn(W)) \in ClaudeWorker
         /\ Refreshed(NoTurn(W)).pending = None /\ Refreshed(NoTurn(W)).settling = FALSE
<1> DEFINE N == NoTurn(W)
           n == [N.notice EXCEPT !.age = "fresh"]
<1>1. N \in ClaudeWorker /\ N.pending = None /\ N.settling = FALSE
  BY DEF NoTurn, ClaudeWorker
<1> HIDE DEF N
<1>2. CASE N.notice = None
  BY <1>1, <1>2 DEF Refreshed, N
<1>3. CASE N.notice # None
  <2>1. n \in Notice
    BY <1>1, <1>3 DEF ClaudeWorker, Notice
  <2>2. Refreshed(N) = [N EXCEPT !.notice = n]
    BY <1>1, <1>3 DEF Refreshed, ClaudeWorker
  <2> HIDE DEF n
  <2>3. Refreshed(N) \in ClaudeWorker /\ Refreshed(N).pending = None /\ Refreshed(N).settling = FALSE
    BY <1>1, <2>1, <2>2 DEF ClaudeWorker
  <2> QED BY <1>1, <2>3 DEF N
<1> QED BY <1>2, <1>3

\* The result of a turn.
LEMMA Results ==
  ASSUME ClaudeInv, NEW w \in Workers, Result(w, worker[w]), current \in {None, w}, current' = w
  PROVE  ClaudeInv'
<1> DEFINE W == worker[w]
           clear == [W EXCEPT !.notice = None]
           free == InstallNext(clear)
<1>1. W \in ClaudeWorker
  BY DEF ClaudeInv, Typed
<1>2. CASE W.pending # None
  <2>1. PICK V \in {NoTurn(W), Refreshed(NoTurn(W))} : Keep(V, w)
    BY <1>2 DEF Result
  <2>2. V \in ClaudeWorker /\ V.pending = None /\ V.settling # TRUE
    BY <1>1, TurnGone
  <2>3. /\ \E how \in {"answered", "failed"} : at' = [at EXCEPT ![W.pending] = how]
        /\ on' = None /\ grace' = grace
    BY <1>2 DEF Result, Answered
  <2> QED BY <1>2, <2>1, <2>2, <2>3, Ends
<1>3. CASE W.pending = None
  <2>1. Keep(free, w) /\ Wake(w, free, grace, "line") /\ on' = on
    BY <1>3 DEF Result
  <2>2. clear \in ClaudeWorker /\ Same(W, clear)
    BY <1>1 DEF Same, ClaudeWorker
  <2> HIDE DEF clear
  <2>3. free \in ClaudeWorker /\ Same(W, free)
    BY <2>2, Installs DEF Grows, Same
  <2> HIDE DEF free
  <2> QED BY <2>1, <2>3, Woke DEF Same
<1> QED BY <1>2, <1>3

\* A review or a turn ends, or a task within its turn.
LEMMA EndStep ==
  ASSUME ClaudeInv, NEW w \in Workers,
         EndReview(w) \/ EndTurn(w) \/ \E k \in Tasks : FoldCompletion(w, k)
  PROVE  ClaudeInv'
<1>1. worker[w] \in ClaudeWorker /\ current \in {None, w} /\ current' = w
  BY Hearing DEF EndReview, EndTurn, FoldCompletion
<1>2. Grows(worker[w], worker[w])
  BY <1>1 DEF Grows, Same
<1>3. CASE EndReview(w)
  BY <1>1, <1>2, <1>3, Reviewed DEF EndReview
<1>4. CASE EndTurn(w)
  <2>1. CASE ReviewResult(w, worker[w], None)
    BY <1>1, <1>2, <2>1, Reviewed
  <2>2. CASE Result(w, worker[w])
    BY <1>1, <2>2, Results
  <2> QED BY <1>4, <2>1, <2>2 DEF EndTurn
<1>5. CASE \E k \in Tasks : FoldCompletion(w, k)
  <2> PICK k \in Tasks : FoldCompletion(w, k)
    BY <1>5
  <2>1. Grows(worker[w], Notified(worker[w], k)) /\ ReviewResult(w, Notified(worker[w], k), None)
    BY <1>1, Notifies DEF FoldCompletion
  <2> QED BY <1>1, <2>1, Reviewed
<1> QED BY <1>3, <1>4, <1>5

\* Nothing changes for the adapter.
LEMMA SameAdapter == ASSUME ClaudeInv, UNCHANGED adapterVars PROVE ClaudeInv'
<1>1. UNCHANGED <<current, worker, at, on, grace>>
  BY DEF adapterVars
<1> QED BY <1>1 DEF ClaudeInv, Typed, OneRequest, Pendings, NobodyWaitsUnarmed

-----------------------------------------------------------------------------
(* Timers, and the end of a process *)

\* The request's timer advances the queue.
LEMMA TimerStep ==
  ASSUME ClaudeInv, NEW t \in Turns, GraceTimer(t)
  PROVE  ClaudeInv'
<1>1. current = on /\ on \in Workers /\ worker[on] \in ClaudeWorker
  BY DEF GraceTimer, ClaudeInv, OneRequest, Awaiting, Typed
<1>2. PICK w \in Workers : w = on
  BY <1>1
<1> DEFINE W == Advance(worker[w])
<1>3. W \in ClaudeWorker /\ Same(worker[w], W)
  BY <1>1, <1>2, Advances DEF Grows, Same
<1>4. Keep(W, w) /\ Wake(w, W, FALSE, "timer") /\ current' = current /\ on' = on
  BY <1>2 DEF GraceTimer
<1> HIDE DEF W
<1> QED BY <1>1, <1>2, <1>3, <1>4, Woke DEF Same

\* Idle workers are reaped, silent tasks are dropped.
LEMMA ReapStep ==
  ASSUME ClaudeInv, NEW w \in Workers, Reap(w)
  PROVE  ClaudeInv'
<1> DEFINE A == Advance(worker[w])
           P == PruneTasks(A)
<1>1. worker[w] \in ClaudeWorker /\ current = w /\ on' = on
  BY DEF Reap, ClaudeInv, Typed
<1>2. A \in ClaudeWorker /\ Grows(worker[w], A)
  BY <1>1, Advances DEF Grows, Same
<1> HIDE DEF A
<1>3. P \in ClaudeWorker /\ Same(worker[w], P) /\ (SlotPruned(A) \/ Grows(worker[w], P))
  BY <1>2, Prunes DEF Grows, Same
<1>4. /\ (SlotPruned(A) /\ Wake(w, P, grace, "timer")) \/ (~SlotPruned(A) /\ UNCHANGED <<at, grace>>)
      /\ \/ Keep(P, w) /\ current' = current
         \/ Waiting(w) = {} /\ P.pending = None /\ Keep(Killed(P), w) /\ current' = None
      /\ \A t \in Turns : at[t] \notin {"line", "timer"}
  BY DEF Reap, A, Woken
<1> HIDE DEF P
<1>5. CASE Keep(P, w) /\ current' = current /\ SlotPruned(A)
  BY <1>1, <1>3, <1>4, <1>5, Woke DEF Same
<1>6. CASE Keep(P, w) /\ current' = current /\ ~SlotPruned(A)
  BY <1>1, <1>3, <1>4, <1>6, Grown
<1>7. CASE Waiting(w) = {} /\ P.pending = None /\ Keep(Killed(P), w) /\ current' = None
  <2>1. \A t \in Turns : at[t] \notin Awaiting
    BY <1>1, <1>4, <1>7 DEF Waiting, ClaudeInv, OneRequest, Awaiting
  <2>2. at' = at /\ grace' \in BOOLEAN
    <3>1. CASE Wake(w, P, grace, "timer")
      BY <1>7, <3>1 DEF Wake, ClaudeInv, Typed
    <3>2. CASE UNCHANGED <<at, grace>>
      BY <3>2 DEF ClaudeInv, Typed
    <3> QED BY <1>4, <3>1, <3>2
  <2>3. Killed(P) \in ClaudeWorker /\ Killed(P).pending = None /\ Killed(P).settling = FALSE
    BY <1>3, Kills
  <2>4. worker \in [Workers -> ClaudeWorker]
    BY DEF ClaudeInv, Typed
  <2>5. /\ worker' \in [Workers -> ClaudeWorker] /\ worker'[w] = Killed(P)
        /\ \A v \in Workers : v # w => worker'[v] = worker[v]
    BY <1>7, <2>3, <2>4 DEF Keep
  <2>6. Typed'
    BY <1>7, <2>2, <2>5 DEF ClaudeInv, Typed
  <2>7. OneRequest'
    BY <1>1, <2>1, <2>2 DEF ClaudeInv, OneRequest
  <2>8. Pendings'
    BY <1>1, <2>2, <2>3, <2>5 DEF ClaudeInv, Pendings
  <2>9. NobodyWaitsUnarmed'
    BY <2>1, <2>2 DEF NobodyWaitsUnarmed, Awaiting
  <2> QED BY <2>6, <2>7, <2>8, <2>9 DEF ClaudeInv
<1> QED BY <1>4, <1>5, <1>6, <1>7

\* The notice ages.
LEMMA AgeStep ==
  ASSUME ClaudeInv, NEW w \in Workers, GraceExpires(w) \/ HoursPass(w)
  PROVE  ClaudeInv'
<1> DEFINE W == worker[w]
<1>1. W \in ClaudeWorker /\ UNCHANGED <<current, at, on, grace>>
  BY DEF GraceExpires, HoursPass, ClaudeInv, Typed
<1>2. CASE GraceExpires(w)
  <2> DEFINE n == [W.notice EXCEPT !.age = "late"]
             V == [W EXCEPT !.notice = n]
  <2>1. n \in Notice
    BY <1>1, <1>2 DEF GraceExpires, ClaudeWorker, Notice
  <2>2. Keep(V, w)
    BY <1>1, <1>2 DEF GraceExpires, ClaudeWorker, Keep
  <2> HIDE DEF n
  <2>3. Grows(W, V)
    BY <1>1, <2>1 DEF Grows, Same, ClaudeWorker
  <2> HIDE DEF V
  <2> QED BY <1>1, <2>2, <2>3, Grown
<1>3. CASE HoursPass(w)
  <2> DEFINE n == IF W.notice = None THEN None ELSE [W.notice EXCEPT !.age = "old"]
             V == [W EXCEPT !.aged = Tracked(W), !.notice = n]
  <2>1. n \in Notice \cup {None} /\ Tracked(W) \in SUBSET Tasks
    BY <1>1 DEF ClaudeWorker, Notice, Tracked
  <2>2. Keep(V, w)
    BY <1>1, <1>3 DEF HoursPass, ClaudeWorker, Keep
  <2> HIDE DEF n
  <2>3. Grows(W, V)
    BY <1>1, <2>1 DEF Grows, Same, ClaudeWorker
  <2> HIDE DEF V
  <2> QED BY <1>1, <2>2, <2>3, Grown
<1> QED BY <1>2, <1>3

\* A turn is settled by the result of its task, or goes on.
LEMMA SettleStep ==
  ASSUME ClaudeInv, NEW w \in Workers, SettleTimer(w)
  PROVE  ClaudeInv'
<1> DEFINE W == worker[w]
           V == [W EXCEPT !.settling = FALSE]
<1>1. W \in ClaudeWorker /\ W.settling = TRUE /\ W.pending # None /\ current' = current
  <2>1. W \in ClaudeWorker /\ W.settling = TRUE /\ current' = current
    BY DEF SettleTimer, ClaudeInv, Typed, ClaudeWorker
  <2> QED BY <2>1 DEF ClaudeInv, Pendings
<1>2. Grows(W, V)
  BY <1>1 DEF Grows, Same, ClaudeWorker
<1> HIDE DEF V
<1>3. CASE Keep(V, w) /\ UNCHANGED <<at, on, grace>>
  BY <1>1, <1>2, <1>3, Grown
<1>4. CASE /\ Keep(NoTurn(W), w)
           /\ at' = [at EXCEPT ![W.pending] = "answered"] /\ on' = None /\ grace' = grace
  <2>1. current' \in Workers \cup {None}
    BY <1>1 DEF ClaudeInv, Typed
  <2> QED BY <1>1, <1>4, <2>1, TurnGone, Ends
<1> QED BY <1>3, <1>4 DEF SettleTimer, Answered, V

\* A process ends, or is ended.
LEMMA EndOfWorker ==
  ASSUME ClaudeInv, NEW w \in Workers, Close(w) \/ GivesOut(w)
  PROVE  ClaudeInv'
<1>1. worker[w] \in ClaudeWorker
  BY DEF ClaudeInv, Typed
<1>2. CASE Close(w)
  <2> DEFINE V == [Unborn EXCEPT !.child = "closed"]
  <2>1. V \in ClaudeWorker /\ V.pending = None /\ V.settling = FALSE
    <3>1. <<>> \in Seq([task : Tasks, turn : Turns \cup {None}, review : BOOLEAN])
      OBVIOUS
    <3> QED BY <3>1 DEF Unborn, ClaudeWorker
  <2>2. Keep(V, w) /\ Drop(w) /\ FailRequests(w) /\ \A t \in Turns : at[t] \notin {"line", "timer"}
    BY <1>2 DEF Close, Woken
  <2> HIDE DEF V
  <2> QED BY <2>1, <2>2, Fails
<1>3. CASE GivesOut(w)
  <2>1. Down(w) /\ \A t \in Turns : at[t] \notin Awaiting
    BY <1>3, PendingIs DEF GivesOut
  <2> QED BY <1>1, <2>1, Kills, Fails DEF Down, Awaiting
<1> QED BY <1>2, <1>3

-----------------------------------------------------------------------------
(* The theorems *)

\* Every step keeps the invariant.
LEMMA NextClaude == ASSUME ClaudeInv, [Next]_vars PROVE ClaudeInv'
<1>1. CASE \E t \in Turns : Request(t)
  BY <1>1, RequestStep, TimerStep DEF Request
<1>2. CASE \E w \in Workers : Process(w)
  <2> PICK w \in Workers : Process(w)
    BY <1>2
  <2>1. CASE FoldPrompt(w) \/ \E k \in Tasks : Swallow(w, k)
    BY <2>1, SameAdapter DEF FoldPrompt, Swallow
  <2>5. CASE ReadPrompt(w) \/ Reinit(w)
    BY <2>5, InitStep
  <2>2. CASE ToolStarts(w) \/ ToolEnds(w)
    BY <2>2, ToolStep
  <2>3. CASE EndReview(w) \/ EndTurn(w) \/ \E k \in Tasks : FoldCompletion(w, k)
    BY <2>3, EndStep
  <2>4. CASE \E k \in Tasks : StartTask(w, k) \/ Collect(w, k) \/ Announce(w, k) \/ BeginReview(w, k)
    BY <2>4, StartStep, CollectStep, ReviewStep
  <2> QED BY <2>1, <2>2, <2>3, <2>4, <2>5 DEF Process
<1>3. CASE \E w \in Workers : Clock(w)
  BY <1>3, AgeStep, SettleStep, ReapStep, EndOfWorker DEF Clock
<1>4. CASE \E w \in Workers : Close(w)
  BY <1>4, EndOfWorker
<1>5. CASE UNCHANGED vars
  BY <1>5, SameAdapter DEF vars
<1> QED BY <1>1, <1>2, <1>3, <1>4, <1>5 DEF Next

\* The invariant always holds: one request in work, the session leads to the
\* worker it waits for, and pendingTurn is that of the request that was written.
THEOREM ClaudeSound == Spec => []ClaudeInv
  BY InitClaude, NextClaude, PTL DEF Spec

\* The type invariant.
THEOREM ClaudeTypes == Spec => []TypeOK
<1>1. ClaudeInv => TypeOK
  <2> SUFFICES ASSUME ClaudeInv PROVE TypeOK
    OBVIOUS
  <2>1. \A w \in Workers : /\ worker[w].tracked \in [Tasks -> {"no", "running", "finished"}]
                           /\ worker[w].settling \in BOOLEAN
    BY DEF ClaudeInv, Typed, ClaudeWorker
  <2>2. InWork # {} => on \in Workers
    BY DEF InWork, Woken, ClaudeInv, OneRequest, Awaiting
  <2>3. \A w \in Workers : worker[w].settling => worker[w].pending # None
    BY <2>1 DEF ClaudeInv, Pendings
  <2> QED BY <2>1, <2>2, <2>3 DEF TypeOK, ClaudeInv, Typed, Phases
<1> QED BY <1>1, ClaudeSound, PTL

\* A request that waits for a review has a way out, for any number of
\* requests, tasks and processes: while no review runs its timer is armed,
\* however notices replace each other and reviews fail to start
\* (waitForTaskNotificationTurn, resolveTaskNotificationWaiters).
THEOREM NoOneWaitsUnarmed == Spec => []NobodyWaitsUnarmed
<1>1. ClaudeInv => NobodyWaitsUnarmed
  BY DEF ClaudeInv
<1> QED BY <1>1, ClaudeSound, PTL

-----------------------------------------------------------------------------
(* What a user is shown: the operators on a worker again *)

Tame(W) == \A i \in DOMAIN W.queue : W.queue[i].review = FALSE

\* What a step of the adapter may do to a worker, if it keeps the tasks of G as
\* collected: no task is tracked that was not, and no review begins.
Calm(W, V, G) ==
  /\ V.active = TRUE => W.active = TRUE
  /\ V.collected = W.collected \cup G
  /\ \A k \in Tasks : V.tracked[k] # "no" => W.tracked[k] # "no" /\ k \notin G
  /\ \A k \in Tasks : k \in G => W.tracked[k] # "no"
  /\ Tame(W) => Tame(V)
\* And to its turn and the review that runs.
Steady(W, V) ==
  /\ V.tool = W.tool
  /\ V.active = TRUE /\ W.notice # None => V.notice # None /\ V.notice.task = W.notice.task

\* To change nothing is such a step.
LEMMA CalmSelf ==
  ASSUME NEW W \in ClaudeWorker
  PROVE  Calm(W, W, {}) /\ Steady(W, W)
  BY DEF Calm, Steady, ClaudeWorker

\* To forget tasks is; so is all that the adapter does to a worker, as follows.
LEMMA ForgetCalm ==
  ASSUME NEW W \in ClaudeWorker, NEW ks
  PROVE  /\ Calm(W, Forget(W, ks), {}) /\ Steady(W, Forget(W, ks))
         /\ Forget(W, ks).notice = W.notice
         /\ \A k \in Tasks : Forget(W, ks).tracked[k] = IF k \in ks THEN "no" ELSE W.tracked[k]
<1> DEFINE tr == [k \in Tasks |-> IF k \in ks THEN "no" ELSE W.tracked[k]]
           ow == [k \in Tasks |-> IF k \in ks THEN None ELSE W.owner[k]]
           V == [W EXCEPT !.tracked = tr, !.owner = ow, !.aged = W.aged \ ks]
<1>1. \A k \in Tasks : tr[k] = IF k \in ks THEN "no" ELSE W.tracked[k]
  OBVIOUS
<1>2. Forget(W, ks) = V
  BY DEF Forget, ClaudeWorker
<1> HIDE DEF tr, ow
<1>3. /\ V.active = W.active /\ V.collected = W.collected /\ V.tracked = tr
      /\ V.queue = W.queue /\ V.tool = W.tool /\ V.notice = W.notice
  BY DEF ClaudeWorker
<1> HIDE DEF V
<1> QED BY <1>1, <1>2, <1>3 DEF Calm, Steady, Tame

\* Tasks given up are those kept as collected, and none is while a review runs.
LEMMA SettleCalm ==
  ASSUME NEW W \in ClaudeWorker
  PROVE  /\ Calm(W, SettleExpired(W), GivenUp(W)) /\ Steady(W, SettleExpired(W))
         /\ (W.active = TRUE => SettleExpired(W) = W /\ GivenUp(W) = {})
         /\ (GivenUp(W) # {} => SettleExpired(W).notice = None)
<1> DEFINE G == GivenUp(W)
           F == Forget(W, G)
<1>2. \A k \in G : k \in Tasks /\ W.tracked[k] # "no" /\ Expired(W)
  BY DEF GivenUp
<1>5. G = GivenUp(W)
  OBVIOUS
<1> HIDE DEF G
<1>1. /\ F \in ClaudeWorker /\ Calm(W, F, {}) /\ Steady(W, F)
      /\ \A k \in Tasks : F.tracked[k] = IF k \in G THEN "no" ELSE W.tracked[k]
  <2>1. F \in ClaudeWorker
    BY Forgets DEF Same
  <2> QED BY <2>1, ForgetCalm
<1>3. CASE Expired(W)
  <2>1. SettleExpired(W) = [F EXCEPT !.notice = None, !.collected = @ \cup G]
    BY <1>3, <1>5 DEF SettleExpired
  <2>2. G \in SUBSET Tasks
    BY <1>2
  <2> HIDE DEF F
  <2> DEFINE c == F.collected \cup G
             V == [F EXCEPT !.notice = None, !.collected = c]
  <2>3. SettleExpired(W) = V
    BY <1>1, <2>1 DEF ClaudeWorker
  <2>4. c \in SUBSET Tasks /\ c = W.collected \cup G
    BY <1>1, <2>2 DEF ClaudeWorker, Calm
  <2> HIDE DEF c
  <2>5. /\ V.active = F.active /\ V.collected = c /\ V.tracked = F.tracked
        /\ V.queue = F.queue /\ V.tool = F.tool /\ V.notice = None
    BY <1>1 DEF ClaudeWorker
  <2> HIDE DEF V
  <2>6. W.active # TRUE
    BY <1>3 DEF Expired
  <2>7. Calm(W, V, G)
    BY <1>1, <1>2, <2>4, <2>5 DEF Calm, Tame
  <2>8. Steady(W, V)
    BY <1>1, <2>5, <2>6 DEF Steady, Calm
  <2> QED BY <1>5, <2>3, <2>5, <2>6, <2>7, <2>8
<1>4. CASE ~Expired(W)
  <2>1. G = {} /\ SettleExpired(W) = W
    BY <1>2, <1>4 DEF SettleExpired
  <2> QED BY <1>5, <2>1, CalmSelf
<1> QED BY <1>3, <1>4

\* Nothing in the queue comes with its review begun, and what runs is not replaced.
LEMMA InstallCalm ==
  ASSUME NEW W \in ClaudeWorker
  PROVE  /\ Tame(W) => Calm(W, InstallNext(W), {})
         /\ InstallNext(W).tracked = W.tracked /\ InstallNext(W).collected = W.collected
         /\ InstallNext(W).tool = W.tool
         /\ (W.active = TRUE \/ W.notice # None => InstallNext(W) = W)
<1>1. CASE W.active = TRUE \/ W.queue = <<>> \/ W.notice # None
  BY <1>1, CalmSelf DEF InstallNext
<1>2. CASE ~(W.active = TRUE \/ W.queue = <<>> \/ W.notice # None)
  <2> DEFINE n == [task |-> Head(W.queue).task, turn |-> Head(W.queue).turn, age |-> "fresh"]
             a == Head(W.queue).review
             q == Tail(W.queue)
             V == [W EXCEPT !.notice = n, !.active = a, !.queue = q]
  <2>1. InstallNext(W) = V
    BY <1>2 DEF InstallNext, ClaudeWorker
  <2>2. Tame(W) => a = FALSE /\ \A i \in DOMAIN q : q[i].review = FALSE
    <3>1. W.queue \in Seq([task : Tasks, turn : Turns \cup {None}, review : BOOLEAN]) /\ W.queue # <<>>
      BY <1>2 DEF ClaudeWorker
    <3>2. \A S : \A s \in Seq(S) : s # <<>> =>
            /\ Head(s) = s[1] /\ 1 \in DOMAIN s
            /\ \A i \in DOMAIN Tail(s) : i + 1 \in DOMAIN s /\ Tail(s)[i] = s[i + 1]
      OBVIOUS
    <3> QED BY <3>1, <3>2 DEF Tame
  <2> HIDE DEF n, a, q
  <2>3. /\ V.active = a /\ V.collected = W.collected /\ V.tracked = W.tracked
        /\ V.queue = q /\ V.tool = W.tool
    BY DEF ClaudeWorker
  <2> HIDE DEF V
  <2> QED BY <1>2, <2>1, <2>2, <2>3 DEF Calm, Tame
<1> QED BY <1>1, <1>2

\* Both.
LEMMA AdvanceCalm ==
  ASSUME NEW W \in ClaudeWorker, Tame(W)
  PROVE  /\ Calm(W, Advance(W), GivenUp(W)) /\ Steady(W, Advance(W))
         /\ (W.active = TRUE => Advance(W) = W /\ GivenUp(W) = {})
<1> DEFINE S == SettleExpired(W)
<1>1. S \in ClaudeWorker /\ S.active = W.active
  BY Settles DEF Same
<1>2. /\ Calm(W, S, GivenUp(W)) /\ Steady(W, S)
      /\ (W.active = TRUE => S = W /\ GivenUp(W) = {})
  BY SettleCalm
<1>3. Advance(W) = InstallNext(S)
  BY DEF Advance
<1> HIDE DEF S
<1>4. Tame(S)
  BY <1>2 DEF Calm
<1>5. Calm(S, InstallNext(S), {}) /\ InstallNext(S).tool = S.tool
  BY <1>1, <1>4, InstallCalm
<1>6. W.active = TRUE => InstallNext(S) = W
  BY <1>1, <1>2, InstallCalm
<1>7. Calm(W, InstallNext(S), GivenUp(W))
  BY <1>2, <1>5 DEF Calm
<1>8. Steady(W, InstallNext(S))
  BY <1>2, <1>5, <1>6, <1>7 DEF Calm, Steady
<1> QED BY <1>2, <1>3, <1>6, <1>7, <1>8

\* A review is dropped with its slot.
LEMMA PruneCalm ==
  ASSUME NEW W \in ClaudeWorker, Tame(W)
  PROVE  /\ Calm(W, PruneTasks(W), {}) /\ Steady(W, PruneTasks(W))
         /\ (SlotPruned(W) => PruneTasks(W).active # TRUE)
<1> DEFINE P == Pruned(W)
           F == Forget(W, P)
           G == [F EXCEPT !.notice = None, !.active = FALSE]
<1>1. PruneTasks(W) = IF SlotPruned(W) THEN Advance(G) ELSE F
  BY DEF PruneTasks
<1> HIDE DEF P
<1>2. F \in ClaudeWorker
  BY Forgets DEF Same
<1>3. Calm(W, F, {}) /\ Steady(W, F)
  BY ForgetCalm
<1> HIDE DEF F
<1>4. /\ G \in ClaudeWorker /\ G.active = FALSE /\ G.notice = None /\ G.collected = F.collected
      /\ G.tracked = F.tracked /\ G.queue = F.queue /\ G.tool = F.tool
  BY <1>2 DEF ClaudeWorker
<1> HIDE DEF G
<1>5. Tame(G)
  BY <1>3, <1>4 DEF Tame, Calm
<1>6. Calm(G, Advance(G), GivenUp(G)) /\ Steady(G, Advance(G))
  BY <1>4, <1>5, AdvanceCalm
<1>7. GivenUp(G) = {}
  BY <1>4 DEF GivenUp, Expired
<1>8. Calm(W, Advance(G), {}) /\ Steady(W, Advance(G)) /\ Advance(G).active # TRUE
  <2> DEFINE A == Advance(G)
  <2>1. Calm(G, A, {}) /\ Steady(G, A)
    BY <1>6, <1>7
  <2> HIDE DEF A
  <2>2. A.active # TRUE /\ Calm(W, A, {})
    BY <1>3, <1>4, <2>1 DEF Calm, Tame
  <2>3. Steady(W, A)
    BY <1>3, <1>4, <2>1, <2>2 DEF Steady
  <2> QED BY <2>2, <2>3 DEF A
<1> QED BY <1>1, <1>3, <1>8

\* A line keeps the slot.
LEMMA HeardCalm ==
  ASSUME NEW W \in ClaudeWorker
  PROVE  /\ Calm(W, Heard(W), {}) /\ Steady(W, Heard(W)) /\ Heard(W).tracked = W.tracked
         /\ Calm(W, Quiet(W), {}) /\ Steady(W, Quiet(W)) /\ Quiet(W).tracked = W.tracked
<1>1. /\ Calm(W, Heard(W), {}) /\ Steady(W, Heard(W)) /\ Heard(W).tracked = W.tracked
  <2>1. CASE W.active = TRUE /\ W.notice # None
    <3> DEFINE n == [W.notice EXCEPT !.age = "fresh"]
               V == [W EXCEPT !.notice = n]
    <3>1. n \in Notice /\ n.task = W.notice.task /\ n # None
      <4>1. W.notice \in Notice
        BY <2>1 DEF ClaudeWorker
      <4>2. n \in Notice /\ n.task = W.notice.task
        BY <4>1 DEF Notice
      <4>3. n # None
        BY <4>2, NoticeAssumption
      <4> QED BY <4>2, <4>3
    <3>2. Heard(W) = V
      BY <2>1 DEF Heard, ClaudeWorker
    <3> HIDE DEF n
    <3>3. /\ V.active = W.active /\ V.collected = W.collected /\ V.tracked = W.tracked
          /\ V.queue = W.queue /\ V.tool = W.tool /\ V.notice = n
      BY DEF ClaudeWorker
    <3> HIDE DEF V
    <3> QED BY <3>1, <3>2, <3>3 DEF Calm, Steady, Tame
  <2>2. CASE ~(W.active = TRUE /\ W.notice # None)
    <3>1. Heard(W) = W
      BY <2>2 DEF Heard, ClaudeWorker
    <3> QED BY <3>1, CalmSelf
  <2> QED BY <2>1, <2>2
<1>2. /\ Calm(W, Quiet(W), {}) /\ Steady(W, Quiet(W)) /\ Quiet(W).tracked = W.tracked
  <2>1. CASE W.active = TRUE
    BY <1>1, <2>1 DEF Quiet
  <2>2. CASE W.active # TRUE
    <3> DEFINE V == [W EXCEPT !.settling = FALSE]
    <3>1. Quiet(W) = V
      BY <2>2 DEF Quiet
    <3>2. /\ V.active = W.active /\ V.collected = W.collected /\ V.tracked = W.tracked
          /\ V.queue = W.queue /\ V.tool = W.tool
      BY DEF ClaudeWorker
    <3> HIDE DEF V
    <3> QED BY <2>2, <3>1, <3>2 DEF Calm, Steady, Tame
  <2> QED BY <2>1, <2>2
<1> QED BY <1>1, <1>2

\* What the notice of k makes of a worker: the slot of the review that runs is
\* left alone.
Claimed(W, V, k, review) ==
  /\ review = FALSE => Calm(W, V, {}) /\ Steady(W, V) /\ V.active = W.active
  /\ V.tool = W.tool
  /\ V.collected = W.collected /\ \A j \in Tasks : V.tracked[j] # "no" => W.tracked[j] # "no"
  /\ W.active # TRUE => /\ V.notice # None /\ V.notice.task = k
                        /\ review = TRUE => V.active = TRUE
                        /\ V.queue = W.queue

\* Claims does just that.
LEMMA ClaimsCalm ==
  ASSUME NEW W \in ClaudeWorker, NEW k \in Tasks, NEW review \in BOOLEAN
  PROVE  Claimed(W, Claims(Finished(W, k), k, review), k, review)
<1> DEFINE F == Finished(W, k)
           n == [task |-> k, turn |-> F.owner[k], age |-> "fresh"]
           e == [task |-> k, turn |-> F.owner[k], review |-> review]
<1>1. /\ F \in ClaudeWorker /\ F.active = W.active /\ F.collected = W.collected /\ F.tool = W.tool
      /\ F.notice = W.notice /\ F.queue = W.queue
      /\ \A j \in Tasks : F.tracked[j] # "no" => W.tracked[j] # "no"
  <2>1. CASE W.tracked[k] = "running"
    <3> DEFINE tr == [W.tracked EXCEPT ![k] = "finished"]
    <3>1. /\ tr \in [Tasks -> {"no", "running", "finished"}] /\ W.aged \ {k} \in SUBSET Tasks
          /\ \A j \in Tasks : tr[j] # "no" => W.tracked[j] # "no"
      BY <2>1 DEF ClaudeWorker
    <3>2. F = [W EXCEPT !.tracked = tr, !.aged = W.aged \ {k}]
      BY <2>1 DEF Finished, ClaudeWorker
    <3> HIDE DEF tr, F
    <3> QED BY <3>1, <3>2 DEF ClaudeWorker
  <2>2. CASE W.tracked[k] # "running"
    BY <2>2 DEF Finished
  <2> QED BY <2>1, <2>2
<1> HIDE DEF F
<1>2. F.owner[k] \in Turns \cup {None}
  BY <1>1 DEF ClaudeWorker
<1>3. n \in Notice /\ n # None /\ n.task = k /\ e.review = review
  BY <1>2, NoticeAssumption DEF Notice
<1> DEFINE q == Append(F.queue, e)
           a == F.active \/ review
           V == Claims(F, k, review)
<1>4. q \in Seq([task : Tasks, turn : Turns \cup {None}, review : BOOLEAN])
      /\ (review = FALSE /\ Tame(W) => \A i \in DOMAIN q : q[i].review = FALSE)
  <2>1. F.queue \in Seq([task : Tasks, turn : Turns \cup {None}, review : BOOLEAN])
    BY <1>1 DEF ClaudeWorker
  <2>2. e \in [task : Tasks, turn : Turns \cup {None}, review : BOOLEAN]
    BY <1>2
  <2>3. e.review = review
    BY <1>3
  <2> HIDE DEF e
  <2>4. \A i \in DOMAIN q : q[i] = e \/ (i \in DOMAIN F.queue /\ q[i] = F.queue[i])
    BY <2>1, <2>2
  <2> QED BY <1>1, <2>1, <2>2, <2>3, <2>4 DEF Tame
<1>5. CASE ForeignReview(F, k)
  <2>1. V = [F EXCEPT !.queue = q]
    BY <1>1, <1>5 DEF Claims, ClaudeWorker
  <2>2. W.active = TRUE
    BY <1>1, <1>5 DEF ForeignReview, ClaudeWorker
  <2> HIDE DEF q, V
  <2>3. /\ V.active = F.active /\ V.collected = F.collected /\ V.tracked = F.tracked
        /\ V.queue = q /\ V.tool = F.tool /\ V.notice = F.notice
    BY <1>1, <2>1 DEF ClaudeWorker
  <2>4. review = FALSE => Calm(W, V, {}) /\ Steady(W, V)
    BY <1>1, <1>4, <2>3 DEF Calm, Steady, Tame
  <2> QED BY <1>1, <2>2, <2>3, <2>4 DEF V, F, Claimed
<1>6. CASE ~ForeignReview(F, k)
  <2>1. V = [F EXCEPT !.notice = n, !.active = a]
    BY <1>1, <1>6 DEF Claims, ClaudeWorker
  <2>2. W.active = TRUE /\ W.notice # None => W.notice.task = k
    BY <1>1, <1>6 DEF ForeignReview, ClaudeWorker
  <2>5. /\ review = FALSE => a = F.active
        /\ review = TRUE => a = TRUE
    BY <1>1 DEF ClaudeWorker
  <2> HIDE DEF n, a, V
  <2>3. /\ V.active = a /\ V.collected = F.collected /\ V.tracked = F.tracked
        /\ V.queue = F.queue /\ V.tool = F.tool /\ V.notice = n
    BY <1>1, <2>1 DEF ClaudeWorker
  <2>4. review = FALSE => Calm(W, V, {}) /\ Steady(W, V)
    BY <1>1, <1>3, <2>2, <2>3, <2>5 DEF Calm, Steady, Tame
  <2> QED BY <1>1, <1>3, <2>3, <2>4, <2>5 DEF V, F, Claimed
<1> QED BY <1>5, <1>6

\* So does an announcement, but for the late one of a collected task.
LEMMA NotifiedCalm ==
  ASSUME NEW W \in ClaudeWorker, NEW k \in Tasks
  PROVE  LET V == Notified(W, k) IN
         /\ V \in ClaudeWorker /\ Calm(W, V, {}) /\ V.tool = W.tool /\ V.active = W.active
         /\ V.active = TRUE /\ W.notice # None /\ (k \notin W.collected \/ W.notice.task = k) =>
              V.notice # None /\ V.notice.task = W.notice.task
         /\ W.active # TRUE /\ W.tracked[k] # "no" => V.notice # None /\ V.notice.task = k
<1> DEFINE H == Heard(W)
           n == [task |-> k, turn |-> None, age |-> "fresh"]
           C == Claims(Finished(H, k), k, FALSE)
           V == Notified(W, k)
<1>1. /\ H \in ClaudeWorker /\ H.active = W.active /\ Calm(W, H, {}) /\ Steady(W, H)
      /\ H.tracked = W.tracked
  BY Hearings, HeardCalm DEF Same
<1>9. V = IF k \in H.collected THEN [H EXCEPT !.notice = n]
          ELSE IF H.tracked[k] = "no" THEN H ELSE C
  BY DEF Notified
<1>2. V = IF k \in W.collected THEN [H EXCEPT !.notice = n]
          ELSE IF W.tracked[k] = "no" THEN H ELSE C
  <2> HIDE DEF H, C, n, V
  <2>1. H.collected = W.collected
    BY <1>1 DEF Calm
  <2> QED BY <1>1, <1>9, <2>1
<1>3. V \in ClaudeWorker
  BY Notifies DEF Grows, Same
<1> HIDE DEF H
<1>4. /\ Calm(H, C, {}) /\ Steady(H, C) /\ C.active = H.active
      /\ H.active # TRUE => C.notice # None /\ C.notice.task = k
  <2> DEFINE no == FALSE
             D == Claims(Finished(H, k), k, no)
  <2>1. no \in BOOLEAN /\ no = FALSE
    OBVIOUS
  <2> HIDE DEF no
  <2>2. Claimed(H, D, k, no)
    BY <1>1, <2>1, ClaimsCalm
  <2>3. C = D
    BY <2>1
  <2> HIDE DEF C, D
  <2> QED BY <2>1, <2>2, <2>3 DEF Claimed
<1>5. n # None /\ n.task = k
  BY NoticeAssumption DEF Notice
<1> HIDE DEF n, C, V
<1>6. CASE k \in W.collected
  <2>1. /\ V.active = H.active /\ V.collected = H.collected /\ V.tracked = H.tracked
        /\ V.queue = H.queue /\ V.tool = H.tool /\ V.notice = n
    BY <1>1, <1>2, <1>6 DEF ClaudeWorker
  <2>2. Calm(W, V, {}) /\ V.tool = W.tool /\ V.active = W.active
    BY <1>1, <2>1 DEF Calm, Steady, Tame
  <2> QED BY <1>3, <1>5, <1>6, <2>1, <2>2 DEF V
<1>7. CASE k \notin W.collected /\ W.tracked[k] = "no"
  <2>1. V = H
    BY <1>2, <1>7
  <2> QED BY <1>1, <1>3, <1>7, <2>1 DEF V, Steady
<1>8. CASE k \notin W.collected /\ W.tracked[k] # "no"
  <2>1. V = C
    BY <1>2, <1>8
  <2>2. Calm(W, C, {})
    BY <1>1, <1>4 DEF Calm
  <2>3. Steady(W, C)
    BY <1>1, <1>4 DEF Steady
  <2> QED BY <1>1, <1>3, <1>4, <2>1, <2>2, <2>3 DEF V, Steady
<1> QED BY <1>6, <1>7, <1>8

\* The end of a turn or of a process leaves reviews and tasks as they were.
LEMMA TurnGoneCalm ==
  ASSUME NEW W \in ClaudeWorker
  PROVE  /\ Calm(W, NoTurn(W), {}) /\ NoTurn(W).notice = W.notice
         /\ Calm(W, Refreshed(NoTurn(W)), {})
         /\ Calm(W, Killed(W), {}) /\ Killed(W).notice = W.notice /\ Killed(W).active = W.active
         /\ NoTurn(W).child = W.child /\ Refreshed(NoTurn(W)).child = W.child
         /\ Killed(W).child = IF W.child = "live" THEN "killed" ELSE W.child
<1> DEFINE N == NoTurn(W)
           K == Killed(W)
           n == [N.notice EXCEPT !.age = "fresh"]
           R == [N EXCEPT !.notice = n]
<1>1. /\ N \in ClaudeWorker /\ N.active = W.active /\ N.collected = W.collected
      /\ N.tracked = W.tracked /\ N.queue = W.queue /\ N.notice = W.notice /\ N.child = W.child
  BY TurnGone DEF NoTurn, ClaudeWorker
<1>2. /\ K.active = W.active /\ K.collected = W.collected
      /\ K.tracked = W.tracked /\ K.queue = W.queue /\ K.notice = W.notice
      /\ K.child = IF W.child = "live" THEN "killed" ELSE W.child
  BY DEF Killed, ClaudeWorker
<1>3. Refreshed(N) = N \/ Refreshed(N) = R
  <2> HIDE DEF N
  <2>1. CASE N.notice = None
    BY <2>1 DEF Refreshed
  <2>2. CASE N.notice # None
    BY <1>1, <2>2 DEF Refreshed, ClaudeWorker
  <2> QED BY <2>1, <2>2
<1> HIDE DEF N, K, n
<1>4. /\ R.active = W.active /\ R.collected = W.collected
      /\ R.tracked = W.tracked /\ R.queue = W.queue /\ R.child = W.child
  BY <1>1 DEF ClaudeWorker
<1> HIDE DEF R
<1>5. Calm(W, N, {}) /\ Calm(W, K, {}) /\ Calm(W, R, {})
  BY <1>1, <1>2, <1>4 DEF Calm, Tame
<1> QED BY <1>1, <1>2, <1>3, <1>4, <1>5 DEF N, K

-----------------------------------------------------------------------------
CLI == [mode : {"idle", "turn", "review"}, who : Turns \cup Tasks \cup {None}, tool : BOOLEAN,
        style : {"envelope", "init"}, stdin : Seq(Turns)]
Events == {"unreviewed", "collected", "pruned", "died", "review"}
Answers == Turns \cup {"early", "cut", "task", "killed", None}

CliTyped ==
  /\ cli \in [Workers -> CLI]
  /\ \A w \in Workers : /\ cli[w].mode = "turn" => cli[w].who \in Turns
                        /\ cli[w].mode = "review" => cli[w].who \in Tasks
                        /\ cli[w].tool = TRUE => cli[w].mode = "turn"
                        /\ worker[w].child = "unborn" => cli[w].mode = "idle"
  /\ life \in [Tasks -> [at : {"new", "runs", "collected", "owed", "done"}, by : Workers \cup {None}]]
  /\ told \in [Tasks -> Seq(Events)]
  /\ reply \in [Turns -> Answers]
  /\ muddled \in BOOLEAN

Silent(k) == \A i \in DOMAIN told[k] : told[k][i] = "pruned"
Once(k) == \A i, j \in DOMAIN told[k] :
             i < j /\ told[k][j] \in {"review", "died"} => told[k][i] = "pruned"
\* Something may still be shown of k through w.
Open(w, k) ==
  \/ worker[w].tracked[k] # "no"
  \/ worker[w].child # "closed" /\ At(k, w, {"runs", "collected", "owed"})
  \/ cli[w].mode = "review" /\ cli[w].who = k
Reviewing(w, k) ==
  cli[w].mode = "review" /\ cli[w].who = k =>
    /\ life[k].at = "done"
    /\ cli[w].style = "envelope" =>
         worker[w].active = TRUE /\ worker[w].notice # None /\ worker[w].notice.task = k
TaskOf(w, k) ==
  /\ Open(w, k) => /\ Silent(k) \/ (k \in worker[w].collected /\ worker[w].tracked[k] = "no")
                   /\ life[k].at # "new"
                   /\ \A v \in Workers : Open(v, k) => v = w
  /\ k \in worker[w].collected => ~Silent(k)
  /\ Reviewing(w, k)
  /\ life[k].by = w => worker[w].child # "unborn"
TaskInv ==
  muddled \/ \A k \in Tasks : /\ Once(k) /\ (life[k].at = "new" => Silent(k))
                              /\ \A w \in Workers : TaskOf(w, k)

\* What a step on w does to a task: nothing but to drop it, to keep it aside
\* as collected, or to be over with it.
Untouched(w, k) ==
  /\ told'[k] = told[k] \/ told'[k] = Append(told[k], "pruned")
  /\ worker'[w].tracked[k] # "no" => worker[w].tracked[k] # "no"
  /\ k \in worker'[w].collected => k \in worker[w].collected
  /\ Open(w, k)' => Open(w, k) /\ (k \in worker[w].collected => k \in worker'[w].collected)
KeptAside(w, k) ==
  /\ worker[w].tracked[k] # "no" /\ worker'[w].tracked[k] = "no" /\ k \in worker'[w].collected
  /\ \E e \in {"unreviewed", "collected"} : told'[k] = Append(told[k], e)
Over(w, k) ==
  /\ Open(w, k) /\ ~Open(w, k)'
  /\ k \in worker'[w].collected => k \in worker[w].collected
  /\ \/ told'[k] = told[k]
     \/ \E e \in {"unreviewed", "collected"} : told'[k] = Append(told[k], e)
     \/ Silent(k) /\ \E e \in {"review", "died"} : told'[k] = Append(told[k], e)
LifeStep(w, k) ==
  \/ life'[k] = life[k]
  \/ /\ Open(w, k) /\ life'[k].at # "new" /\ life'[k].by \in {w, None}
     /\ worker'[w].child # "unborn"

\* A process just spawned.
Fresh(v) ==
  /\ worker[v].child = "unborn" /\ worker'[v].child = "live" /\ cli'[v].mode = "idle"
  /\ worker'[v].collected = {} /\ \A k \in Tasks : worker'[v].tracked[k] = "no"

\* One more event told of a task.
LEMMA ToldAppend ==
  ASSUME NEW q \in Seq(Events), NEW e \in Events, NEW p, p = Append(q, e)
  PROVE  /\ (\A i \in DOMAIN p : p[i] = "pruned") <=> ((\A i \in DOMAIN q : q[i] = "pruned") /\ e = "pruned")
         /\ (\A i, j \in DOMAIN q : i < j /\ q[j] \in {"review", "died"} => q[i] = "pruned")
            /\ ((\A i \in DOMAIN q : q[i] = "pruned") \/ e \notin {"review", "died"})
            => \A i, j \in DOMAIN p : i < j /\ p[j] \in {"review", "died"} => p[i] = "pruned"
<1>1. /\ DOMAIN q = 1 .. Len(q) /\ DOMAIN p = 1 .. (Len(q) + 1) /\ Len(q) \in Nat
      /\ p[Len(q) + 1] = e /\ \A i \in 1 .. Len(q) : p[i] = q[i]
  OBVIOUS
<1>2. (\A i \in DOMAIN p : p[i] = "pruned") <=> ((\A i \in DOMAIN q : q[i] = "pruned") /\ e = "pruned")
  <2>1. \A i \in DOMAIN p : i \in DOMAIN q \/ i = Len(q) + 1
    BY <1>1
  <2>2. Len(q) + 1 \in DOMAIN p /\ \A i \in DOMAIN q : i \in DOMAIN p
    BY <1>1
  <2> QED BY <1>1, <2>1, <2>2
<1>3. ASSUME \A i, j \in DOMAIN q : i < j /\ q[j] \in {"review", "died"} => q[i] = "pruned",
             (\A i \in DOMAIN q : q[i] = "pruned") \/ e \notin {"review", "died"},
             NEW i \in DOMAIN p, NEW j \in DOMAIN p, i < j, p[j] \in {"review", "died"}
      PROVE  p[i] = "pruned"
  BY <1>1, <1>3
<1> QED BY <1>2, <1>3

\* A step that touches, keeps aside or is over with each task keeps what is known of them.
LEMMA TaskStep ==
  ASSUME ClaudeInv, CliTyped, TaskInv, NEW w \in Workers,
         \A v \in Workers : v # w => (worker'[v] = worker[v] /\ cli'[v] = cli[v]) \/ Fresh(v),
         \A k \in Tasks : Untouched(w, k) \/ KeptAside(w, k) \/ Over(w, k),
         \A k \in Tasks : LifeStep(w, k),
         worker'[w].child = "unborn" => worker[w].child = "unborn",
         ~muddled' => \A k \in Tasks : Reviewing(w, k)',
         muddled => muddled', muddled' \in BOOLEAN
  PROVE  TaskInv'
<1> SUFFICES ASSUME ~muddled', NEW k \in Tasks
             PROVE  /\ Once(k)' /\ (life'[k].at = "new" => Silent(k)')
                    /\ \A v \in Workers : TaskOf(v, k)'
  BY DEF TaskInv
<1>1. /\ Once(k) /\ (life[k].at = "new" => Silent(k))
      /\ \A v \in Workers : TaskOf(v, k)
  BY DEF TaskInv
<1>2. \A v \in Workers : v # w => (Open(v, k)' => Open(v, k))
  <2> SUFFICES ASSUME NEW v \in Workers, v # w, Open(v, k)' PROVE Open(v, k)
    OBVIOUS
  <2>1. CASE worker'[v] = worker[v] /\ cli'[v] = cli[v]
    BY <2>1, ClaudeAssumption DEF Open, At, LifeStep
  <2>2. CASE Fresh(v)
    BY <1>1, <2>2, ClaudeAssumption DEF Open, At, LifeStep, Fresh, TaskOf
  <2> QED BY <2>1, <2>2
<1>3. \A v \in Workers : Open(v, k)' => Open(v, k)
  BY <1>2 DEF Untouched, KeptAside, Over, Open
<1>4. told[k] \in Seq(Events)
  BY DEF CliTyped
<1>5. /\ told'[k] = Append(told[k], "pruned") => (Silent(k)' <=> Silent(k)) /\ Once(k)'
      /\ \A e \in {"unreviewed", "collected"} :
           told'[k] = Append(told[k], e) => ~Silent(k)' /\ Once(k)'
      /\ \A e \in {"review", "died"} :
           told'[k] = Append(told[k], e) => ~Silent(k)' /\ (Silent(k) => Once(k)')
      /\ told'[k] = told[k] => (Silent(k)' <=> Silent(k)) /\ Once(k)'
  <2>1. told'[k] = told[k] => (Silent(k)' <=> Silent(k)) /\ Once(k)'
    BY <1>1 DEF Silent, Once
  <2>2. \A e \in Events : told'[k] = Append(told[k], e) =>
          /\ Silent(k)' <=> (Silent(k) /\ e = "pruned")
          /\ Silent(k) \/ e \notin {"review", "died"} => Once(k)'
    <3> SUFFICES ASSUME NEW e \in Events, told'[k] = Append(told[k], e)
                 PROVE  /\ Silent(k)' <=> (Silent(k) /\ e = "pruned")
                        /\ Silent(k) \/ e \notin {"review", "died"} => Once(k)'
      OBVIOUS
    <3>1. Silent(k)' <=> (Silent(k) /\ e = "pruned")
      BY <1>4, ToldAppend DEF Silent
    <3>2. Silent(k) \/ e \notin {"review", "died"} => Once(k)'
      BY <1>1, <1>4, ToldAppend DEF Silent, Once
    <3> QED BY <3>1, <3>2
  <2> QED BY <2>1, <2>2 DEF Events
<1>6. Once(k)'
  BY <1>5 DEF Untouched, KeptAside, Over
<1>7. life'[k].at = "new" => life[k].at = "new"
  BY DEF LifeStep
<1>8. life'[k].at = "new" => Silent(k)'
  <2>1. life[k].at = "new" => ~Open(w, k)
    BY <1>1 DEF TaskOf
  <2> QED BY <1>1, <1>5, <1>7, <2>1 DEF Untouched, KeptAside, Over, Open
<1>9. ASSUME NEW v \in Workers PROVE TaskOf(v, k)'
  <2>1. ~Silent(k) => ~Silent(k)'
    BY <1>5 DEF Untouched, KeptAside, Over
  <2>2. Open(v, k)' => /\ life'[k].at # "new"
                       /\ \A u \in Workers : Open(u, k)' => u = v
    BY <1>1, <1>3, <1>7 DEF TaskOf
  <2>3. life'[k].by = v => worker'[v].child # "unborn"
    BY <1>1, ClaudeAssumption DEF LifeStep, TaskOf, Fresh
  <2>4. CASE v = w
    <3>1. Open(w, k)' => Silent(k)' \/ (k \in worker'[w].collected /\ worker'[w].tracked[k] = "no")
      <4>1. CASE Untouched(w, k)
        BY <1>1, <1>5, <4>1 DEF Untouched, TaskOf
      <4>2. CASE KeptAside(w, k)
        BY <4>2 DEF KeptAside
      <4>3. CASE Over(w, k)
        BY <4>3 DEF Over
      <4> QED BY <4>1, <4>2, <4>3
    <3>2. k \in worker'[w].collected => ~Silent(k)'
      BY <1>1, <1>5, <2>1 DEF Untouched, KeptAside, Over, TaskOf
    <3> QED BY <2>2, <2>3, <2>4, <3>1, <3>2 DEF TaskOf
  <2>5. CASE v # w
    <3>5. Fresh(v) => ~Open(v, k)' /\ Reviewing(v, k)' /\ k \notin worker'[v].collected
      BY <1>1, <2>5, ClaudeAssumption DEF Fresh, Open, At, LifeStep, Reviewing, TaskOf
    <3>1. Open(v, k)' => told'[k] = told[k] \/ told'[k] = Append(told[k], "pruned")
      BY <1>1, <1>2, <2>5 DEF Untouched, KeptAside, Over, TaskOf, Open
    <3>2. Open(v, k)' => Silent(k)' \/ (k \in worker'[v].collected /\ worker'[v].tracked[k] = "no")
      BY <1>1, <1>2, <1>5, <2>5, <3>1, <3>5 DEF TaskOf
    <3>3. k \in worker'[v].collected => ~Silent(k)'
      BY <1>1, <2>1, <2>5, <3>5 DEF TaskOf
    <3>4. Reviewing(v, k)'
      BY <1>1, <2>5, <3>5 DEF TaskOf, Reviewing, LifeStep, Open
    <3> QED BY <2>2, <2>3, <3>2, <3>3, <3>4 DEF TaskOf
  <2> QED BY <2>4, <2>5
<1> QED BY <1>6, <1>8, <1>9

\* A calm step of the adapter does, if it tells of the tasks it keeps aside.
LEMMA CalmStep ==
  ASSUME ClaudeInv, CliTyped, TaskInv, NEW w \in Workers, NEW G, Calm(worker[w], worker'[w], G),
         \A v \in Workers : v # w => (worker'[v] = worker[v] /\ cli'[v] = cli[v]) \/ Fresh(v),
         worker'[w].child = "unborn" => worker[w].child = "unborn",
         worker[w].child = "closed" => worker'[w].child = "closed",
         \A k \in Tasks : IF k \in G THEN \E e \in {"unreviewed", "collected"} : told'[k] = Append(told[k], e)
                          ELSE told'[k] = told[k] \/ told'[k] = Append(told[k], "pruned"),
         \A k \in Tasks : LifeStep(w, k),
         cli'[w].mode = "review" => Open(w, cli'[w].who),
         ~muddled' => \A k \in Tasks : Reviewing(w, k)',
         muddled => muddled', muddled' \in BOOLEAN
  PROVE  TaskInv'
<1>1. worker[w] \in ClaudeWorker
  BY DEF ClaudeInv, Typed
<1>2. ASSUME NEW k \in Tasks PROVE Untouched(w, k) \/ KeptAside(w, k)
  <2>1. CASE k \in G
    BY <2>1 DEF KeptAside, Calm
  <2>2. CASE k \notin G
    <3>1. Open(w, k)' => Open(w, k)
      <4>1. CASE worker'[w].tracked[k] # "no"
        BY <4>1 DEF Calm, Open
      <4>2. CASE worker'[w].child # "closed" /\ At(k, w, {"runs", "collected", "owed"})'
        BY <4>2 DEF Open, LifeStep, At
      <4>3. CASE cli'[w].mode = "review" /\ cli'[w].who = k
        BY <4>3
      <4> QED BY <4>1, <4>2, <4>3 DEF Open
    <3> QED BY <2>2, <3>1 DEF Untouched, Calm
  <2> QED BY <2>1, <2>2
<1> QED BY <1>2, TaskStep

\* The same, when nothing is told of any task.
LEMMA CalmStill ==
  ASSUME ClaudeInv, CliTyped, TaskInv, NEW w \in Workers, Calm(worker[w], worker'[w], {}), told' = told,
         \A v \in Workers : v # w => (worker'[v] = worker[v] /\ cli'[v] = cli[v]) \/ Fresh(v),
         worker'[w].child = "unborn" => worker[w].child = "unborn",
         worker[w].child = "closed" => worker'[w].child = "closed",
         \A k \in Tasks : LifeStep(w, k),
         cli'[w].mode = "review" => Open(w, cli'[w].who),
         ~muddled' => \A k \in Tasks : Reviewing(w, k)',
         muddled => muddled', muddled' \in BOOLEAN
  PROVE  TaskInv'
<1> DEFINE G == {}
<1>1. Calm(worker[w], worker'[w], G) /\ \A k \in Tasks : k \notin G
  OBVIOUS
<1> HIDE DEF G
<1>2. \A k \in Tasks : IF k \in G THEN \E e \in {"unreviewed", "collected"} : told'[k] = Append(told[k], e)
                        ELSE told'[k] = told[k] \/ told'[k] = Append(told[k], "pruned")
  BY <1>1
<1> QED BY <1>1, <1>2, CalmStep

\* The review that runs keeps its slot.
LEMMA SlotStep ==
  ASSUME NEW w \in Workers, \A k \in Tasks : Reviewing(w, k),
         cli'[w].mode = "review" =>
           cli[w].mode = "review" /\ cli'[w].who = cli[w].who /\ cli'[w].style = cli[w].style,
         \A k \in Tasks : life[k].at = "done" => life'[k].at = "done",
         worker[w].active = TRUE => worker'[w].active = TRUE,
         worker'[w].active = TRUE /\ worker[w].notice # None =>
           worker'[w].notice # None /\ worker'[w].notice.task = worker[w].notice.task
  PROVE  \A k \in Tasks : Reviewing(w, k)'
  BY DEF Reviewing

Early == \E s \in Turns : reply[s] = "early"
\* A review is taken to run only while the CLI runs something, and a turn is
\* not taken for one.
Attend(W, C) == Tame(W) /\ (W.active = TRUE => C.mode # "idle")
Apart(W, C) == C.mode = "turn" => W.active # TRUE
\* The pending turn is the one the CLI runs or has yet to read.
Orderly(W, C) ==
  /\ C.mode = "turn" => /\ C.who = W.pending /\ C.stdin = <<>>
                        /\ C.tool = TRUE => W.tool = TRUE
                        /\ W.active # TRUE
  /\ C.stdin # <<>> => C.stdin = <<W.pending>>
OwnTurn ==
  \A w \in Workers : /\ Attend(worker[w], cli[w])
                     /\ muddled \/ Apart(worker[w], cli[w])
                     /\ Early \/ ~Live(w) \/ Orderly(worker[w], cli[w])
Replies == \A t \in Turns : reply[t] # None => at[t] = "answered"

Shows == CliTyped /\ OwnTurn /\ Replies /\ AnswerIsItsOwn /\ TaskInv

\* The review that runs keeps its slot.
HoldsSlot(W, V) ==
  /\ W.active = TRUE => V.active = TRUE
  /\ V.active = TRUE /\ W.notice # None => V.notice # None /\ V.notice.task = W.notice.task

\* What Tell tells.
LEMMA TellTyped ==
  ASSUME CliTyped, NEW G, NEW P, Tell(G, P)
  PROVE  /\ told' \in [Tasks -> Seq(Events)]
         /\ \A k \in Tasks : IF k \in G THEN \E e \in {"unreviewed", "collected"} : told'[k] = Append(told[k], e)
                             ELSE told'[k] = told[k] \/ told'[k] = Append(told[k], "pruned")
<1>1. \A k \in Tasks : told[k] \in Seq(Events)
  BY DEF CliTyped
<1>2. \A k \in Tasks : Append(told[k], "unreviewed") \in Seq(Events) /\ Append(told[k], "pruned") \in Seq(Events)
  BY <1>1 DEF Events
<1>3. ASSUME NEW k \in Tasks
      PROVE  /\ told'[k] = (IF k \in G THEN Append(told[k], "unreviewed")
                            ELSE IF k \in P THEN Append(told[k], "pruned") ELSE told[k])
             /\ told'[k] \in Seq(Events)
  <2>1. told'[k] = (IF k \in G THEN Append(told[k], "unreviewed")
                    ELSE IF k \in P THEN Append(told[k], "pruned") ELSE told[k])
    BY DEF Tell
  <2> QED BY <1>1, <1>2, <2>1
<1>4. told' = [k \in Tasks |-> told'[k]]
  BY DEF Tell
<1> QED BY <1>3, <1>4

\* What Event tells.
LEMMA EventTyped ==
  ASSUME CliTyped, NEW k \in Tasks, NEW e \in Events, Event(k, e)
  PROVE  /\ told' \in [Tasks -> Seq(Events)]
         /\ told'[k] = Append(told[k], e) /\ \A j \in Tasks : j # k => told'[j] = told[j]
<1>1. told \in [Tasks -> Seq(Events)]
  BY DEF CliTyped
<1>2. Append(told[k], e) \in Seq(Events)
  BY <1>1
<1> QED BY <1>1, <1>2 DEF Event

\* No answer is given.
LEMMA NoAnswer ==
  ASSUME Replies, AnswerIsItsOwn, reply' = reply,
         \A t \in Turns : at[t] = "answered" => at'[t] = "answered"
  PROVE  Replies' /\ AnswerIsItsOwn' /\ (Early' <=> Early)
  BY DEF Replies, AnswerIsItsOwn, Early

\* A step on one worker.
LEMMA OwnTurnStep ==
  ASSUME OwnTurn, Early => Early', muddled => muddled', NEW w \in Workers,
         \A v \in Workers : v # w => worker'[v] = worker[v] /\ cli'[v] = cli[v],
         Attend(worker'[w], cli'[w]), muddled' \/ Apart(worker'[w], cli'[w]),
         Early' \/ worker'[w].child # "live" \/ Orderly(worker'[w], cli'[w])
  PROVE  OwnTurn'
  BY DEF OwnTurn, Live

\* A step of the adapter alone, which gives no answer.
LEMMA AdapterStep ==
  ASSUME ClaudeInv, Shows, NEW w \in Workers, NEW G, Calm(worker[w], worker'[w], G),
         \A v \in Workers : v # w => worker'[v] = worker[v],
         UNCHANGED <<cli, life, reply>>,
         \/ worker'[w].child = worker[w].child
         \/ worker[w].child = "live" /\ worker'[w].child = "killed",
         worker'[w].child = "live" => /\ worker'[w].tool = worker[w].tool
                                      /\ worker'[w].pending = worker[w].pending,
         muddled' \/ HoldsSlot(worker[w], worker'[w]),
         told' \in [Tasks -> Seq(Events)],
         \A k \in Tasks : IF k \in G THEN \E e \in {"unreviewed", "collected"} : told'[k] = Append(told[k], e)
                          ELSE told'[k] = told[k] \/ told'[k] = Append(told[k], "pruned"),
         muddled => muddled', muddled' \in BOOLEAN,
         \A t \in Turns : at[t] = "answered" => at'[t] = "answered"
  PROVE  Shows'
<1>1. CliTyped /\ OwnTurn /\ Replies /\ AnswerIsItsOwn /\ TaskInv
  BY DEF Shows
<1>2. CliTyped'
  BY <1>1 DEF CliTyped
<1>3. Replies' /\ AnswerIsItsOwn' /\ (Early' <=> Early)
  BY <1>1, NoAnswer
<1>4. OwnTurn'
  <2>1. Attend(worker'[w], cli[w])
    BY <1>1 DEF OwnTurn, Attend, Calm
  <2>2. Early \/ worker'[w].child # "live" \/ Orderly(worker'[w], cli[w])
    BY <1>1 DEF OwnTurn, Live, Orderly, Calm
  <2>3. muddled' \/ Apart(worker'[w], cli[w])
    BY <1>1 DEF OwnTurn, Apart, Calm
  <2> QED BY <1>1, <1>3, <2>1, <2>2, <2>3, OwnTurnStep
<1>5. TaskInv'
  <2>1. \A k \in Tasks : LifeStep(w, k)
    BY DEF LifeStep
  <2>2. cli'[w].mode = "review" => Open(w, cli'[w].who)
    BY DEF Open
  <2>3. ~muddled' => \A k \in Tasks : Reviewing(w, k)'
    <3> SUFFICES ASSUME ~muddled' PROVE \A k \in Tasks : Reviewing(w, k)'
      OBVIOUS
    <3>1. \A k \in Tasks : Reviewing(w, k)
      BY <1>1 DEF TaskInv, TaskOf
    <3> QED BY <3>1, SlotStep DEF HoldsSlot
  <2>4. \A v \in Workers : v # w => (worker'[v] = worker[v] /\ cli'[v] = cli[v]) \/ Fresh(v)
    OBVIOUS
  <2> QED BY <1>1, <2>1, <2>2, <2>3, <2>4, CalmStep
<1> QED BY <1>2, <1>3, <1>4, <1>5 DEF Shows

\* The same, when nothing is told of any task.
LEMMA AdapterStill ==
  ASSUME ClaudeInv, Shows, NEW w \in Workers, Calm(worker[w], worker'[w], {}),
         \A v \in Workers : v # w => worker'[v] = worker[v],
         UNCHANGED <<cli, life, told, reply, muddled>>,
         \/ worker'[w].child = worker[w].child
         \/ worker[w].child = "live" /\ worker'[w].child = "killed",
         worker'[w].child = "live" => /\ worker'[w].tool = worker[w].tool
                                      /\ worker'[w].pending = worker[w].pending,
         HoldsSlot(worker[w], worker'[w]),
         \A t \in Turns : at[t] = "answered" => at'[t] = "answered"
  PROVE  Shows'
<1> DEFINE G == {}
<1>1. Calm(worker[w], worker'[w], G) /\ \A k \in Tasks : k \notin G
  OBVIOUS
<1> HIDE DEF G
<1>2. \A k \in Tasks : IF k \in G THEN \E e \in {"unreviewed", "collected"} : told'[k] = Append(told[k], e)
                        ELSE told'[k] = told[k] \/ told'[k] = Append(told[k], "pruned")
  BY <1>1
<1>3. told' \in [Tasks -> Seq(Events)] /\ muddled' \in BOOLEAN
  BY DEF Shows, CliTyped
<1> QED BY <1>1, <1>2, <1>3, AdapterStep

-----------------------------------------------------------------------------
(* Timers, and the end of a process *)

\* The timer of a request advances the queue.
LEMMA TimerShows ==
  ASSUME ClaudeInv, Shows, NEW t \in Turns, GraceTimer(t)
  PROVE  Shows'
<1>1. PICK w \in Workers : w = on /\ worker[w] \in ClaudeWorker
  BY DEF GraceTimer, ClaudeInv, OneRequest, Awaiting, Typed
<1> DEFINE W == worker[w]
           V == Advance(W)
           G == GivenUp(W)
<1>2. /\ Keep(V, w) /\ Wake(w, V, FALSE, "timer") /\ Tell(G, {})
      /\ UNCHANGED <<cli, life, reply, muddled>>
  BY <1>1 DEF GraceTimer
<1>3. Tame(W) /\ CliTyped
  BY DEF Shows, OwnTurn, Attend
<1>4. /\ Calm(W, V, G) /\ Steady(W, V) /\ (W.active = TRUE => V = W)
      /\ V.pending = W.pending /\ V.child = W.child
  BY <1>1, <1>3, AdvanceCalm, Advances DEF Grows, Same
<1> HIDE DEF V, G
<1>5. worker'[w] = V /\ \A v \in Workers : v # w => worker'[v] = worker[v]
  BY <1>2 DEF Keep, ClaudeInv, Typed
<1>6. HoldsSlot(W, V) /\ V.tool = W.tool
  BY <1>4 DEF HoldsSlot, Steady
<1>7. /\ told' \in [Tasks -> Seq(Events)]
      /\ \A k \in Tasks : IF k \in G THEN \E e \in {"unreviewed", "collected"} : told'[k] = Append(told[k], e)
                          ELSE told'[k] = told[k] \/ told'[k] = Append(told[k], "pruned")
  BY <1>2, <1>3, TellTyped
<1>8. \A s \in Turns : at[s] = "answered" => at'[s] = "answered"
  BY <1>2 DEF Wake, Waiting
<1>9. muddled' \in BOOLEAN
  BY <1>2, <1>3 DEF CliTyped
<1> QED BY <1>2, <1>4, <1>5, <1>6, <1>7, <1>8, <1>9, AdapterStep

\* A worker is reaped, or silent tasks dropped.
LEMMA ReapShows ==
  ASSUME ClaudeInv, Shows, NEW w \in Workers, Reap(w)
  PROVE  Shows'
<1> DEFINE W == worker[w]
           A == Advance(W)
           P == PruneTasks(A)
           G == GivenUp(W)
           D == PruneTold(A)
<1>1. W \in ClaudeWorker /\ CliTyped /\ Tame(W)
  BY DEF ClaudeInv, Typed, Shows, OwnTurn, Attend
<1>2. /\ A \in ClaudeWorker /\ A.child = W.child /\ A.pending = W.pending
      /\ Calm(W, A, G) /\ Steady(W, A) /\ (W.active = TRUE => A = W)
  BY <1>1, Advances, AdvanceCalm DEF Grows, Same
<1>3. /\ \A t \in Turns : at[t] \notin {"line", "timer"}
      /\ Tell(G, D)
      /\ (SlotPruned(A) /\ Wake(w, P, grace, "timer")) \/ (~SlotPruned(A) /\ at' = at)
      /\ Keep(P, w) \/ Keep(Killed(P), w)
      /\ muddled' = (muddled \/ (A.active /\ SlotPruned(A)))
      /\ UNCHANGED <<cli, life, reply>>
  BY DEF Reap, Woken
<1> HIDE DEF A, G, D
<1>4. /\ P \in ClaudeWorker /\ P.child = A.child /\ P.pending = A.pending
      /\ Calm(A, P, {}) /\ Steady(A, P)
      /\ (SlotPruned(A) => P.active # TRUE) /\ (~SlotPruned(A) => P.active = A.active)
  <2>1. Tame(A)
    BY <1>1, <1>2 DEF Calm
  <2> QED BY <1>2, <2>1, Prunes, PruneCalm DEF Same
<1> HIDE DEF P
<1>5. Calm(W, P, G) /\ P.tool = W.tool
  BY <1>2, <1>4 DEF Calm, Steady
<1>6. muddled' \in BOOLEAN /\ (muddled => muddled')
  BY <1>1, <1>3 DEF CliTyped
<1>7. muddled' \/ HoldsSlot(W, P)
  <2>1. CASE A.active = TRUE /\ SlotPruned(A)
    BY <1>3, <2>1
  <2>2. CASE A.active # TRUE /\ SlotPruned(A)
    BY <1>1, <1>2, <1>4, <2>2 DEF HoldsSlot
  <2>3. CASE ~SlotPruned(A)
    BY <1>2, <1>4, <2>3 DEF HoldsSlot, Steady
  <2> QED BY <2>1, <2>2, <2>3
<1>8. /\ told' \in [Tasks -> Seq(Events)]
      /\ \A k \in Tasks : IF k \in G THEN \E e \in {"unreviewed", "collected"} : told'[k] = Append(told[k], e)
                          ELSE told'[k] = told[k] \/ told'[k] = Append(told[k], "pruned")
  BY <1>1, <1>3, TellTyped
<1>9. \A s \in Turns : at[s] = "answered" => at'[s] = "answered"
  BY <1>3 DEF Wake, Waiting
<1>10. PICK V \in {P, Killed(P)} : Keep(V, w)
  BY <1>3
<1>11. /\ Calm(W, V, G) /\ (V.child = "live" => V.tool = W.tool /\ V.pending = W.pending)
       /\ V.child = W.child \/ (W.child = "live" /\ V.child = "killed")
       /\ muddled' \/ HoldsSlot(W, V)
  <2>1. CASE V = P
    BY <1>2, <1>4, <1>5, <1>7, <2>1
  <2>2. CASE V = Killed(P)
    <3>1. /\ Calm(P, V, {}) /\ V.notice = P.notice /\ V.active = P.active
          /\ V.child = IF P.child = "live" THEN "killed" ELSE P.child
      BY <1>4, <2>2, TurnGoneCalm
    <3>2. Calm(W, V, G)
      BY <1>5, <3>1 DEF Calm
    <3>3. muddled' \/ HoldsSlot(W, V)
      BY <1>7, <3>1 DEF HoldsSlot
    <3> QED BY <1>2, <1>4, <3>1, <3>2, <3>3
  <2> QED BY <1>10, <2>1, <2>2
<1>12. worker'[w] = V /\ \A v \in Workers : v # w => worker'[v] = worker[v]
  BY <1>10 DEF Keep, ClaudeInv, Typed
<1> QED BY <1>3, <1>6, <1>8, <1>9, <1>11, <1>12, AdapterStep

\* Time passes.
LEMMA AgeShows ==
  ASSUME ClaudeInv, Shows, NEW w \in Workers, GraceExpires(w) \/ HoursPass(w)
  PROVE  Shows'
<1> DEFINE W == worker[w]
<1>1. W \in ClaudeWorker /\ UNCHANGED <<at, cli, life, told, reply, muddled>> /\ CliTyped
  BY DEF GraceExpires, HoursPass, historyVars, ClaudeInv, Typed, Shows
<1>2. \E n, a : /\ Keep([W EXCEPT !.notice = n, !.aged = a], w)
                /\ W.notice # None => n # None /\ n.task = W.notice.task
  <2>1. CASE GraceExpires(w)
    <3> DEFINE n == [W.notice EXCEPT !.age = "late"]
    <3>1. n \in Notice /\ n.task = W.notice.task
      <4>1. W.notice \in Notice
        BY <1>1, <2>1 DEF GraceExpires, ClaudeWorker
      <4> QED BY <4>1 DEF Notice
    <3>2. Keep([W EXCEPT !.notice = n, !.aged = W.aged], w)
      BY <1>1, <2>1 DEF GraceExpires, ClaudeWorker, Keep
    <3>3. n # None
      BY <3>1, NoticeAssumption
    <3> HIDE DEF n
    <3> QED BY <3>1, <3>2, <3>3
  <2>2. CASE HoursPass(w)
    <3> DEFINE n == IF W.notice = None THEN None ELSE [W.notice EXCEPT !.age = "old"]
    <3>1. W.notice # None => n \in Notice /\ n.task = W.notice.task
      BY <1>1 DEF ClaudeWorker, Notice
    <3>2. Keep([W EXCEPT !.notice = n, !.aged = Tracked(W)], w)
      BY <1>1, <2>2 DEF HoursPass, ClaudeWorker, Keep
    <3> HIDE DEF n
    <3> QED BY <3>1, <3>2, NoticeAssumption
  <2> QED BY <2>1, <2>2
<1>3. PICK n, a : /\ Keep([W EXCEPT !.notice = n, !.aged = a], w)
                  /\ W.notice # None => n # None /\ n.task = W.notice.task
  BY <1>2
<1> DEFINE V == [W EXCEPT !.notice = n, !.aged = a]
<1>4. /\ V.active = W.active /\ V.collected = W.collected /\ V.tracked = W.tracked /\ V.notice = n
      /\ V.queue = W.queue /\ V.tool = W.tool /\ V.pending = W.pending /\ V.child = W.child
  BY <1>1 DEF ClaudeWorker
<1>5. worker'[w] = V /\ \A v \in Workers : v # w => worker'[v] = worker[v]
  BY <1>3 DEF Keep, ClaudeInv, Typed
<1> HIDE DEF V
<1>6. Calm(W, V, {}) /\ HoldsSlot(W, V)
  BY <1>3, <1>4 DEF Calm, Tame, HoldsSlot
<1> QED BY <1>1, <1>4, <1>5, <1>6, AdapterStill

\* A worker fails.
LEMMA GivesOutShows ==
  ASSUME ClaudeInv, Shows, NEW w \in Workers, Down(w)
  PROVE  Shows'
<1> DEFINE W == worker[w]
           V == Killed(W)
<1>1. W \in ClaudeWorker /\ UNCHANGED <<cli, life, told, reply, muddled>> /\ CliTyped
  BY DEF Down, historyVars, ClaudeInv, Typed, Shows
<1>2. worker'[w] = V /\ \A v \in Workers : v # w => worker'[v] = worker[v]
  BY DEF Down, Keep, ClaudeInv, Typed
<1>3. /\ Calm(W, V, {}) /\ V.notice = W.notice /\ V.active = W.active
      /\ V.child = IF W.child = "live" THEN "killed" ELSE W.child
  BY <1>1, TurnGoneCalm
<1> HIDE DEF V
<1>4. HoldsSlot(W, V) /\ V.child # "live" /\ (V.child = W.child \/ (W.child = "live" /\ V.child = "killed"))
  BY <1>3 DEF HoldsSlot
<1>6. \A s \in Turns : at[s] = "answered" => at'[s] = "answered"
  BY DEF Down, FailRequests
<1> QED BY <1>1, <1>2, <1>3, <1>4, <1>6, AdapterStill

\* A process ends: what it tracked is told.
LEMMA CloseShows ==
  ASSUME ClaudeInv, Shows, NEW w \in Workers, Close(w)
  PROVE  Shows'
<1> DEFINE W == worker[w]
           V == [Unborn EXCEPT !.child = "closed"]
           C == Idle("envelope")
<1>1. /\ W \in ClaudeWorker /\ CliTyped /\ TaskInv /\ Replies /\ AnswerIsItsOwn /\ OwnTurn
      /\ UNCHANGED <<life, reply, muddled>>
  BY DEF Close, ClaudeInv, Typed, Shows
<1>2. worker'[w] = V /\ \A v \in Workers : v # w => worker'[v] = worker[v]
  BY DEF Close, Keep, ClaudeInv, Typed
<1>3. /\ cli'[w] = C /\ (\A v \in Workers : v # w => cli'[v] = cli[v])
      /\ cli' = [cli EXCEPT ![w] = C]
  BY <1>1 DEF Close, CliTyped
<1>4. /\ V.child = "closed" /\ V.active = FALSE /\ V.collected = {} /\ V.queue = <<>>
      /\ \A k \in Tasks : V.tracked[k] = "no"
  BY DEF Unborn
<1>5. C \in CLI /\ C.mode = "idle" /\ C.tool = FALSE
  BY DEF Idle, CLI
<1> HIDE DEF V, C
<1>6. \A k \in Tasks : told'[k] = CASE W.tracked[k] = "running"  -> Append(told[k], "died")
                                    [] W.tracked[k] = "finished" -> Append(told[k], "unreviewed")
                                    [] OTHER -> told[k]
  BY DEF Close, FailTasks
<1>7. CliTyped'
  <2>1. told' \in [Tasks -> Seq(Events)]
    <3>1. told' = [k \in Tasks |-> told'[k]]
      BY DEF Close, FailTasks
    <3>2. \A k \in Tasks : told[k] \in Seq(Events)
      BY <1>1 DEF CliTyped
    <3>3. \A k \in Tasks : Append(told[k], "died") \in Seq(Events) /\ Append(told[k], "unreviewed") \in Seq(Events)
      BY <3>2 DEF Events
    <3>4. \A k \in Tasks : told'[k] \in {told[k], Append(told[k], "died"), Append(told[k], "unreviewed")}
      BY <1>6
    <3> QED BY <3>1, <3>2, <3>3, <3>4
  <2>2. cli' \in [Workers -> CLI]
    BY <1>1, <1>3, <1>5 DEF CliTyped
  <2>3. ASSUME NEW v \in Workers
        PROVE  /\ cli'[v].mode = "turn" => cli'[v].who \in Turns
               /\ cli'[v].mode = "review" => cli'[v].who \in Tasks
               /\ cli'[v].tool = TRUE => cli'[v].mode = "turn"
               /\ worker'[v].child = "unborn" => cli'[v].mode = "idle"
    <3>1. CASE v = w
      BY <1>3, <1>5, <3>1
    <3>2. CASE v # w
      BY <1>1, <1>2, <1>3, <3>2 DEF CliTyped
    <3> QED BY <3>1, <3>2
  <2> QED BY <1>1, <2>1, <2>2, <2>3 DEF CliTyped
<1>8. \A s \in Turns : at[s] = "answered" => at'[s] = "answered"
  BY DEF Close, FailRequests
<1>9. Replies' /\ AnswerIsItsOwn' /\ (Early' <=> Early)
  BY <1>1, <1>8, NoAnswer
<1>10. OwnTurn'
  <2>0. V.active # TRUE
    BY <1>4
  <2>1. Attend(V, C) /\ Apart(V, C)
    BY <1>4, <1>5, <2>0 DEF Attend, Apart, Tame
  <2> QED BY <1>1, <1>2, <1>3, <1>4, <1>9, <2>1, OwnTurnStep
<1>11. TaskInv'
  <2>1. CASE muddled
    BY <1>1, <2>1 DEF TaskInv
  <2>2. CASE ~muddled
    <3>1. \A k \in Tasks : ~Open(w, k)'
      BY <1>2, <1>3, <1>4, <1>5 DEF Open
    <3>2. ASSUME NEW k \in Tasks PROVE Untouched(w, k) \/ Over(w, k)
      <4>1. CASE Open(w, k)
        <5>1. W.tracked[k] \in {"no", "running", "finished"}
          BY <1>1 DEF ClaudeWorker
        <5>2. W.tracked[k] # "no" => Silent(k)
          BY <1>1, <2>2, <4>1 DEF TaskInv, TaskOf
        <5> QED BY <1>2, <1>4, <1>6, <3>1, <4>1, <5>1, <5>2 DEF Over
      <4>2. CASE ~Open(w, k)
        BY <1>2, <1>4, <1>6, <3>1, <4>2 DEF Open, Untouched
      <4> QED BY <4>1, <4>2
    <3>3. \A k \in Tasks : LifeStep(w, k) /\ Reviewing(w, k)'
      BY <1>1, <1>3, <1>5 DEF LifeStep, Reviewing
    <3>4. \A v \in Workers : v # w => (worker'[v] = worker[v] /\ cli'[v] = cli[v]) \/ Fresh(v)
      BY <1>2, <1>3
    <3>5. worker'[w].child # "unborn" /\ muddled' \in BOOLEAN
      BY <1>1, <1>2, <1>4 DEF CliTyped
    <3> QED BY <1>1, <3>2, <3>3, <3>4, <3>5, TaskStep
  <2> QED BY <2>1, <2>2
<1> QED BY <1>7, <1>9, <1>10, <1>11 DEF Shows

\* The pending request is answered, off by one only after one that came early.
LEMMA AnswerStep ==
  ASSUME ClaudeInv, Replies, AnswerIsItsOwn, NEW w \in Workers, worker[w].pending # None,
         NEW whose, reply \in [Turns -> Answers],
         at' = [at EXCEPT ![worker[w].pending] = "answered"],
         reply' = [reply EXCEPT ![worker[w].pending] = whose],
         whose \in {"cut"} \cup (Turns \ {worker[w].pending}) => Early
  PROVE  /\ Replies' /\ AnswerIsItsOwn' /\ (Early => Early')
         /\ whose = "early" => Early'
<1> DEFINE p == worker[w].pending
<1>1. p \in Turns /\ at[p] = "sent" /\ at \in [Turns -> Phases]
  BY PendingIs DEF ClaudeInv, Typed
<1> HIDE DEF p
<1>2. /\ at'[p] = "answered" /\ reply'[p] = whose
      /\ \A t \in Turns : t # p => at'[t] = at[t] /\ reply'[t] = reply[t]
  BY <1>1 DEF p
<1>3. Replies'
  BY <1>2 DEF Replies
<1>4. Early => Early'
  <2> SUFFICES ASSUME NEW s \in Turns, reply[s] = "early" PROVE Early'
    BY DEF Early
  <2>1. at[s] = "answered"
    BY ClaudeAssumption DEF Replies
  <2> QED BY <1>1, <1>2, <2>1 DEF Early
<1>5. AnswerIsItsOwn'
  <2> SUFFICES ASSUME NEW t \in Turns, reply'[t] \in {"cut"} \cup (Turns \ {t}) PROVE Early'
    BY DEF AnswerIsItsOwn, Early
  <2>1. CASE t = p
    BY <1>2, <1>4, <2>1 DEF p
  <2>2. CASE t # p
    BY <1>2, <1>4, <2>2 DEF AnswerIsItsOwn, Early
  <2> QED BY <2>1, <2>2
<1> QED BY <1>1, <1>2, <1>3, <1>4, <1>5 DEF Early

\* A turn is settled by a task, or goes on.
LEMMA SettleShows ==
  ASSUME ClaudeInv, Shows, NEW w \in Workers, SettleTimer(w)
  PROVE  Shows'
<1> DEFINE W == worker[w]
           p == W.pending
           N == NoTurn(W)
           V == [W EXCEPT !.settling = FALSE]
<1>1. /\ W \in ClaudeWorker /\ W.settling = TRUE /\ p # None /\ p \in Turns
      /\ UNCHANGED <<cli, life, told, muddled>>
      /\ CliTyped /\ OwnTurn /\ Replies /\ AnswerIsItsOwn /\ TaskInv
  <2>1. /\ W \in ClaudeWorker /\ W.settling = TRUE /\ UNCHANGED <<cli, life, told, muddled>>
    BY DEF SettleTimer, ClaudeInv, Typed, ClaudeWorker
  <2>2. p # None /\ p \in Turns
    BY <2>1, PendingIs DEF ClaudeInv, Pendings
  <2> QED BY <2>1, <2>2 DEF Shows
<1>2. /\ V.active = W.active /\ V.collected = W.collected /\ V.tracked = W.tracked /\ V.notice = W.notice
      /\ V.queue = W.queue /\ V.tool = W.tool /\ V.pending = W.pending /\ V.child = W.child
  BY <1>1 DEF ClaudeWorker
<1>3. /\ Calm(W, N, {}) /\ N.notice = W.notice /\ N.child = W.child /\ N.active = W.active
  BY <1>1, TurnGoneCalm DEF NoTurn, ClaudeWorker
<1>4. told' \in [Tasks -> Seq(Events)] /\ muddled' \in BOOLEAN
  BY <1>1 DEF CliTyped
<1>6. CASE Keep(V, w) /\ UNCHANGED <<at, reply>>
  <2> HIDE DEF V
  <2>1. worker'[w] = V /\ \A v \in Workers : v # w => worker'[v] = worker[v]
    BY <1>6 DEF Keep, ClaudeInv, Typed
  <2>2. Calm(W, V, {}) /\ HoldsSlot(W, V)
    BY <1>2 DEF Calm, Tame, HoldsSlot
  <2> QED BY <1>1, <1>2, <1>6, <2>1, <2>2, AdapterStill
<1>7. CASE W.tool # TRUE /\ Keep(N, w) /\ Answered(w, p, Instead(w))
  <2> HIDE DEF N
  <2>1. worker'[w] = N /\ \A v \in Workers : v # w => worker'[v] = worker[v]
    BY <1>7 DEF Keep, ClaudeInv, Typed
  <2> DEFINE whose == IF Live(w) THEN Instead(w) ELSE "killed"
  <2>2. reply' = [reply EXCEPT ![p] = whose] /\ at' = [at EXCEPT ![p] = "answered"]
    BY <1>7 DEF Answered
  <2>3. cli[w] \in CLI
    BY <1>1 DEF CliTyped
  <2>4. /\ whose \in {"cut", "early", "task", "killed"}
        /\ whose \in {"cut", "task"} /\ ~Early =>
             whose = "task" /\ cli[w].mode # "turn" /\ cli[w].stdin = <<>>
        /\ whose = "killed" => ~Live(w)
    <3>1. Early \/ ~Live(w) \/ Orderly(W, cli[w])
      BY <1>1 DEF OwnTurn
    <3>2. \A q : q = <<p>> => \E i \in DOMAIN q : q[i] = p
      <4>1. DOMAIN <<p>> = {1} /\ <<p>>[1] = p
        OBVIOUS
      <4> QED BY <4>1
    <3>3. cli[w].tool \in BOOLEAN
      BY <2>3 DEF CLI
    <3> HIDE DEF p
    <3>4. Instead(w) = IF cli[w].mode = "turn" THEN IF cli[w].tool = TRUE THEN "cut" ELSE "early"
                       ELSE IF \E i \in DOMAIN cli[w].stdin : cli[w].stdin[i] = p THEN "early" ELSE "task"
      BY <3>3 DEF Instead, p
    <3>5. Orderly(W, cli[w]) <=>
            /\ cli[w].mode = "turn" => /\ cli[w].who = p /\ cli[w].stdin = <<>>
                                       /\ cli[w].tool = TRUE => W.tool = TRUE
                                       /\ W.active # TRUE
            /\ cli[w].stdin # <<>> => cli[w].stdin = <<p>>
      BY DEF Orderly, p
    <3> QED BY <1>7, <3>1, <3>2, <3>4, <3>5
  <2> HIDE DEF whose
  <2>5. whose \notin Turns
    BY <2>4, ClaudeAssumption
  <2>6. reply \in [Turns -> Answers]
    BY <1>1 DEF CliTyped
  <2>7. Replies' /\ AnswerIsItsOwn' /\ (Early => Early') /\ (whose = "early" => Early')
    BY <1>1, <2>2, <2>4, <2>5, <2>6, AnswerStep
  <2>8. OwnTurn'
    <3>1. Attend(N, cli[w]) /\ (muddled' \/ Apart(N, cli[w]))
      BY <1>1, <1>3 DEF OwnTurn, Attend, Apart, Calm
    <3>2. Early' \/ N.child # "live" \/ Orderly(N, cli[w])
      BY <1>3, <2>4, <2>7 DEF Orderly, Live
    <3>3. \A v \in Workers : v # w => worker'[v] = worker[v] /\ cli'[v] = cli[v]
      BY <1>1, <2>1
    <3>4. /\ Attend(worker'[w], cli'[w]) /\ (muddled' \/ Apart(worker'[w], cli'[w]))
          /\ Early' \/ worker'[w].child # "live" \/ Orderly(worker'[w], cli'[w])
      BY <1>1, <2>1, <3>1, <3>2
    <3> QED BY <1>1, <2>7, <3>3, <3>4, OwnTurnStep
  <2>9. CliTyped'
    <3>1. reply' \in [Turns -> Answers]
      BY <2>2, <2>4, <2>6 DEF Answers
    <3>2. \A v \in Workers : worker'[v].child = worker[v].child
      BY <1>3, <2>1
    <3> QED BY <1>1, <3>1, <3>2 DEF CliTyped
  <2>10. TaskInv'
    <3>1. \A k \in Tasks : LifeStep(w, k)
      BY <1>1 DEF LifeStep
    <3>2. cli'[w].mode = "review" => Open(w, cli'[w].who)
      BY <1>1 DEF Open
    <3>3. ~muddled' => \A k \in Tasks : Reviewing(w, k)'
      <4> SUFFICES ASSUME ~muddled' PROVE \A k \in Tasks : Reviewing(w, k)'
        OBVIOUS
      <4>1. \A k \in Tasks : Reviewing(w, k)
        BY <1>1 DEF TaskInv, TaskOf
      <4> QED BY <1>1, <1>3, <2>1, <4>1, SlotStep
    <3>4. \A v \in Workers : v # w => (worker'[v] = worker[v] /\ cli'[v] = cli[v]) \/ Fresh(v)
      BY <1>1, <2>1
    <3> QED BY <1>1, <1>3, <1>4, <2>1, <3>1, <3>2, <3>3, <3>4, CalmStill
  <2> QED BY <2>7, <2>8, <2>9, <2>10 DEF Shows
<1> QED
  <2>1. \/ Keep(V, w) /\ UNCHANGED <<at, reply>>
        \/ ~W.tool /\ Keep(N, w) /\ Answered(w, p, Instead(w))
    BY DEF SettleTimer
  <2> HIDE DEF V, N, p
  <2>2. W.tool \in BOOLEAN
    BY <1>1 DEF ClaudeWorker
  <2> QED BY <1>6, <1>7, <2>1, <2>2

-----------------------------------------------------------------------------
(* Requests *)

\* What the adapter makes of worker w before it gives it a turn, or does not.
Ready(w, W, G) ==
  /\ W \in ClaudeWorker /\ W.child = worker[w].child /\ W.pending = worker[w].pending
  /\ W.tool = worker[w].tool /\ Calm(worker[w], W, G) /\ HoldsSlot(worker[w], W)
Tells(G) ==
  /\ told' \in [Tasks -> Seq(Events)]
  /\ \A k \in Tasks : IF k \in G THEN \E e \in {"unreviewed", "collected"} : told'[k] = Append(told[k], e)
                      ELSE told'[k] = told[k] \/ told'[k] = Append(told[k], "pruned")

\* The request waits, or is refused.
LEMMA StaysShows ==
  ASSUME ClaudeInv, Shows, NEW w \in Workers, NEW W, NEW G, Ready(w, W, G), Keep(W, w), Tells(G),
         UNCHANGED <<cli, life, reply, muddled>>,
         \A t \in Turns : at[t] = "answered" => at'[t] = "answered"
  PROVE  Shows'
<1>1. worker'[w] = W /\ \A v \in Workers : v # w => worker'[v] = worker[v]
  BY DEF Keep, ClaudeInv, Typed
<1>2. muddled' \in BOOLEAN
  BY DEF Shows, CliTyped
<1> QED BY <1>1, <1>2, AdapterStep DEF Ready, Tells

\* It is written to the process of the session, which has no turn and no prompt left.
LEMMA WriteShows ==
  ASSUME ClaudeInv, Shows, NEW t \in Turns, Only(t), NEW w \in Workers, NEW W, NEW G, Ready(w, W, G),
         Write(t, w, W), Tells(G), UNCHANGED <<life, reply, muddled>>
  PROVE  Shows'
<1> DEFINE V == [W EXCEPT !.pending = t, !.tool = FALSE, !.settling = FALSE]
           C == [cli[w] EXCEPT !.stdin = Append(@, t)]
<1>1. CliTyped /\ OwnTurn /\ Replies /\ AnswerIsItsOwn /\ TaskInv
  BY DEF Shows
<1>2. cli[w] \in CLI /\ cli[w].stdin \in Seq(Turns)
  BY <1>1 DEF CliTyped, CLI
<1>3. /\ C \in CLI /\ C.mode = cli[w].mode /\ C.who = cli[w].who /\ C.style = cli[w].style
      /\ C.stdin = Append(cli[w].stdin, t) /\ C.tool = cli[w].tool
  <2> DEFINE q == Append(cli[w].stdin, t)
  <2>1. q \in Seq(Turns)
    BY <1>2
  <2>2. C = [cli[w] EXCEPT !.stdin = q]
    BY <1>2 DEF CLI
  <2> HIDE DEF q, C
  <2>3. /\ C \in CLI /\ C.mode = cli[w].mode /\ C.who = cli[w].who /\ C.style = cli[w].style
        /\ C.stdin = q /\ C.tool = cli[w].tool
    BY <1>2, <2>1, <2>2 DEF CLI
  <2> QED BY <2>3 DEF q
<1>4. /\ V.active = W.active /\ V.collected = W.collected /\ V.tracked = W.tracked /\ V.notice = W.notice
      /\ V.queue = W.queue /\ V.pending = t /\ V.child = W.child
  BY DEF Ready, ClaudeWorker
<1>5. worker'[w] = V /\ \A v \in Workers : v # w => worker'[v] = worker[v]
  BY DEF Write, Keep, ClaudeInv, Typed
<1> HIDE DEF V
<1>6. cli' = [cli EXCEPT ![w] = C]
  BY <1>1 DEF Write, CliTyped
<1> HIDE DEF C
<1>7. cli'[w] = C /\ cli' \in [Workers -> CLI] /\ \A v \in Workers : v # w => cli'[v] = cli[v]
  BY <1>1, <1>3, <1>6 DEF CliTyped
<1>8. CliTyped'
  <2>1. \A v \in Workers : worker'[v].child = worker[v].child
    BY <1>4, <1>5 DEF Ready
  <2>2. \A v \in Workers : /\ cli'[v].mode = cli[v].mode /\ cli'[v].who = cli[v].who
                           /\ cli'[v].tool = cli[v].tool
    BY <1>3, <1>7
  <2>3. UNCHANGED <<life, reply, muddled>> /\ told' \in [Tasks -> Seq(Events)]
    BY DEF Tells
  <2> QED BY <1>1, <1>7, <2>1, <2>2, <2>3 DEF CliTyped
<1>9. \A s \in Turns : at[s] = "answered" => at'[s] = "answered"
  BY DEF Write, Only
<1>10. Replies' /\ AnswerIsItsOwn' /\ (Early' <=> Early)
  BY <1>1, <1>9, NoAnswer
<1>11. OwnTurn'
  <2>1. Attend(V, C) /\ (muddled' \/ Apart(V, C))
    BY <1>1, <1>3, <1>4 DEF OwnTurn, Attend, Apart, Calm, Ready, Tame
  <2>2. Early \/ worker[w].child # "live" \/ Orderly(V, C)
    <3>1. CASE Orderly(worker[w], cli[w])
      <4>1. worker[w].pending = None /\ None \notin Turns
        BY OnlyOne, ClaudeAssumption
      <4>2. cli[w].mode # "turn"
        BY <1>1, <3>1, <4>1 DEF Orderly, CliTyped
      <4>3. cli[w].stdin = <<>>
        <5>1. \A q \in Seq(Turns) : q # <<None>>
          <6>1. \A q \in Seq(Turns) : \A i \in DOMAIN q : q[i] \in Turns
            OBVIOUS
          <6>2. 1 \in DOMAIN <<None>> /\ <<None>>[1] = None
            OBVIOUS
          <6> QED BY <4>1, <6>1, <6>2
        <5> QED BY <1>2, <3>1, <4>1, <5>1 DEF Orderly
      <4>4. Append(<<>>, t) = <<t>>
        OBVIOUS
      <4> QED BY <1>3, <1>4, <4>2, <4>3, <4>4 DEF Orderly
    <3> QED BY <1>1, <3>1 DEF OwnTurn, Live
  <2>3. Early' \/ worker'[w].child # "live" \/ Orderly(worker'[w], cli'[w])
    BY <1>4, <1>5, <1>7, <1>10, <2>2 DEF Ready
  <2> QED BY <1>1, <1>5, <1>7, <1>10, <2>1, <2>3, OwnTurnStep
<1>12. TaskInv'
  <2>1. \A k \in Tasks : LifeStep(w, k)
    BY DEF LifeStep
  <2>2. cli'[w].mode = "review" => Open(w, cli'[w].who)
    BY <1>3, <1>7 DEF Open
  <2>3. ~muddled' => \A k \in Tasks : Reviewing(w, k)'
    <3> SUFFICES ASSUME ~muddled' PROVE \A k \in Tasks : Reviewing(w, k)'
      OBVIOUS
    <3>1. \A k \in Tasks : Reviewing(w, k)
      BY <1>1 DEF TaskInv, TaskOf
    <3>2. HoldsSlot(worker[w], worker'[w])
      BY <1>4, <1>5 DEF Ready, HoldsSlot
    <3> QED BY <1>3, <1>7, <3>1, <3>2, SlotStep DEF HoldsSlot
  <2>4. \A v \in Workers : v # w => (worker'[v] = worker[v] /\ cli'[v] = cli[v]) \/ Fresh(v)
    BY <1>5, <1>7
  <2>5. Calm(worker[w], worker'[w], G) /\ worker'[w].child = worker[w].child
    BY <1>4, <1>5 DEF Ready, Calm, Tame
  <2>6. muddled' \in BOOLEAN
    BY <1>1 DEF CliTyped
  <2> QED BY <1>1, <2>1, <2>2, <2>3, <2>4, <2>5, <2>6, CalmStep DEF Tells
<1> QED BY <1>8, <1>10, <1>11, <1>12 DEF Shows

\* It is written to a new one, and the worker so far, if any, was killed.
LEMMA RespawnShows ==
  ASSUME ClaudeInv, Shows, NEW t \in Turns, Only(t), NEW w \in Workers, NEW X, NEW G,
         Calm(worker[w], X, G), HoldsSlot(worker[w], X), X.child # "live",
         X.child = worker[w].child \/ (worker[w].child = "live" /\ X.child = "killed"),
         NEW workers, workers[w] = X, \A v \in Workers : v # w => workers[v] = worker[v],
         Respawn(t, workers), Tells(G), UNCHANGED <<life, reply, muddled>>
  PROVE  Shows'
<1> DEFINE V == [Unborn EXCEPT !.child = "live", !.pending = t]
<1>1. CliTyped /\ OwnTurn /\ Replies /\ AnswerIsItsOwn /\ TaskInv
  BY DEF Shows
<1>2. NextWorker \in Workers /\ worker[NextWorker].child = "unborn"
  <2>1. NextWorker \in Unspawned
    BY DEF Respawn, NextWorker
  <2> QED BY <2>1 DEF Unspawned
<1>3. PICK n \in Workers : n = NextWorker
  BY <1>2
<1>4. PICK style \in Styles :
        /\ worker' = [v \in Workers |-> IF v = n THEN V ELSE workers[v]]
        /\ cli' = [cli EXCEPT ![n] = [Idle(style) EXCEPT !.stdin = <<t>>]]
        /\ at' = [at EXCEPT ![t] = "sent"]
  BY <1>3 DEF Respawn
<1>5. /\ V.child = "live" /\ V.active = FALSE /\ V.collected = {} /\ V.queue = <<>> /\ V.pending = t
      /\ \A k \in Tasks : V.tracked[k] = "no"
  BY DEF Unborn
<1> DEFINE C == [Idle(style) EXCEPT !.stdin = <<t>>]
<1>6. C \in CLI /\ C.mode = "idle" /\ C.stdin = <<t>> /\ C.tool = FALSE
  <2> DEFINE q == <<t>>
  <2>1. q \in Seq(Turns) /\ style \in {"envelope", "init"}
    BY ClaudeAssumption
  <2>2. C = [Idle(style) EXCEPT !.stdin = q]
    OBVIOUS
  <2> HIDE DEF q, C
  <2>3. C \in CLI /\ C.mode = "idle" /\ C.stdin = q /\ C.tool = FALSE
    BY <2>1, <2>2 DEF Idle, CLI
  <2> QED BY <2>3 DEF q
<1> HIDE DEF V, C
<1>7. /\ worker'[n] = V /\ worker[n].child = "unborn"
      /\ \A v \in Workers : v # n => worker'[v] = workers[v]
      /\ cli'[n] = C /\ \A v \in Workers : v # n => cli'[v] = cli[v]
      /\ cli' \in [Workers -> CLI]
  BY <1>1, <1>2, <1>3, <1>4, <1>6 DEF CliTyped, C
<1>8. CliTyped'
  <2>1. ASSUME NEW v \in Workers
        PROVE  /\ cli'[v].mode = "turn" => cli'[v].who \in Turns
               /\ cli'[v].mode = "review" => cli'[v].who \in Tasks
               /\ cli'[v].tool = TRUE => cli'[v].mode = "turn"
               /\ worker'[v].child = "unborn" => cli'[v].mode = "idle"
    <3>1. CASE v = n
      BY <1>6, <1>7, <3>1
    <3>2. CASE v # n
      <4>1. worker'[v].child = "unborn" => worker[v].child = "unborn"
        BY <1>7, <3>2
      <4> QED BY <1>1, <1>7, <3>2, <4>1 DEF CliTyped
    <3> QED BY <3>1, <3>2
  <2> QED BY <1>1, <1>7, <2>1 DEF CliTyped, Tells
<1>9. \A s \in Turns : at[s] = "answered" => at'[s] = "answered"
  BY <1>4 DEF Only
<1>10. Replies' /\ AnswerIsItsOwn' /\ (Early' <=> Early)
  BY <1>1, <1>9, NoAnswer
<1>11. OwnTurn'
  <2>1. Attend(V, C) /\ Apart(V, C) /\ Orderly(V, C)
    BY <1>5, <1>6 DEF Attend, Apart, Orderly, Tame
  <2>2. Attend(X, cli[w]) /\ (muddled' \/ Apart(X, cli[w]))
    BY <1>1 DEF OwnTurn, Attend, Apart, Calm
  <2>3. ASSUME NEW v \in Workers
        PROVE  /\ Attend(worker'[v], cli'[v]) /\ (muddled' \/ Apart(worker'[v], cli'[v]))
               /\ Early' \/ ~Live(v)' \/ Orderly(worker'[v], cli'[v])
    <3>1. CASE v = n
      BY <1>7, <2>1, <3>1
    <3>2. CASE v # n /\ v = w
      BY <1>7, <2>2, <3>2 DEF Live
    <3>3. CASE v # n /\ v # w
      BY <1>1, <1>7, <1>10, <3>3 DEF OwnTurn, Live
    <3> QED BY <3>1, <3>2, <3>3
  <2> QED BY <2>3 DEF OwnTurn
<1>12. TaskInv'
  <2>6. muddled' \in BOOLEAN
    BY <1>1 DEF CliTyped
  <2>7. \A k \in Tasks : LifeStep(w, k)
    BY DEF LifeStep
  <2>8. Fresh(n)
    BY <1>5, <1>6, <1>7 DEF Fresh
  <2>1. CASE n = w
    <3>1. CASE muddled
      BY <3>1 DEF TaskInv
    <3>2. CASE ~muddled
      <4>1. \A k \in Tasks : ~Open(w, k)' /\ Reviewing(w, k)'
        BY <1>1, <2>1, <2>8, <3>2 DEF Open, Fresh, Reviewing, TaskInv, TaskOf, At
      <4>2. \A k \in Tasks : Untouched(w, k) \/ KeptAside(w, k) \/ Over(w, k)
        <5> SUFFICES ASSUME NEW k \in Tasks PROVE Untouched(w, k) \/ Over(w, k)
          OBVIOUS
        <5>1. worker'[w].tracked[k] = "no" /\ worker'[w].collected = {} /\ ~Open(w, k)'
          BY <2>1, <2>8, <4>1 DEF Fresh
        <5>2. CASE k \in G
          <6>1. worker[w].tracked[k] # "no"
            BY <5>2 DEF Calm
          <6>2. \E e \in {"unreviewed", "collected"} : told'[k] = Append(told[k], e)
            BY <5>2 DEF Tells
          <6>3. Open(w, k)
            BY <6>1 DEF Open
          <6> QED BY <5>1, <6>2, <6>3 DEF Over
        <5>3. CASE k \notin G
          BY <5>1, <5>3 DEF Untouched, Tells
        <5> QED BY <5>2, <5>3
      <4>3. \A v \in Workers : v # w => (worker'[v] = worker[v] /\ cli'[v] = cli[v]) \/ Fresh(v)
        BY <1>7, <2>1
      <4> QED BY <1>1, <1>7, <2>1, <2>6, <2>7, <4>1, <4>2, <4>3, TaskStep
    <3> QED BY <1>1, <3>1, <3>2 DEF CliTyped
  <2>2. CASE n # w
    <3>1. worker'[w] = X /\ cli'[w] = cli[w]
      BY <1>7, <2>2
    <3>2. \A v \in Workers : v # w => (worker'[v] = worker[v] /\ cli'[v] = cli[v]) \/ Fresh(v)
      BY <1>7, <2>8
    <3>3. cli'[w].mode = "review" => Open(w, cli'[w].who)
      BY <3>1 DEF Open
    <3>4. ~muddled' => \A k \in Tasks : Reviewing(w, k)'
      <4> SUFFICES ASSUME ~muddled' PROVE \A k \in Tasks : Reviewing(w, k)'
        OBVIOUS
      <4>1. \A k \in Tasks : Reviewing(w, k)
        BY <1>1 DEF TaskInv, TaskOf
      <4> QED BY <3>1, <4>1, SlotStep DEF HoldsSlot
    <3>5. \A k \in Tasks : IF k \in G THEN \E e \in {"unreviewed", "collected"} : told'[k] = Append(told[k], e)
                            ELSE told'[k] = told[k] \/ told'[k] = Append(told[k], "pruned")
      BY DEF Tells
    <3>6. /\ worker'[w].child = "unborn" => worker[w].child = "unborn"
          /\ worker[w].child = "closed" => worker'[w].child = "closed"
          /\ Calm(worker[w], worker'[w], G)
          /\ muddled => muddled'
      BY <3>1
    <3> QED BY <1>1, <2>6, <2>7, <3>2, <3>3, <3>4, <3>5, <3>6, CalmStep
  <2> QED BY <2>1, <2>2
<1> QED BY <1>8, <1>10, <1>11, <1>12 DEF Shows

\* It meets the worker of the session, or none.
LEMMA GoShows ==
  ASSUME ClaudeInv, Shows, NEW t \in Turns, Only(t), Go(t)
  PROVE  Shows'
<1>1. /\ current \in Workers \cup {None} /\ CliTyped /\ UNCHANGED <<life, reply, muddled>>
      /\ \A s \in Turns : at[s] = "answered" => s # t
  BY DEF ClaudeInv, Typed, Shows, Go, Only
<1>2. CASE current = None
  <2>1. Respawn(t, worker) /\ told' = told
    BY <1>2 DEF Go
  <2>2. PICK n \in Workers : worker[n].child = "unborn" /\ worker[n] \in ClaudeWorker
    BY <2>1 DEF Respawn, Unspawned, ClaudeInv, Typed
  <2> DEFINE X == worker[n]
             G == {}
  <2>3. Calm(worker[n], X, G) /\ HoldsSlot(worker[n], X) /\ X.child # "live"
    BY <2>2, CalmSelf DEF HoldsSlot
  <2>4. Tells(G)
    BY <1>1, <2>1 DEF Tells, CliTyped
  <2> HIDE DEF G
  <2>5. X.child = worker[n].child
    OBVIOUS
  <2>6. worker[n] = X /\ \A v \in Workers : v # n => worker[v] = worker[v]
    OBVIOUS
  <2> HIDE DEF X
  <2> QED BY <1>1, <2>1, <2>3, <2>4, <2>5, <2>6, RespawnShows
<1>3. CASE current # None
  <2>1. PICK w \in Workers : w = current
    BY <1>1, <1>3
  <2> DEFINE W == Advance(worker[w])
             P == PruneTasks(W)
             G == GivenUp(worker[w])
             D == PruneTold(W)
  <2>2. Dispatch(t, w, W)
    BY <1>3, <2>1 DEF Go
  <2>3. worker[w] \in ClaudeWorker /\ Tame(worker[w])
    BY DEF ClaudeInv, Typed, Shows, OwnTurn, Attend
  <2>4. Ready(w, W, G)
    <3>1. /\ W \in ClaudeWorker /\ W.child = worker[w].child /\ W.pending = worker[w].pending
          /\ Calm(worker[w], W, G) /\ Steady(worker[w], W) /\ (worker[w].active = TRUE => W = worker[w])
      BY <2>3, Advances, AdvanceCalm DEF Grows, Same
    <3> HIDE DEF W, G
    <3> QED BY <3>1 DEF Ready, Steady, HoldsSlot
  <2>5. \/ Wait(t, w, W) /\ Tell(G, {})
        \/ Write(t, w, W) /\ Tell(G, {})
        \/ /\ ~Busy(W)
           /\ \E change \in {"option", "security"} : Reconfigure(t, w, P, change)
           /\ Tell(G, D)
    BY <2>2 DEF Dispatch
  <2>6. Tells(G)
    <3> HIDE DEF G, D
    <3>1. CASE Tell(G, D)
      BY <1>1, <3>1, TellTyped DEF Tells
    <3>2. CASE Tell(G, {})
      BY <1>1, <3>2, TellTyped DEF Tells
    <3> QED BY <2>5, <3>1, <3>2
  <2> HIDE DEF W, G, D
  <2>7. CASE Wait(t, w, W)
    <3>1. Keep(W, w) /\ cli' = cli /\ \A s \in Turns : at[s] = "answered" => at'[s] = "answered"
      BY <1>1, <2>7 DEF Wait
    <3> QED BY <1>1, <2>4, <2>6, <3>1, StaysShows
  <2>8. CASE Write(t, w, W)
    BY <1>1, <2>4, <2>6, <2>8, WriteShows
  <2>9. CASE ~Busy(W) /\ \E change \in {"option", "security"} : Reconfigure(t, w, P, change)
    <3>1. W \in ClaudeWorker /\ Tame(W)
      BY <2>3, <2>4 DEF Ready, Calm
    <3>2. /\ P \in ClaudeWorker /\ P.child = W.child /\ P.pending = W.pending
          /\ Calm(W, P, {}) /\ Steady(W, P)
      BY <3>1, Prunes, PruneCalm DEF Same
    <3>3. W.active # TRUE
      BY <2>9 DEF Busy
    <3> HIDE DEF P
    <3>4. Calm(worker[w], P, G) /\ HoldsSlot(worker[w], P) /\ P.active # TRUE
      <4>1. worker[w].active # TRUE /\ P.active # TRUE
        BY <2>4, <3>2, <3>3 DEF Ready, HoldsSlot, Calm
      <4> QED BY <2>4, <3>2, <4>1 DEF Ready, Calm, HoldsSlot
    <3>5. Ready(w, P, G)
      BY <2>4, <3>2, <3>4 DEF Ready, Steady
    <3>6. CASE Respawn(t, [worker EXCEPT ![w] = Killed(P)])
      <4> DEFINE X == Killed(P)
                 workers == [worker EXCEPT ![w] = X]
      <4>1. /\ Calm(P, X, {}) /\ X.active = P.active
            /\ X.child = IF P.child = "live" THEN "killed" ELSE P.child
        BY <3>2, TurnGoneCalm
      <4> HIDE DEF X
      <4>2. Calm(worker[w], X, G) /\ HoldsSlot(worker[w], X)
        BY <3>4, <4>1 DEF Calm, HoldsSlot
      <4>3. workers[w] = X /\ \A v \in Workers : v # w => workers[v] = worker[v]
        BY DEF ClaudeInv, Typed
      <4>4. /\ X.child # "live"
            /\ X.child = worker[w].child \/ (worker[w].child = "live" /\ X.child = "killed")
        BY <2>4, <3>2, <4>1 DEF Ready
      <4>5. Respawn(t, workers)
        BY <3>6 DEF X
      <4> HIDE DEF workers
      <4> QED BY <1>1, <2>6, <4>2, <4>3, <4>4, <4>5, RespawnShows
    <3>7. CASE Write(t, w, P)
      BY <1>1, <2>6, <3>5, <3>7, WriteShows
    <3>8. CASE Keep(P, w) /\ cli' = cli /\ at' = [at EXCEPT ![t] = "failed"]
      <4>1. \A s \in Turns : at[s] = "answered" => at'[s] = "answered"
        BY <1>1, <3>8
      <4> QED BY <1>1, <2>6, <3>5, <3>8, <4>1, StaysShows
    <3> QED BY <2>9, <3>6, <3>7, <3>8 DEF Reconfigure
  <2> QED BY <2>5, <2>7, <2>8, <2>9
<1> QED BY <1>2, <1>3

\* It is made, goes on, or is stopped.
LEMMA RequestShows ==
  ASSUME ClaudeInv, Shows, NEW t \in Turns, Begin(t) \/ Resume(t) \/ Abort(t)
  PROVE  Shows'
<1>1. CASE Begin(t)
  <2>1. Only(t)
    BY <1>1 DEF Begin, InWork, Woken, Only, Awaiting
  <2> QED BY <1>1, <2>1, GoShows DEF Begin
<1>2. CASE Resume(t)
  <2>1. at[t] \in {"line", "timer"} /\ on \in Workers
    BY <1>2 DEF Resume, Woken, ClaudeInv, OneRequest, Awaiting
  <2>2. Only(t)
    BY <2>1 DEF Only, ClaudeInv, OneRequest, Awaiting
  <2>3. CASE Go(t)
    BY <2>2, <2>3, GoShows
  <2>4. CASE Wait(t, on, worker[on]) /\ UNCHANGED <<life, historyVars>>
    <3>1. PICK w \in Workers : w = on /\ worker[w] \in ClaudeWorker
      BY <2>1 DEF ClaudeInv, Typed
    <3>2. Keep(worker[w], w) /\ UNCHANGED <<cli, life, told, reply, muddled>>
          /\ at' = [at EXCEPT ![t] = "waiting"]
      BY <2>4, <3>1 DEF Wait, historyVars
    <3>3. worker'[w] = worker[w] /\ \A v \in Workers : v # w => worker'[v] = worker[v]
      BY <3>2 DEF Keep, ClaudeInv, Typed
    <3>4. \A s \in Turns : at[s] = "answered" => at'[s] = "answered"
      BY <2>1, <3>2
    <3>5. Calm(worker[w], worker'[w], {}) /\ HoldsSlot(worker[w], worker'[w])
      BY <3>1, <3>3, CalmSelf DEF HoldsSlot
    <3> QED BY <3>2, <3>3, <3>4, <3>5, AdapterStill
  <2> QED BY <1>2, <2>3, <2>4 DEF Resume
<1>3. CASE Abort(t)
  <2>1. CASE at[t] = "sent" /\ Down(on)
    <3>1. PICK w \in Workers : w = on
      BY <2>1 DEF ClaudeInv, OneRequest
    <3> QED BY <2>1, <3>1, GivesOutShows
  <2>2. CASE at[t] = "waiting" /\ at' = [at EXCEPT ![t] = "failed"]
             /\ UNCHANGED <<current, worker, cli, life, historyVars>>
    <3>1. PICK w \in Workers : w = on /\ worker[w] \in ClaudeWorker
      BY <2>2 DEF ClaudeInv, OneRequest, Awaiting, Typed
    <3>2. UNCHANGED <<worker, cli, life, told, reply, muddled>>
      BY <2>2 DEF historyVars
    <3>4. \A s \in Turns : at[s] = "answered" => at'[s] = "answered"
      BY <2>2
    <3>5. Calm(worker[w], worker'[w], {}) /\ HoldsSlot(worker[w], worker'[w])
      BY <3>1, <3>2, CalmSelf DEF HoldsSlot
    <3> QED BY <3>2, <3>4, <3>5, AdapterStill
  <2> QED BY <1>3, <2>1, <2>2 DEF Abort
<1> QED BY <1>1, <1>2, <1>3

-----------------------------------------------------------------------------
(* Lines *)

\* A line of w leaves the rest of the invariant as it was, if what it makes of
\* the turn, of the answers and of the tasks is right.
LEMMA LineStep ==
  ASSUME ClaudeInv, Shows, NEW w \in Workers, worker'[w].child # "unborn", cli' \in [Workers -> CLI],
         \A v \in Workers : v # w => worker'[v] = worker[v] /\ cli'[v] = cli[v],
         cli'[w].mode = "turn" => cli'[w].who \in Turns,
         cli'[w].mode = "review" => cli'[w].who \in Tasks,
         cli'[w].tool = TRUE => cli'[w].mode = "turn",
         life' \in [Tasks -> [at : {"new", "runs", "collected", "owed", "done"}, by : Workers \cup {None}]],
         told' \in [Tasks -> Seq(Events)], reply' \in [Turns -> Answers], muddled' \in BOOLEAN,
         Replies' /\ AnswerIsItsOwn', Early => Early',
         muddled => muddled', Attend(worker'[w], cli'[w]), muddled' \/ Apart(worker'[w], cli'[w]),
         Early' \/ worker'[w].child # "live" \/ Orderly(worker'[w], cli'[w]),
         TaskInv'
  PROVE  Shows'
<1>1. CliTyped /\ OwnTurn
  BY DEF Shows
<1>2. OwnTurn'
  BY <1>1, OwnTurnStep
<1>3. CliTyped'
  <2>1. ASSUME NEW v \in Workers
        PROVE  /\ cli'[v].mode = "turn" => cli'[v].who \in Turns
               /\ cli'[v].mode = "review" => cli'[v].who \in Tasks
               /\ cli'[v].tool = TRUE => cli'[v].mode = "turn"
               /\ worker'[v].child = "unborn" => cli'[v].mode = "idle"
    <3>1. CASE v = w
      BY <3>1
    <3>2. CASE v # w
      BY <1>1, <3>2 DEF CliTyped
    <3> QED BY <3>1, <3>2
  <2> QED BY <2>1 DEF CliTyped
<1> QED BY <1>2, <1>3 DEF Shows

\* Where a task stands.
LEMMA Moved ==
  ASSUME CliTyped, NEW w \in Workers, NEW k \in Tasks, NEW phase \in {"runs", "collected", "owed", "done"},
         Moves(k, w, phase)
  PROVE  /\ life' \in [Tasks -> [at : {"new", "runs", "collected", "owed", "done"}, by : Workers \cup {None}]]
         /\ life'[k].at = phase /\ life'[k].by = (IF phase = "done" THEN None ELSE w)
         /\ \A j \in Tasks : j # k => life'[j] = life[j]
<1> DEFINE e == [at |-> phase, by |-> IF phase = "done" THEN None ELSE w]
<1>1. e \in [at : {"new", "runs", "collected", "owed", "done"}, by : Workers \cup {None}]
      /\ e.at = phase /\ e.by = (IF phase = "done" THEN None ELSE w)
  OBVIOUS
<1>2. life' = [life EXCEPT ![k] = e]
  BY DEF Moves
<1> HIDE DEF e
<1> QED BY <1>1, <1>2 DEF CliTyped

\* What the CLI runs.
LEMMA Moded ==
  ASSUME CliTyped, NEW w \in Workers, NEW mode \in {"idle", "turn", "review"},
         NEW who \in Turns \cup Tasks \cup {None}, Mode(w, mode, who)
  PROVE  /\ cli' \in [Workers -> CLI] /\ \A v \in Workers : v # w => cli'[v] = cli[v]
         /\ cli'[w].mode = mode /\ cli'[w].who = who /\ cli'[w].tool = FALSE
         /\ cli'[w].style = cli[w].style /\ cli'[w].stdin = cli[w].stdin
<1> DEFINE C == [cli[w] EXCEPT !.mode = mode, !.who = who, !.tool = FALSE]
<1>1. cli[w] \in CLI
  BY DEF CliTyped
<1>2. /\ C \in CLI /\ C.mode = mode /\ C.who = who /\ C.tool = FALSE
      /\ C.style = cli[w].style /\ C.stdin = cli[w].stdin
  BY <1>1 DEF CLI
<1>3. cli' = [cli EXCEPT ![w] = C]
  BY DEF Mode, CliTyped
<1> HIDE DEF C
<1> QED BY <1>2, <1>3 DEF CliTyped

\* A line comes from a process.
LEMMA HearsIt ==
  ASSUME ClaudeInv, NEW w \in Workers, Hears(w)
  PROVE  worker[w] \in ClaudeWorker /\ worker[w].child \notin {"unborn", "closed"}
  BY DEF Hears, ClaudeInv, Typed

\* What is left of the prompts.
LEMMA PromptTaken ==
  ASSUME ClaudeInv, CliTyped, NEW w \in Workers, cli[w].stdin # <<>>
  PROVE  /\ cli[w].stdin \in Seq(Turns) /\ Head(cli[w].stdin) \in Turns /\ Tail(cli[w].stdin) \in Seq(Turns)
         /\ cli[w].stdin = <<worker[w].pending>> =>
              /\ worker[w].pending \in Turns
              /\ Head(cli[w].stdin) = worker[w].pending /\ Tail(cli[w].stdin) = <<>>
<1> DEFINE q == cli[w].stdin
<1>1. q \in Seq(Turns)
  BY DEF CliTyped, CLI
<1>2. Head(q) \in Turns /\ Tail(q) \in Seq(Turns)
  <2>1. \A S : \A s \in Seq(S) : s # <<>> => Head(s) \in S /\ Tail(s) \in Seq(S)
    BY HeadTailProperties
  <2> QED BY <1>1, <2>1
<1>3. \A p : <<p>> \in Seq(Turns) => p \in Turns /\ Head(<<p>>) = p /\ Tail(<<p>>) = <<>>
  <2>1. \A s \in Seq(Turns) : \A i \in DOMAIN s : s[i] \in Turns
    OBVIOUS
  <2>2. \A p : 1 \in DOMAIN <<p>> /\ <<p>>[1] = p
    OBVIOUS
  <2>3. \A p \in Turns : Head(<<p>>) = p /\ Tail(<<p>>) = <<>>
    OBVIOUS
  <2> QED BY <2>1, <2>2, <2>3
<1> QED BY <1>1, <1>2, <1>3

\* A prompt is read in a review.
LEMMA FoldPromptShows ==
  ASSUME ClaudeInv, Shows, NEW w \in Workers, FoldPrompt(w)
  PROVE  Shows'
<1>1. CliTyped /\ OwnTurn /\ Replies /\ AnswerIsItsOwn /\ TaskInv
  BY DEF Shows
<1> DEFINE q == cli[w].stdin
           C == [cli[w] EXCEPT !.stdin = Tail(q)]
<1>2. /\ worker[w] \in ClaudeWorker /\ worker[w].child = "live" /\ q # <<>>
      /\ UNCHANGED <<worker, at, life, told, reply, muddled>>
      /\ cli[w] \in CLI /\ cli[w].mode = "review"
  BY <1>1 DEF FoldPrompt, Live, ClaudeInv, Typed, CliTyped, adapterVars, historyVars
<1>3. cli' = [cli EXCEPT ![w] = C]
  BY <1>1 DEF FoldPrompt, CliTyped
<1>4. Tail(q) \in Seq(Turns) /\ (q = <<worker[w].pending>> => Tail(q) = <<>>)
  BY <1>1, <1>2, PromptTaken
<1>7. /\ C \in CLI /\ C.mode = "review" /\ C.who = cli[w].who /\ C.stdin = Tail(q)
      /\ C.tool = cli[w].tool /\ C.style = cli[w].style
  BY <1>2, <1>4 DEF CLI
<1> HIDE DEF C
<1>8. cli'[w] = C /\ cli' \in [Workers -> CLI] /\ \A v \in Workers : v # w => cli'[v] = cli[v]
  BY <1>1, <1>3, <1>7 DEF CliTyped
<1>12. Replies' /\ AnswerIsItsOwn' /\ (Early' <=> Early)
  BY <1>1, <1>2, NoAnswer
<1>13. TaskInv'
  <2>1. \A k \in Tasks : LifeStep(w, k)
    BY <1>2 DEF LifeStep
  <2>2. cli'[w].mode = "review" => cli[w].mode = "review" /\ cli'[w].who = cli[w].who
    BY <1>2, <1>7, <1>8
  <2>3. cli'[w].mode = "review" => Open(w, cli'[w].who)
    BY <2>2 DEF Open
  <2>4. ~muddled' => \A k \in Tasks : Reviewing(w, k)'
    <3> SUFFICES ASSUME ~muddled' PROVE \A k \in Tasks : Reviewing(w, k)'
      OBVIOUS
    <3>1. \A k \in Tasks : Reviewing(w, k)
      BY <1>1, <1>2 DEF TaskInv, TaskOf
    <3> QED BY <1>2, <1>7, <1>8, <2>2, <3>1, SlotStep
  <2>5. Calm(worker[w], worker'[w], {})
    BY <1>2, CalmSelf
  <2>6. muddled' \in BOOLEAN
    BY <1>1, <1>2 DEF CliTyped
  <2> QED BY <1>1, <1>2, <1>8, <2>1, <2>3, <2>4, <2>5, <2>6, CalmStill
<1>14. /\ cli'[w].mode = "review" /\ cli'[w].who \in Tasks /\ cli'[w].tool # TRUE
  BY <1>1, <1>2, <1>7, <1>8 DEF CliTyped
<1>15. /\ Attend(worker'[w], cli'[w]) /\ Apart(worker'[w], cli'[w]) /\ worker'[w].child # "unborn"
       /\ Early' \/ Orderly(worker'[w], cli'[w])
  <2>1. Attend(worker[w], C) /\ Apart(worker[w], C)
    BY <1>1, <1>2, <1>7 DEF OwnTurn, Attend, Apart
  <2>2. Early \/ Orderly(worker[w], C)
    BY <1>1, <1>2, <1>4, <1>7 DEF OwnTurn, Live, Orderly
  <2> QED BY <1>2, <1>8, <1>12, <2>1, <2>2
<1>16. /\ life' \in [Tasks -> [at : {"new", "runs", "collected", "owed", "done"}, by : Workers \cup {None}]]
       /\ told' \in [Tasks -> Seq(Events)] /\ reply' \in [Turns -> Answers] /\ muddled' \in BOOLEAN
  BY <1>1, <1>2 DEF CliTyped
<1> QED BY <1>2, <1>8, <1>12, <1>13, <1>14, <1>15, <1>16, LineStep

\* What the init of a turn leaves of a worker.
LEMMA AnnouncedIs ==
  ASSUME NEW W \in ClaudeWorker, NEW V, V = Announced(Heard(W))
  PROVE  /\ V.pending = W.pending /\ V.child = W.child /\ V.tool = W.tool
         /\ V.active = (W.active \/ Misread(Heard(W)))
         /\ Tame(W) => Tame(V)
         /\ V.active = TRUE => W.active = TRUE \/ (Misread(Heard(W)) /\ W.pending = None)
         /\ V.active = W.active => Calm(W, V, {})
<1> DEFINE H == Heard(W)
           a == H.active \/ Misread(H)
<1>1. /\ H \in ClaudeWorker /\ H.pending = W.pending /\ H.child = W.child /\ H.active = W.active
      /\ Calm(W, H, {}) /\ Steady(W, H)
  BY Hearings, HeardCalm DEF Same
<1>2. V = [H EXCEPT !.active = a]
  BY <1>1 DEF Announced, ClaudeWorker
<1>3. Misread(H) => H.pending = None
  BY DEF Misread
<1> HIDE DEF H
<1>4. /\ V.active = a /\ V.pending = H.pending /\ V.child = H.child /\ V.tool = H.tool
      /\ V.queue = H.queue /\ V.collected = H.collected /\ V.tracked = H.tracked
  BY <1>1, <1>2 DEF ClaudeWorker
<1>5. Tame(H) => Tame(V)
  BY <1>4 DEF Tame
<1>6. V.active = (W.active \/ Misread(H)) /\ V.tool = W.tool
  BY <1>1, <1>4 DEF Steady
<1>7. V.active = TRUE => W.active = TRUE \/ (Misread(H) /\ W.pending = None)
  BY <1>1, <1>3, <1>6
<1>8. V.active = W.active => Calm(W, V, {})
  BY <1>1, <1>4, <1>5 DEF Calm
<1>9. Tame(W) => Tame(V)
  BY <1>1, <1>5 DEF Calm
<1> QED BY <1>1, <1>4, <1>6, <1>7, <1>8, <1>9 DEF H

\* A turn begins, or initialises its session again.
LEMMA TurnInitShows ==
  ASSUME ClaudeInv, Shows, NEW w \in Workers, ReadPrompt(w) \/ Reinit(w)
  PROVE  Shows'
<1>1. CliTyped /\ OwnTurn /\ Replies /\ AnswerIsItsOwn /\ TaskInv
  BY DEF Shows
<1> DEFINE W == worker[w]
           H == Heard(W)
           q == cli[w].stdin
<1>2. /\ W \in ClaudeWorker /\ W.child \notin {"unborn", "closed"} /\ cli[w] \in CLI
      /\ UNCHANGED <<at, life, told, reply>>
      /\ muddled' = (muddled \/ (Misread(H) /\ ~H.active))
  BY <1>1, HearsIt DEF ReadPrompt, Reinit, InitOfTurn, CliTyped
<1>3. PICK V : V = Announced(H)
  OBVIOUS
<1>4. worker'[w] = V /\ \A v \in Workers : v # w => worker'[v] = worker[v]
  BY <1>3 DEF ReadPrompt, Reinit, InitOfTurn, Keep, ClaudeInv, Typed
<1>5. /\ V.pending = W.pending /\ V.child = W.child /\ V.tool = W.tool
      /\ V.active = TRUE => W.active = TRUE \/ (Misread(H) /\ W.pending = None)
      /\ V.active = W.active => Calm(W, V, {})
      /\ Tame(W) => Tame(V)
      /\ V.active = (W.active \/ Misread(H))
  BY <1>2, <1>3, AnnouncedIs
<1>6. H.active = W.active
  BY <1>2, Hearings
<1> HIDE DEF H
<1>7. muddled' \in BOOLEAN /\ (muddled => muddled') /\ (~muddled' => V.active = W.active)
  <2>1. muddled \in BOOLEAN /\ W.active \in BOOLEAN
    BY <1>1, <1>2 DEF CliTyped, ClaudeWorker
  <2>2. muddled' \in BOOLEAN /\ (muddled => muddled')
    BY <1>2, <2>1
  <2>3. ~muddled' => ~(Misread(H) /\ ~W.active)
    BY <1>2, <1>6
  <2> QED BY <1>5, <2>1, <2>2, <2>3
<1>8. /\ cli' \in [Workers -> CLI] /\ \A v \in Workers : v # w => cli'[v] = cli[v]
      /\ cli'[w].mode = "turn" /\ cli'[w].who \in Turns
      /\ muddled' \/ Apart(V, cli'[w])
      /\ Early \/ V.child # "live" \/ Orderly(V, cli'[w])
  <2>1. CASE ReadPrompt(w)
    <3> DEFINE C == [cli[w] EXCEPT !.mode = "turn", !.who = Head(q), !.stdin = Tail(q)]
    <3>1. q # <<>> /\ cli[w].mode = "idle" /\ W.child = "live" /\ cli' = [cli EXCEPT ![w] = C]
      BY <1>1, <2>1 DEF ReadPrompt, Live, CliTyped
    <3>2. /\ Head(q) \in Turns /\ Tail(q) \in Seq(Turns)
          /\ q = <<W.pending>> => W.pending \in Turns /\ Head(q) = W.pending /\ Tail(q) = <<>>
      BY <1>1, <3>1, PromptTaken
    <3>3. C \in CLI /\ C.mode = "turn" /\ C.who = Head(q) /\ C.stdin = Tail(q) /\ C.tool = cli[w].tool
      BY <1>2, <3>2 DEF CLI
    <3> HIDE DEF C
    <3>4. cli'[w] = C /\ cli' \in [Workers -> CLI] /\ \A v \in Workers : v # w => cli'[v] = cli[v]
      BY <1>1, <3>1, <3>3 DEF CliTyped
    <3>5. cli[w].tool # TRUE /\ W.active # TRUE
      BY <1>1, <3>1 DEF CliTyped, OwnTurn, Attend
    <3>6. muddled' \/ Apart(V, C)
      BY <1>7, <3>5 DEF Apart
    <3>7. Early \/ Orderly(V, C)
      <4> SUFFICES ASSUME Orderly(W, cli[w]) PROVE Orderly(V, C)
        BY <1>1, <3>1 DEF OwnTurn, Live
      <4>1. q = <<W.pending>>
        BY <3>1 DEF Orderly
      <4>2. V.active # TRUE
        BY <1>5, <3>2, <3>5, <4>1, ClaudeAssumption
      <4> QED BY <1>5, <3>2, <3>3, <3>5, <4>1, <4>2 DEF Orderly
    <3> QED BY <3>2, <3>3, <3>4, <3>6, <3>7
  <2>2. CASE Reinit(w)
    <3>1. cli' = cli /\ cli[w].mode = "turn" /\ cli[w].who \in Turns
      BY <1>1, <2>2 DEF Reinit, CliTyped
    <3>2. muddled' \/ Apart(V, cli[w])
      BY <1>1, <1>7, <3>1 DEF OwnTurn, Apart
    <3>3. Early \/ V.child # "live" \/ Orderly(V, cli[w])
      <4> SUFFICES ASSUME Orderly(W, cli[w]) PROVE Orderly(V, cli[w])
        BY <1>1, <1>5 DEF OwnTurn, Live
      <4>1. W.active # TRUE /\ W.pending # None
        BY <3>1, ClaudeAssumption DEF Orderly
      <4> QED BY <1>5, <4>1 DEF Orderly
    <3> QED BY <1>1, <3>1, <3>2, <3>3 DEF CliTyped
  <2> QED BY <2>1, <2>2
<1>9. Replies' /\ AnswerIsItsOwn' /\ (Early' <=> Early)
  BY <1>1, <1>2, NoAnswer
<1>10. Attend(V, cli'[w])
  BY <1>1, <1>5, <1>8 DEF OwnTurn, Attend
<1>11. TaskInv'
  <2>1. CASE muddled'
    BY <2>1 DEF TaskInv
  <2>2. CASE ~muddled'
    <3>1. \A k \in Tasks : LifeStep(w, k) /\ Reviewing(w, k)'
      BY <1>2, <1>8 DEF LifeStep, Reviewing
    <3>2. Calm(worker[w], worker'[w], {})
      BY <1>4, <1>5, <1>7, <2>2
    <3> QED BY <1>1, <1>2, <1>4, <1>5, <1>7, <1>8, <3>1, <3>2, CalmStill
  <2> QED BY <1>7, <2>1, <2>2
<1>12. /\ life' \in [Tasks -> [at : {"new", "runs", "collected", "owed", "done"}, by : Workers \cup {None}]]
       /\ told' \in [Tasks -> Seq(Events)] /\ reply' \in [Turns -> Answers]
  BY <1>1, <1>2 DEF CliTyped
<1> QED BY <1>2, <1>4, <1>5, <1>7, <1>8, <1>9, <1>10, <1>11, <1>12, LineStep

\* A tool starts or ends in a turn.
LEMMA ToolShows ==
  ASSUME ClaudeInv, Shows, NEW w \in Workers, ToolStarts(w) \/ ToolEnds(w)
  PROVE  Shows'
<1>1. CliTyped /\ OwnTurn /\ Replies /\ AnswerIsItsOwn /\ TaskInv
  BY DEF Shows
<1> DEFINE Q == Quiet(worker[w])
<1>2. /\ worker[w] \in ClaudeWorker /\ worker[w].child \notin {"unborn", "closed"}
      /\ UNCHANGED <<at, life, told, reply, muddled>> /\ cli[w].mode = "turn" /\ cli[w] \in CLI
  <2>1. Hears(w) /\ cli[w].mode = "turn" /\ UNCHANGED <<at, life, told, reply, muddled>>
    BY DEF ToolStarts, ToolEnds, historyVars
  <2> QED BY <1>1, <2>1, HearsIt DEF CliTyped
<1>3. PICK b \in BOOLEAN :
        /\ cli' = [cli EXCEPT ![w].tool = b]
        /\ IF b THEN Keep(IF Q.active \/ Q.pending = None THEN Q ELSE [Q EXCEPT !.tool = TRUE], w)
           ELSE Keep(IF Q.active THEN Q ELSE [Q EXCEPT !.tool = FALSE], w)
  BY DEF ToolStarts, ToolEnds
<1> DEFINE C == [cli[w] EXCEPT !.tool = b]
<1>4. C \in CLI /\ C.mode = "turn" /\ C.who = cli[w].who /\ C.stdin = cli[w].stdin /\ C.tool = b
  BY <1>2 DEF CLI
<1>5. cli' = [cli EXCEPT ![w] = C]
  BY <1>1, <1>3 DEF CliTyped
<1> HIDE DEF C
<1>6. cli'[w] = C /\ cli' \in [Workers -> CLI] /\ \A v \in Workers : v # w => cli'[v] = cli[v]
  BY <1>1, <1>4, <1>5 DEF CliTyped
<1>7. /\ Q \in ClaudeWorker /\ Q.pending = worker[w].pending /\ Q.child = worker[w].child
      /\ Calm(worker[w], Q, {}) /\ Q.active = worker[w].active
  BY <1>2, Hearings, HeardCalm DEF Same
<1> HIDE DEF Q
<1>8. PICK V : /\ Keep(V, w) /\ V.pending = Q.pending /\ V.child = Q.child /\ Calm(Q, V, {})
               /\ b = TRUE /\ Q.pending # None /\ Q.active # TRUE => V.tool = TRUE
  <2> DEFINE T == [Q EXCEPT !.tool = b]
  <2>1. /\ T.active = Q.active /\ T.collected = Q.collected /\ T.tracked = Q.tracked
        /\ T.queue = Q.queue /\ T.tool = b /\ T.pending = Q.pending /\ T.child = Q.child
    BY <1>7 DEF ClaudeWorker
  <2>2. CASE Q.active = TRUE \/ (b = TRUE /\ Q.pending = None)
    <3>1. Keep(Q, w)
      BY <1>3, <2>2
    <3> QED BY <1>7, <2>2, <3>1, CalmSelf
  <2>3. CASE ~(Q.active = TRUE \/ (b = TRUE /\ Q.pending = None))
    <3>1. Keep(T, w)
      <4>1. CASE b = TRUE
        BY <1>3, <1>7, <2>3, <4>1
      <4>2. CASE b = FALSE
        BY <1>3, <1>7, <2>3, <4>2
      <4> QED BY <4>1, <4>2
    <3> HIDE DEF T
    <3>2. Calm(Q, T, {})
      BY <2>1 DEF Calm, Tame
    <3> QED BY <2>1, <3>1, <3>2
  <2> QED BY <2>2, <2>3
<1>9. worker'[w] = V /\ \A v \in Workers : v # w => worker'[v] = worker[v]
  BY <1>8 DEF Keep, ClaudeInv, Typed
<1>10. Calm(worker[w], V, {})
  BY <1>7, <1>8 DEF Calm
<1>11. Replies' /\ AnswerIsItsOwn' /\ (Early' <=> Early)
  BY <1>1, <1>2, NoAnswer
<1>12. /\ Attend(worker'[w], cli'[w]) /\ (muddled' \/ Apart(worker'[w], cli'[w]))
       /\ Early' \/ worker'[w].child # "live" \/ Orderly(worker'[w], cli'[w])
  <2>1. Attend(V, C) /\ (muddled' \/ Apart(V, C))
    BY <1>1, <1>2, <1>4, <1>10 DEF OwnTurn, Attend, Apart, Calm
  <2>2. cli[w].who # None
    BY <1>1, <1>2, ClaudeAssumption DEF CliTyped
  <2>3. Early \/ V.child # "live" \/ Orderly(V, C)
    BY <1>1, <1>2, <1>4, <1>7, <1>8, <1>10, <2>2 DEF OwnTurn, Orderly, Live, Calm
  <2> QED BY <1>6, <1>9, <1>11, <2>1, <2>3
<1>13. TaskInv'
  <2>1. \A k \in Tasks : LifeStep(w, k) /\ Reviewing(w, k)'
    BY <1>2, <1>4, <1>6 DEF LifeStep, Reviewing
  <2>2. muddled' \in BOOLEAN
    BY <1>1, <1>2 DEF CliTyped
  <2> QED BY <1>1, <1>2, <1>4, <1>6, <1>7, <1>8, <1>9, <1>10, <2>1, <2>2, CalmStill
<1>14. /\ cli'[w].mode = "turn" /\ cli'[w].who \in Turns /\ worker'[w].child # "unborn"
  BY <1>1, <1>2, <1>4, <1>6, <1>7, <1>8, <1>9 DEF CliTyped
<1>15. /\ life' \in [Tasks -> [at : {"new", "runs", "collected", "owed", "done"}, by : Workers \cup {None}]]
       /\ told' \in [Tasks -> Seq(Events)] /\ reply' \in [Turns -> Answers] /\ muddled' \in BOOLEAN
  BY <1>1, <1>2 DEF CliTyped
<1> QED BY <1>2, <1>6, <1>9, <1>11, <1>12, <1>13, <1>14, <1>15, LineStep

\* A line about a task, while a turn or a review goes on.
LEMMA NoteStep ==
  ASSUME ClaudeInv, Shows, NEW w \in Workers, worker'[w].child = worker[w].child,
         worker'[w].tool = worker[w].tool, worker'[w].pending = worker[w].pending,
         \A v \in Workers : v # w => worker'[v] = worker[v],
         UNCHANGED <<at, cli, reply>>,
         life' \in [Tasks -> [at : {"new", "runs", "collected", "owed", "done"}, by : Workers \cup {None}]],
         told' \in [Tasks -> Seq(Events)], muddled' \in BOOLEAN, muddled => muddled',
         worker'[w].active = TRUE => worker[w].active = TRUE, Tame(worker[w]) => Tame(worker'[w]),
         TaskInv'
  PROVE  Shows'
<1>1. CliTyped /\ OwnTurn /\ Replies /\ AnswerIsItsOwn
  BY DEF Shows
<1>2. Replies' /\ AnswerIsItsOwn' /\ (Early' <=> Early)
  BY <1>1, NoAnswer
<1>3. CliTyped'
  <2>1. \A v \in Workers : worker'[v].child = worker[v].child
    OBVIOUS
  <2> QED BY <1>1, <2>1 DEF CliTyped
<1>4. OwnTurn'
  <2>1. Attend(worker'[w], cli[w]) /\ (muddled' \/ Apart(worker'[w], cli[w]))
    BY <1>1 DEF OwnTurn, Attend, Apart
  <2>2. Early \/ worker'[w].child # "live" \/ Orderly(worker'[w], cli[w])
    BY <1>1 DEF OwnTurn, Live, Orderly
  <2> QED BY <1>1, <1>2, <2>1, <2>2, OwnTurnStep
<1> QED BY <1>2, <1>3, <1>4 DEF Shows

\* The CLI starts a task.
LEMMA StartShows ==
  ASSUME ClaudeInv, Shows, NEW w \in Workers, NEW k \in Tasks, StartTask(w, k)
  PROVE  Shows'
<1>1. CliTyped /\ OwnTurn /\ TaskInv
  BY DEF Shows
<1> DEFINE Q == Quiet(worker[w])
           own == IF Q.active /\ Q.notice # None THEN Q.notice.turn ELSE Q.pending
           T == [Q EXCEPT !.tracked[k] = "running", !.aged = @ \ {k}, !.collected = @ \ {k},
                          !.owner[k] = own]
<1>2. /\ worker[w] \in ClaudeWorker /\ worker[w].child \notin {"unborn", "closed"}
      /\ UNCHANGED <<at, cli, told, reply, muddled>> /\ life[k].at = "new" /\ Moves(k, w, "runs")
      /\ Keep(IF Attended(Q) THEN T ELSE Q, w)
  <2>1. Hears(w) /\ UNCHANGED <<at, cli, told, reply, muddled>> /\ life[k].at = "new" /\ Moves(k, w, "runs")
    BY DEF StartTask, historyVars
  <2>2. Keep(IF Attended(Q) THEN T ELSE Q, w)
    BY DEF StartTask
  <2> QED BY <2>1, <2>2, HearsIt
<1>3. /\ Q \in ClaudeWorker /\ Q.pending = worker[w].pending /\ Q.child = worker[w].child
      /\ Calm(worker[w], Q, {}) /\ Steady(worker[w], Q) /\ Q.active = worker[w].active
      /\ Q.tracked = worker[w].tracked
  BY <1>2, Hearings, HeardCalm DEF Same
<1> HIDE DEF Q
<1>4. /\ T.active = Q.active /\ T.queue = Q.queue /\ T.tool = Q.tool /\ T.notice = Q.notice
      /\ T.pending = Q.pending /\ T.child = Q.child
      /\ T.tracked = [Q.tracked EXCEPT ![k] = "running"] /\ T.collected = Q.collected \ {k}
  BY <1>3 DEF ClaudeWorker
<1>5. PICK V \in {T, Q} : Keep(V, w)
  BY <1>2
<1>6. worker'[w] = V /\ \A v \in Workers : v # w => worker'[v] = worker[v]
  BY <1>5 DEF Keep, ClaudeInv, Typed
<1> HIDE DEF T
<1>7. /\ V.active = worker[w].active /\ V.tool = worker[w].tool /\ V.pending = worker[w].pending
      /\ V.child = worker[w].child /\ (Tame(worker[w]) => Tame(V))
      /\ \A j \in Tasks : j # k => /\ V.tracked[j] = worker[w].tracked[j]
                                   /\ (j \in V.collected <=> j \in worker[w].collected)
      /\ k \in V.collected => k \in worker[w].collected
      /\ worker[w].active = TRUE /\ worker[w].notice # None =>
           V.notice # None /\ V.notice.task = worker[w].notice.task
  <2>1. Q.tracked \in [Tasks -> {"no", "running", "finished"}]
    BY <1>3 DEF ClaudeWorker
  <2>2. CASE V = Q
    BY <1>3, <2>2 DEF Calm, Steady
  <2>3. CASE V = T
    <3>1. \A j \in Tasks : j # k => T.tracked[j] = Q.tracked[j]
      BY <1>4, <2>1
    <3>2. V.tool = worker[w].tool /\ V.queue = Q.queue /\ V.active = worker[w].active
      BY <1>3, <1>4, <2>3 DEF Steady
    <3>3. Tame(worker[w]) => Tame(V)
      BY <1>3, <3>2 DEF Calm, Tame
    <3>4. worker[w].active = TRUE /\ worker[w].notice # None =>
            V.notice # None /\ V.notice.task = worker[w].notice.task
      BY <1>3, <1>4, <2>3 DEF Steady
    <3>5. Q.collected = worker[w].collected
      BY <1>3 DEF Calm
    <3> QED BY <1>3, <1>4, <2>3, <3>1, <3>2, <3>3, <3>4, <3>5
  <2> QED BY <1>5, <2>2, <2>3
<1>8. /\ life' \in [Tasks -> [at : {"new", "runs", "collected", "owed", "done"}, by : Workers \cup {None}]]
      /\ life'[k].at = "runs" /\ life'[k].by = w /\ \A j \in Tasks : j # k => life'[j] = life[j]
  BY <1>1, <1>2, Moved
<1>9. TaskInv'
  <2> SUFFICES ASSUME ~muddled', NEW j \in Tasks
               PROVE  /\ Once(j)' /\ (life'[j].at = "new" => Silent(j)')
                      /\ \A v \in Workers : TaskOf(v, j)'
    BY DEF TaskInv
  <2>1. /\ Once(j) /\ (life[j].at = "new" => Silent(j))
        /\ \A v \in Workers : TaskOf(v, j)
    BY <1>1, <1>2 DEF TaskInv
  <2>2. (Silent(j)' <=> Silent(j)) /\ Once(j)'
    BY <1>2, <2>1 DEF Silent, Once
  <2>3. CASE j # k
    <3>1. \A v \in Workers : Open(v, j)' <=> Open(v, j)
      BY <1>2, <1>6, <1>7, <1>8, <2>3 DEF Open, At
    <3>2. ASSUME NEW v \in Workers
          PROVE  /\ worker'[v].tracked[j] = worker[v].tracked[j]
                 /\ j \in worker'[v].collected <=> j \in worker[v].collected
                 /\ worker'[v].child = worker[v].child
                 /\ Reviewing(v, j)'
      <4>1. CASE v = w
        BY <1>2, <1>6, <1>7, <1>8, <2>1, <2>3, <4>1 DEF Reviewing, TaskOf
      <4>2. CASE v # w
        BY <1>2, <1>6, <1>8, <2>1, <2>3, <4>2 DEF Reviewing, TaskOf
      <4> QED BY <4>1, <4>2
    <3>3. \A v \in Workers : TaskOf(v, j)'
      BY <1>8, <2>1, <2>2, <2>3, <3>1, <3>2 DEF TaskOf
    <3> QED BY <1>8, <2>1, <2>2, <2>3, <3>3
  <2>4. CASE j = k
    <3>1. Silent(k) /\ \A v \in Workers : ~Open(v, k) /\ k \notin worker[v].collected
      BY <1>2, <2>1, <2>4 DEF TaskOf
    <3>2. \A v \in Workers : /\ v # w => ~Open(v, k)'
                             /\ k \notin worker'[v].collected
                             /\ ~(cli'[v].mode = "review" /\ cli'[v].who = k)
      BY <1>2, <1>6, <1>7, <1>8, <3>1 DEF Open, At
    <3>3. \A v \in Workers : TaskOf(v, k)'
      BY <1>2, <1>6, <1>7, <1>8, <2>2, <2>4, <3>1, <3>2 DEF TaskOf, Reviewing
    <3> QED BY <1>8, <2>2, <2>4, <3>3
  <2> QED BY <2>3, <2>4
<1>10. told' \in [Tasks -> Seq(Events)] /\ muddled' \in BOOLEAN
  BY <1>1, <1>2 DEF CliTyped
<1>11. /\ worker'[w].child = worker[w].child /\ worker'[w].tool = worker[w].tool
       /\ worker'[w].pending = worker[w].pending
       /\ worker'[w].active = TRUE => worker[w].active = TRUE
       /\ Tame(worker[w]) => Tame(worker'[w])
  BY <1>6, <1>7
<1> QED BY <1>2, <1>6, <1>8, <1>9, <1>10, <1>11, NoteStep

\* Its result is collected.
LEMMA CollectShows ==
  ASSUME ClaudeInv, Shows, NEW w \in Workers, NEW k \in Tasks, Collect(w, k)
  PROVE  Shows'
<1>1. CliTyped /\ OwnTurn /\ TaskInv
  BY DEF Shows
<1> DEFINE Q == Quiet(worker[w])
           F == Forget(Q, {k})
           T == [F EXCEPT !.collected = @ \cup {k}]
<1>2. /\ worker[w] \in ClaudeWorker /\ worker[w].child \notin {"unborn", "closed"}
      /\ UNCHANGED <<at, cli, reply, muddled>> /\ At(k, w, {"runs", "owed"})
      /\ \/ Q.tracked[k] # "no" /\ Keep(T, w) /\ Event(k, "collected")
         \/ Keep(Q, w) /\ told' = told
  <2>1. Hears(w) /\ UNCHANGED <<at, cli, reply, muddled>> /\ At(k, w, {"runs", "owed"})
    BY DEF Collect
  <2>2. \/ Q.tracked[k] # "no" /\ Keep(T, w) /\ Event(k, "collected")
        \/ Keep(Q, w) /\ told' = told
    BY DEF Collect
  <2> QED BY <2>1, <2>2, HearsIt
<1>3. PICK phase \in {"collected", "owed"} : Moves(k, w, phase)
  BY DEF Collect
<1>4. /\ life' \in [Tasks -> [at : {"new", "runs", "collected", "owed", "done"}, by : Workers \cup {None}]]
      /\ life'[k].at = phase /\ life'[k].by = w /\ \A j \in Tasks : j # k => life'[j] = life[j]
  BY <1>1, <1>3, Moved
<1>5. /\ Q \in ClaudeWorker /\ Q.pending = worker[w].pending /\ Q.child = worker[w].child
      /\ Calm(worker[w], Q, {}) /\ Steady(worker[w], Q) /\ Q.active = worker[w].active
  BY <1>2, Hearings, HeardCalm DEF Same
<1> HIDE DEF Q
<1>6. /\ F \in ClaudeWorker /\ F.pending = Q.pending /\ F.child = Q.child
      /\ Calm(Q, F, {}) /\ Steady(Q, F) /\ F.active = Q.active /\ F.tracked[k] = "no"
  BY <1>5, Forgets, ForgetCalm DEF Same
<1> HIDE DEF F
<1>7. muddled' \in BOOLEAN /\ (muddled => muddled')
  BY <1>1, <1>2 DEF CliTyped
<1>8. ASSUME NEW V, Keep(V, w), NEW G, Calm(worker[w], V, G), Steady(worker[w], V),
             V.active = worker[w].active, V.child = worker[w].child, V.pending = worker[w].pending,
             Tells(G)
      PROVE  Shows'
  <2>1. worker'[w] = V /\ \A v \in Workers : v # w => worker'[v] = worker[v]
    BY <1>8 DEF Keep, ClaudeInv, Typed
  <2>2. \A j \in Tasks : LifeStep(w, j)
    BY <1>2, <1>4, <1>8, <2>1 DEF LifeStep, Open, At
  <2>3. cli'[w].mode = "review" => Open(w, cli'[w].who)
    BY <1>2 DEF Open
  <2>4. ~muddled' => \A j \in Tasks : Reviewing(w, j)'
    <3> SUFFICES ASSUME ~muddled' PROVE \A j \in Tasks : Reviewing(w, j)'
      OBVIOUS
    <3>1. \A j \in Tasks : Reviewing(w, j)
      BY <1>1, <1>2 DEF TaskInv, TaskOf
    <3>2. \A j \in Tasks : life[j].at = "done" => life'[j].at = "done"
      BY <1>2, <1>4 DEF At
    <3> QED BY <1>2, <1>8, <2>1, <3>1, <3>2, SlotStep DEF Steady
  <2>5. TaskInv'
    BY <1>1, <1>2, <1>7, <1>8, <2>1, <2>2, <2>3, <2>4, CalmStep DEF Tells
  <2> QED BY <1>2, <1>4, <1>7, <1>8, <2>1, <2>5, NoteStep DEF Tells, Calm, Steady
<1>9. CASE Keep(Q, w) /\ told' = told
  <2> DEFINE G == {}
  <2>1. Calm(worker[w], Q, G) /\ Tells(G)
    BY <1>1, <1>5, <1>9 DEF Tells, CliTyped
  <2> HIDE DEF G
  <2> QED BY <1>5, <1>8, <1>9, <2>1
<1>10. CASE Q.tracked[k] # "no" /\ Keep(T, w) /\ Event(k, "collected")
  <2> DEFINE G == {k}
             c == F.collected \cup G
             V == [F EXCEPT !.collected = c]
  <2>1. \A j : j \in G <=> j = k
    OBVIOUS
  <2>2. T = V
    BY <1>6 DEF ClaudeWorker
  <2> HIDE DEF c
  <2>3. /\ V.active = F.active /\ V.queue = F.queue /\ V.tool = F.tool /\ V.notice = F.notice
        /\ V.pending = F.pending /\ V.child = F.child /\ V.tracked = F.tracked /\ V.collected = c
    BY <1>6 DEF ClaudeWorker
  <2> HIDE DEF V, T, G
  <2>4. Calm(worker[w], V, G)
    BY <1>5, <1>6, <1>10, <2>1, <2>3 DEF Calm, Tame, c
  <2>5. Steady(worker[w], V)
    BY <1>5, <1>6, <2>3 DEF Steady
  <2>6. Tells(G)
    <3>1. /\ told' \in [Tasks -> Seq(Events)]
          /\ told'[k] = Append(told[k], "collected") /\ \A j \in Tasks : j # k => told'[j] = told[j]
      BY <1>1, <1>10, EventTyped DEF Events
    <3> QED BY <2>1, <3>1 DEF Tells
  <2> QED BY <1>5, <1>6, <1>8, <1>10, <2>2, <2>3, <2>4, <2>5, <2>6
<1> QED BY <1>2, <1>9, <1>10

\* A task ends.
LEMMA AnnounceShows ==
  ASSUME ClaudeInv, Shows, NEW w \in Workers, NEW k \in Tasks, Announce(w, k)
  PROVE  Shows'
<1>1. CliTyped /\ OwnTurn /\ TaskInv
  BY DEF Shows
<1> DEFINE W == worker[w]
           V == Notified(W, k)
<1>2. /\ W \in ClaudeWorker /\ W.child \notin {"unborn", "closed"}
      /\ UNCHANGED <<at, cli, told, reply>> /\ At(k, w, {"runs", "collected"})
      /\ Moves(k, w, "owed") /\ Keep(V, w)
      /\ muddled' = (muddled \/ (k \in W.collected /\ W.active
                              /\ W.notice # None /\ W.notice.task # k))
  BY HearsIt DEF Announce
<1>3. /\ life' \in [Tasks -> [at : {"new", "runs", "collected", "owed", "done"}, by : Workers \cup {None}]]
      /\ life'[k].at = "owed" /\ life'[k].by = w /\ \A j \in Tasks : j # k => life'[j] = life[j]
  BY <1>1, <1>2, Moved
<1>4. V.pending = W.pending /\ V.child = W.child
  BY <1>2, Notifies DEF Grows, Same
<1>5. /\ Calm(W, V, {}) /\ V.tool = W.tool /\ V.active = W.active
      /\ V.active = TRUE /\ W.notice # None /\ (k \notin W.collected \/ W.notice.task = k) =>
           V.notice # None /\ V.notice.task = W.notice.task
  BY <1>2, NotifiedCalm
<1> HIDE DEF V
<1>6. worker'[w] = V /\ \A v \in Workers : v # w => worker'[v] = worker[v]
  BY <1>2 DEF Keep, ClaudeInv, Typed
<1>7. muddled' \in BOOLEAN /\ (muddled => muddled')
  BY <1>1, <1>2 DEF CliTyped
<1>8. TaskInv'
  <2>2. \A j \in Tasks : LifeStep(w, j)
    BY <1>2, <1>3, <1>4, <1>6 DEF LifeStep, Open, At
  <2>3. cli'[w].mode = "review" => Open(w, cli'[w].who)
    BY <1>2 DEF Open
  <2>4. ~muddled' => \A j \in Tasks : Reviewing(w, j)'
    <3> SUFFICES ASSUME ~muddled' PROVE \A j \in Tasks : Reviewing(w, j)'
      OBVIOUS
    <3>1. \A j \in Tasks : Reviewing(w, j)
      BY <1>1, <1>2 DEF TaskInv, TaskOf
    <3>2. \A j \in Tasks : life[j].at = "done" => life'[j].at = "done"
      BY <1>2, <1>3 DEF At
    <3>3. W.active = TRUE /\ W.notice # None => k \notin W.collected \/ W.notice.task = k
      BY <1>2
    <3>4. worker'[w].active = TRUE /\ W.notice # None => V.notice # None /\ V.notice.task = W.notice.task
      BY <1>5, <1>6, <3>3
    <3> QED BY <1>2, <1>5, <1>6, <3>1, <3>2, <3>4, SlotStep
  <2> QED BY <1>1, <1>2, <1>4, <1>5, <1>6, <1>7, <2>2, <2>3, <2>4, CalmStill
<1>9. told' \in [Tasks -> Seq(Events)]
  BY <1>1, <1>2 DEF CliTyped
<1> QED BY <1>2, <1>3, <1>4, <1>5, <1>6, <1>7, <1>8, <1>9, NoteStep DEF Calm

\* The CLI takes note of its end and reviews nothing.
LEMMA SwallowShows ==
  ASSUME ClaudeInv, Shows, NEW w \in Workers, NEW k \in Tasks, Swallow(w, k)
  PROVE  Shows'
<1>1. CliTyped /\ OwnTurn /\ TaskInv
  BY DEF Shows
<1>2. /\ worker[w] \in ClaudeWorker /\ worker[w].child = "live" /\ cli[w].mode = "turn"
      /\ UNCHANGED <<worker, at, cli, told, reply, muddled>> /\ At(k, w, {"owed"}) /\ Moves(k, w, "done")
  BY DEF Swallow, adapterVars, historyVars, Live, ClaudeInv, Typed
<1>3. /\ life' \in [Tasks -> [at : {"new", "runs", "collected", "owed", "done"}, by : Workers \cup {None}]]
      /\ life'[k].at = "done" /\ life'[k].by = None /\ \A j \in Tasks : j # k => life'[j] = life[j]
  BY <1>1, <1>2, Moved
<1>4. muddled' \in BOOLEAN /\ told' \in [Tasks -> Seq(Events)]
  BY <1>1, <1>2 DEF CliTyped
<1>5. TaskInv'
  <2>1. Calm(worker[w], worker'[w], {})
    BY <1>2, CalmSelf
  <2>2. \A j \in Tasks : LifeStep(w, j)
    BY <1>2, <1>3 DEF LifeStep, Open, At
  <2>3. \A j \in Tasks : Reviewing(w, j)'
    BY <1>2 DEF Reviewing
  <2> QED BY <1>1, <1>2, <1>4, <2>1, <2>2, <2>3, CalmStill
<1> QED BY <1>2, <1>3, <1>4, <1>5, NoteStep

\* A review begins.
LEMMA BeginReviewShows ==
  ASSUME ClaudeInv, Shows, NEW w \in Workers, NEW k \in Tasks, BeginReview(w, k)
  PROVE  Shows'
<1>1. CliTyped /\ OwnTurn /\ TaskInv /\ Replies /\ AnswerIsItsOwn
  BY DEF Shows
<1> DEFINE W == worker[w]
           H == Heard(W)
           E == Claims(Finished(H, k), k, TRUE)
           act == H.active \/ Misread(H)
           I == [H EXCEPT !.active = act]
<1>2. /\ W \in ClaudeWorker /\ W.child \notin {"unborn", "closed"}
      /\ UNCHANGED <<at, told, reply, muddled>> /\ At(k, w, {"runs", "owed"})
      /\ cli[w].mode = "idle" /\ Mode(w, "review", k) /\ Moves(k, w, "done")
      /\ (cli[w].style = "envelope" /\ Keep(E, w)) \/ (cli[w].style = "init" /\ Keep(I, w))
  <2>1. /\ Hears(w) /\ UNCHANGED <<at, told, reply, muddled>> /\ At(k, w, {"runs", "owed"})
        /\ cli[w].mode = "idle" /\ Mode(w, "review", k) /\ Moves(k, w, "done")
    BY DEF BeginReview, historyVars, At
  <2>2. H \in ClaudeWorker
    BY <2>1, HearsIt, Hearings DEF Same
  <2>3. (cli[w].style = "envelope" /\ Keep(E, w)) \/ (cli[w].style = "init" /\ Keep(I, w))
    BY <2>2 DEF BeginReview, Announced, ClaudeWorker
  <2> QED BY <2>1, <2>3, HearsIt
<1>3. /\ life' \in [Tasks -> [at : {"new", "runs", "collected", "owed", "done"}, by : Workers \cup {None}]]
      /\ life'[k].at = "done" /\ life'[k].by = None /\ \A j \in Tasks : j # k => life'[j] = life[j]
  BY <1>1, <1>2, Moved
<1>4. /\ cli' \in [Workers -> CLI] /\ \A v \in Workers : v # w => cli'[v] = cli[v]
      /\ cli'[w].mode = "review" /\ cli'[w].who = k /\ cli'[w].tool = FALSE
      /\ cli'[w].style = cli[w].style /\ cli'[w].stdin = cli[w].stdin
  BY <1>1, <1>2, Moded
<1>5. W.active # TRUE /\ Tame(W)
  BY <1>1, <1>2 DEF OwnTurn, Attend
<1>6. /\ H \in ClaudeWorker /\ H.pending = W.pending /\ H.child = W.child
      /\ H.active = W.active /\ Calm(W, H, {}) /\ Steady(W, H)
  BY <1>2, Hearings, HeardCalm DEF Same
<1> HIDE DEF H
<1>7. /\ E.pending = H.pending /\ E.child = H.child
      /\ E.tool = H.tool /\ E.collected = H.collected
      /\ \A j \in Tasks : E.tracked[j] # "no" => H.tracked[j] # "no"
      /\ E.notice # None /\ E.notice.task = k /\ E.active = TRUE /\ E.queue = H.queue
  <2>1. E.pending = H.pending /\ E.child = H.child
    BY <1>6, ClaimsSlot DEF Grows, Same
  <2> DEFINE yes == TRUE
             D == Claims(Finished(H, k), k, yes)
  <2>2. yes \in BOOLEAN /\ yes = TRUE
    OBVIOUS
  <2> HIDE DEF yes
  <2>3. Claimed(H, D, k, yes)
    BY <1>6, <2>2, ClaimsCalm
  <2>4. E = D
    BY <2>2
  <2> HIDE DEF E, D
  <2> QED BY <1>5, <1>6, <2>1, <2>2, <2>3, <2>4 DEF Claimed
<1>8. /\ I.pending = H.pending /\ I.child = H.child /\ I.tool = H.tool
      /\ I.collected = H.collected /\ I.tracked = H.tracked /\ I.queue = H.queue
  BY <1>6 DEF ClaudeWorker
<1> HIDE DEF E, I
<1>9. PICK V \in {E, I} : Keep(V, w) /\ (cli[w].style = "envelope" => V = E)
  BY <1>2
<1>10. worker'[w] = V /\ \A v \in Workers : v # w => worker'[v] = worker[v]
  BY <1>9 DEF Keep, ClaudeInv, Typed
<1>11. /\ V.pending = W.pending /\ V.child = W.child /\ V.collected = W.collected /\ Tame(V)
       /\ \A j \in Tasks : V.tracked[j] # "no" => W.tracked[j] # "no"
       /\ cli[w].style = "envelope" => V.active = TRUE /\ V.notice # None /\ V.notice.task = k
  <2>1. /\ Tame(H) /\ H.collected = W.collected
        /\ \A j \in Tasks : H.tracked[j] # "no" => W.tracked[j] # "no"
    BY <1>5, <1>6 DEF Calm
  <2>2. CASE V = E
    BY <1>6, <1>7, <2>1, <2>2 DEF Tame
  <2>3. CASE V = I
    BY <1>6, <1>8, <1>9, <1>7, <2>1, <2>3 DEF Tame
  <2> QED BY <1>9, <2>2, <2>3
<1>12. Replies' /\ AnswerIsItsOwn' /\ (Early' <=> Early)
  BY <1>1, <1>2, NoAnswer
<1>13. /\ Attend(worker'[w], cli'[w]) /\ Apart(worker'[w], cli'[w])
       /\ Early' \/ worker'[w].child # "live" \/ Orderly(worker'[w], cli'[w])
  <2>1. Early \/ V.child # "live" \/ Orderly(V, cli'[w])
    BY <1>1, <1>4, <1>11 DEF OwnTurn, Orderly, Live
  <2> QED BY <1>4, <1>10, <1>11, <1>12, <2>1 DEF Attend, Apart
<1>14. muddled' \in BOOLEAN /\ told' \in [Tasks -> Seq(Events)] /\ reply' \in [Turns -> Answers]
  BY <1>1, <1>2 DEF CliTyped
<1>15. TaskInv'
  <2>1. \A j \in Tasks : LifeStep(w, j)
    BY <1>2, <1>3, <1>10, <1>11 DEF LifeStep, Open, At
  <2>2. ASSUME NEW j \in Tasks PROVE Untouched(w, j)
    <3>1. Open(w, j)' => Open(w, j)
      BY <1>2, <1>3, <1>4, <1>10, <1>11 DEF Open, At
    <3> QED BY <1>2, <1>10, <1>11, <3>1 DEF Untouched
  <2>3. \A j \in Tasks : Reviewing(w, j)'
    BY <1>3, <1>4, <1>10, <1>11 DEF Reviewing
  <2>4. \A v \in Workers : v # w => (worker'[v] = worker[v] /\ cli'[v] = cli[v]) \/ Fresh(v)
    BY <1>4, <1>10
  <2> QED BY <1>1, <1>2, <1>10, <1>11, <1>14, <2>1, <2>2, <2>3, <2>4, TaskStep
<1> QED BY <1>2, <1>3, <1>4, <1>10, <1>11, <1>12, <1>13, <1>14, <1>15, LineStep

\* What the end of the review of k leaves of a worker that was W.
OverFor(w, W, k) ==
  /\ k \in Tasks \cup {None}
  /\ \A v \in Workers : v # w => worker'[v] = worker[v]
  /\ worker'[w].active # TRUE /\ Tame(worker'[w]) /\ worker'[w].tool = W.tool
  /\ worker'[w].pending = W.pending /\ worker'[w].child = W.child
  /\ \A j \in Tasks : worker'[w].tracked[j] # "no" => W.tracked[j] # "no"
  /\ \A j \in Tasks : j # k => (j \in worker'[w].collected <=> j \in W.collected)
  /\ k \in worker'[w].collected => k \in W.collected
  /\ k \in Tasks /\ k \notin W.collected =>
       worker'[w].tracked[k] = "no" /\ told'[k] = Append(told[k], "review")
  /\ k \in W.collected \/ k \notin Tasks => told' = told
  /\ \A j \in Tasks : j # k => told'[j] = told[j]
  /\ told' \in [Tasks -> Seq(Events)]
  /\ \A t \in Turns : at[t] = "answered" => at'[t] = "answered"

\* The result of a review does just that.
LEMMA ReviewedCalm ==
  ASSUME ClaudeInv, CliTyped, NEW w \in Workers, NEW W \in ClaudeWorker, Tame(W),
         NEW id \in Tasks \cup {None}, ReviewResult(w, W, id), NEW k, k = ReviewOf(W, id)
  PROVE  OverFor(w, W, k)
<1> DEFINE settles == W.pending # None /\ TurnOf(W, k) = W.pending
           clear == [W EXCEPT !.notice = None, !.active = FALSE]
           free == InstallNext(clear)
           c == free.collected \ {k}
           aside == [free EXCEPT !.collected = c]
           ks == {k} \cap Tasks
           F == Forget(free, ks)
           settled == [F EXCEPT !.settling = @ \/ settles]
<1>1. /\ Wake(w, free, grace, "line")
      /\ \/ k # None /\ k \in W.collected /\ Keep(aside, w) /\ told' = told
         \/ /\ ~(k # None /\ k \in W.collected) /\ Keep(settled, w)
            /\ IF k # None THEN Event(k, "review") ELSE told' = told
  <2>1. /\ Wake(w, free, grace, "line")
        /\ IF k # None /\ k \in W.collected
           THEN Keep([free EXCEPT !.collected = @ \ {k}], w) /\ UNCHANGED told
           ELSE /\ Keep(settled, w)
                /\ IF k # None THEN Event(k, "review") ELSE UNCHANGED told
    BY DEF ReviewResult
  <2>2. clear \in ClaudeWorker
    BY DEF ClaudeWorker
  <2> HIDE DEF clear
  <2>3. free \in ClaudeWorker
    BY <2>2, Installs DEF Grows, Same
  <2>4. aside = [free EXCEPT !.collected = @ \ {k}]
    BY <2>3 DEF ClaudeWorker
  <2> HIDE DEF free, aside, settled
  <2> QED BY <2>1, <2>4
<1>2. k \in Tasks \cup {None} /\ W.collected \subseteq Tasks
  BY DEF ReviewOf, ClaudeWorker, Notice
<1>3. /\ clear \in ClaudeWorker /\ clear.pending = W.pending /\ clear.child = W.child /\ clear.active = FALSE
      /\ clear.tool = W.tool /\ clear.queue = W.queue /\ clear.tracked = W.tracked
      /\ clear.collected = W.collected
  BY DEF ClaudeWorker
<1> HIDE DEF clear
<1>4. Tame(clear)
  BY <1>3 DEF Tame
<1>5. /\ free \in ClaudeWorker /\ free.pending = clear.pending /\ free.child = clear.child
      /\ Calm(clear, free, {}) /\ free.tracked = clear.tracked /\ free.collected = clear.collected
      /\ free.tool = clear.tool
  BY <1>3, <1>4, Installs, InstallCalm DEF Grows, Same
<1> HIDE DEF free
<1>6. free.active # TRUE /\ Tame(free)
  BY <1>3, <1>4, <1>5 DEF Calm
<1>7. \A t \in Turns : at[t] = "answered" => at'[t] = "answered"
  BY <1>1 DEF Wake, Waiting
<1>8. told \in [Tasks -> Seq(Events)]
  BY DEF CliTyped
<1>9. CASE k # None /\ k \in W.collected /\ Keep(aside, w) /\ told' = told
  <2> HIDE DEF c
  <2>1. /\ aside.active = free.active /\ aside.queue = free.queue /\ aside.tool = free.tool
        /\ aside.pending = free.pending /\ aside.child = free.child /\ aside.tracked = free.tracked
        /\ aside.collected = c
    BY <1>5 DEF ClaudeWorker
  <2>2. worker'[w] = aside /\ \A v \in Workers : v # w => worker'[v] = worker[v]
    BY <1>9 DEF Keep, ClaudeInv, Typed
  <2> HIDE DEF aside
  <2>3. Tame(aside)
    BY <1>6, <2>1 DEF Tame
  <2> QED BY <1>2, <1>3, <1>5, <1>6, <1>7, <1>8, <1>9, <2>1, <2>2, <2>3 DEF c, OverFor
<1>10. CASE /\ ~(k # None /\ k \in W.collected) /\ Keep(settled, w)
            /\ IF k # None THEN Event(k, "review") ELSE told' = told
  <2>1. \A j : j \in ks <=> j = k /\ k \in Tasks
    OBVIOUS
  <2> HIDE DEF ks
  <2>2. /\ F \in ClaudeWorker /\ F.pending = free.pending /\ F.child = free.child
        /\ Calm(free, F, {}) /\ Steady(free, F) /\ F.active = free.active
        /\ \A j \in Tasks : F.tracked[j] = IF j \in ks THEN "no" ELSE free.tracked[j]
    <3>1. Same(free, F) /\ F.active = free.active
      BY <1>5, Forgets
    <3>2. /\ Calm(free, F, {}) /\ Steady(free, F)
          /\ \A j \in Tasks : F.tracked[j] = IF j \in ks THEN "no" ELSE free.tracked[j]
      BY <1>5, ForgetCalm
    <3> QED BY <3>1, <3>2 DEF Same
  <2> HIDE DEF F, settles
  <2>3. /\ settled.active = F.active /\ settled.queue = F.queue /\ settled.tool = F.tool
        /\ settled.pending = F.pending /\ settled.child = F.child /\ settled.tracked = F.tracked
        /\ settled.collected = F.collected
    BY <2>2 DEF ClaudeWorker
  <2>4. worker'[w] = settled /\ \A v \in Workers : v # w => worker'[v] = worker[v]
    BY <1>10 DEF Keep, ClaudeInv, Typed
  <2> HIDE DEF settled
  <2>5. Tame(settled) /\ settled.tool = free.tool /\ settled.collected = free.collected
    BY <1>6, <2>2, <2>3 DEF Tame, Calm, Steady
  <2>6. /\ told' \in [Tasks -> Seq(Events)]
        /\ k \in Tasks => told'[k] = Append(told[k], "review")
        /\ k \notin Tasks => told' = told
        /\ \A j \in Tasks : j # k => told'[j] = told[j]
    <3>1. CASE k \in Tasks
      <4>1. k # None
        BY <3>1, ClaudeAssumption
      <4> QED BY <1>10, <3>1, <4>1, EventTyped DEF Events
    <3>2. CASE k \notin Tasks
      BY <1>2, <1>8, <1>10, <3>2
    <3> QED BY <3>1, <3>2
  <2>7. k \notin W.collected
    BY <1>2, <1>10, ClaudeAssumption
  <2>8. /\ \A j \in Tasks : settled.tracked[j] # "no" => W.tracked[j] # "no"
        /\ k \in Tasks => settled.tracked[k] = "no"
    BY <1>3, <1>5, <2>1, <2>2, <2>3
  <2>9. /\ settled.active # TRUE /\ settled.pending = W.pending /\ settled.child = W.child
        /\ settled.tool = W.tool /\ settled.collected = W.collected
    BY <1>3, <1>5, <1>6, <2>2, <2>3, <2>5
  <2> QED BY <1>2, <1>7, <2>4, <2>5, <2>6, <2>7, <2>8, <2>9 DEF OverFor
<1> QED BY <1>1, <1>9, <1>10

\* A review runs for the task it is taken for, and that task is still to be told.
LEMMA ReviewIs ==
  ASSUME CliTyped, TaskInv, ~muddled, NEW w \in Workers, worker[w] \in ClaudeWorker, cli[w].mode = "review",
         NEW id, id = IF cli[w].style = "init" THEN cli[w].who ELSE None
  PROVE  /\ ReviewOf(worker[w], id) = cli[w].who /\ cli[w].who \in Tasks
         /\ life[cli[w].who].at = "done" /\ Open(w, cli[w].who)
         /\ cli[w].who \in worker[w].collected =>
              worker[w].tracked[cli[w].who] = "no" /\ ~Silent(cli[w].who)
         /\ cli[w].who \notin worker[w].collected => Silent(cli[w].who)
<1>1. cli[w].who \in Tasks /\ cli[w].who # None /\ cli[w].style \in {"envelope", "init"}
  BY ClaudeAssumption DEF CliTyped, CLI
<1>2. PICK k \in Tasks : k = cli[w].who
  BY <1>1
<1>3. TaskOf(w, k) /\ Open(w, k)
  BY <1>2 DEF TaskInv, Open
<1>4. ReviewOf(worker[w], id) = k
  BY <1>1, <1>2, <1>3 DEF ReviewOf, TaskOf, Reviewing
<1> QED BY <1>2, <1>3, <1>4 DEF TaskOf, Reviewing

\* A review ends.
LEMMA EndReviewShows ==
  ASSUME ClaudeInv, Shows, NEW w \in Workers, EndReview(w)
  PROVE  Shows'
<1>1. CliTyped /\ OwnTurn /\ TaskInv /\ Replies /\ AnswerIsItsOwn
  BY DEF Shows
<1> DEFINE W == worker[w]
<1>5. PICK id : id = IF cli[w].style = "init" THEN cli[w].who ELSE None
  OBVIOUS
<1>6. PICK k : k = ReviewOf(W, id)
  OBVIOUS
<1>2. /\ W \in ClaudeWorker /\ W.child \notin {"unborn", "closed"}
      /\ UNCHANGED <<life, reply, muddled>>
      /\ cli[w].mode = "review" /\ Mode(w, "idle", None) /\ ReviewResult(w, W, id)
  BY <1>5, HearsIt DEF EndReview
<1>3. /\ cli' \in [Workers -> CLI] /\ \A v \in Workers : v # w => cli'[v] = cli[v]
      /\ cli'[w].mode = "idle" /\ cli'[w].tool = FALSE /\ cli'[w].stdin = cli[w].stdin
  BY <1>1, <1>2, Moded
<1>4. id \in Tasks \cup {None} /\ Tame(W)
  BY <1>1, <1>2, <1>5 DEF CliTyped, OwnTurn, Attend
<1>7. OverFor(w, W, k)
  BY <1>1, <1>2, <1>4, <1>6, ReviewedCalm
<1>8. Replies' /\ AnswerIsItsOwn' /\ (Early' <=> Early)
  BY <1>1, <1>2, <1>7, NoAnswer DEF OverFor
<1>9. /\ Attend(worker'[w], cli'[w]) /\ Apart(worker'[w], cli'[w])
      /\ Early' \/ worker'[w].child # "live" \/ Orderly(worker'[w], cli'[w])
  BY <1>1, <1>3, <1>7, <1>8 DEF Attend, Apart, OwnTurn, Orderly, Live, OverFor
<1>10. muddled' \in BOOLEAN /\ reply' \in [Turns -> Answers]
       /\ life' \in [Tasks -> [at : {"new", "runs", "collected", "owed", "done"}, by : Workers \cup {None}]]
  BY <1>1, <1>2 DEF CliTyped
<1>11. TaskInv'
  <2>1. CASE muddled
    BY <1>2, <2>1 DEF TaskInv
  <2>2. CASE ~muddled
    <3>1. /\ k = cli[w].who /\ k \in Tasks /\ life[k].at = "done" /\ Open(w, k)
          /\ k \in W.collected => W.tracked[k] = "no"
          /\ k \notin W.collected => Silent(k)
      BY <1>1, <1>2, <1>5, <1>6, <2>2, ReviewIs
    <3>2. \A j \in Tasks : LifeStep(w, j) /\ Reviewing(w, j)'
      BY <1>2, <1>3 DEF LifeStep, Reviewing
    <3>3. ASSUME NEW j \in Tasks PROVE Untouched(w, j) \/ Over(w, j)
      <4>1. CASE j = k
        <5>1. worker'[w].tracked[k] = "no"
          BY <1>7, <3>1 DEF OverFor
        <5>2. ~Open(w, k)'
          BY <1>2, <1>3, <3>1, <5>1 DEF Open, At
        <5> QED BY <1>7, <3>1, <4>1, <5>2 DEF Over, OverFor
      <4>2. CASE j # k
        <5>1. Open(w, j)' => Open(w, j)
          BY <1>2, <1>3, <1>7 DEF Open, At, OverFor
        <5> QED BY <1>7, <4>2, <5>1 DEF Untouched, OverFor
      <4> QED BY <4>1, <4>2
    <3>4. \A v \in Workers : v # w => (worker'[v] = worker[v] /\ cli'[v] = cli[v]) \/ Fresh(v)
      BY <1>3, <1>7 DEF OverFor
    <3> QED BY <1>1, <1>2, <1>7, <1>10, <3>2, <3>3, <3>4, TaskStep DEF OverFor
  <2> QED BY <1>1, <2>1, <2>2 DEF CliTyped
<1> QED BY <1>2, <1>3, <1>7, <1>8, <1>9, <1>10, <1>11, LineStep DEF OverFor

\* A task ends within the turn that waits for it.
LEMMA FoldShows ==
  ASSUME ClaudeInv, Shows, NEW w \in Workers, NEW k \in Tasks, FoldCompletion(w, k)
  PROVE  Shows'
<1>1. CliTyped /\ OwnTurn /\ TaskInv /\ Replies /\ AnswerIsItsOwn
  BY DEF Shows
<1> DEFINE W == worker[w]
           N == Notified(W, k)
<1>2. /\ W \in ClaudeWorker /\ W.child \notin {"unborn", "closed"}
      /\ UNCHANGED <<reply, muddled>>
      /\ cli[w].mode = "turn" /\ At(k, w, {"runs"}) /\ W.tracked[k] # "no"
      /\ Moves(k, w, "done") /\ (Mode(w, "idle", None) \/ cli' = cli)
      /\ ReviewResult(w, N, None)
  BY HearsIt DEF FoldCompletion
<1>3. /\ life' \in [Tasks -> [at : {"new", "runs", "collected", "owed", "done"}, by : Workers \cup {None}]]
      /\ life'[k].at = "done" /\ life'[k].by = None /\ \A j \in Tasks : j # k => life'[j] = life[j]
  BY <1>1, <1>2, Moved
<1>4. /\ cli' \in [Workers -> CLI] /\ \A v \in Workers : v # w => cli'[v] = cli[v]
      /\ cli'[w].mode = "idle" \/ (cli'[w].mode = "turn" /\ cli'[w].who = cli[w].who)
      /\ cli'[w].tool = TRUE => cli'[w].mode = "turn" /\ cli[w].tool = TRUE
      /\ cli'[w].stdin = cli[w].stdin
  <2>1. CASE Mode(w, "idle", None)
    BY <1>1, <2>1, Moded
  <2>2. CASE cli' = cli
    BY <1>1, <1>2, <2>2 DEF CliTyped
  <2> QED BY <1>2, <2>1, <2>2
<1>5. (muddled \/ W.active # TRUE) /\ Tame(W)
  BY <1>1, <1>2 DEF OwnTurn, Attend, Apart
<1>6. /\ N \in ClaudeWorker /\ N.pending = W.pending /\ N.child = W.child
      /\ Calm(W, N, {}) /\ N.tool = W.tool
      /\ muddled \/ (N.notice # None /\ N.notice.task = k)
  <2>1. N \in ClaudeWorker /\ N.pending = W.pending /\ N.child = W.child
    BY <1>2, Notifies DEF Grows, Same
  <2>2. /\ Calm(W, N, {}) /\ N.tool = W.tool
        /\ W.active # TRUE /\ W.tracked[k] # "no" => N.notice # None /\ N.notice.task = k
    BY <1>2, NotifiedCalm
  <2> HIDE DEF N
  <2> QED BY <1>2, <1>5, <2>1, <2>2
<1> HIDE DEF N
<1>7. PICK id : id = ReviewOf(N, None)
  OBVIOUS
<1>17. (muddled \/ id = k) /\ Tame(N) /\ N.collected = W.collected
  BY <1>5, <1>6, <1>7 DEF ReviewOf, Calm
<1>8. /\ \A v \in Workers : v # w => worker'[v] = worker[v]
      /\ worker'[w].active # TRUE /\ Tame(worker'[w]) /\ worker'[w].tool = W.tool
      /\ worker'[w].pending = W.pending /\ worker'[w].child = W.child
      /\ \A j \in Tasks : worker'[w].tracked[j] # "no" => N.tracked[j] # "no"
      /\ muddled \/ /\ \A j \in Tasks : j # k => (j \in worker'[w].collected <=> j \in W.collected)
                    /\ k \in worker'[w].collected => k \in W.collected
                    /\ k \notin W.collected =>
                         worker'[w].tracked[k] = "no" /\ told'[k] = Append(told[k], "review")
                    /\ \A j \in Tasks : j # k => told'[j] = told[j]
      /\ told' \in [Tasks -> Seq(Events)]
      /\ \A t \in Turns : at[t] = "answered" => at'[t] = "answered"
  <2>1. OverFor(w, N, id)
    BY <1>1, <1>2, <1>6, <1>7, <1>17, ReviewedCalm
  <2> QED BY <1>6, <1>17, <2>1 DEF OverFor
<1>9. \A j \in Tasks : worker'[w].tracked[j] # "no" => W.tracked[j] # "no"
  BY <1>6, <1>8 DEF Calm
<1>10. Replies' /\ AnswerIsItsOwn' /\ (Early' <=> Early)
  BY <1>1, <1>2, <1>8, NoAnswer
<1>11. /\ Attend(worker'[w], cli'[w]) /\ Apart(worker'[w], cli'[w])
       /\ Early' \/ worker'[w].child # "live" \/ Orderly(worker'[w], cli'[w])
  <2>1. Attend(worker'[w], cli'[w]) /\ Apart(worker'[w], cli'[w])
    BY <1>8 DEF Attend, Apart
  <2>2. Early \/ W.child # "live" \/ Orderly(W, cli[w])
    BY <1>1 DEF OwnTurn, Live
  <2>3. Orderly(W, cli[w]) => Orderly(worker'[w], cli'[w])
    BY <1>2, <1>4, <1>8 DEF Orderly
  <2> QED BY <1>8, <1>10, <2>1, <2>2, <2>3
<1>12. muddled' \in BOOLEAN /\ reply' \in [Turns -> Answers]
  BY <1>1, <1>2 DEF CliTyped
<1>13. TaskInv'
  <2>1. CASE muddled
    BY <1>2, <2>1 DEF TaskInv
  <2>2. CASE ~muddled
    <3>1. Open(w, k) /\ Silent(k) /\ k \notin W.collected
      BY <1>1, <1>2, <2>2 DEF TaskInv, TaskOf, Open
    <3>2. \A j \in Tasks : LifeStep(w, j) /\ Reviewing(w, j)'
      BY <1>2, <1>3, <1>4, <1>8, <3>1 DEF LifeStep, Reviewing
    <3>3. ASSUME NEW j \in Tasks PROVE Untouched(w, j) \/ Over(w, j)
      <4>1. CASE j = k
        <5>2. ~Open(w, k)'
          BY <1>3, <1>4, <1>8, <2>2, <3>1 DEF Open, At
        <5> QED BY <1>8, <2>2, <3>1, <4>1, <5>2 DEF Over
      <4>2. CASE j # k
        <5>1. Open(w, j)' => Open(w, j)
          BY <1>2, <1>3, <1>4, <1>8, <1>9, <4>2 DEF Open, At
        <5> QED BY <1>8, <1>9, <2>2, <4>2, <5>1 DEF Untouched
      <4> QED BY <4>1, <4>2
    <3>4. \A v \in Workers : v # w => (worker'[v] = worker[v] /\ cli'[v] = cli[v]) \/ Fresh(v)
      BY <1>4, <1>8
    <3> QED BY <1>1, <1>2, <1>8, <1>12, <3>2, <3>3, <3>4, TaskStep
  <2> QED BY <1>1, <2>1, <2>2 DEF CliTyped
<1>14. cli'[w].mode = "turn" => cli'[w].who \in Turns
  BY <1>1, <1>2, <1>4 DEF CliTyped
<1>15. /\ worker'[w].child # "unborn" /\ told' \in [Tasks -> Seq(Events)]
       /\ \A v \in Workers : v # w => worker'[v] = worker[v] /\ cli'[v] = cli[v]
       /\ cli'[w].mode = "review" => cli'[w].who \in Tasks
       /\ cli'[w].tool = TRUE => cli'[w].mode = "turn"
  BY <1>2, <1>4, <1>8
<1> QED BY <1>2, <1>3, <1>4, <1>10, <1>11, <1>12, <1>13, <1>14, <1>15, LineStep

\* A turn ends.
LEMMA EndTurnShows ==
  ASSUME ClaudeInv, Shows, NEW w \in Workers, EndTurn(w)
  PROVE  Shows'
<1>1. CliTyped /\ OwnTurn /\ TaskInv /\ Replies /\ AnswerIsItsOwn
  BY DEF Shows
<1> DEFINE W == worker[w]
           p == W.pending
           clear == [W EXCEPT !.notice = None]
           free == InstallNext(clear)
           whose == IF Live(w) THEN cli[w].who ELSE "killed"
<1>2. /\ W \in ClaudeWorker /\ W.child \notin {"unborn", "closed"} /\ Tame(W)
      /\ cli[w].mode = "turn" /\ cli[w].who \in Turns /\ Mode(w, "idle", None)
      /\ UNCHANGED <<life, muddled>>
      /\ \/ W.active = TRUE /\ ReviewResult(w, W, None) /\ reply' = reply
         \/ W.active # TRUE /\ Result(w, W)
  <2>1. Tame(W) /\ cli[w].mode = "turn" /\ cli[w].who \in Turns
    BY <1>1 DEF EndTurn, OwnTurn, Attend, CliTyped
  <2>2. W \in ClaudeWorker /\ W.child \notin {"unborn", "closed"}
    BY HearsIt DEF EndTurn
  <2>3. W.active \in BOOLEAN
    BY <2>2 DEF ClaudeWorker
  <2> QED BY <2>1, <2>2, <2>3 DEF EndTurn
<1>3. /\ cli' \in [Workers -> CLI] /\ \A v \in Workers : v # w => cli'[v] = cli[v]
      /\ cli'[w].mode = "idle" /\ cli'[w].tool = FALSE /\ cli'[w].stdin = cli[w].stdin
  BY <1>1, <1>2, Moded
<1>4. Early \/ ~Live(w) \/ (cli[w].who = p /\ cli[w].stdin = <<>>)
  BY <1>1, <1>2 DEF OwnTurn, Orderly
<1>5. CASE W.active = TRUE /\ ReviewResult(w, W, None) /\ reply' = reply
  <2>1. muddled
    BY <1>1, <1>2, <1>5 DEF OwnTurn, Apart
  <2>2. PICK k : k = ReviewOf(W, None)
    OBVIOUS
  <2>3. OverFor(w, W, k)
    BY <1>1, <1>2, <1>5, <2>2, ReviewedCalm
  <2>4. Replies' /\ AnswerIsItsOwn' /\ (Early' <=> Early)
    BY <1>1, <1>5, <2>3, NoAnswer DEF OverFor
  <2>5. /\ Attend(worker'[w], cli'[w]) /\ Apart(worker'[w], cli'[w])
        /\ Early' \/ worker'[w].child # "live" \/ Orderly(worker'[w], cli'[w])
    BY <1>1, <1>3, <1>4, <2>3, <2>4 DEF Attend, Apart, Orderly, Live, OverFor
  <2>6. TaskInv' /\ muddled' \in BOOLEAN
    BY <1>1, <1>2, <2>1 DEF TaskInv, CliTyped
  <2>7. /\ life' \in [Tasks -> [at : {"new", "runs", "collected", "owed", "done"}, by : Workers \cup {None}]]
        /\ reply' \in [Turns -> Answers]
    BY <1>1, <1>2, <1>5 DEF CliTyped
  <2> QED BY <1>2, <1>3, <2>3, <2>4, <2>5, <2>6, <2>7, LineStep DEF OverFor
<1>6. ASSUME W.active # TRUE, told' = told, NEW V, Keep(V, w), Calm(W, V, {}), V.child = W.child,
             Replies' /\ AnswerIsItsOwn', Early => Early', reply' \in [Turns -> Answers]
      PROVE  Shows'
  <2>1. worker'[w] = V /\ \A v \in Workers : v # w => worker'[v] = worker[v]
    BY <1>6 DEF Keep, ClaudeInv, Typed
  <2>2. /\ Attend(worker'[w], cli'[w]) /\ Apart(worker'[w], cli'[w])
        /\ Early' \/ worker'[w].child # "live" \/ Orderly(worker'[w], cli'[w])
    BY <1>2, <1>3, <1>4, <1>6, <2>1 DEF Attend, Apart, Calm, Orderly, Live
  <2>3. \A k \in Tasks : LifeStep(w, k) /\ Reviewing(w, k)'
    BY <1>2, <1>3 DEF LifeStep, Reviewing
  <2>4. muddled' \in BOOLEAN /\ told' \in [Tasks -> Seq(Events)]
        /\ life' \in [Tasks -> [at : {"new", "runs", "collected", "owed", "done"}, by : Workers \cup {None}]]
    BY <1>1, <1>2, <1>6 DEF CliTyped
  <2>5. TaskInv'
    BY <1>1, <1>2, <1>3, <1>6, <2>1, <2>3, <2>4, CalmStill
  <2> QED BY <1>2, <1>3, <1>6, <2>1, <2>2, <2>4, <2>5, LineStep
<1>7. /\ Calm(W, NoTurn(W), {}) /\ NoTurn(W).child = W.child
      /\ Calm(W, Refreshed(NoTurn(W)), {}) /\ Refreshed(NoTurn(W)).child = W.child
  BY <1>2, TurnGoneCalm
<1>8. reply \in [Turns -> Answers]
  BY <1>1 DEF CliTyped
<1>9. CASE W.active # TRUE /\ told' = told /\ p # None /\ Keep(Refreshed(NoTurn(W)), w) /\ Answered(w, p, cli[w].who)
  <2>1. reply' = [reply EXCEPT ![p] = whose] /\ at' = [at EXCEPT ![p] = "answered"]
    BY <1>9 DEF Answered
  <2>2. whose \in Answers /\ (whose \in {"cut"} \cup (Turns \ {p}) => Early)
    <3>1. CASE Live(w)
      BY <1>2, <1>4, <3>1, ClaudeAssumption DEF Answers
    <3>2. CASE ~Live(w)
      BY <3>2, ClaudeAssumption DEF Answers
    <3> QED BY <3>1, <3>2
  <2> HIDE DEF whose
  <2>3. Replies' /\ AnswerIsItsOwn' /\ (Early => Early')
    BY <1>1, <1>8, <1>9, <2>1, <2>2, AnswerStep
  <2>4. reply' \in [Turns -> Answers]
    BY <1>8, <2>1, <2>2
  <2> QED BY <1>6, <1>7, <1>9, <2>3, <2>4
<1>10. CASE W.active # TRUE /\ told' = told /\ p # None /\ Keep(NoTurn(W), w)
            /\ at' = [at EXCEPT ![p] = "failed"] /\ reply' = reply
  <2>1. \A t \in Turns : at[t] = "answered" => at'[t] = "answered"
    BY <1>10, PendingIs
  <2>2. Replies' /\ AnswerIsItsOwn' /\ (Early' <=> Early)
    BY <1>1, <1>10, <2>1, NoAnswer
  <2> QED BY <1>6, <1>7, <1>8, <1>10, <2>2
<1>11. CASE W.active # TRUE /\ told' = told /\ p = None /\ Keep(free, w)
            /\ Wake(w, free, grace, "line") /\ reply' = reply
  <2>1. /\ clear \in ClaudeWorker /\ clear.child = W.child /\ clear.active = W.active
        /\ clear.queue = W.queue /\ clear.tracked = W.tracked /\ clear.collected = W.collected
    BY <1>2 DEF ClaudeWorker
  <2> HIDE DEF clear
  <2>2. Calm(W, clear, {}) /\ Tame(clear)
    BY <1>2, <2>1 DEF Calm, Tame
  <2>3. Calm(clear, free, {}) /\ free.child = clear.child
    BY <2>1, <2>2, Installs, InstallCalm DEF Grows, Same
  <2> HIDE DEF free
  <2>4. Calm(W, free, {}) /\ free.child = W.child
    BY <2>1, <2>2, <2>3 DEF Calm
  <2>5. \A t \in Turns : at[t] = "answered" => at'[t] = "answered"
    BY <1>11 DEF Wake, Waiting
  <2>6. Replies' /\ AnswerIsItsOwn' /\ (Early' <=> Early)
    BY <1>1, <1>11, <2>5, NoAnswer
  <2> QED BY <1>6, <1>8, <1>11, <2>4, <2>6
<1> QED BY <1>2, <1>9, <1>10, <1>11, <1>5 DEF Result

-----------------------------------------------------------------------------
(* The theorems on what is shown *)

\* Initially nothing was shown.
LEMMA InitShows == Init => Shows
<1> SUFFICES ASSUME Init PROVE Shows
  OBVIOUS
<1>1. /\ Unborn.active = FALSE /\ Unborn.queue = <<>> /\ Unborn.child = "unborn" /\ Unborn.collected = {}
      /\ \A k \in Tasks : Unborn.tracked[k] = "no"
  BY DEF Unborn
<1>2. Idle("envelope") \in CLI /\ Idle("envelope").mode = "idle" /\ Idle("envelope").tool = FALSE
  <2>1. <<>> \in Seq(Turns)
    OBVIOUS
  <2> QED BY <2>1 DEF Idle, CLI
<1>3. /\ \A w \in Workers : worker[w] = Unborn /\ cli[w] = Idle("envelope")
      /\ cli \in [Workers -> CLI]
      /\ \A k \in Tasks : told[k] = <<>> /\ life[k].at = "new" /\ life[k].by = None
      /\ \A t \in Turns : reply[t] = None
  BY <1>2 DEF Init
<1>4. CliTyped
  <2>1. <<>> \in Seq(Events)
    OBVIOUS
  <2>2. told \in [Tasks -> Seq(Events)]
    BY <2>1 DEF Init
  <2>3. life \in [Tasks -> [at : {"new", "runs", "collected", "owed", "done"}, by : Workers \cup {None}]]
    BY DEF Init
  <2>4. reply \in [Turns -> Answers] /\ muddled \in BOOLEAN
    BY DEF Init, Answers
  <2> QED BY <1>2, <1>3, <2>2, <2>3, <2>4 DEF CliTyped
<1>5. OwnTurn
  <2>1. Unborn.active # TRUE
    BY <1>1
  <2>2. \A w \in Workers : Attend(worker[w], cli[w]) /\ Apart(worker[w], cli[w]) /\ ~Live(w)
    <3> SUFFICES ASSUME NEW w \in Workers
                 PROVE  Attend(worker[w], cli[w]) /\ Apart(worker[w], cli[w]) /\ ~Live(w)
      OBVIOUS
    <3>1. worker[w] = Unborn /\ cli[w].mode = "idle"
      BY <1>2, <1>3
    <3>2. \A i \in DOMAIN Unborn.queue : Unborn.queue[i].review = FALSE
      BY <1>1
    <3>3. ~Live(w)
      BY <1>1, <3>1 DEF Live
    <3>4. Attend(Unborn, cli[w]) /\ Apart(Unborn, cli[w])
      BY <2>1, <3>1, <3>2 DEF Attend, Apart, Tame
    <3> QED BY <3>1, <3>3, <3>4
  <2> QED BY <2>2 DEF OwnTurn
<1>6. Replies /\ AnswerIsItsOwn
  BY <1>3, ClaudeAssumption DEF Replies, AnswerIsItsOwn
<1>7. TaskInv
  <2>1. \A k \in Tasks : Silent(k) /\ Once(k)
    BY <1>3 DEF Silent, Once
  <2>2. \A k \in Tasks : \A w \in Workers : TaskOf(w, k)
    BY <1>1, <1>2, <1>3, <2>1, ClaudeAssumption DEF TaskOf, Open, At, Reviewing
  <2> QED BY <2>1, <2>2 DEF TaskInv
<1> QED BY <1>4, <1>5, <1>6, <1>7 DEF Shows

\* Nothing happens.
LEMMA StutterShows == ASSUME Shows, UNCHANGED vars PROVE Shows'
<1>1. UNCHANGED <<worker, at, cli, life, told, reply, muddled>>
  BY DEF vars, adapterVars, historyVars
<1>2. CliTyped' /\ Replies' /\ AnswerIsItsOwn'
  BY <1>1 DEF Shows, CliTyped, Replies, AnswerIsItsOwn
<1>3. OwnTurn'
  BY <1>1 DEF Shows, OwnTurn, Live, Early
<1>4. TaskInv'
  BY <1>1 DEF Shows, TaskInv, TaskOf, Open, At, Reviewing, Silent, Once
<1> QED BY <1>2, <1>3, <1>4 DEF Shows

\* Every step keeps the invariant.
LEMMA NextShows == ASSUME ClaudeInv, Shows, [Next]_vars PROVE Shows'
<1>1. CASE \E t \in Turns : Request(t)
  BY <1>1, RequestShows, TimerShows DEF Request
<1>2. CASE \E w \in Workers : Process(w)
  <2> PICK w \in Workers : Process(w)
    BY <1>2
  <2>1. CASE ReadPrompt(w) \/ Reinit(w) \/ FoldPrompt(w)
    BY <2>1, TurnInitShows, FoldPromptShows
  <2>2. CASE ToolStarts(w) \/ ToolEnds(w)
    BY <2>2, ToolShows
  <2>3. CASE EndReview(w) \/ EndTurn(w)
    BY <2>3, EndReviewShows, EndTurnShows
  <2>4. ASSUME NEW k \in Tasks,
               \/ StartTask(w, k) \/ Collect(w, k) \/ Announce(w, k) \/ Swallow(w, k)
               \/ BeginReview(w, k) \/ FoldCompletion(w, k)
        PROVE  Shows'
    BY <2>4, StartShows, CollectShows, AnnounceShows, SwallowShows, BeginReviewShows, FoldShows
  <2> QED BY <2>1, <2>2, <2>3, <2>4 DEF Process
<1>3. CASE \E w \in Workers : Clock(w)
  BY <1>3, AgeShows, SettleShows, ReapShows, GivesOutShows DEF Clock, GivesOut
<1>4. CASE \E w \in Workers : Close(w)
  BY <1>4, CloseShows
<1>5. CASE UNCHANGED vars
  BY <1>5, StutterShows
<1> QED BY <1>1, <1>2, <1>3, <1>4, <1>5 DEF Next

\* It always holds.
LEMMA ShowsSound == Spec => [](ClaudeInv /\ Shows)
<1>1. Init => ClaudeInv /\ Shows
  BY InitClaude, InitShows
<1>2. (ClaudeInv /\ Shows) /\ [Next]_vars => (ClaudeInv /\ Shows)'
  BY NextClaude, NextShows
<1> QED BY <1>1, <1>2, PTL DEF Spec

\* A request is answered with the result of its own turn, for any number of
\* requests, tasks, reviews and processes, until the result of a task has
\* settled a turn before its own result (handleMessage, result).
THEOREM AnswersAreOwn == Spec => []AnswerIsItsOwn
<1>1. Shows => AnswerIsItsOwn
  BY DEF Shows
<1> QED BY <1>1, ShowsSound, PTL

\* No task is shown twice: not the review of a task that was collected or given
\* up, nor its death after its review (collectedBackgroundTaskIds,
\* settleExpiredTaskNotification, failBackgroundTasks).
THEOREM ShownOnlyOnce == Spec => []ShownOnce
<1>1. Shows => ShownOnce
  BY DEF Shows, TaskInv, Once, ShownOnce
<1> QED BY <1>1, ShowsSound, PTL

\* Only its result ends a review, if its process does not.
LEMMA ReviewEnds ==
  ASSUME ClaudeInv, Shows, [Next]_vars, NEW w \in Workers, cli[w].mode = "review", cli'[w].mode = "idle",
         worker'[w].child # "closed"
  PROVE  EndReview(w)
<1>1. cli \in [Workers -> CLI] /\ worker[w].child # "unborn" /\ worker \in [Workers -> ClaudeWorker]
  BY DEF Shows, CliTyped, ClaudeInv, Typed
<1>2. cli'[w] # cli[w]
  OBVIOUS
<1>3. ASSUME NEW t \in Turns, Request(t) PROVE FALSE
  <2>1. ASSUME NEW workers, Respawn(t, workers) PROVE FALSE
    <3>1. PICK n \in Workers : n = NextWorker /\ worker[n].child = "unborn"
      BY <2>1 DEF Respawn, NextWorker, Unspawned
    <3>2. \E style \in Styles : cli' = [cli EXCEPT ![n] = [Idle(style) EXCEPT !.stdin = <<t>>]]
      BY <2>1, <3>1 DEF Respawn
    <3> QED BY <1>1, <1>2, <3>1, <3>2
  <2>2. ASSUME NEW v, NEW W, Write(t, v, W) PROVE FALSE
    <3> DEFINE C == [cli[v] EXCEPT !.stdin = Append(@, t)]
    <3>1. cli' = [cli EXCEPT ![v] = C]
      BY <2>2 DEF Write
    <3>2. v = w => C.mode = cli[w].mode
      BY <1>1 DEF CLI
    <3> HIDE DEF C
    <3> QED BY <1>1, <3>1, <3>2
  <2>3. ASSUME Go(t) PROVE FALSE
    BY <1>2, <2>1, <2>2, <2>3 DEF Go, Dispatch, Wait, Reconfigure
  <2> QED BY <1>2, <1>3, <2>3 DEF Request, Begin, Resume, Wait, Abort, Down, GraceTimer
<1>4. ASSUME NEW v \in Workers, Process(v) PROVE EndReview(w)
  <2>1. CASE EndReview(v)
    <3>1. v = w
      BY <1>1, <1>2, <2>1 DEF EndReview, Mode
    <3> QED BY <2>1, <3>1
  <2>2. CASE EndTurn(v) \/ \E k \in Tasks : FoldCompletion(v, k)
    BY <1>1, <1>2, <2>2 DEF EndTurn, FoldCompletion, Mode
  <2>3. CASE ReadPrompt(v) \/ \E k \in Tasks : BeginReview(v, k)
    BY <1>1, <1>2, <2>3 DEF ReadPrompt, BeginReview, Mode
  <2>4. CASE FoldPrompt(v)
    <3> DEFINE C == [cli[v] EXCEPT !.stdin = Tail(@)]
    <3>1. cli' = [cli EXCEPT ![v] = C]
      BY <2>4 DEF FoldPrompt
    <3>2. v = w => C.mode = cli[w].mode
      BY <1>1 DEF CLI
    <3> HIDE DEF C
    <3> QED BY <1>1, <3>1, <3>2
  <2>5. CASE ToolStarts(v) \/ ToolEnds(v) \/ Reinit(v)
    BY <1>1, <1>2, <2>5 DEF ToolStarts, ToolEnds, Reinit
  <2>6. CASE \E k \in Tasks : StartTask(v, k) \/ Collect(v, k) \/ Announce(v, k) \/ Swallow(v, k)
    BY <1>2, <2>6 DEF StartTask, Collect, Announce, Swallow
  <2> QED BY <1>4, <2>1, <2>2, <2>3, <2>4, <2>5, <2>6 DEF Process
<1>5. ASSUME NEW v \in Workers, Clock(v) PROVE FALSE
  BY <1>2, <1>5 DEF Clock, GraceExpires, HoursPass, SettleTimer, Reap, GivesOut, Down
<1>6. ASSUME NEW v \in Workers, Close(v) PROVE FALSE
  <2>1. v # w
    BY <1>1, <1>6 DEF Close, Keep, Unborn
  <2> QED BY <1>1, <1>2, <1>6, <2>1 DEF Close
<1>7. CASE UNCHANGED vars
  BY <1>2, <1>7 DEF vars
<1> QED BY <1>3, <1>4, <1>5, <1>6, <1>7 DEF Next

\* The result of a review reaches the task that was reviewed and no other, or
\* that task was reported before (pendingTaskNotification, and the queue behind it).
THEOREM ReviewsReachTasks == Spec => ReviewReachesItsTask
<1>1. ASSUME ClaudeInv, Shows, [Next]_vars
      PROVE  \A w \in Workers : \A k \in Tasks :
               cli[w].mode = "review" /\ cli[w].who = k /\ cli'[w].mode = "idle"
                 /\ worker'[w].child # "closed" =>
                 muddled \/ (told'[k] # <<>> /\ \A j \in Tasks \ {k} : told'[j] = told[j])
  <2> SUFFICES ASSUME NEW w \in Workers, NEW k \in Tasks, cli[w].mode = "review", cli[w].who = k,
                      cli'[w].mode = "idle", worker'[w].child # "closed", ~muddled
               PROVE  told'[k] # <<>> /\ \A j \in Tasks \ {k} : told'[j] = told[j]
    BY DEF Shows, CliTyped
  <2>1. EndReview(w)
    BY <1>1, ReviewEnds
  <2>2. PICK id : id = IF cli[w].style = "init" THEN cli[w].who ELSE None
    OBVIOUS
  <2>3. ReviewResult(w, worker[w], id)
    BY <2>1, <2>2 DEF EndReview
  <2>4. CliTyped /\ TaskInv /\ worker[w] \in ClaudeWorker /\ Tame(worker[w]) /\ id \in Tasks \cup {None}
    BY <1>1, <2>2 DEF Shows, ClaudeInv, Typed, OwnTurn, Attend
  <2>5. k = ReviewOf(worker[w], id) /\ (k \in worker[w].collected => ~Silent(k))
    BY <2>2, <2>4, ReviewIs
  <2>6. OverFor(w, worker[w], k)
    BY <1>1, <2>3, <2>4, <2>5, ReviewedCalm
  <2>7. told[k] \in Seq(Events)
    BY <2>4 DEF CliTyped
  <2>8. told'[k] # <<>>
    <3>1. CASE k \in worker[w].collected
      BY <2>5, <2>6, <3>1 DEF OverFor, Silent
    <3>2. CASE k \notin worker[w].collected
      BY <2>6, <2>7, <3>2 DEF OverFor
    <3> QED BY <3>1, <3>2
  <2> QED BY <2>6, <2>8 DEF OverFor
<1>2. ClaudeInv /\ Shows /\ [Next]_vars =>
        [\A w \in Workers : \A k \in Tasks :
           cli[w].mode = "review" /\ cli[w].who = k /\ cli'[w].mode = "idle"
             /\ worker'[w].child # "closed" =>
             muddled \/ (told'[k] # <<>> /\ \A j \in Tasks \ {k} : told'[j] = told[j])]_vars
  BY <1>1
<1> QED BY <1>2, ShowsSound, PTL DEF ReviewReachesItsTask, Spec
=============================================================================
