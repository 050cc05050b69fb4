--------------------------- MODULE LarkRunsProofs ---------------------------
(***************************************************************************)
(* Theorems about LarkRuns, for any number of messages, modes and cards.   *)
(*                                                                         *)
(* Intake says of the burst, the queue and the carriers what a message's   *)
(* step says of it: they are the same records kept twice.  It is stated    *)
(* over parameters, because a message that submits a burst changes all of  *)
(* them twice in one step: Submitted is the first half, and a lemma        *)
(* per way to park or queue the second.  Slots says who may have the slot. *)
(***************************************************************************)
EXTENDS LarkRuns, SequenceTheorems, TLAPS

Steps == {"new", "parked", "steering", "injecting", "preempting", "merged", "queued",
          "started", "running", "watching", "done", "skipped", "dropped", "steered"}

\* Messages arrive in the order of their numbers.
Ordered(p) == \A x, y \in Messages : x < y /\ p[x] = "new" => p[y] = "new"

\* The members of the burst are the parked messages...
Parked(p, k, b) ==
  /\ \A i \in 1..Len(b) : p[b[i]] = "parked"
  /\ \A m \in Messages : p[m] = "parked" =>
       /\ \E i \in 1..Len(b) : b[i] = m
       /\ k[m] \in {"text", "quote", "attachment"}

\* ...those of the queue the queued ones, each there once.
Queued(p, q) ==
  /\ \A i \in 1..Len(q) : p[q[i]] = "queued"
  /\ \A m \in Messages : p[m] = "queued" => \E i \in 1..Len(q) : q[i] = m
  /\ \A i, j \in 1..Len(q) : q[i] = q[j] => i = j

\* A merged message has a carrier, and the carrier has its turn before it.
Carried(p, k, c) == \A x \in Messages :
  /\ p[x] = "merged" => c[x] # None
  /\ c[x] # None =>
       /\ p[x] = "merged" /\ p[c[x]] \in {"preempting", "queued", "started", "running"}
       /\ k[c[x]] \in {"text", "quote", "attachment"}

\* What only some messages do: steering, and preempting in some modes.
Ways(p, k) == \A m \in Messages :
  /\ p[m] \in {"steering", "injecting"} => k[m] = "text"
  /\ p[m] = "preempting" => Preempts

\* BurstGoesFirst from the arrival of the later message on: an attachment sent
\* before it is not parked, and is not behind it in the queue.
Behind(a, m, p, k) ==
  a < m /\ k[m] \in {"q", "quote"} /\ k[a] = "attachment" /\ ~Preempts
Ahead(p, q, c, a, m) ==
  /\ p[m] \in {"queued", "started", "running"} => p[a] # "parked"
  /\ p[m] \in {"started", "running"} =>
       p[a] # "queued" /\ (p[a] = "merged" => p[c[a]] # "queued")
  /\ \A i, j \in 1..Len(q) :
       q[i] = m /\ (q[j] = a \/ (p[a] = "merged" /\ q[j] = c[a])) => j <= i
InFront(p, k, q, c) ==
  \A a, m \in Messages : Behind(a, m, p, k) => Ahead(p, q, c, a, m)

Intake(p, k, b, q, c) ==
  /\ p \in [Messages -> Steps] /\ k \in [Messages -> Kinds \cup {None}]
  /\ b \in Seq(Messages) /\ q \in Seq(Messages) /\ c \in [Messages -> Messages \cup {None}]
  /\ Ordered(p) /\ Parked(p, k, b) /\ Queued(p, q) /\ Carried(p, k, c) /\ Ways(p, k)
  /\ InFront(p, k, q, c)

\* One task at a time.
Alone ==
  /\ busy \in Messages \cup {None}
  /\ busy # None => pc[busy] \in {"started", "running"}
  /\ \A m \in Messages : pc[m] \in {"started", "running"} => busy = m
  /\ \A m \in Messages : (pc[m] = "watching" => kind[m] = "goal")
                      /\ (pc[m] = "running" => kind[m] # "goal")

Order == Intake(pc, kind, burst, queue, carrier) /\ Alone

\* Only a message that has waited has a card.
Carded ==
  /\ waitCard \in [Messages -> {"none", "sending", "shown", "settled"}] /\ early \subseteq Messages
  /\ \A m \in Messages : waitCard[m] # "none" =>
       pc[m] \notin {"new", "parked", "steering", "injecting", "preempting", "merged"}

\* The slot is had by a run that goes on, by the pursuit while one is live.
Slotted ==
  /\ slot \in Runs \cup {None} /\ seen \in [Messages -> Runs \cup {None}]
  /\ attached \in [Messages -> Runs \cup {None}] /\ host \in [Runs -> Messages \cup {None}]
  /\ tap \in [Cards -> {"idle", "running", "over"}] /\ aborted \subseteq Runs
Slots == NoTap =>
  /\ slot # None => slot \in Messages /\ pc[slot] \in {"running", "watching"}
  /\ \A g \in Messages : attached[g] # None =>
       attached[g] \in Messages /\ pc[attached[g]] # "new" /\ kind[attached[g]] # "goal"
  /\ \A m \in Messages : pc[m] = "watching" /\ m \notin aborted => slot = m
  /\ \A m \in Messages : pc[m] = "running" /\ m \notin aborted => Reachable(m)

Rest ==
  /\ mode \in Modes /\ skip \subseteq Range(queue)
  /\ touches \in 0..MaxTouches /\ stops \in 0..touches

LarkInv == Order /\ Carded /\ NoStaleWaitCard /\ Slotted /\ Slots /\ Rest

-----------------------------------------------------------------------------
(* Sequences. *)

\* A sequence and one more element.
LEMMA Appended ==
  ASSUME NEW S, NEW s \in Seq(S), NEW x \in S
  PROVE  /\ Append(s, x) \in Seq(S)
         /\ Len(s) \in Nat /\ Len(Append(s, x)) = Len(s) + 1
         /\ \A i \in 1..Len(s) : Append(s, x)[i] = s[i]
         /\ Append(s, x)[Len(s) + 1] = x
  OBVIOUS

\* A sequence without its head.
LEMMA Shifted ==
  ASSUME NEW S, NEW s \in Seq(S), s # <<>>
  PROVE  /\ Head(s) \in S /\ Head(s) = s[1] /\ Tail(s) \in Seq(S)
         /\ Len(s) \in Nat /\ Len(s) >= 1 /\ Len(Tail(s)) = Len(s) - 1
         /\ \A i \in 1..Len(Tail(s)) : Tail(s)[i] = s[i + 1]
<1>1. Len(s) \in Nat /\ Len(s) # 0
  BY EmptySeq, LenProperties
<1> QED BY <1>1, HeadTailProperties

\* A sequence without repetition has none once its head is gone.
LEMMA StillDistinct ==
  ASSUME NEW S, NEW s \in Seq(S), NEW r \in Seq(S), Len(s) >= 1, Len(r) = Len(s) - 1,
         \A i \in 1..Len(r) : r[i] = s[i + 1],
         \A i, j \in 1..Len(s) : s[i] = s[j] => i = j
  PROVE  \A i, j \in 1..Len(r) : r[i] = r[j] => i = j
<1> SUFFICES ASSUME NEW i \in 1..Len(r), NEW j \in 1..Len(r), r[i] = r[j]
             PROVE  i = j
  OBVIOUS
<1>1. Len(s) \in Nat /\ Len(r) \in Nat
  BY LenProperties
<1>2. i + 1 \in 1..Len(s) /\ j + 1 \in 1..Len(s)
  BY <1>1
<1>3. s[i + 1] = s[j + 1]
  OBVIOUS
<1>4. i + 1 = j + 1
  BY <1>2, <1>3
<1> QED BY <1>4

\* The range of a sequence, by its indices.
LEMMA Members ==
  ASSUME NEW S, NEW s \in Seq(S), NEW x
  PROVE  x \in Range(s) <=> \E i \in 1..Len(s) : s[i] = x
<1>1. DOMAIN s = 1..Len(s)
  BY LenProperties
<1>2. x \in Range(s) <=> x \in {s[i] : i \in DOMAIN s}
  BY DEF Range
<1> QED BY <1>1, <1>2

-----------------------------------------------------------------------------
(* The intake, for any of its records. *)

\* The newest member of a burst carries the others (flushBatchedLarkTurn,
\* queuePendingLarkBatchNow); it queues, or preempts first.
LEMMA Submitted ==
  ASSUME Intake(pc, kind, burst, queue, carrier), burst # <<>>
  PROVE  /\ Intake(Merge("queued"), kind, <<>>, Append(queue, Lead), Carry)
         /\ Preempts => Intake(Merge("preempting"), kind, <<>>, queue, Carry)
<1> DEFINE q == Append(queue, Lead)
           p(w) == Merge(w)
           In(x) == \E i \in 1..Len(burst) : burst[i] = x
<1>1. /\ Lead \in Messages /\ In(Lead) /\ Len(burst) \in Nat /\ Len(burst) >= 1
      /\ Lead = burst[Len(burst)] /\ \A x \in Messages : x \in Range(burst) <=> In(x)
  <2>1. burst \in Seq(Messages) BY DEF Intake
  <2>2. Len(burst) \in Nat /\ Len(burst) >= 1 BY <2>1, EmptySeq, LenProperties
  <2>3. Lead = burst[Len(burst)] /\ Len(burst) \in 1..Len(burst) BY <2>2 DEF Last, Lead
  <2>4. Lead \in Messages /\ In(Lead) BY <2>1, <2>3, ElementOfSeq
  <2>5. \A x \in Messages : x \in Range(burst) <=> In(x) BY <2>1, Members
  <2> QED BY <2>2, <2>3, <2>4, <2>5
<1>2. \A x \in Messages : In(x) <=> pc[x] = "parked"
  BY DEF Intake, Parked
<1>3. \A w : \A x \in Messages :
        /\ p(w)[x] = IF pc[x] = "parked" THEN IF x = Lead THEN w ELSE "merged" ELSE pc[x]
        /\ Carry[x] = IF pc[x] = "parked" /\ x # Lead THEN Lead ELSE carrier[x]
  BY <1>1, <1>2 DEF Merge, Carry
<1>4. /\ q \in Seq(Messages) /\ Len(queue) \in Nat /\ Len(q) = Len(queue) + 1
      /\ \A i \in 1..Len(queue) : q[i] = queue[i]
      /\ q[Len(queue) + 1] = Lead
  BY <1>1, Appended DEF Intake
<1>5. /\ pc[Lead] = "parked" /\ kind[Lead] \in {"text", "quote", "attachment"}
      /\ \A x \in Messages : carrier[x] # Lead /\ (pc[x] = "parked" => carrier[x] = None)
  <2>1. pc[Lead] = "parked" /\ kind[Lead] \in {"text", "quote", "attachment"}
    BY <1>1, <1>2 DEF Intake, Parked
  <2>2. Lead # None BY <1>1, LarkRunsAssumption
  <2>3. Carried(pc, kind, carrier) BY DEF Intake
  <2> QED BY <2>1, <2>2, <2>3 DEF Carried
<1>6. p("queued") \in [Messages -> Steps] /\ p("preempting") \in [Messages -> Steps]
      /\ Carry \in [Messages -> Messages \cup {None}]
  <2>1. pc \in [Messages -> Steps] /\ carrier \in [Messages -> Messages \cup {None}] BY DEF Intake
  <2> QED BY <2>1, <1>1 DEF Merge, Carry, Steps
<1> HIDE DEF p, q, In
<1>7. ASSUME NEW w \in {"queued", "preempting"}
      PROVE  /\ Ordered(p(w)) /\ Parked(p(w), kind, <<>>) /\ Carried(p(w), kind, Carry)
             /\ (w = "preempting" => Preempts) => Ways(p(w), kind)
  <2>1. Ordered(p(w)) BY <1>3 DEF Intake, Ordered
  <2>2. Parked(p(w), kind, <<>>) BY <1>3 DEF Parked
  <2>3. Carried(p(w), kind, Carry)
    <3> SUFFICES ASSUME NEW x \in Messages
                 PROVE  /\ p(w)[x] = "merged" => Carry[x] # None
                        /\ Carry[x] # None =>
                             /\ p(w)[x] = "merged"
                             /\ p(w)[Carry[x]] \in {"preempting", "queued", "started", "running"}
                             /\ kind[Carry[x]] \in {"text", "quote", "attachment"}
      BY DEF Carried
    <3>1. carrier[x] \in Messages \cup {None} /\ Lead # None
      BY <1>1, LarkRunsAssumption DEF Intake
    <3>2. CASE pc[x] = "parked" /\ x # Lead
      <4>1. Carry[x] = Lead /\ p(w)[x] = "merged" /\ p(w)[Lead] = w
        BY <3>2, <1>1, <1>3, <1>5
      <4> QED BY <4>1, <3>1, <1>5
    <3>3. CASE ~(pc[x] = "parked" /\ x # Lead)
      <4>1. Carry[x] = carrier[x] /\ (pc[x] # "parked" => p(w)[x] = pc[x])
        BY <3>3, <1>3
      <4>2. carrier[x] # None =>
              /\ pc[x] = "merged" /\ pc[carrier[x]] \in {"preempting", "queued", "started", "running"}
              /\ kind[carrier[x]] \in {"text", "quote", "attachment"}
        BY DEF Intake, Carried
      <4>3. carrier[x] # None => p(w)[carrier[x]] = pc[carrier[x]]
        BY <4>2, <3>1, <1>3
      <4>4. p(w)[x] = "merged" => pc[x] = "merged"
        BY <3>3, <1>3, <1>5
      <4>5. pc[x] = "merged" => carrier[x] # None
        BY DEF Intake, Carried
      <4> QED BY <4>1, <4>2, <4>3, <4>4, <4>5
    <3> QED BY <3>2, <3>3
  <2>4. (w = "preempting" => Preempts) => Ways(p(w), kind)
    BY <1>3 DEF Intake, Ways
  <2> QED BY <2>1, <2>2, <2>3, <2>4
<1>8. Queued(p("queued"), q)
  <2>1. /\ \A i \in 1..Len(queue) : pc[queue[i]] = "queued" /\ queue[i] \in Messages
        /\ \A m \in Messages : pc[m] = "queued" => \E i \in 1..Len(queue) : queue[i] = m
        /\ \A i, j \in 1..Len(queue) : queue[i] = queue[j] => i = j
    BY ElementOfSeq DEF Intake, Queued
  <2>2. \A i \in 1..Len(queue) : queue[i] # Lead BY <2>1, <1>5
  <2>3. \A i \in 1..Len(q) : p("queued")[q[i]] = "queued"
    BY <2>1, <1>1, <1>3, <1>4, <1>5
  <2>4. ASSUME NEW m \in Messages, p("queued")[m] = "queued"
        PROVE  \E i \in 1..Len(q) : q[i] = m
    BY <2>1, <2>4, <1>1, <1>3, <1>4, <1>5
  <2>5. \A i, j \in 1..Len(q) : q[i] = q[j] => i = j
    BY <2>1, <2>2, <1>4
  <2> QED BY <2>3, <2>4, <2>5 DEF Queued
<1>9. Preempts => Queued(p("preempting"), queue)
  BY <1>1, <1>3, <1>5 DEF Intake, Queued
<1>10. InFront(p("queued"), kind, q, Carry)
  <2> SUFFICES ASSUME NEW a \in Messages, NEW m \in Messages, Behind(a, m, p("queued"), kind)
               PROVE  Ahead(p("queued"), q, Carry, a, m)
    BY DEF InFront
  <2>1. Behind(a, m, pc, kind) BY DEF Behind
  <2>2. /\ pc[m] \in {"queued", "started", "running"} => pc[a] # "parked"
        /\ pc[m] \in {"started", "running"} =>
             pc[a] # "queued" /\ (pc[a] = "merged" => pc[carrier[a]] # "queued")
        /\ \A i, j \in 1..Len(queue) :
             queue[i] = m /\ (queue[j] = a \/ (pc[a] = "merged" /\ queue[j] = carrier[a])) => j <= i
    BY <2>1 DEF Intake, InFront, Ahead
  <2>3. p("queued")[a] # "parked" BY <1>3
  <2>4. p("queued")[m] \in {"started", "running"} =>
          /\ p("queued")[a] # "queued"
          /\ p("queued")[a] = "merged" => p("queued")[Carry[a]] # "queued"
    <3> SUFFICES ASSUME p("queued")[m] \in {"started", "running"}
                 PROVE  /\ p("queued")[a] # "queued"
                        /\ p("queued")[a] = "merged" => p("queued")[Carry[a]] # "queued"
      OBVIOUS
    <3>1. pc[m] \in {"started", "running"} /\ pc[a] # "parked" BY <1>3, <2>2
    <3>2. p("queued")[a] = pc[a] /\ Carry[a] = carrier[a] BY <3>1, <1>3
    <3>3. pc[a] = "merged" => /\ carrier[a] \in Messages
                              /\ pc[carrier[a]] # "parked" /\ pc[carrier[a]] # "queued"
      BY <3>1, <2>2 DEF Intake, Carried
    <3> QED BY <3>1, <3>2, <3>3, <2>2, <1>3
  <2>5. ASSUME NEW i \in 1..Len(q), NEW j \in 1..Len(q), q[i] = m,
               q[j] = a \/ (p("queued")[a] = "merged" /\ q[j] = Carry[a]), j > i
        PROVE  FALSE
    <3>1. i \in 1..Len(queue) /\ queue[i] = m
      BY <2>5, <1>4
    <3>2. pc[m] = "queued" /\ pc[a] # "parked"
      BY <3>1, <2>2 DEF Intake, Queued
    <3>3. p("queued")[a] = pc[a] /\ Carry[a] = carrier[a] /\ a # Lead /\ carrier[a] # Lead
      BY <3>2, <1>3, <1>5
    <3>4. j \in 1..Len(queue) /\ q[j] = queue[j]
      BY <2>5, <3>3, <1>4
    <3> QED BY <3>1, <3>3, <3>4, <2>2, <2>5
  <2> QED BY <2>3, <2>4, <2>5, <1>4 DEF Ahead
<1>11. Preempts => InFront(p("preempting"), kind, queue, Carry)
  BY DEF InFront, Ahead, Behind
<1>12. <<>> \in Seq(Messages) /\ queue \in Seq(Messages) /\ kind \in [Messages -> Kinds \cup {None}]
  BY EmptySeq DEF Intake
<1> QED
  BY <1>4, <1>6, <1>7, <1>8, <1>9, <1>10, <1>11, <1>12 DEF Intake, p, q
\* A new message has its kind and its step, and nothing else had to do with it.
Entered(p, k, b, q, c, m, kd, w, p1, k1) ==
  /\ p1 \in [Messages -> Steps] /\ k1 \in [Messages -> Kinds \cup {None}]
  /\ p1[m] = w /\ k1[m] = kd
  /\ \A x \in Messages \ {m} : p1[x] = p[x] /\ k1[x] = k[x]
  /\ \A x \in Messages : c[x] # m /\ (m < x => p[x] = "new")
  /\ c[m] = None /\ (\A i \in 1..Len(q) : q[i] # m) /\ (\A i \in 1..Len(b) : b[i] # m)
  /\ Ordered(p1) /\ Carried(p1, k1, c)

\* What every new message has to do with the rest, whatever becomes of it.
LEMMA Joined ==
  ASSUME NEW p, NEW k, NEW b, NEW q, NEW c, NEW m \in Messages, NEW kd \in Kinds,
         Intake(p, k, b, q, c), p[m] = "new", \A earlier \in 1..(m - 1) : p[earlier] # "new",
         NEW w \in Steps \ {"new", "merged", "started", "running"}
  PROVE  Entered(p, k, b, q, c, m, kd, w, [p EXCEPT ![m] = w], [k EXCEPT ![m] = kd])
<1> DEFINE p1 == [p EXCEPT ![m] = w]
           k1 == [k EXCEPT ![m] = kd]
<1>1. p \in [Messages -> Steps] /\ k \in [Messages -> Kinds \cup {None}]
      /\ c \in [Messages -> Messages \cup {None}]
  BY DEF Intake
<1>2. /\ p1 \in [Messages -> Steps] /\ k1 \in [Messages -> Kinds \cup {None}]
      /\ p1[m] = w /\ k1[m] = kd
      /\ \A x \in Messages \ {m} : p1[x] = p[x] /\ k1[x] = k[x]
  BY <1>1
<1> HIDE DEF p1, k1
<1>3. Carried(p, k, c) /\ Ordered(p) /\ Queued(p, q) /\ Parked(p, k, b)
  BY DEF Intake
<1>4. \A x \in Messages : m < x => p[x] = "new"
  BY <1>3 DEF Ordered
<1>5. m # None
  BY LarkRunsAssumption
<1>6. (\A x \in Messages : c[x] # m) /\ c[m] = None
  BY <1>3, <1>5 DEF Carried
<1>7. (\A i \in 1..Len(q) : q[i] # m) /\ (\A i \in 1..Len(b) : b[i] # m)
  BY <1>3 DEF Queued, Parked
<1>8. Ordered(p1)
  <2> SUFFICES ASSUME NEW x \in Messages, NEW y \in Messages, x < y, p1[x] = "new"
               PROVE  p1[y] = "new"
    BY DEF Ordered
  <2>1. x # m /\ p[x] = "new" BY <1>2
  <2>2. ~(x < m)
    <3>1. x < m => x \in 1..(m - 1) BY DEF Messages
    <3> QED BY <2>1, <3>1
  <2>3. m < y /\ y # m BY <2>1, <2>2, LarkRunsAssumption DEF Messages
  <2> QED BY <2>3, <1>4, <1>2
<1>9. Carried(p1, k1, c)
  <2> SUFFICES ASSUME NEW x \in Messages
               PROVE  /\ p1[x] = "merged" => c[x] # None
                      /\ c[x] # None =>
                           /\ p1[x] = "merged" /\ p1[c[x]] \in {"preempting", "queued", "started", "running"}
                           /\ k1[c[x]] \in {"text", "quote", "attachment"}
    BY DEF Carried
  <2>1. CASE x = m
    BY <2>1, <1>2, <1>6
  <2>2. CASE x # m
    <3>1. c[x] # None => c[x] \in Messages \ {m} BY <1>1, <1>6
    <3>2. p1[x] = p[x] BY <2>2, <1>2
    <3>3. c[x] # None => p1[c[x]] = p[c[x]] /\ k1[c[x]] = k[c[x]] BY <3>1, <1>2
    <3> QED BY <3>2, <3>3, <1>3 DEF Carried
  <2> QED BY <2>1, <2>2
<1> QED BY <1>2, <1>4, <1>6, <1>7, <1>8, <1>9 DEF Entered, p1, k1

\* A new message queues; /q and quoted replies find no burst (they submit it first).
LEMMA JoinsQueue ==
  ASSUME NEW p, NEW k, NEW b, NEW q, NEW c, NEW m \in Messages, NEW kd \in Kinds,
         Intake(p, k, b, q, c), p[m] = "new", \A earlier \in 1..(m - 1) : p[earlier] # "new",
         kd \in {"q", "quote"} => b = <<>>
  PROVE  Intake([p EXCEPT ![m] = "queued"], [k EXCEPT ![m] = kd], b, Append(q, m), c)
<1> DEFINE p1 == [p EXCEPT ![m] = "queued"]
           k1 == [k EXCEPT ![m] = kd]
           q1 == Append(q, m)
<1>0. "queued" \in Steps \ {"new", "merged", "started", "running"}
      /\ p1 = [p EXCEPT ![m] = "queued"] /\ k1 = [k EXCEPT ![m] = kd] /\ q1 = Append(q, m)
  BY DEF Steps
<1> HIDE DEF p1, k1, q1
<1>1. /\ p1 \in [Messages -> Steps] /\ k1 \in [Messages -> Kinds \cup {None}]
      /\ p1[m] = "queued" /\ k1[m] = kd
      /\ \A x \in Messages \ {m} : p1[x] = p[x] /\ k1[x] = k[x]
      /\ \A x \in Messages : c[x] # m /\ (m < x => p[x] = "new")
      /\ c[m] = None /\ (\A i \in 1..Len(q) : q[i] # m) /\ (\A i \in 1..Len(b) : b[i] # m)
      /\ Ordered(p1) /\ Carried(p1, k1, c)
  <2>1. Entered(p, k, b, q, c, m, kd, "queued", p1, k1)
    BY <1>0, Joined
  <2> QED BY <2>1 DEF Entered
<1>2. /\ q \in Seq(Messages) /\ b \in Seq(Messages) /\ c \in [Messages -> Messages \cup {None}]
      /\ Queued(p, q) /\ Parked(p, k, b) /\ Ways(p, k) /\ InFront(p, k, q, c)
  BY DEF Intake
<1>3. /\ q1 \in Seq(Messages) /\ Len(q) \in Nat /\ Len(q1) = Len(q) + 1
      /\ \A i \in 1..Len(q) : q1[i] = q[i] /\ q[i] \in Messages
      /\ q1[Len(q) + 1] = m
  BY <1>0, <1>2, Appended, ElementOfSeq
<1>4. \A i \in 1..Len(b) : b[i] \in Messages
  BY <1>2, ElementOfSeq
<1>5. Parked(p1, k1, b)
  BY <1>1, <1>2, <1>4 DEF Parked
<1>6. Queued(p1, q1)
  <2>1. \A i \in 1..Len(q1) : p1[q1[i]] = "queued"
    BY <1>1, <1>2, <1>3 DEF Queued
  <2>2. ASSUME NEW x \in Messages, p1[x] = "queued"
        PROVE  \E i \in 1..Len(q1) : q1[i] = x
    <3>1. CASE x = m
      BY <3>1, <1>3
    <3>2. CASE x # m
      <4>1. PICK i \in 1..Len(q) : q[i] = x BY <3>2, <2>2, <1>1, <1>2 DEF Queued
      <4>2. i \in 1..Len(q1) /\ q1[i] = x BY <4>1, <1>3
      <4> QED BY <4>2
    <3> QED BY <3>1, <3>2
  <2>3. \A i, j \in 1..Len(q1) : q1[i] = q1[j] => i = j
    BY <1>1, <1>2, <1>3 DEF Queued
  <2> QED BY <2>1, <2>2, <2>3 DEF Queued
<1>7. Ways(p1, k1)
  BY <1>1, <1>2 DEF Ways
<1>8. InFront(p1, k1, q1, c)
  <2> SUFFICES ASSUME NEW a \in Messages, NEW x \in Messages, Behind(a, x, p1, k1)
               PROVE  Ahead(p1, q1, c, a, x)
    BY DEF InFront
  <2> USE DEF Ahead
  <2>1. CASE x = m
    <3>1. a # m /\ p1[a] = p[a] BY <2>1, <1>1, LarkRunsAssumption DEF Behind, Messages
    <3>2. p1[x] = "queued" /\ kd \in {"q", "quote"} BY <2>1, <1>1 DEF Behind
    <3>3. p[a] # "parked" BY <3>2, <1>2, EmptySeq DEF Parked
    <3>4. \A i \in 1..Len(q1) : q1[i] = x => i = Len(q) + 1 BY <2>1, <1>1, <1>3
    <3> QED BY <3>1, <3>2, <3>3, <3>4, <1>3
  <2>2. CASE x # m /\ a = m
    <3>1. p[x] = "new" /\ p1[x] = "new" BY <2>2, <1>1 DEF Behind
    <3>2. \A i \in 1..Len(q1) : q1[i] # x BY <3>1, <2>2, <1>2, <1>3 DEF Queued
    <3> QED BY <3>1, <3>2
  <2>3. CASE x # m /\ a # m
    <3>1. p1[x] = p[x] /\ p1[a] = p[a] /\ Behind(a, x, p, k) BY <2>3, <1>1 DEF Behind
    <3>2. /\ p[x] \in {"queued", "started", "running"} => p[a] # "parked"
          /\ p[x] \in {"started", "running"} =>
               p[a] # "queued" /\ (p[a] = "merged" => p[c[a]] # "queued")
          /\ \A i, j \in 1..Len(q) :
               q[i] = x /\ (q[j] = a \/ (p[a] = "merged" /\ q[j] = c[a])) => j <= i
      BY <3>1, <1>2 DEF InFront
    <3>3. p[a] = "merged" => c[a] \in Messages /\ c[a] # m /\ p1[c[a]] = p[c[a]]
      BY <1>1, <1>2 DEF Intake, Carried
    <3>4. ASSUME NEW i \in 1..Len(q1), NEW j \in 1..Len(q1), q1[i] = x,
                 q1[j] = a \/ (p1[a] = "merged" /\ q1[j] = c[a])
          PROVE  j <= i
      <4>1. i \in 1..Len(q) /\ j \in 1..Len(q)
        BY <3>4, <2>3, <1>1, <1>3
      <4> QED BY <4>1, <3>1, <3>2, <3>4, <1>3
    <3> QED BY <3>1, <3>2, <3>3, <3>4
  <2> QED BY <2>1, <2>2, <2>3
<1> QED
  BY <1>1, <1>2, <1>3, <1>5, <1>6, <1>7, <1>8 DEF Intake, p1, k1, q1

\* A new message is parked (a burst that has to go first has gone by then).
LEMMA JoinsBurst ==
  ASSUME NEW p, NEW k, NEW b, NEW q, NEW c, NEW m \in Messages,
         NEW kd \in Kinds \cap {"text", "quote", "attachment"},
         Intake(p, k, b, q, c), p[m] = "new", \A earlier \in 1..(m - 1) : p[earlier] # "new"
  PROVE  Intake([p EXCEPT ![m] = "parked"], [k EXCEPT ![m] = kd], Append(b, m), q, c)
<1> DEFINE p1 == [p EXCEPT ![m] = "parked"]
           k1 == [k EXCEPT ![m] = kd]
           b1 == Append(b, m)
<1>0. "parked" \in Steps \ {"new", "merged", "started", "running"}
      /\ p1 = [p EXCEPT ![m] = "parked"] /\ k1 = [k EXCEPT ![m] = kd] /\ b1 = Append(b, m)
  BY DEF Steps
<1> HIDE DEF p1, k1, b1
<1>1. /\ p1 \in [Messages -> Steps] /\ k1 \in [Messages -> Kinds \cup {None}]
      /\ p1[m] = "parked" /\ k1[m] = kd
      /\ \A x \in Messages \ {m} : p1[x] = p[x] /\ k1[x] = k[x]
      /\ \A x \in Messages : c[x] # m /\ (m < x => p[x] = "new")
      /\ c[m] = None /\ (\A i \in 1..Len(q) : q[i] # m) /\ (\A i \in 1..Len(b) : b[i] # m)
      /\ Ordered(p1) /\ Carried(p1, k1, c)
  <2>1. Entered(p, k, b, q, c, m, kd, "parked", p1, k1)
    BY <1>0, Joined
  <2> QED BY <2>1 DEF Entered
<1>2. /\ q \in Seq(Messages) /\ b \in Seq(Messages) /\ c \in [Messages -> Messages \cup {None}]
      /\ Queued(p, q) /\ Parked(p, k, b) /\ Ways(p, k) /\ InFront(p, k, q, c)
  BY DEF Intake
<1>3. /\ b1 \in Seq(Messages) /\ Len(b) \in Nat /\ Len(b1) = Len(b) + 1
      /\ \A i \in 1..Len(b) : b1[i] = b[i] /\ b[i] \in Messages
      /\ b1[Len(b) + 1] = m
  BY <1>0, <1>2, Appended, ElementOfSeq
<1>4. \A i \in 1..Len(q) : q[i] \in Messages
  BY <1>2, ElementOfSeq
<1>5. Parked(p1, k1, b1)
  <2>1. \A i \in 1..Len(b1) : p1[b1[i]] = "parked"
    BY <1>1, <1>2, <1>3 DEF Parked
  <2>2. ASSUME NEW x \in Messages, p1[x] = "parked"
        PROVE  (\E i \in 1..Len(b1) : b1[i] = x) /\ k1[x] \in {"text", "quote", "attachment"}
    BY <2>2, <1>1, <1>2, <1>3 DEF Parked
  <2> QED BY <2>1, <2>2 DEF Parked
<1>6. Queued(p1, q)
  <2>1. \A i \in 1..Len(q) : p1[q[i]] = "queued"
    BY <1>1, <1>2, <1>4 DEF Queued
  <2>2. ASSUME NEW x \in Messages, p1[x] = "queued"
        PROVE  \E i \in 1..Len(q) : q[i] = x
    <3>1. p[x] = "queued" BY <1>0, <1>1, <2>2
    <3> QED BY <3>1, <1>2 DEF Queued
  <2> QED BY <2>1, <2>2, <1>2 DEF Queued
<1>7. Ways(p1, k1)
  BY <1>1, <1>2 DEF Ways
<1>8. InFront(p1, k1, q, c)
  <2> SUFFICES ASSUME NEW a \in Messages, NEW x \in Messages, Behind(a, x, p1, k1)
               PROVE  Ahead(p1, q, c, a, x)
    BY DEF InFront
  <2> USE DEF Ahead
  <2>1. CASE x = m
    BY <2>1, <1>1
  <2>2. CASE x # m /\ a = m
    <3>1. p[x] = "new" /\ p1[x] = "new" BY <2>2, <1>1 DEF Behind
    <3>2. \A i \in 1..Len(q) : q[i] # x BY <3>1, <1>2 DEF Queued
    <3> QED BY <3>1, <3>2
  <2>3. CASE x # m /\ a # m
    <3>1. p1[x] = p[x] /\ p1[a] = p[a] /\ Behind(a, x, p, k) BY <2>3, <1>1 DEF Behind
    <3>2. p[a] = "merged" => c[a] \in Messages /\ c[a] # m /\ p1[c[a]] = p[c[a]]
      BY <1>1, <1>2 DEF Intake, Carried
    <3> QED BY <3>1, <3>2, <1>2 DEF InFront
  <2> QED BY <2>1, <2>2, <2>3
<1> QED
  BY <1>1, <1>2, <1>3, <1>5, <1>6, <1>7, <1>8 DEF Intake, p1, k1, b1

\* A new message is being steered, or waits for its access check.
LEMMA GoesItsWay ==
  ASSUME NEW p, NEW k, NEW b, NEW q, NEW c, NEW m \in Messages, NEW kd \in Kinds,
         Intake(p, k, b, q, c), p[m] = "new", \A earlier \in 1..(m - 1) : p[earlier] # "new",
         NEW w, (w = "steering" /\ kd = "text") \/ (w = "preempting" /\ Preempts)
  PROVE  Intake([p EXCEPT ![m] = w], [k EXCEPT ![m] = kd], b, q, c)
<1> DEFINE p1 == [p EXCEPT ![m] = w]
           k1 == [k EXCEPT ![m] = kd]
<1>0. w \in Steps \ {"new", "merged", "started", "running"}
      /\ p1 = [p EXCEPT ![m] = w] /\ k1 = [k EXCEPT ![m] = kd]
  BY DEF Steps
<1> HIDE DEF p1, k1
<1>1. /\ p1 \in [Messages -> Steps] /\ k1 \in [Messages -> Kinds \cup {None}]
      /\ p1[m] = w /\ k1[m] = kd
      /\ \A x \in Messages \ {m} : p1[x] = p[x] /\ k1[x] = k[x]
      /\ \A x \in Messages : c[x] # m /\ (m < x => p[x] = "new")
      /\ c[m] = None /\ (\A i \in 1..Len(q) : q[i] # m) /\ (\A i \in 1..Len(b) : b[i] # m)
      /\ Ordered(p1) /\ Carried(p1, k1, c)
  <2>1. Entered(p, k, b, q, c, m, kd, w, p1, k1)
    BY <1>0, Joined
  <2> QED BY <2>1 DEF Entered
<1>2. /\ q \in Seq(Messages) /\ b \in Seq(Messages) /\ c \in [Messages -> Messages \cup {None}]
      /\ Queued(p, q) /\ Parked(p, k, b) /\ Ways(p, k) /\ InFront(p, k, q, c)
  BY DEF Intake
<1>4. (\A i \in 1..Len(q) : q[i] \in Messages) /\ (\A i \in 1..Len(b) : b[i] \in Messages)
  BY <1>2, ElementOfSeq
<1>5. Parked(p1, k1, b)
  BY <1>1, <1>2, <1>4 DEF Parked
<1>6. Queued(p1, q)
  <2>1. \A i \in 1..Len(q) : p1[q[i]] = "queued"
    BY <1>1, <1>2, <1>4 DEF Queued
  <2>2. ASSUME NEW x \in Messages, p1[x] = "queued"
        PROVE  \E i \in 1..Len(q) : q[i] = x
    <3>1. p[x] = "queued" BY <1>0, <1>1, <2>2
    <3> QED BY <3>1, <1>2 DEF Queued
  <2> QED BY <2>1, <2>2, <1>2 DEF Queued
<1>7. Ways(p1, k1)
  BY <1>1, <1>2 DEF Ways
<1>8. InFront(p1, k1, q, c)
  <2> SUFFICES ASSUME NEW a \in Messages, NEW x \in Messages, Behind(a, x, p1, k1)
               PROVE  Ahead(p1, q, c, a, x)
    BY DEF InFront
  <2> USE DEF Ahead
  <2>1. CASE x = m
    BY <2>1, <1>1
  <2>2. CASE x # m /\ a = m
    <3>1. p[x] = "new" /\ p1[x] = "new" BY <2>2, <1>1 DEF Behind
    <3>2. \A i \in 1..Len(q) : q[i] # x BY <3>1, <1>2 DEF Queued
    <3> QED BY <3>1, <3>2
  <2>3. CASE x # m /\ a # m
    <3>1. p1[x] = p[x] /\ p1[a] = p[a] /\ Behind(a, x, p, k) BY <2>3, <1>1 DEF Behind
    <3>2. p[a] = "merged" => c[a] \in Messages /\ c[a] # m /\ p1[c[a]] = p[c[a]]
      BY <1>1, <1>2 DEF Intake, Carried
    <3> QED BY <3>1, <3>2, <1>2 DEF InFront
  <2> QED BY <2>1, <2>2, <2>3
<1> QED
  BY <1>1, <1>2, <1>5, <1>6, <1>7, <1>8 DEF Intake, p1, k1

\* A message that was not steered after all, or has passed its access check, queues.
LEMMA Requeues ==
  ASSUME NEW p, NEW k, NEW b, NEW q, NEW c, NEW m \in Messages, Intake(p, k, b, q, c),
         p[m] \in {"steering", "injecting", "preempting"}
  PROVE  Intake([p EXCEPT ![m] = "queued"], k, b, Append(q, m), c)
<1> DEFINE p1 == [p EXCEPT ![m] = "queued"]
           q1 == Append(q, m)
<1>1. /\ p \in [Messages -> Steps] /\ k \in [Messages -> Kinds \cup {None}]
      /\ q \in Seq(Messages) /\ b \in Seq(Messages) /\ c \in [Messages -> Messages \cup {None}]
      /\ Ordered(p) /\ Queued(p, q) /\ Parked(p, k, b) /\ Carried(p, k, c) /\ Ways(p, k)
      /\ InFront(p, k, q, c)
  BY DEF Intake
<1>2. /\ p1 \in [Messages -> Steps] /\ p1[m] = "queued"
      /\ \A x \in Messages \ {m} : p1[x] = p[x]
  BY <1>1 DEF Steps
<1>3. /\ q1 \in Seq(Messages) /\ Len(q) \in Nat /\ Len(q1) = Len(q) + 1
      /\ \A i \in 1..Len(q) : q1[i] = q[i] /\ q[i] \in Messages /\ q[i] # m
      /\ q1[Len(q) + 1] = m
  <2>1. \A i \in 1..Len(q) : q[i] \in Messages /\ q[i] # m
    BY <1>1, ElementOfSeq DEF Queued
  <2> QED BY <1>1, <2>1, Appended
<1>4. \A i \in 1..Len(b) : b[i] \in Messages /\ b[i] # m
  BY <1>1, ElementOfSeq DEF Parked
<1>5. ~Preempts => k[m] = "text"
  BY <1>1 DEF Ways
<1> HIDE DEF p1, q1
<1>6. Ordered(p1)
  BY <1>1, <1>2 DEF Ordered
<1>7. Parked(p1, k, b)
  BY <1>1, <1>2, <1>4 DEF Parked
<1>8. Queued(p1, q1)
  <2>1. \A i \in 1..Len(q1) : p1[q1[i]] = "queued"
    BY <1>1, <1>2, <1>3 DEF Queued
  <2>2. ASSUME NEW x \in Messages, p1[x] = "queued"
        PROVE  \E i \in 1..Len(q1) : q1[i] = x
    <3>1. CASE x = m
      BY <3>1, <1>3
    <3>2. CASE x # m
      <4>1. PICK i \in 1..Len(q) : q[i] = x BY <3>2, <2>2, <1>1, <1>2 DEF Queued
      <4>2. i \in 1..Len(q1) /\ q1[i] = x BY <4>1, <1>3
      <4> QED BY <4>2
    <3> QED BY <3>1, <3>2
  <2>3. \A i, j \in 1..Len(q1) : q1[i] = q1[j] => i = j
    BY <1>1, <1>3 DEF Queued
  <2> QED BY <2>1, <2>2, <2>3 DEF Queued
<1>9. Carried(p1, k, c)
  <2> SUFFICES ASSUME NEW x \in Messages
               PROVE  /\ p1[x] = "merged" => c[x] # None
                      /\ c[x] # None =>
                           /\ p1[x] = "merged" /\ p1[c[x]] \in {"preempting", "queued", "started", "running"}
                           /\ k[c[x]] \in {"text", "quote", "attachment"}
    BY DEF Carried
  <2>1. /\ p[x] = "merged" => c[x] # None
        /\ c[x] # None => p[x] = "merged" /\ c[x] \in Messages
                          /\ p[c[x]] \in {"preempting", "queued", "started", "running"}
                          /\ k[c[x]] \in {"text", "quote", "attachment"}
    BY <1>1 DEF Carried
  <2> QED BY <2>1, <1>2
<1>10. Ways(p1, k)
  BY <1>1, <1>2 DEF Ways
<1>11. InFront(p1, k, q1, c)
  <2> SUFFICES ASSUME NEW a \in Messages, NEW x \in Messages, Behind(a, x, p1, k)
               PROVE  Ahead(p1, q1, c, a, x)
    BY DEF InFront
  <2>1. x # m /\ a # m /\ Behind(a, x, p, k) /\ ~Preempts BY <1>5 DEF Behind
  <2>2. p1[x] = p[x] /\ p1[a] = p[a] BY <2>1, <1>2
  <2>3. p[a] = "merged" => c[a] \in Messages /\ c[a] # m /\ p1[c[a]] = p[c[a]]
    <3>1. p[a] = "merged" => c[a] \in Messages /\ p[c[a]] \in {"preempting", "queued", "started", "running"}
      BY <1>1 DEF Carried
    <3>2. p[m] \in {"steering", "injecting"} BY <2>1, <1>1 DEF Ways
    <3> QED BY <3>1, <3>2, <1>2
  <2>4. /\ p[x] \in {"queued", "started", "running"} => p[a] # "parked"
        /\ p[x] \in {"started", "running"} =>
             p[a] # "queued" /\ (p[a] = "merged" => p[c[a]] # "queued")
        /\ \A i, j \in 1..Len(q) :
             q[i] = x /\ (q[j] = a \/ (p[a] = "merged" /\ q[j] = c[a])) => j <= i
    BY <2>1, <1>1 DEF InFront, Ahead
  <2>5. ASSUME NEW i \in 1..Len(q1), NEW j \in 1..Len(q1), q1[i] = x,
               q1[j] = a \/ (p1[a] = "merged" /\ q1[j] = c[a])
        PROVE  j <= i
    <3>1. i \in 1..Len(q) /\ j \in 1..Len(q)
      BY <2>5, <2>1, <2>2, <2>3, <1>3
    <3> QED BY <3>1, <2>2, <2>4, <2>5, <1>3
  <2> QED BY <2>2, <2>3, <2>4, <2>5 DEF Ahead
<1> QED
  BY <1>1, <1>2, <1>3, <1>6, <1>7, <1>8, <1>9, <1>10, <1>11 DEF Intake, p1, q1

\* A message goes on in a way that concerns neither burst nor queue; a carrier
\* does not leave its turn like this, its followers would be left behind.
LEMMA GoesOn ==
  ASSUME NEW p, NEW k, NEW b, NEW q, NEW c, NEW m \in Messages, Intake(p, k, b, q, c),
         NEW w \in {"injecting", "steered", "running", "watching", "done"},
         \/ p[m] \in {"steering", "injecting"} /\ w \in {"injecting", "steered"}
         \/ p[m] = "started" /\ w = "running"
         \/ p[m] \in {"started", "watching"} /\ w \in {"watching", "done"} /\ k[m] \in {"goal", "command"}
  PROVE  Intake([p EXCEPT ![m] = w], k, b, q, c)
<1> DEFINE p1 == [p EXCEPT ![m] = w]
<1>1. /\ p \in [Messages -> Steps] /\ k \in [Messages -> Kinds \cup {None}]
      /\ q \in Seq(Messages) /\ b \in Seq(Messages) /\ c \in [Messages -> Messages \cup {None}]
      /\ Ordered(p) /\ Queued(p, q) /\ Parked(p, k, b) /\ Carried(p, k, c) /\ Ways(p, k)
      /\ InFront(p, k, q, c)
  BY DEF Intake
<1>2. /\ p1 \in [Messages -> Steps] /\ p1[m] = w
      /\ \A x \in Messages \ {m} : p1[x] = p[x]
  BY <1>1 DEF Steps
<1>3. /\ \A i \in 1..Len(q) : q[i] \in Messages /\ q[i] # m
      /\ \A i \in 1..Len(b) : b[i] \in Messages /\ b[i] # m
  BY <1>1, ElementOfSeq DEF Queued, Parked
<1> HIDE DEF p1
<1>4. Ordered(p1)
  BY <1>1, <1>2 DEF Ordered
<1>5. Parked(p1, k, b) /\ Queued(p1, q)
  BY <1>1, <1>2, <1>3 DEF Parked, Queued
<1>6. Ways(p1, k)
  BY <1>1, <1>2 DEF Ways
<1>7. ASSUME NEW x \in Messages, c[x] # None
      PROVE  /\ p1[x] = "merged" /\ p1[c[x]] \in {"preempting", "queued", "started", "running"}
             /\ k[c[x]] \in {"text", "quote", "attachment"}
             /\ p[c[x]] # "queued" => p1[c[x]] # "queued"
  <2>1. /\ p[x] = "merged" /\ c[x] \in Messages
        /\ p[c[x]] \in {"preempting", "queued", "started", "running"}
        /\ k[c[x]] \in {"text", "quote", "attachment"}
    BY <1>1, <1>7 DEF Carried
  <2> QED BY <2>1, <1>2
<1>8. Carried(p1, k, c)
  BY <1>1, <1>2, <1>7 DEF Carried
<1>9. InFront(p1, k, q, c)
  <2> SUFFICES ASSUME NEW a \in Messages, NEW x \in Messages, Behind(a, x, p1, k)
               PROVE  Ahead(p1, q, c, a, x)
    BY DEF InFront
  <2>1. Behind(a, x, p, k) BY DEF Behind
  <2>2. /\ p[x] \in {"queued", "started", "running"} => p[a] # "parked"
        /\ p[x] \in {"started", "running"} =>
             p[a] # "queued" /\ (p[a] = "merged" => p[c[a]] # "queued")
        /\ \A i, j \in 1..Len(q) :
             q[i] = x /\ (q[j] = a \/ (p[a] = "merged" /\ q[j] = c[a])) => j <= i
    BY <2>1, <1>1 DEF InFront, Ahead
  <2>3. p1[a] \in {"parked", "queued", "merged"} => p[a] = p1[a] BY <1>2
  <2>4. p1[x] \in {"queued", "started", "running"} => p[x] \in {"queued", "started", "running"}
        /\ (p[x] = "queued" => p1[x] = "queued")
    BY <1>2
  <2>5. p[a] = "merged" => c[a] # None BY <1>1 DEF Carried
  <2> QED BY <2>2, <2>3, <2>4, <2>5, <1>7 DEF Ahead
<1> QED
  BY <1>1, <1>2, <1>4, <1>5, <1>6, <1>8, <1>9 DEF Intake, p1

\* The first task of the queue starts.
LEMMA Starts ==
  ASSUME NEW p, NEW k, NEW b, NEW q, NEW c, Intake(p, k, b, q, c), q # <<>>
  PROVE  Intake([p EXCEPT ![Head(q)] = "started"], k, b, Tail(q), c)
<1> DEFINE m == Head(q)
           p1 == [p EXCEPT ![m] = "started"]
           q1 == Tail(q)
<1>1. /\ p \in [Messages -> Steps] /\ k \in [Messages -> Kinds \cup {None}]
      /\ q \in Seq(Messages) /\ b \in Seq(Messages) /\ c \in [Messages -> Messages \cup {None}]
      /\ Ordered(p) /\ Queued(p, q) /\ Parked(p, k, b) /\ Carried(p, k, c) /\ Ways(p, k)
      /\ InFront(p, k, q, c)
  BY DEF Intake
<1>2. /\ m \in Messages /\ m = q[1] /\ q1 \in Seq(Messages)
      /\ Len(q) \in Nat /\ Len(q) >= 1 /\ Len(q1) = Len(q) - 1
      /\ \A i \in 1..Len(q1) : q1[i] = q[i + 1]
  BY <1>1, Shifted
<1>3. /\ p1 \in [Messages -> Steps] /\ p1[m] = "started" /\ p[m] = "queued"
      /\ \A x \in Messages \ {m} : p1[x] = p[x]
  BY <1>1, <1>2 DEF Steps, Queued
<1> HIDE DEF m, p1, q1
<1>4. Ordered(p1)
  BY <1>1, <1>3 DEF Ordered
<1>5. Parked(p1, k, b)
  BY <1>1, <1>3, ElementOfSeq DEF Parked
<1>6. Queued(p1, q1)
  <2>1. \A i \in 1..Len(q) : q[i] \in Messages BY <1>1, ElementOfSeq
  <2>2. \A i \in 1..Len(q1) : p1[q1[i]] = "queued"
    <3> SUFFICES ASSUME NEW i \in 1..Len(q1) PROVE p1[q1[i]] = "queued" OBVIOUS
    <3>1. i + 1 \in 1..Len(q) /\ q1[i] = q[i + 1] /\ 1 \in 1..Len(q) BY <1>2
    <3>2. q[i + 1] # q[1] /\ p[q[i + 1]] = "queued" BY <3>1, <1>1, <1>2 DEF Queued
    <3> QED BY <2>1, <3>1, <3>2, <1>2, <1>3
  <2>3. ASSUME NEW x \in Messages, p1[x] = "queued"
        PROVE  \E i \in 1..Len(q1) : q1[i] = x
    <3>1. x # m /\ p[x] = "queued" BY <2>3, <1>3
    <3>2. PICK i \in 1..Len(q) : q[i] = x BY <3>1, <1>1 DEF Queued
    <3>3. i # 1 BY <3>1, <3>2, <1>2
    <3>4. i - 1 \in 1..Len(q1) /\ q1[i - 1] = x BY <3>2, <3>3, <1>2
    <3> QED BY <3>4
  <2>4. \A i, j \in 1..Len(q1) : q1[i] = q1[j] => i = j
    <3>1. \A i, j \in 1..Len(q) : q[i] = q[j] => i = j BY <1>1 DEF Queued
    <3>2. q \in Seq(Messages) BY <1>1
    <3> QED BY <3>1, <3>2, <1>2, StillDistinct
  <2> QED BY <2>2, <2>3, <2>4 DEF Queued
<1>7. Ways(p1, k)
  BY <1>1, <1>3 DEF Ways
<1>8. ASSUME NEW x \in Messages, c[x] # None
      PROVE  /\ p1[x] = "merged" /\ p1[c[x]] \in {"preempting", "queued", "started", "running"}
             /\ k[c[x]] \in {"text", "quote", "attachment"} /\ c[x] \in Messages
  <2>1. /\ p[x] = "merged" /\ c[x] \in Messages
        /\ p[c[x]] \in {"preempting", "queued", "started", "running"}
        /\ k[c[x]] \in {"text", "quote", "attachment"}
    BY <1>1, <1>8 DEF Carried
  <2> QED BY <2>1, <1>3
<1>9. Carried(p1, k, c)
  BY <1>1, <1>3, <1>8 DEF Carried
<1>10. InFront(p1, k, q1, c)
  <2> SUFFICES ASSUME NEW a \in Messages, NEW x \in Messages, Behind(a, x, p1, k)
               PROVE  Ahead(p1, q1, c, a, x)
    BY DEF InFront
  <2>1. Behind(a, x, p, k) BY DEF Behind
  <2>2. /\ p[x] \in {"queued", "started", "running"} => p[a] # "parked"
        /\ p[x] \in {"started", "running"} =>
             p[a] # "queued" /\ (p[a] = "merged" => p[c[a]] # "queued")
        /\ \A i, j \in 1..Len(q) :
             q[i] = x /\ (q[j] = a \/ (p[a] = "merged" /\ q[j] = c[a])) => j <= i
    BY <2>1, <1>1 DEF InFront, Ahead
  <2>3. p1[a] \in {"parked", "queued", "merged"} => p[a] = p1[a] BY <1>3
  <2>4. p[a] = "merged" => c[a] # None /\ c[a] \in Messages BY <1>1, <1>8 DEF Carried
  <2>5. p1[x] \in {"queued", "started", "running"} => p1[a] # "parked"
    <3>1. p1[x] \in {"queued", "started", "running"} => p[x] \in {"queued", "started", "running"}
      BY <1>3
    <3> QED BY <3>1, <2>2, <2>3
  <2>6. ASSUME p1[x] \in {"started", "running"}
        PROVE  p1[a] # "queued" /\ (p1[a] = "merged" => p1[c[a]] # "queued")
    <3>1. CASE x = m
      <4>1. ASSUME NEW y \in Messages, p1[y] = "queued", y = a \/ (p[a] = "merged" /\ y = c[a])
            PROVE  FALSE
        <5>1. y # m /\ p[y] = "queued" BY <4>1, <1>3
        <5>2. PICK j \in 1..Len(q) : q[j] = y BY <5>1, <1>1 DEF Queued
        <5>3. j <= 1 BY <5>2, <4>1, <3>1, <2>2, <1>2
        <5> QED BY <5>1, <5>2, <5>3, <1>2
      <4> QED BY <4>1, <2>3, <2>4
    <3>2. CASE x # m
      <4>1. p[x] \in {"started", "running"} BY <2>6, <3>2, <1>3
      <4> QED BY <4>1, <2>2, <2>3, <2>4, <1>3
    <3> QED BY <3>1, <3>2
  <2>7. ASSUME NEW i \in 1..Len(q1), NEW j \in 1..Len(q1), q1[i] = x,
               q1[j] = a \/ (p1[a] = "merged" /\ q1[j] = c[a])
        PROVE  j <= i
    <3>1. i + 1 \in 1..Len(q) /\ j + 1 \in 1..Len(q) /\ q1[i] = q[i + 1] /\ q1[j] = q[j + 1]
      BY <1>2
    <3>2. j + 1 <= i + 1 BY <3>1, <2>7, <2>2, <2>3
    <3> QED BY <3>2
  <2> QED BY <2>5, <2>6, <2>7 DEF Ahead
<1> QED
  BY <1>1, <1>2, <1>3, <1>4, <1>5, <1>6, <1>7, <1>9, <1>10 DEF Intake, m, p1, q1

\* The steps and the carriers after Settles.
StepsThen(p, c, m, w) == [x \in Messages |-> IF x = m \/ c[x] = m THEN w ELSE p[x]]
CarriersThen(c, m) == [x \in Messages |-> IF c[x] = m THEN None ELSE c[x]]

\* A message settles with those of its burst, out of the queue or out of its turn.
LEMMA SettlesWell ==
  ASSUME NEW p, NEW k, NEW b, NEW q, NEW c, NEW m \in Messages, Intake(p, k, b, q, c),
         NEW w \in {"done", "skipped"}, NEW q1,
         \/ p[m] \in {"started", "running"} /\ q1 = q
         \/ q # <<>> /\ m = Head(q) /\ q1 = Tail(q)
  PROVE  Intake(StepsThen(p, c, m, w), k, b, q1, CarriersThen(c, m))
<1> DEFINE p1 == StepsThen(p, c, m, w)
           c1 == CarriersThen(c, m)
<1>1. /\ p \in [Messages -> Steps] /\ k \in [Messages -> Kinds \cup {None}]
      /\ q \in Seq(Messages) /\ b \in Seq(Messages) /\ c \in [Messages -> Messages \cup {None}]
      /\ Ordered(p) /\ Queued(p, q) /\ Parked(p, k, b) /\ Carried(p, k, c) /\ Ways(p, k)
      /\ InFront(p, k, q, c)
  BY DEF Intake
<1>2. m # None
  BY LarkRunsAssumption
<1>3. \A x \in Messages :
        /\ c[x] = m => p[x] = "merged"
        /\ c[x] # None => p[x] = "merged" /\ c[x] \in Messages /\ p[c[x]] # "merged" /\ c[c[x]] # m
  BY <1>1, <1>2 DEF Carried
<1>4. p[m] \in {"queued", "started", "running"}
  BY <1>1, Shifted DEF Queued
<1>5. /\ p1 \in [Messages -> Steps] /\ c1 \in [Messages -> Messages \cup {None}]
      /\ \A x \in Messages : p1[x] = IF x = m \/ c[x] = m THEN w ELSE p[x]
      /\ \A x \in Messages : c1[x] = IF c[x] = m THEN None ELSE c[x]
  BY <1>1 DEF Steps, StepsThen, CarriersThen
<1> HIDE DEF p1, c1
<1>6. Ordered(p1)
  <2>1. \A x \in Messages : p1[x] = "new" <=> p[x] = "new"
    BY <1>3, <1>4, <1>5
  <2> QED BY <2>1, <1>1 DEF Ordered
<1>7. Parked(p1, k, b)
  <2>1. \A x \in Messages : p1[x] = "parked" <=> p[x] = "parked"
    BY <1>3, <1>4, <1>5
  <2> QED BY <2>1, <1>1, ElementOfSeq DEF Parked
<1>8. Ways(p1, k)
  BY <1>1, <1>5 DEF Ways
<1>9. Carried(p1, k, c1)
  <2> SUFFICES ASSUME NEW x \in Messages
               PROVE  /\ p1[x] = "merged" => c1[x] # None
                      /\ c1[x] # None =>
                           /\ p1[x] = "merged" /\ p1[c1[x]] \in {"preempting", "queued", "started", "running"}
                           /\ k[c1[x]] \in {"text", "quote", "attachment"}
    BY DEF Carried
  <2>1. /\ p[x] = "merged" => c[x] # None
        /\ c[x] # None =>
             /\ p[x] = "merged" /\ p[c[x]] \in {"preempting", "queued", "started", "running"}
             /\ k[c[x]] \in {"text", "quote", "attachment"}
    BY <1>1 DEF Carried
  <2>2. CASE x = m \/ c[x] = m
    <3>1. c[x] = m \/ c[x] = None BY <2>2, <2>1, <1>4
    <3> QED BY <2>2, <3>1, <1>5
  <2>3. CASE x # m /\ c[x] # m
    <3>1. p1[x] = p[x] /\ c1[x] = c[x] BY <2>3, <1>5
    <3>2. c[x] # None => p1[c[x]] = p[c[x]] BY <2>3, <1>3, <1>5
    <3> QED BY <3>1, <3>2, <2>1
  <2> QED BY <2>2, <2>3
<1>10. CASE p[m] \in {"started", "running"} /\ q1 = q
  <2>1. \A x \in Messages : p1[x] = "queued" <=> p[x] = "queued"
    BY <1>3, <1>5, <1>10
  <2>2. Queued(p1, q1)
    BY <2>1, <1>1, <1>10, ElementOfSeq DEF Queued
  <2>3. InFront(p1, k, q1, c1)
    <3> SUFFICES ASSUME NEW a \in Messages, NEW x \in Messages, Behind(a, x, p1, k)
                 PROVE  Ahead(p1, q, c1, a, x)
      BY <1>10 DEF InFront
    <3>1. Behind(a, x, p, k) BY DEF Behind
    <3>2. /\ p[x] \in {"queued", "started", "running"} => p[a] # "parked"
          /\ p[x] \in {"started", "running"} =>
               p[a] # "queued" /\ (p[a] = "merged" => p[c[a]] # "queued")
          /\ \A i, j \in 1..Len(q) :
               q[i] = x /\ (q[j] = a \/ (p[a] = "merged" /\ q[j] = c[a])) => j <= i
      BY <3>1, <1>1 DEF InFront, Ahead
    <3>3. /\ p1[x] \in {"queued", "started", "running"} => p[x] = p1[x]
          /\ p1[a] \in {"parked", "queued", "merged"} => p[a] = p1[a]
          /\ p1[a] = "merged" => c1[a] = c[a] /\ c[a] \in Messages
      BY <1>1, <1>3, <1>5 DEF Carried
    <3> QED BY <3>2, <3>3, <2>1 DEF Ahead
  <2> QED
    BY <2>2, <2>3, <1>1, <1>5, <1>6, <1>7, <1>8, <1>9, <1>10 DEF Intake, p1, c1
<1>11. CASE q # <<>> /\ m = Head(q) /\ q1 = Tail(q)
  <2>1. /\ m = q[1] /\ q1 \in Seq(Messages) /\ p[m] = "queued"
        /\ Len(q) \in Nat /\ Len(q) >= 1 /\ Len(q1) = Len(q) - 1
        /\ \A i \in 1..Len(q1) : q1[i] = q[i + 1]
    BY <1>1, <1>11, Shifted DEF Queued
  <2>2. \A x \in Messages : p1[x] = "queued" <=> p[x] = "queued" /\ x # m
    BY <1>3, <1>5
  <2>3. Queued(p1, q1)
    <3>1. \A i \in 1..Len(q) : q[i] \in Messages BY <1>1, ElementOfSeq
    <3>2. \A i \in 1..Len(q1) : p1[q1[i]] = "queued"
      <4> SUFFICES ASSUME NEW i \in 1..Len(q1) PROVE p1[q1[i]] = "queued" OBVIOUS
      <4>1. i + 1 \in 1..Len(q) /\ q1[i] = q[i + 1] /\ 1 \in 1..Len(q) BY <2>1
      <4>2. q[i + 1] # q[1] /\ p[q[i + 1]] = "queued" BY <4>1, <2>1, <1>1 DEF Queued
      <4> QED BY <3>1, <4>1, <4>2, <2>1, <2>2
    <3>3. ASSUME NEW x \in Messages, p1[x] = "queued"
          PROVE  \E i \in 1..Len(q1) : q1[i] = x
      <4>1. PICK i \in 1..Len(q) : q[i] = x BY <3>3, <2>2, <1>1 DEF Queued
      <4>2. i # 1 BY <4>1, <3>3, <2>1, <2>2
      <4>3. i - 1 \in 1..Len(q1) /\ q1[i - 1] = x BY <4>1, <4>2, <2>1
      <4> QED BY <4>3
    <3>4. \A i, j \in 1..Len(q1) : q1[i] = q1[j] => i = j
      <4>1. \A i, j \in 1..Len(q) : q[i] = q[j] => i = j BY <1>1 DEF Queued
      <4>2. q \in Seq(Messages) BY <1>1
      <4> QED BY <4>1, <4>2, <2>1, StillDistinct
    <3> QED BY <3>2, <3>3, <3>4 DEF Queued
  <2>4. InFront(p1, k, q1, c1)
    <3> SUFFICES ASSUME NEW a \in Messages, NEW x \in Messages, Behind(a, x, p1, k)
                 PROVE  Ahead(p1, q1, c1, a, x)
      BY DEF InFront
    <3>1. Behind(a, x, p, k) BY DEF Behind
    <3>2. /\ p[x] \in {"queued", "started", "running"} => p[a] # "parked"
          /\ p[x] \in {"started", "running"} =>
               p[a] # "queued" /\ (p[a] = "merged" => p[c[a]] # "queued")
          /\ \A i, j \in 1..Len(q) :
               q[i] = x /\ (q[j] = a \/ (p[a] = "merged" /\ q[j] = c[a])) => j <= i
      BY <3>1, <1>1 DEF InFront, Ahead
    <3>3. /\ p1[x] \in {"queued", "started", "running"} => p[x] = p1[x]
          /\ p1[a] \in {"parked", "queued", "merged"} => p[a] = p1[a]
          /\ p1[a] = "merged" => c1[a] = c[a] /\ c[a] \in Messages
      BY <1>1, <1>3, <1>5 DEF Carried
    <3>4. ASSUME NEW i \in 1..Len(q1), NEW j \in 1..Len(q1), q1[i] = x,
                 q1[j] = a \/ (p1[a] = "merged" /\ q1[j] = c1[a])
          PROVE  j <= i
      <4>1. i + 1 \in 1..Len(q) /\ j + 1 \in 1..Len(q) /\ q1[i] = q[i + 1] /\ q1[j] = q[j + 1]
        BY <2>1
      <4>2. j + 1 <= i + 1 BY <4>1, <3>4, <3>2, <3>3
      <4> QED BY <4>2
    <3> QED BY <3>2, <3>3, <3>4, <2>2 DEF Ahead
  <2> QED
    BY <2>1, <2>3, <2>4, <1>1, <1>5, <1>6, <1>7, <1>8, <1>9 DEF Intake, p1, c1
<1> QED BY <1>10, <1>11

\* A stop drops the burst.
LEMMA Drops ==
  ASSUME Intake(pc, kind, burst, queue, carrier)
  PROVE  Intake([m \in Messages |-> IF m \in Range(burst) THEN "dropped" ELSE pc[m]], kind, <<>>,
                queue, carrier)
<1> DEFINE p1 == [m \in Messages |-> IF m \in Range(burst) THEN "dropped" ELSE pc[m]]
<1>1. /\ pc \in [Messages -> Steps] /\ kind \in [Messages -> Kinds \cup {None}]
      /\ queue \in Seq(Messages) /\ burst \in Seq(Messages) /\ carrier \in [Messages -> Messages \cup {None}]
      /\ Ordered(pc) /\ Queued(pc, queue) /\ Parked(pc, kind, burst) /\ Carried(pc, kind, carrier)
      /\ Ways(pc, kind) /\ InFront(pc, kind, queue, carrier)
  BY DEF Intake
<1>2. \A x \in Messages : x \in Range(burst) <=> pc[x] = "parked"
  BY <1>1, Members DEF Parked
<1>3. /\ p1 \in [Messages -> Steps]
      /\ \A x \in Messages : p1[x] = IF pc[x] = "parked" THEN "dropped" ELSE pc[x]
  BY <1>1, <1>2 DEF Steps
<1> HIDE DEF p1
<1>4. Ordered(p1)
  BY <1>1, <1>3 DEF Ordered
<1>5. Parked(p1, kind, <<>>)
  BY <1>3 DEF Parked
<1>6. Queued(p1, queue)
  BY <1>1, <1>3, ElementOfSeq DEF Queued
<1>7. Ways(p1, kind)
  BY <1>1, <1>3 DEF Ways
<1>8. \A x \in Messages : carrier[x] # None => p1[carrier[x]] = pc[carrier[x]] /\ p1[x] = pc[x]
  BY <1>1, <1>3 DEF Carried
<1>9. Carried(p1, kind, carrier)
  BY <1>1, <1>3, <1>8 DEF Carried
<1>10. InFront(p1, kind, queue, carrier)
  <2> SUFFICES ASSUME NEW a \in Messages, NEW x \in Messages, Behind(a, x, p1, kind)
               PROVE  Ahead(p1, queue, carrier, a, x)
    BY DEF InFront
  <2>1. Behind(a, x, pc, kind) BY DEF Behind
  <2>2. /\ p1[x] \in {"queued", "started", "running"} => pc[x] = p1[x]
        /\ p1[a] # "parked" /\ (p1[a] \in {"queued", "merged"} => pc[a] = p1[a])
        /\ p1[a] = "merged" => p1[carrier[a]] = pc[carrier[a]]
    BY <1>1, <1>3, <1>8 DEF Carried
  <2> QED BY <2>1, <2>2, <1>1 DEF InFront, Ahead
<1> QED
  BY <1>1, <1>3, <1>4, <1>5, <1>6, <1>7, <1>9, <1>10, EmptySeq DEF Intake, p1

-----------------------------------------------------------------------------
(* Order is an invariant. *)

Before == {"new", "parked", "steering", "injecting", "preempting", "merged"}

\* A step of the intake: whoever has been queued once stays where it is.
Unmoved == \A x \in Messages :
  /\ pc[x] \notin Before => pc'[x] = pc[x]
  /\ pc[x] \in Before => pc'[x] \notin {"started", "running", "watching"}
  /\ pc[x] # "new" => pc'[x] # "new" /\ kind'[x] = kind[x]

\* What the lemmas on the intake say of a step, with the mode it leaves as it is.
LEMMA PrimedOrder ==
  ASSUME Intake(pc', kind', burst', queue', carrier'), Alone', mode' = mode
  PROVE  Order'
<1>1. Preempts' <=> Preempts
  BY DEF Preempts
<1>2. Ways(pc', kind') => Ways(pc, kind)'
  BY <1>1 DEF Ways
<1>3. InFront(pc', kind', queue', carrier') => InFront(pc, kind, queue, carrier)'
  <2> SUFFICES ASSUME InFront(pc', kind', queue', carrier'), NEW a \in Messages, NEW m \in Messages,
                      Behind(a, m, pc, kind)'
               PROVE  Ahead(pc, queue, carrier, a, m)'
    BY DEF InFront
  <2>1. Behind(a, m, pc', kind') BY <1>1 DEF Behind
  <2>2. Ahead(pc', queue', carrier', a, m) BY <2>1 DEF InFront
  <2> QED BY <2>2 DEF Ahead
<1>4. /\ Ordered(pc') => Ordered(pc)'
      /\ Parked(pc', kind', burst') => Parked(pc, kind, burst)'
      /\ Queued(pc', queue') => Queued(pc, queue)'
      /\ Carried(pc', kind', carrier') => Carried(pc, kind, carrier)'
  BY DEF Ordered, Parked, Queued, Carried
<1> QED
  BY <1>2, <1>3, <1>4 DEF Order, Intake

\* The intake moves no task.
LEMMA UnmovedAlone ==
  ASSUME Alone, Unmoved, busy' = busy
  PROVE  Alone'
  BY DEF Alone, Unmoved, Before

\* Where everything is once a burst was submitted, or was left alone (handleLarkMessage).
LEMMA Flushed ==
  ASSUME Intake(pc, kind, burst, queue, carrier), NEW k
  PROVE  /\ Intake(PcThen(k), kind, BurstThen(k), QueueThen(k), IF Submits(k) THEN Carry ELSE carrier)
         /\ \A x \in Messages : PcThen(k)[x] # pc[x] =>
              pc[x] = "parked" /\ PcThen(k)[x] \in {"queued", "merged"}
         /\ k \in {"q", "quote"} => BurstThen(k) = <<>>
<1>1. CASE Submits(k)
  <2>1. burst # <<>> BY <1>1 DEF Submits
  <2>2. Intake(Merge("queued"), kind, <<>>, Append(queue, Lead), Carry)
    BY <2>1, Submitted
  <2>3. \A x \in Messages : x \in Range(burst) <=> pc[x] = "parked"
    BY Members DEF Intake, Parked
  <2>4. ASSUME NEW x \in Messages
        PROVE  Merge("queued")[x] # pc[x] =>
                 pc[x] = "parked" /\ Merge("queued")[x] \in {"queued", "merged"}
    <3>1. Merge("queued")[x] = IF x \notin Range(burst) THEN pc[x]
                               ELSE IF x = Lead THEN "queued" ELSE "merged"
      BY DEF Merge
    <3> QED BY <3>1, <2>3
  <2> QED BY <2>2, <2>4, <1>1 DEF PcThen, BurstThen, QueueThen
<1>2. CASE ~Submits(k)
  <2>1. PcThen(k) = pc /\ BurstThen(k) = burst /\ QueueThen(k) = queue
    BY <1>2 DEF PcThen, BurstThen, QueueThen
  <2>2. k \in {"q", "quote"} => burst = <<>>
    BY <1>2 DEF Submits
  <2>3. (IF Submits(k) THEN Carry ELSE carrier) = carrier
    BY <1>2
  <2>4. Intake(PcThen(k), kind, BurstThen(k), QueueThen(k), IF Submits(k) THEN Carry ELSE carrier)
    BY <2>1, <2>3
  <2>5. \A x \in Messages : PcThen(k)[x] = pc[x]
    BY <2>1
  <2> QED BY <2>1, <2>2, <2>4, <2>5
<1> QED BY <1>1, <1>2

\* A message arrives (handleLarkMessage): the burst first, where the message submits it.
LEMMA ArriveOrder ==
  ASSUME Order, NEW m \in Messages, Arrive(m)
  PROVE  Order' /\ Unmoved
<1> PICK k \in Kinds, same \in BOOLEAN :
      /\ kind' = [kind EXCEPT ![m] = k]
      /\ carrier' = IF Submits(k) THEN Carry ELSE carrier
      /\ \/ /\ Parks(k, same)
            /\ pc' = [PcThen(k) EXCEPT ![m] = "parked"] /\ burst' = Append(BurstThen(k), m)
            /\ queue' = QueueThen(k)
         \/ /\ Steers(k)
            /\ pc' = [pc EXCEPT ![m] = "steering"] /\ UNCHANGED <<burst, queue>>
         \/ /\ Preempting(k, QueueThen(k))
            /\ pc' = [PcThen(k) EXCEPT ![m] = "preempting"]
            /\ burst' = BurstThen(k) /\ queue' = QueueThen(k)
         \/ /\ pc' = [PcThen(k) EXCEPT ![m] = "queued"]
            /\ burst' = BurstThen(k) /\ queue' = Append(QueueThen(k), m)
  <2>1. IF burst = <<>> \/ Batches THEN {TRUE} \subseteq BOOLEAN ELSE BOOLEAN \subseteq BOOLEAN
    OBVIOUS
  <2> QED BY <2>1 DEF Arrive
<1> DEFINE p == PcThen(k)
           c == IF Submits(k) THEN Carry ELSE carrier
<1>1. pc[m] = "new" /\ (\A earlier \in 1..(m - 1) : pc[earlier] # "new") /\ mode' = mode /\ busy' = busy
  BY DEF Arrive
<1>2. /\ Intake(p, kind, BurstThen(k), QueueThen(k), c)
      /\ \A x \in Messages : p[x] # pc[x] => pc[x] = "parked" /\ p[x] \in {"queued", "merged"}
      /\ k \in {"q", "quote"} => BurstThen(k) = <<>>
  BY Flushed DEF Order
<1>3. carrier' = c
  OBVIOUS
<1> HIDE DEF p, c
<1>4. p[m] = "new" /\ \A earlier \in 1..(m - 1) : p[earlier] # "new"
  <2>1. \A earlier \in 1..(m - 1) : earlier \in Messages BY LarkRunsAssumption DEF Messages
  <2> QED BY <2>1, <1>1, <1>2
<1>5. Intake(pc, kind, burst, queue, carrier) /\ Alone
  BY DEF Order
<1>6. pc \in [Messages -> Steps] /\ p \in [Messages -> Steps] /\ kind \in [Messages -> Kinds \cup {None}]
  BY <1>2, <1>5 DEF Intake
<1>7. ASSUME NEW w \in {"parked", "steering", "preempting", "queued"},
             pc' = [p EXCEPT ![m] = w] \/ pc' = [pc EXCEPT ![m] = w]
      PROVE  Unmoved /\ Alone'
  <2>1. Unmoved
    <3> SUFFICES ASSUME NEW x \in Messages
                 PROVE  /\ pc[x] \notin Before => pc'[x] = pc[x]
                        /\ pc[x] \in Before => pc'[x] \notin {"started", "running", "watching"}
                        /\ pc[x] # "new" => pc'[x] # "new" /\ kind'[x] = kind[x]
      BY DEF Unmoved
    <3>1. CASE x = m
      <4>1. pc'[m] = w BY <1>6, <1>7
      <4> QED BY <3>1, <4>1, <1>1 DEF Before
    <3>2. CASE x # m
      <4>1. pc'[x] = p[x] \/ pc'[x] = pc[x]
        BY <3>2, <1>6, <1>7
      <4>3. pc'[x] = pc[x] \/ (pc[x] = "parked" /\ pc'[x] \in {"queued", "merged"})
        BY <4>1, <1>2
      <4>2. kind'[x] = kind[x] BY <3>2, <1>6
      <4> QED BY <4>2, <4>3 DEF Before
    <3> QED BY <3>1, <3>2
  <2> QED BY <2>1, <1>1, <1>5, UnmovedAlone
<1>8. CASE /\ Parks(k, same)
           /\ pc' = [PcThen(k) EXCEPT ![m] = "parked"] /\ burst' = Append(BurstThen(k), m)
           /\ queue' = QueueThen(k)
  <2>1. k \in Kinds \cap {"text", "quote", "attachment"} BY <1>8 DEF Parks
  <2>2. Intake([p EXCEPT ![m] = "parked"], [kind EXCEPT ![m] = k], Append(BurstThen(k), m), QueueThen(k), c)
    BY <2>1, <1>2, <1>4, JoinsBurst
  <2>3. Intake(pc', kind', burst', queue', carrier') BY <2>2, <1>3, <1>8 DEF p
  <2>4. pc' = [p EXCEPT ![m] = "parked"] BY <1>8 DEF p
  <2>5. Unmoved /\ Alone' BY <2>4, <1>7
  <2> QED BY <2>3, <2>5, <1>1, PrimedOrder
<1>9. CASE Steers(k) /\ pc' = [pc EXCEPT ![m] = "steering"] /\ UNCHANGED <<burst, queue>>
  <2>1. k = "text" /\ ~Submits(k) BY <1>9 DEF Steers, Submits
  <2>2. Intake([pc EXCEPT ![m] = "steering"], [kind EXCEPT ![m] = k], burst, queue, carrier)
    BY <2>1, <1>1, <1>5, GoesItsWay
  <2>3. Intake(pc', kind', burst', queue', carrier') BY <2>1, <2>2, <1>9
  <2>4. Unmoved /\ Alone' BY <1>9, <1>7
  <2> QED BY <2>3, <2>4, <1>1, PrimedOrder
<1>10. CASE /\ Preempting(k, QueueThen(k))
            /\ pc' = [PcThen(k) EXCEPT ![m] = "preempting"]
            /\ burst' = BurstThen(k) /\ queue' = QueueThen(k)
  <2>1. Preempts BY <1>10 DEF Preempting
  <2>2. Intake([p EXCEPT ![m] = "preempting"], [kind EXCEPT ![m] = k], BurstThen(k), QueueThen(k), c)
    BY <2>1, <1>2, <1>4, GoesItsWay
  <2>3. Intake(pc', kind', burst', queue', carrier') BY <2>2, <1>3, <1>10 DEF p
  <2>4. pc' = [p EXCEPT ![m] = "preempting"] BY <1>10 DEF p
  <2>5. Unmoved /\ Alone' BY <2>4, <1>7
  <2> QED BY <2>3, <2>5, <1>1, PrimedOrder
<1>11. CASE /\ pc' = [PcThen(k) EXCEPT ![m] = "queued"]
            /\ burst' = BurstThen(k) /\ queue' = Append(QueueThen(k), m)
  <2>2. Intake([p EXCEPT ![m] = "queued"], [kind EXCEPT ![m] = k], BurstThen(k), Append(QueueThen(k), m), c)
    BY <1>2, <1>4, JoinsQueue
  <2>3. Intake(pc', kind', burst', queue', carrier') BY <2>2, <1>3, <1>11 DEF p
  <2>4. pc' = [p EXCEPT ![m] = "queued"] BY <1>11 DEF p
  <2>5. Unmoved /\ Alone' BY <2>4, <1>7
  <2> QED BY <2>3, <2>5, <1>1, PrimedOrder
<1> QED BY <1>8, <1>9, <1>10, <1>11

\* The window of a burst closes (flushBatchedLarkTurn).
LEMMA WindowOrder ==
  ASSUME Order, WindowEnds
  PROVE  Order' /\ Unmoved
<1>1. burst # <<>> /\ burst' = <<>> /\ carrier' = Carry /\ mode' = mode /\ kind' = kind /\ busy' = busy
      /\ \/ Preempts /\ pc' = Merge("preempting") /\ queue' = queue
         \/ pc' = Merge("queued") /\ queue' = Append(queue, Lead)
  BY DEF WindowEnds, Preempting
<1>2. Intake(pc, kind, burst, queue, carrier) /\ Alone
  BY DEF Order
<1>3. Intake(pc', kind', burst', queue', carrier')
  BY <1>1, <1>2, Submitted
<1>4. \A x \in Messages : x \in Range(burst) <=> pc[x] = "parked"
  BY <1>2, Members DEF Intake, Parked
<1>5. ASSUME NEW w \in {"queued", "preempting"}, pc' = Merge(w)
      PROVE  Unmoved
  <2>1. \A x \in Messages : pc'[x] = IF x \notin Range(burst) THEN pc[x] ELSE IF x = Lead THEN w ELSE "merged"
    BY <1>5 DEF Merge
  <2> QED BY <2>1, <1>1, <1>4 DEF Unmoved, Before
<1>6. Unmoved
  BY <1>1, <1>5
<1> QED
  BY <1>1, <1>2, <1>3, <1>6, UnmovedAlone, PrimedOrder

\* A message that was being steered, or that preempts, is done with the intake.
LEMMA QueuesOrder ==
  ASSUME Order, NEW m \in Messages, SteerReady(m) \/ SteerAnswered(m) \/ PreemptReady(m)
  PROVE  Order' /\ Unmoved
<1>1. /\ burst' = burst /\ carrier' = carrier /\ mode' = mode /\ kind' = kind /\ busy' = busy
      /\ pc[m] \in {"steering", "injecting", "preempting"}
      /\ \/ pc' = [pc EXCEPT ![m] = "queued"] /\ queue' = Append(queue, m)
         \/ /\ pc[m] = "steering" /\ pc' = [pc EXCEPT ![m] = "injecting"] /\ queue' = queue
         \/ /\ pc[m] = "injecting" /\ pc' = [pc EXCEPT ![m] = "steered"] /\ queue' = queue
  BY DEF SteerReady, SteerAnswered, PreemptReady, intake
<1>2. Intake(pc, kind, burst, queue, carrier) /\ Alone /\ pc \in [Messages -> Steps]
  BY DEF Order, Intake
<1>3. Intake(pc', kind', burst', queue', carrier')
  <2>1. Intake([pc EXCEPT ![m] = "queued"], kind, burst, Append(queue, m), carrier)
    BY <1>1, <1>2, Requeues
  <2>2. pc[m] \in {"steering", "injecting"} =>
          /\ Intake([pc EXCEPT ![m] = "injecting"], kind, burst, queue, carrier)
          /\ Intake([pc EXCEPT ![m] = "steered"], kind, burst, queue, carrier)
    BY <1>2, GoesOn
  <2> QED BY <2>1, <2>2, <1>1
<1>4. Unmoved
  <2>1. PICK w \in {"queued", "injecting", "steered"} : pc' = [pc EXCEPT ![m] = w]
    BY <1>1
  <2>2. pc'[m] = w /\ \A x \in Messages \ {m} : pc'[x] = pc[x]
    BY <2>1, <1>2
  <2> QED BY <2>2, <1>1 DEF Unmoved, Before
<1> QED
  BY <1>1, <1>2, <1>3, <1>4, UnmovedAlone, PrimedOrder

\* A stop drops the burst, and leaves everyone else where they are.
LEMMA StopOrder ==
  ASSUME Order, Stop
  PROVE  Order' /\ Unmoved
<1>1. /\ burst' = <<>> /\ carrier' = carrier /\ mode' = mode /\ kind' = kind /\ busy' = busy /\ queue' = queue
      /\ pc' = [m \in Messages |-> IF m \in Range(burst) THEN "dropped" ELSE pc[m]]
  BY DEF Stop, DropBurst, tasks
<1>2. Intake(pc, kind, burst, queue, carrier) /\ Alone
  BY DEF Order
<1>3. Intake(pc', kind', burst', queue', carrier')
  BY <1>1, <1>2, Drops
<1>4. Unmoved
  <2>1. \A x \in Messages : x \in Range(burst) <=> pc[x] = "parked"
    BY <1>2, Members DEF Intake, Parked
  <2> QED BY <2>1, <1>1 DEF Unmoved, Before
<1> QED
  BY <1>1, <1>2, <1>3, <1>4, UnmovedAlone, PrimedOrder

\* What neither moves a message nor the queue.
LEMMA StillOrder ==
  ASSUME Order, UNCHANGED <<mode, pc, kind, burst, carrier, queue, busy>>
  PROVE  Order' /\ Unmoved
<1>1. Unmoved
  BY DEF Unmoved, Before
<1>2. Intake(pc', kind', burst', queue', carrier')
  BY DEF Order
<1> QED BY <1>1, <1>2, UnmovedAlone, PrimedOrder DEF Order

\* The tasks: what a step does to the message whose task it is.
LEMMA SkipOrder ==
  ASSUME Order, Skip
  PROVE  /\ Order' /\ Head(queue) \in Messages /\ pc[Head(queue)] = "queued" /\ kind' = kind
         /\ \A x \in Messages : pc'[x] # pc[x] =>
              (x = Head(queue) \/ pc[x] = "merged") /\ pc'[x] = "skipped"
<1>1. /\ queue # <<>> /\ queue' = Tail(queue) /\ burst' = burst /\ mode' = mode /\ kind' = kind
      /\ busy' = busy
      /\ pc' = [x \in Messages |-> IF x = Head(queue) \/ carrier[x] = Head(queue) THEN "skipped" ELSE pc[x]]
      /\ carrier' = [x \in Messages |-> IF carrier[x] = Head(queue) THEN None ELSE carrier[x]]
  BY DEF Skip, Settles
<1>2. Intake(pc, kind, burst, queue, carrier) /\ Alone
  BY DEF Order
<1>3. Head(queue) \in Messages /\ pc[Head(queue)] = "queued" /\ Head(queue) # None
  BY <1>1, <1>2, Shifted, LarkRunsAssumption DEF Intake, Queued
<1>4. Intake(pc', kind', burst', queue', carrier')
  <2>1. Intake(StepsThen(pc, carrier, Head(queue), "skipped"), kind, burst, Tail(queue),
               CarriersThen(carrier, Head(queue)))
    BY <1>1, <1>2, <1>3, SettlesWell
  <2> QED BY <2>1, <1>1 DEF StepsThen, CarriersThen
<1>5. \A x \in Messages : carrier[x] = Head(queue) => pc[x] = "merged"
  BY <1>2, <1>3 DEF Intake, Carried
<1>6. \A x \in Messages : pc'[x] # pc[x] =>
        (x = Head(queue) \/ pc[x] = "merged") /\ pc'[x] = "skipped"
  BY <1>1, <1>5
<1>7. Alone'
  BY <1>1, <1>2, <1>3, <1>6 DEF Alone
<1> QED
  BY <1>1, <1>3, <1>4, <1>6, <1>7, PrimedOrder

\* The next task of the queue starts.
LEMMA NextTaskOrder ==
  ASSUME Order, NextTask
  PROVE  /\ Order' /\ Head(queue) \in Messages /\ pc[Head(queue)] = "queued" /\ kind' = kind
         /\ pc'[Head(queue)] = "started" /\ \A x \in Messages \ {Head(queue)} : pc'[x] = pc[x]
<1>1. /\ queue # <<>> /\ queue' = Tail(queue) /\ burst' = burst /\ mode' = mode /\ kind' = kind
      /\ busy = None /\ busy' = Head(queue) /\ carrier' = carrier
      /\ pc' = [pc EXCEPT ![Head(queue)] = "started"]
  BY DEF NextTask, intake
<1>2. Intake(pc, kind, burst, queue, carrier) /\ Alone /\ pc \in [Messages -> Steps]
  BY DEF Order, Intake
<1>3. Head(queue) \in Messages /\ pc[Head(queue)] = "queued"
  BY <1>1, <1>2, Shifted DEF Intake, Queued
<1>4. Intake(pc', kind', burst', queue', carrier')
  BY <1>1, <1>2, Starts
<1>5. pc'[Head(queue)] = "started" /\ \A x \in Messages \ {Head(queue)} : pc'[x] = pc[x]
  BY <1>1, <1>2, <1>3
<1>6. \A x \in Messages : pc[x] \notin {"started", "running"}
  BY <1>1, <1>2, LarkRunsAssumption DEF Alone
<1>7. Alone'
  BY <1>1, <1>2, <1>3, <1>5, <1>6 DEF Alone
<1> QED
  BY <1>1, <1>3, <1>4, <1>5, <1>7, PrimedOrder

\* A run starts, or a pursuit or a command leaves the queue, or a watch returns.
LEMMA RunOrder ==
  ASSUME Order, NEW m \in Messages, NEW w \in {"running", "watching", "done"},
         pc' = [pc EXCEPT ![m] = w], UNCHANGED <<mode, kind, burst, carrier, queue>>,
         \/ pc[m] = "started" /\ w = "running" /\ kind[m] # "goal" /\ busy' = busy
         \/ pc[m] = "started" /\ w = "watching" /\ kind[m] = "goal" /\ busy' = None
         \/ pc[m] = "started" /\ w = "done" /\ kind[m] = "command" /\ busy' = None
         \/ pc[m] = "watching" /\ w = "done" /\ busy' = busy
  PROVE  /\ Order' /\ pc'[m] = w /\ \A x \in Messages \ {m} : pc'[x] = pc[x]
<1>1. Intake(pc, kind, burst, queue, carrier) /\ Alone /\ pc \in [Messages -> Steps]
  BY DEF Order, Intake
<1>2. \/ pc[m] = "started" /\ w = "running"
      \/ pc[m] \in {"started", "watching"} /\ w \in {"watching", "done"} /\ kind[m] \in {"goal", "command"}
  BY <1>1 DEF Alone
<1>3. Intake(pc', kind', burst', queue', carrier')
  <2>1. Intake([pc EXCEPT ![m] = w], kind, burst, queue, carrier)
    BY <1>1, <1>2, GoesOn
  <2> QED BY <2>1
<1>4. pc'[m] = w /\ \A x \in Messages \ {m} : pc'[x] = pc[x]
  BY <1>1
<1>5. Alone'
  BY <1>1, <1>4, LarkRunsAssumption DEF Alone
<1> QED
  BY <1>3, <1>4, <1>5, PrimedOrder

\* A task ends, with the messages of its batch.
LEMMA FinishOrder ==
  ASSUME Order, NEW m \in Messages, Finish(m)
  PROVE  /\ Order' /\ kind' = kind /\ pc'[m] = "done" /\ pc[m] \in {"started", "running"}
         /\ \A x \in Messages \ {m} : pc'[x] # pc[x] => pc[x] = "merged" /\ pc'[x] = "done"
<1>1. /\ pc[m] \in {"started", "running"} /\ queue' = queue /\ burst' = burst /\ mode' = mode /\ kind' = kind
      /\ busy = m /\ busy' = None
      /\ pc' = [x \in Messages |-> IF x = m \/ carrier[x] = m THEN "done" ELSE pc[x]]
      /\ carrier' = [x \in Messages |-> IF carrier[x] = m THEN None ELSE carrier[x]]
  BY DEF Finish, Settles
<1>2. Intake(pc, kind, burst, queue, carrier) /\ Alone /\ m # None
  BY LarkRunsAssumption DEF Order
<1>3. Intake(pc', kind', burst', queue', carrier')
  <2>1. Intake(StepsThen(pc, carrier, m, "done"), kind, burst, queue, CarriersThen(carrier, m))
    BY <1>1, <1>2, SettlesWell
  <2> QED BY <2>1, <1>1 DEF StepsThen, CarriersThen
<1>4. \A x \in Messages : carrier[x] = m => pc[x] = "merged"
  BY <1>2 DEF Intake, Carried
<1>5. /\ pc'[m] = "done"
      /\ \A x \in Messages \ {m} : pc'[x] # pc[x] => pc[x] = "merged" /\ pc'[x] = "done"
  BY <1>1, <1>4
<1>6. Alone'
  BY <1>1, <1>2, <1>5 DEF Alone
<1> QED
  BY <1>1, <1>3, <1>5, <1>6, PrimedOrder

-----------------------------------------------------------------------------
(* The slot. *)

\* A step that takes no one's slot, starts no run and ends none.
LEMMA KeepsSlots ==
  ASSUME Slots, slot' = slot, attached' = attached, tap' = tap, aborted \subseteq aborted',
         \A x \in Messages :
           /\ pc[x] # "new" => pc'[x] # "new" /\ kind'[x] = kind[x]
           /\ pc[x] \in {"running", "watching"} => pc'[x] = pc[x]
           /\ pc'[x] \in {"running", "watching"} => pc'[x] = pc[x]
  PROVE  Slots'
<1> SUFFICES ASSUME NoTap
             PROVE  /\ slot # None => slot \in Messages /\ pc'[slot] \in {"running", "watching"}
                    /\ \A g \in Messages : attached[g] # None =>
                         attached[g] \in Messages /\ pc'[attached[g]] # "new" /\ kind'[attached[g]] # "goal"
                    /\ \A m \in Messages : pc'[m] = "watching" /\ m \notin aborted' => slot = m
                    /\ \A m \in Messages : pc'[m] = "running" /\ m \notin aborted' => Reachable(m)'
  BY DEF Slots, NoTap
<1>1. /\ slot # None => slot \in Messages /\ pc[slot] \in {"running", "watching"}
      /\ \A g \in Messages : attached[g] # None =>
           attached[g] \in Messages /\ pc[attached[g]] # "new" /\ kind[attached[g]] # "goal"
      /\ \A m \in Messages : pc[m] = "watching" /\ m \notin aborted => slot = m
      /\ \A m \in Messages : pc[m] = "running" /\ m \notin aborted => Reachable(m)
  BY DEF Slots
<1>2. ASSUME NEW m \in Messages, pc'[m] = "running", m \notin aborted'
      PROVE  Reachable(m)'
  <2>1. Reachable(m) BY <1>1, <1>2
  <2>2. slot # None => slot \in Messages /\ kind'[slot] = kind[slot] BY <1>1
  <2>3. slot # None BY <2>1, LarkRunsAssumption DEF Reachable
  <2> QED BY <2>1, <2>2, <2>3 DEF Reachable, IsPursuit
<1> QED BY <1>1, <1>2

\* The slot is free for a run that starts, or a pursuit has it (claimLarkRunSlot).
LEMMA ActivateSlots ==
  ASSUME Order, Slotted, Slots, NEW m \in Messages, Activate(m)
  PROVE  Slots'
<1> SUFFICES ASSUME NoTap PROVE Slots'
  <2>1. tap' = tap BY DEF Activate
  <2> QED BY <2>1 DEF Slots, NoTap
<1>1. /\ slot # None => slot \in Messages /\ pc[slot] \in {"running", "watching"}
      /\ \A g \in Messages : attached[g] # None =>
           attached[g] \in Messages /\ pc[attached[g]] # "new" /\ kind[attached[g]] # "goal"
      /\ \A x \in Messages : pc[x] = "watching" /\ x \notin aborted => slot = x
      /\ \A x \in Messages : pc[x] = "running" /\ x \notin aborted => Reachable(x)
  BY DEF Slots
<1>2. /\ pc[m] = "started" /\ kind[m] # "goal" /\ kind' = kind /\ aborted \subseteq aborted'
      /\ pc' = [pc EXCEPT ![m] = "running"]
      /\ Claim(m, FALSE) \/ Claim(m, TRUE)
  BY DEF Activate, intake, Abort
<1>3. pc'[m] = "running" /\ \A x \in Messages \ {m} : pc'[x] = pc[x]
  BY <1>2 DEF Order, Intake
<1>4. \A x \in Messages : pc[x] # "running"
  BY <1>2 DEF Order, Alone
<1>5. m # None
  BY LarkRunsAssumption
<1>6. CASE slot = None
  <2>1. slot' = m /\ attached' = attached
    BY <1>2, <1>6 DEF Claim
  <2>2. \A x \in Messages : pc[x] = "watching" => x \in aborted
    BY <1>1, <1>6, LarkRunsAssumption
  <2> QED BY <2>1, <2>2, <1>1, <1>2, <1>3, <1>4 DEF Slots, Reachable
<1>7. CASE slot # None
  <2>1. slot \in Messages /\ slot # m /\ pc[slot] = "watching" /\ kind[slot] = "goal"
    BY <1>1, <1>2, <1>4, <1>7 DEF Order, Alone
  <2>2. slot' = slot /\ attached' = [attached EXCEPT ![slot] = m]
    BY <2>1, <1>2, <1>7 DEF Claim, IsPursuit
  <2>3. attached'[slot] = m /\ \A g \in Messages \ {slot} : attached'[g] = attached[g]
    BY <2>1, <2>2 DEF Slotted
  <2>4. \A g \in Messages : attached'[g] # None =>
          attached'[g] \in Messages /\ pc'[attached'[g]] # "new" /\ kind'[attached'[g]] # "goal"
    BY <2>3, <1>1, <1>2, <1>3
  <2>5. Reachable(m)'
    BY <2>1, <2>2, <2>3, <1>2, <1>7 DEF Reachable, IsPursuit
  <2>6. \A x \in Messages : pc'[x] = "watching" /\ x \notin aborted' => slot' = x
    BY <2>2, <1>1, <1>2, <1>3
  <2>7. \A x \in Messages : pc'[x] = "running" => x = m
    BY <1>3, <1>4
  <2> QED BY <2>1, <2>2, <2>4, <2>5, <2>6, <2>7, <1>3 DEF Slots
<1> QED BY <1>6, <1>7

\* A run that ends gives the slot back, if it is still its own.
LEMMA FinishSlots ==
  ASSUME Order, Slotted, Slots, NEW m \in Messages, Finish(m)
  PROVE  Slots'
<1> SUFFICES ASSUME NoTap PROVE Slots'
  <2>1. tap' = tap BY DEF Finish
  <2> QED BY <2>1 DEF Slots, NoTap
<1>1. /\ slot # None => slot \in Messages /\ pc[slot] \in {"running", "watching"}
      /\ \A g \in Messages : attached[g] # None =>
           attached[g] \in Messages /\ pc[attached[g]] # "new" /\ kind[attached[g]] # "goal"
      /\ \A x \in Messages : pc[x] = "watching" /\ x \notin aborted => slot = x
  BY DEF Slots
<1>2. /\ busy = m /\ slot' = (IF slot = m THEN None ELSE slot) /\ aborted' = aborted \ {m}
      /\ attached' = IF host[m] # None /\ attached[host[m]] = m
                     THEN [attached EXCEPT ![host[m]] = None] ELSE attached
  BY DEF Finish, Release
<1>3. /\ kind' = kind /\ pc'[m] = "done"
      /\ \A x \in Messages \ {m} : pc'[x] # pc[x] => pc[x] = "merged" /\ pc'[x] = "done"
  BY FinishOrder
<1>4. \A x \in Messages : pc'[x] # "running"
  BY <1>2, <1>3 DEF Order, Alone
<1>5. \A g \in Messages : attached'[g] = attached[g] \/ attached'[g] = None
  BY <1>2 DEF Slotted
<1>6. \A g \in Messages : attached'[g] # None =>
        attached'[g] \in Messages /\ pc'[attached'[g]] # "new" /\ kind'[attached'[g]] # "goal"
  <2> SUFFICES ASSUME NEW g \in Messages, attached'[g] # None
               PROVE  attached'[g] \in Messages /\ pc'[attached'[g]] # "new" /\ kind'[attached'[g]] # "goal"
    OBVIOUS
  <2>1. attached'[g] = attached[g] BY <1>5
  <2> QED BY <2>1, <1>1, <1>3
<1>7. slot' # None => slot' \in Messages /\ pc'[slot'] \in {"running", "watching"}
  <2> SUFFICES ASSUME slot' # None PROVE slot' \in Messages /\ pc'[slot'] \in {"running", "watching"}
    OBVIOUS
  <2>1. slot' = slot /\ slot # m /\ slot # None BY <1>2
  <2> QED BY <2>1, <1>1, <1>3
<1>8. \A x \in Messages : pc'[x] = "watching" /\ x \notin aborted' => slot' = x
  <2> SUFFICES ASSUME NEW x \in Messages, pc'[x] = "watching", x \notin aborted' PROVE slot' = x
    OBVIOUS
  <2>1. x # m /\ pc[x] = "watching" /\ x \notin aborted BY <1>2, <1>3
  <2> QED BY <2>1, <1>1, <1>2
<1> QED BY <1>4, <1>6, <1>7, <1>8 DEF Slots

\* A new pursuit takes the slot, after it has aborted the one that had it.
LEMMA PursueSlots ==
  ASSUME Order, Slotted, Slots, NEW m \in Messages, Pursue(m)
  PROVE  Slots'
<1> SUFFICES ASSUME NoTap PROVE Slots'
  <2>1. tap' = tap BY DEF Pursue
  <2> QED BY <2>1 DEF Slots, NoTap
<1>1. /\ slot # None => slot \in Messages /\ pc[slot] \in {"running", "watching"}
      /\ \A g \in Messages : attached[g] # None =>
           attached[g] \in Messages /\ pc[attached[g]] # "new" /\ kind[attached[g]] # "goal"
      /\ \A x \in Messages : pc[x] = "watching" /\ x \notin aborted => slot = x
  BY DEF Slots
<1>2. /\ pc[m] = "started" /\ kind[m] = "goal" /\ slot' = m /\ pc' = [pc EXCEPT ![m] = "watching"]
      /\ attached' = attached /\ kind' = kind
      /\ aborted \subseteq aborted' /\ (slot # None /\ Live(slot) => slot \in aborted')
  BY DEF Pursue, Abort, intake
<1>3. pc'[m] = "watching" /\ \A x \in Messages \ {m} : pc'[x] = pc[x]
  BY <1>2 DEF Order, Intake
<1>4. \A x \in Messages : pc'[x] # "running"
  BY <1>2, <1>3 DEF Order, Alone
<1>5. ASSUME NEW x \in Messages, pc'[x] = "watching", x \notin aborted'
      PROVE  x = m
  <2>1. SUFFICES ASSUME x # m PROVE FALSE OBVIOUS
  <2>2. pc[x] = "watching" /\ x \notin aborted BY <2>1, <1>2, <1>3, <1>5
  <2>3. slot = x BY <2>2, <1>1
  <2>4. x \notin Cards /\ x # None BY LarkRunsAssumption
  <2>5. Live(x) BY <2>2, <2>4 DEF Live
  <2> QED BY <2>3, <2>4, <2>5, <1>2, <1>5
<1>6. \A g \in Messages : attached[g] # None => pc'[attached[g]] # "new"
  BY <1>1, <1>3
<1> QED BY <1>1, <1>2, <1>3, <1>4, <1>5, <1>6 DEF Slots

\* The turn beside a pursuit takes over the slot.
LEMMA PursuitEndsSlots ==
  ASSUME Order, Slotted, Slots, NEW g \in Messages, PursuitEnds(g)
  PROVE  Slots'
<1> SUFFICES ASSUME NoTap PROVE Slots'
  <2>1. tap' = tap BY DEF PursuitEnds
  <2> QED BY <2>1 DEF Slots, NoTap
<1>1. /\ slot # None => slot \in Messages /\ pc[slot] \in {"running", "watching"}
      /\ \A h \in Messages : attached[h] # None =>
           attached[h] \in Messages /\ pc[attached[h]] # "new" /\ kind[attached[h]] # "goal"
      /\ \A x \in Messages : pc[x] = "watching" /\ x \notin aborted => slot = x
      /\ \A x \in Messages : pc[x] = "running" /\ x \notin aborted => Reachable(x)
  BY DEF Slots
<1>2. /\ pc[g] = "watching" /\ pc' = [pc EXCEPT ![g] = "done"] /\ aborted' = aborted \ {g}
      /\ slot' = (IF slot = g THEN Concurrent(g) ELSE slot) /\ attached' = attached /\ kind' = kind
      /\ kind[g] = "goal"
  BY DEF PursuitEnds, intake, Order, Alone
<1>3. pc'[g] = "done" /\ \A x \in Messages \ {g} : pc'[x] = pc[x]
  BY <1>2 DEF Order, Intake
<1>4. Concurrent(g) # None =>
        Concurrent(g) = attached[g] /\ Concurrent(g) \in Messages \ {g}
        /\ pc[Concurrent(g)] \in {"running", "watching"}
  <2> SUFFICES ASSUME Concurrent(g) # None
               PROVE  Concurrent(g) = attached[g] /\ Concurrent(g) \in Messages \ {g}
                      /\ pc[Concurrent(g)] \in {"running", "watching"}
    OBVIOUS
  <2>1. attached[g] # None /\ Live(attached[g]) /\ Concurrent(g) = attached[g] BY DEF Concurrent
  <2>2. attached[g] \in Messages /\ attached[g] # g BY <2>1, <1>1, <1>2
  <2>3. attached[g] \notin Cards BY <2>2, LarkRunsAssumption
  <2> QED BY <2>1, <2>2, <2>3 DEF Live
<1>5. slot' # None => slot' \in Messages /\ pc'[slot'] \in {"running", "watching"}
  BY <1>1, <1>2, <1>3, <1>4
<1>6. \A h \in Messages : attached[h] # None => pc'[attached[h]] # "new"
  BY <1>1, <1>3
<1>7. \A x \in Messages : pc'[x] = "watching" /\ x \notin aborted' => slot' = x
  BY <1>1, <1>2, <1>3
<1>8. ASSUME NEW x \in Messages, pc'[x] = "running", x \notin aborted'
      PROVE  Reachable(x)'
  <2>1. x # g /\ pc[x] = "running" /\ x \notin aborted BY <1>2, <1>3, <1>8
  <2>2. Reachable(x) BY <2>1, <1>1
  <2>3. CASE slot = g
    <3>1. attached[g] = x BY <2>1, <2>2, <2>3 DEF Reachable
    <3>2. Live(x) /\ x # None BY <2>1, LarkRunsAssumption DEF Live
    <3>3. slot' = x BY <3>1, <3>2, <2>3, <1>2 DEF Concurrent
    <3> QED BY <3>3 DEF Reachable
  <2>4. CASE slot # g
    BY <2>2, <2>4, <1>2 DEF Reachable, IsPursuit
  <2> QED BY <2>3, <2>4
<1> QED BY <1>1, <1>2, <1>5, <1>6, <1>7, <1>8 DEF Slots

\* A board card that was tapped ends the slot's promises for good.
LEMMA TapSlots ==
  ASSUME Slotted, NEW card \in Cards, TapBoard(card) \/ BoardEnds(card)
  PROVE  Slots'
<1>1. \E s \in {"running", "over"} : tap' = [tap EXCEPT ![card] = s]
  BY DEF TapBoard, BoardEnds
<1>2. tap'[card] # "idle"
  BY <1>1 DEF Slotted
<1> QED BY <1>2 DEF Slots, NoTap

\* Every step leaves the slot to a run that goes on.
LEMMA NextSlots ==
  ASSUME Order, Slotted, Slots, [Next]_vars
  PROVE  Slots'
<1> USE DEF runs, intake, tasks, cards, counters
<1>1. ASSUME Unmoved, slot' = slot, attached' = attached, tap' = tap, aborted \subseteq aborted'
      PROVE  Slots'
  BY <1>1, KeepsSlots DEF Unmoved, Before
<1>2. ASSUME NEW m \in Messages, Arrive(m) PROVE Slots'
  BY <1>1, <1>2, ArriveOrder DEF Arrive
<1>3. CASE WindowEnds
  BY <1>1, <1>3, WindowOrder DEF WindowEnds
<1>4. ASSUME NEW m \in Messages, SteerReady(m) \/ SteerAnswered(m) \/ PreemptReady(m) PROVE Slots'
  BY <1>1, <1>4, QueuesOrder DEF SteerReady, SteerAnswered, PreemptReady, Abort
<1>5. CASE Stop
  BY <1>1, <1>5, StopOrder DEF Stop, Abort
<1>6. ASSUME NEW m \in Messages, NotifyWait(m) \/ WaitNotified(m) \/ CancelTask(m) PROVE Slots'
  BY <1>1, <1>6, StillOrder DEF NotifyWait, WaitNotified, CancelTask
<1>7. CASE UNCHANGED vars
  BY <1>1, <1>7, StillOrder DEF vars
<1>8. CASE Skip
  <2>1. slot' = slot /\ attached' = attached /\ tap' = tap /\ aborted \subseteq aborted'
    BY <1>8 DEF Skip
  <2>2. /\ Head(queue) \in Messages /\ pc[Head(queue)] = "queued" /\ kind' = kind
        /\ \A x \in Messages : pc'[x] # pc[x] =>
             (x = Head(queue) \/ pc[x] = "merged") /\ pc'[x] = "skipped"
    BY <1>8, SkipOrder
  <2>3. \A x \in Messages :
          /\ pc[x] # "new" => pc'[x] # "new" /\ kind'[x] = kind[x]
          /\ pc[x] \in {"running", "watching"} => pc'[x] = pc[x]
          /\ pc'[x] \in {"running", "watching"} => pc'[x] = pc[x]
    BY <2>2
  <2> QED BY <2>1, <2>3, KeepsSlots
<1>9. CASE NextTask
  <2>1. slot' = slot /\ attached' = attached /\ tap' = tap /\ aborted \subseteq aborted'
    BY <1>9 DEF NextTask
  <2>2. /\ Head(queue) \in Messages /\ pc[Head(queue)] = "queued" /\ kind' = kind
        /\ pc'[Head(queue)] = "started" /\ \A x \in Messages \ {Head(queue)} : pc'[x] = pc[x]
    BY <1>9, NextTaskOrder
  <2>3. \A x \in Messages :
          /\ pc[x] # "new" => pc'[x] # "new" /\ kind'[x] = kind[x]
          /\ pc[x] \in {"running", "watching"} => pc'[x] = pc[x]
          /\ pc'[x] \in {"running", "watching"} => pc'[x] = pc[x]
    BY <2>2
  <2> QED BY <2>1, <2>3, KeepsSlots
<1>10. ASSUME NEW m \in Messages, ClearGoal(m) PROVE Slots'
  <2>1. /\ slot' = slot /\ attached' = attached /\ tap' = tap /\ aborted \subseteq aborted' /\ kind' = kind
        /\ pc[m] = "started" /\ pc' = [pc EXCEPT ![m] = "done"]
    BY <1>10 DEF ClearGoal, Abort
  <2>2. pc'[m] = "done" /\ \A x \in Messages \ {m} : pc'[x] = pc[x]
    BY <2>1 DEF Order, Intake
  <2>3. \A x \in Messages :
          /\ pc[x] # "new" => pc'[x] # "new" /\ kind'[x] = kind[x]
          /\ pc[x] \in {"running", "watching"} => pc'[x] = pc[x]
          /\ pc'[x] \in {"running", "watching"} => pc'[x] = pc[x]
    BY <2>1, <2>2
  <2> QED BY <2>1, <2>3, KeepsSlots
<1>11. ASSUME NEW m \in Messages, Activate(m) \/ Finish(m) \/ Pursue(m) \/ PursuitEnds(m) PROVE Slots'
  BY <1>11, ActivateSlots, FinishSlots, PursueSlots, PursuitEndsSlots
<1>12. ASSUME NEW card \in Cards, TapBoard(card) \/ BoardEnds(card) PROVE Slots'
  BY <1>12, TapSlots
<1> QED
  BY <1>2, <1>3, <1>4, <1>5, <1>6, <1>7, <1>8, <1>9, <1>10, <1>11, <1>12 DEF Next, Work

\* All of Order, step by step.
LEMMA NextOrder ==
  ASSUME Order, [Next]_vars
  PROVE  Order'
<1> USE DEF runs, intake, tasks, cards, counters
<1>1. ASSUME NEW m \in Messages, NotifyWait(m) \/ WaitNotified(m) \/ CancelTask(m) PROVE Order'
  BY <1>1, StillOrder DEF NotifyWait, WaitNotified, CancelTask
<1>2. CASE UNCHANGED vars
  BY <1>2, StillOrder DEF vars
<1>3. ASSUME NEW m \in Messages, Activate(m) PROVE Order'
  <2>1. /\ pc[m] = "started" /\ kind[m] # "goal" /\ busy' = busy /\ pc' = [pc EXCEPT ![m] = "running"]
        /\ UNCHANGED <<mode, kind, burst, carrier, queue>>
    BY <1>3 DEF Activate
  <2> QED BY <2>1, RunOrder
<1>4. ASSUME NEW m \in Messages, Pursue(m) PROVE Order'
  <2>1. /\ pc[m] = "started" /\ kind[m] = "goal" /\ busy' = None /\ pc' = [pc EXCEPT ![m] = "watching"]
        /\ UNCHANGED <<mode, kind, burst, carrier, queue>>
    BY <1>4 DEF Pursue
  <2> QED BY <2>1, RunOrder
<1>5. ASSUME NEW m \in Messages, ClearGoal(m) PROVE Order'
  <2>1. /\ pc[m] = "started" /\ kind[m] = "command" /\ busy' = None /\ pc' = [pc EXCEPT ![m] = "done"]
        /\ UNCHANGED <<mode, kind, burst, carrier, queue>>
    BY <1>5 DEF ClearGoal
  <2> QED BY <2>1, RunOrder
<1>6. ASSUME NEW m \in Messages, PursuitEnds(m) PROVE Order'
  <2>1. /\ pc[m] = "watching" /\ busy' = busy /\ pc' = [pc EXCEPT ![m] = "done"]
        /\ UNCHANGED <<mode, kind, burst, carrier, queue>>
    BY <1>6 DEF PursuitEnds
  <2> QED BY <2>1, RunOrder
<1>7. ASSUME NEW card \in Cards, TapBoard(card) \/ BoardEnds(card) PROVE Order'
  BY <1>7, StillOrder DEF TapBoard, BoardEnds
<1> QED
  BY <1>1, <1>2, <1>3, <1>4, <1>5, <1>6, <1>7, ArriveOrder, WindowOrder, QueuesOrder, StopOrder,
     SkipOrder, NextTaskOrder, FinishOrder DEF Next, Work

-----------------------------------------------------------------------------
(* The cards of those who wait. *)

\* Every step settles the card of a message whose wait it ends.
LEMMA NextCards ==
  ASSUME Order, Carded, NoStaleWaitCard, [Next]_vars
  PROVE  Carded' /\ NoStaleWaitCard'
<1> USE DEF runs, intake, tasks, cards, counters
<1>1. /\ waitCard \in [Messages -> {"none", "sending", "shown", "settled"}] /\ early \subseteq Messages
      /\ \A x \in Messages : waitCard[x] # "none" => pc[x] \notin Before
      /\ \A x \in Messages : waitCard[x] = "shown" => pc[x] \in {"queued", "started"} \/ x \in early
      /\ pc \in [Messages -> Steps]
  BY DEF Carded, NoStaleWaitCard, Order, Intake, Before
<1>2. ASSUME waitCard' \in [Messages -> {"none", "sending", "shown", "settled"}], early' \subseteq Messages,
             \A x \in Messages :
               /\ waitCard'[x] # "none" => pc'[x] \notin Before
               /\ waitCard'[x] = "shown" => pc'[x] \in {"queued", "started"} \/ x \in early'
      PROVE  Carded' /\ NoStaleWaitCard'
  BY <1>2 DEF Carded, NoStaleWaitCard, Before
<1>3. ASSUME Unmoved, waitCard' = waitCard, early' = early
      PROVE  Carded' /\ NoStaleWaitCard'
  BY <1>1, <1>2, <1>3 DEF Unmoved
<1>4. ASSUME NEW m \in Messages, Arrive(m) PROVE Carded' /\ NoStaleWaitCard'
  BY <1>3, <1>4, ArriveOrder DEF Arrive
<1>5. CASE WindowEnds
  BY <1>3, <1>5, WindowOrder DEF WindowEnds
<1>6. ASSUME NEW m \in Messages, SteerReady(m) \/ SteerAnswered(m) \/ PreemptReady(m)
      PROVE  Carded' /\ NoStaleWaitCard'
  BY <1>3, <1>6, QueuesOrder DEF SteerReady, SteerAnswered, PreemptReady
<1>7. CASE Stop
  BY <1>3, <1>7, StopOrder DEF Stop
<1>8. ASSUME NEW card \in Cards, TapBoard(card) \/ BoardEnds(card) PROVE Carded' /\ NoStaleWaitCard'
  BY <1>3, <1>8, StillOrder DEF TapBoard, BoardEnds
<1>9. CASE UNCHANGED vars
  BY <1>3, <1>9, StillOrder DEF vars
<1>10. ASSUME NEW m \in Messages, NotifyWait(m) PROVE Carded' /\ NoStaleWaitCard'
  BY <1>1, <1>2, <1>10 DEF NotifyWait, Before
<1>11. ASSUME NEW m \in Messages, WaitNotified(m) PROVE Carded' /\ NoStaleWaitCard'
  BY <1>1, <1>2, <1>11 DEF WaitNotified, Before
<1>12. ASSUME NEW m \in Messages, CancelTask(m) PROVE Carded' /\ NoStaleWaitCard'
  BY <1>1, <1>2, <1>12 DEF CancelTask, Before
<1>13. CASE Skip
  <2>1. /\ Head(queue) \in Messages /\ pc[Head(queue)] = "queued"
        /\ \A x \in Messages : pc'[x] # pc[x] =>
             (x = Head(queue) \/ pc[x] = "merged") /\ pc'[x] = "skipped"
    BY <1>13, SkipOrder
  <2>2. /\ early' = early
        /\ waitCard' = [waitCard EXCEPT ![Head(queue)] =
                          IF @ = "shown" /\ Head(queue) \notin early THEN "settled" ELSE @]
    BY <1>13 DEF Skip
  <2> QED BY <2>1, <2>2, <1>1, <1>2 DEF Before
<1>14. CASE NextTask
  <2>1. /\ Head(queue) \in Messages /\ pc'[Head(queue)] = "started"
        /\ \A x \in Messages \ {Head(queue)} : pc'[x] = pc[x]
    BY <1>14, NextTaskOrder
  <2>2. early' = early /\ waitCard' = waitCard
    BY <1>14 DEF NextTask
  <2> QED BY <2>1, <2>2, <1>1, <1>2 DEF Before
<1>15. ASSUME NEW m \in Messages, NEW w \in {"running", "watching", "done"}, pc'[m] = w,
              \A x \in Messages \ {m} : pc'[x] # pc[x] => pc[x] = "merged" /\ pc'[x] = "done",
              waitCard' = [waitCard EXCEPT ![m] = IF @ = "shown" THEN "settled" ELSE @], early' = early
       PROVE  Carded' /\ NoStaleWaitCard'
  BY <1>1, <1>2, <1>15 DEF Before
<1>16. ASSUME NEW m \in Messages, Activate(m) \/ Pursue(m) \/ ClearGoal(m)
       PROVE  Carded' /\ NoStaleWaitCard'
  <2>1. PICK w \in {"running", "watching", "done"} : pc' = [pc EXCEPT ![m] = w]
    BY <1>16 DEF Activate, Pursue, ClearGoal
  <2>2. waitCard' = [waitCard EXCEPT ![m] = IF @ = "shown" THEN "settled" ELSE @] /\ early' = early
    BY <1>16 DEF Activate, Pursue, ClearGoal
  <2>3. pc'[m] = w /\ \A x \in Messages \ {m} : pc'[x] = pc[x]
    BY <2>1, <1>1
  <2> QED BY <2>2, <2>3, <1>15
<1>17. ASSUME NEW m \in Messages, Finish(m) PROVE Carded' /\ NoStaleWaitCard'
  <2>1. waitCard' = [waitCard EXCEPT ![m] = IF @ = "shown" THEN "settled" ELSE @] /\ early' = early
    BY <1>17 DEF Finish
  <2>2. /\ pc'[m] = "done"
        /\ \A x \in Messages \ {m} : pc'[x] # pc[x] => pc[x] = "merged" /\ pc'[x] = "done"
    BY <1>17, FinishOrder
  <2> QED BY <2>1, <2>2, <1>15
<1>18. ASSUME NEW m \in Messages, PursuitEnds(m) PROVE Carded' /\ NoStaleWaitCard'
  <2>1. waitCard' = waitCard /\ early' = early /\ pc[m] = "watching" /\ pc' = [pc EXCEPT ![m] = "done"]
    BY <1>18 DEF PursuitEnds
  <2>2. pc'[m] = "done" /\ \A x \in Messages \ {m} : pc'[x] = pc[x]
    BY <2>1, <1>1
  <2> QED BY <2>1, <2>2, <1>1, <1>2 DEF Before
<1> QED
  BY <1>4, <1>5, <1>6, <1>7, <1>8, <1>9, <1>10, <1>11, <1>12, <1>13, <1>14, <1>16, <1>17, <1>18
     DEF Next, Work

-----------------------------------------------------------------------------
(* Types. *)

\* The types, through the operators on the slot.
LEMMA AbortTypes ==
  ASSUME NEW rs, rs \subseteq Runs, aborted \subseteq Runs, Abort(rs)
  PROVE  aborted' \subseteq Runs
  BY DEF Abort

LEMMA ClaimTypes ==
  ASSUME Slotted, NEW r \in Runs, NEW leave \in BOOLEAN, Claim(r, leave)
  PROVE  /\ slot' \in Runs \cup {None} /\ attached' \in [Messages -> Runs \cup {None}]
         /\ host' \in [Runs -> Messages \cup {None}]
  BY DEF Slotted, Claim, IsPursuit

LEMMA ReleaseTypes ==
  ASSUME Slotted, NEW r \in Runs, Release(r)
  PROVE  /\ slot' \in Runs \cup {None} /\ attached' \in [Messages -> Runs \cup {None}]
         /\ host' \in [Runs -> Messages \cup {None}] /\ aborted' \subseteq Runs
  BY DEF Slotted, Release

\* Every step keeps the types of the slot.
LEMMA NextSlotted ==
  ASSUME Slotted, [Next]_vars
  PROVE  Slotted'
<1> USE DEF intake, tasks, cards, counters
<1>1. /\ slot \in Runs \cup {None} /\ seen \in [Messages -> Runs \cup {None}]
      /\ attached \in [Messages -> Runs \cup {None}] /\ host \in [Runs -> Messages \cup {None}]
      /\ tap \in [Cards -> {"idle", "running", "over"}] /\ aborted \subseteq Runs
      /\ \A m \in Messages : m \in Runs
      /\ \A g \in Messages : Concurrent(g) \in Runs \cup {None}
  BY DEF Slotted, Runs, Concurrent
<1>2. ASSUME NEW m \in Messages, Arrive(m) PROVE Slotted'
  <2>1. seen' = seen \/ seen' = [seen EXCEPT ![m] = slot]
    BY <1>2 DEF Arrive
  <2> QED BY <2>1, <1>1, <1>2 DEF Arrive, Slotted, runs
<1>3. CASE WindowEnds
  <2>1. seen' = seen \/ seen' = [seen EXCEPT ![Lead] = slot]
    BY <1>3 DEF WindowEnds
  <2> QED BY <2>1, <1>1, <1>3 DEF WindowEnds, Slotted, runs
<1>4. ASSUME NEW m \in Messages, SteerReady(m) \/ SteerAnswered(m) PROVE Slotted'
  BY <1>4 DEF SteerReady, SteerAnswered, Slotted, runs
<1>5. ASSUME NEW m \in Messages, PreemptReady(m) PROVE Slotted'
  <2>1. {IF seen[m] # None /\ IsPursuit(seen[m]) THEN Concurrent(seen[m]) ELSE seen[m]} \ {None} \subseteq Runs
    BY <1>1 DEF IsPursuit
  <2>2. aborted' \subseteq Runs
    BY <2>1, <1>1, <1>5, AbortTypes DEF PreemptReady
  <2> QED BY <2>2, <1>1, <1>5 DEF PreemptReady, Slotted
<1>6. CASE Skip \/ NextTask
  BY <1>6 DEF Skip, NextTask, Slotted, runs
<1>7. ASSUME NEW m \in Messages, Activate(m) PROVE Slotted'
  <2>1. /\ slot' \in Runs \cup {None} /\ attached' \in [Messages -> Runs \cup {None}]
        /\ host' \in [Runs -> Messages \cup {None}]
    BY <1>1, <1>7, ClaimTypes DEF Activate
  <2>2. {r \in {slot} \ {None} : ~IsPursuit(r)} \subseteq Runs
    BY <1>1
  <2>3. aborted' \subseteq Runs
    BY <2>2, <1>1, <1>7, AbortTypes DEF Activate
  <2> QED BY <2>1, <2>3, <1>1, <1>7 DEF Activate, Slotted
<1>8. ASSUME NEW m \in Messages, Finish(m) PROVE Slotted'
  BY <1>1, <1>8, ReleaseTypes DEF Finish, Slotted
<1>9. ASSUME NEW m \in Messages, Pursue(m) PROVE Slotted'
  <2>1. {slot, IF slot # None /\ IsPursuit(slot) THEN Concurrent(slot) ELSE None} \ {None} \subseteq Runs
    BY <1>1 DEF IsPursuit
  <2>2. aborted' \subseteq Runs
    BY <2>1, <1>1, <1>9, AbortTypes DEF Pursue
  <2> QED BY <2>2, <1>1, <1>9 DEF Pursue, Slotted
<1>10. ASSUME NEW m \in Messages, ClearGoal(m) PROVE Slotted'
  <2>1. {r \in {slot} \ {None} : IsPursuit(r)} \subseteq Runs
    BY <1>1
  <2>2. aborted' \subseteq Runs
    BY <2>1, <1>1, <1>10, AbortTypes DEF ClearGoal
  <2> QED BY <2>2, <1>1, <1>10 DEF ClearGoal, Slotted
<1>11. ASSUME NEW g \in Messages, PursuitEnds(g) PROVE Slotted'
  BY <1>1, <1>11 DEF PursuitEnds, Slotted
<1>12. CASE Stop
  <2>1. Reached(slot) \subseteq Runs
    BY <1>1 DEF Reached, IsPursuit
  <2>2. aborted' \subseteq Runs
    BY <2>1, <1>1, <1>12, AbortTypes DEF Stop
  <2> QED BY <2>2, <1>1, <1>12 DEF Stop, Slotted
<1>13. ASSUME NEW card \in Cards, TapBoard(card) PROVE Slotted'
  <2>1. /\ slot' \in Runs \cup {None} /\ attached' \in [Messages -> Runs \cup {None}]
        /\ host' \in [Runs -> Messages \cup {None}]
    BY <1>13, ClaimTypes DEF TapBoard, Runs
  <2> QED BY <2>1, <1>1, <1>13 DEF TapBoard, Slotted
<1>14. ASSUME NEW card \in Cards, BoardEnds(card) PROVE Slotted'
  <2>1. /\ slot' \in Runs \cup {None} /\ attached' \in [Messages -> Runs \cup {None}]
        /\ host' \in [Runs -> Messages \cup {None}] /\ aborted' \subseteq Runs
    BY <1>14, ReleaseTypes DEF BoardEnds, Runs
  <2> QED BY <2>1, <1>1, <1>14 DEF BoardEnds, Slotted
<1>15. ASSUME NEW m \in Messages, NotifyWait(m) \/ WaitNotified(m) \/ CancelTask(m) PROVE Slotted'
  BY <1>15 DEF NotifyWait, WaitNotified, CancelTask, Slotted, runs
<1>16. CASE UNCHANGED vars
  BY <1>16 DEF vars, Slotted, runs
<1> QED
  BY <1>2, <1>3, <1>4, <1>5, <1>6, <1>7, <1>8, <1>9, <1>10, <1>11, <1>12, <1>13, <1>14, <1>15, <1>16
     DEF Next, Work

\* A queue that grows keeps its members.
LEMMA LongerQueue ==
  ASSUME NEW q \in Seq(Messages), NEW x \in Messages
  PROVE  Append(q, x) \in Seq(Messages) /\ Range(q) \subseteq Range(Append(q, x))
<1>1. /\ Append(q, x) \in Seq(Messages) /\ Len(q) \in Nat /\ Len(Append(q, x)) = Len(q) + 1
      /\ \A i \in 1..Len(q) : Append(q, x)[i] = q[i]
  BY Appended
<1>2. ASSUME NEW y \in Range(q) PROVE y \in Range(Append(q, x))
  <2>1. PICK i \in 1..Len(q) : q[i] = y BY <1>2, Members
  <2>2. i \in 1..Len(Append(q, x)) /\ Append(q, x)[i] = y BY <2>1, <1>1
  <2> QED BY <2>2, <1>1, Members
<1> QED BY <1>1, <1>2

\* What is to be skipped waits in the queue.
LEMMA NextRest ==
  ASSUME Order, Rest, [Next]_vars
  PROVE  Rest'
<1> USE DEF intake, tasks, cards, counters, runs
<1>1. /\ mode \in Modes /\ touches \in 0..MaxTouches /\ stops \in 0..touches
      /\ skip \subseteq Range(queue) /\ MaxTouches \in Nat
      /\ queue \in Seq(Messages) /\ burst \in Seq(Messages) /\ Queued(pc, queue)
  BY LarkRunsAssumption DEF Rest, Order, Intake
<1>2. ASSUME mode' = mode, UNCHANGED counters, skip' \subseteq Range(queue')
      PROVE  Rest'
  BY <1>1, <1>2 DEF Rest
<1>3. burst # <<>> => Lead \in Messages
  <2>1. burst # <<>> => Len(burst) \in 1..Len(burst) BY <1>1, EmptySeq
  <2> QED BY <2>1, <1>1, ElementOfSeq DEF Lead, Last
<1>4. ASSUME NEW m \in Messages, Arrive(m) PROVE Rest'
  <2>1. PICK k \in Kinds : queue' \in {queue, QueueThen(k), Append(QueueThen(k), m)}
    BY <1>4 DEF Arrive
  <2>2. QueueThen(k) \in Seq(Messages) /\ Range(queue) \subseteq Range(QueueThen(k))
    BY <1>1, <1>3, LongerQueue DEF QueueThen, Submits
  <2>3. Range(QueueThen(k)) \subseteq Range(Append(QueueThen(k), m))
    BY <2>2, LongerQueue
  <2>4. mode' = mode /\ skip' = skip /\ UNCHANGED counters BY <1>4 DEF Arrive
  <2> QED BY <2>1, <2>2, <2>3, <2>4, <1>1, <1>2
<1>5. CASE WindowEnds
  <2>1. burst # <<>> /\ (queue' = queue \/ queue' = Append(queue, Lead)) BY <1>5 DEF WindowEnds
  <2>2. mode' = mode /\ skip' = skip /\ UNCHANGED counters BY <1>5 DEF WindowEnds
  <2> QED BY <2>1, <2>2, <1>1, <1>2, <1>3, LongerQueue
<1>6. ASSUME NEW m \in Messages, SteerReady(m) \/ SteerAnswered(m) PROVE Rest'
  <2>1. queue' = queue \/ queue' = Append(queue, m) BY <1>6 DEF SteerReady, SteerAnswered
  <2>2. mode' = mode /\ skip' = skip /\ UNCHANGED counters BY <1>6 DEF SteerReady, SteerAnswered
  <2> QED BY <2>1, <2>2, <1>1, <1>2, LongerQueue
<1>7. ASSUME NEW m \in Messages, PreemptReady(m) PROVE Rest'
  <2>1. queue' = Append(queue, m) /\ skip' = skip \cup Range(queue) BY <1>7 DEF PreemptReady
  <2>2. mode' = mode /\ UNCHANGED counters BY <1>7 DEF PreemptReady
  <2> QED BY <2>1, <2>2, <1>1, <1>2, LongerQueue
<1>8. ASSUME queue # <<>>, queue' = Tail(queue), skip' = skip \ {Head(queue)}
      PROVE  skip' \subseteq Range(queue')
  <2>1. /\ Head(queue) = queue[1] /\ Tail(queue) \in Seq(Messages) /\ Len(queue) \in Nat
        /\ Len(Tail(queue)) = Len(queue) - 1
        /\ \A i \in 1..Len(Tail(queue)) : Tail(queue)[i] = queue[i + 1]
    BY <1>1, <1>8, Shifted
  <2>2. ASSUME NEW x \in skip' PROVE x \in Range(Tail(queue))
    <3>1. PICK i \in 1..Len(queue) : queue[i] = x BY <2>2, <1>1, <1>8, Members
    <3>2. i # 1 BY <3>1, <2>1, <2>2, <1>8
    <3>3. i - 1 \in 1..Len(Tail(queue)) /\ Tail(queue)[i - 1] = x BY <3>1, <3>2, <2>1
    <3> QED BY <3>3, <2>1, Members
  <2> QED BY <2>2, <1>8
<1>9. CASE Skip
  BY <1>2, <1>8, <1>9 DEF Skip
<1>10. CASE NextTask
  <2>1. skip' = skip \ {Head(queue)} BY <1>10 DEF NextTask
  <2> QED BY <2>1, <1>2, <1>8, <1>10 DEF NextTask
<1>11. ASSUME NEW m \in Messages, CancelTask(m) PROVE Rest'
  <2>1. m \in Range(queue) BY <1>1, <1>11, Members DEF CancelTask, Queued
  <2> QED BY <2>1, <1>1, <1>2, <1>11 DEF CancelTask
<1>12. ASSUME touches < MaxTouches, touches' = touches + 1, stops' \in {stops, stops + 1},
              UNCHANGED <<mode, skip, queue>>
       PROVE  Rest'
  BY <1>1, <1>12 DEF Rest
<1>13. CASE Stop
  BY <1>12, <1>13 DEF Stop
<1>14. ASSUME NEW card \in Cards, TapBoard(card) PROVE Rest'
  BY <1>12, <1>14 DEF TapBoard
<1>15. ASSUME NEW m \in Messages, \/ Activate(m) \/ Finish(m) \/ Pursue(m) \/ ClearGoal(m) \/ PursuitEnds(m)
                                  \/ NotifyWait(m) \/ WaitNotified(m)
       PROVE  Rest'
  <2>1. UNCHANGED <<mode, counters, skip, queue>>
    BY <1>15 DEF Activate, Finish, Pursue, ClearGoal, PursuitEnds, NotifyWait, WaitNotified
  <2> QED BY <2>1, <1>1, <1>2
<1>16. ASSUME NEW card \in Cards, BoardEnds(card) PROVE Rest'
  BY <1>1, <1>2, <1>16 DEF BoardEnds
<1>17. CASE UNCHANGED vars
  BY <1>1, <1>2, <1>17 DEF vars
<1> QED
  BY <1>4, <1>5, <1>6, <1>7, <1>9, <1>10, <1>11, <1>13, <1>14, <1>15, <1>16, <1>17 DEF Next, Work

-----------------------------------------------------------------------------
\* Initially no message has arrived.
LEMMA InitLark == Init => LarkInv
<1> SUFFICES ASSUME Init PROVE LarkInv OBVIOUS
<1>1. Order
  <2>1. <<>> \in Seq(Messages) /\ Len(<<>>) = 0 BY EmptySeq
  <2> QED BY <2>1 DEF Init, Order, Alone, Intake, Ordered, Parked, Queued, Carried, Ways, InFront, Ahead, Steps
<1>2. Carded /\ NoStaleWaitCard
  BY DEF Init, Carded, NoStaleWaitCard
<1>3. Slotted /\ Slots
  BY DEF Init, Slotted, Slots
<1>4. Rest
  BY LarkRunsAssumption DEF Init, Rest
<1> QED BY <1>1, <1>2, <1>3, <1>4 DEF LarkInv

\* The types, the two records of burst and queue, and who has the slot, in every
\* reachable state.
THEOREM LarkSound == Spec => []LarkInv
<1>1. Init => LarkInv
  BY InitLark
<1>2. LarkInv /\ [Next]_vars => LarkInv'
  BY NextOrder, NextCards, NextSlotted, NextSlots, NextRest DEF LarkInv
<1> QED BY <1>1, <1>2, PTL DEF Spec

\* The type invariant of LarkRuns, for any number of messages and cards.
THEOREM LarkTypes == Spec => []TypeOK
<1>1. LarkInv => TypeOK
  BY DEF LarkInv, Order, Intake, Alone, Carded, Slotted, Rest, TypeOK, Steps
<1> QED BY <1>1, LarkSound, PTL

\* A stop reaches every run that goes on, as long as no board card was tapped
\* (claimLarkRunSlot, and the release it returns).
THEOREM StopsReach == Spec => []StopReaches
<1>1. LarkInv => StopReaches
  <2> SUFFICES ASSUME LarkInv, NoTap, NEW m \in Messages, pc[m] \in {"running", "watching"}, Live(m)
               PROVE  Reachable(m)
    BY DEF StopReaches
  <2>1. m \notin aborted BY DEF Live
  <2> QED BY <2>1 DEF LarkInv, Slots, Reachable
<1> QED BY <1>1, LarkSound, PTL

\* /q and quoted replies never run ahead of attachments sent before them, in any
\* mode that does not preempt (queuePendingLarkBatchNow).
THEOREM BurstsGoFirst == Spec => []BurstGoesFirst
<1>1. LarkInv => BurstGoesFirst
  BY DEF LarkInv, Order, Intake, InFront, Ahead, Behind, BurstGoesFirst
<1> QED BY <1>1, LarkSound, PTL

\* A card that says its task waits is settled with the task (notifyQueuedLarkTask
\* and the steps that end the wait).
THEOREM CardsAreSettled == Spec => []NoStaleWaitCard
<1>1. LarkInv => NoStaleWaitCard
  BY DEF LarkInv
<1> QED BY <1>1, LarkSound, PTL

-----------------------------------------------------------------------------
\* What PursuitSurvives says of one step.
SurvivalStep ==
  NoTap => \A g \in aborted' \ aborted : IsPursuit(g) =>
    \/ \E m \in Messages : kind[m] = "command" /\ pc[m] = "started" /\ pc'[m] = "done"
    \/ slot' # g /\ pc'[slot'] = "watching"
    \/ \A m \in Messages : pc[m] = "running" => m \in aborted

\* What aborts a pursuit: a stop, a pursuit in its place, or the turn beside it.
LEMMA NextSurvival ==
  ASSUME LarkInv, [Next]_vars
  PROVE  SurvivalStep
<1> USE DEF intake, tasks, cards, counters, runs
<1> SUFFICES ASSUME NoTap, NEW g \in aborted' \ aborted, IsPursuit(g)
             PROVE  \/ \E m \in Messages : kind[m] = "command" /\ pc[m] = "started" /\ pc'[m] = "done"
                    \/ slot' # g /\ pc'[slot'] = "watching"
                    \/ \A m \in Messages : pc[m] = "running" => m \in aborted
  BY DEF SurvivalStep
<1>1. /\ slot # None => slot \in Messages /\ pc[slot] \in {"running", "watching"}
      /\ \A h \in Messages : attached[h] # None => attached[h] \in Messages /\ kind[attached[h]] # "goal"
      /\ \A m \in Messages : pc[m] = "running" /\ m \notin aborted => Reachable(m)
      /\ Order /\ Alone /\ pc \in [Messages -> Steps]
  BY DEF LarkInv, Slots, Order, Intake
<1>2. g \in Messages /\ kind[g] = "goal"
  BY DEF IsPursuit
<1>3. ASSUME NEW h \in Messages PROVE ~(Concurrent(h) # None /\ IsPursuit(Concurrent(h)))
  BY <1>1 DEF Concurrent, IsPursuit
<1>4. ASSUME NEW m \in Messages, PreemptReady(m) PROVE FALSE
  <2>1. PICK r \in {IF seen[m] # None /\ IsPursuit(seen[m]) THEN Concurrent(seen[m]) ELSE seen[m]} \ {None} :
          r = g
    BY <1>4 DEF PreemptReady, Abort
  <2>2. CASE seen[m] # None /\ IsPursuit(seen[m])
    <3>1. seen[m] \in Messages BY <2>2 DEF IsPursuit
    <3> QED BY <2>1, <2>2, <3>1, <1>3
  <2>3. CASE ~(seen[m] # None /\ IsPursuit(seen[m]))
    BY <2>1, <2>3
  <2> QED BY <2>2, <2>3
<1>5. ASSUME NEW m \in Messages, Activate(m) PROVE FALSE
  BY <1>5 DEF Activate, Abort
<1>6. ASSUME NEW m \in Messages, Pursue(m) PROVE slot' # g /\ pc'[slot'] = "watching"
  <2>1. /\ pc[m] = "started" /\ slot' = m /\ pc' = [pc EXCEPT ![m] = "watching"]
        /\ g \in {slot, IF slot # None /\ IsPursuit(slot) THEN Concurrent(slot) ELSE None} \ {None}
    BY <1>6 DEF Pursue, Abort
  <2>2. pc'[m] = "watching" BY <2>1, <1>1
  <2>3. g = slot /\ slot # None
    <3>1. CASE slot # None /\ IsPursuit(slot)
      <4>1. slot \in Messages BY <3>1 DEF IsPursuit
      <4>2. g = slot \/ (g = Concurrent(slot) /\ g # None) BY <2>1, <3>1
      <4> QED BY <4>1, <4>2, <1>3, <3>1
    <3>2. CASE ~(slot # None /\ IsPursuit(slot))
      BY <2>1, <3>2
    <3> QED BY <3>1, <3>2
  <2>4. slot # m BY <2>1, <2>3, <1>1
  <2> QED BY <2>1, <2>2, <2>3, <2>4
<1>7. ASSUME NEW m \in Messages, ClearGoal(m)
      PROVE  \E x \in Messages : kind[x] = "command" /\ pc[x] = "started" /\ pc'[x] = "done"
  BY <1>1, <1>7 DEF ClearGoal
<1>8. CASE Stop
  <2>1. g \in Reached(slot) /\ slot # None
    BY <1>8 DEF Stop, Abort, Reached
  <2>2. g = slot /\ Concurrent(slot) = None /\ IsPursuit(slot)
    <3>1. CASE IsPursuit(slot) /\ Concurrent(slot) # None
      <4>1. g = Concurrent(slot) /\ slot \in Messages BY <2>1, <3>1 DEF Reached, IsPursuit
      <4> QED BY <4>1, <1>3, <3>1
    <3>2. CASE ~(IsPursuit(slot) /\ Concurrent(slot) # None)
      <4>1. g = slot BY <2>1, <3>2 DEF Reached
      <4> QED BY <4>1, <3>2
    <3> QED BY <3>1, <3>2
  <2>3. ASSUME NEW m \in Messages, pc[m] = "running", m \notin aborted PROVE FALSE
    <3>1. Reachable(m) BY <2>3, <1>1
    <3>2. m # slot BY <2>2, <2>3, <1>2, <1>1 DEF Alone
    <3>3. attached[slot] = m BY <3>1, <3>2 DEF Reachable
    <3>4. Live(m) /\ m # None BY <2>3, LarkRunsAssumption DEF Live
    <3> QED BY <3>3, <3>4, <2>2 DEF Concurrent
  <2> QED BY <2>3
<1>9. ASSUME NEW m \in Messages, Arrive(m) \/ SteerReady(m) \/ SteerAnswered(m) PROVE FALSE
  BY <1>9 DEF Arrive, SteerReady, SteerAnswered
<1>10. CASE WindowEnds \/ Skip \/ NextTask \/ UNCHANGED vars
  BY <1>10 DEF WindowEnds, Skip, NextTask, vars
<1>11. ASSUME NEW m \in Messages, Finish(m) \/ PursuitEnds(m) PROVE FALSE
  BY <1>11 DEF Finish, Release, PursuitEnds
<1>12. ASSUME NEW m \in Messages, NotifyWait(m) \/ WaitNotified(m) \/ CancelTask(m) PROVE FALSE
  BY <1>12 DEF NotifyWait, WaitNotified, CancelTask
<1>13. ASSUME NEW card \in Cards, TapBoard(card) \/ BoardEnds(card) PROVE FALSE
  BY <1>13 DEF TapBoard, BoardEnds, Release
<1> QED
  BY <1>4, <1>5, <1>6, <1>7, <1>8, <1>9, <1>10, <1>11, <1>12, <1>13 DEF Next, Work

\* A pursuit is ended by a /goal command, or by a stop that finds no ordinary turn
\* beside it, and by nothing else that uses the slot.
THEOREM PursuitsSurvive == Spec => PursuitSurvives
<1>1. LarkInv /\ [Next]_vars => SurvivalStep
  BY NextSurvival
<1> QED
  BY <1>1, LarkSound, PTL DEF Spec, PursuitSurvives, SurvivalStep
=============================================================================
