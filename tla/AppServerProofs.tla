--------------------------- MODULE AppServerProofs ---------------------------
(***************************************************************************)
(* No turn that was aborted or refused keeps the writer of the thread, for *)
(* any number of turns, pursuits, aborts, stops and deaths of the child.   *)
(* A turn the adapter dropped is not interrupted, and nothing is said of   *)
(* its engine turn.                                                        *)
(*                                                                         *)
(* Led says of one turn what is under way about it.  A turn is asked for   *)
(* once; until the child has read that, nothing names it; from then on its *)
(* start is answered, refused, or is still to be read; and a turn given up *)
(* has an interrupt under way, or the answer that will send it.            *)
(***************************************************************************)
EXTENDS AppServer, SequenceTheorems, TLAPS

Has(s, x) == \E i \in 1..Len(s) : s[i] = x
Once(s, x) == \A i, j \in 1..Len(s) : s[i] = x /\ s[j] = x => i = j

\* The requests of the adapter and the lines of the child, each about what it can be about.
Requests == {q \in Request :
  /\ q.op \in {"start", "read"} => q.of \in Turns
  /\ q.op \in {"clear", "set"} => q.of \in Pursuits
  /\ q.op = "resume" => q.of \in Turns \cup Pursuits
  /\ q.op = "compact" => q.of = Compaction}
Lines == {l \in Line :
  /\ l.kind \in {"startAnswer", "refused", "read"} => l.of \in Turns
  /\ l.kind \in {"cleared", "set", "goalEnded"} => l.of \in Pursuits
  /\ l.kind = "resumed" => l.of \in Turns \cup Pursuits}
Mail == requests \in Seq(Requests) /\ lines \in Seq(Lines) /\ held \in [Turns -> Seq(Line)]

\* What the requests q and the lines l say of a turn.
Asked(q, t) == Has(q, [op |-> "start", of |-> t])
Cuts(q, t) == Has(q, [op |-> "interrupt", of |-> t])
Resumes(q, t) == Has(q, [op |-> "resume", of |-> t])
Answers(l, t) == Has(l, [kind |-> "startAnswer", of |-> t])
Refuses(l, t) == Has(l, [kind |-> "refused", of |-> t])
Knows(l, t) == Has(l, [kind |-> "resumed", of |-> t])
Names(l, t) == \/ Answers(l, t) \/ Refuses(l, t)
               \/ Has(l, [kind |-> "started", of |-> t]) \/ Has(l, [kind |-> "completed", of |-> t])
OneOf(q, l, t) ==
  /\ Once(q, [op |-> "start", of |-> t])
  /\ Once(q, [op |-> "resume", of |-> t]) /\ Once(l, [kind |-> "resumed", of |-> t])
  /\ ~(Resumes(q, t) /\ Knows(l, t))

Before == {"idle", "resuming", "compacting", "elsewhere"}

Led(t) ==
  /\ OneOf(requests, lines, t)
  /\ Resumes(requests, t) \/ Knows(lines, t) => pc[t] = "resuming"
  /\ pc[t] \in Before =>
       ~Asked(requests, t) /\ ~Names(lines, t) /\ t \notin running \cup cut /\ tid[t] = None
  /\ Asked(requests, t) =>
       /\ ~Names(lines, t) /\ t \notin running /\ tid[t] # t
       /\ pc[t] = "failed" /\ tid[t] = None => t \in cut
  /\ Refuses(lines, t) => t \notin running
  /\ pc[t] \in {"reading", "answered"} => tid[t] # None
  /\ pc[t] = "started" /\ tid[t] = None /\ t \in running => Answers(lines, t)
  /\ pc[t] = "failed" /\ t \in running /\ tid[t] \in {None, t} =>
       t \in interrupted \/ Cuts(requests, t) \/ (t \in cut /\ Answers(lines, t))

Owned == owner # None => pc[owner] = "started"

\* TypeOK but for the mail.
Types ==
  /\ pc \in [Turns -> {"idle", "resuming", "compacting", "started",
                       "reading", "answered", "failed", "dropped", "elsewhere"}]
  /\ owner \in Turns \cup {None} /\ tid \in [Turns -> EngineTurns \cup {None}]
  /\ cut \subseteq Turns /\ aborted \subseteq Turns
  /\ from \in [Turns -> EngineTurns \cup {None}]
  /\ {loaded, full, compacting} \subseteq BOOLEAN
  /\ compactionId \in EngineTurns \cup {None} /\ settledCompactions \subseteq EngineTurns
  /\ pw \in [Pursuits -> {"idle", "resuming", "clearing", "setting", "waiting",
                         "leaving", "forgetting", "over"}]
  /\ watcher \in Pursuits \cup {None} /\ resolved \subseteq Pursuits /\ stopped \subseteq Pursuits
  /\ running \subseteq EngineTurns /\ interrupted \subseteq running
  /\ goal \in Goals \cup {None}

AppInv == Types /\ Mail /\ Owned /\ \A t \in Turns : Led(t)

-----------------------------------------------------------------------------
(* Sequences, by what they have. *)

\* A sequence and one more element.
LEMMA HasAppend ==
  ASSUME NEW S, NEW s \in Seq(S), NEW y \in S
  PROVE  /\ Append(s, y) \in Seq(S)
         /\ \A x : Has(Append(s, y), x) <=> Has(s, x) \/ x = y
         /\ \A x : Once(s, x) /\ ~(x = y /\ Has(s, x)) => Once(Append(s, y), x)
<1>1. /\ Append(s, y) \in Seq(S) /\ Len(s) \in Nat /\ Len(Append(s, y)) = Len(s) + 1
      /\ \A i \in 1..Len(s) : Append(s, y)[i] = s[i]
      /\ Append(s, y)[Len(s) + 1] = y
  OBVIOUS
<1>2. ASSUME NEW x PROVE Has(Append(s, y), x) <=> Has(s, x) \/ x = y
  <2>1. Has(s, x) => Has(Append(s, y), x) BY <1>1 DEF Has
  <2>2. x = y => Has(Append(s, y), x)
    <3>1. Len(s) + 1 \in 1..Len(Append(s, y)) BY <1>1
    <3> QED BY <3>1, <1>1 DEF Has
  <2>3. ASSUME NEW i \in 1..Len(Append(s, y)), Append(s, y)[i] = x PROVE Has(s, x) \/ x = y
    <3>1. i \in 1..Len(s) \/ i = Len(s) + 1 BY <1>1
    <3> QED BY <3>1, <2>3, <1>1 DEF Has
  <2> QED BY <2>1, <2>2, <2>3 DEF Has
<1>3. ASSUME NEW x, Once(s, x), ~(x = y /\ Has(s, x)) PROVE Once(Append(s, y), x)
  <2> SUFFICES ASSUME NEW i \in 1..Len(Append(s, y)), NEW j \in 1..Len(Append(s, y)),
                      Append(s, y)[i] = x, Append(s, y)[j] = x
               PROVE  i = j
    BY DEF Once
  <2>1. (i \in 1..Len(s) \/ i = Len(s) + 1) /\ (j \in 1..Len(s) \/ j = Len(s) + 1) BY <1>1
  <2> QED BY <2>1, <1>1, <1>3 DEF Once, Has
<1> QED BY <1>1, <1>2, <1>3

\* A sequence without its head; what it had once it has not any more.
LEMMA HasTail ==
  ASSUME NEW S, NEW s \in Seq(S), s # <<>>
  PROVE  /\ Tail(s) \in Seq(S) /\ Head(s) \in S /\ Has(s, Head(s))
         /\ \A x : Has(Tail(s), x) => Has(s, x)
         /\ \A x : Has(s, x) => x = Head(s) \/ Has(Tail(s), x)
         /\ \A x : Once(s, x) => Once(Tail(s), x) /\ (x = Head(s) => ~Has(Tail(s), x))
<1>1. Len(s) \in Nat /\ Len(s) # 0 BY EmptySeq, LenProperties
<1>2. /\ Head(s) \in S /\ Head(s) = s[1] /\ Tail(s) \in Seq(S)
      /\ Len(Tail(s)) = Len(s) - 1
      /\ \A i \in 1..Len(Tail(s)) : Tail(s)[i] = s[i + 1]
  BY <1>1, HeadTailProperties
<1>3. Has(s, Head(s))
  <2>1. 1 \in 1..Len(s) BY <1>1
  <2> QED BY <2>1, <1>2 DEF Has
<1>4. ASSUME NEW x, Has(Tail(s), x) PROVE Has(s, x)
  <2>1. PICK i \in 1..Len(Tail(s)) : Tail(s)[i] = x BY <1>4 DEF Has
  <2>2. i + 1 \in 1..Len(s) /\ s[i + 1] = x BY <2>1, <1>1, <1>2
  <2> QED BY <2>2 DEF Has
<1>5. ASSUME NEW x, Has(s, x) PROVE x = Head(s) \/ Has(Tail(s), x)
  <2>1. PICK i \in 1..Len(s) : s[i] = x BY <1>5 DEF Has
  <2>2. CASE i = 1 BY <2>1, <2>2, <1>2
  <2>3. CASE i # 1
    <3>1. i - 1 \in 1..Len(Tail(s)) /\ Tail(s)[i - 1] = x BY <2>1, <2>3, <1>1, <1>2
    <3> QED BY <3>1 DEF Has
  <2> QED BY <2>2, <2>3
<1>6. ASSUME NEW x, Once(s, x) PROVE Once(Tail(s), x) /\ (x = Head(s) => ~Has(Tail(s), x))
  <2>1. \A i \in 1..Len(Tail(s)) : i + 1 \in 1..Len(s) /\ Tail(s)[i] = s[i + 1] /\ i + 1 # 1
    BY <1>1, <1>2
  <2>2. 1 \in 1..Len(s) BY <1>1
  <2>3. Once(Tail(s), x)
    <3> SUFFICES ASSUME NEW i \in 1..Len(Tail(s)), NEW j \in 1..Len(Tail(s)),
                        Tail(s)[i] = x, Tail(s)[j] = x
                 PROVE  i = j
      BY DEF Once
    <3>1. i + 1 = j + 1 BY <2>1, <1>6 DEF Once
    <3> QED BY <3>1, <1>1, <1>2
  <2>4. x = Head(s) => ~Has(Tail(s), x) BY <2>1, <2>2, <1>2, <1>6 DEF Once, Has
  <2> QED BY <2>3, <2>4
<1> QED BY <1>2, <1>3, <1>4, <1>5, <1>6

-----------------------------------------------------------------------------
(* The mail. *)

\* What a request more, q2 after q, says of the turns.
Posted(q, q2, op, x) ==
  /\ q2 \in Seq(Requests)
  /\ \A t : /\ Asked(q2, t) <=> Asked(q, t) \/ (op = "start" /\ t = x)
            /\ Cuts(q2, t) <=> Cuts(q, t) \/ (op = "interrupt" /\ t = x)
            /\ Resumes(q2, t) <=> Resumes(q, t) \/ (op = "resume" /\ t = x)
            /\ Once(q, [op |-> "start", of |-> t]) /\ ~(op = "start" /\ t = x /\ Asked(q, t)) =>
                 Once(q2, [op |-> "start", of |-> t])
            /\ Once(q, [op |-> "resume", of |-> t]) /\ ~(op = "resume" /\ t = x /\ Resumes(q, t)) =>
                 Once(q2, [op |-> "resume", of |-> t])

\* Asking leaves the requests as Posted says.
LEMMA Posts ==
  ASSUME Mail, NEW op, NEW x, [op |-> op, of |-> x] \in Requests, Ask(op, x)
  PROVE  Posted(requests, requests', op, x)
<1> DEFINE y == [op |-> op, of |-> x]
<1>1. requests' = Append(requests, y) /\ requests \in Seq(Requests) /\ y \in Requests BY DEF Ask, Mail
<1>2. \A o, t : [op |-> o, of |-> t] = y <=> o = op /\ t = x OBVIOUS
<1> HIDE DEF y
<1>3. /\ requests' \in Seq(Requests)
      /\ \A z : Has(requests', z) <=> Has(requests, z) \/ z = y
      /\ \A z : Once(requests, z) /\ ~(z = y /\ Has(requests, z)) => Once(requests', z)
  BY <1>1, HasAppend
<1> QED BY <1>2, <1>3 DEF Posted, Asked, Cuts, Resumes

\* And what a line more says.
Said(l, l2, kind, x) ==
  /\ l2 \in Seq(Lines)
  /\ \A t : /\ Answers(l2, t) <=> Answers(l, t) \/ (kind = "startAnswer" /\ t = x)
            /\ Refuses(l2, t) <=> Refuses(l, t) \/ (kind = "refused" /\ t = x)
            /\ Knows(l2, t) <=> Knows(l, t) \/ (kind = "resumed" /\ t = x)
            /\ Names(l2, t) <=>
                 Names(l, t) \/ (kind \in {"startAnswer", "refused", "started", "completed"} /\ t = x)
            /\ Once(l, [kind |-> "resumed", of |-> t]) /\ ~(kind = "resumed" /\ t = x /\ Knows(l, t)) =>
                 Once(l2, [kind |-> "resumed", of |-> t])

\* A line more leaves the lines as Said says.
LEMMA Says ==
  ASSUME NEW l \in Seq(Lines), NEW kind, NEW x, [kind |-> kind, of |-> x] \in Lines
  PROVE  Said(l, Append(l, [kind |-> kind, of |-> x]), kind, x)
<1> DEFINE y == [kind |-> kind, of |-> x]
           l2 == Append(l, y)
<1>1. y \in Lines OBVIOUS
<1>2. \A o, t : [kind |-> o, of |-> t] = y <=> o = kind /\ t = x OBVIOUS
<1> HIDE DEF y
<1>3. /\ l2 \in Seq(Lines)
      /\ \A z : Has(l2, z) <=> Has(l, z) \/ z = y
      /\ \A z : Once(l, z) /\ ~(z = y /\ Has(l, z)) => Once(l2, z)
  BY <1>1, HasAppend
<1> HIDE DEF l2
<1>4. ASSUME NEW t
      PROVE  /\ Answers(l2, t) <=> Answers(l, t) \/ (kind = "startAnswer" /\ t = x)
             /\ Refuses(l2, t) <=> Refuses(l, t) \/ (kind = "refused" /\ t = x)
             /\ Knows(l2, t) <=> Knows(l, t) \/ (kind = "resumed" /\ t = x)
             /\ Once(l, [kind |-> "resumed", of |-> t]) /\ ~(kind = "resumed" /\ t = x /\ Knows(l, t)) =>
                  Once(l2, [kind |-> "resumed", of |-> t])
  <2>1. \A o : Has(l2, [kind |-> o, of |-> t]) <=> Has(l, [kind |-> o, of |-> t]) \/ (o = kind /\ t = x)
    BY <1>2, <1>3
  <2>2. /\ Answers(l2, t) <=> Answers(l, t) \/ (kind = "startAnswer" /\ t = x)
        /\ Refuses(l2, t) <=> Refuses(l, t) \/ (kind = "refused" /\ t = x)
        /\ Knows(l2, t) <=> Knows(l, t) \/ (kind = "resumed" /\ t = x)
    BY <2>1 DEF Answers, Refuses, Knows
  <2>3. ASSUME Once(l, [kind |-> "resumed", of |-> t]), ~(kind = "resumed" /\ t = x /\ Knows(l, t))
        PROVE  Once(l2, [kind |-> "resumed", of |-> t])
    <3>1. ~([kind |-> "resumed", of |-> t] = y /\ Has(l, [kind |-> "resumed", of |-> t]))
      BY <2>3, <1>2 DEF Knows
    <3> QED BY <2>3, <3>1, <1>3
  <2> QED BY <2>2, <2>3
<1>5. ASSUME NEW t
      PROVE  Names(l2, t) <=>
               Names(l, t) \/ (kind \in {"startAnswer", "refused", "started", "completed"} /\ t = x)
  <2>1. \A o : Has(l2, [kind |-> o, of |-> t]) <=> Has(l, [kind |-> o, of |-> t]) \/ (o = kind /\ t = x)
    BY <1>2, <1>3
  <2> QED BY <2>1 DEF Names, Answers, Refuses
<1>6. Said(l, l2, kind, x)
  BY <1>3, <1>4, <1>5 DEF Said
<1> QED BY <1>6 DEF l2, y

\* What is left of the mail when the first has been read.
LEMMA ReadsRequest ==
  ASSUME Mail, requests # <<>>, requests' = Tail(requests)
  PROVE  /\ requests' \in Seq(Requests) /\ Head(requests) \in Requests
         /\ \A t :
              /\ Asked(requests', t) => Asked(requests, t)
              /\ Resumes(requests', t) => Resumes(requests, t)
              /\ Cuts(requests, t) => Cuts(requests', t) \/ Head(requests) = [op |-> "interrupt", of |-> t]
              /\ Head(requests) = [op |-> "start", of |-> t] => Asked(requests, t)
              /\ Head(requests) = [op |-> "resume", of |-> t] => Resumes(requests, t)
              /\ Once(requests, [op |-> "start", of |-> t]) =>
                   /\ Once(requests', [op |-> "start", of |-> t])
                   /\ Head(requests) = [op |-> "start", of |-> t] => ~Asked(requests', t)
              /\ Once(requests, [op |-> "resume", of |-> t]) =>
                   /\ Once(requests', [op |-> "resume", of |-> t])
                   /\ Head(requests) = [op |-> "resume", of |-> t] => ~Resumes(requests', t)
<1>1. requests \in Seq(Requests) BY DEF Mail
<1>2. /\ requests' \in Seq(Requests) /\ Head(requests) \in Requests /\ Has(requests, Head(requests))
      /\ \A x : Has(requests', x) => Has(requests, x)
      /\ \A x : Has(requests, x) => x = Head(requests) \/ Has(requests', x)
      /\ \A x : Once(requests, x) => Once(requests', x) /\ (x = Head(requests) => ~Has(requests', x))
  BY <1>1, HasTail
<1> QED BY <1>2 DEF Asked, Resumes, Cuts

\* The same of the lines.
LEMMA ReadsLine ==
  ASSUME Mail, lines # <<>>, lines' = Tail(lines)
  PROVE  /\ lines' \in Seq(Lines) /\ Head(lines) \in Lines
         /\ \A t :
              /\ Answers(lines', t) => Answers(lines, t)
              /\ Answers(lines, t) => Answers(lines', t) \/ Head(lines) = [kind |-> "startAnswer", of |-> t]
              /\ Refuses(lines', t) => Refuses(lines, t)
              /\ Names(lines', t) => Names(lines, t)
              /\ Knows(lines', t) => Knows(lines, t)
              /\ Head(lines) = [kind |-> "startAnswer", of |-> t] => Names(lines, t)
              /\ Head(lines) = [kind |-> "refused", of |-> t] => Names(lines, t) /\ Refuses(lines, t)
              /\ Head(lines) = [kind |-> "started", of |-> t] => Names(lines, t)
              /\ Head(lines) = [kind |-> "completed", of |-> t] => Names(lines, t)
              /\ Head(lines) = [kind |-> "resumed", of |-> t] => Knows(lines, t)
              /\ Once(lines, [kind |-> "resumed", of |-> t]) =>
                   /\ Once(lines', [kind |-> "resumed", of |-> t])
                   /\ Head(lines) = [kind |-> "resumed", of |-> t] => ~Knows(lines', t)
<1>1. lines \in Seq(Lines) BY DEF Mail
<1>2. /\ lines' \in Seq(Lines) /\ Head(lines) \in Lines /\ Has(lines, Head(lines))
      /\ \A x : Has(lines', x) => Has(lines, x)
      /\ \A x : Has(lines, x) => x = Head(lines) \/ Has(lines', x)
      /\ \A x : Once(lines, x) => Once(lines', x) /\ (x = Head(lines) => ~Has(lines', x))
  BY <1>1, HasTail
<1> QED BY <1>2 DEF Answers, Refuses, Names, Knows

-----------------------------------------------------------------------------
(* A turn that a step leaves alone, and one that starts. *)

Steady(t) ==
  /\ pc'[t] = pc[t] /\ tid'[t] = tid[t] /\ (t \in cut' <=> t \in cut)
  /\ t \in running' => t \in running /\ (t \in interrupted => t \in interrupted')
  /\ OneOf(requests', lines', t)
  /\ Asked(requests', t) => Asked(requests, t)
  /\ Resumes(requests', t) \/ Knows(lines', t) => Resumes(requests, t) \/ Knows(lines, t)
  /\ Cuts(requests, t) => Cuts(requests', t) \/ t \in interrupted' \/ t \notin running'
  /\ Answers(lines, t) => Answers(lines', t)
  /\ Refuses(lines', t) => Refuses(lines, t)
  /\ Names(lines', t) => Names(lines, t) \/ t \in running

\* What is under way about a turn stays so in a step that leaves the turn alone.
LEMMA SteadyLed ==
  ASSUME NEW t \in Turns, Led(t), Steady(t)
  PROVE  Led(t)'
BY DEF Led, Steady, Before

\* Lines read, none of them the answer to turn/start, tell less of a turn.
Quiet(t) ==
  /\ Once(lines', [kind |-> "resumed", of |-> t])
  /\ Knows(lines', t) => Knows(lines, t)
  /\ Answers(lines, t) => Answers(lines', t)
  /\ Refuses(lines', t) => Refuses(lines, t)
  /\ Names(lines', t) => Names(lines, t)

\* Where no line is read or said, nothing is told.
LEMMA SameQuiet ==
  ASSUME NEW t \in Turns, Led(t), lines' = lines
  PROVE  Quiet(t)
BY DEF Quiet, Led, OneOf

\* Every line but the answer to turn/start is read quietly.
LEMMA ReadQuiet ==
  ASSUME AppInv, NEW kind, Arrived(kind), kind # "startAnswer"
  PROVE  lines' \in Seq(Lines) /\ \A t \in Turns : Quiet(t)
<1>1. Mail /\ lines # <<>> /\ lines' = Tail(lines) /\ Head(lines).kind # "startAnswer"
  BY DEF AppInv, Arrived
<1>2. \A t : Head(lines) # [kind |-> "startAnswer", of |-> t]
  BY <1>1
<1>3. ASSUME NEW t \in Turns PROVE Quiet(t)
  <2>1. Once(lines, [kind |-> "resumed", of |-> t])
    BY DEF AppInv, Led, OneOf
  <2> QED BY <2>1, <1>1, <1>2, ReadsLine DEF Quiet
<1> QED BY <1>1, <1>3, ReadsLine

\* What a request for another turn, or about no turn, leaves alone.
LEMMA PostedSteady ==
  ASSUME NEW t \in Turns, Led(t), NEW op, NEW x, Posted(requests, requests', op, x),
         x # t \/ op \notin {"start", "resume"},
         Quiet(t), pc'[t] = pc[t], tid'[t] = tid[t], t \in cut' <=> t \in cut,
         running' = running, interrupted' = interrupted
  PROVE  Led(t)'
<1>1. Steady(t)
  BY DEF Steady, Posted, OneOf, Led, Quiet
<1> QED BY <1>1, SteadyLed

\* What a step that touches neither the turn nor the requests leaves alone.
LEMMA StillLed ==
  ASSUME NEW t \in Turns, Led(t), requests' = requests, Quiet(t),
         pc'[t] = pc[t], tid'[t] = tid[t], t \in cut' <=> t \in cut,
         running' = running, interrupted' = interrupted
  PROVE  Led(t)'
<1>1. Steady(t)
  BY DEF Steady, Led, Quiet, OneOf
<1> QED BY <1>1, SteadyLed

\* startTurn: the turn that takes the thread has asked for nothing before.
LEMMA StartLed ==
  ASSUME AppInv, NEW t \in Turns, pc[t] \in Before, StartTurn(t),
         \A x \in Turns : Quiet(x), ~Resumes(requests, t), ~Knows(lines', t),
         UNCHANGED <<tid, cut, running, interrupted>>
  PROVE  /\ \A x \in Turns : Led(x)'
         /\ requests' \in Seq(Requests)
         /\ Owned'
<1>1. Mail /\ Types /\ Owned /\ (\A x \in Turns : Led(x)) /\ t # None
  BY AppServerAssumption DEF AppInv
<1>2. owner # t
  BY <1>1 DEF Owned, Before
<1>3. CASE t \in aborted
  <2>1. pc' = [pc EXCEPT ![t] = "failed"] /\ UNCHANGED <<owner, requests>>
    BY <1>3 DEF StartTurn
  <2>2. \A x \in Turns \ {t} : pc'[x] = pc[x]
    BY <2>1, <1>1 DEF Types
  <2>3. \A x \in Turns \ {t} : Led(x)'
    BY <1>1, <2>1, <2>2, StillLed
  <2>4. Led(t)'
    <3>1. pc'[t] = "failed" /\ Led(t) /\ Quiet(t)
      BY <2>1, <1>1 DEF Types
    <3> QED BY <2>1, <3>1 DEF Led, Quiet, OneOf, Before
  <2> QED BY <1>1, <1>2, <2>1, <2>2, <2>3, <2>4 DEF Owned, Mail, Types
<1>4. CASE t \notin aborted
  <2>1. pc' = [pc EXCEPT ![t] = "started"] /\ owner' = t /\ Ask("start", t)
    BY <1>4 DEF StartTurn
  <2>2. \A x \in Turns \ {t} : pc'[x] = pc[x]
    BY <2>1, <1>1 DEF Types
  <2>3. Posted(requests, requests', "start", t)
    <3>1. [op |-> "start", of |-> t] \in Requests BY DEF Requests, Request, EngineTurns
    <3> QED BY <2>1, <3>1, <1>1, Posts
  <2>4. \A x \in Turns \ {t} : Led(x)'
    BY <1>1, <2>2, <2>3, PostedSteady
  <2>5. Led(t)'
    <3>1. pc'[t] = "started" /\ Led(t) /\ Quiet(t)
      BY <2>1, <1>1 DEF Types
    <3>2. OneOf(requests', lines', t)
      BY <2>3, <3>1 DEF Led, Quiet, OneOf, Posted
    <3>3. /\ ~Names(lines', t) /\ ~Resumes(requests', t) /\ t \notin running'
          /\ tid'[t] = None
      BY <2>3, <3>1 DEF Led, Quiet, Posted
    <3> QED BY <3>1, <3>2, <3>3, <1>1 DEF Led, Before, Names
  <2> QED BY <1>1, <2>1, <2>2, <2>3, <2>4, <2>5 DEF Owned, Types, Posted
<1> QED BY <1>3, <1>4

\* prepareThreadForTurn: as startTurn, or the turn waits for a compaction.
LEMMA PrepareLed ==
  ASSUME AppInv, NEW t \in Turns, pc[t] \in Before, Prepare(t),
         \A x \in Turns : Quiet(x), ~Resumes(requests, t), ~Knows(lines', t),
         UNCHANGED <<tid, cut, running, interrupted>>
  PROVE  /\ \A x \in Turns : Led(x)'
         /\ requests' \in Seq(Requests)
         /\ Owned'
<1>1. CASE StartTurn(t)
  BY <1>1, StartLed
<1>2. CASE pc' = [pc EXCEPT ![t] = "compacting"] /\ Ask("compact", Compaction) /\ UNCHANGED owner
  <2>1. Mail /\ Types /\ Owned /\ (\A x \in Turns : Led(x))
    BY DEF AppInv
  <2>2. \A x \in Turns \ {t} : pc'[x] = pc[x]
    BY <1>2, <2>1 DEF Types
  <2>3. Posted(requests, requests', "compact", Compaction)
    <3>1. [op |-> "compact", of |-> Compaction] \in Requests BY DEF Requests, Request, EngineTurns
    <3> QED BY <1>2, <2>1, <3>1, Posts
  <2>4. \A x \in Turns \ {t} : Led(x)'
    BY <2>1, <2>2, <2>3, PostedSteady
  <2>5. Led(t)'
    <3>1. pc'[t] = "compacting" /\ Led(t) /\ Quiet(t)
      BY <1>2, <2>1 DEF Types
    <3>2. OneOf(requests', lines', t)
      BY <2>3, <3>1 DEF Led, Quiet, OneOf, Posted
    <3> QED BY <3>1, <3>2, <2>3, <1>2 DEF Led, Quiet, Posted, Before
  <2>6. Owned'
    BY <1>2, <2>1, <2>2 DEF Owned, Types, Before
  <2> QED BY <2>3, <2>4, <2>5, <2>6 DEF Posted
<1> QED BY <1>1, <1>2 DEF Prepare

-----------------------------------------------------------------------------
(* The types of what a step changes. *)

\* The next line, and whose it is.
LEMMA Heads ==
  ASSUME AppInv, NEW kind, Arrived(kind)
  PROVE  /\ Head(lines) \in Lines /\ Head(lines) = [kind |-> kind, of |-> X]
         /\ X \in EngineTurns /\ X # None
         /\ kind \in {"startAnswer", "refused", "read"} => X \in Turns
         /\ kind \in {"cleared", "set", "goalEnded"} => X \in Pursuits
         /\ kind = "resumed" => X \in Turns \cup Pursuits
<1>1. Head(lines) \in Lines /\ Head(lines).kind = kind
  BY ReadsLine DEF AppInv, Arrived
<1>2. Head(lines) = [kind |-> kind, of |-> X] /\ X \in EngineTurns
  BY <1>1 DEF Lines, Line, X
<1> QED BY <1>1, <1>2, AppServerAssumption DEF Lines, X, EngineTurns

\* The types of what startTurn changes.
LEMMA StartTypes ==
  ASSUME Types, NEW t \in Turns, StartTurn(t)
  PROVE  /\ pc' \in [Turns -> {"idle", "resuming", "compacting", "started",
                               "reading", "answered", "failed", "dropped", "elsewhere"}]
         /\ owner' \in Turns \cup {None} /\ loaded' \in BOOLEAN
<1>1. CASE t \in aborted BY <1>1 DEF StartTurn, Types
<1>2. CASE t \notin aborted BY <1>2 DEF StartTurn, Types
<1> QED BY <1>1, <1>2

\* The types of what prepareThreadForTurn changes.
LEMMA PrepareTypes ==
  ASSUME Types, NEW t \in Turns, Prepare(t)
  PROVE  /\ pc' \in [Turns -> {"idle", "resuming", "compacting", "started",
                               "reading", "answered", "failed", "dropped", "elsewhere"}]
         /\ owner' \in Turns \cup {None} /\ loaded' \in BOOLEAN /\ compacting' \in BOOLEAN
<1>1. CASE StartTurn(t) /\ UNCHANGED compacting BY <1>1, StartTypes DEF Types
<1>2. CASE ~(StartTurn(t) /\ UNCHANGED compacting) BY <1>2 DEF Prepare, Types
<1> QED BY <1>1, <1>2

\* The types of what registerTurnId and the completion of a turn change.
LEMMA RegistersTypes ==
  ASSUME Types, NEW t \in Turns, NEW k \in EngineTurns, Registers(t, k) \/ Completes(t, k)
  PROVE  /\ pc' \in [Turns -> {"idle", "resuming", "compacting", "started",
                               "reading", "answered", "failed", "dropped", "elsewhere"}]
         /\ owner' \in Turns \cup {None} /\ from' \in [Turns -> EngineTurns \cup {None}]
<1>1. CASE Completes(t, k) BY <1>1 DEF Completes, Types
<1>2. CASE UNCHANGED <<owner, from, pc>> BY <1>2 DEF Types
<1> QED BY <1>1, <1>2 DEF Registers

\* Every step keeps the types of the variables that are not mail.
LEMMA TypesKept ==
  ASSUME AppInv, Next
  PROVE  Types' /\ held' \in [Turns -> Seq(Line)]
<1>0. Types /\ Mail /\ held \in [Turns -> Seq(Line)]
  BY DEF AppInv, Mail
<1>1. ASSUME NEW t \in Turns, Send(t) PROVE Types' /\ held' \in [Turns -> Seq(Line)]
  <2>1. CASE Prepare(t) BY <2>1, <1>1, <1>0, PrepareTypes DEF Send, Types, watch, engine
  <2>2. CASE pc' = [pc EXCEPT ![t] = "resuming"] /\ UNCHANGED <<owner, loaded, compacting>>
    BY <2>2, <1>1, <1>0 DEF Send, Types, watch, engine
  <2> QED BY <2>1, <2>2, <1>1 DEF Send
<1>2. ASSUME NEW t \in Turns, Abort(t) PROVE Types' /\ held' \in [Turns -> Seq(Line)]
  <2>1. UNCHANGED <<tid, from, full, compacting, compactionId, settledCompactions, watch, engine>>
    BY <1>2 DEF Abort
  <2>2. CASE aborted' \subseteq aborted \cup {t} /\ UNCHANGED <<pc, owner, cut, held, loaded>>
    BY <2>1, <2>2, <1>0 DEF Types, watch, engine
  <2>3. CASE /\ pc' = [pc EXCEPT ![t] = "failed"] /\ owner' \in {owner, None} /\ loaded' = FALSE
             /\ held' = [held EXCEPT ![t] = <<>>] /\ cut' \in {cut, cut \cup {t}} /\ UNCHANGED aborted
    <3>1. <<>> \in Seq(Line) OBVIOUS
    <3> QED BY <3>1, <2>1, <2>3, <1>0 DEF Types, watch, engine
  <2> QED BY <1>2, <2>2, <2>3 DEF Abort
<1>11. ASSUME Drop PROVE Types' /\ held' \in [Turns -> Seq(Line)]
  <2>1. owner \in Turns /\ <<>> \in Seq(Line)
    BY <1>11, <1>0 DEF Drop, Types
  <2>2. held' \in [Turns -> Seq(Line)]
    BY <2>1, <1>11, <1>0 DEF Drop
  <2> QED BY <2>1, <2>2, <1>11, <1>0 DEF Drop, Types, watch, engine
<1>3. ASSUME NEW p \in Pursuits, Watch(p) \/ Stop(p) \/ Poll(p) \/ WatchReturns(p)
      PROVE  Types' /\ held' \in [Turns -> Seq(Line)]
  <2>1. CASE Watch(p)
    <3>1. CASE loaded BY <3>1, <2>1, <1>0 DEF Watch, Register, Types, calls, thread, engine
    <3>2. CASE ~loaded BY <3>2, <2>1, <1>0 DEF Watch, Types, calls, thread, engine
    <3> QED BY <3>1, <3>2
  <2>2. CASE Stop(p) BY <2>2, <1>0 DEF Stop, Types, calls, thread, engine
  <2>3. CASE Poll(p) BY <2>3, <1>0 DEF Poll, Types, calls, thread, engine
  <2>4. CASE WatchReturns(p) BY <2>4, <1>0 DEF WatchReturns, Types, calls, thread, engine
  <2> QED BY <1>3, <2>1, <2>2, <2>3, <2>4
<1>4. CASE Receive
  <2>1. CASE Hold
    <3>1. Head(lines) \in Line
      BY <2>1, Heads DEF Hold, Lines
    <3>2. owner \in Turns
      BY <2>1, <1>0 DEF Hold, Holds, Types
    <3>3. Append(held[owner], Head(lines)) \in Seq(Line)
      BY <3>1, <3>2, <1>0
    <3>4. held' \in [Turns -> Seq(Line)]
      BY <3>2, <3>3, <2>1, <1>0 DEF Hold
    <3> QED BY <3>4, <2>1, <1>0 DEF Hold, Types, thread, watch, engine
  <2>2. CASE StartRefused
    <3>1. X \in Turns BY <2>2, Heads DEF StartRefused
    <3>2. <<>> \in Seq(Line) OBVIOUS
    <3>3. CASE owner = X
      BY <3>1, <3>2, <3>3, <2>2, <1>0 DEF StartRefused, Types, watch, engine
    <3>4. CASE owner # X
      BY <3>4, <2>2, <1>0 DEF StartRefused, Types, watch, engine
    <3> QED BY <3>3, <3>4
  <2>3. CASE Resumed
    <3>1. X \in Turns \cup Pursuits BY <2>3, Heads DEF Resumed
    <3>2. CASE X \in Turns
      <4>1. Prepare(X) /\ UNCHANGED <<pw, watcher>> BY <3>2, <2>3 DEF Resumed
      <4> QED BY <4>1, <3>2, <2>3, <1>0, PrepareTypes DEF Resumed, Types, engine
    <3>3. CASE X \notin Turns
      <4>1. CASE pw[X] = "resuming"
        BY <4>1, <3>1, <3>3, <2>3, <1>0 DEF Resumed, Register, Types, engine
      <4>2. CASE pw[X] # "resuming"
        BY <4>2, <3>1, <3>3, <2>3, <1>0 DEF Resumed, Types, engine
      <4> QED BY <4>1, <4>2
    <3> QED BY <3>2, <3>3
  <2>4. CASE StartAnswered
    <3>1. X \in Turns /\ X \in EngineTurns BY <2>4, Heads DEF StartAnswered
    <3>2. <<>> \in Seq(Line) OBVIOUS
    <3>3. CASE Registers(X, X) /\ UNCHANGED cut
      <4>1. tid' = [tid EXCEPT ![X] = X] /\ held' = [held EXCEPT ![X] = <<>>]
        BY <3>3 DEF Registers
      <4> QED BY <4>1, <3>1, <3>2, <3>3, <2>4, <1>0, RegistersTypes
             DEF StartAnswered, Types, thread, watch, engine
    <3>4. CASE UNCHANGED <<pc, owner, tid, held, from>> /\ cut' \subseteq cut
      BY <3>4, <2>4, <1>0 DEF StartAnswered, Types, thread, watch, engine
    <3> QED BY <3>3, <3>4, <2>4 DEF StartAnswered
  <2>5. CASE Started
    <3>1. X \in EngineTurns BY <2>5, Heads DEF Started
    <3>2. <<>> \in Seq(Line) OBVIOUS
    <3>3. UNCHANGED <<cut, aborted, loaded, full, compacting, watch, engine, counters>>
      BY <2>5 DEF Started
    <3>4. CASE Adoptable(X) /\ Registers(owner, X) /\ UNCHANGED <<compactionId, settledCompactions>>
      <4>1. owner \in Turns BY <3>4, <1>0 DEF Adoptable, Types
      <4>2. tid' = [tid EXCEPT ![owner] = X] /\ held' = [held EXCEPT ![owner] = <<>>]
        BY <3>4 DEF Registers
      <4> QED BY <4>1, <4>2, <3>1, <3>2, <3>3, <3>4, <1>0, RegistersTypes DEF Types, watch, engine
    <3>5. CASE UNCHANGED <<pc, owner, tid, held, from>> /\ compactionId' \in {compactionId, X}
               /\ settledCompactions' \subseteq settledCompactions \cup {X}
      BY <3>1, <3>3, <3>5, <1>0 DEF Types, watch, engine
    <3> QED BY <3>4, <3>5, <2>5 DEF Started
  <2>6. ASSUME NEW t \in Turns, CompactionSettles, StartTurn(t), UNCHANGED <<tid, held, from>>,
               UNCHANGED <<cut, aborted, watch, engine, counters>>
        PROVE  Types' /\ held' \in [Turns -> Seq(Line)]
    <3>1. settledCompactions' \subseteq EngineTurns
      BY <2>6, <1>0 DEF CompactionSettles, Types
    <3> QED BY <3>1, <2>6, <1>0, StartTypes DEF CompactionSettles, Types, watch, engine
  <2>7. CASE Completed
    <3>1. X \in EngineTurns BY <2>7, Heads DEF Completed
    <3>2. <<>> \in Seq(Line) OBVIOUS
    <3>3. UNCHANGED <<cut, aborted, watch, engine, counters>> BY <2>7 DEF Completed
    <3>4. CASE CompactionSettles /\ UNCHANGED <<tid, held, from>>
      BY <3>3, <3>4, <2>6 DEF CompactionSettles
    <3>5. CASE \E t \in Matched(X) :
                 /\ tid' = [tid EXCEPT ![t] = X] /\ held' = [held EXCEPT ![t] = <<>>]
                 /\ Completes(t, X) /\ UNCHANGED thread
      <4>1. PICK t \in Matched(X) :
                 /\ tid' = [tid EXCEPT ![t] = X] /\ held' = [held EXCEPT ![t] = <<>>]
                 /\ Completes(t, X) /\ UNCHANGED thread
        BY <3>5
      <4>2. t \in Turns BY <1>0 DEF Matched, Named, Adoptable, Types
      <4> QED BY <4>1, <4>2, <3>1, <3>2, <3>3, <1>0, RegistersTypes DEF Types, thread, watch, engine
    <3>6. CASE UNCHANGED <<pc, owner, tid, held, from, requests, thread>>
      BY <3>3, <3>6, <1>0 DEF Types, thread, watch, engine
    <3> QED BY <3>4, <3>5, <3>6, <2>7 DEF Completed
  <2>8. CASE Compacted
    <3>1. UNCHANGED <<tid, cut, held, from, aborted, watch, engine, counters>> BY <2>8 DEF Compacted
    <3>2. CASE CompactionSettles
      BY <3>1, <3>2, <2>6 DEF CompactionSettles
    <3>3. CASE UNCHANGED <<pc, owner, requests, thread>>
      BY <3>1, <3>3, <1>0 DEF Types, thread, watch, engine
    <3> QED BY <3>2, <3>3, <2>8 DEF Compacted
  <2>9. CASE Cleared
    <3>1. X \in Pursuits BY <2>9, Heads DEF Cleared
    <3>2. CASE pw[X] = "clearing"
      BY <3>1, <3>2, <2>9, <1>0 DEF Cleared, Types, calls, thread, engine
    <3>3. CASE pw[X] # "clearing"
      BY <3>1, <3>3, <2>9, <1>0 DEF Cleared, Types, calls, thread, engine
    <3> QED BY <3>2, <3>3
  <2>10. CASE Set
    <3>1. X \in Pursuits BY <2>10, Heads DEF Set
    <3> QED BY <3>1, <2>10, <1>0 DEF Set, Types, calls, thread, engine
  <2>11. CASE GoalEnded
    BY <2>11, <1>0 DEF GoalEnded, Types, calls, thread, engine
  <2>12. CASE Read
    <3>1. X \in Turns BY <2>12, Heads DEF Read
    <3> QED BY <3>1, <2>12, <1>0 DEF Read, Types, thread, watch, engine
  <2> QED BY <1>4, <1>11, <2>1, <2>2, <2>3, <2>4, <2>5, <2>7, <2>8, <2>9, <2>10, <2>11, <2>12
      DEF Receive, Overflow
<1>5. CASE CompactionFails
  <2>1. settledCompactions' \subseteq EngineTurns
    BY <1>5, <1>0 DEF CompactionFails, Types
  <2> QED BY <2>1, <1>5, <1>0 DEF CompactionFails, Types, watch, engine
<1>6. CASE Serve
  <2>1. Head(requests).of \in EngineTurns /\ (Head(requests).op = "set" => Head(requests).of \in Pursuits)
    BY <1>0, <1>6, ReadsRequest DEF Serve, Requests, Request
  <2>2. /\ running' \in {running, running \cup {Head(requests).of}}
        /\ running \subseteq running'
        /\ interrupted' \in {interrupted, interrupted \cup ({Head(requests).of} \cap running)}
    BY <1>6 DEF Serve, engine
  <2>3. goal' \in Goals \cup {None}
    <3>1. CASE Head(requests).op = "set"
      <4>1. goal' = [of |-> Head(requests).of, ended |-> FALSE]
        BY <3>1, <1>6 DEF Serve
      <4> QED BY <4>1, <3>1, <2>1 DEF Goals
    <3>2. CASE Head(requests).op # "set"
      <4>1. goal' = goal \/ goal' = None
        BY <3>2, <1>6 DEF Serve, engine
      <4> QED BY <4>1, <1>0 DEF Types
    <3> QED BY <3>1, <3>2
  <2>4. running' \subseteq EngineTurns /\ interrupted' \subseteq running'
    BY <2>1, <2>2, <1>0 DEF Types
  <2> QED BY <2>3, <2>4, <1>6, <1>0 DEF Serve, Types, calls, thread, watch
<1>7. ASSUME NEW k \in EngineTurns, Finish(k) PROVE Types' /\ held' \in [Turns -> Seq(Line)]
  BY <1>7, <1>0 DEF Finish, Types, calls, thread, watch
<1>8. CASE GoalTurn
  <2>1. goal.of \in EngineTurns
    BY <1>8, <1>0 DEF GoalTurn, Types, Goals, EngineTurns
  <2> QED BY <2>1, <1>8, <1>0 DEF GoalTurn, Types, calls, thread, watch
<1>9. CASE GoalEnds
  BY <1>9, <1>0 DEF GoalEnds, Types, Goals, calls, thread, watch
<1>10. CASE ChildDies
  <2>1. /\ pc' \in [Turns -> {"idle", "resuming", "compacting", "started",
                              "reading", "answered", "failed", "dropped", "elsewhere"}]
        /\ pw' \in [Pursuits -> {"idle", "resuming", "clearing", "setting", "waiting",
                                "leaving", "forgetting", "over"}]
    <3>1. /\ pc' = [t \in Turns |-> IF InFlight(t) THEN "failed" ELSE pc[t]]
          /\ pw' = [p \in Pursuits |-> IF Active(p) /\ pw[p] # "waiting" THEN "over" ELSE pw[p]]
      BY <1>10 DEF ChildDies
    <3> QED BY <3>1, <1>0 DEF Types
  <2>2. held' \in [Turns -> Seq(Line)]
    <3>1. <<>> \in Seq(Line) OBVIOUS
    <3> QED BY <3>1, <1>10 DEF ChildDies
  <2>3. resolved' \subseteq Pursuits
    BY <1>10, <1>0 DEF ChildDies, Types
  <2> QED BY <2>1, <2>2, <2>3, <1>10, <1>0 DEF ChildDies, Types
<1> QED
  BY <1>1, <1>2, <1>3, <1>4, <1>5, <1>6, <1>7, <1>8, <1>9, <1>10, <1>11 DEF Next, Unsupported

-----------------------------------------------------------------------------
(* What every step keeps of the mail, of the thread and of each turn. *)

Kept == /\ requests' \in Seq(Requests) /\ lines' \in Seq(Lines)
        /\ Owned' /\ \A t \in Turns : Led(t)'

\* What is asked in a step, if anything is.
Asks(op, x) == requests' = requests \/ Ask(op, x)

\* A step about one turn, whatever becomes of that one.
LEMMA OneTurnKept ==
  ASSUME AppInv, NEW t \in Turns, lines' \in Seq(Lines),
         \A x \in Turns \ {t} : /\ Quiet(x) /\ pc'[x] = pc[x] /\ tid'[x] = tid[x]
                                /\ x \in cut' <=> x \in cut,
         UNCHANGED <<running, interrupted>>,
         NEW op, NEW y, Asks(op, y), [op |-> op, of |-> y] \in Requests,
         op \in {"start", "resume"} => y = t \/ y \in Pursuits,
         (requests' = requests \/ Posted(requests, requests', op, y)) => Led(t)', Owned'
  PROVE  Kept
<1>1. Mail /\ (\A x \in Turns : Led(x))
  BY DEF AppInv
<1>2. requests' = requests \/ Posted(requests, requests', op, y)
  BY <1>1, Posts DEF Asks
<1>3. requests' \in Seq(Requests)
  BY <1>1, <1>2 DEF Mail, Posted
<1>4. ASSUME NEW x \in Turns \ {t} PROVE Led(x)'
  <2>1. y # x \/ op \notin {"start", "resume"}
    BY AppServerAssumption
  <2>2. CASE requests' = requests BY <2>2, <1>1, StillLed
  <2>3. CASE Posted(requests, requests', op, y) BY <2>1, <2>3, <1>1, PostedSteady
  <2> QED BY <1>2, <2>2, <2>3
<1> QED BY <1>2, <1>3, <1>4 DEF Kept

\* A step that leaves every turn alone.
LEMMA NoTurnKept ==
  ASSUME AppInv, lines' \in Seq(Lines), \A t \in Turns : Quiet(t),
         UNCHANGED <<pc, owner, tid, cut, running, interrupted>>,
         NEW op, NEW y, Asks(op, y), [op |-> op, of |-> y] \in Requests,
         op \in {"start", "resume"} => y \in Pursuits
  PROVE  Kept
<1>1. Mail /\ Owned /\ (\A x \in Turns : Led(x))
  BY DEF AppInv
<1>2. requests' = requests \/ Posted(requests, requests', op, y)
  BY <1>1, Posts DEF Asks
<1>3. requests' \in Seq(Requests)
  BY <1>1, <1>2 DEF Mail, Posted
<1>4. ASSUME NEW x \in Turns PROVE Led(x)'
  <2>1. y # x \/ op \notin {"start", "resume"}
    BY AppServerAssumption
  <2>2. CASE requests' = requests BY <2>2, <1>1, StillLed
  <2>3. CASE Posted(requests, requests', op, y) BY <2>1, <2>3, <1>1, PostedSteady
  <2> QED BY <1>2, <2>2, <2>3
<1> QED BY <1>1, <1>3, <1>4 DEF Kept, Owned

\* The requests there are.
LEMMA Requestable ==
  /\ \A p \in Pursuits : \A op \in {"clear", "set", "resume"} : [op |-> op, of |-> p] \in Requests
  /\ \A t \in Turns : \A op \in {"resume", "start", "read"} : [op |-> op, of |-> t] \in Requests
  /\ \A k \in EngineTurns : [op |-> "interrupt", of |-> k] \in Requests
  /\ [op |-> "interrupt", of |-> Compaction] \in Requests
BY DEF Requests, Request, EngineTurns

\* sendUserMessage: a turn that was idle resumes the thread, compacts it or starts.
LEMMA SendKeeps ==
  ASSUME AppInv, NEW t \in Turns, Send(t)
  PROVE  Kept
<1>1. /\ Types /\ Mail /\ Owned /\ (\A x \in Turns : Led(x))
      /\ lines' \in Seq(Lines) /\ \A x \in Turns : Quiet(x)
  BY SameQuiet DEF AppInv, Send, Mail
<1>2. pc[t] = "idle" /\ UNCHANGED <<tid, cut, lines, running, interrupted>>
  BY DEF Send, engine
<1>3. ~Resumes(requests, t) /\ ~Knows(lines, t)
  BY <1>1, <1>2 DEF Led
<1>4. CASE Prepare(t)
  BY <1>1, <1>2, <1>3, <1>4, PrepareLed DEF Kept, Before
<1>5. CASE pc' = [pc EXCEPT ![t] = "resuming"] /\ Ask("resume", t) /\ UNCHANGED owner
  <2>1. pc'[t] = "resuming" /\ \A x \in Turns \ {t} : pc'[x] = pc[x]
    BY <1>1, <1>5 DEF Types
  <2>2. Posted(requests, requests', "resume", t) => Led(t)'
    <3> SUFFICES ASSUME Posted(requests, requests', "resume", t) PROVE Led(t)'
      OBVIOUS
    <3>1. OneOf(requests', lines', t)
      BY <1>1, <1>2, <1>3 DEF OneOf, Led, Posted
    <3> QED BY <1>1, <1>2, <2>1, <3>1 DEF Led, Posted, Before
  <2>3. Owned'
    BY <1>1, <1>2, <1>5, <2>1 DEF Owned, Types
  <2>4. Posted(requests, requests', "resume", t)
    BY <1>1, <1>5, Posts, Requestable
  <2> QED BY <1>1, <1>2, <1>5, <2>1, <2>2, <2>3, <2>4, OneTurnKept, Requestable DEF Asks
<1> QED BY <1>4, <1>5 DEF Send

\* abortTurn: a turn without an id has the answer to turn/start to come, if it runs; one
\* with its own id is interrupted.
LEMMA AbortKeeps ==
  ASSUME AppInv, NEW t \in Turns, Abort(t)
  PROVE  Kept
<1>1. /\ Types /\ Mail /\ Owned /\ (\A x \in Turns : Led(x)) /\ t # None
      /\ lines' \in Seq(Lines) /\ \A x \in Turns : Quiet(x)
  BY SameQuiet, AppServerAssumption DEF AppInv, Abort, Mail
<1>2. UNCHANGED <<tid, lines, running, interrupted>>
  BY DEF Abort, engine
<1>3. CASE UNCHANGED <<pc, owner, cut, requests>>
  BY <1>1, <1>2, <1>3, NoTurnKept, Requestable DEF Asks
<1>4. CASE /\ pc[t] \in {"started", "reading"} /\ pc' = [pc EXCEPT ![t] = "failed"]
           /\ owner' = IF owner = t THEN None ELSE owner
           /\ IF tid[t] = None
              THEN cut' = cut \cup {t} /\ UNCHANGED requests
              ELSE Ask("interrupt", tid[t]) /\ UNCHANGED cut
  <2>1. pc'[t] = "failed" /\ \A x \in Turns \ {t} : pc'[x] = pc[x]
    BY <1>1, <1>4 DEF Types
  <2>2. Owned'
    BY <1>1, <1>4, <2>1 DEF Owned, Types
  <2>3. CASE tid[t] = None
    <3>1. cut' = cut \cup {t} /\ requests' = requests
      BY <1>4, <2>3
    <3>2. Led(t)'
      <4>1. OneOf(requests', lines', t)
        BY <1>1, <1>2, <3>1 DEF Led
      <4>2. pc[t] = "started"
        BY <1>1, <1>4, <2>3 DEF Led
      <4> QED BY <1>1, <1>2, <1>4, <2>1, <2>3, <3>1, <4>1, <4>2 DEF Led, Before
    <3> QED BY <1>1, <1>2, <2>1, <2>2, <3>1, <3>2, OneTurnKept, Requestable DEF Asks
  <2>4. CASE tid[t] # None
    <3>1. cut' = cut /\ Ask("interrupt", tid[t]) /\ tid[t] \in EngineTurns
      BY <1>1, <1>4, <2>4 DEF Types
    <3>2. Posted(requests, requests', "interrupt", tid[t])
      BY <1>1, <3>1, Posts, Requestable
    <3>3. Led(t)'
      <4>1. OneOf(requests', lines', t)
        BY <1>1, <1>2, <3>2 DEF Led, OneOf, Posted
      <4> QED BY <1>1, <1>2, <1>4, <2>1, <2>4, <3>1, <3>2, <4>1 DEF Led, Before, Posted
    <3> QED BY <1>1, <1>2, <2>1, <2>2, <3>1, <3>3, OneTurnKept, Requestable DEF Asks
  <2> QED BY <2>3, <2>4
<1> QED BY <1>3, <1>4 DEF Abort

\* failPendingTurn: nothing is under way for a turn so dropped but its answer.
LEMMA DropKeeps ==
  ASSUME AppInv, Drop, lines' \in Seq(Lines), \A x \in Turns : Quiet(x)
  PROVE  Kept
<1>1. /\ Types /\ Mail /\ Owned /\ (\A x \in Turns : Led(x))
      /\ UNCHANGED <<tid, cut, requests, running, interrupted>>
  BY DEF AppInv, Drop, engine
<1>2. PICK t \in Turns : t = owner
  BY <1>1 DEF Drop, Types
<1>3. /\ pc[t] = "started" /\ pc'[t] = "dropped" /\ \A x \in Turns \ {t} : pc'[x] = pc[x]
      /\ Owned'
  BY <1>1, <1>2 DEF Drop, Types, Owned
<1>4. Led(t)'
  <2>1. Led(t) /\ Quiet(t) BY <1>1
  <2> QED BY <1>1, <1>3, <2>1 DEF Led, Quiet, OneOf, Before
<1> QED BY <1>1, <1>3, <1>4, OneTurnKept, Requestable DEF Asks

\* A request the adapter does not know, and a line too many to hold.
LEMMA DroppedKeeps ==
  ASSUME AppInv, Unsupported \/ Overflow
  PROVE  Kept
<1>1. CASE Unsupported
  <2>1. lines' \in Seq(Lines) /\ \A x \in Turns : Quiet(x)
    BY <1>1, SameQuiet DEF AppInv, Unsupported, Mail
  <2> QED BY <1>1, <2>1, DropKeeps DEF Unsupported
<1>2. CASE Overflow
  <2>1. lines' \in Seq(Lines) /\ \A x \in Turns : Quiet(x)
    BY <1>2, ReadQuiet DEF Overflow
  <2> QED BY <1>2, <2>1, DropKeeps DEF Overflow
<1> QED BY <1>1, <1>2

\* The watch of a goal, its stops and its poll.
LEMMA WatchKeeps ==
  ASSUME AppInv, NEW p \in Pursuits, Watch(p) \/ Stop(p) \/ Poll(p) \/ WatchReturns(p)
  PROVE  Kept
<1>1. /\ lines' = lines /\ UNCHANGED <<pc, owner, tid, cut, running, interrupted>>
      /\ Asks("clear", p) \/ Asks("resume", p)
  <2>1. CASE Watch(p) BY <2>1 DEF Watch, Register, calls, engine, Asks
  <2>2. CASE Stop(p) BY <2>2 DEF Stop, calls, engine, Asks
  <2>3. CASE Poll(p) BY <2>3 DEF Poll, calls, engine, Asks
  <2>4. CASE WatchReturns(p) BY <2>4 DEF WatchReturns, calls, engine, Asks
  <2> QED BY <2>1, <2>2, <2>3, <2>4
<1>2. lines' \in Seq(Lines) /\ \A x \in Turns : Quiet(x)
  BY <1>1, SameQuiet DEF AppInv, Mail
<1> QED BY <1>1, <1>2, NoTurnKept, Requestable

-----------------------------------------------------------------------------
(* The lines of the child, read. *)

\* A line is held back (bufferUnidentifiedTurnLine).
LEMMA HoldKeeps ==
  ASSUME AppInv, Hold
  PROVE  Kept
<1>1. PICK kind \in {"started", "completed"} : Arrived(kind)
  BY DEF Hold
<1>2. lines' \in Seq(Lines) /\ \A x \in Turns : Quiet(x)
  BY <1>1, ReadQuiet
<1>3. requests' = requests /\ UNCHANGED <<pc, owner, tid, cut, running, interrupted>>
  BY DEF Hold, engine
<1>4. [op |-> "interrupt", of |-> Compaction] \in Requests
  BY Requestable
<1> QED BY <1>2, <1>3, <1>4, NoTurnKept DEF Asks

\* turn/start failed: that turn does not run.
LEMMA RefusedKeeps ==
  ASSUME AppInv, StartRefused
  PROVE  Kept
<1>1. /\ Types /\ Owned /\ Head(lines) = [kind |-> "refused", of |-> X] /\ X \in Turns /\ X # None
      /\ lines' \in Seq(Lines) /\ \A x \in Turns : Quiet(x)
  BY Heads, ReadQuiet DEF AppInv, StartRefused
<1>2. requests' = requests /\ UNCHANGED <<tid, cut, running, interrupted>>
  BY DEF StartRefused, engine
<1>3. [op |-> "interrupt", of |-> Compaction] \in Requests
  BY Requestable
<1>4. CASE owner = X
  <2>1. PICK t \in Turns : t = X
    BY <1>1
  <2>2. pc' = [pc EXCEPT ![t] = "failed"] /\ owner' = None
    BY <1>4, <2>1 DEF StartRefused
  <2>3. pc'[t] = "failed" /\ pc[t] = "started" /\ \A x \in Turns \ {t} : pc'[x] = pc[x]
    BY <1>1, <1>4, <2>1, <2>2 DEF Types, Owned
  <2>4. Led(t)'
    <3>1. Led(t) /\ Quiet(t) BY <1>1 DEF AppInv
    <3>2. Names(lines, t) /\ Refuses(lines, t)
      BY <1>1, <2>1, ReadsLine DEF AppInv, StartRefused, Arrived
    <3>3. /\ OneOf(requests', lines', t) /\ t \notin running /\ ~Asked(requests', t)
          /\ ~Resumes(requests', t) /\ ~Knows(lines', t)
      BY <1>2, <2>3, <3>1, <3>2 DEF Led, OneOf, Quiet
    <3> QED BY <1>2, <2>3, <3>1, <3>3 DEF Led, Before, Quiet
  <2>5. Owned'
    BY <2>2 DEF Owned
  <2> QED BY <1>1, <1>2, <1>3, <2>3, <2>4, <2>5, OneTurnKept DEF Asks
<1>5. CASE owner # X
  <2>1. UNCHANGED <<pc, owner>>
    BY <1>5 DEF StartRefused
  <2> QED BY <1>1, <1>2, <1>3, <2>1, NoTurnKept DEF Asks
<1> QED BY <1>4, <1>5

\* thread/resume was answered, to the one turn that resumes or to a pursuit.
LEMMA ResumedKeeps ==
  ASSUME AppInv, Resumed
  PROVE  Kept
<1>1. /\ Types /\ Mail /\ Owned /\ Head(lines) = [kind |-> "resumed", of |-> X]
      /\ X \in Turns \cup Pursuits
      /\ lines' \in Seq(Lines) /\ \A x \in Turns : Quiet(x)
  BY Heads, ReadQuiet DEF AppInv, Resumed
<1>2. UNCHANGED <<tid, cut, running, interrupted>>
  BY DEF Resumed, engine
<1>3. CASE X \in Turns
  <2>1. Prepare(X)
    BY <1>3 DEF Resumed
  <2>2. Knows(lines, X) /\ ~Knows(lines', X) /\ Led(X)
    <3>1. Once(lines, [kind |-> "resumed", of |-> X]) /\ Led(X)
      BY <1>3 DEF AppInv, Led, OneOf
    <3> QED BY <1>1, <3>1, ReadsLine DEF Resumed, Arrived
  <2>3. pc[X] = "resuming" /\ ~Resumes(requests, X)
    BY <2>2 DEF Led, OneOf
  <2> QED BY <1>1, <1>2, <1>3, <2>1, <2>2, <2>3, PrepareLed DEF Kept, Before
<1>4. CASE X \notin Turns
  <2>1. UNCHANGED <<pc, owner>> /\ Ask("clear", X) /\ X \in Pursuits
    BY <1>1, <1>4 DEF Resumed, Register
  <2>2. [op |-> "clear", of |-> X] \in Requests
    BY <2>1, Requestable
  <2> QED BY <1>1, <1>2, <2>1, <2>2, NoTurnKept DEF Asks
<1> QED BY <1>3, <1>4

\* A turn is told its id, and settled with it where that engine turn is over already: it was
\* started, so it waits neither for its thread nor for the answer that would interrupt it.
LEMMA RegisteredLed ==
  ASSUME AppInv, NEW t \in Turns, NEW k \in EngineTurns, Registers(t, k) \/ Completes(t, k),
         pc[t] \in {"started", "reading"}, tid' = [tid EXCEPT ![t] = k],
         k = t => Names(lines, t), lines' \in Seq(Lines),
         \A x \in Turns \ {t} : Quiet(x), ~Knows(lines', t), Refuses(lines', t) => Refuses(lines, t),
         Names(lines', t) => Names(lines, t), Once(lines', [kind |-> "resumed", of |-> t]),
         UNCHANGED <<cut, running, interrupted>>
  PROVE  Kept
<1>1. Types /\ Mail /\ Owned /\ (\A x \in Turns : Led(x)) /\ t # None /\ k # None
  BY AppServerAssumption DEF AppInv, EngineTurns
<1>2. /\ pc' = pc \/ pc' = [pc EXCEPT ![t] = "answered"] \/ pc' = [pc EXCEPT ![t] = "reading"]
      /\ (UNCHANGED <<owner, pc>>) \/ (owner' = IF owner = t THEN None ELSE owner)
      /\ Asks("read", t)
  BY DEF Registers, Completes, Asks
<1>3. /\ pc'[t] \in {"started", "reading", "answered"} /\ tid'[t] = k
      /\ \A x \in Turns \ {t} : pc'[x] = pc[x] /\ tid'[x] = tid[x]
  BY <1>1, <1>2 DEF Types
<1>4. Owned'
  BY <1>1, <1>2, <1>3 DEF Owned, Types
<1>5. (requests' = requests \/ Posted(requests, requests', "read", t)) => Led(t)'
  <2> SUFFICES ASSUME requests' = requests \/ Posted(requests, requests', "read", t) PROVE Led(t)'
    OBVIOUS
  <2>1. Led(t) BY <1>1
  <2>2. ~Resumes(requests, t)
    BY <2>1 DEF Led
  <2>3. /\ ~Resumes(requests', t) /\ (Asked(requests', t) => Asked(requests, t))
        /\ Once(requests', [op |-> "start", of |-> t]) /\ Once(requests', [op |-> "resume", of |-> t])
    <3>1. Once(requests, [op |-> "start", of |-> t]) /\ Once(requests, [op |-> "resume", of |-> t])
      BY <2>1 DEF Led, OneOf
    <3> QED BY <2>2, <3>1 DEF Posted
  <2>4. Asked(requests, t) => ~Names(lines, t) /\ t \notin running
    BY <2>1 DEF Led
  <2>5. Refuses(lines, t) => t \notin running
    BY <2>1 DEF Led
  <2>6. Asked(requests', t) => ~Names(lines', t)
    BY <2>3, <2>4
  <2> QED BY <1>1, <1>3, <2>2, <2>3, <2>4, <2>5, <2>6 DEF Led, OneOf, Before
<1>6. [op |-> "read", of |-> t] \in Requests
  BY Requestable
<1> QED BY <1>1, <1>2, <1>3, <1>4, <1>5, <1>6, OneTurnKept

\* turn/start was answered: the turn is told its id, or interrupted as it was given up, or
\* known already.
LEMMA StartAnsweredKeeps ==
  ASSUME AppInv, StartAnswered
  PROVE  Kept
<1>1. /\ Types /\ Mail /\ Owned /\ (\A x \in Turns : Led(x)) /\ X \in Turns /\ X \in EngineTurns /\ X # None
      /\ Head(lines) = [kind |-> "startAnswer", of |-> X] /\ lines # <<>> /\ lines' = Tail(lines)
      /\ lines' \in Seq(Lines)
  <2>1. Arrived("startAnswer") BY DEF StartAnswered
  <2> QED BY <2>1, Heads, ReadsLine DEF AppInv, Arrived
<1>2. UNCHANGED <<running, interrupted>>
  BY DEF StartAnswered, engine
<1>3. PICK t \in Turns : t = X
  BY <1>1
<1>4. \A x \in Turns \ {t} : Quiet(x)
  <2> SUFFICES ASSUME NEW x \in Turns \ {t} PROVE Quiet(x)
    OBVIOUS
  <2>1. Once(lines, [kind |-> "resumed", of |-> x])
    BY <1>1 DEF Led, OneOf
  <2>2. Head(lines) # [kind |-> "startAnswer", of |-> x]
    BY <1>1, <1>3
  <2> QED BY <1>1, <2>1, <2>2, ReadsLine DEF Quiet
<1>5. /\ Names(lines, t) /\ Once(lines', [kind |-> "resumed", of |-> t])
      /\ Knows(lines', t) => Knows(lines, t)
      /\ Refuses(lines', t) => Refuses(lines, t)
      /\ Names(lines', t) => Names(lines, t)
  <2>1. Once(lines, [kind |-> "resumed", of |-> t])
    BY <1>1 DEF Led, OneOf
  <2> QED BY <1>1, <1>3, <2>1, ReadsLine
<1>6. ~Asked(requests, t) /\ pc[t] \notin Before /\ ~Resumes(requests, t) /\ ~Knows(lines, t)
  BY <1>1, <1>5 DEF Led, Before
<1>7. CASE pc[t] \in {"started", "reading"} /\ tid[t] = None /\ Registers(t, t) /\ UNCHANGED cut
  <2>1. tid' = [tid EXCEPT ![t] = t]
    BY <1>7 DEF Registers
  <2>2. t \in EngineTurns BY <1>1, <1>3
  <2> QED BY <1>1, <1>2, <1>4, <1>5, <1>6, <1>7, <2>1, <2>2, RegisteredLed
<1>8. CASE /\ pc[t] = "failed" /\ cut' = cut \ {t}
           /\ Ask("interrupt", t) /\ UNCHANGED <<pc, owner, tid>>
  <2>1. [op |-> "interrupt", of |-> t] \in Requests
    BY <1>1, <1>3, Requestable
  <2>2. Posted(requests, requests', "interrupt", t)
    BY <1>1, <1>8, <2>1, Posts
  <2>3. Led(t)'
    <3>1. OneOf(requests', lines', t)
      BY <1>1, <1>5, <1>6, <2>2 DEF Led, OneOf, Posted
    <3> QED BY <1>1, <1>2, <1>5, <1>6, <1>8, <2>2, <3>1 DEF Led, Posted, Before
  <2>4. Owned' BY <1>1, <1>8 DEF Owned
  <2> QED BY <1>1, <1>2, <1>4, <1>8, <2>1, <2>3, <2>4, OneTurnKept DEF Asks
<1>9. CASE /\ pc[t] \in {"started", "reading"} => tid[t] # None
           /\ t \notin cut /\ UNCHANGED <<pc, owner, tid, cut, requests>>
  <2>1. Led(t)'
    <3>1. OneOf(requests', lines', t)
      BY <1>1, <1>5, <1>6, <1>9 DEF Led, OneOf
    <3> QED BY <1>1, <1>2, <1>5, <1>6, <1>9, <3>1 DEF Led, Before
  <2>2. Owned' BY <1>1, <1>9 DEF Owned
  <2> QED BY <1>1, <1>2, <1>4, <1>9, <2>1, <2>2, OneTurnKept, Requestable DEF Asks
<1> QED BY <1>3, <1>7, <1>8, <1>9 DEF StartAnswered

\* turn/started: as RegisteredLed where a turn adopts the id.
LEMMA StartedKeeps ==
  ASSUME AppInv, Started
  PROVE  Kept
<1>1. /\ Types /\ Owned /\ (\A x \in Turns : Led(x)) /\ X \in EngineTurns
      /\ Head(lines) = [kind |-> "started", of |-> X] /\ lines # <<>> /\ lines' = Tail(lines)
      /\ lines' \in Seq(Lines) /\ \A x \in Turns : Quiet(x)
  BY Heads, ReadQuiet DEF AppInv, Started, Arrived
<1>2. UNCHANGED <<cut, running, interrupted>>
  BY DEF Started, engine
<1>3. CASE Adoptable(X) /\ Registers(owner, X)
  <2>1. PICK t \in Turns : t = owner
    BY <1>1, <1>3 DEF Adoptable, Types
  <2>2. pc[t] = "started" /\ Registers(t, X)
    BY <1>1, <1>3, <2>1, AppServerAssumption DEF Owned, Adoptable
  <2>3. tid' = [tid EXCEPT ![t] = X]
    BY <2>2 DEF Registers
  <2>4. PICK k \in EngineTurns : k = X
    BY <1>1
  <2>5. k = t => Names(lines, t)
    BY <1>1, <2>4, ReadsLine DEF AppInv
  <2>6. ~Knows(lines', t) /\ (Refuses(lines', t) => Refuses(lines, t))
        /\ (Names(lines', t) => Names(lines, t)) /\ Once(lines', [kind |-> "resumed", of |-> t])
    BY <1>1, <2>2 DEF Quiet, Led
  <2> QED BY <1>1, <1>2, <2>2, <2>3, <2>4, <2>5, <2>6, RegisteredLed
<1>4. CASE UNCHANGED <<pc, owner, tid, requests>>
  BY <1>1, <1>2, <1>4, NoTurnKept, Requestable DEF Asks
<1> QED BY <1>3, <1>4 DEF Started

\* settleCompaction: the turn that waits starts.
LEMMA CompactionSettlesKeeps ==
  ASSUME AppInv, CompactionSettles, lines' \in Seq(Lines), \A x \in Turns : Quiet(x),
         UNCHANGED <<tid, cut, running, interrupted>>
  PROVE  Kept
<1>1. PICK t \in Turns : pc[t] = "compacting" /\ StartTurn(t)
  BY DEF CompactionSettles
<1>2. ~Resumes(requests, t) /\ ~Knows(lines', t)
  BY <1>1 DEF AppInv, Led, Quiet
<1> QED BY <1>1, <1>2, StartLed DEF Kept, Before

\* turn/completed, for the compaction, for a turn that has the id or adopts it, or for none.
LEMMA CompletedKeeps ==
  ASSUME AppInv, Completed
  PROVE  Kept
<1>1. /\ Types /\ Owned /\ (\A x \in Turns : Led(x)) /\ X \in EngineTurns /\ X # None
      /\ Head(lines) = [kind |-> "completed", of |-> X] /\ lines # <<>> /\ lines' = Tail(lines)
      /\ lines' \in Seq(Lines) /\ \A x \in Turns : Quiet(x)
  BY Heads, ReadQuiet DEF AppInv, Completed, Arrived
<1>2. UNCHANGED <<cut, running, interrupted>>
  BY DEF Completed, engine
<1>3. CASE CompactionSettles /\ UNCHANGED tid
  BY <1>1, <1>2, <1>3, CompactionSettlesKeeps
<1>4. CASE \E t \in Matched(X) : tid' = [tid EXCEPT ![t] = X] /\ Completes(t, X)
  <2>1. PICK t \in Matched(X) : tid' = [tid EXCEPT ![t] = X] /\ Completes(t, X)
    BY <1>4
  <2>2. t \in Turns /\ pc[t] \in {"started", "reading"}
    BY <1>1 DEF Matched, Named, Adoptable, Types, Owned
  <2>4. PICK k \in EngineTurns : k = X
    BY <1>1
  <2>5. k = t => Names(lines, t)
    BY <1>1, <2>2, <2>4, ReadsLine DEF AppInv
  <2>6. ~Knows(lines', t) /\ (Refuses(lines', t) => Refuses(lines, t))
        /\ (Names(lines', t) => Names(lines, t)) /\ Once(lines', [kind |-> "resumed", of |-> t])
    BY <1>1, <2>2 DEF Quiet, Led
  <2> QED BY <1>1, <1>2, <2>1, <2>2, <2>4, <2>5, <2>6, RegisteredLed
<1>5. CASE UNCHANGED <<pc, owner, tid, requests>>
  BY <1>1, <1>2, <1>5, NoTurnKept, Requestable DEF Asks
<1> QED BY <1>3, <1>4, <1>5 DEF Completed

\* The compaction is over, and its turn starts.
LEMMA CompactedKeeps ==
  ASSUME AppInv, Compacted
  PROVE  Kept
<1>1. lines' \in Seq(Lines) /\ \A x \in Turns : Quiet(x)
  BY ReadQuiet DEF Compacted
<1>2. UNCHANGED <<tid, cut, running, interrupted>>
  BY DEF Compacted, engine
<1>3. CASE CompactionSettles
  BY <1>1, <1>2, <1>3, CompactionSettlesKeeps
<1>4. CASE UNCHANGED <<pc, owner, requests>>
  BY <1>1, <1>2, <1>4, NoTurnKept, Requestable DEF Asks
<1> QED BY <1>3, <1>4 DEF Compacted

\* The lines about a goal.
LEMMA GoalLinesKeep ==
  ASSUME AppInv, Cleared \/ Set \/ GoalEnded
  PROVE  Kept
<1>1. PICK kind \in {"cleared", "set", "goalEnded"} : Arrived(kind)
  BY DEF Cleared, Set, GoalEnded
<1>2. lines' \in Seq(Lines) /\ \A x \in Turns : Quiet(x)
  BY <1>1, ReadQuiet
<1>3. X \in Pursuits
  BY <1>1, Heads
<1>4. UNCHANGED <<pc, owner, tid, cut, running, interrupted>> /\ Asks("set", X)
  BY DEF Cleared, Set, GoalEnded, calls, engine, Asks
<1>5. [op |-> "set", of |-> X] \in Requests
  BY <1>3, Requestable
<1> QED BY <1>2, <1>4, <1>5, NoTurnKept

\* thread/read was answered: the turn that waits for it is answered.
LEMMA ReadKeeps ==
  ASSUME AppInv, Read
  PROVE  Kept
<1>1. /\ Types /\ Owned /\ (\A x \in Turns : Led(x)) /\ X \in Turns
      /\ lines' \in Seq(Lines) /\ \A x \in Turns : Quiet(x)
  BY Heads, ReadQuiet DEF AppInv, Read
<1>2. UNCHANGED <<owner, tid, cut, requests, running, interrupted>>
  BY DEF Read, engine
<1>3. PICK t \in Turns : t = X
  BY <1>1
<1>4. CASE pc[t] = "reading"
  <2>1. pc'[t] = "answered" /\ \A x \in Turns \ {t} : pc'[x] = pc[x]
    BY <1>1, <1>3, <1>4 DEF Read, Types
  <2>2. Led(t)'
    <3>1. Led(t) /\ Quiet(t) BY <1>1
    <3> QED BY <1>2, <1>4, <2>1, <3>1 DEF Led, Quiet, OneOf, Before
  <2>3. Owned'
    BY <1>1, <1>2, <1>4, <2>1 DEF Owned, Types
  <2> QED BY <1>1, <1>2, <2>1, <2>2, <2>3, OneTurnKept, Requestable DEF Asks
<1>5. CASE pc[t] # "reading"
  <2>1. pc' = pc BY <1>3, <1>5 DEF Read
  <2> QED BY <1>1, <1>2, <2>1, NoTurnKept, Requestable DEF Asks
<1> QED BY <1>4, <1>5

\* The compaction fails: the turn that waits goes on elsewhere.
LEMMA CompactionFailsKeeps ==
  ASSUME AppInv, CompactionFails
  PROVE  Kept
<1>1. Types /\ Mail /\ Owned /\ (\A x \in Turns : Led(x))
  BY DEF AppInv
<1>2. UNCHANGED <<owner, tid, cut, requests, lines, running, interrupted>>
  BY DEF CompactionFails, engine
<1>3. /\ pc' = [t \in Turns |-> IF pc[t] = "compacting" THEN "elsewhere" ELSE pc[t]]
  BY DEF CompactionFails
<1>4. ASSUME NEW t \in Turns PROVE Led(t)'
  <2>1. Led(t) /\ Quiet(t) BY <1>1, <1>2, SameQuiet
  <2>2. CASE pc[t] = "compacting"
    <3>1. pc'[t] = "elsewhere" BY <1>3, <2>2
    <3> QED BY <1>2, <2>1, <2>2, <3>1 DEF Led, OneOf, Before
  <2>3. CASE pc[t] # "compacting"
    <3>1. pc'[t] = pc[t] BY <1>3, <2>3
    <3> QED BY <1>2, <2>1, <3>1, StillLed
  <2> QED BY <2>2, <2>3
<1>5. Owned'
  BY <1>1, <1>2, <1>3 DEF Owned, Types
<1> QED BY <1>1, <1>2, <1>4, <1>5 DEF Kept, Mail

-----------------------------------------------------------------------------
(* The child: it reads a request, and says what becomes of it. *)

\* A sequence of one at the end is one more element.
LEMMA Concat ==
  ASSUME NEW S, NEW s \in Seq(S), NEW x \in S
  PROVE  s \o <<x>> = Append(s, x)
OBVIOUS

\* What the request that was read leaves of what is asked about a turn.
Fewer(t) ==
  /\ Once(requests', [op |-> "start", of |-> t]) /\ Once(requests', [op |-> "resume", of |-> t])
  /\ Asked(requests', t) => Asked(requests, t)
  /\ Resumes(requests', t) => Resumes(requests, t)
  /\ Cuts(requests, t) => Cuts(requests', t) \/ Head(requests) = [op |-> "interrupt", of |-> t]
  /\ Head(requests) = [op |-> "start", of |-> t] => Asked(requests, t) /\ ~Asked(requests', t)
  /\ Head(requests) = [op |-> "resume", of |-> t] => Resumes(requests, t) /\ ~Resumes(requests', t)

\* The child reads a request: less is asked than before.
LEMMA ServesFewer ==
  ASSUME AppInv, requests # <<>>, requests' = Tail(requests)
  PROVE  /\ requests' \in Seq(Requests) /\ Head(requests) \in Requests
         /\ \A t \in Turns : Fewer(t)
<1>1. Mail
  BY DEF AppInv
<1>2. ASSUME NEW t \in Turns PROVE Fewer(t)
  <2>1. Once(requests, [op |-> "start", of |-> t]) /\ Once(requests, [op |-> "resume", of |-> t])
    BY DEF AppInv, Led, OneOf
  <2> QED BY <1>1, <2>1, ReadsRequest DEF Fewer
<1> QED BY <1>1, <1>2, ReadsRequest

\* A line that names no turn but one that runs leaves the turns alone.
LEMMA SaidSteady ==
  ASSUME NEW t \in Turns, Led(t), NEW kind, NEW x, Said(lines, lines', kind, x),
         kind = "resumed" => x # t \/ (Fewer(t) /\ Head(requests) = [op |-> "resume", of |-> t]),
         kind \in {"startAnswer", "started", "completed"} => x # t \/ t \in running,
         kind = "refused" => x # t,
         requests' = requests \/ (Fewer(t) /\ Head(requests) # [op |-> "interrupt", of |-> t]),
         UNCHANGED <<pc, tid, cut>>,
         t \in running' => t \in running /\ (t \in interrupted => t \in interrupted')
  PROVE  Led(t)'
<1>1. OneOf(requests', lines', t)
  BY DEF OneOf, Said, Fewer, Led
<1>2. Steady(t)
  BY <1>1 DEF Steady, Said, Fewer, Led
<1> QED BY <1>2, SteadyLed

\* What the lines about the start of turn x say of the other turns, and do not say of x.
Told(l, l2, x) ==
  /\ Answers(l, x) => Answers(l2, x)
  /\ Refuses(l2, x) => Refuses(l, x)
  /\ \A t : /\ Knows(l2, t) => Knows(l, t)
            /\ Once(l, [kind |-> "resumed", of |-> t]) => Once(l2, [kind |-> "resumed", of |-> t])
            /\ t # x => /\ Answers(l, t) => Answers(l2, t)
                        /\ Refuses(l2, t) => Refuses(l, t)
                        /\ Names(l2, t) => Names(l, t)

\* Each line about the start of a turn tells no more than that.
LEMMA SaidTold ==
  ASSUME NEW l, NEW l2, NEW x, NEW kind \in {"startAnswer", "started", "completed"}, Said(l, l2, kind, x)
  PROVE  l2 \in Seq(Lines) /\ Told(l, l2, x) /\ (kind = "startAnswer" => Answers(l2, x))
BY DEF Said, Told

\* Nor do several, and an answer said stays said.
LEMMA ToldOn ==
  ASSUME NEW l, NEW l2, NEW l3, NEW x, Told(l, l2, x), Told(l2, l3, x)
  PROVE  Told(l, l3, x) /\ (Answers(l2, x) => Answers(l3, x))
BY DEF Told

\* The answer to turn/start, before or after the notice that the turn started.
LEMMA Starts ==
  ASSUME NEW l \in Seq(Lines), NEW x \in Turns, NEW l2,
         LET answer == <<[kind |-> "startAnswer", of |-> x]>>
             notice == <<[kind |-> "started", of |-> x]>>
             end == <<[kind |-> "completed", of |-> x]>>
         IN l2 \in {l \o answer \o notice, l \o notice \o answer, l \o notice \o end \o answer}
  PROVE  l2 \in Seq(Lines) /\ Answers(l2, x) /\ Told(l, l2, x)
<1> DEFINE a == [kind |-> "startAnswer", of |-> x]
           n == [kind |-> "started", of |-> x]
           e == [kind |-> "completed", of |-> x]
           la == Append(l, a)
           ln == Append(l, n)
           le == Append(ln, e)
<1>1. a \in Lines /\ n \in Lines /\ e \in Lines
  BY DEF Lines, Line, EngineTurns
<1>2. la \in Seq(Lines) /\ ln \in Seq(Lines) /\ le \in Seq(Lines)
  BY <1>1
<1>3. ASSUME NEW s \in Seq(Lines)
      PROVE  /\ Said(s, Append(s, a), "startAnswer", x)
             /\ Said(s, Append(s, n), "started", x)
             /\ Said(s, Append(s, e), "completed", x)
  <2>1. Said(s, Append(s, a), "startAnswer", x) BY <1>1, Says
  <2>2. Said(s, Append(s, n), "started", x) BY <1>1, Says
  <2>3. Said(s, Append(s, e), "completed", x) BY <1>1, Says
  <2> QED BY <2>1, <2>2, <2>3
<1>4. /\ l \o <<a>> \o <<n>> = Append(la, n)
      /\ l \o <<n>> \o <<a>> = Append(ln, a)
      /\ l \o <<n>> \o <<e>> \o <<a>> = Append(le, a)
  BY <1>1, <1>2, Concat
<1>5. l2 \in {Append(la, n), Append(ln, a), Append(le, a)}
  BY <1>4
<1> HIDE DEF a, n, e
<1>6. /\ Said(l, la, "startAnswer", x) /\ Said(la, Append(la, n), "started", x)
      /\ Said(l, ln, "started", x) /\ Said(ln, Append(ln, a), "startAnswer", x)
      /\ Said(ln, le, "completed", x) /\ Said(le, Append(le, a), "startAnswer", x)
  BY <1>2, <1>3
<1> HIDE DEF la, ln, le
<1>7. Append(la, n) \in Seq(Lines) /\ Append(ln, a) \in Seq(Lines) /\ Append(le, a) \in Seq(Lines)
  BY <1>6, SaidTold
<1>8. /\ Told(l, la, x) /\ Answers(la, x) /\ Told(la, Append(la, n), x)
      /\ Told(l, ln, x) /\ Told(ln, Append(ln, a), x) /\ Answers(Append(ln, a), x)
      /\ Told(ln, le, x) /\ Told(le, Append(le, a), x) /\ Answers(Append(le, a), x)
  BY <1>6, SaidTold
<1>9. /\ Told(l, Append(la, n), x) /\ Answers(Append(la, n), x)
      /\ Told(l, Append(ln, a), x)
      /\ Told(l, Append(le, a), x)
  BY <1>8, ToldOn
<1> QED BY <1>5, <1>7, <1>8, <1>9

\* The child reads a request and says its lines: those about a turn come from its only start.
LEMMA ServeKeeps ==
  ASSUME AppInv, Serve
  PROVE  Kept
<1> DEFINE op == Head(requests).op
           x == Head(requests).of
<1>1. /\ Mail /\ (\A t \in Turns : Led(t)) /\ lines \in Seq(Lines)
      /\ UNCHANGED <<pc, owner, tid, cut>> /\ Owned'
  BY DEF AppInv, Serve, calls, Owned, Mail
<1>2. requests' \in Seq(Requests) /\ Head(requests) \in Requests /\ \A t \in Turns : Fewer(t)
  BY ServesFewer DEF Serve
<1>3. PICK o, y : Head(requests) = [op |-> o, of |-> y] /\ op = o /\ x = y
  <2>1. Head(requests) = [op |-> op, of |-> x]
    BY <1>2 DEF Requests, Request
  <2> HIDE DEF op, x
  <2> QED BY <2>1
<1>4. /\ y \in EngineTurns
      /\ o \in {"start", "read"} => y \in Turns
      /\ o \in {"clear", "set"} => y \in Pursuits
      /\ o = "resume" => y \in Turns \cup Pursuits
      /\ o = "compact" => y = Compaction
  BY <1>2, <1>3 DEF Requests, Request
<1>5. /\ Compaction \notin Turns /\ y # None
      /\ \A p \in Pursuits : p \notin Turns
  BY <1>4, AppServerAssumption DEF EngineTurns
<1> HIDE DEF op, x
<1>6. ASSUME NEW kind, lines' = Append(lines, [kind |-> kind, of |-> y]),
             [kind |-> kind, of |-> y] \in Lines
      PROVE  lines' \in Seq(Lines) /\ Said(lines, lines', kind, y)
  BY <1>1, <1>6, Says DEF Said
<1>7. CASE /\ o \in {"resume", "clear", "set", "read"} /\ UNCHANGED <<running, interrupted>>
           /\ \E kind \in {"resumed", "cleared", "set", "read"} :
                /\ kind = "resumed" <=> o = "resume"
                /\ kind = "read" <=> o = "read"
                /\ lines' = Append(lines, [kind |-> kind, of |-> y])
  <2>1. PICK kind \in {"resumed", "cleared", "set", "read"} :
                /\ kind = "resumed" <=> o = "resume"
                /\ kind = "read" <=> o = "read"
                /\ lines' = Append(lines, [kind |-> kind, of |-> y])
    BY <1>7
  <2>2. [kind |-> kind, of |-> y] \in Lines
    BY <1>4, <1>7, <2>1 DEF Lines, Line
  <2>3. lines' \in Seq(Lines) /\ Said(lines, lines', kind, y)
    BY <1>6, <2>1, <2>2
  <2>4. ASSUME NEW t \in Turns PROVE Led(t)'
    <3>1. Head(requests) # [op |-> "interrupt", of |-> t] /\ Fewer(t) /\ Led(t)
      BY <1>1, <1>2, <1>3, <1>7
    <3>2. kind = "resumed" => y # t \/ Head(requests) = [op |-> "resume", of |-> t]
      BY <1>3, <2>1
    <3> QED BY <1>1, <1>7, <2>1, <2>3, <3>1, <3>2, SaidSteady
  <2> QED BY <1>1, <1>2, <2>3, <2>4 DEF Kept
<1>8. CASE /\ o = "compact" /\ lines' = Append(lines, [kind |-> "started", of |-> y])
           /\ running' = running \cup {y} /\ UNCHANGED interrupted
  <2>1. [kind |-> "started", of |-> y] \in Lines
    BY <1>4 DEF Lines, Line
  <2>2. lines' \in Seq(Lines) /\ Said(lines, lines', "started", y)
    BY <1>6, <1>8, <2>1
  <2>3. ASSUME NEW t \in Turns PROVE Led(t)'
    <3>1. Head(requests) # [op |-> "interrupt", of |-> t] /\ Fewer(t) /\ Led(t) /\ y # t
      BY <1>1, <1>2, <1>3, <1>4, <1>5, <1>8
    <3> QED BY <1>1, <1>8, <2>2, <3>1, SaidSteady
  <2> QED BY <1>1, <1>2, <2>2, <2>3 DEF Kept
<1>9. CASE /\ o = "start" /\ running' \in {running, running \cup {y}} /\ UNCHANGED interrupted
           /\ LET answer == <<[kind |-> "startAnswer", of |-> y]>>
                  notice == <<[kind |-> "started", of |-> y]>>
                  end == <<[kind |-> "completed", of |-> y]>>
              IN lines' \in {lines \o answer \o notice, lines \o notice \o answer,
                             lines \o notice \o end \o answer}
  <2>1. y \in Turns BY <1>4, <1>9
  <2>2. lines' \in Seq(Lines) /\ Answers(lines', y) /\ Told(lines, lines', y)
    BY <1>1, <1>9, <2>1, Starts
  <2>3. Led(y)'
    <3>1. Led(y) /\ Fewer(y) /\ Asked(requests, y) /\ ~Asked(requests', y)
      BY <1>1, <1>2, <1>3, <1>9, <2>1 DEF Fewer
    <3>2. OneOf(requests', lines', y)
      BY <2>2, <3>1 DEF Led, OneOf, Fewer, Told
    <3>3. ~Refuses(lines', y) /\ pc[y] \notin Before
      BY <2>2, <3>1 DEF Told, Led, Names
    <3> QED BY <1>1, <1>9, <2>1, <2>2, <3>1, <3>2, <3>3 DEF Led, Fewer, Told, Before
  <2>4. ASSUME NEW t \in Turns \ {y} PROVE Led(t)'
    <3>1. Led(t) /\ Fewer(t) /\ Head(requests) # [op |-> "interrupt", of |-> t]
      BY <1>1, <1>2, <1>3, <1>9
    <3>2. OneOf(requests', lines', t)
      BY <2>2, <3>1 DEF Led, OneOf, Fewer, Told
    <3>3. Steady(t)
      BY <1>1, <1>9, <2>2, <3>1, <3>2 DEF Steady, Fewer, Told
    <3> QED BY <3>1, <3>3, SteadyLed
  <2> QED BY <1>1, <1>2, <2>2, <2>3, <2>4 DEF Kept
<1>10. CASE /\ o = "start" /\ lines' = Append(lines, [kind |-> "refused", of |-> y])
            /\ UNCHANGED <<running, interrupted>>
  <2>1. y \in Turns /\ [kind |-> "refused", of |-> y] \in Lines
    BY <1>4, <1>10 DEF Lines, Line
  <2>2. lines' \in Seq(Lines) /\ Said(lines, lines', "refused", y)
    BY <1>6, <1>10, <2>1
  <2>3. Led(y)'
    <3>1. Led(y) /\ Fewer(y) /\ Asked(requests, y) /\ ~Asked(requests', y)
      BY <1>1, <1>2, <1>3, <1>10, <2>1 DEF Fewer
    <3>2. OneOf(requests', lines', y)
      BY <2>2, <3>1 DEF Led, OneOf, Fewer, Said
    <3>3. y \notin running /\ pc[y] \notin Before
      BY <3>1 DEF Led
    <3> QED BY <1>1, <1>10, <2>1, <2>2, <3>1, <3>2, <3>3 DEF Led, Fewer, Said, Before
  <2>4. ASSUME NEW t \in Turns \ {y} PROVE Led(t)'
    <3>1. Led(t) /\ Fewer(t) /\ Head(requests) # [op |-> "interrupt", of |-> t]
      BY <1>1, <1>2, <1>3, <1>10
    <3> QED BY <1>1, <1>10, <2>2, <3>1, SaidSteady
  <2> QED BY <1>1, <1>2, <2>2, <2>3, <2>4 DEF Kept
<1>11. CASE /\ o = "interrupt" /\ interrupted' = interrupted \cup ({y} \cap running)
            /\ UNCHANGED <<running, lines>>
  <2>1. ASSUME NEW t \in Turns PROVE Led(t)'
    <3>1. Led(t) /\ Fewer(t) /\ Quiet(t)
      BY <1>1, <1>2, <1>11, SameQuiet
    <3>2. Cuts(requests, t) => Cuts(requests', t) \/ t \in interrupted' \/ t \notin running'
      <4>1. Head(requests) = [op |-> "interrupt", of |-> t] => y = t
        BY <1>3
      <4> QED BY <1>11, <3>1, <4>1 DEF Fewer
    <3>3. OneOf(requests', lines', t)
      BY <1>11, <3>1 DEF Led, OneOf, Fewer
    <3>4. Steady(t)
      BY <1>1, <1>11, <3>1, <3>2, <3>3 DEF Steady, Fewer, Quiet
    <3> QED BY <3>1, <3>4, SteadyLed
  <2> QED BY <1>1, <1>2, <1>11, <2>1 DEF Kept, Mail
<1> QED
  <2>1. /\ x = y /\ op = o
    BY <1>3
  <2> QED BY <2>1, <1>7, <1>8, <1>9, <1>10, <1>11 DEF Serve, Say, engine, op, x

\* A turn that ends was running, so the line that says so may name it.
LEMMA FinishKeeps ==
  ASSUME AppInv, NEW k \in EngineTurns, Finish(k)
  PROVE  Kept
<1>1. /\ (\A t \in Turns : Led(t)) /\ lines \in Seq(Lines) /\ requests' \in Seq(Requests)
      /\ UNCHANGED <<pc, owner, tid, cut, requests>> /\ Owned'
      /\ k \in running /\ running' = running \ {k} /\ interrupted' = interrupted \ {k}
  BY DEF AppInv, Finish, calls, Owned, Mail
<1>2. CASE k = Compaction
  <2> DEFINE l2 == Append(lines, [kind |-> "compacted", of |-> k])
  <2>1. [kind |-> "compacted", of |-> k] \in Lines /\ [kind |-> "completed", of |-> k] \in Lines
    BY DEF Lines, Line
  <2>2. Said(lines, l2, "compacted", k) /\ l2 \in Seq(Lines)
    BY <1>1, <2>1, Says
  <2>3. lines' = Append(l2, [kind |-> "completed", of |-> k])
    BY <1>1, <1>2, <2>1 DEF Finish
  <2>4. Said(l2, lines', "completed", k)
    BY <2>1, <2>2, <2>3, Says
  <2> HIDE DEF l2
  <2>5. ASSUME NEW t \in Turns PROVE Led(t)'
    <3>1. k # t /\ Led(t) BY <1>1, <1>2, AppServerAssumption
    <3>2. Quiet(t)
      BY <2>2, <2>4, <3>1 DEF Quiet, Said, Led, OneOf
    <3>3. Steady(t)
      BY <1>1, <3>1, <3>2 DEF Steady, Quiet, Led, OneOf
    <3> QED BY <3>1, <3>3, SteadyLed
  <2> QED BY <1>1, <2>4, <2>5 DEF Kept, Said
<1>3. CASE k # Compaction
  <2>1. [kind |-> "completed", of |-> k] \in Lines
    BY DEF Lines, Line
  <2>2. lines' = Append(lines, [kind |-> "completed", of |-> k])
    BY <1>3 DEF Finish, Say
  <2>3. Said(lines, lines', "completed", k)
    BY <1>1, <2>1, <2>2, Says
  <2>4. ASSUME NEW t \in Turns PROVE Led(t)'
    <3>1. Led(t) BY <1>1
    <3> QED BY <1>1, <2>3, <3>1, SaidSteady
  <2> QED BY <1>1, <2>3, <2>4 DEF Kept, Said
<1> QED BY <1>2, <1>3

\* The goal: its turns are none of the bridge's.
LEMMA GoalKeeps ==
  ASSUME AppInv, GoalTurn \/ GoalEnds
  PROVE  Kept
<1>1. /\ Types /\ (\A t \in Turns : Led(t)) /\ lines \in Seq(Lines) /\ requests' \in Seq(Requests)
      /\ UNCHANGED <<pc, owner, tid, cut, requests, interrupted>> /\ Owned'
  BY DEF AppInv, GoalTurn, GoalEnds, calls, Owned, Mail
<1>2. PICK g \in Pursuits : goal.of = g
  BY <1>1 DEF GoalTurn, GoalEnds, Types, Goals
<1>3. PICK kind \in {"started", "goalEnded"} :
        lines' = lines \/ lines' = Append(lines, [kind |-> kind, of |-> g])
  BY <1>2 DEF GoalTurn, GoalEnds, Say
<1>4. [kind |-> kind, of |-> g] \in Lines
  BY DEF Lines, Line, EngineTurns
<1>5. lines' = lines \/ Said(lines, lines', kind, g)
  BY <1>1, <1>3, <1>4, Says
<1>6. running' = running \/ running' = running \cup {g}
  BY <1>2 DEF GoalTurn, GoalEnds
<1>7. ASSUME NEW t \in Turns PROVE Led(t)'
  <2>1. Led(t) /\ g # t /\ (t \in running' => t \in running)
    BY <1>1, <1>6, AppServerAssumption
  <2>2. CASE lines' = lines
    <3>1. Quiet(t) BY <2>1, <2>2, SameQuiet
    <3>2. Steady(t)
      BY <1>1, <2>1, <3>1 DEF Steady, Quiet, Led, OneOf
    <3> QED BY <2>1, <3>2, SteadyLed
  <2>3. CASE Said(lines, lines', kind, g)
    BY <1>1, <2>1, <2>3, SaidSteady
  <2> QED BY <1>5, <2>2, <2>3
<1> QED BY <1>1, <1>5, <1>7 DEF Kept, Said

\* Nothing is under way any more.
LEMMA NothingHad ==
  ASSUME NEW x
  PROVE  ~Has(<<>>, x) /\ Once(<<>>, x)
BY DEF Has, Once

\* The child dies: nothing is asked, said or run any more, and the turns in flight fail.
LEMMA ChildDiesKeeps ==
  ASSUME AppInv, ChildDies
  PROVE  Kept
<1>1. /\ Types /\ (\A t \in Turns : Led(t))
      /\ requests' = <<>> /\ lines' = <<>> /\ running' = {} /\ cut' = {} /\ tid' = tid /\ owner' = None
      /\ pc' = [t \in Turns |-> IF InFlight(t) THEN "failed" ELSE pc[t]]
  BY DEF AppInv, ChildDies
<1>2. ASSUME NEW t \in Turns PROVE Led(t)'
  <2>1. Led(t) /\ pc'[t] = IF InFlight(t) THEN "failed" ELSE pc[t]
    BY <1>1
  <2>2. /\ OneOf(<<>>, <<>>, t) /\ ~Asked(<<>>, t) /\ ~Resumes(<<>>, t) /\ ~Knows(<<>>, t)
        /\ ~Names(<<>>, t) /\ ~Refuses(<<>>, t)
    BY NothingHad DEF OneOf, Asked, Resumes, Knows, Names, Answers, Refuses
  <2>3. pc'[t] \in Before => pc'[t] = pc[t]
    BY <2>1 DEF Before
  <2>4. pc'[t] \in {"reading", "answered"} => pc'[t] = pc[t]
    BY <2>1
  <2> QED BY <1>1, <2>1, <2>2, <2>3, <2>4 DEF Led
<1>3. Owned'
  BY <1>1 DEF Owned
<1> QED BY <1>1, <1>2, <1>3 DEF Kept

-----------------------------------------------------------------------------
(* The theorems. *)

\* Initially no turn is under way.
LEMMA AppInit ==
  ASSUME Init
  PROVE  AppInv
<1>1. Types
  BY DEF Init, Types
<1>2. Mail
  <2>1. <<>> \in Seq(Line) /\ <<>> \in Seq(Lines) /\ <<>> \in Seq(Requests)
    OBVIOUS
  <2> QED BY <2>1 DEF Init, Mail
<1>3. Owned
  BY DEF Init, Owned
<1>4. ASSUME NEW t \in Turns PROVE Led(t)
  <2>1. /\ OneOf(<<>>, <<>>, t) /\ ~Asked(<<>>, t) /\ ~Resumes(<<>>, t) /\ ~Knows(<<>>, t)
        /\ ~Names(<<>>, t) /\ ~Refuses(<<>>, t)
    BY NothingHad DEF OneOf, Asked, Resumes, Knows, Names, Answers, Refuses
  <2>2. /\ requests = <<>> /\ lines = <<>> /\ pc[t] = "idle" /\ tid[t] = None
        /\ running = {} /\ cut = {}
    BY DEF Init
  <2> QED BY <2>1, <2>2 DEF Led, Before
<1> QED BY <1>1, <1>2, <1>3, <1>4 DEF AppInv

\* Every step keeps the invariant.
LEMMA AppStep ==
  ASSUME AppInv, Next
  PROVE  AppInv'
<1>1. Kept
  <2>1. CASE Receive
    BY <2>1, HoldKeeps, DroppedKeeps, RefusedKeeps, ResumedKeeps, StartAnsweredKeeps, StartedKeeps,
       CompletedKeeps, CompactedKeeps, GoalLinesKeep, ReadKeeps DEF Receive
  <2> QED BY <2>1, SendKeeps, AbortKeeps, DroppedKeeps, WatchKeeps, CompactionFailsKeeps, ServeKeeps,
             FinishKeeps, GoalKeeps, ChildDiesKeeps DEF Next
<1> QED BY <1>1, TypesKept DEF AppInv, Kept, Mail

\* So does a stuttering step.
LEMMA AppStutters ==
  ASSUME AppInv, UNCHANGED vars
  PROVE  AppInv'
<1>1. UNCHANGED <<pc, owner, tid, cut, held, from, aborted, requests, lines, running, interrupted>>
  BY DEF vars, calls, engine
<1>2. Types'
  BY DEF AppInv, Types, vars, calls, thread, watch, engine
<1>3. Mail' /\ Owned'
  BY <1>1 DEF AppInv, Mail, Owned
<1>4. ASSUME NEW t \in Turns PROVE Led(t)'
  <2>1. Led(t) /\ Quiet(t) BY <1>1, SameQuiet DEF AppInv
  <2> QED BY <1>1, <2>1, StillLed
<1> QED BY <1>2, <1>3, <1>4 DEF AppInv

\* The invariant the others rest on: what is under way about each turn of the thread.
THEOREM AppSound == Spec => []AppInv
<1>1. Init => AppInv
  BY AppInit
<1>2. AppInv /\ [Next]_vars => AppInv'
  BY AppStep, AppStutters
<1> QED BY <1>1, <1>2, PTL DEF Spec

\* The types the code relies on (app-server-adapter.ts: PendingTurn, pendingTurns,
\* goalWatchers and the lines of the child).
THEOREM AppTypes == Spec => []TypeOK
<1>1. AppInv => TypeOK
  <2> SUFFICES ASSUME AppInv PROVE TypeOK
    OBVIOUS
  <2>1. Types /\ Mail BY DEF AppInv
  <2>2. requests \in Seq(Request) /\ lines \in Seq(Line)
    <3>1. Requests \subseteq Request /\ Lines \subseteq Line BY DEF Requests, Lines
    <3> QED BY <2>1, <3>1 DEF Mail
  <2>3. \A t \in Turns : held[t] \in Seq(Line)
    BY <2>1 DEF Mail
  <2> QED BY <2>1, <2>2, <2>3 DEF Types, TypeOK
<1> QED BY <1>1, AppSound, PTL

\* A turn aborted or refused does not keep the writer of the thread: its engine turn is
\* interrupted, or will be (abortTurn, and the answer to turn/start for a turn with
\* abortedBeforeTurnId).  The turns failPendingTurn drops are not among them.
THEOREM NoWriterLeaks == Spec => []NoLeakedWriter
<1>1. ASSUME NEW S, NEW s \in Seq(S), NEW x, Has(s, x) PROVE x \in Range(s)
  <2>1. PICK i \in 1..Len(s) : s[i] = x BY <1>1 DEF Has
  <2>2. i \in DOMAIN s BY <2>1
  <2> QED BY <2>1, <2>2 DEF Range
<1>2. AppInv => NoLeakedWriter
  <2> SUFFICES ASSUME AppInv, NEW t \in Turns, pc[t] = "failed", t \in running, tid[t] \in {None, t}
               PROVE  \/ t \in interrupted
                      \/ [op |-> "interrupt", of |-> t] \in Range(requests)
                      \/ t \in cut /\ [kind |-> "startAnswer", of |-> t] \in Range(lines)
    BY DEF NoLeakedWriter
  <2>1. t \in interrupted \/ Cuts(requests, t) \/ (t \in cut /\ Answers(lines, t))
    BY DEF AppInv, Led
  <2>2. requests \in Seq(Requests) /\ lines \in Seq(Lines)
    BY DEF AppInv, Mail
  <2> QED BY <1>1, <2>1, <2>2 DEF Cuts, Answers
<1> QED BY <1>2, AppSound, PTL
=============================================================================
