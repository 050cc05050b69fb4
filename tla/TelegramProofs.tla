--------------------------- MODULE TelegramProofs ---------------------------
(***************************************************************************)
(* The Telegram bridge: its queue of turns, and the intake of updates.     *)
(*                                                                         *)
(* ChatQueue.  The tasks of a conversation run one at a time, and exactly  *)
(* the stopped ones are skipped, for any tasks, conversations and calls    *)
(* between them.  The argument is about the chain of a conversation.  A    *)
(* task that started is at its head, everything before it having settled;  *)
(* a chain has one head, and its last task is unsettled as long as any is. *)
(* So a task that joins a chain whose last task has settled, or joins      *)
(* none, is alone.                                                         *)
(*                                                                         *)
(* UpdateIntake.  No update is lost and none begins twice, for any updates *)
(* without an album, batches side by side, crashes and failing writes.     *)
(* The argument is that what comes before an update of a batch is taken    *)
(* care of or in the batch, and that writes of the watermark raise it one  *)
(* by one, in the order in which they were asked for.                      *)
(***************************************************************************)
EXTENDS ChatQueue, UpdateIntake, WellFoundedInduction, TLAPS

Active(t) == at[t] \in {"running", "calling", "skipping"}
Live(t) == at[t] = "pending" \/ Active(t)
AtHead(t) == previous[t] = None \/ Settled(previous[t])

\* The part of the types the argument needs.
Types ==
  /\ at \in [Tasks -> States]
  /\ of \in [Tasks -> Conversations \cup {None}]
  /\ previous \in [Tasks -> Tasks \cup {None}]
  /\ caller \in [Tasks -> Turns \cup {None}]
  /\ queues \in [Conversations -> Tasks \cup {None}]

\* A task joins once; a task and the one before it share a conversation, and
\* no task has two behind it.
Chained ==
  /\ \A t \in Tasks : at[t] # "new" => of[t] \in Conversations
  /\ \A t \in Tasks : previous[t] # None =>
       at[t] # "new" /\ at[previous[t]] # "new" /\ of[previous[t]] = of[t]
  /\ \A t, u \in Tasks : previous[t] = previous[u] /\ previous[t] # None => t = u

\* The chain ends nowhere else: every set of tasks has one whose predecessor
\* is outside.
Founded == \A S \in SUBSET Tasks : S # {} => \E t \in S : previous[t] \notin S

\* queues[c] is the end of the chain of c, and waits or runs while any task of
\* c does.
Ends ==
  \A c \in Conversations :
    /\ queues[c] # None =>
         /\ of[queues[c]] = c /\ at[queues[c]] # "new"
         /\ \A t \in Tasks : previous[t] # queues[c]
    /\ \A t \in Tasks : Live(t) /\ of[t] = c => queues[c] # None /\ Live(queues[c])

OneHead ==
  /\ \A t, u \in Tasks : Live(t) /\ Live(u) /\ of[t] = of[u] /\ AtHead(t) /\ AtHead(u) => t = u
  /\ \A t \in Tasks : Active(t) => AtHead(t)

\* Who is waited for has a caller that waits.
Callers ==
  \A t \in Tasks : Live(t) /\ caller[t] # None => at[caller[t]] = "calling"

ChainInv == Types /\ Chained /\ Founded /\ Ends /\ OneHead /\ Callers

-----------------------------------------------------------------------------
\* Initially no task is in a chain.
LEMMA InitChain == Init => ChainInv
<1> SUFFICES ASSUME Init PROVE ChainInv
  OBVIOUS
<1>1. /\ \A t \in Tasks : at[t] = "new" /\ previous[t] = None /\ ~Live(t)
      /\ \A c \in Conversations : queues[c] = None
  BY DEF Init, Live, Active
<1>2. Types
  BY DEF Init, Types, States
<1>3. Founded
  BY <1>1, QueueAssumption DEF Founded, Tasks
<1> QED
  BY <1>1, <1>2, <1>3 DEF ChainInv, Chained, Ends, OneHead, Callers, Active, Live

-----------------------------------------------------------------------------
\* Only the last unsettled task of a chain may be at once its head and its end:
\* while another task of the conversation is unsettled, the head has one behind it.
LEMMA OthersFollow ==
  ASSUME ChainInv, NEW t \in Tasks, Active(t), NEW u \in Tasks, u # t, Live(u), of[u] = of[t]
  PROVE  queues[of[t]] # t
<1> SUFFICES ASSUME queues[of[t]] = t PROVE FALSE
  OBVIOUS
<1> DEFINE S == {v \in Tasks : Live(v) /\ of[v] = of[t] /\ v # t}
<1>1. of[t] \in Conversations /\ t # None
  BY QueueAssumption DEF ChainInv, Chained, Active, Tasks
<1>2. PICK v \in S : previous[v] \notin S
  <2>1. S \in SUBSET Tasks /\ u \in S
    OBVIOUS
  <2> HIDE DEF S
  <2> QED
    BY <2>1 DEF ChainInv, Founded
<1>3. ~AtHead(v)
  BY <1>2 DEF ChainInv, OneHead, Live
<1>4. /\ previous[v] \in Tasks /\ Live(previous[v]) /\ of[previous[v]] = of[t]
  BY <1>2, <1>3 DEF AtHead, ChainInv, Chained, Types, Live, Active, Settled, States
<1>5. previous[v] = t
  BY <1>2, <1>4
<1> QED
  BY <1>1, <1>2, <1>5 DEF ChainInv, Ends

\* A task joins behind the end of its conversation's chain.
LEMMA JoinChain ==
  ASSUME ChainInv, NEW t \in Tasks, at[t] = "new", NEW c \in Conversations,
         NEW x \in Turns \cup {None}, x # None => at'[x] = "calling",
         at' \in [Tasks -> States], at'[t] = "pending",
         \A u \in Tasks \ {t} : at'[u] = at[u] \/ (at[u] \in {"running", "calling"} /\ at'[u] = "calling"),
         Join(t, c, x)
  PROVE  ChainInv'
<1> USE QueueAssumption
<1>1. /\ of' = [of EXCEPT ![t] = c] /\ previous' = [previous EXCEPT ![t] = queues[c]]
      /\ caller' = [caller EXCEPT ![t] = x] /\ queues' = [queues EXCEPT ![c] = t]
  BY DEF Join
<1>2. Types'
  BY <1>1 DEF ChainInv, Types, Tasks
<1>3. /\ \A u \in Tasks \ {t} : (Live(u)' <=> Live(u)) /\ (Active(u)' <=> Active(u))
      /\ \A u \in Tasks \ {t} : (Settled(u)' <=> Settled(u)) /\ (at'[u] = "new" <=> at[u] = "new")
      /\ ~Live(t) /\ ~Active(t) /\ ~Settled(t)
      /\ Live(t)' /\ ~Active(t)' /\ ~Settled(t)'
  BY DEF Live, Active, Settled
<1>4. /\ \A u \in Tasks \ {t} : of'[u] = of[u] /\ previous'[u] = previous[u] /\ previous[u] # t
      /\ of'[t] = c /\ previous'[t] = queues[c] /\ queues[c] # t /\ t # None
  BY <1>1 DEF ChainInv, Types, Chained, Ends, Tasks
<1>5. Chained'
  <2>1. \A u \in Tasks : at'[u] # "new" => of'[u] \in Conversations
    BY <1>3, <1>4 DEF ChainInv, Chained
  <2>2. \A u \in Tasks : previous'[u] # None =>
          at'[u] # "new" /\ at'[previous'[u]] # "new" /\ of'[previous'[u]] = of'[u]
    BY <1>3, <1>4 DEF ChainInv, Chained, Types, Ends
  <2>3. \A u, v \in Tasks : previous'[u] = previous'[v] /\ previous'[u] # None => u = v
    BY <1>4 DEF ChainInv, Chained, Types, Ends
  <2> QED
    BY <2>1, <2>2, <2>3 DEF Chained
<1>6. Founded'
  <2> SUFFICES ASSUME NEW S \in SUBSET Tasks, S # {}
               PROVE  \E u \in S : previous'[u] \notin S
    BY DEF Founded
  <2>1. CASE S = {t}
    BY <2>1, <1>4
  <2>2. CASE S # {t}
    <3>1. PICK u \in S \ {t} : previous[u] \notin S \ {t}
      <4>1. S \ {t} \in SUBSET Tasks /\ S \ {t} # {}
        BY <2>2
      <4> QED
        BY <4>1 DEF ChainInv, Founded
    <3> QED
      BY <3>1, <1>4
  <2> QED
    BY <2>1, <2>2
<1>7. Ends'
  <2> SUFFICES ASSUME NEW d \in Conversations
               PROVE  /\ queues'[d] # None =>
                           /\ of'[queues'[d]] = d /\ at'[queues'[d]] # "new"
                           /\ \A u \in Tasks : previous'[u] # queues'[d]
                      /\ \A u \in Tasks : Live(u)' /\ of'[u] = d
                           => queues'[d] # None /\ Live(queues[d])'
    BY DEF Ends, Live, Active
  <2>1. CASE d = c
    <3>1. queues'[d] = t
      BY <2>1, <1>1 DEF ChainInv, Types
    <3> QED
      BY <3>1, <2>1, <1>3, <1>4 DEF Live
  <2>2. CASE d # c
    <3>1. queues'[d] = queues[d]
      BY <2>2, <1>1 DEF ChainInv, Types
    <3>2. queues[d] # None => queues[d] \in Tasks \ {t} /\ queues[d] # queues[c]
      BY <2>2 DEF ChainInv, Types, Ends
    <3>3. CASE queues[d] = None
      BY <3>1, <3>3, <2>2, <1>3, <1>4 DEF ChainInv, Ends
    <3>4. CASE queues[d] # None
      <4>1. PICK q \in Tasks \ {t} : q = queues[d]
        BY <3>2, <3>4
      <4>2. Live(q)' <=> Live(queues[d])'
        BY <3>1, <4>1 DEF Live, Active
      <4>3. Live(q)' <=> Live(queues[d])
        BY <1>3, <4>1
      <4> QED
        BY <3>1, <3>2, <4>1, <4>2, <4>3, <2>2, <1>3, <1>4 DEF ChainInv, Ends
    <3> QED
      BY <3>3, <3>4
  <2> QED
    BY <2>1, <2>2
<1>8. OneHead'
  <2>1. \A u \in Tasks \ {t} : AtHead(u)' <=> AtHead(u)
    BY <1>3, <1>4 DEF AtHead, ChainInv, Types
  <2>2. \A u \in Tasks \ {t} : Live(u) /\ of[u] = c => ~AtHead(t)'
    <3> SUFFICES ASSUME NEW u \in Tasks \ {t}, Live(u), of[u] = c PROVE ~AtHead(t)'
      OBVIOUS
    <3>1. PICK q \in Tasks \ {t} : q = queues[c] /\ q # None /\ Live(q)
      BY <1>4 DEF ChainInv, Ends, Types
    <3>2. Live(q)'
      BY <3>1, <1>3
    <3> QED
      BY <3>1, <3>2, <1>4 DEF AtHead, Live, Active, Settled
  <2>3. \A u \in Tasks : Active(u)' => AtHead(u)'
    BY <2>1, <1>3 DEF ChainInv, OneHead
  <2>4. \A u, v \in Tasks : Live(u)' /\ Live(v)' /\ of'[u] = of'[v] /\ AtHead(u)' /\ AtHead(v)' => u = v
    BY <2>1, <2>2, <1>3, <1>4 DEF ChainInv, OneHead
  <2> QED
    BY <2>3, <2>4 DEF OneHead
<1>9. Callers'
  <2> SUFFICES ASSUME NEW u \in Tasks, Live(u)', caller'[u] # None
               PROVE  at'[caller'[u]] = "calling"
    BY DEF Callers
  <2>1. CASE u = t
    BY <2>1, <1>1 DEF ChainInv, Types
  <2>2. CASE u # t
    <3>1. caller'[u] = caller[u] /\ caller[u] \in Tasks /\ Live(u)
      BY <2>2, <1>1, <1>3 DEF ChainInv, Types, Tasks
    <3>2. at[caller[u]] = "calling"
      BY <3>1, <2>2 DEF ChainInv, Callers
    <3> QED
      BY <3>1, <3>2
  <2> QED
    BY <2>1, <2>2
<1> QED
  BY <1>2, <1>5, <1>6, <1>7, <1>8, <1>9 DEF ChainInv

\* Neither the chain nor who is unsettled, who started, who waits changes.
LEMMA SameChain ==
  ASSUME ChainInv, UNCHANGED <<of, previous, caller, queues>>, at' \in [Tasks -> States],
         \A t \in Tasks : /\ at'[t] = "new" <=> at[t] = "new"
                          /\ Live(t)' <=> Live(t)
                          /\ Settled(t)' <=> Settled(t)
                          /\ Active(t)' => AtHead(t)
                          /\ at[t] = "calling" => at'[t] = "calling"
  PROVE  ChainInv'
<1>1. \A t \in Tasks : AtHead(t)' <=> AtHead(t)
  BY DEF ChainInv, Types, AtHead
<1>2. \A c \in Conversations : queues[c] # None => (Live(queues[c])' <=> Live(queues[c]))
  <2> SUFFICES ASSUME NEW q \in Tasks, NEW c \in Conversations, q = queues[c]
               PROVE  Live(queues[c])' <=> Live(queues[c])
    BY DEF ChainInv, Types
  <2>1. Live(q)' <=> Live(queues[c])'
    BY DEF Live, Active
  <2> QED
    BY <2>1
<1>3. Types' /\ Chained' /\ Founded'
  BY DEF ChainInv, Types, Chained, Founded
<1>4. Ends'
  BY <1>2 DEF ChainInv, Types, Ends
<1>5. OneHead'
  BY <1>1 DEF ChainInv, OneHead
<1>6. Callers'
  BY QueueAssumption DEF ChainInv, Types, Callers, Tasks
<1> QED
  BY <1>3, <1>4, <1>5, <1>6 DEF ChainInv

\* A task starts at the head of its chain.
LEMMA StartChain == ASSUME ChainInv, NEW t \in Tasks, Start(t) PROVE ChainInv'
<1>1. /\ at[t] = "pending" /\ AtHead(t)
      /\ at' = [at EXCEPT ![t] = "skipping"] \/ at' = [at EXCEPT ![t] = "running"]
      /\ UNCHANGED <<of, previous, caller, queues>>
  BY DEF Start, AtHead, Goto, chain
<1>2. at' \in [Tasks -> States]
  BY <1>1 DEF ChainInv, Types, States
<1>3. \A u \in Tasks \ {t} : at'[u] = at[u]
  BY <1>1 DEF ChainInv, Types
<1>4. at'[t] \in {"skipping", "running"}
  BY <1>1 DEF ChainInv, Types
<1>5. \A u \in Tasks : /\ at'[u] = "new" <=> at[u] = "new"
                       /\ Live(u)' <=> Live(u)
                       /\ Settled(u)' <=> Settled(u)
                       /\ Active(u)' => AtHead(u)
                       /\ at[u] = "calling" => at'[u] = "calling"
  <2> SUFFICES ASSUME NEW u \in Tasks
               PROVE  /\ at'[u] = "new" <=> at[u] = "new"
                      /\ Live(u)' <=> Live(u)
                      /\ Settled(u)' <=> Settled(u)
                      /\ Active(u)' => AtHead(u)
                      /\ at[u] = "calling" => at'[u] = "calling"
    OBVIOUS
  <2>1. CASE u = t
    BY <2>1, <1>1, <1>4 DEF Live, Active, Settled
  <2>2. CASE u # t
    BY <2>2, <1>3 DEF Live, Active, Settled, ChainInv, OneHead
  <2> QED
    BY <2>1, <2>2
<1> QED
  BY <1>1, <1>2, <1>5, SameChain

\* A task that settles hands the head to the one behind it, and its caller goes on.
LEMMA SettleChain == ASSUME ChainInv, NEW t \in Tasks, Settle(t) PROVE ChainInv'
<1> USE QueueAssumption
<1> DEFINE awake(u) == u = caller[t] /\ LastCallOf(t)
<1>1. /\ at[t] \in {"running", "skipping"}
      /\ \A u \in Tasks : at'[u] = IF u = t THEN "settled" ELSE IF awake(u) THEN "running" ELSE at[u]
      /\ UNCHANGED <<of, previous, caller, queues>>
  BY DEF Settle, chain
<1>2. \A u \in Tasks \ {t} : awake(u) => at[u] = "calling"
  BY <1>1 DEF ChainInv, Types, Callers, Live, Active, Tasks
<1>3. at' \in [Tasks -> States]
  BY DEF Settle, ChainInv, Types, States
<1>4. /\ \A u \in Tasks \ {t} : /\ Live(u)' <=> Live(u)
                                /\ Active(u)' <=> Active(u)
                                /\ Settled(u)' <=> Settled(u)
                                /\ at'[u] = "new" <=> at[u] = "new"
      /\ Live(t) /\ Active(t) /\ ~Settled(t)
      /\ ~Live(t)' /\ ~Active(t)' /\ Settled(t)' /\ at'[t] # "new"
  BY <1>1, <1>2 DEF Live, Active, Settled
<1>5. Types' /\ Chained' /\ Founded'
  BY <1>1, <1>3, <1>4 DEF ChainInv, Types, Chained, Founded
<1>6. AtHead(t) /\ of[t] \in Conversations /\ t # None
  BY <1>1, <1>4 DEF ChainInv, OneHead, Chained, Tasks
<1>7. Ends'
  <2> SUFFICES ASSUME NEW c \in Conversations
               PROVE  /\ queues'[c] # None =>
                           /\ of'[queues'[c]] = c /\ at'[queues'[c]] # "new"
                           /\ \A u \in Tasks : previous'[u] # queues'[c]
                      /\ \A u \in Tasks : Live(u)' /\ of'[u] = c
                           => queues'[c] # None /\ Live(queues[c])'
    BY DEF Ends
  <2>1. queues'[c] # None =>
          /\ of'[queues'[c]] = c /\ at'[queues'[c]] # "new"
          /\ \A u \in Tasks : previous'[u] # queues'[c]
    BY <1>1, <1>4 DEF ChainInv, Types, Ends
  <2>2. ASSUME NEW u \in Tasks, Live(u)', of'[u] = c
        PROVE  queues'[c] # None /\ Live(queues[c])'
    <3>1. u # t /\ Live(u) /\ of[u] = c
      BY <2>2, <1>1, <1>4
    <3>2. PICK q \in Tasks : q = queues[c] /\ q # None /\ Live(q)
      BY <3>1 DEF ChainInv, Types, Ends
    <3>3. q # t
      BY <3>1, <3>2, <1>4, <1>6, OthersFollow DEF ChainInv, Ends
    <3>4. Live(q)'
      BY <3>2, <3>3, <1>4
    <3>5. Live(q)' <=> Live(queues[c])'
      BY <3>2, <1>1 DEF Live, Active
    <3> QED
      BY <3>2, <3>4, <3>5, <1>1
  <2> QED
    BY <2>1, <2>2
<1>8. OneHead'
  <2>1. \A u \in Tasks : AtHead(u)' <=> (AtHead(u) \/ previous[u] = t)
    BY <1>1, <1>4 DEF AtHead, ChainInv, Types
  <2>2. \A u \in Tasks \ {t} : Live(u) /\ of[u] = of[t] => ~AtHead(u)
    BY <1>4, <1>6 DEF ChainInv, OneHead
  <2>3. \A u \in Tasks : previous[u] = t => of[u] = of[t]
    BY <1>6 DEF ChainInv, Chained
  <2>4. \A u, v \in Tasks : Live(u)' /\ Live(v)' /\ of'[u] = of'[v] /\ AtHead(u)' /\ AtHead(v)' => u = v
    <3> SUFFICES ASSUME NEW u \in Tasks, NEW v \in Tasks, Live(u)', Live(v)', of'[u] = of'[v],
                        AtHead(u)', AtHead(v)'
                 PROVE  u = v
      OBVIOUS
    <3>1. Live(u) /\ Live(v) /\ u # t /\ v # t /\ of[u] = of[v]
      BY <1>1, <1>4
    <3>2. CASE previous[u] = t \/ previous[v] = t
      BY <3>1, <3>2, <2>1, <2>2, <2>3, <1>6 DEF ChainInv, Chained
    <3>3. CASE previous[u] # t /\ previous[v] # t
      BY <3>1, <3>3, <2>1 DEF ChainInv, OneHead
    <3> QED
      BY <3>2, <3>3
  <2>5. \A u \in Tasks : Active(u)' => AtHead(u)'
    BY <2>1, <1>4 DEF ChainInv, OneHead
  <2> QED
    BY <2>4, <2>5 DEF OneHead
<1>9. Callers'
  <2> SUFFICES ASSUME NEW u \in Tasks, Live(u)', caller[u] # None
               PROVE  at'[caller[u]] = "calling"
    BY <1>1 DEF Callers
  <2>1. u # t /\ Live(u) /\ caller[u] \in Tasks /\ at[caller[u]] = "calling"
    BY <1>4 DEF ChainInv, Types, Callers, Tasks
  <2>2. ~awake(caller[u]) /\ caller[u] # t
    BY <2>1, <1>1 DEF LastCallOf, Live, Active, Settled
  <2> QED
    BY <2>1, <2>2, <1>1
<1> QED
  BY <1>5, <1>7, <1>8, <1>9 DEF ChainInv

\* The end of a chain is taken down once all its tasks have settled.
LEMMA CleanupChain == ASSUME ChainInv, NEW t \in Tasks, Cleanup(t) PROVE ChainInv'
<1> USE QueueAssumption
<1>1. /\ at[t] = "settled" /\ at' = [at EXCEPT ![t] = "done"]
      /\ queues' = [queues EXCEPT ![of[t]] = IF queues[of[t]] = t THEN None ELSE @]
      /\ UNCHANGED <<of, previous, caller>>
  BY DEF Cleanup, chain, Goto
<1>2. /\ at' \in [Tasks -> States]
      /\ \A u \in Tasks : /\ at'[u] = "new" <=> at[u] = "new"
                          /\ Live(u)' <=> Live(u)
                          /\ Active(u)' <=> Active(u)
                          /\ Settled(u)' <=> Settled(u)
                          /\ at'[u] = "calling" <=> at[u] = "calling"
  BY <1>1 DEF ChainInv, Types, States, Live, Active, Settled
<1>3. \A u \in Tasks : AtHead(u)' <=> AtHead(u)
  BY <1>1, <1>2 DEF ChainInv, Types, AtHead
<1>4. Types' /\ Chained' /\ Founded' /\ OneHead' /\ Callers'
  <2>1. Types' /\ Chained' /\ Founded'
    BY <1>1, <1>2 DEF ChainInv, Types, Chained, Founded
  <2>2. OneHead'
    BY <1>1, <1>2, <1>3 DEF ChainInv, OneHead
  <2>3. Callers'
    BY <1>1, <1>2 DEF ChainInv, Types, Callers, Tasks
  <2> QED
    BY <2>1, <2>2, <2>3
<1>5. Ends'
  <2> SUFFICES ASSUME NEW c \in Conversations
               PROVE  /\ queues'[c] # None =>
                           /\ of'[queues'[c]] = c /\ at'[queues'[c]] # "new"
                           /\ \A u \in Tasks : previous'[u] # queues'[c]
                      /\ \A u \in Tasks : Live(u)' /\ of'[u] = c
                           => queues'[c] # None /\ Live(queues[c])'
    BY DEF Ends
  <2>1. of[t] \in Conversations
    BY <1>1 DEF ChainInv, Chained
  <2>2. CASE c = of[t] /\ queues[c] = t
    <3>1. queues'[c] = None
      BY <2>1, <2>2, <1>1 DEF ChainInv, Types
    <3>2. \A u \in Tasks : of[u] = c => ~Live(u)
      BY <2>2, <1>1 DEF ChainInv, Ends, Live, Active, Tasks
    <3> QED
      BY <3>1, <3>2, <1>1, <1>2
  <2>3. CASE ~(c = of[t] /\ queues[c] = t)
    <3>1. queues'[c] = queues[c]
      BY <2>1, <2>3, <1>1 DEF ChainInv, Types
    <3>2. CASE queues[c] = None
      BY <3>1, <3>2, <1>1, <1>2 DEF ChainInv, Ends
    <3>3. CASE queues[c] # None
      <4>1. PICK q \in Tasks : q = queues[c]
        BY <3>3 DEF ChainInv, Types
      <4>2. Live(q)' <=> Live(queues[c])'
        BY <4>1, <3>1 DEF Live, Active
      <4> QED
        BY <4>1, <4>2, <3>1, <3>3, <1>1, <1>2 DEF ChainInv, Ends
    <3> QED
      BY <3>2, <3>3
  <2> QED
    BY <2>2, <2>3
<1> QED
  BY <1>4, <1>5 DEF ChainInv

\* Every step keeps the chains.
LEMMA NextChain == ASSUME ChainInv, [Next]_vars PROVE ChainInv'
<1> USE QueueAssumption
<1>1. ASSUME NEW t \in Tasks, Start(t) PROVE ChainInv'
  BY <1>1, StartChain
<1>2. ASSUME NEW t \in Tasks, Settle(t) PROVE ChainInv'
  BY <1>2, SettleChain
<1>3. ASSUME NEW t \in Tasks, Cleanup(t) PROVE ChainInv'
  BY <1>3, CleanupChain
<1>4. ASSUME UNCHANGED <<at, of, previous, caller, queues>> PROVE ChainInv'
  <2>1. at' \in [Tasks -> States]
    BY <1>4 DEF ChainInv, Types
  <2>2. \A t \in Tasks : /\ at'[t] = "new" <=> at[t] = "new"
                         /\ Live(t)' <=> Live(t)
                         /\ Settled(t)' <=> Settled(t)
                         /\ Active(t)' => AtHead(t)
                         /\ at[t] = "calling" => at'[t] = "calling"
    BY <1>4 DEF ChainInv, OneHead, Live, Active, Settled
  <2> QED
    BY <1>4, <2>1, <2>2, SameChain
<1>5. ASSUME NEW t \in Tasks, NEW c \in Conversations, Enqueue(t, c) PROVE ChainInv'
  <2>1. /\ at[t] = "new" /\ at' = [at EXCEPT ![t] = "pending"] /\ Join(t, c, None)
    BY <1>5 DEF Enqueue, Goto
  <2>2. /\ at' \in [Tasks -> States] /\ at'[t] = "pending"
        /\ \A u \in Tasks \ {t} : at'[u] = at[u] \/ (at[u] \in {"running", "calling"} /\ at'[u] = "calling")
    BY <2>1 DEF ChainInv, Types, States
  <2> QED
    BY <2>1, <2>2, JoinChain
<1>6. ASSUME NEW c \in Conversations, NEW t \in Turns, NEW n \in Nested, Call(t, n, c) PROVE ChainInv'
  <2>1. /\ at[t] \in {"running", "calling"} /\ at[n] = "new" /\ Join(n, c, t)
        /\ at' = [at EXCEPT ![t] = "calling", ![n] = "pending"]
        /\ t \in Tasks /\ n \in Tasks /\ t # n
    BY <1>6 DEF Call, Tasks
  <2>2. /\ at' \in [Tasks -> States] /\ at'[n] = "pending" /\ at'[t] = "calling"
        /\ \A u \in Tasks \ {n} : at'[u] = at[u] \/ (at[u] \in {"running", "calling"} /\ at'[u] = "calling")
    BY <2>1 DEF ChainInv, Types, States
  <2> QED
    BY <2>1, <2>2, JoinChain
<1>7. ASSUME NEW c \in Conversations, Clear(c) PROVE ChainInv'
  BY <1>7, <1>4 DEF Clear, chain
<1>8. ASSUME NEW t \in Tasks, NEW c \in Conversations, Cancel(t, c) PROVE ChainInv'
  BY <1>8, <1>4 DEF Cancel, chain
<1>9. CASE UNCHANGED vars
  BY <1>9, <1>4 DEF vars
<1> QED
  BY <1>1, <1>2, <1>3, <1>5, <1>6, <1>7, <1>8, <1>9 DEF Next

\* A conversation runs one task at a time.
THEOREM SerialAlways == Spec => []Serial
<1>1. Init => ChainInv
  BY InitChain
<1>2. ChainInv /\ [Next]_vars => ChainInv'
  BY NextChain
<1>3. ChainInv => Serial
  BY DEF ChainInv, OneHead, Serial, Active, Live
<1> QED
  BY <1>1, <1>2, <1>3, PTL DEF Spec

-----------------------------------------------------------------------------
\* What a conversation knows of the tasks that wait: their ids, those of them
\* that were cancelled, and by its generation those that were cleared.
Books ==
  /\ generation \in [Tasks -> Nat] /\ generations \in [Conversations -> Nat]
  /\ pendingTaskIds \in [Conversations -> SUBSET Named]
  /\ cancelledTaskIds \in [Conversations -> SUBSET Named]
  /\ \A c \in Conversations :
       /\ pendingTaskIds[c] = Pending(c) \cap Named
       /\ cancelledTaskIds[c] \subseteq pendingTaskIds[c]

Doomed(t) == t \in cancelledTaskIds[of[t]] \/ generations[of[t]] # generation[t]

WaitingAreBooked ==
  \A t \in Tasks : at[t] = "pending" =>
    generation[t] <= generations[of[t]] /\ (t \in dropped <=> Doomed(t))

NewAreNotDropped == \A t \in Tasks : at[t] = "new" => t \notin dropped

DropInv == Books /\ WaitingAreBooked /\ NewAreNotDropped /\ SkipsExactlyTheDropped

\* Initially nobody has joined.
LEMMA InitDrop == Init => DropInv
BY DEF Init, DropInv, Books, Pending, WaitingAreBooked, NewAreNotDropped, SkipsExactlyTheDropped

\* A task that joins belongs to the present generation and is in no one's way.
LEMMA JoinDrop ==
  ASSUME ChainInv, DropInv, NEW t \in Tasks, at[t] = "new", NEW c \in Conversations, NEW x,
         at' \in [Tasks -> States], at'[t] = "pending",
         \A u \in Tasks \ {t} : at'[u] = at[u] \/ (at[u] \in {"running", "calling"} /\ at'[u] = "calling"),
         Join(t, c, x)
  PROVE  DropInv'
<1>1. /\ of' = [of EXCEPT ![t] = c] /\ generation' = [generation EXCEPT ![t] = generations[c]]
      /\ pendingTaskIds' = [pendingTaskIds EXCEPT ![c] = @ \cup ({t} \cap Named)]
      /\ UNCHANGED <<generations, cancelledTaskIds, dropped>>
  BY DEF Join
<1>2. /\ of'[t] = c /\ generation'[t] = generations[c]
      /\ \A u \in Tasks \ {t} : /\ of'[u] = of[u] /\ generation'[u] = generation[u]
                                /\ at'[u] = "pending" <=> at[u] = "pending"
                                /\ at'[u] = "skipping" <=> at[u] = "skipping"
                                /\ at'[u] = "new" <=> at[u] = "new"
                                /\ at'[u] \in {"running", "calling"} => at[u] \in {"running", "calling"}
  BY <1>1 DEF ChainInv, Types, DropInv, Books
<1>3. t \notin dropped /\ \A d \in Conversations : t \notin cancelledTaskIds[d]
  BY DEF DropInv, NewAreNotDropped, Books, Pending
<1>4. Books'
  <2>1. \A d \in Conversations : Pending(d)' = IF d = c THEN Pending(d) \cup {t} ELSE Pending(d)
    BY <1>2 DEF Pending
  <2>2. /\ generation' \in [Tasks -> Nat] /\ generations' \in [Conversations -> Nat]
        /\ pendingTaskIds' \in [Conversations -> SUBSET Named]
        /\ cancelledTaskIds' \in [Conversations -> SUBSET Named]
    BY <1>1 DEF DropInv, Books
  <2>3. \A d \in Conversations : /\ pendingTaskIds'[d] = Pending(d)' \cap Named
                                 /\ cancelledTaskIds'[d] \subseteq pendingTaskIds'[d]
    BY <2>1, <1>1 DEF DropInv, Books
  <2> QED
    BY <2>2, <2>3 DEF Books
<1>5. WaitingAreBooked'
  <2> SUFFICES ASSUME NEW u \in Tasks, at'[u] = "pending"
               PROVE  generation'[u] <= generations'[of'[u]] /\ (u \in dropped' <=> Doomed(u)')
    BY DEF WaitingAreBooked
  <2>1. CASE u = t
    BY <2>1, <1>1, <1>2, <1>3 DEF DropInv, Books, Doomed
  <2>2. CASE u # t
    BY <2>2, <1>1, <1>2 DEF DropInv, WaitingAreBooked, Doomed
  <2> QED
    BY <2>1, <2>2
<1>6. NewAreNotDropped' /\ SkipsExactlyTheDropped'
  BY <1>1, <1>2 DEF DropInv, NewAreNotDropped, SkipsExactlyTheDropped
<1> QED
  BY <1>4, <1>5, <1>6 DEF DropInv

\* A task that starts is skipped exactly if it was dropped, and leaves the books.
LEMMA StartDrop == ASSUME ChainInv, DropInv, NEW t \in Tasks, Start(t) PROVE DropInv'
<1>1. /\ at[t] = "pending" /\ at' = [at EXCEPT ![t] = IF Doomed(t) THEN "skipping" ELSE "running"]
      /\ pendingTaskIds' = [pendingTaskIds EXCEPT ![of[t]] = @ \ {t}]
      /\ cancelledTaskIds' = [cancelledTaskIds EXCEPT ![of[t]] = @ \ {t}]
      /\ UNCHANGED <<of, generation, generations, dropped>>
  BY DEF Start, Consume, Goto, Doomed, chain
<1>2. /\ at'[t] = IF Doomed(t) THEN "skipping" ELSE "running"
      /\ \A u \in Tasks \ {t} : at'[u] = at[u]
      /\ of[t] \in Conversations
  BY <1>1 DEF ChainInv, Types, Chained
<1>3. Books'
  <2>1. \A d \in Conversations : Pending(d)' = IF d = of[t] THEN Pending(d) \ {t} ELSE Pending(d)
    BY <1>1, <1>2 DEF Pending
  <2>2. /\ generation' \in [Tasks -> Nat] /\ generations' \in [Conversations -> Nat]
        /\ pendingTaskIds' \in [Conversations -> SUBSET Named]
        /\ cancelledTaskIds' \in [Conversations -> SUBSET Named]
    BY <1>1 DEF DropInv, Books
  <2>3. \A d \in Conversations : /\ pendingTaskIds'[d] = Pending(d)' \cap Named
                                 /\ cancelledTaskIds'[d] \subseteq pendingTaskIds'[d]
    BY <2>1, <1>1, <1>2 DEF DropInv, Books
  <2> QED
    BY <2>2, <2>3 DEF Books
<1>4. WaitingAreBooked'
  <2> SUFFICES ASSUME NEW u \in Tasks, at'[u] = "pending"
               PROVE  generation'[u] <= generations'[of'[u]] /\ (u \in dropped' <=> Doomed(u)')
    BY DEF WaitingAreBooked
  <2>1. u # t /\ at[u] = "pending" /\ of[u] \in Conversations
    BY <1>2 DEF ChainInv, Chained
  <2>2. Doomed(u)' <=> Doomed(u)
    BY <2>1, <1>1, <1>2 DEF Doomed, DropInv, Books
  <2> QED
    BY <2>1, <2>2, <1>1 DEF DropInv, WaitingAreBooked
<1>5. t \in dropped <=> Doomed(t)
  BY <1>1 DEF DropInv, WaitingAreBooked
<1>6. NewAreNotDropped' /\ SkipsExactlyTheDropped'
  BY <1>1, <1>2, <1>5 DEF DropInv, NewAreNotDropped, SkipsExactlyTheDropped
<1> QED
  BY <1>3, <1>4, <1>6 DEF DropInv

\* Tasks that settle are in no book; a caller that goes on was not dropped.
LEMMA SettleDrop == ASSUME ChainInv, DropInv, NEW t \in Tasks, Settle(t) PROVE DropInv'
<1>1. /\ at[t] \in {"running", "skipping"}
      /\ \A u \in Tasks : at'[u] = IF u = t THEN "settled"
                                    ELSE IF u = caller[t] /\ LastCallOf(t) THEN "running" ELSE at[u]
      /\ UNCHANGED <<of, generation, generations, pendingTaskIds, cancelledTaskIds, dropped>>
  BY DEF Settle, chain
<1>2. \A u \in Tasks : u = caller[t] => at[u] = "calling"
  BY <1>1, QueueAssumption DEF ChainInv, Types, Callers, Live, Active, Tasks
<1>3. \A u \in Tasks : /\ at'[u] = "pending" <=> at[u] = "pending"
                       /\ at'[u] = "new" => at[u] = "new"
                       /\ at'[u] = "skipping" => at[u] = "skipping"
                       /\ at'[u] \in {"running", "calling"} => at[u] \in {"running", "calling"}
  BY <1>1, <1>2
<1>4. \A c \in Conversations : Pending(c)' = Pending(c)
  BY <1>1, <1>3 DEF Pending
<1>5. Books'
  BY <1>1, <1>4 DEF DropInv, Books
<1>6. WaitingAreBooked'
  BY <1>1, <1>3 DEF DropInv, WaitingAreBooked, Doomed
<1>7. NewAreNotDropped' /\ SkipsExactlyTheDropped'
  BY <1>1, <1>3 DEF DropInv, NewAreNotDropped, SkipsExactlyTheDropped
<1> QED
  BY <1>5, <1>6, <1>7 DEF DropInv

\* The generation starts anew only where nobody waits who could be mistaken.
LEMMA CleanupDrop == ASSUME ChainInv, DropInv, NEW t \in Tasks, Cleanup(t) PROVE DropInv'
<1> DEFINE c == of[t]
           idle == queues[c] = t /\ pendingCounts[c] = 0
<1>1. /\ at[t] = "settled" /\ at' = [at EXCEPT ![t] = "done"]
      /\ generations' = [generations EXCEPT ![c] = IF idle THEN 0 ELSE @]
      /\ cancelledTaskIds' = [cancelledTaskIds EXCEPT ![c] = IF idle THEN {} ELSE @]
      /\ UNCHANGED <<of, generation, pendingTaskIds, dropped>>
  BY DEF Cleanup, chain, Goto
<1>2. /\ at'[t] = "done" /\ \A u \in Tasks \ {t} : at'[u] = at[u]
      /\ c \in Conversations
  BY <1>1 DEF ChainInv, Types, Chained
<1>3. idle => \A u \in Tasks : of[u] = c => at[u] # "pending"
  BY <1>1, <1>2 DEF ChainInv, Ends, Live, Active
<1>4. Books'
  <2>1. \A d \in Conversations : Pending(d)' = Pending(d)
    BY <1>1, <1>2 DEF Pending
  <2>2. /\ generation' \in [Tasks -> Nat] /\ generations' \in [Conversations -> Nat]
        /\ pendingTaskIds' \in [Conversations -> SUBSET Named]
        /\ cancelledTaskIds' \in [Conversations -> SUBSET Named]
    BY <1>1 DEF DropInv, Books
  <2>3. \A d \in Conversations : /\ pendingTaskIds'[d] = Pending(d)' \cap Named
                                 /\ cancelledTaskIds'[d] \subseteq pendingTaskIds'[d]
    BY <2>1, <1>1, <1>2 DEF DropInv, Books
  <2> QED
    BY <2>2, <2>3 DEF Books
<1>5. WaitingAreBooked'
  <2> SUFFICES ASSUME NEW u \in Tasks, at'[u] = "pending"
               PROVE  generation'[u] <= generations'[of'[u]] /\ (u \in dropped' <=> Doomed(u)')
    BY DEF WaitingAreBooked
  <2>1. u # t /\ at[u] = "pending" /\ of[u] \in Conversations
    BY <1>2 DEF ChainInv, Chained
  <2>2. generations'[of[u]] = generations[of[u]] /\ cancelledTaskIds'[of[u]] = cancelledTaskIds[of[u]]
    BY <2>1, <1>1, <1>2, <1>3 DEF DropInv, Books
  <2> QED
    BY <2>1, <2>2, <1>1 DEF DropInv, WaitingAreBooked, Doomed
<1>6. NewAreNotDropped' /\ SkipsExactlyTheDropped'
  BY <1>1, <1>2 DEF DropInv, NewAreNotDropped, SkipsExactlyTheDropped
<1> QED
  BY <1>4, <1>5, <1>6 DEF DropInv

\* A stop dooms whoever waits, by leaving their generation behind.
LEMMA ClearDrop == ASSUME ChainInv, DropInv, NEW c \in Conversations, Clear(c) PROVE DropInv'
<1>1. /\ generations' = [generations EXCEPT ![c] = @ + 1]
      /\ dropped' = dropped \cup Pending(c)
      /\ UNCHANGED <<at, of, generation, pendingTaskIds, cancelledTaskIds>>
  BY DEF Clear, chain
<1>2. Books'
  BY <1>1 DEF DropInv, Books, Pending
<1>3. WaitingAreBooked'
  <2> SUFFICES ASSUME NEW u \in Tasks, at[u] = "pending"
               PROVE  generation[u] <= generations'[of[u]] /\ (u \in dropped' <=> Doomed(u)')
    BY <1>1 DEF WaitingAreBooked
  <2>1. /\ of[u] \in Conversations /\ generation[u] \in Nat /\ generations[of[u]] \in Nat
        /\ generation[u] <= generations[of[u]] /\ (u \in dropped <=> Doomed(u))
    BY DEF ChainInv, Chained, DropInv, Books, WaitingAreBooked
  <2>2. CASE of[u] = c
    BY <2>1, <2>2, <1>1 DEF Doomed, Pending, DropInv, Books
  <2>3. CASE of[u] # c
    BY <2>1, <2>3, <1>1 DEF Doomed, Pending, DropInv, Books
  <2> QED
    BY <2>2, <2>3
<1>4. NewAreNotDropped' /\ SkipsExactlyTheDropped'
  BY <1>1 DEF DropInv, NewAreNotDropped, SkipsExactlyTheDropped, Pending
<1> QED
  BY <1>2, <1>3, <1>4 DEF DropInv

\* A task that is cancelled while it is pending is marked.
LEMMA CancelDrop ==
  ASSUME ChainInv, DropInv, NEW c \in Conversations, NEW t \in Tasks, Cancel(t, c) PROVE DropInv'
<1>1. /\ t \in pendingTaskIds[c]
      /\ cancelledTaskIds' = [cancelledTaskIds EXCEPT ![c] = @ \cup {t}]
      /\ dropped' = dropped \cup {t}
      /\ UNCHANGED <<at, of, generation, generations, pendingTaskIds>>
  BY DEF Cancel, chain
<1>2. at[t] = "pending" /\ of[t] = c /\ t \in Named
  BY <1>1 DEF DropInv, Books, Pending
<1>3. Books'
  BY <1>1, <1>2 DEF DropInv, Books, Pending
<1>4. WaitingAreBooked'
  BY <1>1, <1>2 DEF DropInv, Books, WaitingAreBooked, Doomed
<1>5. NewAreNotDropped' /\ SkipsExactlyTheDropped'
  BY <1>1, <1>2 DEF DropInv, NewAreNotDropped, SkipsExactlyTheDropped
<1> QED
  BY <1>3, <1>4, <1>5 DEF DropInv

\* Every step keeps the marks with those that were dropped.
LEMMA NextDrop == ASSUME ChainInv, DropInv, [Next]_vars PROVE DropInv'
<1>1. ASSUME NEW t \in Tasks, Start(t) \/ Settle(t) \/ Cleanup(t) PROVE DropInv'
  BY <1>1, StartDrop, SettleDrop, CleanupDrop
<1>2. ASSUME NEW t \in Tasks, NEW c \in Conversations, Enqueue(t, c) PROVE DropInv'
  <2>1. /\ at[t] = "new" /\ at' = [at EXCEPT ![t] = "pending"] /\ Join(t, c, None)
    BY <1>2 DEF Enqueue, Goto
  <2>2. /\ at' \in [Tasks -> States] /\ at'[t] = "pending"
        /\ \A u \in Tasks \ {t} : at'[u] = at[u] \/ (at[u] \in {"running", "calling"} /\ at'[u] = "calling")
    BY <2>1 DEF ChainInv, Types, States
  <2> QED
    BY <2>1, <2>2, JoinDrop
<1>3. ASSUME NEW c \in Conversations, NEW t \in Turns, NEW n \in Nested, Call(t, n, c) PROVE DropInv'
  <2>1. /\ at[t] \in {"running", "calling"} /\ at[n] = "new" /\ Join(n, c, t)
        /\ at' = [at EXCEPT ![t] = "calling", ![n] = "pending"]
        /\ t \in Tasks /\ n \in Tasks /\ t # n
    BY <1>3 DEF Call, Tasks
  <2>2. /\ at' \in [Tasks -> States] /\ at'[n] = "pending"
        /\ \A u \in Tasks \ {n} : at'[u] = at[u] \/ (at[u] \in {"running", "calling"} /\ at'[u] = "calling")
    BY <2>1 DEF ChainInv, Types, States
  <2> QED
    BY <2>1, <2>2, JoinDrop
<1>4. ASSUME NEW c \in Conversations, Clear(c) PROVE DropInv'
  BY <1>4, ClearDrop
<1>5. ASSUME NEW t \in Tasks, NEW c \in Conversations, Cancel(t, c) PROVE DropInv'
  BY <1>5, CancelDrop
<1>6. CASE UNCHANGED vars
  BY <1>6 DEF vars, DropInv, Books, Pending, WaitingAreBooked, Doomed, NewAreNotDropped,
              SkipsExactlyTheDropped
<1> QED
  BY <1>1, <1>2, <1>3, <1>4, <1>5, <1>6 DEF Next

\* Whoever was stopped or cancelled while it waited never runs, and nobody
\* else is skipped.
THEOREM ExactSkips == Spec => []SkipsExactlyTheDropped
<1>1. Init => ChainInv /\ DropInv
  BY InitChain, InitDrop
<1>2. ChainInv /\ DropInv /\ [Next]_vars => ChainInv' /\ DropInv'
  BY NextChain, NextDrop
<1>3. DropInv => SkipsExactlyTheDropped
  BY DEF DropInv
<1> QED
  BY <1>1, <1>2, <1>3, PTL DEF Spec

-----------------------------------------------------------------------------
(* The intake of updates *)

\* No two of the updates are photos, so none are merged into an album.
Albumless ==
  \A s \in Kinds : \A i, j \in DOMAIN s :
    s[i] \in {"photo", "group photo"} /\ s[j] \in {"photo", "group photo"} => i = j

Batch == [at : Places, todo : SUBSET Updates, album : 0..N, seen : 0..N, queued : SUBSET Updates,
          marks : 0..N, next : 0..N, retry : BOOLEAN]
Phase == {"none", "queued", "running", "failed", "ended", "refused"}

-----------------------------------------------------------------------------
(* The operators *)

\* A set of naturals has a smallest member.
LEMMA SmallestOf ==
  ASSUME NEW S, S \subseteq Nat, S # {}
  PROVE  \E m \in S : \A k \in S : m <= k
<1> DEFINE R == {r \in Nat \X Nat : r[1] < r[2]}
<1>1. IsWellFoundedOn(R, Nat)
  BY NatLessThanWellFounded DEF OpToRel
<1>2. \E x \in S : \A y \in S : ~(<<y, x>> \in R)
  BY <1>1, WFMin
<1>3. ASSUME NEW x \in Nat, NEW y \in Nat, y < x
      PROVE  <<y, x>> \in R
  <2>1. <<y, x>> \in Nat \X Nat
    OBVIOUS
  <2>2. <<y, x>>[1] < <<y, x>>[2]
    BY <1>3
  <2> HIDE <1>3
  <2> QED BY ONLY <2>1, <2>2, Zenon
<1> HIDE DEF R
<1>4. PICK x \in S : \A y \in S : ~(<<y, x>> \in R)
  BY <1>2
<1>5. ASSUME NEW y \in S
      PROVE  x <= y
  <2>1. x \in Nat /\ y \in Nat /\ ~(y < x)
    BY <1>3, <1>4
  <2> QED BY <2>1
<1> QED BY <1>5

LEMMA MinIs ==
  ASSUME NEW S, S \subseteq Nat, S # {}
  PROVE  Min(S) \in S /\ \A k \in S : Min(S) <= k
BY SmallestOf DEF Min

LEMMA MaxOfTwo ==
  ASSUME NEW a \in Nat, NEW b \in Nat
  PROVE  Max({a, b}) = IF a <= b THEN b ELSE a
<1>1. \E x \in {a, b} : \A y \in {a, b} : x >= y
  <2>1. CASE a <= b
    BY <2>1
  <2>2. CASE ~(a <= b)
    BY <2>2
  <2> QED BY <2>1, <2>2
<1>2. Max({a, b}) \in {a, b} /\ \A y \in {a, b} : Max({a, b}) >= y
  BY <1>1 DEF Max
<1> QED BY <1>2

Foremost(u, S) == u \in S /\ \A v \in S : u <= v

\* Without an album every update keeps its place.
Placed(b, S) == \A u \in S : u \in Album => b.album = u

LEMMA FirstIs ==
  ASSUME NEW p, NEW S \in SUBSET Updates, S # {}, Placed(proc[p], S), N \in Nat
  PROVE  Foremost(First(p, S), S)
<1>1. \A u \in S : Place(p, u) = u
  BY DEF Place, Placed
<1>2. PICK m \in S : \A k \in S : m <= k
  <2>1. S \subseteq Nat
    BY DEF Updates
  <2> QED BY <2>1, SmallestOf
<1>3. First(p, S) \in S /\ \A v \in S : Place(p, First(p, S)) <= Place(p, v)
  BY <1>1, <1>2 DEF First
<1> QED BY <1>1, <1>3 DEF Foremost

LEMMA Lone ==
  ASSUME Albumless, kind \in Kinds
  PROVE  \A u, v \in Album : u = v
BY DEF Albumless, Album

LEMMA Uncoalesced ==
  ASSUME Albumless, kind \in Kinds, IntakeAssumption, NEW S \in SUBSET Updates
  PROVE  /\ Coalesced(S) = S /\ AlbumPlace(S) \in 0..N
         /\ \A u \in S : u \in Album => AlbumPlace(S) = u
<1>1. \A u, v \in Album : u = v
  BY Lone
<1>2. S \subseteq Nat /\ N \in Nat
  BY DEF Updates, IntakeAssumption
<1>3. Coalesced(S) = S
  BY <1>1, <1>2 DEF Coalesced
<1>4. CASE S \cap Album = {}
  BY <1>2, <1>3, <1>4 DEF AlbumPlace
<1>5. CASE S \cap Album # {}
  <2>1. Min(S \cap Album) \in S \cap Album
    <3>1. S \cap Album \subseteq Nat
      BY <1>2
    <3> QED BY <1>5, <3>1, MinIs
  <2>2. AlbumPlace(S) \in S \cap Album
    BY <1>5, <2>1 DEF AlbumPlace
  <2>3. \A u \in S : u \in Album => AlbumPlace(S) = u
    BY <1>1, <2>2
  <2>4. AlbumPlace(S) \in 0..N
    <3>1. AlbumPlace(S) \in 1..N /\ N \in Nat
      BY <1>2, <2>2 DEF Updates
    <3> QED BY <3>1
  <2> QED BY <1>3, <2>3, <2>4
<1> QED BY <1>4, <1>5

LEMMA CoversIt ==
  ASSUME NEW u \in Updates, kind \in Kinds, IntakeAssumption
  PROVE  u \in Covered(u) /\ Covered(u) \subseteq Updates
<1>1. \A i \in DOMAIN kind : i \in Updates
  <2>1. kind \in Seq(KindsKnown) /\ Len(kind) <= N /\ N \in Nat
    BY DEF IntakeAssumption
  <2>2. DOMAIN kind = 1..Len(kind) /\ Len(kind) \in Nat
    BY <2>1
  <2>3. TAKE i \in DOMAIN kind
  <2>4. i \in Nat /\ 1 <= i /\ i <= Len(kind)
    BY <2>2
  <2> QED BY <2>1, <2>2, <2>4 DEF Updates
<1> QED BY <1>1 DEF Covered, Album

-----------------------------------------------------------------------------
(* The invariant *)

Prompt == \A u \in DOMAIN kind : kind[u] \in {"message", "photo", "stop"}

IntakeTyped ==
  /\ kind \in Kinds /\ arrived \in 0..Len(kind) /\ forgotten \in Nat /\ lastHandled \in 0..N
  /\ service \in {"up", "stopping", "down"} /\ offset \in Nat
  /\ enqueued \in SUBSET Updates /\ completed \in SUBSET Updates /\ begun \in SUBSET Updates
  /\ proc \in [Processors -> Batch] /\ turn \in [Processors \X Updates -> Phase]
  /\ writes \in Seq(Processors)

\* Nothing more is done for an update; it may still have to be marked.
Over == settled \cup refused \cup givenUp

\* While the service is up, and no /stop has failed, updates at work are known.
Orderly == service = "up" /\ slipped = {}

\* An update is taken care of.
Accounted(u) ==
  \/ u <= lastHandled \/ u \in enqueued \cup completed
  \/ (service = "stopping" \/ slipped # {}) /\ u \in Over

\* What comes before an update of a batch is taken care of, or in the batch.
InOrder(b) ==
  /\ \A t \in b.todo : \A u \in 1..t : u \in b.todo \/ Accounted(u)
  /\ \A t \in b.queued : \A u \in 1..t : Accounted(u)

AtWork(b) ==
  /\ b.todo \subseteq 1..arrived
  /\ b.at = "free" => b = Free
  /\ b.at \in {"ack", "config", "approve", "stop"} => b.todo # {}
  /\ b.at = "wait" => b.todo = {}
  /\ b.at \in {"mark", "flush", "write"} =>
       /\ b.marks \in settled \cup givenUp
       /\ Foremost(b.marks, IF b.todo # {} THEN b.todo ELSE b.queued)
  /\ b.at \in {"flush", "write"} => b.marks \in completed \/ b.marks <= lastHandled
  /\ b.at = "write" => b.next \in Updates /\ \A u \in 1..b.next : u \in Over

Sound(b) ==
  /\ Placed(b, b.todo \cup b.queued) /\ InOrder(b) /\ AtWork(b) /\ b.seen <= lastHandled

Behind == \A e \in enqueued \cup completed : \A u \in 1..e : Accounted(u)
Passed ==
  /\ \A u \in 1..lastHandled : u \in Over
  /\ forgotten <= lastHandled /\ offset <= lastHandled + 1
Ended ==
  /\ completed \subseteq settled \cup givenUp
  /\ \A pu \in Processors \X Updates :
       /\ turn[pu] = "ended" => pu[2] \in settled
       /\ turn[pu] = "failed" => pu[2] \in settled \cup givenUp
       /\ turn[pu] = "refused" => pu[2] \in refused /\ service = "stopping"

\* While updates at work are known each write raises the watermark by one, and the
\* writes asked for are answered in their order.
InLine ==
  /\ \A i \in DOMAIN writes : proc[writes[i]].at = "write"
  /\ \A i, j \in DOMAIN writes : i # j => writes[i] # writes[j]
  /\ \A p \in Processors : proc[p].at = "write" => \E i \in DOMAIN writes : writes[i] = p
  /\ Orderly =>
       /\ \A i, j \in DOMAIN writes : i < j => proc[writes[i]].next <= proc[writes[j]].next
       /\ \A p \in Processors : proc[p].at = "write" =>
            lastHandled <= proc[p].next /\ proc[p].next <= lastHandled + 1

\* Only what is accounted for has begun, as long as nothing awaits more than
\* its own mark.
Once ==
  Prompt =>
    /\ slipped = {} => twice = {}
    /\ Orderly => \A u \in begun : Accounted(u)
    /\ \A p \in Processors : proc[p].at \notin {"ack", "config", "approve"}

Gone ==
  service = "down" =>
    writes = <<>> /\ begun = {} /\ \A p \in Processors : proc[p].at = "free"

IntakeInv ==
  /\ IntakeTyped /\ (\A p \in Processors : Sound(proc[p]))
  /\ Behind /\ Passed /\ Ended /\ InLine /\ Once /\ Gone

LEMMA InitIntake == ASSUME IntakeInit PROVE IntakeInv
<1> USE IntakeAssumption DEF IntakeInit
<1>1. Free \in Batch /\ Free.at = "free" /\ Free.todo = {} /\ Free.queued = {} /\ Free.seen = 0
  BY DEF Free, Batch, Places, IntakeAssumption
<1>2. IntakeTyped
  <2>1. 0 \in 0..Len(kind) /\ 0 \in 0..N
    BY DEF IntakeAssumption
  <2>2. turn \in [Processors \X Updates -> Phase]
    BY DEF NoTurns, Phase
  <2>3. proc \in [Processors -> Batch] /\ writes \in Seq(Processors)
    BY <1>1
  <2> HIDE DEF IntakeInit
  <2> QED BY <2>1, <2>2, <2>3 DEF IntakeTyped, IntakeInit
<1>3. \A p \in Processors : Sound(proc[p])
  BY <1>1 DEF Sound, Placed, InOrder, AtWork
<1>4. Behind /\ Passed
  BY DEF Behind, Passed
<1>5. Ended
  BY DEF Ended, NoTurns
<1>6. InLine
  BY <1>1 DEF InLine
<1>7. Once /\ Gone
  BY <1>1 DEF Once, Gone
<1> QED BY <1>2, <1>3, <1>4, <1>5, <1>6, <1>7 DEF IntakeInv

-----------------------------------------------------------------------------
(* The loop over a batch *)

\* What a run through a batch does: it leaves the updates behind the first that
\* needs an await, and takes in the new ones before it.
RanOn(p, todo, seen, through, enq, rest, new, stopped, place) ==
  /\ proc' = [proc EXCEPT ![p] = [@ EXCEPT !.at = place, !.todo = rest, !.seen = seen,
                                           !.queued = proc[p].queued \cup new, !.marks = 0, !.next = 0,
                                           !.retry = FALSE]]
  /\ enqueued' = enq \cup new \cup stopped
  /\ begun' = begun \cup (new \cup stopped)
  /\ twice' = twice \cup (begun \cap (new \cup stopped))
  /\ turn' = [pu \in DOMAIN turn |->
                IF pu[1] = p /\ pu[2] \in new THEN "queued" ELSE turn[pu]]
  /\ rest \subseteq todo /\ new \subseteq todo \ rest /\ stopped \subseteq rest
  /\ place \in {"wait", "ack", "config", "stop"}
  /\ rest = {} <=> place = "wait"
  /\ service = "stopping" => rest = {} /\ new \subseteq through
  /\ service # "stopping" =>
       \A u \in todo \ rest :
         (u \in new \/ Known(u, enq, seen)) /\ \A v \in rest : u < v
  /\ \A u \in new : u \in through \/ ~Known(u, enq, seen)
  /\ \A u \in stopped : ~Known(u, enq, seen) /\ Foremost(u, rest)
  /\ Prompt => place \in {"wait", "stop"}

LEMMA RunOnDoes ==
  ASSUME NEW p \in Processors, NEW todo \in SUBSET Updates, NEW seen, N \in Nat,
         NEW through \in SUBSET todo, NEW enq, Placed(proc[p], todo), todo \subseteq DOMAIN kind,
         RunOn(p, todo, seen, through, enq)
  PROVE  \E rest, new, stopped \in SUBSET todo : \E place \in Places :
           RanOn(p, todo, seen, through, enq, rest, new, stopped, place)
<1> DEFINE passes(u) ==
      \/ u \in through
      \/ ~HasAck(u) /\ (Known(u, enq, seen) \/ kind[u] \in {"message", "photo"})
<1> DEFINE gone == IF service = "stopping" THEN through
                   ELSE {u \in todo : \A v \in todo : ~passes(v) => Place(p, u) < Place(p, v)}
<1> DEFINE rest == IF service = "stopping" THEN {} ELSE todo \ gone
<1> DEFINE new == {u \in gone : ~Known(u, enq, seen) \/ u \in through}
<1> DEFINE stopped == IF Awaits(p, rest) = "stop" THEN {First(p, rest)} ELSE {}
<1>1. /\ enqueued' = enq \cup new \cup stopped
      /\ Begin(new \cup stopped)
      /\ turn' = [pu \in DOMAIN turn |->
                    IF pu[1] = p /\ pu[2] \in new THEN "queued" ELSE turn[pu]]
      /\ proc' = [proc EXCEPT ![p] = [@ EXCEPT !.at = Awaits(p, rest), !.todo = rest,
                                                !.seen = seen, !.queued = proc[p].queued \cup new,
                                                !.marks = 0, !.next = 0, !.retry = FALSE]]
  BY DEF RunOn
<1>2. \A u \in todo : Place(p, u) = u /\ u \in Nat
  <2> HIDE DEF passes, gone, rest, new, stopped
  <2>1. \A u \in todo : u \in Nat
    BY DEF Updates
  <2>2. \A u \in todo : Place(p, u) = u
    BY DEF Place, Placed
  <2> QED BY <2>1, <2>2
<1>3. rest \subseteq todo /\ new \subseteq todo \ rest /\ gone \subseteq todo
  <2>1. CASE service = "stopping"
    BY <2>1
  <2>2. CASE service # "stopping"
    BY <2>2
  <2> QED BY <2>1, <2>2
<1>4. ASSUME rest # {}
      PROVE  Foremost(First(p, rest), rest)
  <2> HIDE DEF rest
  <2>1. rest \in SUBSET Updates /\ Placed(proc[p], rest)
    BY <1>3 DEF Placed
  <2> QED BY <1>4, <2>1, FirstIs
<1>5. Awaits(p, rest) \in {"wait", "ack", "config", "stop"} /\ (rest = {} <=> Awaits(p, rest) = "wait")
  <2> HIDE DEF rest
  <2> QED BY DEF Awaits
<1>6. service # "stopping" =>
        \A u \in todo \ rest : (u \in new \/ Known(u, enq, seen)) /\ \A v \in rest : u < v
  <2> SUFFICES ASSUME service # "stopping", NEW u \in todo \ rest
               PROVE  (u \in new \/ Known(u, enq, seen)) /\ \A v \in rest : u < v
    OBVIOUS
  <2>1. u \in gone /\ rest = todo \ gone
    OBVIOUS
  <2>2. \A v \in todo : ~passes(v) => u < v
    <3> HIDE DEF passes
    <3> QED BY <1>2, <2>1
  <2>3. ASSUME NEW v \in rest PROVE u < v
    <3>1. v \in todo /\ v \notin gone
      BY <2>1
    <3>2. PICK x \in todo : ~passes(x) /\ ~(Place(p, v) < Place(p, x))
      <4> HIDE DEF passes
      <4> QED BY <3>1
    <3>3. u < x /\ ~(v < x)
      <4> HIDE DEF passes
      <4> QED BY <1>2, <2>2, <3>1, <3>2
    <3>4. u \in Nat /\ v \in Nat /\ x \in Nat
      BY <1>2, <3>1
    <3> HIDE DEF passes, gone, rest, new, stopped
    <3> QED BY <3>3, <3>4
  <2>4. u \in new \/ Known(u, enq, seen)
    BY <2>1
  <2> QED BY <2>3, <2>4
<1>7. \A u \in stopped : u \in rest /\ ~Known(u, enq, seen) /\ Foremost(u, rest)
  <2> SUFFICES ASSUME Awaits(p, rest) = "stop"
               PROVE  LET u == First(p, rest) IN u \in rest /\ ~Known(u, enq, seen) /\ Foremost(u, rest)
    BY DEF stopped
  <2> DEFINE u == First(p, rest)
  <2>1. rest # {}
    BY <1>5
  <2>2. Foremost(u, rest)
    BY <1>4, <2>1
  <2>3. ~HasAck(u)
    <3> HIDE DEF rest
    <3> QED BY <2>1 DEF Awaits
  <2>4. service # "stopping" /\ rest = todo \ gone /\ u \in rest
    <3>1. service # "stopping"
      BY <2>1
    <3>2. u \in rest
      BY <2>2 DEF Foremost
    <3> QED BY <3>1, <3>2
  <2>5. PICK v \in todo : ~passes(v) /\ ~(Place(p, u) < Place(p, v))
    <3> HIDE DEF passes, u
    <3>1. gone = {w \in todo : \A v \in todo : ~passes(v) => Place(p, w) < Place(p, v)}
      BY <2>4
    <3> HIDE DEF gone, rest
    <3> QED BY <1>3, <2>4, <3>1
  <2>6. v \in rest
    <3> HIDE DEF passes
    <3>1. gone = {w \in todo : \A x \in todo : ~passes(x) => Place(p, w) < Place(p, x)}
      BY <2>4
    <3>2. ~(Place(p, v) < Place(p, v))
      BY <1>2
    <3> HIDE DEF gone, rest, u
    <3> QED BY <2>4, <2>5, <3>1, <3>2
  <2>7. u = v
    <3> HIDE DEF passes, gone, rest, u
    <3>1. u <= v /\ u \in Nat /\ v \in Nat /\ ~(u < v)
      BY <1>2, <1>3, <2>2, <2>4, <2>5, <2>6 DEF Foremost
    <3> QED BY <3>1
  <2>8. ~passes(u)
    <3> HIDE DEF passes, u
    <3> QED BY <2>5, <2>7
  <2>9. ~Known(u, enq, seen)
    BY <2>3, <2>8
  <2> HIDE DEF passes, gone, rest, new, stopped
  <2> QED BY <2>2, <2>4, <2>9
<1>8. Prompt => Awaits(p, rest) \in {"wait", "stop"}
  <2> SUFFICES ASSUME Prompt, rest # {}
               PROVE  Awaits(p, rest) = "stop"
    BY DEF Awaits
  <2>1. First(p, rest) \in DOMAIN kind
    BY <1>3, <1>4 DEF Foremost
  <2> HIDE DEF rest
  <2>2. kind[First(p, rest)] \in {"message", "photo", "stop"}
    BY <2>1 DEF Prompt
  <2> QED BY <2>2 DEF Awaits, HasAck
<1>9. service = "stopping" => rest = {} /\ new \subseteq through
  OBVIOUS
<1>10. \A u \in new : u \in through \/ ~Known(u, enq, seen)
  OBVIOUS
<1>11. stopped \subseteq rest
  BY <1>7
<1> HIDE DEF passes, gone, rest, new, stopped
<1>12. begun' = begun \cup (new \cup stopped) /\ twice' = twice \cup (begun \cap (new \cup stopped))
  BY <1>1 DEF Begin
<1>13. RanOn(p, todo, seen, through, enq, rest, new, stopped, Awaits(p, rest))
  BY <1>1, <1>3, <1>5, <1>6, <1>7, <1>8, <1>9, <1>10, <1>11, <1>12 DEF RanOn
<1>14. rest \in SUBSET todo /\ new \in SUBSET todo /\ stopped \in SUBSET todo /\ Awaits(p, rest) \in Places
  BY <1>3, <1>5, <1>11 DEF Places
<1> QED BY <1>13, <1>14

-----------------------------------------------------------------------------
(* What a step leaves standing *)

\* Nothing is taken back: what is accounted for stays accounted for.
Onward ==
  /\ kind' = kind /\ arrived \in Nat /\ arrived' \in Nat /\ arrived <= arrived'
  /\ lastHandled \in Nat /\ lastHandled' \in Nat /\ lastHandled <= lastHandled'
  /\ settled \subseteq settled' /\ refused \subseteq refused'
  /\ givenUp \subseteq givenUp' /\ slipped \subseteq slipped'
  /\ \A u \in Nat : Accounted(u) => Accounted(u)'
  /\ \A c \in completed : c \in completed' \/ c <= lastHandled'

LEMMA SteadyBatch ==
  ASSUME NEW b \in Batch, Onward, Sound(b), N \in Nat
  PROVE  Sound(b)'
<1>1. b.todo \subseteq Nat /\ b.queued \subseteq Nat /\ b.seen \in Nat /\ b.marks \in Nat /\ b.next \in Nat
  BY DEF Batch, Updates
<1>2. Placed(b, b.todo \cup b.queued)'
  BY DEF Sound, Onward, Placed, Album
<1>3. InOrder(b)'
  BY <1>1 DEF Sound, Onward, InOrder
<1>4. (b.seen <= lastHandled)'
  BY <1>1 DEF Sound, Onward
<1>5. AtWork(b)'
  <2>1. AtWork(b)
    BY DEF Sound
  <2>2. (b.todo \subseteq 1..arrived)'
    BY <1>1, <2>1 DEF AtWork, Onward
  <2>3. (b.at \in {"mark", "flush", "write"} => b.marks \in settled \cup givenUp)'
    BY <2>1 DEF AtWork, Onward
  <2>4. (b.at \in {"flush", "write"} => b.marks \in completed \/ b.marks <= lastHandled)'
    BY <1>1, <2>1 DEF AtWork, Onward
  <2>5. (b.at = "write" => b.next \in Updates /\ \A u \in 1..b.next : u \in Over)'
    BY <2>1 DEF AtWork, Onward, Over
  <2> QED BY <2>1, <2>2, <2>3, <2>4, <2>5 DEF AtWork
<1> QED BY <1>2, <1>3, <1>4, <1>5 DEF Sound

\* A step of one processor keeps the others.
LEMMA Batches ==
  ASSUME NEW p \in Processors, NEW c \in Batch, IntakeInv, Onward, N \in Nat,
         proc' = [proc EXCEPT ![p] = c], Sound(c)'
  PROVE  proc' \in [Processors -> Batch] /\ (\A q \in Processors : Sound(proc[q]))'
<1>1. proc \in [Processors -> Batch]
  BY DEF IntakeInv, IntakeTyped
<1>2. ASSUME NEW q \in Processors
      PROVE  Sound(proc[q])'
  <2>1. CASE q = p
    <3>1. proc'[q] = c
      BY <1>1, <2>1
    <3>2. \A b : b = c => Sound(b)'
      BY Zenon
    <3> QED BY <3>1, <3>2 DEF Sound, Placed, InOrder, AtWork
  <2>2. CASE q # p
    <3>1. PICK b \in Batch : b = proc[q]
      BY <1>1
    <3>2. proc'[q] = b
      BY <1>1, <2>2, <3>1
    <3>3. Sound(b)
      BY <3>1 DEF IntakeInv
    <3>4. Sound(b)'
      BY <3>3, SteadyBatch
    <3> QED BY <3>2, <3>4 DEF Sound, Placed, InOrder, AtWork
  <2> QED BY <2>1, <2>2
<1> QED BY <1>1, <1>2

LEMMA SteadyBatches ==
  ASSUME IntakeInv, Onward, N \in Nat, proc' = proc
  PROVE  (\A q \in Processors : Sound(proc[q]))'
<1>1. ASSUME NEW q \in Processors
      PROVE  Sound(proc[q])'
  <2>1. PICK b \in Batch : b = proc[q]
    BY DEF IntakeInv, IntakeTyped
  <2>2. Sound(b)
    BY <2>1 DEF IntakeInv
  <2>3. Sound(b)'
    BY <2>2, SteadyBatch
  <2> QED BY <2>1, <2>3 DEF Sound, Placed, InOrder, AtWork
<1> QED BY <1>1

LEMMA SteadyLine ==
  ASSUME IntakeInv, writes' = writes, lastHandled' = lastHandled,
         Orderly' => Orderly,
         \A q \in Processors :
           proc'[q] = proc[q] \/ (proc[q].at # "write" /\ proc'[q].at # "write")
  PROVE  InLine'
<1>1. writes \in Seq(Processors) /\ \A i \in DOMAIN writes : writes[i] \in Processors
  BY DEF IntakeInv, IntakeTyped
<1>2. \A q \in Processors : (proc'[q].at = "write" \/ proc[q].at = "write") => proc'[q] = proc[q]
  OBVIOUS
<1>3. \A i \in DOMAIN writes : proc[writes[i]].at = "write" /\ proc'[writes[i]] = proc[writes[i]]
  BY <1>1, <1>2 DEF IntakeInv, InLine
<1>4. (\A i \in DOMAIN writes : proc[writes[i]].at = "write")'
  BY <1>3
<1>5. (\A i, j \in DOMAIN writes : i # j => writes[i] # writes[j])'
  BY DEF IntakeInv, InLine
<1>6. (\A q \in Processors : proc[q].at = "write" => \E i \in DOMAIN writes : writes[i] = q)'
  BY <1>2 DEF IntakeInv, InLine
<1>7. (Orderly => \A i, j \in DOMAIN writes : i < j => proc[writes[i]].next <= proc[writes[j]].next)'
  BY <1>3 DEF IntakeInv, InLine
<1>8. (Orderly => \A q \in Processors : proc[q].at = "write" =>
            lastHandled <= proc[q].next /\ proc[q].next <= lastHandled + 1)'
  BY <1>2 DEF IntakeInv, InLine
<1> QED BY <1>4, <1>5, <1>6, <1>7, <1>8 DEF InLine

-----------------------------------------------------------------------------
(* A run through the batch keeps the invariant *)

Kept(u, enq) ==
  u <= lastHandled' \/ u \in enq \cup completed' \/ ((service = "stopping" \/ slipped # {}) /\ u \in Over)

\* What holds when the loop runs on: nothing is taken back but from what is
\* kept, the updates it is past are kept, and its watermark is not ahead.
RunsOn(p, todo, seen, through, enq) ==
  /\ kind' = kind /\ service' = service /\ service # "down" /\ arrived' = arrived
  /\ UNCHANGED <<refused, givenUp, slipped>> /\ settled \subseteq settled'
  /\ lastHandled' \in 0..N /\ lastHandled <= lastHandled' /\ seen \in 0..N /\ seen <= lastHandled'
  /\ enq \subseteq enqueued /\ completed' \subseteq completed
  /\ \A u \in Nat : Accounted(u) => Kept(u, enq)
  /\ \A c \in completed : c \in completed' \/ c <= lastHandled'
  /\ todo \subseteq proc[p].todo /\ \A u \in proc[p].todo \ todo : Kept(u, enq)
  /\ through \subseteq todo /\ \A u \in through : Foremost(u, proc[p].todo)
  /\ Prompt => /\ through = {} /\ (enqueued \ enq) \cap todo = {}
               /\ Orderly => seen = lastHandled'
  /\ RunOn(p, todo, seen, through, enq)

\* What a step of a processor has to give.
Steps ==
  /\ Onward /\ proc' \in [Processors -> Batch] /\ (\A q \in Processors : Sound(proc[q]))'
  /\ enqueued' \in SUBSET Updates /\ begun' \in SUBSET Updates
  /\ turn' \in [Processors \X Updates -> Phase]
  /\ Behind' /\ Ended' /\ Once'

Ran(p) ==
  /\ Steps /\ proc'[p].at # "write"
  /\ \A q \in Processors : q # p => proc'[q] = proc[q]

LEMMA Reached ==
  ASSUME IntakeInv, NEW p \in Processors, IntakeAssumption
  PROVE  proc[p] \in Batch /\ Sound(proc[p]) /\ proc[p].todo \subseteq DOMAIN kind
<1>1. proc[p] \in Batch /\ Sound(proc[p])
  BY DEF IntakeInv, IntakeTyped
<1>2. kind \in Seq(KindsKnown) /\ arrived \in 0..Len(kind)
  BY DEF IntakeInv, IntakeTyped, IntakeAssumption
<1>3. proc[p].todo \subseteq 1..arrived
  BY <1>1 DEF Sound, AtWork
<1>4. DOMAIN kind = 1..Len(kind) /\ Len(kind) \in Nat
  BY <1>2
<1>5. 1..arrived \subseteq 1..Len(kind)
  BY <1>2, <1>4
<1> QED BY <1>1, <1>3, <1>4, <1>5

LEMMA RunOnKeeps ==
  ASSUME IntakeInv, IntakeAssumption, NEW p \in Processors, NEW todo, NEW seen, NEW through, NEW enq,
         RunsOn(p, todo, seen, through, enq)
  PROVE  Ran(p)
<1>0. PICK b \in Batch : b = proc[p]
  BY Reached
<1>1. b \in Batch /\ Sound(b) /\ b.todo \subseteq DOMAIN kind
  BY <1>0, Reached
<1>2. b.todo \in SUBSET Updates /\ b.queued \in SUBSET Updates
  BY <1>1 DEF Batch
<1>3. todo \in SUBSET Updates /\ todo \subseteq b.todo /\ through \in SUBSET todo
  BY <1>0, <1>2 DEF RunsOn
<1>4. IntakeTyped /\ N \in Nat /\ enqueued \in SUBSET Updates /\ completed \in SUBSET Updates
  BY DEF IntakeInv, IntakeTyped, IntakeAssumption
<1>5. Placed(b, todo) /\ todo \subseteq DOMAIN kind
  BY <1>1, <1>3 DEF Sound, Placed
<1>6. PICK rest \in SUBSET todo, new \in SUBSET todo, stopped \in SUBSET todo, place \in Places :
        RanOn(p, todo, seen, through, enq, rest, new, stopped, place)
  <2>1. RunOn(p, todo, seen, through, enq)
    BY DEF RunsOn
  <2>2. Placed(proc[p], todo)
    BY <1>0, <1>5
  <2> QED BY <1>3, <1>4, <1>5, <2>1, <2>2, RunOnDoes
<1> DEFINE c == [b EXCEPT !.at = place, !.todo = rest, !.seen = seen, !.queued = b.queued \cup new,
                          !.marks = 0, !.next = 0, !.retry = FALSE]
<1>7. proc' = [proc EXCEPT ![p] = c]
  BY <1>0, <1>6 DEF RanOn
<1>8. c \in Batch
  <2>1. seen \in 0..N /\ 0 \in 0..N
    BY <1>4 DEF RunsOn
  <2>2. rest \in SUBSET Updates /\ b.queued \cup new \in SUBSET Updates
    BY <1>2, <1>3
  <2> QED BY <1>1, <2>1, <2>2 DEF Batch
<1>9. /\ c.at = place /\ c.todo = rest /\ c.seen = seen /\ c.queued = b.queued \cup new
      /\ c.album = b.album /\ c.marks = 0 /\ c.next = 0
  BY <1>1 DEF Batch
<1> HIDE DEF c
<1>10. \A u \in Nat : Kept(u, enq) => Accounted(u)'
  BY <1>6 DEF RunsOn, RanOn, Kept, Accounted, Over
<1>11. Onward
  <2>1. \A u \in Nat : Accounted(u) => Accounted(u)'
    BY <1>10 DEF RunsOn
  <2>2. arrived \in Nat /\ lastHandled \in Nat /\ lastHandled' \in Nat
    <3>1. arrived \in 0..Len(kind) /\ kind \in Seq(KindsKnown)
      BY <1>4 DEF IntakeTyped, IntakeAssumption
    <3>2. arrived \in Nat
      BY <3>1
    <3> QED BY <1>4, <3>2 DEF IntakeTyped, RunsOn
  <2> QED BY <2>1, <2>2 DEF Onward, RunsOn
\* Every update up to one of the batch is left in it or accounted for.
<1>12. ASSUME NEW t \in rest, NEW u \in 1..t
       PROVE  u \in rest \/ Accounted(u)'
  <2>1. u \in Nat /\ t \in b.todo
    BY <1>2, <1>3 DEF Updates
  <2>2. u \in b.todo \/ Accounted(u)
    BY <1>1, <2>1 DEF Sound, InOrder
  <2>3. CASE Accounted(u)
    BY <1>11, <2>1, <2>3 DEF Onward
  <2>4. CASE u \in b.todo \ todo
    BY <1>0, <1>10, <2>1, <2>4 DEF RunsOn
  <2>5. CASE u \in todo \ rest
    <3>1. u \in new \/ Known(u, enq, seen)
      BY <1>6, <2>5 DEF RanOn
    <3>2. CASE u \in new
      BY <1>6, <3>2 DEF RanOn, Accounted
    <3>3. CASE u \in enq
      BY <1>6, <3>3 DEF RanOn, Accounted
    <3>4. CASE u \in completed \/ u <= seen
      <4>1. lastHandled' \in Nat /\ seen \in Nat /\ seen <= lastHandled'
        BY <1>4 DEF RunsOn
      <4> QED BY <2>1, <3>4, <4>1 DEF RunsOn, Accounted
    <3> QED BY <3>1, <3>2, <3>3, <3>4 DEF Known
  <2> QED BY <2>2, <2>3, <2>4, <2>5
<1>13. ASSUME NEW e \in new \cup stopped, NEW u \in 1..e
       PROVE  Accounted(u)'
  <2>1. e \in Nat /\ u \in Nat /\ u <= e
    BY <1>3, <1>6 DEF RanOn, Updates
  <2>2. e \in b.todo
    BY <1>3
  <2>3. u \in b.todo \/ Accounted(u)
    BY <1>1, <2>2 DEF Sound, InOrder
  <2>4. CASE Accounted(u)
    BY <1>11, <2>1, <2>4 DEF Onward
  <2>5. CASE u \in b.todo \ todo
    BY <1>0, <1>10, <2>1, <2>5 DEF RunsOn
  <2>6. CASE u \in todo /\ service = "stopping"
    <3>1. e \in through
      BY <1>6, <2>6 DEF RanOn
    <3>2. Foremost(e, b.todo)
      BY <1>0, <3>1 DEF RunsOn
    <3>3. e <= u
      BY <2>6, <1>3, <3>2 DEF Foremost
    <3>4. u = e
      BY <2>1, <3>3
    <3> QED BY <1>6, <3>4 DEF Accounted, RanOn
  <2>7. CASE u \in todo \ rest /\ service # "stopping"
    <3>1. u \in new \/ Known(u, enq, seen)
      BY <1>6, <2>7 DEF RanOn
    <3>2. CASE u \in new \/ u \in enq
      BY <1>6, <3>2 DEF RanOn, Accounted
    <3>3. CASE u \in completed \/ u <= seen
      <4>1. lastHandled' \in Nat /\ seen \in Nat /\ seen <= lastHandled'
        BY <1>4 DEF RunsOn
      <4> QED BY <2>1, <3>3, <4>1 DEF RunsOn, Accounted
    <3> QED BY <3>1, <3>2, <3>3 DEF Known
  <2>8. CASE u \in rest /\ service # "stopping"
    <3>1. CASE e \in new
      <4>1. e \in todo \ rest
        BY <1>6, <3>1 DEF RanOn
      <4>2. e < u
        BY <1>6, <2>8, <4>1 DEF RanOn
      <4> QED BY <2>1, <4>2
    <3>2. CASE e \in stopped
      <4>1. e <= u
        BY <1>6, <2>8, <3>2 DEF RanOn, Foremost
      <4>2. u = e
        BY <2>1, <4>1
      <4> QED BY <1>6, <4>2 DEF Accounted, RanOn
    <3> QED BY <3>1, <3>2
  <2> QED BY <2>3, <2>4, <2>5, <2>6, <2>7, <2>8
<1>14. Sound(c)'
  <2>1. Placed(c, c.todo \cup c.queued)'
    BY <1>1, <1>3, <1>6, <1>9 DEF Sound, Placed, RunsOn, RanOn, Album
  <2>2. InOrder(c)'
    <3>1. \A t \in b.queued : \A u \in 1..t : Accounted(u)'
      BY <1>1, <1>2, <1>11 DEF Sound, InOrder, Onward, Updates
    <3> QED BY <1>9, <1>12, <1>13, <3>1 DEF InOrder
  <2>3. (c.seen <= lastHandled)'
    BY <1>9 DEF RunsOn
  <2>4. AtWork(c)'
    <3>1. (c.todo \subseteq 1..arrived)'
      BY <1>1, <1>3, <1>9 DEF Sound, AtWork, RunsOn
    <3>2. place \in {"wait", "ack", "config", "stop"} /\ (rest = {} <=> place = "wait")
      BY <1>6 DEF RanOn
    <3> QED BY <1>9, <3>1, <3>2 DEF AtWork
  <2> QED BY <2>1, <2>2, <2>3, <2>4 DEF Sound
<1>15. proc' \in [Processors -> Batch] /\ (\A q \in Processors : Sound(proc[q]))'
  BY <1>4, <1>7, <1>8, <1>11, <1>14, Batches
<1>16. enqueued' \in SUBSET Updates /\ begun' \in SUBSET Updates /\ turn' \in [Processors \X Updates -> Phase]
  <2>1. begun \in SUBSET Updates /\ turn \in [Processors \X Updates -> Phase]
    BY <1>4 DEF IntakeTyped
  <2>2. enqueued' \in SUBSET Updates /\ begun' \in SUBSET Updates
    BY <1>3, <1>4, <1>6, <2>1 DEF RanOn, RunsOn
  <2>3. turn' \in [Processors \X Updates -> Phase]
    BY <1>6, <2>1 DEF RanOn, Phase
  <2> QED BY <2>2, <2>3
<1>17. Behind'
  <2> SUFFICES ASSUME NEW e \in (enqueued \cup completed)', NEW u \in 1..e
               PROVE  Accounted(u)'
    BY DEF Behind
  <2>1. e \in Nat /\ u \in Nat /\ u <= e /\ 1 <= u
    <3>1. completed' \subseteq Updates
      BY <1>4 DEF RunsOn
    <3>2. e \in Nat
      BY <1>16, <3>1 DEF Updates
    <3> QED BY <3>2
  <2>2. CASE e \in enqueued \cup completed
    BY <1>11, <2>1, <2>2 DEF Onward, IntakeInv, Behind
  <2>3. CASE e \in new \cup stopped
    BY <1>13, <2>3
  <2> QED BY <1>6, <2>2, <2>3 DEF RanOn, RunsOn
<1>18. Ended'
  <2>1. (completed \subseteq settled \cup givenUp)'
    BY DEF IntakeInv, Ended, RunsOn
  <2>2. ASSUME NEW pu \in Processors \X Updates
        PROVE  /\ turn'[pu] = "ended" => pu[2] \in settled'
               /\ turn'[pu] = "failed" => pu[2] \in (settled \cup givenUp)'
               /\ turn'[pu] = "refused" => pu[2] \in refused' /\ service' = "stopping"
    <3>1. pu \in DOMAIN turn
      BY <1>4 DEF IntakeTyped
    <3>2. turn'[pu] = "queued" \/ turn'[pu] = turn[pu]
      BY <1>6, <3>1 DEF RanOn
    <3> QED BY <3>2 DEF IntakeInv, Ended, RunsOn
  <2> QED BY <2>1, <2>2 DEF Ended
<1>19. Once'
  <2> SUFFICES ASSUME Prompt'
               PROVE  /\ slipped' = {} => twice' = {}
                      /\ Orderly' => \A u \in begun' : Accounted(u)'
                      /\ \A q \in Processors : proc'[q].at \notin {"ack", "config", "approve"}
    BY DEF Once
  <2>1. Prompt /\ (slipped = {} => twice = {}) /\ \A q \in Processors : proc[q].at \notin {"ack", "config", "approve"}
    BY DEF Prompt, RunsOn, IntakeInv, Once
  <2>2. \A q \in Processors : proc'[q].at \notin {"ack", "config", "approve"}
    <3>1. place \in {"wait", "stop"}
      BY <1>6, <2>1 DEF RanOn
    <3> QED BY <1>4, <1>7, <1>9, <2>1, <3>1 DEF IntakeTyped
  <2>3. Orderly => \A u \in begun : Accounted(u)
    BY <2>1 DEF IntakeInv, Once
  <2>4. Orderly' => \A u \in begun' : Accounted(u)'
    <3> SUFFICES ASSUME Orderly, NEW u \in begun'
                 PROVE  Accounted(u)'
      BY DEF RunsOn, Orderly
    <3>1. u \in Nat
      BY <1>16 DEF Updates
    <3>2. CASE u \in begun
      BY <1>11, <2>3, <3>1, <3>2 DEF Onward
    <3>3. CASE u \in new \cup stopped
      BY <1>6, <3>3 DEF RanOn, Accounted
    <3> QED BY <1>6, <3>2, <3>3 DEF RanOn
  <2>5. slipped = {} => begun \cap (new \cup stopped) = {}
    <3> SUFFICES ASSUME slipped = {}, NEW u \in begun, u \in new \cup stopped
                 PROVE  FALSE
      OBVIOUS
    <3>1. through = {} /\ (enqueued \ enq) \cap todo = {}
      BY <2>1 DEF RunsOn
    <3>2. u \in todo /\ ~Known(u, enq, seen)
      BY <1>6, <3>1 DEF RanOn
    <3>3. service # "stopping"
      BY <1>6, <3>1 DEF RanOn
    <3>4. Orderly
      BY <1>4, <3>3 DEF IntakeTyped, RunsOn, Orderly
    <3>5. Accounted(u)
      BY <2>3, <3>4
    <3>6. u <= lastHandled \/ u \in enqueued \cup completed
      BY <3>4, <3>5 DEF Accounted, Orderly
    <3>7. u \in Nat /\ seen = lastHandled' /\ lastHandled \in Nat /\ lastHandled' \in Nat /\ lastHandled <= lastHandled'
      BY <1>3, <1>11, <2>1, <3>2, <3>4 DEF RunsOn, Onward, Updates
    <3>8. u \notin enqueued
      BY <3>1, <3>2 DEF Known
    <3> QED BY <3>2, <3>6, <3>7, <3>8 DEF Known
  <2>6. slipped' = {} => twice' = {}
    BY <1>6, <2>1, <2>5 DEF RanOn, RunsOn
  <2> QED BY <2>2, <2>4, <2>6
<1>20. proc'[p].at # "write" /\ \A q \in Processors : q # p => proc'[q] = proc[q]
  BY <1>4, <1>6, <1>7, <1>9 DEF RanOn, IntakeTyped
<1> QED BY <1>11, <1>15, <1>16, <1>17, <1>18, <1>19, <1>20 DEF Ran, Steps

-----------------------------------------------------------------------------
(* The other steps of a processor *)

LEMMA Numbers ==
  ASSUME IntakeInv, IntakeAssumption
  PROVE  /\ N \in Nat /\ arrived \in Nat /\ lastHandled \in Nat /\ lastHandled \in 0..N
         /\ Updates \subseteq Nat /\ enqueued \subseteq Nat /\ completed \subseteq Nat
<1>1. N \in Nat /\ kind \in Seq(KindsKnown)
  BY DEF IntakeAssumption, IntakeInv, IntakeTyped
<1>2. arrived \in 0..Len(kind) /\ lastHandled \in 0..N
  BY DEF IntakeInv, IntakeTyped
<1>3. Updates \subseteq Nat
  BY <1>1 DEF Updates
<1>4. enqueued \subseteq Updates /\ completed \subseteq Updates
  BY DEF IntakeInv, IntakeTyped
<1>5. arrived \in Nat
  BY <1>1, <1>2
<1> QED BY <1>1, <1>2, <1>3, <1>4, <1>5

\* A step of one processor that begins nothing.
LEMMA StepOf ==
  ASSUME IntakeInv, IntakeAssumption, NEW p \in Processors, NEW c \in Batch,
         proc' = [proc EXCEPT ![p] = c], Sound(c)', Onward, service' = service,
         enqueued' \subseteq enqueued, completed' \subseteq Updates,
         \A e \in completed' : e \in completed \/ \A u \in 1..e : Accounted(u)',
         turn' \in [Processors \X Updates -> Phase], Ended', begun' \in SUBSET Updates,
         Prompt => UNCHANGED <<begun, twice>> /\ c.at \notin {"ack", "config", "approve"}
  PROVE  Steps /\ proc'[p] = c /\ \A q \in Processors : q # p => proc'[q] = proc[q]
<1>1. IntakeTyped /\ N \in Nat /\ enqueued \subseteq Nat /\ completed \subseteq Nat
  BY Numbers DEF IntakeInv
<1>2. proc' \in [Processors -> Batch] /\ (\A q \in Processors : Sound(proc[q]))'
  BY <1>1, Batches
<1>3. proc'[p] = c /\ \A q \in Processors : q # p => proc'[q] = proc[q]
  BY <1>1 DEF IntakeTyped
<1>4. Behind'
  <2> SUFFICES ASSUME NEW e \in (enqueued \cup completed)', NEW u \in 1..e
               PROVE  Accounted(u)'
    BY DEF Behind
  <2>1. CASE e \in enqueued \cup completed
    BY <1>1, <2>1 DEF Onward, IntakeInv, Behind
  <2>2. CASE e \notin enqueued \cup completed
    BY <2>2
  <2> QED BY <2>1, <2>2
<1>5. Once'
  <2> SUFFICES ASSUME Prompt'
               PROVE  /\ slipped' = {} => twice' = {}
                      /\ Orderly' => \A u \in begun' : Accounted(u)'
                      /\ \A q \in Processors : proc'[q].at \notin {"ack", "config", "approve"}
    BY DEF Once
  <2>1. Prompt
    BY DEF Prompt, Onward
  <2>2. begun \subseteq Nat
    BY <1>1, Numbers DEF IntakeTyped
  <2> QED BY <1>3, <2>1, <2>2 DEF IntakeInv, Once, Onward, Orderly
<1>6. enqueued' \in SUBSET Updates
  BY <1>1 DEF IntakeTyped
<1> QED BY <1>2, <1>3, <1>4, <1>5, <1>6 DEF Steps

LEMMA SameLevel ==
  ASSUME IntakeInv, IntakeAssumption, Elsewhere, settled \subseteq settled', refused \subseteq refused',
         givenUp \subseteq givenUp', slipped \subseteq slipped', completed \subseteq completed',
         \A u \in enqueued :
           u \in enqueued' \/ ((service = "stopping" \/ slipped' # {}) /\ u \in Over')
  PROVE  Onward
<1>1. ASSUME NEW u \in Nat, Accounted(u)
      PROVE  Accounted(u)'
  <2>1. service' = service /\ lastHandled' = lastHandled
    BY DEF Elsewhere
  <2>2. CASE u <= lastHandled \/ u \in completed
    BY <2>1, <2>2 DEF Accounted
  <2>3. CASE u \in enqueued
    BY <2>1, <2>3 DEF Accounted
  <2>4. CASE (service = "stopping" \/ slipped # {}) /\ u \in Over
    BY <2>1, <2>4 DEF Accounted, Over
  <2> QED BY <1>1, <2>2, <2>3, <2>4 DEF Accounted
<1> QED BY <1>1, Numbers DEF Elsewhere, Onward


\* The whole invariant after a step that leaves the writes alone.
LEMMA Whole ==
  ASSUME IntakeInv, IntakeAssumption, Steps, Elsewhere, service # "down", UNCHANGED writes,
         completed' \in SUBSET Updates,
         \A q \in Processors :
           proc'[q] = proc[q] \/ (proc[q].at # "write" /\ proc'[q].at # "write")
  PROVE  IntakeInv'
<1>1. IntakeTyped'
  BY DEF IntakeInv, IntakeTyped, Steps, Elsewhere
<1>2. Passed'
  BY DEF IntakeInv, Passed, Steps, Onward, Elsewhere, Over
<1>3. InLine'
  <2>1. Orderly' => Orderly
    BY DEF Elsewhere, Orderly, Steps, Onward
  <2> QED BY <2>1, SteadyLine DEF Elsewhere
<1>4. Gone'
  BY DEF Gone, Elsewhere
<1> QED BY <1>1, <1>2, <1>3, <1>4 DEF IntakeInv, Steps

LEMMA LoadKeeps ==
  ASSUME IntakeInv, IntakeAssumption, NEW p \in Processors, Load(p) PROVE IntakeInv'
<1>1. /\ Elsewhere /\ service # "down"
      /\ UNCHANGED <<writes, completed, settled, refused, givenUp, slipped, faults>>
  BY DEF Load, At, failures
<1>2. RunOn(p, proc[p].todo, lastHandled, {}, enqueued)
  BY DEF Load
<1>3. RunsOn(p, proc[p].todo, lastHandled, {}, enqueued)
  BY <1>1, <1>2, Numbers DEF RunsOn, Elsewhere, Kept, Accounted
<1>4. Ran(p)
  BY <1>3, RunOnKeeps
<1>5. proc[p].at # "write"
  BY DEF Load, At
<1>6. completed' \in SUBSET Updates
  BY <1>1 DEF IntakeInv, IntakeTyped
<1> QED BY <1>1, <1>4, <1>5, <1>6, Whole DEF Ran

LEMMA FirstOf ==
  ASSUME IntakeInv, IntakeAssumption, NEW p \in Processors, proc[p].todo # {}
  PROVE  Foremost(First(p, proc[p].todo), proc[p].todo) /\ First(p, proc[p].todo) \in Updates
<1>1. proc[p].todo \in SUBSET Updates /\ Placed(proc[p], proc[p].todo)
  BY Reached DEF Batch, Sound, Placed
<1>2. Foremost(First(p, proc[p].todo), proc[p].todo)
  BY <1>1, Numbers, FirstIs
<1> QED BY <1>1, <1>2 DEF Foremost

\* A processor turns to marking an update that is handled.
LEMMA MarkNextKeeps ==
  ASSUME IntakeInv, IntakeAssumption, NEW p \in Processors, NEW u \in Updates, MarkNext(p, u),
         Elsewhere, service # "down", proc[p].at # "write",
         Foremost(u, IF proc[p].todo # {} THEN proc[p].todo ELSE proc[p].queued),
         u \in (settled \cup givenUp)', settled \subseteq settled', UNCHANGED <<refused, givenUp, slipped>>,
         UNCHANGED <<writes, enqueued, completed, begun, twice>>,
         turn' \in [Processors \X Updates -> Phase],
         \A pu \in Processors \X Updates :
           turn'[pu] = turn[pu] \/ turn'[pu] = "none" \/ (turn'[pu] = "ended" /\ pu[2] \in settled')
  PROVE  IntakeInv'
<1>1. PICK b \in Batch : b = proc[p]
  BY Reached
<1>2. Sound(b)
  BY <1>1, Reached
<1> DEFINE c == [b EXCEPT !.at = "mark", !.marks = u]
<1>3. proc' = [proc EXCEPT ![p] = c]
  BY <1>1 DEF MarkNext
<1>4. u \in 0..N
  BY Numbers DEF Updates
<1>5. c \in Batch
  BY <1>4 DEF Batch, Places
<1>6. /\ c.at = "mark" /\ c.todo = b.todo /\ c.seen = b.seen /\ c.queued = b.queued
      /\ c.album = b.album /\ c.marks = u
  BY DEF Batch
<1> HIDE DEF c
<1>7. Onward
  BY SameLevel DEF Elsewhere
<1>8. Sound(b)'
  BY <1>2, <1>7, Numbers, SteadyBatch
<1>9. Sound(c)'
  BY <1>1, <1>6, <1>8 DEF Sound, Placed, InOrder, AtWork
<1>10. Ended'
  BY DEF IntakeInv, Ended, Elsewhere
<1>11. completed' \subseteq Updates /\ begun' \in SUBSET Updates
  BY DEF IntakeInv, IntakeTyped
<1>12. Steps /\ proc'[p] = c /\ \A q \in Processors : q # p => proc'[q] = proc[q]
  <2>1. service' = service /\ enqueued' \subseteq enqueued
    BY DEF Elsewhere
  <2>2. \A e \in completed' : e \in completed
    OBVIOUS
  <2>3. Prompt => UNCHANGED <<begun, twice>> /\ c.at \notin {"ack", "config", "approve"}
    BY <1>6
  <2> QED BY <1>3, <1>5, <1>7, <1>9, <1>10, <1>11, <2>1, <2>2, <2>3, StepOf
<1> QED BY <1>6, <1>11, <1>12, Whole

LEMMA AcknowledgedKeeps ==
  ASSUME IntakeInv, IntakeAssumption, NEW p \in Processors, Acknowledged(p) PROVE IntakeInv'
<1> DEFINE u == First(p, proc[p].todo)
<1>1. /\ Elsewhere /\ service # "down"
      /\ UNCHANGED <<writes, completed, settled, refused, givenUp, slipped, faults>>
  BY DEF Acknowledged, At, MoveTo, failures
<1>2. proc[p].at = "ack" /\ ~Prompt
  <2>1. proc[p].at = "ack"
    BY DEF Acknowledged, At
  <2> QED BY <2>1 DEF IntakeInv, Once
<1>3. proc[p].todo # {}
  BY <1>2, Reached DEF Sound, AtWork
<1>4. Foremost(u, proc[p].todo) /\ u \in Updates /\ u \in Nat
  BY <1>3, FirstOf, Numbers
<1>5. completed' \in SUBSET Updates
  BY <1>1 DEF IntakeInv, IntakeTyped
<1>6. proc[p].seen \in 0..N /\ proc[p].seen <= lastHandled
  BY Reached DEF Batch, Sound
<1> HIDE DEF u
<1>7. CASE Known(u, enqueued, proc[p].seen) /\ RunOn(p, proc[p].todo \ {u}, proc[p].seen, {}, enqueued)
  <2>1. \A v \in Nat : Accounted(v) => Kept(v, enqueued)
    BY <1>1 DEF Accounted, Kept, Elsewhere
  <2>2. Accounted(u)
    BY <1>4, <1>6, <1>7, Numbers DEF Known, Accounted
  <2>3. \A v \in proc[p].todo \ (proc[p].todo \ {u}) : Kept(v, enqueued)
    BY <1>4, <2>1, <2>2
  <2>4. RunsOn(p, proc[p].todo \ {u}, proc[p].seen, {}, enqueued)
    BY <1>1, <1>2, <1>6, <1>7, <2>1, <2>3, Numbers DEF RunsOn, Elsewhere
  <2>5. Ran(p)
    BY <2>4, RunOnKeeps
  <2> QED BY <1>1, <1>2, <1>5, <2>5, Whole DEF Ran
<1>8. CASE RunOn(p, proc[p].todo, proc[p].seen, {u}, enqueued)
  <2>1. \A v \in Nat : Accounted(v) => Kept(v, enqueued)
    BY <1>1 DEF Accounted, Kept, Elsewhere
  <2>2. {u} \subseteq proc[p].todo /\ \A v \in {u} : Foremost(v, proc[p].todo)
    BY <1>4 DEF Foremost
  <2>3. RunsOn(p, proc[p].todo, proc[p].seen, {u}, enqueued)
    BY <1>1, <1>2, <1>6, <1>8, <2>1, <2>2, Numbers DEF RunsOn, Elsewhere
  <2>4. Ran(p)
    BY <2>3, RunOnKeeps
  <2> QED BY <1>1, <1>2, <1>5, <2>4, Whole DEF Ran
<1>9. CASE MoveTo(p, "approve") /\ Begin({u}) /\ UNCHANGED <<enqueued, completed, turn>>
  <2>1. PICK b \in Batch : b = proc[p]
    BY Reached
  <2>2. Sound(b)
    BY <2>1, Reached
  <2> DEFINE c == [b EXCEPT !.at = "approve"]
  <2>3. proc' = [proc EXCEPT ![p] = c]
    BY <1>9, <2>1 DEF MoveTo, IntakeInv, IntakeTyped
  <2>4. c \in Batch
    BY DEF Batch, Places
  <2>5. /\ c.at = "approve" /\ c.todo = b.todo /\ c.seen = b.seen /\ c.queued = b.queued
        /\ c.album = b.album
    BY DEF Batch
  <2> HIDE DEF c
  <2>6. Onward
    BY <1>1, <1>9, SameLevel
  <2>7. Sound(b)'
    BY <2>2, <2>6, Numbers, SteadyBatch
  <2>8. Sound(c)'
    BY <1>3, <2>1, <2>5, <2>7 DEF Sound, Placed, InOrder, AtWork
  <2>9. Ended' /\ turn' \in [Processors \X Updates -> Phase]
    BY <1>1, <1>9 DEF IntakeInv, IntakeTyped, Ended, Elsewhere
  <2>10. begun' \in SUBSET Updates
    BY <1>4, <1>9 DEF Begin, IntakeInv, IntakeTyped
  <2>11. Steps /\ proc'[p] = c /\ \A q \in Processors : q # p => proc'[q] = proc[q]
    <3>1. service' = service /\ enqueued' \subseteq enqueued
      BY <1>1, <1>9 DEF Elsewhere
    <3>2. \A e \in completed' : e \in completed
      BY <1>9
    <3> QED BY <1>2, <1>5, <2>3, <2>4, <2>6, <2>8, <2>9, <2>10, <3>1, <3>2, StepOf
  <2> QED BY <1>1, <1>2, <1>5, <2>5, <2>11, Whole
<1> QED BY <1>7, <1>8, <1>9 DEF Acknowledged, u

LEMMA ConfigReadKeeps ==
  ASSUME IntakeInv, IntakeAssumption, NEW p \in Processors, ConfigRead(p) PROVE IntakeInv'
<1> DEFINE u == First(p, proc[p].todo)
<1>1. Elsewhere /\ service # "down" /\ UNCHANGED <<writes, completed, refused, givenUp, slipped, faults>>
  BY DEF ConfigRead, At, failures
<1>2. proc[p].at = "config" /\ ~Prompt
  <2>1. proc[p].at = "config"
    BY DEF ConfigRead, At
  <2> QED BY <2>1 DEF IntakeInv, Once
<1>3. proc[p].todo # {}
  BY <1>2, Reached DEF Sound, AtWork
<1>4. Foremost(u, proc[p].todo) /\ u \in Updates /\ u \in Nat
  BY <1>3, FirstOf, Numbers
<1>5. completed' \in SUBSET Updates
  BY <1>1 DEF IntakeInv, IntakeTyped
<1>6. proc[p].seen \in 0..N /\ proc[p].seen <= lastHandled
  BY Reached DEF Batch, Sound
<1> HIDE DEF u
<1>7. CASE RunOn(p, proc[p].todo, proc[p].seen, {u}, enqueued) /\ UNCHANGED settled
  <2>1. \A v \in Nat : Accounted(v) => Kept(v, enqueued)
    BY <1>1 DEF Accounted, Kept, Elsewhere
  <2>2. {u} \subseteq proc[p].todo /\ \A v \in {u} : Foremost(v, proc[p].todo)
    BY <1>4 DEF Foremost
  <2>3. RunsOn(p, proc[p].todo, proc[p].seen, {u}, enqueued)
    BY <1>1, <1>2, <1>6, <1>7, <2>1, <2>2, Numbers DEF RunsOn, Elsewhere
  <2>4. Ran(p)
    BY <2>3, RunOnKeeps
  <2> QED BY <1>1, <1>2, <1>5, <2>4, Whole DEF Ran
<1>8. CASE /\ MarkNext(p, u) /\ settled' = settled \cup Covered(u)
           /\ UNCHANGED <<enqueued, turn, begun, twice>>
  <2>1. u \in Covered(u)
    BY <1>4, CoversIt DEF IntakeInv, IntakeTyped
  <2>2. turn' \in [Processors \X Updates -> Phase]
    BY <1>8 DEF IntakeInv, IntakeTyped
  <2> QED BY <1>1, <1>2, <1>3, <1>4, <1>8, <2>1, <2>2, MarkNextKeeps
<1> QED BY <1>7, <1>8 DEF ConfigRead, u

LEMMA ApprovedKeeps ==
  ASSUME IntakeInv, IntakeAssumption, NEW p \in Processors, Approved(p) PROVE IntakeInv'
<1> DEFINE u == First(p, proc[p].todo)
<1>1. /\ Elsewhere /\ service # "down" /\ proc[p].at = "approve"
      /\ UNCHANGED <<writes, enqueued, completed, turn, begun, twice, refused, givenUp, slipped>>
      /\ MarkNext(p, u) /\ settled' = settled \cup Covered(u)
  BY DEF Approved, At, failures
<1>2. proc[p].todo # {}
  BY <1>1, Reached DEF Sound, AtWork
<1>3. Foremost(u, proc[p].todo) /\ u \in Updates
  BY <1>2, FirstOf
<1>4. u \in Covered(u)
  BY <1>3, CoversIt DEF IntakeInv, IntakeTyped
<1>5. turn' \in [Processors \X Updates -> Phase]
  BY <1>1 DEF IntakeInv, IntakeTyped
<1> HIDE DEF u
<1> QED BY <1>1, <1>2, <1>3, <1>4, <1>5, MarkNextKeeps

LEMMA StoppedKeeps ==
  ASSUME IntakeInv, IntakeAssumption, NEW p \in Processors, Stopped(p) PROVE IntakeInv'
<1> DEFINE u == First(p, proc[p].todo)
<1>1. /\ Elsewhere /\ service # "down" /\ proc[p].at = "stop"
      /\ UNCHANGED <<writes, enqueued, completed, begun, twice, refused, givenUp, slipped>> /\ MarkNext(p, u)
  BY DEF Stopped, At, failures
<1>2. PICK cut \in SUBSET {pu \in DOMAIN turn : turn[pu] = "queued"} :
        /\ turn' = [pu \in DOMAIN turn |-> IF pu \in cut THEN "ended" ELSE turn[pu]]
        /\ settled' = settled \cup Covered(u) \cup UNION {Covered(pu[2]) : pu \in cut}
  BY DEF Stopped
<1>3. proc[p].todo # {}
  BY <1>1, Reached DEF Sound, AtWork
<1>4. Foremost(u, proc[p].todo) /\ u \in Updates
  BY <1>3, FirstOf
<1>5. \A v \in Updates : v \in Covered(v)
  BY CoversIt DEF IntakeInv, IntakeTyped
<1>6. turn \in [Processors \X Updates -> Phase]
  BY DEF IntakeInv, IntakeTyped
<1>7. turn' \in [Processors \X Updates -> Phase]
  BY <1>2, <1>6 DEF Phase
<1>8. ASSUME NEW pu \in Processors \X Updates
      PROVE  turn'[pu] = turn[pu] \/ turn'[pu] = "none" \/ (turn'[pu] = "ended" /\ pu[2] \in settled')
  <2>1. CASE pu \in cut
    <3>1. pu[2] \in Covered(pu[2])
      BY <1>5
    <3>2. pu[2] \in settled'
      BY <1>2, <2>1, <3>1
    <3> QED BY <1>2, <1>6, <2>1, <3>2
  <2>2. CASE pu \notin cut
    BY <1>2, <1>6, <2>2
  <2> QED BY <2>1, <2>2
<1>9. u \in settled' /\ settled \subseteq settled'
  BY <1>2, <1>4, <1>5
<1> HIDE DEF u
<1> QED BY <1>1, <1>3, <1>4, <1>7, <1>8, <1>9, MarkNextKeeps

-----------------------------------------------------------------------------
(* The watermark *)

\* What holds when an update has been marked: the completed ones that are
\* dropped are below the watermark, and so is the marked one if it is not kept.
Marking(p, seen, done) ==
  /\ proc[p].at \in {"mark", "flush", "write"}
  /\ kind' = kind /\ service' = service /\ service # "down" /\ arrived' = arrived
  /\ UNCHANGED <<settled, refused, givenUp, slipped>>
  /\ lastHandled' \in 0..N /\ lastHandled <= lastHandled' /\ seen \in 0..N /\ seen <= lastHandled'
  /\ Orderly => seen = lastHandled'
  /\ done \subseteq completed /\ \A c \in completed : c \in done \/ c <= lastHandled'
  /\ proc[p].marks \in done \/ proc[p].marks <= lastHandled'

LEMMA MarkedKeeps ==
  ASSUME IntakeInv, IntakeAssumption, NEW p \in Processors, NEW seen, NEW done,
         Marking(p, seen, done), Marked(p, seen, done)
  PROVE  Ran(p) /\ completed' = done
<1>1. PICK b \in Batch : b = proc[p]
  BY Reached
<1>2. Sound(b) /\ b.at \in {"mark", "flush", "write"} /\ b.marks \in 0..N /\ b.marks \in Nat
  <2>1. Sound(b)
    BY <1>1, Reached
  <2>2. b.at \in {"mark", "flush", "write"}
    BY <1>1 DEF Marking
  <2>3. b.marks \in 0..N /\ N \in Nat
    BY Numbers DEF Batch
  <2>4. b.marks \in Nat
    BY <2>3
  <2> QED BY <2>1, <2>2, <2>3, <2>4
<1>3. Foremost(b.marks, IF b.todo # {} THEN b.todo ELSE b.queued)
  BY <1>2 DEF Sound, AtWork
<1>4. completed' = done
  BY DEF Marked
<1>5. b.queued \in SUBSET Updates /\ Placed(b, b.queued)
  BY <1>2 DEF Batch, Sound, Placed
<1>6. lastHandled' \in Nat /\ lastHandled \in Nat /\ lastHandled <= lastHandled'
  BY Numbers DEF Marking
<1>7. CASE b.todo = {}
  <2>1. First(p, b.queued) = b.marks /\ b.queued # {}
    <3>1. Foremost(b.marks, b.queued)
      BY <1>3, <1>7
    <3>2. b.queued # {}
      BY <3>1 DEF Foremost
    <3>3. Foremost(First(p, b.queued), b.queued)
      BY <1>1, <1>5, <3>2, Numbers, FirstIs
    <3>4. First(p, b.queued) \in Nat /\ First(p, b.queued) <= b.marks /\ b.marks <= First(p, b.queued)
      BY <1>5, <3>1, <3>3, Numbers DEF Foremost
    <3> QED BY <1>2, <3>2, <3>4
  <2> DEFINE c == [b EXCEPT !.at = "wait", !.queued = b.queued \ {b.marks}, !.seen = seen, !.marks = 0,
                            !.next = 0, !.retry = FALSE]
  <2>2. /\ proc' = [proc EXCEPT ![p] = c] /\ enqueued' = enqueued \ {b.marks}
        /\ UNCHANGED <<turn, begun, twice>>
    BY <1>1, <1>7, <2>1 DEF Marked
  <2>3. c \in Batch
    <3>1. seen \in 0..N /\ 0 \in 0..N /\ b.queued \ {b.marks} \in SUBSET Updates
      BY <1>5, Numbers DEF Marking
    <3> QED BY <3>1 DEF Batch, Places
  <2>4. /\ c.at = "wait" /\ c.todo = {} /\ c.seen = seen /\ c.queued = b.queued \ {b.marks}
        /\ c.album = b.album
    BY <1>7 DEF Batch
  <2> HIDE DEF c
  <2>5. Onward
    <3>1. ASSUME NEW u \in Nat, Accounted(u)
          PROVE  Accounted(u)'
      <4>1. CASE u = b.marks
        BY <1>1, <1>4, <4>1 DEF Marking, Accounted
      <4>2. CASE u \in completed
        BY <1>4, <4>2 DEF Marking, Accounted
      <4>3. CASE u <= lastHandled
        BY <1>6, <4>3 DEF Accounted
      <4>4. CASE u # b.marks /\ u \in enqueued
        BY <2>2, <4>4 DEF Accounted
      <4>5. CASE (service = "stopping" \/ slipped # {}) /\ u \in Over
        BY <4>5 DEF Marking, Accounted, Over
      <4> QED BY <3>1, <4>1, <4>2, <4>3, <4>4, <4>5 DEF Accounted
    <3> QED BY <1>4, <1>6, <3>1, Numbers DEF Onward, Marking
  <2>6. Sound(b)'
    BY <1>2, <2>5, Numbers, SteadyBatch
  <2>7. Sound(c)'
    <3>1. (c.seen <= lastHandled)'
      BY <2>4 DEF Marking
    <3> QED BY <2>4, <2>6, <3>1 DEF Sound, Placed, InOrder, AtWork
  <2>8. completed' \subseteq Updates /\ \A e \in completed' : e \in completed
    BY <1>4 DEF Marking, IntakeInv, IntakeTyped
  <2>9. Ended' /\ turn' \in [Processors \X Updates -> Phase] /\ begun' \in SUBSET Updates
    BY <2>2, <2>8 DEF IntakeInv, IntakeTyped, Ended, Marking
  <2>10. Steps /\ proc'[p] = c /\ \A q \in Processors : q # p => proc'[q] = proc[q]
    <3>1. service' = service /\ enqueued' \subseteq enqueued
      BY <2>2 DEF Marking
    <3>2. Prompt => UNCHANGED <<begun, twice>> /\ c.at \notin {"ack", "config", "approve"}
      BY <2>2, <2>4
    <3> QED BY <2>2, <2>3, <2>5, <2>7, <2>8, <2>9, <3>1, <3>2, StepOf
  <2> QED BY <1>4, <2>4, <2>10 DEF Ran
<1>8. CASE b.todo # {}
  <2> DEFINE enq == IF kind[b.marks] = "stop" THEN enqueued \ {b.marks} ELSE enqueued
  <2>1. RunOn(p, b.todo \ {b.marks}, seen, {}, enq)
    BY <1>1, <1>8 DEF Marked
  <2>2. enq \subseteq enqueued /\ enqueued \ enq \subseteq {b.marks}
    OBVIOUS
  <2> HIDE DEF enq
  <2>3. Kept(b.marks, enq)
    BY <1>1, <1>4 DEF Marking, Kept
  <2>4. ASSUME NEW u \in Nat, Accounted(u)
        PROVE  Kept(u, enq)
    <3>1. CASE u <= lastHandled
      BY <1>6, <3>1 DEF Kept
    <3>2. CASE u \in completed
      BY <1>4, <3>2 DEF Marking, Kept
    <3>3. CASE u \in enqueued
      BY <2>2, <2>3, <3>3 DEF Kept
    <3>4. CASE (service = "stopping" \/ slipped # {}) /\ u \in Over
      BY <3>4 DEF Kept
    <3> QED BY <2>4, <3>1, <3>2, <3>3, <3>4 DEF Accounted
  <2>5. \A u \in proc[p].todo \ (b.todo \ {b.marks}) : Kept(u, enq)
    BY <1>1, <2>3
  <2>6. (enqueued \ enq) \cap (b.todo \ {b.marks}) = {}
    BY <2>2
  <2>7. RunsOn(p, b.todo \ {b.marks}, seen, {}, enq)
    BY <1>1, <1>4, <2>1, <2>2, <2>4, <2>5, <2>6 DEF RunsOn, Marking
  <2>8. Ran(p)
    BY <2>7, RunOnKeeps
  <2> QED BY <1>4, <2>8
<1> QED BY <1>7, <1>8

\* The next watermark is never ahead of an update that was not handled, and
\* while the service is up it is the one after the last.
LEMMA NextIs ==
  ASSUME IntakeInv, IntakeAssumption, NEW seen \in Nat, NEW lh \in Nat, NEW done \in SUBSET completed,
         lastHandled <= lh, seen <= lh, \A c \in completed : c \in done \/ c <= seen,
         \A u \in 1..lh : u \in Over, Flushable(seen, done) # {}
  PROVE  LET w == Min(Flushable(seen, done)) IN
         /\ w \in Updates /\ \A u \in 1..w : u \in Over
         /\ (Orderly /\ seen = lh) => w = lh + 1
<1> DEFINE F == Flushable(seen, done)
<1>1. F \subseteq Nat /\ F \subseteq done /\ F \subseteq completed
  BY Numbers DEF Flushable
<1>2. \A c \in F : c > seen /\ \A e \in enqueued \ done : e > seen => e > c
  BY DEF Flushable
<1> DEFINE w == Min(F)
<1>3. w \in F /\ \A c \in F : w <= c
  BY <1>1, MinIs
<1>4. \A c : (c \in done /\ c > seen /\ \A e \in enqueued \ done : e > seen => e > c) => c \in F
  BY DEF Flushable
<1> HIDE DEF F, w
<1>5. w \in Nat /\ w \in completed /\ w > seen /\ completed \subseteq Updates
  BY <1>1, <1>2, <1>3 DEF IntakeInv, IntakeTyped
<1>6. ASSUME NEW u \in 1..w
      PROVE  u \in Over
  <2>0. u \in Nat /\ u <= w /\ 1 <= u
    BY <1>5
  <2>1. CASE u <= lh
    <3>1. u \in 1..lh
      BY <2>0, <2>1
    <3> QED BY <3>1
  <2>2. CASE ~(u <= lh)
    <3>1. Accounted(u)
      BY <1>5 DEF IntakeInv, Behind
    <3>2. ~(u <= lastHandled) /\ u > seen
      BY <2>0, <2>2, Numbers
    <3>3. CASE u \in completed
      BY <3>3 DEF IntakeInv, Ended, Over
    <3>4. CASE u \in enqueued \ done
      <4>1. u > w
        BY <1>2, <1>3, <3>2, <3>4
      <4> QED BY <1>5, <2>0, <4>1
    <3>5. CASE u \in Over
      BY <3>5
    <3> QED BY <3>1, <3>2, <3>3, <3>4, <3>5 DEF Accounted
  <2> QED BY <2>1, <2>2
<1>7. ASSUME Orderly, seen = lh
      PROVE  w = lh + 1
  <2> DEFINE u == lh + 1
  <2>1. u \in Nat /\ u \in 1..w /\ u > seen /\ ~(u <= lastHandled) /\ ~(u <= seen)
    BY <1>5, <1>7, Numbers
  <2>2. Accounted(u)
    BY <1>5, <2>1 DEF IntakeInv, Behind
  <2>3. u \in enqueued \cup completed
    BY <1>7, <2>1, <2>2 DEF Accounted, Orderly
  <2>4. u <= w
    BY <1>5, <1>7
  <2>5. u \in done
    <3>1. CASE u \in completed
      BY <2>1, <3>1
    <3>2. CASE u \in enqueued \ done
      <4>1. u > w
        BY <1>2, <1>3, <2>1, <3>2
      <4> QED BY <1>5, <2>1, <2>4, <4>1
    <3> QED BY <2>3, <3>1, <3>2
  <2>6. \A e \in enqueued \ done : e > seen => e > u
    <3> SUFFICES ASSUME NEW e \in enqueued \ done, e > seen
                 PROVE  e > u
      OBVIOUS
    <3>1. e \in Nat /\ e # u
      BY <2>5, Numbers
    <3> QED BY <1>7, <3>1
  <2>7. u \in F
    BY <1>4, <2>1, <2>5, <2>6
  <2>8. w <= u
    BY <1>3, <2>7
  <2> QED BY <1>5, <2>4, <2>8
<1> QED BY <1>1, <1>3, <1>5, <1>6, <1>7 DEF w, F

\* The writes of the other processors, in their line.
OthersInLine(o, p) ==
  /\ o \in Seq(Processors)
  /\ \A i \in DOMAIN o : o[i] \in Processors /\ o[i] # p /\ proc[o[i]].at = "write"
  /\ \A i, j \in DOMAIN o : i # j => o[i] # o[j]
  /\ \A q \in Processors : q # p /\ proc[q].at = "write" => \E i \in DOMAIN o : o[i] = q
  /\ Orderly => \A i, j \in DOMAIN o : i < j => proc[o[i]].next <= proc[o[j]].next

LEMMA AllOthers ==
  ASSUME IntakeInv, NEW p \in Processors, proc[p].at # "write"
  PROVE  OthersInLine(writes, p)
<1>1. writes \in Seq(Processors) /\ \A i \in DOMAIN writes : writes[i] \in Processors
  BY DEF IntakeInv, IntakeTyped
<1> QED BY <1>1 DEF IntakeInv, InLine, OthersInLine

LEMMA TailOthers ==
  ASSUME IntakeInv, NEW p \in Processors, proc[p].at = "write", Head(writes) = p
  PROVE  /\ OthersInLine(Tail(writes), p)
         /\ Orderly => \A q \in Processors : proc[q].at = "write" => proc[p].next <= proc[q].next
<1>1. writes \in Seq(Processors) /\ InLine /\ Len(writes) \in Nat /\ DOMAIN writes = 1..Len(writes)
  BY DEF IntakeInv, IntakeTyped
<1>2. PICK k \in DOMAIN writes : writes[k] = p
  BY <1>1 DEF InLine
<1>3. Len(writes) >= 1 /\ 1 \in DOMAIN writes /\ writes[1] = p
  BY <1>1, <1>2
<1> DEFINE o == Tail(writes)
<1>4. o \in Seq(Processors) /\ DOMAIN o = 1..(Len(writes) - 1)
  BY <1>1, <1>3
<1>5. \A i \in DOMAIN o : o[i] = writes[i + 1] /\ i \in Nat /\ i + 1 \in DOMAIN writes /\ i + 1 # 1
  BY <1>1, <1>3, <1>4
<1>6. \A j \in DOMAIN writes : j # 1 => j - 1 \in DOMAIN o /\ (j - 1) + 1 = j
  BY <1>1, <1>3, <1>4
<1> HIDE DEF o
<1>7. \A i \in DOMAIN o : o[i] \in Processors
  BY <1>4
<1>8. \A i \in DOMAIN o : o[i] # p /\ proc[o[i]].at = "write"
  BY <1>1, <1>3, <1>5 DEF InLine
<1>9. \A i, j \in DOMAIN o : i # j => o[i] # o[j]
  <2> SUFFICES ASSUME NEW i \in DOMAIN o, NEW j \in DOMAIN o, i # j PROVE o[i] # o[j]
    OBVIOUS
  <2>1. i + 1 # j + 1
    BY <1>5
  <2> QED BY <1>1, <1>5, <2>1 DEF InLine
<1>10. \A q \in Processors : q # p /\ proc[q].at = "write" => \E i \in DOMAIN o : o[i] = q
  <2> SUFFICES ASSUME NEW q \in Processors, q # p, proc[q].at = "write"
               PROVE  \E i \in DOMAIN o : o[i] = q
    OBVIOUS
  <2>1. PICK j \in DOMAIN writes : writes[j] = q
    BY <1>1 DEF InLine
  <2>2. j # 1
    BY <1>3, <2>1
  <2> QED BY <1>5, <1>6, <2>1, <2>2
<1>11. Orderly => \A i, j \in DOMAIN o : i < j => proc[o[i]].next <= proc[o[j]].next
  <2> SUFFICES ASSUME Orderly, NEW i \in DOMAIN o, NEW j \in DOMAIN o, i < j
               PROVE  proc[o[i]].next <= proc[o[j]].next
    OBVIOUS
  <2>1. i + 1 < j + 1
    BY <1>5
  <2> QED BY <1>1, <1>5, <2>1 DEF InLine
<1>12. ASSUME Orderly, NEW q \in Processors, proc[q].at = "write"
       PROVE  proc[p].next <= proc[q].next
  <2>1. PICK j \in DOMAIN writes : writes[j] = q
    BY <1>1, <1>12 DEF InLine
  <2>2. CASE j = 1
    <3>1. q = p /\ proc[p].next \in Nat
      BY <1>3, <2>1, <2>2 DEF IntakeInv, IntakeTyped, Batch
    <3> QED BY <3>1
  <2>3. CASE j # 1
    <3>1. 1 < j
      BY <1>1, <2>3
    <3> QED BY <1>1, <1>3, <1>12, <2>1, <3>1 DEF InLine
  <2> QED BY <2>2, <2>3
<1> QED BY <1>4, <1>7, <1>8, <1>9, <1>10, <1>11, <1>12 DEF OthersInLine, o

\* What the watermark has to be for the writes of the others to stay in line.
Level(p) ==
  Orderly => \A q \in Processors : q # p /\ proc[q].at = "write" =>
    lastHandled' <= proc[q].next /\ proc[q].next <= lastHandled' + 1

LEMMA ShorterLine ==
  ASSUME NEW p \in Processors, NEW o, OthersInLine(o, p), Level(p), Orderly' => Orderly, writes' = o,
         proc'[p].at # "write", \A q \in Processors : q # p => proc'[q] = proc[q]
  PROVE  InLine'
<1>1. \A i \in DOMAIN o : proc'[o[i]] = proc[o[i]]
  BY DEF OthersInLine
<1>2. (\A i \in DOMAIN writes : proc[writes[i]].at = "write")'
  BY <1>1 DEF OthersInLine
<1>3. (\A i, j \in DOMAIN writes : i # j => writes[i] # writes[j])'
  BY DEF OthersInLine
<1>4. (\A q \in Processors : proc[q].at = "write" => \E i \in DOMAIN writes : writes[i] = q)'
  BY DEF OthersInLine
<1>5. (Orderly => \A i, j \in DOMAIN writes : i < j => proc[writes[i]].next <= proc[writes[j]].next)'
  BY <1>1 DEF OthersInLine
<1>6. (Orderly => \A q \in Processors : proc[q].at = "write" =>
            lastHandled <= proc[q].next /\ proc[q].next <= lastHandled + 1)'
  BY DEF Level
<1> QED BY <1>2, <1>3, <1>4, <1>5, <1>6 DEF InLine

LEMMA LongerLine ==
  ASSUME NEW p \in Processors, NEW o, OthersInLine(o, p), Level(p), Orderly' => Orderly,
         writes' = Append(o, p), proc'[p].at = "write", lastHandled' \in Nat,
         Orderly => proc'[p].next = lastHandled' + 1,
         \A q \in Processors : q # p => proc'[q] = proc[q]
  PROVE  InLine'
<1> DEFINE n == Len(o) + 1
<1>1. /\ o \in Seq(Processors) /\ Len(o) \in Nat /\ DOMAIN o = 1..Len(o) /\ DOMAIN writes' = 1..n
      /\ writes'[n] = p /\ \A i \in DOMAIN o : writes'[i] = o[i]
  BY DEF OthersInLine
<1>2. \A i \in DOMAIN writes' : i = n \/ (i \in DOMAIN o /\ i # n)
  BY <1>1
<1>3. \A i \in DOMAIN o : i \in DOMAIN writes' /\ ~(n < i)
  BY <1>1
<1>4. n \in DOMAIN writes' /\ ~(n < n)
  BY <1>1
<1> HIDE DEF n
<1>5. \A i \in DOMAIN o : proc'[o[i]] = proc[o[i]] /\ o[i] # p
  BY DEF OthersInLine
<1>6. (\A i \in DOMAIN writes : proc[writes[i]].at = "write")'
  BY <1>1, <1>2, <1>5 DEF OthersInLine
<1>7. (\A i, j \in DOMAIN writes : i # j => writes[i] # writes[j])'
  BY <1>1, <1>2, <1>5 DEF OthersInLine
<1>8. (\A q \in Processors : proc[q].at = "write" => \E i \in DOMAIN writes : writes[i] = q)'
  <2> SUFFICES ASSUME NEW q \in Processors, proc'[q].at = "write"
               PROVE  \E i \in DOMAIN writes' : writes'[i] = q
    OBVIOUS
  <2>1. CASE q = p
    BY <1>1, <1>4, <2>1
  <2>2. CASE q # p
    <3>1. PICK i \in DOMAIN o : o[i] = q
      BY <2>2 DEF OthersInLine
    <3> QED BY <1>1, <1>3, <3>1
  <2> QED BY <2>1, <2>2
<1>9. (Orderly => \A q \in Processors : proc[q].at = "write" =>
            lastHandled <= proc[q].next /\ proc[q].next <= lastHandled + 1)'
  <2> SUFFICES ASSUME Orderly, NEW q \in Processors, proc'[q].at = "write"
               PROVE  lastHandled' <= proc'[q].next /\ proc'[q].next <= lastHandled' + 1
    OBVIOUS
  <2>1. CASE q = p
    BY <2>1
  <2>2. CASE q # p
    BY <2>2 DEF Level
  <2> QED BY <2>1, <2>2
<1>10. (Orderly => \A i, j \in DOMAIN writes : i < j => proc[writes[i]].next <= proc[writes[j]].next)'
  <2> SUFFICES ASSUME Orderly, NEW i \in DOMAIN writes', NEW j \in DOMAIN writes', i < j
               PROVE  proc'[writes'[i]].next <= proc'[writes'[j]].next
    OBVIOUS
  <2>1. i # n
    BY <1>2, <1>3, <1>4
  <2>2. i \in DOMAIN o
    BY <1>2, <2>1
  <2>3. CASE j = n
    <3>1. o[i] \in Processors /\ o[i] # p /\ proc[o[i]].at = "write"
      BY <2>2 DEF OthersInLine
    <3>2. proc[o[i]].next <= lastHandled' + 1
      BY <3>1 DEF Level
    <3>3. proc'[writes'[i]].next = proc[o[i]].next /\ proc'[writes'[j]].next = lastHandled' + 1
      BY <1>1, <1>5, <2>2, <2>3
    <3> QED BY <3>2, <3>3
  <2>4. CASE j # n
    <3>1. j \in DOMAIN o
      BY <1>2, <2>4
    <3> QED BY <1>1, <1>5, <2>2, <3>1 DEF OthersInLine
  <2> QED BY <2>3, <2>4
<1> QED BY <1>6, <1>7, <1>8, <1>9, <1>10 DEF InLine

\* The completed updates are flushed: the update is marked, or another write asked for.
LEMMA FlushKeeps ==
  ASSUME IntakeInv, IntakeAssumption, NEW p \in Processors, NEW seen, NEW done, NEW o,
         Flush(p, seen, done, o), Marking(p, seen, done), proc[p].at \in {"flush", "write"},
         OthersInLine(o, p), Level(p), \A c \in completed : c \in done \/ c <= seen,
         (\A u \in 1..lastHandled : u \in Over)',
         UNCHANGED <<forgotten, offset>>
  PROVE  IntakeInv'
<1>1. seen \in Nat /\ lastHandled' \in Nat /\ seen <= lastHandled' /\ lastHandled <= lastHandled'
  BY Numbers DEF Marking
<1>2. done \in SUBSET completed /\ done \subseteq Updates
  BY DEF Marking, IntakeInv, IntakeTyped
<1>3. (\A u \in 1..lastHandled' : u \in Over) /\ (Orderly' => Orderly)
  BY DEF Marking, Over, Orderly
<1>4. Passed'
  <2>1. /\ forgotten \in Nat /\ offset \in Nat /\ lastHandled \in Nat
        /\ forgotten <= lastHandled /\ offset <= lastHandled + 1
    BY Numbers DEF IntakeInv, IntakeTyped, Passed
  <2>2. forgotten' = forgotten /\ offset' = offset
    OBVIOUS
  <2>3. forgotten <= lastHandled'
    BY ONLY <1>1, <2>1
  <2>4. offset <= lastHandled' + 1
    <3>1. ASSUME NEW a \in Nat, NEW b \in Nat, NEW c \in Nat, a <= b + 1, b <= c
          PROVE  a <= c + 1
      BY ONLY <3>1, a \in Nat, b \in Nat, c \in Nat
    <3>2. lastHandled <= lastHandled' /\ lastHandled' \in Nat
      BY <1>1
    <3> QED BY ONLY <2>1, <3>1, <3>2, Zenon
  <2> QED BY <2>2, <2>3, <2>4 DEF Passed
<1>5. CASE Flushable(seen, done) = {}
  <2>1. Marked(p, seen, done) /\ writes' = o
    BY <1>5 DEF Flush
  <2>2. Ran(p) /\ completed' = done
    BY <2>1, MarkedKeeps
  <2>3. InLine'
    BY <1>3, <2>1, <2>2, ShorterLine DEF Ran
  <2>4. writes' \in Seq(Processors)
    BY <2>1 DEF OthersInLine
  <2>5. IntakeTyped'
    BY <1>2, <2>2, <2>4 DEF IntakeInv, IntakeTyped, Ran, Steps, Marking
  <2> QED BY <1>4, <2>2, <2>3, <2>5 DEF Ran, Steps, IntakeInv, Gone, Marking
<1>6. CASE Flushable(seen, done) # {}
  <2> DEFINE w == Min(Flushable(seen, done))
  <2>1. /\ proc' = [proc EXCEPT ![p] = [@ EXCEPT !.at = "write", !.seen = seen, !.next = w]]
        /\ completed' = done /\ writes' = Append(o, p) /\ UNCHANGED <<enqueued, turn, begun, twice>>
    BY <1>6 DEF Flush
  <2>2. /\ w \in Updates /\ \A u \in 1..w : u \in Over
        /\ Orderly => w = lastHandled' + 1
    <3>1. Orderly => seen = lastHandled'
      BY DEF Marking
    <3>2. PICK lh \in Nat : lh = lastHandled'
      BY <1>1
    <3> QED BY <1>1, <1>2, <1>3, <1>6, <3>1, <3>2, NextIs
  <2>3. PICK b \in Batch : b = proc[p]
    BY Reached
  <2>4. PICK x \in Updates : x = w
    BY <2>2
  <2> HIDE DEF w
  <2>5. Sound(b)
    BY <2>3, Reached
  <2> DEFINE c == [b EXCEPT !.at = "write", !.seen = seen, !.next = x]
  <2>6. proc' = [proc EXCEPT ![p] = c]
    BY <2>1, <2>3, <2>4
  <2>7. c \in Batch
    <3>1. seen \in 0..N /\ x \in 0..N
      BY Numbers DEF Marking, Updates
    <3> QED BY <3>1 DEF Batch, Places
  <2>8. /\ c.at = "write" /\ c.todo = b.todo /\ c.seen = seen /\ c.queued = b.queued
        /\ c.album = b.album /\ c.marks = b.marks /\ c.next = x
    BY DEF Batch
  <2> HIDE DEF c
  <2>9. Onward
    <3>1. ASSUME NEW u \in Nat, Accounted(u)
          PROVE  Accounted(u)'
      <4>1. CASE u <= lastHandled
        BY <1>1, <4>1, Numbers DEF Accounted
      <4>2. CASE u \in completed
        BY <2>1, <4>2 DEF Accounted, Marking
      <4>3. CASE u \in enqueued
        BY <2>1, <4>3 DEF Accounted
      <4>4. CASE (service = "stopping" \/ slipped # {}) /\ u \in Over
        BY <4>4 DEF Accounted, Marking, Over
      <4> QED BY <3>1, <4>1, <4>2, <4>3, <4>4 DEF Accounted
    <3> QED BY <1>1, <2>1, <3>1, Numbers DEF Onward, Marking
  <2>10. Sound(b)'
    BY <2>5, <2>9, Numbers, SteadyBatch
  <2>11. Sound(c)'
    <3>1. (c.seen <= lastHandled)'
      BY <1>1, <2>8
    <3>2. (c.marks \in completed \/ c.marks <= lastHandled)'
      BY <2>1, <2>3, <2>8 DEF Marking
    <3>3. b.at \in {"flush", "write"}
      BY <2>3
    <3>4. c.next \in Updates /\ \A u \in 1..c.next : u \in Over'
      BY <2>2, <2>4, <2>8 DEF Marking, Over
    <3> QED BY <2>8, <2>10, <3>1, <3>2, <3>3, <3>4 DEF Sound, Placed, InOrder, AtWork
  <2>12. completed' \subseteq Updates /\ \A e \in completed' : e \in completed
    BY <1>2, <2>1
  <2>13. Ended' /\ turn' \in [Processors \X Updates -> Phase] /\ begun' \in SUBSET Updates
    BY <2>1, <2>12 DEF IntakeInv, IntakeTyped, Ended, Marking
  <2>14. Steps /\ proc'[p] = c /\ \A q \in Processors : q # p => proc'[q] = proc[q]
    <3>1. service' = service /\ enqueued' \subseteq enqueued
      BY <2>1 DEF Marking
    <3>2. Prompt => UNCHANGED <<begun, twice>> /\ c.at \notin {"ack", "config", "approve"}
      BY <2>1, <2>8
    <3> QED BY <2>6, <2>7, <2>9, <2>11, <2>12, <2>13, <3>1, <3>2, StepOf
  <2>15. InLine'
    <3>1. proc'[p].at = "write" /\ (Orderly => proc'[p].next = lastHandled' + 1)
      BY <2>2, <2>4, <2>8, <2>14
    <3> QED BY <1>1, <1>3, <2>1, <2>14, <3>1, LongerLine
  <2>16. writes' \in Seq(Processors)
    BY <2>1 DEF OthersInLine
  <2>17. IntakeTyped'
    BY <2>12, <2>14, <2>16 DEF IntakeInv, IntakeTyped, Steps, Marking
  <2> QED BY <1>4, <2>14, <2>15, <2>17 DEF Steps, IntakeInv, Gone, Marking
<1> QED BY <1>5, <1>6

LEMMA FlushCompletedKeeps ==
  ASSUME IntakeInv, IntakeAssumption, NEW p \in Processors, FlushCompleted(p) PROVE IntakeInv'
<1>1. /\ Elsewhere /\ service # "down" /\ proc[p].at = "flush"
      /\ UNCHANGED <<settled, refused, givenUp, slipped>> /\ Flush(p, lastHandled, completed, writes)
  BY DEF FlushCompleted, At, failures
<1>2. proc[p].marks \in completed \/ proc[p].marks <= lastHandled
  BY <1>1, Reached DEF Sound, AtWork
<1>3. Marking(p, lastHandled, completed)
  BY <1>1, <1>2, Numbers DEF Marking, Elsewhere
<1>4. OthersInLine(writes, p)
  BY <1>1, AllOthers
<1>5. Level(p)
  BY <1>1 DEF Level, Elsewhere, IntakeInv, InLine
<1>6. (\A u \in 1..lastHandled : u \in Over)'
  BY <1>1 DEF Elsewhere, IntakeInv, Passed, Over
<1>7. UNCHANGED <<forgotten, offset>>
  BY <1>1 DEF Elsewhere
<1> QED BY <1>1, <1>3, <1>4, <1>5, <1>6, <1>7, FlushKeeps

LEMMA WriteHandledKeeps ==
  ASSUME IntakeInv, IntakeAssumption, NEW p \in Processors, WriteHandled(p) PROVE IntakeInv'
<1> DEFINE w == proc[p].next
<1>1. /\ service # "down" /\ proc[p].at = "write" /\ Head(writes) = p
      /\ UNCHANGED <<kind, arrived, forgotten, service, offset, settled, refused, givenUp, slipped>>
      /\ lastHandled' = Max({lastHandled, w})
      /\ Flush(p, w, {c \in completed : c > w}, Tail(writes))
  BY DEF WriteHandled, At, failures
<1>2. /\ w \in Updates /\ w \in Nat /\ w \in 0..N /\ \A u \in 1..w : u \in Over
      /\ Orderly => lastHandled <= w /\ w <= lastHandled + 1
  <2>1. w \in Updates /\ \A u \in 1..w : u \in Over
    BY <1>1, Reached DEF Sound, AtWork
  <2>2. w \in Nat /\ w \in 0..N
    BY <2>1, Numbers DEF Updates
  <2> QED BY <1>1, <2>1, <2>2 DEF IntakeInv, InLine
<1> HIDE DEF w
<1>3. /\ lastHandled' = IF lastHandled <= w THEN w ELSE lastHandled
      /\ lastHandled' \in 0..N /\ lastHandled' \in Nat /\ w <= lastHandled' /\ lastHandled <= lastHandled'
      /\ Orderly => lastHandled' = w
  <2>1. lastHandled' = IF lastHandled <= w THEN w ELSE lastHandled
    BY <1>1, <1>2, Numbers, MaxOfTwo
  <2> QED BY <1>2, <2>1, Numbers
<1> DEFINE done == {c \in completed : c > w}
<1>4. done \subseteq completed /\ \A c \in completed : c \in done \/ c <= w
  BY <1>2, Numbers
<1>5. Flush(p, w, done, Tail(writes))
  BY <1>1
<1> HIDE DEF done
<1>6. \A c \in completed : c \in done \/ c <= lastHandled'
  BY <1>2, <1>3, <1>4, Numbers
<1>7. proc[p].marks \in done \/ proc[p].marks <= lastHandled'
  <2>1. proc[p].marks \in completed \/ proc[p].marks <= lastHandled
    BY <1>1, Reached DEF Sound, AtWork
  <2>2. proc[p].marks \in Nat
    BY Reached DEF Batch
  <2> QED BY <1>3, <1>6, <2>1, <2>2, Numbers
<1>8. Marking(p, w, done)
  BY <1>1, <1>2, <1>3, <1>4, <1>6, <1>7 DEF Marking
<1>9. OthersInLine(Tail(writes), p) /\ (Orderly => \A q \in Processors : proc[q].at = "write" => w <= proc[q].next)
  BY <1>1, TailOthers DEF w
<1>10. Level(p)
  <2> SUFFICES ASSUME Orderly, NEW q \in Processors, proc[q].at = "write"
               PROVE  lastHandled' <= proc[q].next /\ proc[q].next <= lastHandled' + 1
    BY DEF Level
  <2>1. proc[q].next <= lastHandled + 1 /\ proc[q].next \in Nat
    <3>1. proc[q] \in Batch
      BY Reached
    <3>2. proc[q].next \in 0..N
      BY <3>1 DEF Batch
    <3>3. InLine
      BY DEF IntakeInv
    <3>4. proc[q].next <= lastHandled + 1
      BY <3>3 DEF InLine
    <3> QED BY <3>2, <3>4
  <2> QED BY <1>2, <1>3, <1>9, <2>1, Numbers
<1>11. (\A u \in 1..lastHandled : u \in Over)'
  BY <1>1, <1>2, <1>3 DEF IntakeInv, Passed, Over
<1> QED BY <1>1, <1>4, <1>5, <1>8, <1>9, <1>10, <1>11, FlushKeeps

LEMMA MarkCompletedKeeps ==
  ASSUME IntakeInv, IntakeAssumption, NEW p \in Processors, MarkCompleted(p) PROVE IntakeInv'
<1>1. PICK b \in Batch : b = proc[p]
  BY Reached
<1>2. /\ Elsewhere /\ service # "down" /\ b.at = "mark"
      /\ UNCHANGED <<writes, settled, refused, givenUp, slipped, faults>>
      /\ proc[p].at # "write"
  BY <1>1 DEF MarkCompleted, At, failures
<1>3. Sound(b) /\ b.marks \in settled \cup givenUp /\ Foremost(b.marks, IF b.todo # {} THEN b.todo ELSE b.queued)
  BY <1>1, <1>2, Reached DEF Sound, AtWork
<1>4. b.marks \in Updates /\ b.marks \in Nat
  BY <1>3, Numbers DEF Foremost, Batch
<1>5. CASE b.marks <= lastHandled /\ Marked(p, lastHandled, completed \ {b.marks})
  <2>1. Marking(p, lastHandled, completed \ {b.marks})
    BY <1>1, <1>2, <1>5, Numbers DEF Marking, Elsewhere
  <2>2. Ran(p) /\ completed' = completed \ {b.marks}
    BY <1>5, <2>1, MarkedKeeps
  <2>3. completed' \in SUBSET Updates
    BY <2>2 DEF IntakeInv, IntakeTyped
  <2> QED BY <1>2, <2>2, <2>3, Whole DEF Ran
<1>6. CASE /\ completed' = completed \cup {b.marks} /\ MoveTo(p, "flush")
           /\ UNCHANGED <<enqueued, turn, begun, twice>>
  <2> DEFINE c == [b EXCEPT !.at = "flush"]
  <2>1. proc' = [proc EXCEPT ![p] = c]
    BY <1>1, <1>6 DEF MoveTo, IntakeInv, IntakeTyped
  <2>2. c \in Batch
    BY DEF Batch, Places
  <2>3. /\ c.at = "flush" /\ c.todo = b.todo /\ c.seen = b.seen /\ c.queued = b.queued
        /\ c.album = b.album /\ c.marks = b.marks
    BY DEF Batch
  <2> HIDE DEF c
  <2>4. Onward
    BY <1>2, <1>6, SameLevel
  <2>5. Sound(b)'
    BY <1>3, <2>4, Numbers, SteadyBatch
  <2>6. Sound(c)'
    BY <1>2, <1>6, <2>3, <2>5 DEF Sound, Placed, InOrder, AtWork
  <2>7. completed' \in SUBSET Updates /\ begun' \in SUBSET Updates
    BY <1>4, <1>6 DEF IntakeInv, IntakeTyped
  <2>8. ASSUME NEW u \in 1..b.marks
        PROVE  Accounted(u)'
    <3>1. u \in Nat /\ u <= b.marks
      BY <1>4
    <3>2. CASE b.todo # {}
      <4>1. u \in b.todo \/ Accounted(u)
        BY <1>3, <3>2 DEF Sound, InOrder, Foremost
      <4>2. CASE u \in b.todo
        <5>1. b.marks <= u
          BY <1>3, <3>2, <4>2 DEF Foremost
        <5>2. u = b.marks
          BY <1>4, <3>1, <5>1
        <5> QED BY <1>6, <5>2 DEF Accounted
      <4>3. CASE Accounted(u)
        BY <2>4, <3>1, <4>3 DEF Onward
      <4> QED BY <4>1, <4>2, <4>3
    <3>3. CASE b.todo = {}
      <4>1. Accounted(u)
        BY <1>3, <3>3 DEF Sound, InOrder, Foremost
      <4> QED BY <2>4, <3>1, <4>1 DEF Onward
    <3> QED BY <3>2, <3>3
  <2>9. \A e \in completed' : e \in completed \/ \A u \in 1..e : Accounted(u)'
    BY <1>6, <2>8
  <2>10. Ended' /\ turn' \in [Processors \X Updates -> Phase]
    BY <1>2, <1>3, <1>6 DEF IntakeInv, IntakeTyped, Ended, Elsewhere
  <2>11. Steps /\ proc'[p] = c /\ \A q \in Processors : q # p => proc'[q] = proc[q]
    <3>1. service' = service /\ enqueued' \subseteq enqueued
      BY <1>2, <1>6 DEF Elsewhere
    <3>2. Prompt => UNCHANGED <<begun, twice>> /\ c.at \notin {"ack", "config", "approve"}
      BY <1>6, <2>3
    <3> QED BY <2>1, <2>2, <2>4, <2>6, <2>7, <2>9, <2>10, <3>1, <3>2, StepOf
  <2> QED BY <1>2, <2>3, <2>7, <2>11, Whole
<1> QED BY <1>1, <1>5, <1>6 DEF MarkCompleted

\* An error is caught: the update is marked all the same, or left unmarked.
LEMMA CaughtKeeps ==
  ASSUME IntakeInv, IntakeAssumption, NEW p \in Processors, NEW u \in Updates, Caught(p, u), Elsewhere,
         Foremost(u, IF proc[p].todo # {} THEN proc[p].todo ELSE proc[p].queued),
         u \in Over', service = "up" => u \in (settled \cup givenUp)',
         settled \subseteq settled', refused \subseteq refused', givenUp \subseteq givenUp',
         UNCHANGED <<completed, begun, twice>>, turn' \in [Processors \X Updates -> Phase], Ended'
  PROVE  /\ Steps /\ proc'[p].at # "write" /\ \A q \in Processors : q # p => proc'[q] = proc[q]
         /\ completed' \in SUBSET Updates
<1>1. PICK b \in Batch : b = proc[p]
  BY Reached
<1>2. Sound(b) /\ u \in 0..N /\ 0 \in 0..N
  <2>1. Sound(b)
    BY <1>1, Reached
  <2>2. N \in Nat
    BY IntakeAssumption
  <2> QED BY <2>1, <2>2 DEF Updates
<1>3. completed' \in SUBSET Updates /\ begun' \in SUBSET Updates
  BY DEF IntakeInv, IntakeTyped
<1>4. Onward
  <2>1. slipped \subseteq slipped'
    BY DEF Caught
  <2>2. \A v \in enqueued :
          v \in enqueued' \/ ((service = "stopping" \/ slipped' # {}) /\ v \in Over')
    BY DEF Caught, LeaveUnmarked
  <2> QED BY <2>1, <2>2, SameLevel
<1>5. Sound(b)'
  BY <1>2, <1>4, Numbers, SteadyBatch
<1>6. service' = service /\ enqueued' \subseteq enqueued /\ \A e \in completed' : e \in completed
  BY DEF Caught, LeaveUnmarked, Elsewhere
<1>7. CASE service = "stopping" /\ LeaveUnmarked(p, u)
  <2> DEFINE c == [b EXCEPT !.at = "wait", !.todo = {}, !.queued = b.queued \ {u}, !.marks = 0,
                            !.next = 0, !.retry = FALSE]
  <2>1. proc' = [proc EXCEPT ![p] = c]
    BY <1>1, <1>7 DEF LeaveUnmarked
  <2>2. c \in Batch
    BY <1>2 DEF Batch, Places
  <2>3. /\ c.at = "wait" /\ c.todo = {} /\ c.seen = b.seen /\ c.queued = b.queued \ {u}
        /\ c.album = b.album
    BY DEF Batch
  <2> HIDE DEF c
  <2>4. Sound(c)'
    BY <1>5, <2>3 DEF Sound, Placed, InOrder, AtWork
  <2>5. Prompt => UNCHANGED <<begun, twice>> /\ c.at \notin {"ack", "config", "approve"}
    BY <2>3
  <2>6. Steps /\ proc'[p] = c /\ \A q \in Processors : q # p => proc'[q] = proc[q]
    BY <1>3, <1>4, <1>6, <2>1, <2>2, <2>4, <2>5, StepOf
  <2> QED BY <1>3, <2>3, <2>6
<1>8. CASE service = "up" /\ MarkAnyway(p, u)
  <2> DEFINE c == [b EXCEPT !.at = "mark", !.marks = u, !.next = 0, !.retry = TRUE]
  <2>1. proc' = [proc EXCEPT ![p] = c]
    BY <1>1, <1>8 DEF MarkAnyway
  <2>2. c \in Batch
    BY <1>2 DEF Batch, Places
  <2>3. /\ c.at = "mark" /\ c.todo = b.todo /\ c.seen = b.seen /\ c.queued = b.queued
        /\ c.album = b.album /\ c.marks = u
    BY DEF Batch
  <2> HIDE DEF c
  <2>4. Sound(c)'
    BY <1>1, <1>5, <1>8, <2>3 DEF Sound, Placed, InOrder, AtWork
  <2>5. Prompt => UNCHANGED <<begun, twice>> /\ c.at \notin {"ack", "config", "approve"}
    BY <2>3
  <2>6. Steps /\ proc'[p] = c /\ \A q \in Processors : q # p => proc'[q] = proc[q]
    BY <1>3, <1>4, <1>6, <2>1, <2>2, <2>4, <2>5, StepOf
  <2> QED BY <1>3, <2>3, <2>6
<1> QED BY <1>7, <1>8 DEF Caught

\* A write that fails is answered: the others stay in line.
LEMMA Unwritten ==
  ASSUME IntakeInv, IntakeAssumption, NEW p \in Processors, Steps, Elsewhere, service # "down",
         completed' \in SUBSET Updates, proc'[p].at # "write",
         \A q \in Processors : q # p => proc'[q] = proc[q],
         \/ proc[p].at # "write" /\ writes' = writes
         \/ proc[p].at = "write" /\ Head(writes) = p /\ writes' = Tail(writes)
  PROVE  IntakeInv'
<1>1. CASE proc[p].at # "write" /\ writes' = writes
  BY <1>1, Whole
<1>2. CASE proc[p].at = "write" /\ Head(writes) = p /\ writes' = Tail(writes)
  <2>1. OthersInLine(Tail(writes), p)
    BY <1>2, TailOthers
  <2>2. Level(p)
    BY DEF Level, Elsewhere, IntakeInv, InLine
  <2>3. Orderly' => Orderly
    BY DEF Elsewhere, Orderly, Steps, Onward
  <2>4. InLine'
    BY <1>2, <2>1, <2>2, <2>3, ShorterLine
  <2>5. writes' \in Seq(Processors)
    BY <1>2, <2>1 DEF OthersInLine
  <2>6. IntakeTyped'
    BY <2>5 DEF IntakeInv, IntakeTyped, Steps, Elsewhere
  <2>7. Passed'
    BY DEF IntakeInv, Passed, Steps, Onward, Elsewhere, Over
  <2>8. Gone'
    BY DEF Gone, Elsewhere
  <2> QED BY <2>4, <2>6, <2>7, <2>8 DEF IntakeInv, Steps
<1> QED BY <1>1, <1>2

LEMMA MarkFailsKeeps ==
  ASSUME IntakeInv, IntakeAssumption, NEW p \in Processors, MarkFails(p) PROVE IntakeInv'
<1> DEFINE u == proc[p].marks
<1>1. /\ Elsewhere /\ service # "down" /\ proc[p].at \in {"mark", "flush", "write"} /\ Caught(p, u)
      /\ UNCHANGED <<completed, turn, begun, twice, settled, refused, givenUp>>
      /\ \/ proc[p].at # "write" /\ writes' = writes
         \/ proc[p].at = "write" /\ Head(writes) = p /\ writes' = Tail(writes)
  BY DEF MarkFails, NoAccess, At
<1>2. /\ u \in settled \cup givenUp
      /\ Foremost(u, IF proc[p].todo # {} THEN proc[p].todo ELSE proc[p].queued)
  BY <1>1, Reached DEF Sound, AtWork
<1>3. u \in Updates
  BY <1>2, Reached DEF Foremost, Batch
<1>4. Ended' /\ turn' \in [Processors \X Updates -> Phase]
  BY <1>1 DEF IntakeInv, IntakeTyped, Ended, Elsewhere
<1>5. u \in Over' /\ u \in (settled \cup givenUp)'
  BY <1>1, <1>2 DEF Over
<1> HIDE DEF u
<1>6. /\ Steps /\ proc'[p].at # "write" /\ \A q \in Processors : q # p => proc'[q] = proc[q]
      /\ completed' \in SUBSET Updates
  BY <1>1, <1>2, <1>3, <1>4, <1>5, CaughtKeeps
<1> QED BY <1>1, <1>6, Unwritten

LEMMA HandlingFailsKeeps ==
  ASSUME IntakeInv, IntakeAssumption, NEW p \in Processors, HandlingFails(p) PROVE IntakeInv'
<1> DEFINE u == First(p, proc[p].todo)
<1>1. /\ Elsewhere /\ service # "down" /\ proc[p].at \in {"config", "approve", "stop"} /\ Caught(p, u)
      /\ UNCHANGED <<writes, completed, turn, begun, twice, settled, refused>>
      /\ givenUp' = givenUp \cup Covered(u)
  BY DEF HandlingFails, At
<1>2. proc[p].todo # {}
  BY <1>1, Reached DEF Sound, AtWork
<1>3. Foremost(u, proc[p].todo) /\ u \in Updates
  BY <1>2, FirstOf
<1>4. u \in Covered(u)
  BY <1>3, CoversIt DEF IntakeInv, IntakeTyped
<1>5. Ended' /\ turn' \in [Processors \X Updates -> Phase]
  BY <1>1 DEF IntakeInv, IntakeTyped, Ended, Elsewhere
<1> HIDE DEF u
<1>6. u \in Over' /\ u \in (settled \cup givenUp)'
  BY <1>1, <1>4 DEF Over
<1>7. /\ Steps /\ proc'[p].at # "write" /\ \A q \in Processors : q # p => proc'[q] = proc[q]
      /\ completed' \in SUBSET Updates
  BY <1>1, <1>2, <1>3, <1>5, <1>6, CaughtKeeps
<1> QED BY <1>1, <1>7, Unwritten

-----------------------------------------------------------------------------
(* The turns and the process *)

LEMMA TurnAwaitedKeeps ==
  ASSUME IntakeInv, IntakeAssumption, NEW p \in Processors, TurnAwaited(p) PROVE IntakeInv'
<1> DEFINE u == First(p, proc[p].queued)
<1>1. /\ Elsewhere /\ service # "down" /\ proc[p].at = "wait" /\ proc[p].queued # {}
      /\ UNCHANGED <<writes, completed, begun, twice, settled, refused, givenUp>>
      /\ turn' = [turn EXCEPT ![<<p, u>>] = "none"]
  BY DEF TurnAwaited, At
<1>2. proc[p].todo = {}
  BY <1>1, Reached DEF Sound, AtWork
<1>3. Foremost(u, proc[p].queued) /\ u \in Updates
  <2>1. proc[p].queued \in SUBSET Updates /\ Placed(proc[p], proc[p].queued)
    BY Reached DEF Batch, Sound, Placed
  <2>2. Foremost(First(p, proc[p].queued), proc[p].queued)
    BY <1>1, <2>1, Numbers, FirstIs
  <2> QED BY <2>1, <2>2 DEF Foremost
<1>4. <<p, u>> \in Processors \X Updates /\ <<p, u>>[2] = u
  BY <1>3
<1>5. turn \in [Processors \X Updates -> Phase]
  BY DEF IntakeInv, IntakeTyped
<1>6. turn' \in [Processors \X Updates -> Phase]
  BY <1>1, <1>5 DEF Phase
<1>7. \A pu \in Processors \X Updates : turn'[pu] = turn[pu] \/ turn'[pu] = "none"
  BY <1>1, <1>5
<1>8. Ended'
  BY <1>1, <1>7 DEF IntakeInv, Ended, Elsewhere
<1> HIDE DEF u
<1>9. Foremost(u, IF proc[p].todo # {} THEN proc[p].todo ELSE proc[p].queued)
  BY <1>2, <1>3
<1>10. CASE turn[<<p, u>>] = "ended" /\ MarkNext(p, u) /\ UNCHANGED <<enqueued, slipped>>
  <2>1. u \in settled
    BY <1>4, <1>10 DEF IntakeInv, Ended
  <2>2. settled \subseteq settled' /\ u \in (settled \cup givenUp)'
    BY <1>1, <2>1
  <2>3. proc[p].at # "write"
    BY <1>1
  <2> QED BY <1>1, <1>3, <1>6, <1>7, <1>9, <1>10, <2>2, <2>3, MarkNextKeeps
<1>11. CASE turn[<<p, u>>] \in {"failed", "refused"} /\ Caught(p, u)
  <2>1. u \in settled \cup givenUp \/ (u \in refused /\ service = "stopping")
    BY <1>4, <1>11 DEF IntakeInv, Ended
  <2>2. u \in Over' /\ (service = "up" => u \in (settled \cup givenUp)')
    BY <1>1, <2>1 DEF Over
  <2>3. /\ Steps /\ proc'[p].at # "write" /\ \A q \in Processors : q # p => proc'[q] = proc[q]
        /\ completed' \in SUBSET Updates
    BY <1>1, <1>3, <1>6, <1>8, <1>9, <1>11, <2>2, CaughtKeeps
  <2> QED BY <1>1, <2>3, Unwritten
<1> QED BY <1>10, <1>11 DEF TurnAwaited, u

\* The processing of a batch is over.
LEMMA FreedKeeps ==
  ASSUME IntakeInv, IntakeAssumption, NEW p \in Processors, proc' = [proc EXCEPT ![p] = Free], Elsewhere,
         service # "down",
         UNCHANGED <<enqueued, completed, turn, begun, twice, settled, refused, givenUp, slipped>>,
         \/ proc[p].at # "write" /\ writes' = writes
         \/ proc[p].at = "write" /\ Head(writes) = p /\ writes' = Tail(writes)
  PROVE  IntakeInv'
<1>1. Free \in Batch /\ Free.at = "free" /\ Free.todo = {} /\ Free.queued = {} /\ Free.seen = 0
  BY Numbers DEF Free, Batch, Places
<1>2. Onward
  BY SameLevel
<1>3. Sound(Free)'
  BY <1>1, <1>2 DEF Sound, Placed, InOrder, AtWork, Onward
<1>4. Ended' /\ turn' \in [Processors \X Updates -> Phase]
  BY DEF IntakeInv, IntakeTyped, Ended, Elsewhere
<1>5. completed' \in SUBSET Updates /\ begun' \in SUBSET Updates
  BY DEF IntakeInv, IntakeTyped
<1>6. Steps /\ proc'[p] = Free /\ \A q \in Processors : q # p => proc'[q] = proc[q]
  <2>1. service' = service /\ enqueued' \subseteq enqueued
    BY DEF Elsewhere
  <2>2. \A e \in completed' : e \in completed
    OBVIOUS
  <2>3. Prompt => UNCHANGED <<begun, twice>> /\ Free.at \notin {"ack", "config", "approve"}
    BY <1>1
  <2> QED BY <1>1, <1>2, <1>3, <1>4, <1>5, <2>1, <2>2, <2>3, StepOf
<1> QED BY <1>1, <1>5, <1>6, Unwritten

LEMMA BatchEndsKeeps ==
  ASSUME IntakeInv, IntakeAssumption, NEW p \in Processors, BatchEnds(p) PROVE IntakeInv'
<1>1. /\ Elsewhere /\ service # "down" /\ proc[p].at = "wait" /\ proc' = [proc EXCEPT ![p] = Free]
      /\ UNCHANGED <<writes, enqueued, completed, turn, begun, twice, settled, refused, givenUp, slipped>>
  BY DEF BatchEnds, At, history, failures
<1> QED BY <1>1, FreedKeeps

LEMMA BatchFailsKeeps ==
  ASSUME IntakeInv, IntakeAssumption, NEW p \in Processors, BatchFails(p) PROVE IntakeInv'
<1>1. /\ Elsewhere /\ service # "down" /\ proc' = [proc EXCEPT ![p] = Free]
      /\ UNCHANGED <<enqueued, completed, turn, begun, twice, settled, refused, givenUp, slipped>>
      /\ \/ proc[p].at # "write" /\ writes' = writes
         \/ proc[p].at = "write" /\ Head(writes) = p /\ writes' = Tail(writes)
  BY DEF BatchFails, NoAccess, At, history, failures
<1> QED BY <1>1, FreedKeeps


\* A step that leaves the batches, the sets and the watermark as they are.
LEMMA Still ==
  ASSUME IntakeInv, IntakeAssumption,
         UNCHANGED <<kind, forgotten, lastHandled, enqueued, completed, proc, writes, begun, twice>>,
         service' = service \/ (service = "up" /\ service' = "stopping") \/ (service = "down" /\ service' = "up"),
         arrived <= arrived', arrived' \in 0..Len(kind), settled \subseteq settled', refused \subseteq refused',
         givenUp \subseteq givenUp', slipped' = slipped,
         turn' \in [Processors \X Updates -> Phase], Ended', offset' \in Nat, offset' <= lastHandled + 1
  PROVE  IntakeInv'
<1>1. IntakeTyped'
  BY DEF IntakeInv, IntakeTyped
<1>2. Onward
  <2>1. \A u \in Nat : Accounted(u) => Accounted(u)'
    BY DEF Accounted, Over
  <2>2. arrived' \in Nat
    <3>1. kind \in Seq(KindsKnown)
      BY DEF IntakeInv, IntakeTyped, IntakeAssumption
    <3>2. Len(kind) \in Nat
      BY <3>1
    <3> QED BY <3>2
  <2> QED BY <2>1, <2>2, Numbers DEF Onward
<1>3. (\A q \in Processors : Sound(proc[q]))'
  BY <1>2, Numbers, SteadyBatches
<1>4. Behind'
  BY <1>2, Numbers DEF Onward, IntakeInv, Behind
<1>5. Passed'
  BY DEF IntakeInv, Passed, Over
<1>6. InLine'
  <2>1. CASE service = "down"
    <3>1. writes' = <<>> /\ \A q \in Processors : proc'[q].at = "free"
      BY <2>1 DEF IntakeInv, Gone
    <3> QED BY <3>1 DEF InLine
  <2>2. CASE service # "down"
    BY <2>2, SteadyLine DEF Orderly
  <2> QED BY <2>1, <2>2
<1>7. Once'
  <2>1. Prompt' => Prompt
    BY DEF Prompt
  <2>2. begun \subseteq Nat
    BY Numbers DEF IntakeInv, IntakeTyped
  <2>3. Orderly' => Orderly \/ begun = {}
    BY DEF IntakeInv, Gone, Orderly
  <2> QED BY <1>2, <2>1, <2>2, <2>3 DEF IntakeInv, Once, Onward
<1>8. Gone'
  BY DEF IntakeInv, Gone
<1> QED BY <1>1, <1>3, <1>4, <1>5, <1>6, <1>7, <1>8 DEF IntakeInv

LEMMA TurnKeeps ==
  ASSUME IntakeInv, IntakeAssumption, NEW pu \in Processors \X Updates, Turn(pu) PROVE IntakeInv'
<1>1. turn \in [Processors \X Updates -> Phase]
  BY DEF IntakeInv, IntakeTyped
<1>2. /\ UNCHANGED <<kind, forgotten, lastHandled, enqueued, completed, proc, writes, begun, twice>>
      /\ service' = service /\ arrived' = arrived /\ offset' = offset
      /\ slipped' = slipped
  BY DEF Turn, StartTurn, TurnFails, EndTurn, RefuseTurn, Elsewhere, history, failures
<1>3. arrived \in Nat /\ arrived' \in 0..Len(kind) /\ offset' \in Nat /\ offset' <= lastHandled + 1
  BY <1>2, Numbers DEF IntakeInv, IntakeTyped, Passed
<1>4. pu[2] \in Covered(pu[2])
  BY CoversIt DEF IntakeInv, IntakeTyped
<1>5. CASE StartTurn(pu)
  <2>1. turn' = [turn EXCEPT ![pu] = "running"] /\ UNCHANGED <<settled, refused, givenUp>>
    BY <1>5 DEF StartTurn, history, failures
  <2>2. turn' \in [Processors \X Updates -> Phase]
    BY <1>1, <2>1 DEF Phase
  <2>3. Ended'
    BY <1>1, <1>2, <2>1 DEF IntakeInv, Ended
  <2> QED BY <1>2, <1>3, <2>1, <2>2, <2>3, Still
<1>6. CASE EndTurn(pu)
  <2>1. /\ turn' = [turn EXCEPT ![pu] = "ended"] /\ settled' = settled \cup Covered(pu[2])
        /\ UNCHANGED <<refused, givenUp>>
    BY <1>6 DEF EndTurn, failures
  <2>2. turn' \in [Processors \X Updates -> Phase]
    BY <1>1, <2>1 DEF Phase
  <2>3. Ended'
    BY <1>1, <1>2, <1>4, <2>1 DEF IntakeInv, Ended
  <2> QED BY <1>2, <1>3, <2>1, <2>2, <2>3, Still
<1>7. CASE RefuseTurn(pu)
  <2>1. /\ turn' = [turn EXCEPT ![pu] = "refused"] /\ refused' = refused \cup Covered(pu[2])
        /\ UNCHANGED <<settled, givenUp>> /\ service = "stopping"
    BY <1>7 DEF RefuseTurn, failures
  <2>2. turn' \in [Processors \X Updates -> Phase]
    BY <1>1, <2>1 DEF Phase
  <2>3. Ended'
    BY <1>1, <1>2, <1>4, <2>1 DEF IntakeInv, Ended
  <2> QED BY <1>2, <1>3, <2>1, <2>2, <2>3, Still
<1>8. CASE TurnFails(pu)
  <2>1. /\ turn' = [turn EXCEPT ![pu] = "failed"] /\ UNCHANGED refused
        /\ settled \subseteq settled' /\ givenUp \subseteq givenUp' /\ pu[2] \in (settled \cup givenUp)'
    BY <1>4, <1>8 DEF TurnFails
  <2>2. turn' \in [Processors \X Updates -> Phase]
    BY <1>1, <2>1 DEF Phase
  <2>3. Ended'
    BY <1>1, <1>2, <2>1 DEF IntakeInv, Ended
  <2> QED BY <1>2, <1>3, <2>1, <2>2, <2>3, Still
<1> QED BY <1>5, <1>6, <1>7, <1>8 DEF Turn

LEMMA FetchKeeps ==
  ASSUME IntakeInv, IntakeAssumption, Albumless, NEW p \in Processors, Fetch(p) PROVE IntakeInv'
<1> DEFINE first == IF offset = 0 THEN forgotten + 1 ELSE offset
<1> DEFINE fetched == {u \in Updates : first <= u /\ u <= arrived}
<1>1. first \in Nat /\ first # 0 /\ first <= lastHandled + 1
  BY Numbers DEF IntakeInv, IntakeTyped, Passed
<1>2. /\ service = "up" /\ proc[p] = Free /\ forgotten' = first - 1
      /\ proc' = [proc EXCEPT ![p] = [Free EXCEPT !.at = "load", !.todo = Coalesced(fetched),
                                                   !.album = AlbumPlace(fetched)]]
      /\ UNCHANGED <<kind, arrived, service, lastHandled, offset, enqueued, completed, writes, turn,
                     begun, twice, settled, refused, givenUp, slipped>>
  BY DEF Fetch, history, failures
<1>3. fetched \subseteq Nat /\ fetched \in SUBSET Updates /\ \A u \in fetched : u <= arrived /\ 1 <= u /\ first <= u
  BY Numbers DEF Updates
<1>4. \A u \in Nat : u \in Updates /\ first <= u /\ u <= arrived => u \in fetched
  OBVIOUS
<1> HIDE DEF fetched, first
<1>5. PICK S \in SUBSET Updates, a \in 0..N :
        S = fetched /\ a = AlbumPlace(fetched) /\ Coalesced(fetched) = S /\ \A u \in S : u \in Album => a = u
  <2>1. /\ Coalesced(fetched) = fetched /\ AlbumPlace(fetched) \in 0..N
        /\ \A u \in fetched : u \in Album => AlbumPlace(fetched) = u
    <3>1. kind \in Kinds
      BY DEF IntakeInv, IntakeTyped
    <3> QED BY <1>3, <3>1, Uncoalesced
  <2> QED BY <1>3, <2>1
<1> DEFINE c == [Free EXCEPT !.at = "load", !.todo = S, !.album = a]
<1>6. proc' = [proc EXCEPT ![p] = c]
  BY <1>2, <1>5
<1>7. Free \in Batch /\ Free.at = "free" /\ Free.todo = {} /\ Free.queued = {} /\ Free.seen = 0
  BY Numbers DEF Free, Batch, Places
<1>8. c \in Batch /\ c.at = "load" /\ c.todo = S /\ c.album = a /\ c.queued = {} /\ c.seen = 0
  BY <1>7 DEF Batch, Places
<1> HIDE DEF c
<1>9. Onward
  BY <1>2, Numbers DEF Onward, Accounted, Over
<1>10. Sound(c)'
  <2>1. Placed(c, c.todo \cup c.queued)'
    BY <1>2, <1>5, <1>8 DEF Placed, Album
  <2>2. ASSUME NEW t \in S, NEW u \in 1..t
        PROVE  u \in S \/ Accounted(u)'
    <3>1. t \in Nat /\ t \in Updates /\ t <= arrived /\ u \in Nat /\ 1 <= u /\ u <= t
      BY <1>3, <1>5
    <3>2. CASE first <= u
      <4>1. u \in Updates /\ u <= arrived
        BY <3>1, Numbers DEF Updates
      <4> QED BY <1>4, <1>5, <3>1, <3>2, <4>1
    <3>3. CASE ~(first <= u)
      <4>1. u <= lastHandled
        BY <1>1, <3>1, <3>3, Numbers
      <4> QED BY <1>2, <4>1 DEF Accounted
    <3> QED BY <3>2, <3>3
  <2>3. InOrder(c)'
    BY <1>8, <2>2 DEF InOrder
  <2>4. (c.todo \subseteq 1..arrived)'
    BY <1>2, <1>3, <1>5, <1>8, Numbers
  <2>5. AtWork(c)'
    BY <1>8, <2>4 DEF AtWork
  <2>6. (c.seen <= lastHandled)'
    BY <1>2, <1>8, Numbers
  <2> QED BY <2>1, <2>3, <2>5, <2>6 DEF Sound
<1>11. Ended' /\ turn' \in [Processors \X Updates -> Phase]
  BY <1>2 DEF IntakeInv, IntakeTyped, Ended
<1>12. completed' \in SUBSET Updates /\ begun' \in SUBSET Updates
  BY <1>2 DEF IntakeInv, IntakeTyped
<1>13. Steps /\ proc'[p] = c /\ \A q \in Processors : q # p => proc'[q] = proc[q]
  <2>1. enqueued' \subseteq enqueued
    BY <1>2
  <2>2. \A e \in completed' : e \in completed
    BY <1>2
  <2>3. Prompt => UNCHANGED <<begun, twice>> /\ c.at \notin {"ack", "config", "approve"}
    BY <1>2, <1>8
  <2> QED BY <1>2, <1>6, <1>8, <1>9, <1>10, <1>11, <1>12, <2>1, <2>2, <2>3, StepOf
<1>14. InLine'
  <2>1. \A q \in Processors : proc'[q] = proc[q] \/ (proc[q].at # "write" /\ proc'[q].at # "write")
    BY <1>2, <1>7, <1>8, <1>13
  <2> QED BY <1>2, <2>1, SteadyLine DEF Orderly
<1>15. forgotten' \in Nat /\ forgotten' <= lastHandled
  BY <1>1, <1>2, Numbers
<1>16. IntakeTyped'
  BY <1>2, <1>12, <1>13, <1>15 DEF IntakeInv, IntakeTyped, Steps
<1>17. Passed'
  BY <1>2, <1>15 DEF IntakeInv, Passed, Over
<1>18. Gone'
  BY <1>2 DEF Gone
<1> QED BY <1>13, <1>14, <1>16, <1>17, <1>18 DEF IntakeInv, Steps

LEMMA ForgetKeeps ==
  ASSUME IntakeInv, IntakeAssumption, Forget PROVE IntakeInv'
<1>1. /\ service' = "down" /\ offset' = 0 /\ enqueued' = {} /\ completed' = {} /\ begun' = {}
      /\ writes' = <<>> /\ proc' = [q \in Processors |-> Free] /\ turn' = NoTurns
      /\ UNCHANGED <<kind, arrived, forgotten, lastHandled, twice, settled, refused, givenUp, slipped>>
  BY DEF Forget, history, failures
<1>2. Free \in Batch /\ Free.at = "free" /\ Free.todo = {} /\ Free.queued = {} /\ Free.seen = 0
  BY Numbers DEF Free, Batch, Places
<1>3. IntakeTyped'
  <2>1. turn' \in [Processors \X Updates -> Phase]
    BY <1>1 DEF NoTurns, Phase
  <2>2. proc' \in [Processors -> Batch] /\ writes' \in Seq(Processors)
    BY <1>1, <1>2
  <2> QED BY <1>1, <2>1, <2>2 DEF IntakeInv, IntakeTyped
<1>4. (\A q \in Processors : Sound(proc[q]))'
  <2> SUFFICES ASSUME NEW q \in Processors PROVE Sound(proc[q])'
    OBVIOUS
  <2>1. proc'[q] = Free
    BY <1>1
  <2> QED BY <1>1, <1>2, <2>1, Numbers DEF Sound, Placed, InOrder, AtWork
<1>5. Behind'
  BY <1>1 DEF Behind
<1>6. Passed'
  <2>1. 0 <= lastHandled + 1
    BY Numbers
  <2> QED BY <1>1, <2>1 DEF IntakeInv, Passed, Over
<1>7. Ended'
  BY <1>1 DEF Ended, NoTurns
<1>8. InLine'
  BY <1>1, <1>2 DEF InLine, Orderly
<1>9. Once'
  BY <1>1, <1>2 DEF IntakeInv, Once, Prompt, Orderly
<1>10. Gone'
  BY <1>1, <1>2 DEF Gone
<1> QED BY <1>3, <1>4, <1>5, <1>6, <1>7, <1>8, <1>9, <1>10 DEF IntakeInv

LEMMA ProcessKeeps ==
  ASSUME IntakeInv, IntakeAssumption, NEW p \in Processors, Process(p) PROVE IntakeInv'
BY LoadKeeps, AcknowledgedKeeps, ConfigReadKeeps, ApprovedKeeps, StoppedKeeps, MarkCompletedKeeps,
   FlushCompletedKeeps, WriteHandledKeeps, MarkFailsKeeps, HandlingFailsKeeps,
   BatchFailsKeeps, TurnAwaitedKeeps, BatchEndsKeeps DEF Process

LEMMA ServiceKeeps ==
  ASSUME IntakeInv, IntakeAssumption,
         ReadOffset \/ Arrive \/ Shutdown \/ Restart \/ UNCHANGED intakeVars
  PROVE  IntakeInv'
<1>1. /\ UNCHANGED <<kind, forgotten, lastHandled, enqueued, completed, proc, writes, begun, twice,
                     settled, refused, givenUp, slipped, turn>>
      /\ \/ service' = service \/ (service = "up" /\ service' = "stopping")
         \/ (service = "down" /\ service' = "up")
  BY DEF ReadOffset, Arrive, Shutdown, Restart, intakeVars, memory, history, failures
<1>2. kind \in Seq(KindsKnown) /\ arrived \in 0..Len(kind)
  BY DEF IntakeInv, IntakeTyped, IntakeAssumption
<1>3. arrived <= arrived' /\ arrived' \in 0..Len(kind)
  <2>1. Len(kind) \in Nat /\ arrived \in Nat
    BY <1>2
  <2>2. arrived' = arrived \/ (arrived < Len(kind) /\ arrived' = arrived + 1)
    BY DEF ReadOffset, Arrive, Shutdown, Restart, intakeVars
  <2> QED BY <1>2, <2>1, <2>2
<1>4. offset' \in Nat /\ offset' <= lastHandled + 1
  <2>1. offset' = offset \/ offset' = lastHandled + 1
    BY DEF ReadOffset, Arrive, Shutdown, Restart, intakeVars, memory
  <2> QED BY <2>1, Numbers DEF IntakeInv, IntakeTyped, Passed
<1>5. turn' \in [Processors \X Updates -> Phase]
  BY <1>1 DEF IntakeInv, IntakeTyped
<1>6. Ended'
  BY <1>1 DEF IntakeInv, Ended
<1> QED BY <1>1, <1>3, <1>4, <1>5, <1>6, Still

LEMMA IntakeStep ==
  ASSUME IntakeInv, IntakeAssumption, Albumless, [IntakeNext]_intakeVars PROVE IntakeInv'
BY FetchKeeps, ProcessKeeps, TurnKeeps, ForgetKeeps, ServiceKeeps DEF IntakeNext, Poll, Exit, Crash

\* The invariant is always true: each await of a batch knows what it relies on,
\* and the watermark has passed only what was handled, refused in a shutdown or given
\* up because it could not be started, read or answered.
THEOREM IntakeInvariant == ASSUME Albumless PROVE IntakeSpec => []IntakeInv
<1>1. IntakeInit => IntakeInv
  BY InitIntake
<1>2. IntakeInv /\ [IntakeNext]_intakeVars => IntakeInv'
  BY IntakeStep, IntakeAssumption
<1> QED BY <1>1, <1>2, PTL DEF IntakeSpec

\* While no two photos make an album, no update is lost: the watermark, and what
\* Telegram has forgotten, stay behind every update that was not handled to the
\* end, however many batches, crashes and failing accesses there are; but for those
\* that a shutdown kept from their turn and those that failed before it.
THEOREM UpdatesAreKept == ASSUME Albumless PROVE IntakeSpec => []NothingLost
<1>1. IntakeInv => NothingLost
  <2> SUFFICES ASSUME IntakeInv PROVE NothingLost
    OBVIOUS
  <2>1. forgotten \in Nat /\ forgotten <= lastHandled /\ lastHandled \in Nat
    BY Numbers, IntakeAssumption DEF IntakeInv, IntakeTyped, Passed
  <2>2. Max({lastHandled, forgotten}) = lastHandled
    <3>1. Max({lastHandled, forgotten}) = IF lastHandled <= forgotten THEN forgotten ELSE lastHandled
      BY <2>1, MaxOfTwo
    <3> QED BY <2>1, <3>1
  <2> QED BY <2>2 DEF IntakeInv, Passed, NothingLost, Over
<1> QED BY <1>1, IntakeInvariant, PTL

\* While only private messages and /stop come in, and no /stop or its mark has
\* failed, one process handles no update twice: neither a poll that fetches it
\* again, nor a batch that runs on with a watermark read earlier, begins it again.
THEOREM UpdatesBeginOnce == ASSUME Albumless PROVE IntakeSpec => []HandledOnce
<1>1. IntakeInv => HandledOnce
  BY DEF IntakeInv, Once, Prompt, HandledOnce
<1> QED BY <1>1, IntakeInvariant, PTL

-----------------------------------------------------------------------------
(* The types *)

\* Nothing is handled or under way that has not arrived.
Bounded ==
  /\ settled \subseteq 1..arrived /\ refused \subseteq 1..arrived /\ givenUp \subseteq 1..arrived
  /\ slipped \subseteq Updates /\ twice \subseteq Updates /\ polled \in BOOLEAN
  /\ \A pu \in Processors \X Updates : turn[pu] # "none" => pu[2] \in 1..arrived

LEMMA CoversOnly ==
  ASSUME Albumless, kind \in Kinds, NEW u PROVE Covered(u) = {u}
BY Lone DEF Covered

LEMMA RunOnBounds ==
  ASSUME IntakeInv, Bounded, NEW p, NEW todo, NEW seen, NEW through, NEW enq,
         RunOn(p, todo, seen, through, enq), todo \cup through \subseteq 1..arrived
  PROVE  /\ twice' \subseteq Updates
         /\ \A pu \in Processors \X Updates : turn'[pu] # "none" => pu[2] \in 1..arrived
<1>1. PICK new \in SUBSET (1..arrived) :
        /\ turn' = [pu \in DOMAIN turn |-> IF pu[1] = p /\ pu[2] \in new THEN "queued" ELSE turn[pu]]
        /\ \E begins : Begin(begins)
  <2> DEFINE passes(u) ==
        \/ u \in through
        \/ ~HasAck(u) /\ (Known(u, enq, seen) \/ kind[u] \in {"message", "photo"})
  <2> DEFINE gone == IF service = "stopping" THEN through
                     ELSE {u \in todo : \A v \in todo : ~passes(v) => Place(p, u) < Place(p, v)}
  <2> DEFINE rest == IF service = "stopping" THEN {} ELSE todo \ gone
  <2> DEFINE new == {u \in gone : ~Known(u, enq, seen) \/ u \in through}
  <2> DEFINE stopped == IF Awaits(p, rest) = "stop" THEN {First(p, rest)} ELSE {}
  <2>1. /\ turn' = [pu \in DOMAIN turn |-> IF pu[1] = p /\ pu[2] \in new THEN "queued" ELSE turn[pu]]
        /\ Begin(new \cup stopped)
    BY DEF RunOn
  <2>2. new \in SUBSET (1..arrived)
    OBVIOUS
  <2> HIDE DEF passes, gone, rest, new, stopped
  <2> QED BY <2>1, <2>2
<1>2. turn \in [Processors \X Updates -> Phase] /\ begun \subseteq Updates
  BY DEF IntakeInv, IntakeTyped
<1>3. twice' \subseteq Updates
  BY <1>1, <1>2 DEF Begin, Bounded
<1>4. ASSUME NEW pu \in Processors \X Updates, turn'[pu] # "none"
      PROVE  pu[2] \in 1..arrived
  <2>1. CASE pu[2] \in new
    BY <2>1
  <2>2. CASE pu[2] \notin new
    BY <1>1, <1>2, <1>4, <2>2 DEF Bounded
  <2> QED BY <2>1, <2>2
<1> QED BY <1>3, <1>4

\* What a step adds to what was handled or is under way has arrived.
LEMMA BoundsKept ==
  ASSUME Bounded, UNCHANGED <<arrived, polled>>,
         settled' \subseteq settled \cup 1..arrived, refused' \subseteq refused \cup 1..arrived,
         givenUp' \subseteq givenUp \cup 1..arrived, slipped' \subseteq Updates, twice' \subseteq Updates,
         \A pu \in Processors \X Updates : turn'[pu] # "none" => pu[2] \in 1..arrived
  PROVE  Bounded'
BY DEF Bounded

LEMMA MarkedBounds ==
  ASSUME IntakeInv, IntakeAssumption, Bounded, NEW p \in Processors, NEW seen, NEW done,
         Marked(p, seen, done)
  PROVE  /\ twice' \subseteq Updates
         /\ \A pu \in Processors \X Updates : turn'[pu] # "none" => pu[2] \in 1..arrived
<1>1. proc[p].todo \subseteq 1..arrived
  BY Reached DEF Sound, AtWork
<1>2. CASE UNCHANGED <<turn, begun, twice>>
  BY <1>2 DEF Bounded
<1>3. CASE RunOn(p, proc[p].todo \ {proc[p].marks}, seen, {},
                 IF kind[proc[p].marks] = "stop" THEN enqueued \ {proc[p].marks} ELSE enqueued)
  <2>1. (proc[p].todo \ {proc[p].marks}) \cup {} \subseteq 1..arrived
    BY <1>1
  <2> QED BY <1>3, <2>1, RunOnBounds
<1> QED BY <1>2, <1>3 DEF Marked

LEMMA FlushBounds ==
  ASSUME IntakeInv, IntakeAssumption, Bounded, NEW p \in Processors, NEW seen, NEW done, NEW o,
         Flush(p, seen, done, o)
  PROVE  /\ twice' \subseteq Updates
         /\ \A pu \in Processors \X Updates : turn'[pu] # "none" => pu[2] \in 1..arrived
<1>1. CASE Marked(p, seen, done)
  BY <1>1, MarkedBounds
<1>2. CASE UNCHANGED <<enqueued, turn, begun, twice>>
  BY <1>2 DEF Bounded
<1> QED BY <1>1, <1>2 DEF Flush

LEMMA ProcessBounds ==
  ASSUME IntakeInv, IntakeAssumption, Albumless, Bounded, NEW p \in Processors, Process(p)
  PROVE  Bounded'
<1> DEFINE u == First(p, proc[p].todo)
<1>1. proc[p].todo \subseteq 1..arrived /\ proc[p].todo \ {u} \subseteq 1..arrived
  BY Reached DEF Sound, AtWork
<1>2. proc[p].at \in {"ack", "config", "approve", "stop"} => u \in 1..arrived /\ {u} \subseteq 1..arrived
  <2> SUFFICES ASSUME proc[p].at \in {"ack", "config", "approve", "stop"} PROVE u \in 1..arrived
    OBVIOUS
  <2>1. proc[p].todo # {}
    BY Reached DEF Sound, AtWork
  <2> QED BY <1>1, <2>1, FirstOf DEF Foremost
<1>3. \A v : Covered(v) = {v}
  BY CoversOnly DEF IntakeInv, IntakeTyped
<1>4. UNCHANGED <<arrived, polled>>
  BY DEF Process, Load, Acknowledged, ConfigRead, Approved, Stopped, MarkCompleted, FlushCompleted,
         WriteHandled, MarkFails, HandlingFails, BatchFails, TurnAwaited, BatchEnds, Elsewhere
<1>5. \A pu \in Processors \X Updates : turn[pu] # "none" => pu[2] \in 1..arrived
  BY DEF Bounded
<1>6. slipped \subseteq Updates /\ twice \subseteq Updates /\ begun \subseteq Updates /\ turn \in [Processors \X Updates -> Phase]
  BY DEF Bounded, IntakeInv, IntakeTyped
<1> HIDE DEF u
<1>7. CASE Load(p)
  <2>1. RunOn(p, proc[p].todo, lastHandled, {}, enqueued) /\ UNCHANGED <<settled, refused, givenUp, slipped>>
    BY <1>7 DEF Load, failures
  <2>2. proc[p].todo \cup {} \subseteq 1..arrived
    BY <1>1
  <2> QED BY <1>4, <1>6, <2>1, <2>2, RunOnBounds, BoundsKept
<1>8. CASE Acknowledged(p)
  <2>0. UNCHANGED <<settled, refused, givenUp, slipped>> /\ proc[p].at = "ack"
    BY <1>8 DEF Acknowledged, At, MoveTo, failures
  <2>1. CASE RunOn(p, proc[p].todo \ {u}, proc[p].seen, {}, enqueued)
    <3>1. (proc[p].todo \ {u}) \cup {} \subseteq 1..arrived
      BY <1>1
    <3> QED BY <1>4, <1>6, <2>0, <2>1, <3>1, RunOnBounds, BoundsKept
  <2>2. CASE RunOn(p, proc[p].todo, proc[p].seen, {u}, enqueued)
    <3>1. proc[p].todo \cup {u} \subseteq 1..arrived
      BY <1>1, <1>2, <2>0
    <3> QED BY <1>4, <1>6, <2>0, <2>2, <3>1, RunOnBounds, BoundsKept
  <2>3. CASE Begin({u}) /\ UNCHANGED turn
    <3>1. twice' \subseteq Updates
      BY <1>6, <2>3 DEF Begin
    <3> QED BY <1>4, <1>5, <1>6, <2>0, <2>3, <3>1, BoundsKept
  <2> QED BY <1>8, <2>1, <2>2, <2>3 DEF Acknowledged, u
<1>9. CASE ConfigRead(p)
  <2>0. UNCHANGED <<refused, givenUp, slipped>> /\ proc[p].at = "config"
    BY <1>9 DEF ConfigRead, At, failures
  <2>1. CASE RunOn(p, proc[p].todo, proc[p].seen, {u}, enqueued) /\ UNCHANGED settled
    <3>1. proc[p].todo \cup {u} \subseteq 1..arrived
      BY <1>1, <1>2, <2>0
    <3> QED BY <1>4, <1>6, <2>0, <2>1, <3>1, RunOnBounds, BoundsKept
  <2>2. CASE settled' = settled \cup Covered(u) /\ UNCHANGED <<enqueued, turn, begun, twice>>
    <3>1. settled' \subseteq settled \cup 1..arrived
      BY <1>2, <1>3, <2>0, <2>2
    <3> QED BY <1>4, <1>5, <1>6, <2>0, <2>2, <3>1, BoundsKept
  <2> QED BY <1>9, <2>1, <2>2 DEF ConfigRead, u
<1>10. CASE Approved(p)
  <2>1. /\ proc[p].at = "approve" /\ settled' = settled \cup Covered(u)
        /\ UNCHANGED <<turn, begun, twice, refused, givenUp, slipped>>
    BY <1>10 DEF Approved, At, u, failures
  <2>2. settled' \subseteq settled \cup 1..arrived
    BY <1>2, <1>3, <2>1
  <2> QED BY <1>4, <1>5, <1>6, <2>1, <2>2, BoundsKept
<1>11. CASE Stopped(p)
  <2>1. proc[p].at = "stop" /\ UNCHANGED <<twice, refused, givenUp, slipped>>
    BY <1>11 DEF Stopped, At, failures
  <2>2. PICK cut \in SUBSET {pu \in DOMAIN turn : turn[pu] = "queued"} :
        /\ turn' = [pu \in DOMAIN turn |-> IF pu \in cut THEN "ended" ELSE turn[pu]]
        /\ settled' = settled \cup Covered(u) \cup UNION {Covered(pu[2]) : pu \in cut}
    BY <1>11 DEF Stopped, u
  <2>3. \A pu \in cut : pu[2] \in 1..arrived
    BY <1>5, <1>6, <2>2
  <2>4. settled' \subseteq settled \cup 1..arrived
    BY <1>2, <1>3, <2>1, <2>2, <2>3
  <2>5. ASSUME NEW pu \in Processors \X Updates, turn'[pu] # "none"
        PROVE  pu[2] \in 1..arrived
    BY <1>5, <1>6, <2>2, <2>3, <2>5
  <2> QED BY <1>4, <1>6, <2>1, <2>4, <2>5, BoundsKept
<1>12. CASE MarkCompleted(p)
  <2>1. UNCHANGED <<settled, refused, givenUp, slipped>>
    BY <1>12 DEF MarkCompleted, failures
  <2>2. CASE Marked(p, lastHandled, completed \ {proc[p].marks})
    BY <1>4, <1>6, <2>1, <2>2, MarkedBounds, BoundsKept
  <2>3. CASE UNCHANGED <<enqueued, turn, begun, twice>>
    BY <1>4, <1>5, <1>6, <2>1, <2>3, BoundsKept
  <2> QED BY <1>12, <2>2, <2>3 DEF MarkCompleted
<1>13. CASE FlushCompleted(p)
  <2>1. Flush(p, lastHandled, completed, writes) /\ UNCHANGED <<settled, refused, givenUp, slipped>>
    BY <1>13 DEF FlushCompleted, failures
  <2> QED BY <1>4, <1>6, <2>1, FlushBounds, BoundsKept
<1>14. CASE WriteHandled(p)
  <2>1. /\ Flush(p, proc[p].next, {c \in completed : c > proc[p].next}, Tail(writes))
        /\ UNCHANGED <<settled, refused, givenUp, slipped>>
    BY <1>14 DEF WriteHandled, failures
  <2> QED BY <1>4, <1>6, <2>1, FlushBounds, BoundsKept
<1>15. CASE BatchFails(p) \/ BatchEnds(p)
  <2>1. UNCHANGED <<turn, twice, settled, refused, givenUp, slipped>>
    BY <1>15 DEF BatchFails, BatchEnds, history, failures
  <2> QED BY <1>4, <1>5, <1>6, <2>1, BoundsKept
<1>16. \A v \in Updates : Caught(p, v) => slipped' \subseteq Updates
  BY <1>6 DEF Caught
<1>17. CASE MarkFails(p)
  <2>1. /\ proc[p].at \in {"mark", "flush", "write"} /\ Caught(p, proc[p].marks)
        /\ UNCHANGED <<turn, twice, settled, refused, givenUp>>
    BY <1>17 DEF MarkFails, NoAccess, At
  <2>2. proc[p].marks \in Updates
    BY <2>1, Reached DEF Sound, AtWork, Foremost, Batch
  <2>3. slipped' \subseteq Updates
    BY <1>16, <2>1, <2>2
  <2> QED BY <1>4, <1>5, <1>6, <2>1, <2>3, BoundsKept
<1>18. CASE HandlingFails(p)
  <2>1. /\ proc[p].at \in {"config", "approve", "stop"} /\ Caught(p, u)
        /\ UNCHANGED <<turn, twice, settled, refused>> /\ givenUp' = givenUp \cup Covered(u)
    BY <1>18 DEF HandlingFails, At, u
  <2>2. u \in Updates
    <3>1. proc[p].todo # {}
      BY <2>1, Reached DEF Sound, AtWork
    <3> QED BY <3>1, FirstOf DEF u
  <2>3. slipped' \subseteq Updates /\ givenUp' \subseteq givenUp \cup 1..arrived
    BY <1>2, <1>3, <1>16, <2>1, <2>2
  <2> QED BY <1>4, <1>5, <1>6, <2>1, <2>3, BoundsKept
<1>19. CASE TurnAwaited(p)
  <2>1. /\ UNCHANGED <<twice, settled, refused, givenUp>>
        /\ slipped' = slipped \/ (proc[p].queued # {} /\ Caught(p, First(p, proc[p].queued)))
    BY <1>19 DEF TurnAwaited
  <2>2. slipped' \subseteq Updates
    <3>1. CASE proc[p].queued # {} /\ Caught(p, First(p, proc[p].queued))
      <4>1. proc[p].queued \in SUBSET Updates /\ Placed(proc[p], proc[p].queued)
        BY Reached DEF Batch, Sound, Placed
      <4>2. First(p, proc[p].queued) \in Updates
        BY <3>1, <4>1, Numbers, FirstIs DEF Foremost
      <4> QED BY <1>16, <3>1, <4>2
    <3> QED BY <1>6, <2>1, <3>1
  <2>3. \E pu : turn' = [turn EXCEPT ![pu] = "none"]
    BY <1>19 DEF TurnAwaited
  <2>4. \A pu \in Processors \X Updates : turn'[pu] # "none" => pu[2] \in 1..arrived
    BY <1>5, <1>6, <2>3
  <2> QED BY <1>4, <1>6, <2>1, <2>2, <2>4, BoundsKept
<1> QED BY <1>7, <1>8, <1>9, <1>10, <1>11, <1>12, <1>13, <1>14, <1>15, <1>17, <1>18, <1>19 DEF Process

LEMMA BoundsStep ==
  ASSUME IntakeInv, IntakeAssumption, Albumless, Bounded, [IntakeNext]_intakeVars
  PROVE  Bounded'
<1>1. ASSUME NEW pu \in Processors \X Updates, Turn(pu)
      PROVE  Bounded'
  <2>1. UNCHANGED <<arrived, polled, twice, slipped>>
    BY <1>1 DEF Turn, StartTurn, TurnFails, EndTurn, RefuseTurn, Elsewhere, history, failures
  <2>2. turn[pu] # "none" /\ \E t : turn' = [turn EXCEPT ![pu] = t]
    BY <1>1 DEF Turn, StartTurn, TurnFails, EndTurn, RefuseTurn
  <2>3. pu[2] \in 1..arrived /\ Covered(pu[2]) = {pu[2]}
    BY <2>2, CoversOnly DEF Bounded, IntakeInv, IntakeTyped
  <2>4. /\ settled' \subseteq settled \cup Covered(pu[2]) /\ refused' \subseteq refused \cup Covered(pu[2])
        /\ givenUp' \subseteq givenUp \cup Covered(pu[2])
    BY <1>1 DEF Turn, StartTurn, TurnFails, EndTurn, RefuseTurn, history, failures
  <2>5. /\ settled' \subseteq settled \cup 1..arrived /\ refused' \subseteq refused \cup 1..arrived
        /\ givenUp' \subseteq givenUp \cup 1..arrived
    BY <2>3, <2>4
  <2>6. ASSUME NEW qv \in Processors \X Updates, turn'[qv] # "none"
        PROVE  qv[2] \in 1..arrived
    <3>1. turn \in [Processors \X Updates -> Phase]
      BY DEF IntakeInv, IntakeTyped
    <3>2. qv = pu \/ turn'[qv] = turn[qv]
      BY <2>2, <3>1
    <3> QED BY <2>3, <2>6, <3>2 DEF Bounded
  <2> QED BY <2>1, <2>5, <2>6, BoundsKept DEF Bounded
<1>2. ASSUME NEW p \in Processors, Fetch(p)
      PROVE  Bounded'
  BY <1>2 DEF Fetch, Bounded, history, failures
<1>3. CASE Exit \/ Crash
  <2>1. polled' = FALSE /\ turn' = NoTurns /\ UNCHANGED <<arrived, twice, settled, refused, givenUp, slipped>>
    BY <1>3 DEF Exit, Crash, Forget, history, failures
  <2> QED BY <2>1 DEF Bounded, NoTurns
<1>4. CASE ReadOffset \/ Shutdown \/ Restart \/ UNCHANGED intakeVars
  BY <1>4 DEF ReadOffset, Shutdown, Restart, intakeVars, memory, history, failures, Bounded
<1>5. CASE Arrive
  <2>1. arrived' = arrived + 1 /\ UNCHANGED <<polled, twice, settled, refused, givenUp, slipped, turn>>
    BY <1>5 DEF Arrive, memory, history, failures
  <2>2. 1..arrived \subseteq 1..arrived'
    BY <2>1, Numbers
  <2> QED BY <2>1, <2>2 DEF Bounded
<1> QED BY <1>1, <1>2, <1>3, <1>4, <1>5, ProcessBounds DEF IntakeNext, Poll

\* The types: in particular the watermark never passes an update that has not arrived.
THEOREM UpdatesAreTyped == ASSUME Albumless PROVE IntakeSpec => []IntakeTypeOK
<1>1. IntakeInit => Bounded
  BY DEF IntakeInit, Bounded, NoTurns
<1>2. IntakeInv /\ Bounded /\ [IntakeNext]_intakeVars => Bounded'
  BY BoundsStep, IntakeAssumption
<1>3. IntakeInv /\ Bounded => IntakeTypeOK
  <2> SUFFICES ASSUME IntakeInv, Bounded PROVE IntakeTypeOK
    OBVIOUS
  <2>1. kind \in Seq(KindsKnown) /\ Len(kind) <= N /\ Len(kind) \in Nat /\ arrived \in 0..Len(kind)
    BY IntakeAssumption DEF IntakeInv, IntakeTyped, IntakeAssumption
  <2>2. N \in Nat /\ arrived \in Nat /\ arrived <= Len(kind) /\ arrived <= N /\ lastHandled \in Nat
    BY <2>1, Numbers, IntakeAssumption
  <2>3. lastHandled <= arrived
    <3>1. CASE lastHandled = 0
      BY <2>2, <3>1
    <3>2. CASE lastHandled # 0
      <4>1. lastHandled \in 1..lastHandled
        BY <2>2, <3>2
      <4>2. lastHandled \in 1..arrived
        BY <4>1 DEF IntakeInv, Passed, Bounded, Over
      <4> QED BY <2>2, <4>2
    <3> QED BY <3>1, <3>2
  <2>4. forgotten \in 0..arrived /\ offset \in 0..(N + 1) /\ arrived \in 0..N /\ lastHandled \in 0..N
    <3>1. forgotten \in Nat /\ offset \in Nat /\ forgotten <= lastHandled /\ offset <= lastHandled + 1
      BY DEF IntakeInv, IntakeTyped, Passed
    <3> QED BY <2>2, <2>3, <3>1
  <2>5. 1..arrived \subseteq Updates
    BY <2>2 DEF Updates
  <2>6. settled \subseteq Updates /\ refused \subseteq Updates /\ givenUp \subseteq Updates
    BY <2>5 DEF Bounded
  <2>7. \A p \in Processors :
          /\ proc[p].at \in Places /\ proc[p].seen \in 0..N
          /\ proc[p].marks \in 0..N /\ proc[p].next \in 0..N
          /\ (proc[p].at = "wait" => proc[p].todo = {})
    BY Reached, IntakeAssumption DEF Batch, Sound, AtWork
  <2> QED BY <2>2, <2>4, <2>6, <2>7 DEF IntakeTypeOK, IntakeInv, IntakeTyped, Bounded, Phase
<1> QED BY <1>1, <1>2, <1>3, IntakeInvariant, PTL DEF IntakeSpec
=============================================================================
