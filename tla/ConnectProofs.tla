----------------------------- MODULE ConnectProofs -----------------------------
(****************************************************************************)
(* Theorems about the two components that connect a caller to somebody.     *)
(*                                                                          *)
(* Queue: a caller has one agent, and nobody who waits is forgotten, for    *)
(* any callers, agents and servers.                                         *)
(*                                                                          *)
(* Dial: one callee is connected, and hung up when the verb ends, for any   *)
(* targets and options, if a verb has one target, or two and does not wait  *)
(* for the caller to be answered; with three the code connects two.         *)
(****************************************************************************)
EXTENDS Queue, Dial, WellFoundedInduction, SequenceTheorems, TLAPS

Fresh == {"out", "adding"}     \* callers who were never in the queue
Seeking == {"out", "polling"}  \* agents who have not popped anybody yet

(* Why a caller has one agent: he enters the queue once, an agent is bound  *)
(* to him when he leaves it, and the "ready" he posts goes to that agent.   *)
FreshIsFree ==
  \A c \in Callers : caller[c].at \in Fresh =>
    c \notin queue /\ \A a \in Agents : agent[a].partner # c
QueuedIsFree == \A c \in queue, a \in Agents : agent[a].partner # c
BoundToOne ==
  \A a, b \in Agents :
    agent[a].partner = agent[b].partner /\ agent[a].partner # None => a = b
SeekerIsFree ==
  \A a \in Agents : /\ agent[a].at \in Seeking => agent[a].partner = None
                    /\ agent[a].post => agent[a].partner # None
Bound(r) == r.ready \/ r.at = "moving" => r.partner # None
CallerIsBound ==
  \A c \in Callers :
    /\ caller[c].partner # None => agent[caller[c].partner].partner = c
    /\ Bound(caller[c])

IInv ==
  /\ TypeOK
  /\ FreshIsFree /\ QueuedIsFree /\ BoundToOne /\ SeekerIsFree /\ CallerIsBound

LEMMA InitInv == Init => IInv
<1> SUFFICES ASSUME Init PROVE IInv
  OBVIOUS
<1>1. TypeOK
  BY QueueAssumption DEF Init, TypeOK, CallerStates, AgentStates
<1>2. /\ queue = {}
      /\ \A a \in Agents : agent[a].partner = None /\ ~agent[a].post
      /\ \A c \in Callers : /\ caller[c].partner = None /\ ~caller[c].ready
                           /\ caller[c].at = "out"
  BY DEF Init
<1>3. \A c \in Callers : c # None
  BY QueueAssumption
<1> QED
  BY <1>1, <1>2, <1>3 DEF IInv, FreshIsFree, QueuedIsFree, BoundToOne,
     SeekerIsFree, CallerIsBound, Bound

(* What a step may do without binding anybody.                              *)
CallerKeeps(c) ==
  /\ caller'[c].at \in Fresh => caller[c].at \in Fresh
  /\ caller'[c].partner = caller[c].partner
  /\ Bound(caller'[c])
AgentKeeps(a) ==
  /\ agent'[a].partner = agent[a].partner
  /\ agent'[a].at \in Seeking => agent[a].at \in Seeking
  /\ agent'[a].post => agent[a].post

LEMMA Kept ==
  ASSUME IInv, TypeOK', queue' \subseteq queue,
         \A c \in Callers : CallerKeeps(c), \A a \in Agents : AgentKeeps(a)
  PROVE  IInv'
<1>1. FreshIsFree' /\ QueuedIsFree'
  BY DEF IInv, TypeOK, FreshIsFree, QueuedIsFree, CallerKeeps, AgentKeeps
<1>2. BoundToOne' /\ SeekerIsFree'
  BY DEF IInv, BoundToOne, SeekerIsFree, AgentKeeps
<1>3. CallerIsBound'
  <2> SUFFICES ASSUME NEW c \in Callers
               PROVE  /\ caller'[c].partner # None =>
                           agent'[caller'[c].partner].partner = c
                      /\ Bound(caller'[c])
    BY DEF CallerIsBound
  <2>1. caller[c].partner \in Agents \cup {None}
    BY DEF IInv, TypeOK, CallerStates
  <2> QED BY <2>1 DEF IInv, CallerIsBound, CallerKeeps, AgentKeeps
<1> QED BY <1>1, <1>2, <1>3 DEF IInv

(* One caller moves on.                                                     *)
LEMMA CallerMoves ==
  ASSUME IInv, NEW c \in Callers, NEW r \in CallerStates, CallerGoes(c, r),
         r.at \in Fresh => caller[c].at \in Fresh,
         r.partner = caller[c].partner, Bound(r),
         queue' \subseteq queue, UNCHANGED calm,
         agent' \in [Agents -> AgentStates], \A a \in Agents : AgentKeeps(a)
  PROVE  IInv'
<1>1. TypeOK'
  BY DEF IInv, TypeOK, CallerGoes
<1>2. \A o \in Callers : caller'[o] = IF o = c THEN r ELSE caller[o]
  BY DEF IInv, TypeOK, CallerGoes
<1>3. \A o \in Callers : CallerKeeps(o)
  BY <1>2 DEF IInv, CallerIsBound, CallerKeeps
<1> QED BY <1>1, <1>3, Kept

(* One agent moves on.                                                      *)
LEMMA AgentMoves ==
  ASSUME IInv, NEW a \in Agents, NEW r \in AgentStates, AgentGoes(a, r),
         r.at \in Seeking => agent[a].at \in Seeking,
         r.partner = agent[a].partner, r.post => agent[a].post,
         queue' \subseteq queue, UNCHANGED calm,
         caller' \in [Callers -> CallerStates], \A c \in Callers : CallerKeeps(c)
  PROVE  IInv'
<1>1. TypeOK'
  BY DEF IInv, TypeOK, AgentGoes
<1>2. \A o \in Agents : agent'[o] = IF o = a THEN r ELSE agent[o]
  BY DEF IInv, TypeOK, AgentGoes
<1>3. \A o \in Agents : AgentKeeps(o)
  BY <1>2 DEF AgentKeeps
<1> QED BY <1>1, <1>3, Kept

LEMMA Unmoved ==
  ASSUME IInv
  PROVE  /\ UNCHANGED agent => /\ agent' \in [Agents -> AgentStates]
                               /\ \A a \in Agents : AgentKeeps(a)
         /\ UNCHANGED caller => /\ caller' \in [Callers -> CallerStates]
                                /\ \A c \in Callers : CallerKeeps(c)
BY DEF IInv, TypeOK, AgentKeeps, CallerKeeps, CallerIsBound

(* The caller's end, whoever brings it about.                               *)
LEMMA PartedIs ==
  ASSUME NEW r \in CallerStates
  PROVE  /\ Parted(r) \in CallerStates /\ Parted(r).at = "over"
         /\ Parted(r).partner = r.partner /\ Parted(r).ready = r.ready
BY DEF Parted, CallerStates

LEMMA KilledIs ==
  ASSUME NEW r \in CallerStates
  PROVE  /\ Killed(r) \in CallerStates /\ Killed(r).at \in {r.at, "over"}
         /\ Killed(r).partner = r.partner /\ Killed(r).ready = r.ready
<1> DEFINE removes == r.at \in {"waiting", "moving", "bridged"} /\ ~r.moved /\ ~r.dequeued
           k == [r EXCEPT !.killed = TRUE, !.removing = removes]
<1>1. removes \in BOOLEAN
  OBVIOUS
<1>2. k \in CallerStates /\ k.at = r.at /\ k.partner = r.partner /\ k.ready = r.ready
  BY <1>1 DEF CallerStates
<1>3. Killed(r) = k \/ Killed(r) = Parted(k)
  BY DEF Killed
<1> HIDE DEF k
<1> QED BY <1>2, <1>3, PartedIs

LEMMA KillCallerInv ==
  ASSUME IInv, NEW c \in Callers, KillCaller(c), UNCHANGED <<calm, queue>>
  PROVE  IInv'
<1>1. caller[c] \in CallerStates
  BY DEF IInv, TypeOK
<1>2. /\ agent' \in [Agents -> AgentStates]
      /\ \A a \in Agents : AgentKeeps(a)
  <2>1. CASE agent' = agent
    BY <2>1, Unmoved
  <2>2. CASE agent' = [agent EXCEPT ![caller[c].partner].told = TRUE]
    <3> DEFINE o == caller[c].partner
               t == [agent[o] EXCEPT !.told = TRUE]
    <3>1. agent' = [agent EXCEPT ![o] = t]
      BY <2>2
    <3> HIDE DEF o
    <3>2. ASSUME o \in Agents
          PROVE  /\ t \in AgentStates /\ t.at = agent[o].at
                 /\ t.partner = agent[o].partner /\ t.post = agent[o].post
      <4>1. agent[o] \in AgentStates
        BY <3>2 DEF IInv, TypeOK
      <4> QED BY <4>1 DEF AgentStates
    <3> HIDE DEF t
    <3> QED BY <3>1, <3>2 DEF IInv, TypeOK, AgentKeeps
  <2> QED BY <2>1, <2>2 DEF KillCaller, Tells
<1>3. /\ Killed(caller[c]).at \in Fresh => caller[c].at \in Fresh
      /\ Bound(Killed(caller[c]))
  BY <1>1, KilledIs DEF IInv, CallerIsBound, Bound, Fresh
<1> QED BY <1>1, <1>2, <1>3, KilledIs, CallerMoves DEF KillCaller

(* The caller's own steps that bind nobody.                                 *)
LEMMA CallerStepInv ==
  ASSUME IInv, NEW c \in Callers,
         \/ Enqueue(c) \/ DoWait(c) \/ CallerHangsUp(c) \/ HookReplies(c)
         \/ RemoveFromQueue(c) \/ CountedMembers(c) \/ ReferFails(c) \/ CallerTold(c)
  PROVE  IInv'
<1>1. caller[c] \in CallerStates /\ Bound(caller[c])
  BY DEF IInv, TypeOK, CallerIsBound
<1>2. CASE Enqueue(c)
  <2> DEFINE r == [caller[c] EXCEPT !.at = "adding"]
  <2>1. r \in CallerStates /\ r.at = "adding" /\ r.partner = caller[c].partner
        /\ r.ready = caller[c].ready
    BY <1>1 DEF CallerStates
  <2> QED BY <1>1, <1>2, <2>1, Unmoved, CallerMoves DEF Enqueue, Fresh, Bound
<1>3. CASE DoWait(c)
  <2>1. PICK h \in {"off", "asked"} :
          CallerGoes(c, [caller[c] EXCEPT !.at = "waiting", !.hook = h])
    BY <1>3 DEF DoWait
  <2> DEFINE r == [caller[c] EXCEPT !.at = "waiting", !.hook = h]
  <2>2. r \in CallerStates /\ r.partner = caller[c].partner
        /\ r.ready = caller[c].ready /\ r.at = "waiting"
    BY <1>1 DEF CallerStates
  <2> QED BY <1>1, <1>3, <2>1, <2>2, Unmoved, CallerMoves DEF DoWait, Fresh, Bound
<1>4. CASE CallerHangsUp(c)
  BY <1>4, KillCallerInv DEF CallerHangsUp
<1>5. CASE HookReplies(c)
  <2>1. CASE KillCaller(c)
    BY <1>5, <2>1, KillCallerInv DEF HookReplies
  <2>2. CASE CallerGoes(c, [caller[c] EXCEPT !.hook = "off"]) /\ UNCHANGED agent
    <3> DEFINE r == [caller[c] EXCEPT !.hook = "off"]
    <3>1. r \in CallerStates /\ r.at = caller[c].at
          /\ r.partner = caller[c].partner /\ r.ready = caller[c].ready
      BY <1>1 DEF CallerStates
    <3> QED BY <1>1, <1>5, <2>2, <3>1, Unmoved, CallerMoves DEF HookReplies, Bound
  <2> QED BY <1>5, <2>1, <2>2 DEF HookReplies
<1>6. CASE RemoveFromQueue(c)
  <2> DEFINE r == [caller[c] EXCEPT !.removing = FALSE]
  <2>1. r \in CallerStates /\ r.at = caller[c].at
        /\ r.partner = caller[c].partner /\ r.ready = caller[c].ready
    BY <1>1 DEF CallerStates
  <2>2. PICK s \in {r, Parted(r)} : CallerGoes(c, s)
    BY <1>6, <2>1 DEF RemoveFromQueue
  <2> HIDE DEF r
  <2>3. /\ s \in CallerStates /\ s.partner = r.partner /\ s.ready = r.ready
        /\ s.at \in {r.at, "over"}
    BY <2>1, <2>2, PartedIs
  <2> QED BY <1>1, <1>6, <2>1, <2>2, <2>3, Unmoved, CallerMoves DEF RemoveFromQueue, Fresh, Bound
<1>7. CASE CountedMembers(c)
  <2> DEFINE r == [caller[c] EXCEPT !.counting = FALSE, !.dequeued = TRUE]
  <2>1. r \in CallerStates /\ r.at = caller[c].at
        /\ r.partner = caller[c].partner /\ r.ready = caller[c].ready
    BY <1>1 DEF CallerStates
  <2> QED BY <1>1, <1>7, <2>1, Unmoved, CallerMoves DEF CountedMembers, Bound
<1>8. CASE ReferFails(c)
  BY <1>1, <1>8, PartedIs, Unmoved, CallerMoves DEF ReferFails, Fresh, Bound
<1>9. CASE CallerTold(c)
  <2> DEFINE r == [caller[c] EXCEPT !.told = FALSE]
  <2>1. r \in CallerStates /\ r.at = caller[c].at
        /\ r.partner = caller[c].partner /\ r.ready = caller[c].ready
    BY <1>1 DEF CallerStates
  <2>2. PICK s \in {r, Parted(r)} : CallerGoes(c, s)
    BY <1>9, <2>1 DEF CallerTold
  <2> HIDE DEF r
  <2>3. /\ s \in CallerStates /\ s.partner = r.partner /\ s.ready = r.ready
        /\ s.at \in {r.at, "over"}
    BY <2>1, <2>2, PartedIs
  <2> QED BY <1>1, <1>9, <2>1, <2>2, <2>3, Unmoved, CallerMoves DEF CallerTold, Fresh, Bound
<1> QED BY <1>2, <1>3, <1>4, <1>5, <1>6, <1>7, <1>8, <1>9

(* He enters the queue: nobody was bound to him before.                     *)
LEMMA AddInv ==
  ASSUME IInv, NEW c \in Callers, AddToSortedSet(c)
  PROVE  IInv'
<1> DEFINE r == [caller[c] EXCEPT !.at = "added"]
<1>1. r \in CallerStates /\ r.at = "added"
      /\ r.partner = caller[c].partner /\ r.ready = caller[c].ready
  BY DEF IInv, TypeOK, CallerStates
<1>2. /\ caller' = [caller EXCEPT ![c] = r]
      /\ \A o \in Callers : caller'[o] = IF o = c THEN r ELSE caller[o]
      /\ queue' = queue \cup {c} /\ agent' = agent /\ calm' = calm
      /\ caller[c].at = "adding"
  BY <1>1 DEF AddToSortedSet, CallerGoes, IInv, TypeOK
<1> HIDE DEF r
<1>3. TypeOK'
  BY <1>1, <1>2 DEF IInv, TypeOK
<1>4. FreshIsFree' /\ QueuedIsFree'
  BY <1>1, <1>2 DEF IInv, FreshIsFree, QueuedIsFree, Fresh
<1>5. BoundToOne' /\ SeekerIsFree'
  BY <1>2 DEF IInv, BoundToOne, SeekerIsFree
<1>6. CallerIsBound'
  BY <1>1, <1>2 DEF IInv, CallerIsBound, Bound
<1> QED BY <1>3, <1>4, <1>5, <1>6 DEF IInv

(* The moved leg keeps its agent.                                           *)
LEMMA BridgingIs ==
  ASSUME NEW r \in CallerStates, NEW a \in Agents
  PROVE  /\ Bridging(r, a) \in CallerStates /\ Bridging(r, a).at = "bridged"
         /\ Bridging(r, a).partner = a
BY DEF Bridging, CallerStates

LEMMA ReferSucceedsInv ==
  ASSUME IInv, NEW c \in Callers, ReferSucceeds(c)
  PROVE  IInv'
<1>1. caller[c] \in CallerStates /\ caller[c].partner \in Agents
  BY DEF IInv, TypeOK, CallerStates, CallerIsBound, Bound, ReferSucceeds
<1> DEFINE r == [caller[c] EXCEPT !.moved = TRUE, !.hook = "off",
                   !.removing = ~caller[c].dequeued /\ ~caller[c].counting]
<1>2. r \in CallerStates
  <2>1. (~caller[c].dequeued /\ ~caller[c].counting) \in BOOLEAN
    OBVIOUS
  <2> QED BY <1>1, <2>1 DEF CallerStates
<1>3. CallerGoes(c, Bridging(r, caller[c].partner))
  BY DEF ReferSucceeds
<1> HIDE DEF r
<1>4. caller[c].partner # None
  BY <1>1, QueueAssumption
<1> QED
  BY <1>1, <1>2, <1>3, <1>4, BridgingIs, Unmoved, CallerMoves
     DEF ReferSucceeds, Fresh, Bound

(* "ready" goes to the agent who is bound to the caller already.            *)
LEMMA PostReadyInv ==
  ASSUME IInv, NEW c \in Callers, PostReady(c)
  PROVE  IInv'
<1>1. /\ caller[c] \in CallerStates /\ caller[c].ready
      /\ caller[c].partner \in Agents /\ agent[caller[c].partner].partner = c
  BY DEF IInv, TypeOK, CallerIsBound, Bound, CallerStates, PostReady
<1> DEFINE a == caller[c].partner
           r == [caller[c] EXCEPT !.ready = FALSE]
           p == IF agent[a].at \in {"posting", "expecting"} THEN "bridging" ELSE agent[a].at
           s == [agent[a] EXCEPT !.partner = c, !.at = p]
<1>2. r \in CallerStates /\ r.at = caller[c].at /\ r.partner = a /\ ~r.ready
  BY <1>1 DEF CallerStates
<1>3. agent[a] \in AgentStates
  BY <1>1 DEF IInv, TypeOK
<1>4. /\ s \in AgentStates /\ s.partner = c /\ s.post = agent[a].post
      /\ s.at \in Seeking => agent[a].at \in Seeking
  BY <1>3 DEF AgentStates, Seeking
<1>5. CASE Dequeuing(a)
  <2>1. CallerGoes(c, r) /\ agent' = [agent EXCEPT ![a] = s] /\ UNCHANGED <<calm, queue>>
    BY <1>5 DEF PostReady, AgentGoes
  <2> HIDE DEF s, r
  <2>2. agent' \in [Agents -> AgentStates]
    BY <1>4, <2>1 DEF IInv, TypeOK
  <2>3. \A o \in Agents : agent'[o] = IF o = a THEN s ELSE agent[o]
    BY <2>1 DEF IInv, TypeOK
  <2>4. \A o \in Agents : AgentKeeps(o)
    BY <1>1, <1>4, <2>3 DEF AgentKeeps
  <2> HIDE DEF a
  <2>5. r.at \in Fresh => caller[c].at \in Fresh
    BY <1>2
  <2>6. r.partner = caller[c].partner /\ Bound(r)
    BY <1>1, <1>2, QueueAssumption DEF a, Bound
  <2> QED BY <1>2, <2>1, <2>2, <2>4, <2>5, <2>6, CallerMoves
<1>6. CASE ~Dequeuing(a)
  <2>1. CallerGoes(c, Parted(r)) /\ UNCHANGED <<calm, queue, agent>>
    BY <1>6 DEF PostReady
  <2> HIDE DEF r
  <2> QED BY <1>2, <2>1, PartedIs, Unmoved, CallerMoves DEF Fresh, Bound
<1> QED BY <1>5, <1>6

(* "dequeue" tells a caller of the agent who is bound to him.               *)
LEMMA DequeuedIs ==
  ASSUME IInv, NEW c \in Callers, NEW a \in Agents
  PROVE  /\ Dequeued(c, a) \in CallerStates
         /\ Dequeued(c, a).at \in Fresh => caller[c].at \in Fresh
         /\ \/ Dequeued(c, a).partner = a
            \/ /\ Dequeued(c, a).partner = caller[c].partner
               /\ Bound(Dequeued(c, a))
<1>1. caller[c] \in CallerStates /\ Bound(caller[c])
  BY DEF IInv, TypeOK, CallerIsBound
<1> DEFINE r == [caller[c] EXCEPT !.counting = TRUE]
           w == [r EXCEPT !.partner = a, !.at = "moving"]
<1>2. /\ r \in CallerStates /\ r.at = caller[c].at
      /\ r.partner = caller[c].partner /\ r.ready = caller[c].ready
  BY <1>1 DEF CallerStates
<1>3. Dequeued(c, a) \in {caller[c], w, Bridging(r, a), r}
  BY DEF Dequeued
<1> HIDE DEF r
<1>4. w \in CallerStates /\ w.at = "moving" /\ w.partner = a
  BY <1>2 DEF CallerStates
<1> HIDE DEF w
<1> QED BY <1>1, <1>2, <1>3, <1>4, BridgingIs DEF Fresh, Bound

LEMMA PostDequeueInv ==
  ASSUME IInv, NEW a \in Agents, PostDequeue(a)
  PROVE  IInv'
<1> DEFINE c == agent[a].partner
           r == [agent[a] EXCEPT !.post = FALSE]
<1>1. agent[a] \in AgentStates /\ agent[a].post /\ c \in Callers
  BY DEF IInv, TypeOK, SeekerIsFree, AgentStates, PostDequeue
<1>2. r \in AgentStates /\ r.at = agent[a].at /\ r.partner = c /\ ~r.post
  BY <1>1 DEF AgentStates
<1>3. CASE Enqueued(c)
  <2> DEFINE p == IF r.at = "posting" THEN "expecting" ELSE r.at
             s == [r EXCEPT !.at = p]
             after == Dequeued(c, a)
  <2>1. /\ caller' = [caller EXCEPT ![c] = after] /\ agent' = [agent EXCEPT ![a] = s]
        /\ UNCHANGED <<calm, queue>>
    BY <1>3 DEF PostDequeue, CallerGoes, AgentGoes
  <2> HIDE DEF r
  <2>2. s \in AgentStates /\ s.partner = c /\ ~s.post
        /\ (s.at \in Seeking => agent[a].at \in Seeking)
    BY <1>2 DEF AgentStates, Seeking
  <2> HIDE DEF s
  <2>3. /\ after \in CallerStates /\ (after.at \in Fresh => caller[c].at \in Fresh)
        /\ \/ after.partner = a
           \/ after.partner = caller[c].partner /\ Bound(after)
    BY <1>1, DequeuedIs
  <2> HIDE DEF after
  <2>4. TypeOK'
    BY <1>1, <2>1, <2>2, <2>3 DEF IInv, TypeOK
  <2>5. \A o \in Agents : agent'[o] = IF o = a THEN s ELSE agent[o]
    BY <2>1 DEF IInv, TypeOK
  <2>6. \A o \in Callers : caller'[o] = IF o = c THEN after ELSE caller[o]
    BY <2>1 DEF IInv, TypeOK
  <2>7. \A o \in Agents : /\ agent'[o].partner = agent[o].partner
                          /\ agent'[o].at \in Seeking => agent[o].at \in Seeking
                          /\ agent'[o].post => agent[o].post
    BY <2>2, <2>5
  <2>8. FreshIsFree' /\ QueuedIsFree'
    BY <2>1, <2>3, <2>6, <2>7 DEF IInv, FreshIsFree, QueuedIsFree
  <2>9. BoundToOne' /\ SeekerIsFree'
    BY <2>7 DEF IInv, BoundToOne, SeekerIsFree
  <2>10. CallerIsBound'
    <3> SUFFICES ASSUME NEW o \in Callers
                 PROVE  /\ caller'[o].partner # None =>
                             agent'[caller'[o].partner].partner = o
                        /\ Bound(caller'[o])
      BY DEF CallerIsBound
    <3>1. caller[o].partner \in Agents \cup {None} /\ a # None
      BY QueueAssumption DEF IInv, TypeOK, CallerStates
    <3> QED BY <1>1, <2>3, <2>6, <2>7, <3>1 DEF IInv, CallerIsBound, Bound
  <2> QED BY <2>4, <2>8, <2>9, <2>10 DEF IInv
<1>4. CASE ~Enqueued(c)
  <2> DEFINE s == [r EXCEPT !.at = "over"]
  <2>1. AgentGoes(a, s) /\ UNCHANGED <<calm, queue, caller>>
    BY <1>4 DEF PostDequeue
  <2> HIDE DEF r
  <2>2. s \in AgentStates /\ s.partner = c /\ s.post = r.post /\ s.at = "over"
    BY <1>2 DEF AgentStates
  <2> HIDE DEF s
  <2> QED BY <1>1, <1>2, <2>1, <2>2, Unmoved, AgentMoves DEF Seeking
<1> QED BY <1>3, <1>4

(* The steps that only take an agent from one stage to another.             *)
Staged(a, r) ==
  /\ AgentGoes(a, r)
  /\ r.partner = agent[a].partner /\ r.post = agent[a].post /\ r.loop = agent[a].loop
  /\ r.at \in {"over", "bridged", "unbridged"}

LEMMA AgentStaged ==
  ASSUME IInv, NEW a \in Agents, Timeout(a) \/ BridgeTimeout(a) \/ Bridge(a)
  PROVE  \E r \in AgentStates : Staged(a, r) /\ (Timeout(a) => r.at = "over")
<1>1. agent[a] \in AgentStates
  BY DEF IInv, TypeOK
<1> DEFINE o == [agent[a] EXCEPT !.at = "over"]
           u == [agent[a] EXCEPT !.at = "unbridged"]
           b == [agent[a] EXCEPT !.at = "bridged", !.bridged = TRUE]
<1>2. /\ o \in AgentStates /\ o.at = "over" /\ o.partner = agent[a].partner
      /\ o.post = agent[a].post /\ o.loop = agent[a].loop
  BY <1>1 DEF AgentStates
<1>3. /\ u \in AgentStates /\ u.at = "unbridged" /\ u.partner = agent[a].partner
      /\ u.post = agent[a].post /\ u.loop = agent[a].loop
  BY <1>1 DEF AgentStates
<1>4. /\ b \in AgentStates /\ b.at = "bridged" /\ b.partner = agent[a].partner
      /\ b.post = agent[a].post /\ b.loop = agent[a].loop
  BY <1>1 DEF AgentStates
<1>5. \/ AgentGoes(a, o)
      \/ ~Timeout(a) /\ (AgentGoes(a, u) \/ AgentGoes(a, b))
  BY DEF Timeout, BridgeTimeout, Bridge
<1> HIDE DEF o, u, b
<1> QED BY <1>2, <1>3, <1>4, <1>5 DEF Staged

(* The agent's own steps that bind nobody.                                  *)
LEMMA AgentStepInv ==
  ASSUME IInv, NEW a \in Agents,
         \/ Dequeue(a) \/ WakesUp(a) \/ Timeout(a) \/ Bridge(a)
         \/ BridgeTimeout(a) \/ AgentTold(a) \/ AgentHangsUp(a)
  PROVE  IInv'
<1>1. agent[a] \in AgentStates
  BY DEF IInv, TypeOK
<1>2. CASE Dequeue(a)
  <2> DEFINE r == [agent[a] EXCEPT !.at = "polling", !.loop = "first"]
  <2>1. r \in AgentStates /\ r.partner = agent[a].partner /\ r.post = agent[a].post
    BY <1>1 DEF AgentStates
  <2>2. AgentGoes(a, r) /\ UNCHANGED <<calm, queue, caller>> /\ agent[a].at \in Seeking
    BY <1>2 DEF Dequeue, Seeking
  <2> HIDE DEF r
  <2> QED BY <2>1, <2>2, Unmoved, AgentMoves
<1>3. CASE WakesUp(a)
  <2>1. PICK l \in {"off", "asking"} : AgentGoes(a, [agent[a] EXCEPT !.loop = l])
    BY <1>1, <1>3 DEF WakesUp, AgentStates
  <2> DEFINE r == [agent[a] EXCEPT !.loop = l]
  <2>2. r \in AgentStates /\ r.partner = agent[a].partner /\ r.post = agent[a].post
        /\ r.at = agent[a].at
    BY <1>1 DEF AgentStates
  <2>3. AgentGoes(a, r) /\ UNCHANGED <<calm, queue, caller>>
    BY <1>3, <2>1 DEF WakesUp
  <2> HIDE DEF r
  <2> QED BY <2>2, <2>3, Unmoved, AgentMoves
<1>4. CASE Timeout(a) \/ BridgeTimeout(a) \/ Bridge(a)
  <2>1. PICK r \in AgentStates : Staged(a, r)
    BY <1>4, AgentStaged
  <2>2. UNCHANGED <<calm, queue, caller>> /\ r.at \notin Seeking
    BY <1>4, <2>1 DEF Timeout, BridgeTimeout, Bridge, Staged, Seeking
  <2> QED BY <2>1, <2>2, Unmoved, AgentMoves DEF Staged
<1>5. CASE AgentTold(a)
  <2> DEFINE r == [agent[a] EXCEPT !.told = FALSE]
             s == [r EXCEPT !.at = "over"]
  <2>1. r \in AgentStates /\ r.partner = agent[a].partner /\ r.post = agent[a].post
        /\ r.at = agent[a].at
    BY <1>1 DEF AgentStates
  <2>2. (AgentGoes(a, r) \/ AgentGoes(a, s)) /\ UNCHANGED <<calm, queue, caller>>
    BY <1>5 DEF AgentTold
  <2> HIDE DEF r
  <2>3. s \in AgentStates /\ s.partner = r.partner /\ s.post = r.post /\ s.at = "over"
    BY <2>1 DEF AgentStates
  <2> HIDE DEF s
  <2> QED BY <2>1, <2>2, <2>3, Unmoved, AgentMoves DEF Seeking
<1>6. CASE AgentHangsUp(a)
  <2> DEFINE p == IF agent[a].at = "polling" THEN agent[a].at ELSE "over"
             r == [agent[a] EXCEPT !.killed = TRUE, !.at = p]
  <2>1. r \in AgentStates /\ r.partner = agent[a].partner /\ r.post = agent[a].post
        /\ (r.at \in Seeking => agent[a].at \in Seeking)
    BY <1>1 DEF AgentStates, Seeking
  <2>2. AgentGoes(a, r) /\ UNCHANGED <<calm, queue>>
    BY <1>6 DEF AgentHangsUp, KilledAgent
  <2>3. /\ caller' \in [Callers -> CallerStates]
        /\ \A c \in Callers : CallerKeeps(c)
    <3>1. CASE UNCHANGED caller
      BY <3>1, Unmoved
    <3>2. CASE caller' = [caller EXCEPT ![agent[a].partner].told = TRUE]
      <4> DEFINE o == agent[a].partner
                 t == [caller[o] EXCEPT !.told = TRUE]
      <4>1. caller' = [caller EXCEPT ![o] = t]
        BY <3>2
      <4> HIDE DEF o
      <4>2. ASSUME o \in Callers
            PROVE  /\ t \in CallerStates /\ t.at = caller[o].at
                   /\ t.partner = caller[o].partner /\ t.ready = caller[o].ready
        <5>1. caller[o] \in CallerStates
          BY <4>2 DEF IInv, TypeOK
        <5> QED BY <5>1 DEF CallerStates
      <4> HIDE DEF t
      <4> QED BY <4>1, <4>2 DEF IInv, TypeOK, CallerKeeps, CallerIsBound, Bound
    <3> QED BY <1>6, <3>1, <3>2 DEF AgentHangsUp, TellsCaller
  <2> HIDE DEF r
  <2> QED BY <2>1, <2>2, <2>3, AgentMoves
<1> QED BY <1>2, <1>3, <1>4, <1>5, <1>6

(* An agent who pops a caller out of the queue is the first to be bound to  *)
(* him; one who no longer waits for a caller binds nobody.                  *)
LEMMA RetrieveInv ==
  ASSUME IInv, NEW a \in Agents, Retrieve(a)
  PROVE  IInv'
<1>1. agent[a] \in AgentStates
  BY DEF IInv, TypeOK
<1>2. CASE UNCHANGED queue /\ AgentGoes(a, [agent[a] EXCEPT !.loop = "asleep"])
  <2> DEFINE r == [agent[a] EXCEPT !.loop = "asleep"]
  <2>1. r \in AgentStates /\ r.partner = agent[a].partner /\ r.post = agent[a].post
        /\ r.at = agent[a].at
    BY <1>1 DEF AgentStates
  <2> HIDE DEF r
  <2> QED BY <1>2, <2>1, Unmoved, AgentMoves DEF Retrieve, r
<1>3. ASSUME NEW c \in queue, queue' = queue \ {c}, AgentGoes(a, Found(agent[a], c))
      PROVE  IInv'
  <2>1. UNCHANGED <<calm, caller>> /\ c \in Callers
    BY DEF Retrieve, IInv, TypeOK
  <2>2. CASE agent[a].at # "polling"
    <3> DEFINE r == [agent[a] EXCEPT !.loop = "off"]
    <3>1. r \in AgentStates /\ r.partner = agent[a].partner /\ r.post = agent[a].post
          /\ r.at = agent[a].at
      BY <1>1 DEF AgentStates
    <3>2. AgentGoes(a, r)
      BY <1>3, <2>2 DEF Found
    <3> HIDE DEF r
    <3> QED BY <1>3, <2>1, <3>1, <3>2, Unmoved, AgentMoves
  <2>3. CASE agent[a].at = "polling"
    <3> DEFINE r == [agent[a] EXCEPT !.loop = "off", !.partner = c,
                                     !.at = "posting", !.post = TRUE]
    <3>1. r \in AgentStates /\ r.partner = c /\ r.at = "posting" /\ r.post
      BY <1>1, <2>1 DEF AgentStates
    <3>2. agent' = [agent EXCEPT ![a] = r]
      BY <1>3, <2>3 DEF Found, AgentGoes
    <3> HIDE DEF r
    <3>3. \A o \in Agents : agent'[o] = IF o = a THEN r ELSE agent[o]
      BY <3>2 DEF IInv, TypeOK
    <3>4. TypeOK'
      BY <1>3, <2>1, <3>1, <3>2 DEF IInv, TypeOK
    <3>5. /\ agent[a].partner = None /\ c # None
          /\ \A o \in Agents : agent[o].partner # c
          /\ caller[c].at \notin Fresh
      BY <2>1, <2>3, QueueAssumption
         DEF IInv, SeekerIsFree, Seeking, QueuedIsFree, FreshIsFree
    <3>6. FreshIsFree' /\ QueuedIsFree'
      BY <1>3, <2>1, <3>1, <3>3, <3>5 DEF IInv, FreshIsFree, QueuedIsFree
    <3>7. BoundToOne'
      BY <3>1, <3>3, <3>5 DEF IInv, BoundToOne
    <3>8. SeekerIsFree'
      BY <3>1, <3>3, <3>5 DEF IInv, SeekerIsFree, Seeking
    <3>9. CallerIsBound'
      <4> SUFFICES ASSUME NEW o \in Callers
                   PROVE  /\ caller[o].partner # None =>
                               agent'[caller[o].partner].partner = o
                          /\ Bound(caller[o])
        BY <2>1 DEF CallerIsBound
      <4>1. caller[o].partner \in Agents \cup {None} /\ o # None
        BY QueueAssumption DEF IInv, TypeOK, CallerStates
      <4> QED BY <3>3, <3>5, <4>1 DEF IInv, CallerIsBound
    <3> QED BY <3>4, <3>6, <3>7, <3>8, <3>9 DEF IInv
  <2> QED BY <2>2, <2>3
<1> QED BY <1>2, <1>3 DEF Retrieve

LEMMA NextInv ==
  ASSUME IInv, [Next]_vars
  PROVE  IInv'
<1>1. CASE UNCHANGED vars
  BY <1>1 DEF vars, IInv, TypeOK, FreshIsFree, QueuedIsFree, BoundToOne,
     SeekerIsFree, CallerIsBound, Bound
<1>2. ASSUME NEW c \in Callers,
             CallerStep(c) \/ Enqueue(c) \/ CallerHangsUp(c) \/ HookReplies(c)
      PROVE  IInv'
  BY <1>2, AddInv, CallerStepInv, ReferSucceedsInv, PostReadyInv DEF CallerStep
<1>3. ASSUME NEW a \in Agents, AgentStep(a) \/ Dequeue(a) \/ AgentHangsUp(a)
      PROVE  IInv'
  BY <1>3, AgentStepInv, RetrieveInv, PostDequeueInv DEF AgentStep
<1> QED BY <1>1, <1>2, <1>3 DEF Next

(* No two agents deal with one caller, for any sets of callers and agents,  *)
(* wherever they are and whoever hangs up meanwhile: what enqueue.js and    *)
(* dequeue.js rely on when they keep one url of the other side.             *)
THEOREM OnePartnerCorrect == Spec => []OnePartner
<1>1. IInv => OnePartner
  BY DEF IInv, BoundToOne, OnePartner
<1> QED BY <1>1, InitInv, NextInv, PTL DEF Spec

------------------------------------------------------------------------------
(* Why nobody is forgotten: a caller who is to wait, or waits, is in the    *)
(* queue until an agent pops the url, which then is about to post; a url    *)
(* is popped only for an agent who still polls, and taken out only for a    *)
(* caller who no longer waits.                                              *)
Ended == {"bridged", "over"}
Wants(r) == r.at \in {"added", "waiting"} /\ ~r.killed
Posted(c) == \E a \in Agents : agent[a].post /\ agent[a].partner = c
CallerInv(r) == (r.removing => r.killed \/ r.at \in Ended) /\ (r.moved => r.at \in Ended)
AgentInv(r) ==
  /\ r.loop \in {"first", "asking"} => r.at = "polling"
  /\ r.loop = "asleep" => r.at \in {"polling", "over"}
  /\ r.post => r.loop = "off"
Waited(c) == c \in queue \/ (caller[c].at = "waiting" /\ Posted(c))
WaitInv ==
  calm => /\ \A c \in Callers : CallerInv(caller[c])
          /\ \A a \in Agents : AgentInv(agent[a])
          /\ \A c \in Callers : Wants(caller[c]) => Waited(c)

LEMMA InitWait == Init => WaitInv
BY DEF Init, WaitInv, CallerInv, AgentInv, Wants, Ended

(* What a step may do to an agent without taking a post back.               *)
StillPosts(a) ==
  /\ AgentInv(agent'[a])
  /\ agent[a].post => agent'[a].post /\ agent'[a].partner = agent[a].partner
StillWaits(c) ==
  /\ CallerInv(caller'[c])
  /\ Wants(caller'[c]) =>
       /\ Wants(caller[c]) /\ caller'[c].at \in {caller[c].at, "waiting"}
       /\ c \in queue => c \in queue'

LEMMA WaitKept ==
  ASSUME WaitInv, calm, \A c \in Callers : StillWaits(c), \A a \in Agents : StillPosts(a)
  PROVE  WaitInv'
<1> SUFFICES ASSUME NEW c \in Callers, Wants(caller'[c]) PROVE Waited(c)'
  BY DEF WaitInv, StillWaits, StillPosts
<1>1. Waited(c) /\ Wants(caller[c]) /\ caller'[c].at \in {caller[c].at, "waiting"}
      /\ (c \in queue => c \in queue')
  BY DEF WaitInv, StillWaits
<1>2. Posted(c) => Posted(c)'
  BY DEF Posted, StillPosts
<1> QED BY <1>1, <1>2 DEF Waited

LEMMA WaitUnmoved ==
  ASSUME WaitInv, calm
  PROVE  /\ UNCHANGED agent => \A a \in Agents : StillPosts(a)
         /\ UNCHANGED <<caller, queue>> => \A c \in Callers : StillWaits(c)
BY DEF WaitInv, StillPosts, StillWaits

(* One caller moves on.                                                     *)
LEMMA CallerWaits ==
  ASSUME IInv, WaitInv, calm, NEW c \in Callers, NEW r, CallerGoes(c, r), CallerInv(r),
         Wants(r) => /\ Wants(caller[c]) /\ r.at \in {caller[c].at, "waiting"}
                     /\ c \in queue => c \in queue',
         \A o \in Callers \ {c} : o \in queue => o \in queue',
         \A a \in Agents : StillPosts(a)
  PROVE  WaitInv'
<1>1. \A o \in Callers : caller'[o] = IF o = c THEN r ELSE caller[o]
  BY DEF IInv, TypeOK, CallerGoes
<1>2. \A o \in Callers : StillWaits(o)
  BY <1>1 DEF WaitInv, StillWaits
<1> QED BY <1>2, WaitKept

(* One agent moves on.                                                      *)
LEMMA AgentWaits ==
  ASSUME IInv, WaitInv, calm, NEW a \in Agents, NEW r, AgentGoes(a, r), AgentInv(r),
         agent[a].post => r.post /\ r.partner = agent[a].partner,
         \A c \in Callers : StillWaits(c)
  PROVE  WaitInv'
<1>1. \A o \in Agents : agent'[o] = IF o = a THEN r ELSE agent[o]
  BY DEF IInv, TypeOK, AgentGoes
<1>2. \A o \in Agents : StillPosts(o)
  BY <1>1 DEF WaitInv, StillPosts
<1> QED BY <1>2, WaitKept

(* A caller who leaves is not forgotten.                                    *)
LEMMA PartedWaits ==
  ASSUME NEW r \in CallerStates
  PROVE  CallerInv(Parted(r)) /\ ~Wants(Parted(r))
BY DEF Parted, CallerStates, CallerInv, Wants, Ended

LEMMA KilledWaits ==
  ASSUME NEW r \in CallerStates, CallerInv(r)
  PROVE  CallerInv(Killed(r)) /\ ~Wants(Killed(r))
<1> DEFINE removes == r.at \in {"waiting", "moving", "bridged"} /\ ~r.moved /\ ~r.dequeued
           k == [r EXCEPT !.killed = TRUE, !.removing = removes]
<1>1. removes \in BOOLEAN
  OBVIOUS
<1>2. k \in CallerStates /\ k.at = r.at /\ k.killed /\ k.moved = r.moved
  BY <1>1 DEF CallerStates
<1>3. Killed(r) = k \/ Killed(r) = Parted(k)
  BY DEF Killed
<1> HIDE DEF k
<1> QED BY <1>2, <1>3, PartedWaits DEF CallerInv, Wants

LEMMA KillCallerWait ==
  ASSUME IInv, WaitInv, calm, NEW c \in Callers, KillCaller(c), UNCHANGED <<calm, queue>>
  PROVE  WaitInv'
<1>1. caller[c] \in CallerStates /\ CallerInv(caller[c])
  BY DEF IInv, TypeOK, WaitInv
<1>2. \A a \in Agents : StillPosts(a)
  <2>1. CASE agent' = agent
    BY <2>1, WaitUnmoved
  <2>2. CASE agent' = [agent EXCEPT ![caller[c].partner].told = TRUE]
    <3>1. \A a \in Agents : /\ agent'[a].post = agent[a].post /\ agent'[a].at = agent[a].at
                            /\ agent'[a].partner = agent[a].partner
                            /\ agent'[a].loop = agent[a].loop
      BY <2>2 DEF IInv, TypeOK, AgentStates
    <3> QED BY <3>1 DEF WaitInv, StillPosts, AgentInv
  <2> QED BY <2>1, <2>2 DEF KillCaller, Tells
<1>3. CallerInv(Killed(caller[c])) /\ ~Wants(Killed(caller[c]))
  BY <1>1, KilledWaits
<1> QED BY <1>2, <1>3, CallerWaits DEF KillCaller

(* The caller's own steps.                                                  *)
LEMMA CallerStepWait ==
  ASSUME IInv, WaitInv, calm, NEW c \in Callers,
         CallerStep(c) \/ Enqueue(c) \/ CallerHangsUp(c) \/ HookReplies(c)
  PROVE  WaitInv'
<1>1. /\ caller[c] \in CallerStates /\ CallerInv(caller[c])
      /\ Wants(caller[c]) => Waited(c)
  BY DEF IInv, TypeOK, WaitInv
<1>2. CASE Enqueue(c)
  <2> DEFINE r == [caller[c] EXCEPT !.at = "adding"]
  <2>1. CallerInv(r) /\ ~Wants(r)
    BY <1>1, <1>2 DEF Enqueue, CallerStates, CallerInv, Wants, Ended
  <2> HIDE DEF r
  <2> QED BY <1>2, <2>1, WaitUnmoved, CallerWaits DEF Enqueue, r
<1>3. CASE AddToSortedSet(c)
  <2> DEFINE r == [caller[c] EXCEPT !.at = "added"]
  <2>1. /\ caller' = [caller EXCEPT ![c] = r] /\ agent' = agent
        /\ queue' = queue \cup {c} /\ calm' = calm /\ caller[c].at = "adding"
    BY <1>3 DEF AddToSortedSet, CallerGoes
  <2>2. CallerInv(r) /\ r.at = "added"
    BY <1>1, <2>1 DEF CallerStates, CallerInv, Ended
  <2> HIDE DEF r
  <2>3. \A o \in Callers : caller'[o] = IF o = c THEN r ELSE caller[o]
    BY <2>1 DEF IInv, TypeOK
  <2>4. \A o \in Callers : CallerInv(caller'[o])
    BY <2>2, <2>3 DEF WaitInv
  <2>5. ASSUME NEW o \in Callers, Wants(caller'[o]) PROVE Waited(o)'
    BY <2>1, <2>3, <2>5 DEF WaitInv, Waited, Posted
  <2>6. \A a \in Agents : AgentInv(agent'[a])
    BY <2>1 DEF WaitInv
  <2> QED BY <2>1, <2>4, <2>5, <2>6 DEF WaitInv
<1>4. CASE DoWait(c)
  <2>1. PICK h \in {"off", "asked"} :
          CallerGoes(c, [caller[c] EXCEPT !.at = "waiting", !.hook = h])
    BY <1>4 DEF DoWait
  <2> DEFINE r == [caller[c] EXCEPT !.at = "waiting", !.hook = h]
  <2>2. /\ CallerInv(r) /\ r.at = "waiting"
        /\ Wants(r) => Wants(caller[c])
    BY <1>1, <1>4 DEF DoWait, CallerStates, CallerInv, Wants, Ended
  <2> HIDE DEF r
  <2> QED BY <1>4, <2>1, <2>2, WaitUnmoved, CallerWaits DEF DoWait, r
<1>5. CASE CallerHangsUp(c)
  BY <1>5, KillCallerWait DEF CallerHangsUp
<1>6. CASE HookReplies(c)
  <2>1. CASE KillCaller(c)
    BY <1>6, <2>1, KillCallerWait DEF HookReplies
  <2>2. CASE CallerGoes(c, [caller[c] EXCEPT !.hook = "off"]) /\ UNCHANGED agent
    <3> DEFINE r == [caller[c] EXCEPT !.hook = "off"]
    <3>1. CallerInv(r) /\ r.at = caller[c].at /\ (Wants(r) => Wants(caller[c]))
      BY <1>1 DEF CallerStates, CallerInv, Wants
    <3>2. CallerGoes(c, r)
      BY <2>2
    <3> HIDE DEF r
    <3> QED BY <1>6, <2>2, <3>1, <3>2, WaitUnmoved, CallerWaits DEF HookReplies
  <2> QED BY <1>6, <2>1, <2>2 DEF HookReplies
<1>7. CASE RemoveFromQueue(c)
  <2> DEFINE r == [caller[c] EXCEPT !.removing = FALSE]
  <2>1. r \in CallerStates /\ CallerInv(r) /\ ~Wants(r)
    BY <1>1, <1>7 DEF RemoveFromQueue, CallerStates, CallerInv, Wants, Ended
  <2>2. PICK s \in {r, Parted(r)} : CallerGoes(c, s)
    BY <1>7 DEF RemoveFromQueue
  <2> HIDE DEF r
  <2>3. CallerInv(s) /\ ~Wants(s)
    BY <2>1, <2>2, PartedWaits
  <2> QED BY <1>7, <2>2, <2>3, WaitUnmoved, CallerWaits DEF RemoveFromQueue
<1>8. CASE CountedMembers(c)
  <2> DEFINE r == [caller[c] EXCEPT !.counting = FALSE, !.dequeued = TRUE]
  <2>1. CallerInv(r) /\ r.at = caller[c].at /\ (Wants(r) => Wants(caller[c]))
    BY <1>1 DEF CallerStates, CallerInv, Wants
  <2>2. CallerGoes(c, r)
    BY <1>8 DEF CountedMembers
  <2> HIDE DEF r
  <2> QED BY <1>8, <2>1, <2>2, WaitUnmoved, CallerWaits DEF CountedMembers
<1>9. CASE ReferSucceeds(c)
  <2> DEFINE s == [caller[c] EXCEPT !.moved = TRUE, !.hook = "off",
                     !.removing = ~caller[c].dequeued /\ ~caller[c].counting]
             r == Bridging(s, caller[c].partner)
  <2>1. r.at = "bridged"
    BY <1>1 DEF Bridging, CallerStates
  <2>2. CallerGoes(c, r) /\ queue' = queue /\ agent' = agent
    BY <1>9 DEF ReferSucceeds
  <2> HIDE DEF r
  <2>3. CallerInv(r) /\ ~Wants(r)
    BY <2>1 DEF CallerInv, Wants, Ended
  <2> QED BY <2>2, <2>3, WaitUnmoved, CallerWaits
<1>10. CASE ReferFails(c)
  BY <1>1, <1>10, PartedWaits, WaitUnmoved, CallerWaits DEF ReferFails
<1>11. CASE PostReady(c)
  <2> DEFINE a == caller[c].partner
             r == [caller[c] EXCEPT !.ready = FALSE]
             p == IF agent[a].at \in {"posting", "expecting"} THEN "bridging" ELSE agent[a].at
             s == [agent[a] EXCEPT !.partner = c, !.at = p]
  <2>1. /\ a \in Agents /\ agent[a].partner = c
    BY <1>11 DEF IInv, TypeOK, CallerIsBound, Bound, CallerStates, PostReady
  <2>2. r \in CallerStates /\ CallerInv(r) /\ r.at = caller[c].at /\ (Wants(r) => Wants(caller[c]))
    BY <1>1 DEF CallerStates, CallerInv, Wants
  <2>3. CASE CallerGoes(c, Parted(r)) /\ UNCHANGED agent
    BY <1>11, <2>2, <2>3, PartedWaits, WaitUnmoved, CallerWaits DEF PostReady
  <2>4. CASE CallerGoes(c, r) /\ agent' = [agent EXCEPT ![a] = s]
    <3>1. agent[a] \in AgentStates /\ AgentInv(agent[a])
      BY <2>1 DEF IInv, TypeOK, WaitInv
    <3>2. AgentInv(s) /\ s.partner = c /\ s.post = agent[a].post
      BY <3>1 DEF AgentStates, AgentInv
    <3> HIDE DEF s
    <3>3. \A o \in Agents : agent'[o] = IF o = a THEN s ELSE agent[o]
      BY <2>4 DEF IInv, TypeOK
    <3>4. \A o \in Agents : StillPosts(o)
      BY <2>1, <3>2, <3>3 DEF StillPosts, WaitInv
    <3> HIDE DEF r
    <3> QED BY <1>11, <2>2, <2>4, <3>4, CallerWaits DEF PostReady
  <2> QED BY <1>11, <2>3, <2>4 DEF PostReady, AgentGoes
<1>12. CASE CallerTold(c)
  <2> DEFINE r == [caller[c] EXCEPT !.told = FALSE]
  <2>1. r \in CallerStates /\ CallerInv(r) /\ r.at = caller[c].at /\ (Wants(r) => Wants(caller[c]))
    BY <1>1 DEF CallerStates, CallerInv, Wants
  <2>2. PICK s \in {r, Parted(r)} : CallerGoes(c, s)
    BY <1>12 DEF CallerTold
  <2> HIDE DEF r
  <2>3. CallerInv(s) /\ (Wants(s) => Wants(caller[c]) /\ s.at = caller[c].at)
    BY <2>1, <2>2, PartedWaits
  <2> QED BY <1>12, <2>2, <2>3, WaitUnmoved, CallerWaits DEF CallerTold
<1> QED
  BY <1>2, <1>3, <1>4, <1>5, <1>6, <1>7, <1>8, <1>9, <1>10, <1>11, <1>12 DEF CallerStep

(* The post that an agent was about to send takes the caller out of his     *)
(* wait.                                                                    *)
LEMMA PostDequeueWait ==
  ASSUME IInv, WaitInv, calm, NEW a \in Agents, PostDequeue(a)
  PROVE  WaitInv'
<1> DEFINE c == agent[a].partner
<1>1. /\ agent[a] \in AgentStates /\ AgentInv(agent[a]) /\ c \in Callers
      /\ caller[c] \in CallerStates /\ CallerInv(caller[c])
  BY DEF IInv, TypeOK, SeekerIsFree, AgentStates, PostDequeue, WaitInv
<1>2. PICK p \in {"over", "expecting", agent[a].at} :
        agent' = [agent EXCEPT ![a] = [agent[a] EXCEPT !.post = FALSE, !.at = p]]
  <2>1. CASE Enqueued(c)
    BY <1>1, <2>1 DEF PostDequeue, AgentGoes, AgentStates
  <2>2. CASE ~Enqueued(c)
    BY <1>1, <2>2 DEF PostDequeue, AgentGoes, AgentStates
  <2> QED BY <2>1, <2>2
<1> DEFINE s == [agent[a] EXCEPT !.post = FALSE, !.at = p]
<1>3. AgentInv(s)
  BY <1>1 DEF AgentInv, AgentStates, PostDequeue
<1> HIDE DEF s
<1>4. \A o \in Agents : agent'[o] = IF o = a THEN s ELSE agent[o]
  BY <1>2 DEF IInv, TypeOK, s
<1>5. \A o \in Agents : AgentInv(agent'[o])
  BY <1>3, <1>4 DEF WaitInv
<1>6. \A o \in Callers \ {c} : Posted(o) => Posted(o)'
  BY <1>4 DEF Posted
<1>7. /\ \A o \in Callers \ {c} : caller'[o] = caller[o]
      /\ CallerInv(caller'[c])
      /\ Wants(caller'[c]) => Wants(caller[c]) /\ caller[c].at = "added"
  <2>1. CASE Enqueued(c)
    <3> DEFINE r == [caller[c] EXCEPT !.counting = TRUE]
               after == Dequeued(c, a)
               m == [r EXCEPT !.partner = a, !.at = "moving"]
    <3>1. caller' = [caller EXCEPT ![c] = after]
      BY <2>1 DEF PostDequeue, CallerGoes
    <3>2. /\ r \in CallerStates /\ r.at = caller[c].at /\ CallerInv(r)
          /\ r.killed = caller[c].killed
      BY <1>1 DEF CallerStates, CallerInv
    <3>3. \/ after = caller[c] /\ caller[c].moved
          \/ after = r /\ r.at # "waiting"
          \/ after = m /\ ~caller[c].moved /\ r.at = "waiting"
          \/ after = Bridging(r, a)
      BY DEF Dequeued
    <3>4. r.moved = caller[c].moved /\ r.removing = caller[c].removing
      BY <1>1 DEF CallerStates
    <3> HIDE DEF r
    <3>5. /\ m.at = "moving" /\ m.moved = r.moved /\ m.removing = r.removing
          /\ m.killed = r.killed
      BY <3>2 DEF CallerStates
    <3>6. Bridging(r, a).at = "bridged"
      BY <3>2 DEF Bridging, CallerStates
    <3> HIDE DEF after, m
    <3>7. CallerInv(after) /\ (Wants(after) => Wants(caller[c]) /\ caller[c].at = "added")
      BY <1>1, <3>2, <3>3, <3>4, <3>5, <3>6 DEF CallerInv, Wants, Ended
    <3> QED BY <1>1, <3>1, <3>7 DEF IInv, TypeOK
  <2>2. CASE ~Enqueued(c)
    BY <1>1, <2>2 DEF PostDequeue, Enqueued, Wants
  <2> QED BY <2>1, <2>2
<1>8. ASSUME NEW o \in Callers, Wants(caller'[o]) PROVE Waited(o)'
  <2>1. queue' = queue
    BY DEF PostDequeue
  <2>2. CASE o = c
    BY <1>1, <1>7, <1>8, <2>1, <2>2 DEF WaitInv, Waited
  <2>3. CASE o # c
    BY <1>6, <1>7, <1>8, <2>1, <2>3 DEF WaitInv, Waited
  <2> QED BY <2>2, <2>3
<1> QED BY <1>5, <1>7, <1>8 DEF WaitInv

(* An agent pops a url only while it polls, and then posts.                 *)
LEMMA RetrieveWait ==
  ASSUME IInv, WaitInv, calm, NEW a \in Agents, Retrieve(a)
  PROVE  WaitInv'
<1>1. /\ agent[a] \in AgentStates /\ AgentInv(agent[a]) /\ agent[a].loop = "asking"
      /\ UNCHANGED <<calm, caller>>
  BY DEF IInv, TypeOK, WaitInv, Retrieve
<1>2. agent[a].at = "polling" /\ ~agent[a].post
  BY <1>1 DEF AgentInv
<1>3. CASE UNCHANGED queue /\ AgentGoes(a, [agent[a] EXCEPT !.loop = "asleep"])
  <2> DEFINE r == [agent[a] EXCEPT !.loop = "asleep"]
  <2>1. AgentInv(r)
    BY <1>1, <1>2 DEF AgentStates, AgentInv
  <2>2. AgentGoes(a, r)
    BY <1>3
  <2> HIDE DEF r
  <2> QED BY <1>1, <1>2, <1>3, <2>1, <2>2, WaitUnmoved, AgentWaits
<1>4. ASSUME NEW c \in queue, caller[c].at = "waiting", queue' = queue \ {c},
             AgentGoes(a, Found(agent[a], c))
      PROVE  WaitInv'
  <2> DEFINE r == Found(agent[a], c)
  <2>1. AgentInv(r) /\ r.post /\ r.partner = c
    BY <1>1, <1>2 DEF AgentStates, AgentInv, Found
  <2> HIDE DEF r
  <2>2. \A o \in Agents : agent'[o] = IF o = a THEN r ELSE agent[o]
    BY <1>4 DEF IInv, TypeOK, AgentGoes, r
  <2>3. \A o \in Agents : AgentInv(agent'[o])
    BY <2>1, <2>2 DEF WaitInv
  <2>4. Posted(c)'
    BY <2>1, <2>2 DEF Posted
  <2>5. \A o \in Callers : Posted(o) => Posted(o)'
    BY <1>2, <2>2 DEF Posted
  <2>6. ASSUME NEW o \in Callers, Wants(caller'[o]) PROVE Waited(o)'
    BY <1>1, <1>4, <2>4, <2>5, <2>6 DEF WaitInv, Waited
  <2>7. \A o \in Callers : CallerInv(caller'[o])
    BY <1>1 DEF WaitInv
  <2> QED BY <2>3, <2>6, <2>7 DEF WaitInv
<1> QED BY <1>3, <1>4 DEF Retrieve

(* The agent's other steps.                                                 *)
LEMMA AgentStepWait ==
  ASSUME IInv, WaitInv, calm, NEW a \in Agents,
         \/ Dequeue(a) \/ WakesUp(a) \/ Timeout(a) \/ Bridge(a)
         \/ BridgeTimeout(a) \/ AgentTold(a) \/ AgentHangsUp(a)
  PROVE  WaitInv'
<1>1. /\ agent[a] \in AgentStates /\ AgentInv(agent[a])
      /\ agent[a].at = "out" => ~agent[a].post
  BY DEF IInv, TypeOK, WaitInv, SeekerIsFree, Seeking
<1>2. CASE Dequeue(a)
  <2> DEFINE r == [agent[a] EXCEPT !.at = "polling", !.loop = "first"]
  <2>1. AgentInv(r) /\ ~agent[a].post
    BY <1>1, <1>2 DEF AgentStates, AgentInv, Dequeue
  <2>2. AgentGoes(a, r) /\ UNCHANGED <<calm, queue, caller>>
    BY <1>2 DEF Dequeue
  <2> HIDE DEF r
  <2> QED BY <2>1, <2>2, WaitUnmoved, AgentWaits
<1>3. CASE WakesUp(a)
  <2>1. PICK l \in {"off", "asking"} :
          /\ AgentGoes(a, [agent[a] EXCEPT !.loop = l])
          /\ l = "asking" => agent[a].loop = "first" \/ ~Expired(a)
    BY <1>1, <1>3 DEF WakesUp, AgentStates
  <2> DEFINE r == [agent[a] EXCEPT !.loop = l]
  <2>2. /\ AgentGoes(a, r) /\ UNCHANGED <<calm, queue, caller>>
        /\ agent[a].loop \in {"first", "asleep"}
    BY <1>3, <2>1 DEF WakesUp
  <2>3. AgentInv(r) /\ ~agent[a].post
    <3>1. agent[a].at = "polling" \/ l = "off"
      BY <1>1, <2>1, <2>2 DEF AgentInv, Expired
    <3> QED BY <1>1, <2>2, <3>1 DEF AgentInv, AgentStates
  <2> HIDE DEF r
  <2> QED BY <2>2, <2>3, WaitUnmoved, AgentWaits
<1>4. CASE Timeout(a) \/ BridgeTimeout(a) \/ Bridge(a)
  <2>1. PICK r \in AgentStates : Staged(a, r) /\ (Timeout(a) => r.at = "over")
    BY <1>4, AgentStaged
  <2>2. agent[a].loop \in {"off", "asleep"} /\ (agent[a].loop = "asleep" => r.at = "over")
    <3>1. CASE Timeout(a)
      BY <2>1, <3>1 DEF Timeout
    <3>2. CASE Bridge(a) \/ BridgeTimeout(a)
      BY <1>1, <3>2 DEF Bridge, BridgeTimeout, AgentInv, AgentStates
    <3> QED BY <1>4, <3>1, <3>2
  <2>3. AgentInv(r)
    BY <1>1, <2>1, <2>2 DEF AgentInv, Staged
  <2>4. UNCHANGED <<calm, queue, caller>>
    BY <1>4 DEF Timeout, BridgeTimeout, Bridge
  <2> QED BY <2>1, <2>3, <2>4, WaitUnmoved, AgentWaits DEF Staged
<1>5. CASE AgentTold(a)
  <2> DEFINE p == IF agent[a].at \in {"posting", "expecting", "bridging", "unbridged",
                                     "bridged"}
                  THEN "over" ELSE agent[a].at
             r == [agent[a] EXCEPT !.told = FALSE, !.at = p]
  <2>1. AgentInv(r) /\ r.post = agent[a].post /\ r.partner = agent[a].partner
    BY <1>1 DEF AgentInv, AgentStates
  <2>2. AgentGoes(a, r) /\ UNCHANGED <<calm, queue, caller>>
    BY <1>1, <1>5 DEF AgentTold, AgentStates
  <2> HIDE DEF r
  <2> QED BY <2>1, <2>2, WaitUnmoved, AgentWaits
<1>6. CASE AgentHangsUp(a)
  <2> DEFINE p == IF agent[a].at = "polling" THEN agent[a].at ELSE "over"
             r == [agent[a] EXCEPT !.killed = TRUE, !.at = p]
  <2>1. AgentInv(r) /\ r.post = agent[a].post /\ r.partner = agent[a].partner
    BY <1>1, <1>6 DEF AgentHangsUp, QuietAgent, AgentInv, AgentStates
  <2>2. AgentGoes(a, r) /\ UNCHANGED <<calm, queue>>
    BY <1>6 DEF AgentHangsUp, KilledAgent
  <2>3. \A c \in Callers : StillWaits(c)
    <3>1. CASE UNCHANGED caller
      BY <2>2, <3>1, WaitUnmoved
    <3>2. CASE caller' = [caller EXCEPT ![agent[a].partner].told = TRUE]
      <4>1. \A c \in Callers :
              /\ caller'[c].at = caller[c].at /\ caller'[c].killed = caller[c].killed
              /\ caller'[c].removing = caller[c].removing
              /\ caller'[c].moved = caller[c].moved
        BY <3>2 DEF IInv, TypeOK, CallerStates
      <4> QED BY <2>2, <4>1 DEF WaitInv, StillWaits, CallerInv, Wants
    <3> QED BY <1>6, <3>1, <3>2 DEF AgentHangsUp, TellsCaller
  <2> HIDE DEF r
  <2> QED BY <2>1, <2>2, <2>3, AgentWaits
<1> QED BY <1>2, <1>3, <1>4, <1>5, <1>6

LEMMA NextWait ==
  ASSUME IInv, WaitInv, [Next]_vars
  PROVE  WaitInv'
<1>1. calm' = calm
  <2>1. CASE UNCHANGED vars
    BY <2>1 DEF vars
  <2>2. ASSUME NEW c \in Callers,
               CallerStep(c) \/ Enqueue(c) \/ CallerHangsUp(c) \/ HookReplies(c)
        PROVE  calm' = calm
    BY <2>2 DEF CallerStep, Enqueue, CallerHangsUp, HookReplies, AddToSortedSet, DoWait,
       RemoveFromQueue, CountedMembers, ReferSucceeds, ReferFails, PostReady, CallerTold
  <2>3. ASSUME NEW a \in Agents, AgentStep(a) \/ Dequeue(a) \/ AgentHangsUp(a)
        PROVE  calm' = calm
    BY <2>3 DEF AgentStep, Dequeue, AgentHangsUp, WakesUp, Retrieve, Timeout, PostDequeue,
       Bridge, BridgeTimeout, AgentTold
  <2> QED BY <2>1, <2>2, <2>3 DEF Next
<1>2. CASE ~calm
  BY <1>1, <1>2 DEF WaitInv
<1>3. CASE calm /\ UNCHANGED vars
  BY <1>3, WaitUnmoved, WaitKept DEF vars
<1>4. ASSUME calm, NEW c \in Callers,
             CallerStep(c) \/ Enqueue(c) \/ CallerHangsUp(c) \/ HookReplies(c)
      PROVE  WaitInv'
  BY <1>4, CallerStepWait
<1>5. ASSUME calm, NEW a \in Agents, AgentStep(a) \/ Dequeue(a) \/ AgentHangsUp(a)
      PROVE  WaitInv'
  BY <1>5, AgentStepWait, RetrieveWait, PostDequeueWait DEF AgentStep
<1> QED BY <1>2, <1>3, <1>4, <1>5 DEF Next

(* Nobody is forgotten, for any callers and agents, as long as calls end    *)
(* and timers fire between the requests of enqueue.js and dequeue.js: a     *)
(* caller who waits can be popped, or is about to be told.                  *)
THEOREM WaitingIsQueuedCorrect == Spec => []WaitingIsQueued
<1>1. IInv /\ WaitInv => WaitingIsQueued
  BY DEF WaitInv, WaitingIsQueued, Wants, Waited, Posted
<1> QED BY <1>1, InitInv, InitWait, NextInv, NextWait, PTL DEF Spec

------------------------------------------------------------------------------
(* Sequences.                                                               *)

NoRepeats(s) == \A i, j \in DOMAIN s : s[i] = s[j] => i = j

LEMMA Minimum ==
  ASSUME NEW S \in SUBSET Nat, S # {}
  PROVE  Min(S) \in S /\ \A y \in S : Min(S) <= y
<1> DEFINE R == {ss \in Nat \X Nat : ss[1] < ss[2]}
<1>1. IsWellFoundedOn(R, Nat)
  BY NatLessThanWellFounded DEF OpToRel
<1>2. \A x, y \in Nat : <<y, x>> \in R <=> y < x
  OBVIOUS
<1> HIDE DEF R
<1>3. PICK x \in S : \A y \in S : ~(<<y, x>> \in R)
  BY <1>1, WFMin
<1>4. ASSUME NEW y \in S PROVE x <= y
  <2>1. x \in Nat /\ y \in Nat /\ <<y, x>> \notin R
    BY <1>3
  <2> QED BY <1>2, <2>1
<1> QED BY <1>4 DEF Min

LEMMA RemovedAt ==
  ASSUME NEW S, NEW s \in Seq(S), NEW i \in DOMAIN s
  PROVE  LET r == RemoveAt(s, i)
         IN  /\ r \in Seq(S) /\ Len(r) = Len(s) - 1
             /\ \A j \in DOMAIN r : r[j] = IF j < i THEN s[j] ELSE s[j + 1]
<1>1. i \in 1..Len(s) /\ Len(s) \in Nat
  OBVIOUS
<1>2. /\ SubSeq(s, 1, i - 1) \in Seq(S) /\ Len(SubSeq(s, 1, i - 1)) = i - 1
      /\ \A j \in 1..(i - 1) : SubSeq(s, 1, i - 1)[j] = s[j]
  BY <1>1
<1>3. /\ SubSeq(s, i + 1, Len(s)) \in Seq(S) /\ Len(SubSeq(s, i + 1, Len(s))) = Len(s) - i
      /\ \A j \in 1..(Len(s) - i) : SubSeq(s, i + 1, Len(s))[j] = s[i + j]
  BY <1>1
<1> DEFINE p == SubSeq(s, 1, i - 1)
           q == SubSeq(s, i + 1, Len(s))
           r == p \o q
<1>4. p \in Seq(S) /\ q \in Seq(S) /\ Len(p) = i - 1 /\ Len(q) = Len(s) - i
  BY <1>2, <1>3
<1>6. RemoveAt(s, i) = r
  BY DEF RemoveAt
<1>0. /\ \A j \in 1..(i - 1) : p[j] = s[j]
      /\ \A j \in 1..(Len(s) - i) : q[j] = s[i + j]
  BY <1>2, <1>3
<1> HIDE DEF p, q
<1>5. /\ r \in Seq(S) /\ Len(r) = Len(p) + Len(q)
      /\ \A j \in 1..(Len(p) + Len(q)) : r[j] = IF j <= Len(p) THEN p[j] ELSE q[j - Len(p)]
  BY <1>4, ConcatProperties
<1> HIDE DEF r
<1>7. Len(r) = Len(s) - 1
  BY <1>1, <1>4, <1>5
<1>8. DOMAIN r = 1..(Len(s) - 1)
  BY <1>5, <1>7
<1>9. ASSUME NEW j \in DOMAIN r PROVE r[j] = IF j < i THEN s[j] ELSE s[j + 1]
  <2>1. j \in 1..(Len(s) - 1) /\ j \in 1..(Len(p) + Len(q))
    BY <1>1, <1>4, <1>8
  <2>2. CASE j < i
    <3>1. j <= Len(p) /\ j \in 1..(i - 1)
      BY <2>1, <2>2, <1>1, <1>4
    <3>2. r[j] = p[j]
      BY <3>1, <2>1, <1>5
    <3> QED BY <3>1, <3>2, <2>2, <1>0
  <2>3. CASE ~(j < i)
    <3>1. j - (i - 1) \in 1..(Len(s) - i) /\ i + (j - (i - 1)) = j + 1
      BY <2>1, <2>3, <1>1
    <3>2. q[j - (i - 1)] = s[i + (j - (i - 1))]
      BY <3>1, <1>0
    <3>3. ~(j <= Len(p)) /\ j - Len(p) = j - (i - 1)
      BY <2>1, <2>3, <1>1, <1>4
    <3>4. r[j] = q[j - Len(p)]
      BY <3>3, <2>1, <1>5
    <3>5. r[j] = s[j + 1]
      BY <3>1, <3>2, <3>3, <3>4
    <3> QED BY <3>5, <2>3
  <2> QED BY <2>2, <2>3
<1> QED BY <1>5, <1>6, <1>7, <1>9

LEMMA RemovedFirst ==
  ASSUME NEW S, NEW s \in Seq(S), NEW e
  PROVE  LET r == RemoveFirst(s, e)
         IN  /\ r \in Seq(S) /\ ToSet(r) \subseteq ToSet(s)
             /\ \A u \in ToSet(s) : u # e => u \in ToSet(r)
             /\ NoRepeats(s) => NoRepeats(r) /\ e \notin ToSet(r)
<1> DEFINE I == {i \in 1..Len(s) : s[i] = e}
           r == RemoveFirst(s, e)
<1>1. CASE I = {}
  <2>1. r = s
    BY <1>1 DEF RemoveFirst
  <2>2. e \notin ToSet(s)
    BY <1>1 DEF ToSet
  <2> QED BY <2>1, <2>2
<1>2. CASE I # {}
  <2> DEFINE k == Min(I)
  <2>0. I \in SUBSET Nat
    OBVIOUS
  <2>1. k \in I
    BY <1>2, <2>0, Minimum
  <2>2. r = RemoveAt(s, k)
    BY <1>2 DEF RemoveFirst, SelectInSeq
  <2> HIDE DEF k
  <2>3. k \in DOMAIN s /\ s[k] = e /\ Len(s) \in Nat /\ DOMAIN s = 1..Len(s) /\ k \in 1..Len(s)
    BY <2>1
  <2>4. /\ r \in Seq(S) /\ Len(r) = Len(s) - 1
        /\ \A j \in DOMAIN r : r[j] = IF j < k THEN s[j] ELSE s[j + 1]
    BY <2>2, <2>3, RemovedAt
  <2> HIDE DEF r
  <2>5. DOMAIN r = 1..(Len(s) - 1)
    BY <2>4
  <2>6. ToSet(r) \subseteq ToSet(s)
    BY <2>3, <2>4, <2>5 DEF ToSet
  <2>7. ASSUME NEW u \in ToSet(s), u # e PROVE u \in ToSet(r)
    <3>1. PICK j \in 1..Len(s) : s[j] = u
      BY <2>7, <2>3 DEF ToSet
    <3>2. CASE j < k
      <4>1. j \in DOMAIN r /\ r[j] = u
        BY <3>1, <3>2, <2>3, <2>4, <2>5
      <4> QED BY <4>1 DEF ToSet
    <3>3. CASE j > k
      <4>1. j - 1 \in DOMAIN r /\ ~(j - 1 < k) /\ (j - 1) + 1 = j
        BY <3>1, <3>3, <2>3, <2>5
      <4>2. r[j - 1] = s[(j - 1) + 1]
        BY <4>1, <2>4
      <4> QED BY <4>1, <4>2, <3>1 DEF ToSet
    <3>4. j # k
      BY <3>1, <2>7, <2>3
    <3> QED BY <3>1, <3>2, <3>3, <3>4, <2>3
  <2>8. ASSUME NoRepeats(s) PROVE NoRepeats(r) /\ e \notin ToSet(r)
    <3>1. \A i, j \in 1..Len(s) : s[i] = s[j] => i = j
      BY <2>8, <2>3 DEF NoRepeats
    <3>2. ASSUME NEW i \in DOMAIN r, NEW j \in DOMAIN r, r[i] = r[j] PROVE i = j
      BY <3>2, <3>1, <2>3, <2>4, <2>5
    <3>3. ASSUME NEW i \in DOMAIN r, r[i] = e PROVE FALSE
      BY <3>3, <3>1, <2>3, <2>4, <2>5
    <3> QED BY <3>2, <3>3 DEF NoRepeats, ToSet
  <2> QED BY <2>4, <2>6, <2>7, <2>8 DEF r
<1> QED BY <1>1, <1>2

------------------------------------------------------------------------------
(* The race.                                                                *)

(* Verbs for which one callee at most is connected: there is but one, or    *)
(* there are two and the caller need not be answered first.                 *)
Duel(o) ==
  /\ o.prompt
  /\ \A t, u, v \in o.targets : t = u \/ u = v \/ t = v
  /\ o.bridge => \A t, u \in o.targets : t = u

(* Two callees neither of whom is asked to confirm, or one.                 *)
Plain(o) == o.confirm = {} \/ \A t, u \in o.targets : t = u

(* A callee who will not be connected any more, or was and is gone.         *)
Beaten(x) ==
  \/ x.at = "over"
  \/ x.at \in {"endpoint", "sending", "ringing", "connecting"} /\ (x.killed \/ ~x.heard)
  \/ x.at = "confirming" /\ (x.leg # "up" \/ ~x.heard)
  \/ x.at = "answered" /\ x.leg # "up"
InRace(x) == x.at \notin {"lookup", "answered"} /\ ~Beaten(x)
Joined(x) == x.at = "answered" /\ x.leg = "up"

Early(s) ==
  s.pc \in {"init", "teams"} =>
    /\ s.dials = <<>> /\ s.loops = <<>> /\ s.winner = Nobody
    /\ \A u \in Targets : s.sd[u].at = "over"

(* Who is in the race is listed, and every loop will come to him.           *)
Reached(s) == \A u \in Targets : InRace(s.sd[u]) => u \in ToSet(s.dials)
Sweeps(s) ==
  \A i \in DOMAIN s.loops :
    /\ s.loops[i].left # <<>> /\ (s.loops[i].then = "kill" => s.killed)
    /\ \A u \in Targets : InRace(s.sd[u]) => u \in ToSet(Tail(s.loops[i].left))

(* Nobody enters the race once a loop runs or a callee has answered.        *)
NoLookup(s) == \A u \in Targets : s.sd[u].at # "lookup"
LateStages == {"connecting", "confirming", "answered"}
Frozen(s) ==
  /\ s.loops # <<>> => s.killed \/ NoLookup(s)
  /\ \A u \in Targets : s.sd[u].at \in LateStages => NoLookup(s)

Listed(s) ==
  /\ NoRepeats(s.dials)
  /\ \A u \in ToSet(s.dials) : u \in opts.targets /\ s.sd[u].at # "lookup"
Called(s) ==
  /\ \A u \in Targets : s.sd[u].at # "over" => u \in opts.targets
  /\ s.winner # Nobody => s.sd[s.winner].at = "answered"
  /\ \A u \in Targets : s.sd[u].at = "confirming" => u \in opts.confirm

(* Whoever is connected has beaten all others.                              *)
Sole(s) ==
  \A t, u \in Targets : Joined(s.sd[t]) /\ t # u => Beaten(s.sd[u])

(* Whoever is connected is the verb's own, until it ends.                   *)
Owned(s) ==
  Plain(opts) =>
    \A t \in Targets : Joined(s.sd[t]) /\ ~s.sd[t].adult => s.winner = t /\ ~s.done
Closed(s) == s.done => s.killed /\ \A u \in Targets : ~InRace(s.sd[u])

Core(s) ==
  s \in Dials /\ Early(s) /\ Reached(s) /\ Sweeps(s) /\ Frozen(s) /\ Listed(s) /\ Called(s)
Most(s) == Core(s) /\ Owned(s) /\ Closed(s)
Inv(s) == Most(s) /\ Sole(s)

------------------------------------------------------------------------------
(* Steps that let nobody in.                                                *)

Tamer(x, y) ==
  /\ x \in Dialers /\ y \in Dialers /\ y.at = x.at /\ (y.adult <=> x.adult)
  /\ y.leg = "up" => x.leg = "up"
  /\ x.killed => y.killed
  /\ y.heard => x.heard
Tame(s, r) ==
  /\ s \in Dials /\ r \in Dials /\ r.pc = s.pc /\ (s.killed => r.killed)
  /\ \A u \in Targets : Tamer(s.sd[u], r.sd[u])
Still(s, r) ==
  r.dials = s.dials /\ r.loops = s.loops /\ r.winner = s.winner /\ (r.done <=> s.done)

LEMMA TamerBeaten ==
  ASSUME NEW x, NEW y, Tamer(x, y)
  PROVE  /\ Beaten(x) => Beaten(y)
         /\ InRace(y) => InRace(x)
         /\ Joined(y) => Joined(x)
<1>1. Beaten(x) => Beaten(y)
  BY DEF Tamer, Beaten
<1> QED BY <1>1 DEF Tamer, InRace, Joined

LEMMA TameMost ==
  ASSUME NEW s, NEW r, Most(s), Tame(s, r), Still(s, r)
  PROVE  Most(r)
<1>1. \A u \in Targets : /\ r.sd[u].at = s.sd[u].at
                         /\ Beaten(s.sd[u]) => Beaten(r.sd[u])
                         /\ InRace(r.sd[u]) => InRace(s.sd[u])
                         /\ Joined(r.sd[u]) => Joined(s.sd[u])
                         /\ r.sd[u].adult <=> s.sd[u].adult
  BY TamerBeaten DEF Tame, Tamer
<1>2. r \in Dials /\ r.pc = s.pc /\ (s.killed => r.killed)
  BY DEF Tame
<1>3. /\ r.dials = s.dials /\ r.loops = s.loops /\ r.winner = s.winner
      /\ r.done <=> s.done
  BY DEF Still
<1>4. /\ Early(s) /\ Reached(s) /\ Sweeps(s) /\ Frozen(s) /\ Listed(s) /\ Called(s)
      /\ Owned(s) /\ Closed(s)
  BY DEF Most, Core
<1>5. Early(r) /\ Reached(r) /\ Sweeps(r)
  BY <1>1, <1>2, <1>3, <1>4 DEF Early, Reached, Sweeps
<1>6. NoLookup(s) => NoLookup(r)
  BY <1>1 DEF NoLookup
<1>7. Frozen(r)
  BY <1>1, <1>2, <1>3, <1>4, <1>6 DEF Frozen
<1>8. \A u \in ToSet(s.dials) : u \in Targets
  BY DEF Tame, Dials, ToSet
<1>9. Listed(r)
  BY <1>1, <1>3, <1>4, <1>8 DEF Listed
<1>10. s.winner # Nobody => s.winner \in Targets
  BY DEF Tame, Dials
<1>11. Called(r)
  BY <1>1, <1>3, <1>4, <1>10 DEF Called
<1>13. Owned(r)
  BY <1>1, <1>3, <1>4 DEF Owned
<1>14. Closed(r)
  BY <1>1, <1>2, <1>3, <1>4 DEF Closed
<1> QED BY <1>2, <1>5, <1>7, <1>9, <1>11, <1>13, <1>14 DEF Most, Core

LEMMA TameSole ==
  ASSUME NEW s, NEW r, Sole(s), Tame(s, r)
  PROVE  Sole(r)
BY TamerBeaten DEF Tame, Sole

LEMMA TameInv ==
  ASSUME NEW s, NEW r, Inv(s), Tame(s, r), Still(s, r)
  PROVE  Inv(r)
BY TameMost, TameSole DEF Inv

LEMMA TameTame ==
  ASSUME NEW q, NEW s, NEW r, Tame(q, s), Tame(s, r)
  PROVE  Tame(q, r) /\ (Still(q, s) /\ Still(s, r) => Still(q, r))
BY DEF Tame, Tamer, Still

LEMMA DialersOf ==
  ASSUME NEW s \in Dials
  PROVE  /\ s.sd \in [Targets -> Dialers] /\ \A u \in Targets : s.sd[u] \in Dialers
         /\ s.dials \in Seq(Targets) /\ s.loops \in Seq(Loops)
         /\ s.winner \in Targets \cup {Nobody}
BY DEF Dials

(* What only changes a dialer for the worse.                                *)
LEMMA TameOne ==
  ASSUME NEW s \in Dials, NEW t \in Targets, NEW y, Tamer(s.sd[t], y)
  PROVE  LET r == [s EXCEPT !.sd[t] = y]
         IN  Tame(s, r) /\ Still(s, r) /\ r.sd = [s.sd EXCEPT ![t] = y]
<1> DEFINE f == [s.sd EXCEPT ![t] = y]
           r == [s EXCEPT !.sd[t] = y]
<1>1. f \in [Targets -> Dialers]
  BY DialersOf DEF Tamer
<1>2. r = [s EXCEPT !.sd = f]
  BY DEF Dials
<1>3. \A u \in Targets : Tamer(s.sd[u], f[u])
  <2>1. \A u \in Targets : f[u] = IF u = t THEN y ELSE s.sd[u]
    BY DialersOf
  <2>2. \A u \in Targets : Tamer(s.sd[u], s.sd[u])
    BY DialersOf DEF Tamer
  <2> HIDE DEF f
  <2> QED BY <2>1, <2>2
<1> HIDE DEF f, r
<1>4. /\ r \in Dials /\ r.sd = f /\ r.pc = s.pc /\ r.killed = s.killed /\ r.dials = s.dials
      /\ r.loops = s.loops /\ r.winner = s.winner /\ r.done = s.done
  BY <1>1, <1>2 DEF Dials
<1> QED BY <1>3, <1>4 DEF Tame, Still, f, r

LEMMA DeafTame ==
  ASSUME NEW s \in Dials, NEW t \in Targets
  PROVE  LET r == Deaf(s, t)
         IN  Tame(s, r) /\ Still(s, r) /\ r.sd = [s.sd EXCEPT ![t].heard = FALSE]
<1> DEFINE y == [s.sd[t] EXCEPT !.heard = FALSE]
           r == [s EXCEPT !.sd[t] = y]
<1>1. Tamer(s.sd[t], y)
  BY DialersOf DEF Tamer, Dialers
<1>2. Deaf(s, t) = r
  BY DEF Deaf, Dials
<1>3. [s.sd EXCEPT ![t] = y] = [s.sd EXCEPT ![t].heard = FALSE]
  BY DialersOf
<1> HIDE DEF y
<1> QED BY <1>1, <1>2, <1>3, TameOne

(* Fields that no part of the invariant is about.                           *)
LEMMA Aside ==
  ASSUME NEW s \in Dials
  PROVE  /\ \A x \in Results : LET r == [s EXCEPT !.results = x] IN Tame(s, r) /\ Still(s, r) /\ r.sd = s.sd
         /\ \A x \in BOOLEAN : LET r == [s EXCEPT !.ring = x] IN Tame(s, r) /\ Still(s, r) /\ r.sd = s.sd
         /\ \A x \in BOOLEAN : LET r == [s EXCEPT !.limit = x] IN Tame(s, r) /\ Still(s, r) /\ r.sd = s.sd
         /\ \A x \in SUBSET Targets : LET r == [s EXCEPT !.selecting = x] IN Tame(s, r) /\ Still(s, r)
         /\ \A x \in {"none", "asked", "adulting"} : LET r == [s EXCEPT !.refer = x] IN Tame(s, r) /\ Still(s, r)
         /\ \A x \in 0..MaxKills : LET r == [s EXCEPT !.kills = x] IN Tame(s, r) /\ Still(s, r)
<1>1. \A u \in Targets : Tamer(s.sd[u], s.sd[u])
  BY DialersOf DEF Tamer
<1>2. ASSUME NEW r \in Dials, r.pc = s.pc, r.killed = s.killed, r.sd = s.sd,
             r.dials = s.dials, r.loops = s.loops, r.winner = s.winner, r.done = s.done
      PROVE  Tame(s, r) /\ Still(s, r)
  BY <1>1, <1>2 DEF Tame, Still
<1>3. ASSUME NEW x \in Results
      PROVE  LET r == [s EXCEPT !.results = x] IN Tame(s, r) /\ Still(s, r) /\ r.sd = s.sd
  <2> DEFINE r == [s EXCEPT !.results = x]
  <2>1. /\ r \in Dials /\ r.pc = s.pc /\ r.killed = s.killed /\ r.sd = s.sd
        /\ r.dials = s.dials /\ r.loops = s.loops /\ r.winner = s.winner /\ r.done = s.done
    BY DEF Dials
  <2> HIDE DEF r
  <2>2. Tame(s, r) /\ Still(s, r) /\ r.sd = s.sd
    BY <2>1, <1>2
  <2> QED BY <2>2 DEF r
<1>4. ASSUME NEW x \in BOOLEAN
      PROVE  LET r == [s EXCEPT !.ring = x] IN Tame(s, r) /\ Still(s, r) /\ r.sd = s.sd
  <2> DEFINE r == [s EXCEPT !.ring = x]
  <2>1. /\ r \in Dials /\ r.pc = s.pc /\ r.killed = s.killed /\ r.sd = s.sd
        /\ r.dials = s.dials /\ r.loops = s.loops /\ r.winner = s.winner /\ r.done = s.done
    BY DEF Dials
  <2> HIDE DEF r
  <2>2. Tame(s, r) /\ Still(s, r) /\ r.sd = s.sd
    BY <2>1, <1>2
  <2> QED BY <2>2 DEF r
<1>5. ASSUME NEW x \in BOOLEAN
      PROVE  LET r == [s EXCEPT !.limit = x] IN Tame(s, r) /\ Still(s, r) /\ r.sd = s.sd
  <2> DEFINE r == [s EXCEPT !.limit = x]
  <2>1. /\ r \in Dials /\ r.pc = s.pc /\ r.killed = s.killed /\ r.sd = s.sd
        /\ r.dials = s.dials /\ r.loops = s.loops /\ r.winner = s.winner /\ r.done = s.done
    BY DEF Dials
  <2> HIDE DEF r
  <2>2. Tame(s, r) /\ Still(s, r) /\ r.sd = s.sd
    BY <2>1, <1>2
  <2> QED BY <2>2 DEF r
<1>6. ASSUME NEW x \in SUBSET Targets
      PROVE  LET r == [s EXCEPT !.selecting = x] IN Tame(s, r) /\ Still(s, r) /\ r.sd = s.sd
  <2> DEFINE r == [s EXCEPT !.selecting = x]
  <2>1. /\ r \in Dials /\ r.pc = s.pc /\ r.killed = s.killed /\ r.sd = s.sd
        /\ r.dials = s.dials /\ r.loops = s.loops /\ r.winner = s.winner /\ r.done = s.done
    BY DEF Dials
  <2> HIDE DEF r
  <2>2. Tame(s, r) /\ Still(s, r) /\ r.sd = s.sd
    BY <2>1, <1>2
  <2> QED BY <2>2 DEF r
<1>7. ASSUME NEW x \in {"none", "asked", "adulting"}
      PROVE  LET r == [s EXCEPT !.refer = x] IN Tame(s, r) /\ Still(s, r) /\ r.sd = s.sd
  <2> DEFINE r == [s EXCEPT !.refer = x]
  <2>1. /\ r \in Dials /\ r.pc = s.pc /\ r.killed = s.killed /\ r.sd = s.sd
        /\ r.dials = s.dials /\ r.loops = s.loops /\ r.winner = s.winner /\ r.done = s.done
    BY DEF Dials
  <2> HIDE DEF r
  <2>2. Tame(s, r) /\ Still(s, r) /\ r.sd = s.sd
    BY <2>1, <1>2
  <2> QED BY <2>2 DEF r
<1>8. ASSUME NEW x \in 0..MaxKills
      PROVE  LET r == [s EXCEPT !.kills = x] IN Tame(s, r) /\ Still(s, r) /\ r.sd = s.sd
  <2> DEFINE r == [s EXCEPT !.kills = x]
  <2>1. /\ r \in Dials /\ r.pc = s.pc /\ r.killed = s.killed /\ r.sd = s.sd
        /\ r.dials = s.dials /\ r.loops = s.loops /\ r.winner = s.winner /\ r.done = s.done
    BY DEF Dials
  <2> HIDE DEF r
  <2>2. Tame(s, r) /\ Still(s, r) /\ r.sd = s.sd
    BY <2>1, <1>2
  <2> QED BY <2>2 DEF r
<1> QED BY <1>3, <1>4, <1>5, <1>6, <1>7, <1>8

LEMMA ResultTame ==
  ASSUME NEW s \in Dials, NEW x \in Results
  PROVE  Tame(s, Result(s, x)) /\ Still(s, Result(s, x)) /\ Result(s, x).sd = s.sd
<1>1. \A u \in Targets : Tamer(s.sd[u], s.sd[u])
  BY DialersOf DEF Tamer
<1>2. Tame(s, s) /\ Still(s, s)
  BY <1>1 DEF Tame, Still
<1> QED BY <1>2, Aside DEF Result

LEMMA DoomedTame ==
  ASSUME NEW s \in Dials
  PROVE  LET r == Doomed(s) IN Tame(s, r) /\ Still(s, r) /\ r.sd = s.sd /\ r.killed
<1>1. \A u \in Targets : Tamer(s.sd[u], s.sd[u])
  BY DialersOf DEF Tamer
<1>2. Doomed(s) \in Dials
  BY DEF Doomed, Dials
<1> QED BY <1>1, <1>2 DEF Doomed, Tame, Still, Dials

LEMMA SdKilledTame ==
  ASSUME NEW s \in Dials, NEW t \in Targets
  PROVE  LET r == SdKilled(s, t)
         IN  /\ Tame(s, r) /\ Still(s, r)
             /\ r.sd[t].killed
             /\ s.sd[t].at \notin {"ringing", "connecting"} => r.sd[t].leg # "up"
             /\ r.killed = s.killed
<1> DEFINE x == s.sd[t]
           inviting == x.at \in {"ringing", "connecting"}
           hangup == ~inviting /\ x.leg = "up"
           y == [x EXCEPT !.killed = TRUE, !.canceled = @ \/ inviting,
                          !.leg = IF hangup THEN "down" ELSE @]
           k == [s EXCEPT !.sd[t] = y]
<1>1. x \in Dialers
  BY DialersOf
<1>2. /\ y \in Dialers /\ y.at = x.at /\ y.adult = x.adult /\ y.heard = x.heard
      /\ y.killed = TRUE /\ y.leg = IF hangup THEN "down" ELSE x.leg
  BY <1>1 DEF Dialers
<1>3. Tamer(x, y)
  BY <1>1, <1>2 DEF Tamer
<1>4. k = [s EXCEPT !.sd[t].killed = TRUE, !.sd[t].canceled = @ \/ inviting,
                    !.sd[t].leg = IF hangup THEN "down" ELSE @]
  BY DialersOf DEF Dials, Dialers
<1>5. SdKilled(s, t) = IF hangup /\ x.heard THEN Result(k, "completed") ELSE k
  BY <1>4 DEF SdKilled
<1> HIDE DEF y
<1>6. Tame(s, k) /\ Still(s, k) /\ k.sd = [s.sd EXCEPT ![t] = y]
  BY <1>3, TameOne
<1>7. k.sd[t] = y
  BY <1>6, DialersOf
<1>8. k.sd[t].killed /\ (~inviting => k.sd[t].leg # "up")
  BY <1>2, <1>7
<1>9. k.killed = s.killed /\ k \in Dials
  BY <1>6 DEF Dials, Tame
<1> HIDE DEF k
<1>10. LET r == Result(k, "completed")
       IN  Tame(s, r) /\ Still(s, r) /\ r.sd = k.sd /\ r.killed = s.killed
  <2>1. "completed" \in Results
    BY DEF Results
  <2>2. LET r == Result(k, "completed") IN Tame(k, r) /\ Still(k, r) /\ r.sd = k.sd
    BY <1>9, <2>1, ResultTame
  <2>3. Result(k, "completed").killed = k.killed
    BY <1>9 DEF Result, Dials
  <2> QED BY <2>2, <2>3, <1>6, <1>9, TameTame
<1> QED BY <1>5, <1>6, <1>8, <1>9, <1>10

(* The verb's own callee is hung up when it ends.                           *)
LEMMA FinishedOK ==
  ASSUME NEW s \in Dials, s.winner # Nobody => s.sd[s.winner].at = "answered"
  PROVE  LET r == Finished(s)
         IN  /\ Tame(s, r) /\ r.dials = s.dials /\ r.loops = s.loops
             /\ r.winner = Nobody /\ r.done /\ r.killed = s.killed
             /\ s.winner # Nobody => ~Joined(r.sd[s.winner])
<1> DEFINE h == IF s.winner = Nobody THEN s
                ELSE Deaf(SdKilled(s, s.winner), s.winner)
           r == Finished(s)
<1>1. r = [h EXCEPT !.winner = Nobody, !.done = TRUE]
  BY DEF Finished
<1>2. s.winner # Nobody => s.winner \in Targets
  BY DEF Dials
<1>3. /\ Tame(s, h) /\ Still(s, h) /\ h.killed = s.killed
      /\ s.winner # Nobody => ~Joined(h.sd[s.winner])
  <2>1. CASE s.winner = Nobody
    <3>1. \A u \in Targets : Tamer(s.sd[u], s.sd[u])
      BY DialersOf DEF Tamer
    <3> QED BY <2>1, <3>1 DEF Tame, Still
  <2>2. CASE s.winner # Nobody
    <3> DEFINE t == s.winner
               k == SdKilled(s, t)
    <3>1. t \in Targets /\ s.sd[t].at = "answered"
      BY <2>2, <1>2
    <3>2. Tame(s, k) /\ Still(s, k) /\ k.sd[t].leg # "up" /\ k.killed = s.killed
      BY <3>1, SdKilledTame
    <3>3. h = Deaf(k, t)
      BY <2>2
    <3> HIDE DEF k
    <3>4. k \in Dials
      BY <3>2 DEF Tame
    <3>5. Tame(k, h) /\ Still(k, h)
      BY <3>1, <3>3, <3>4, DeafTame
    <3>6. h.killed = k.killed
      BY <3>3, <3>4 DEF Deaf, Dials
    <3>7. h.sd[t].leg # "up"
      BY <3>1, <3>2, <3>5 DEF Tame, Tamer
    <3>8. Tame(s, h) /\ Still(s, h)
      BY <3>2, <3>5, TameTame
    <3> QED BY <3>2, <3>6, <3>7, <3>8 DEF Joined
  <2> QED BY <2>1, <2>2
<1> HIDE DEF h
<1>4. h \in Dials
  BY <1>3 DEF Tame
<1>5. /\ r \in Dials /\ r.sd = h.sd /\ r.pc = h.pc /\ r.killed = h.killed
      /\ r.dials = h.dials /\ r.loops = h.loops /\ r.winner = Nobody /\ r.done = TRUE
  BY <1>1, <1>4 DEF Dials
<1> HIDE DEF r
<1>6. Tame(s, r)
  BY <1>3, <1>5 DEF Tame
<1>7. r.dials = s.dials /\ r.loops = s.loops /\ r.winner = Nobody /\ r.done /\ r.killed = s.killed
  BY <1>3, <1>5 DEF Still
<1>8. s.winner # Nobody => ~Joined(r.sd[s.winner])
  BY <1>3, <1>5
<1> QED BY <1>6, <1>7, <1>8 DEF r

------------------------------------------------------------------------------
(* The loop that kills the dialers.                                         *)

NoRace(s) == \A u \in Targets : ~InRace(s.sd[u])
Thens == {"winner", "ring", "kill"}

(* What a loop is started with or goes on with.                             *)
Loose(s, todo, then) ==
  /\ todo \in Seq(Targets) /\ then \in Thens
  /\ \A u \in Targets : InRace(s.sd[u]) => u \in ToSet(todo)
  /\ s.killed \/ NoLookup(s)
  /\ then = "kill" => s.killed
  /\ s.pc \in {"init", "teams"} => todo = <<>>

LEMMA MostOf ==
  ASSUME NEW s, Most(s)
  PROVE  /\ s \in Dials /\ Early(s) /\ Reached(s) /\ Sweeps(s) /\ Frozen(s) /\ Listed(s)
         /\ Called(s) /\ Owned(s) /\ Closed(s)
BY DEF Most, Core

LEMMA FinishedMost ==
  ASSUME NEW s, Most(s), NoRace(s), s.killed
  PROVE  Most(Finished(s)) /\ Tame(s, Finished(s))
<1> DEFINE r == Finished(s)
<1>1. /\ s \in Dials /\ Early(s) /\ Reached(s) /\ Sweeps(s) /\ Frozen(s) /\ Listed(s)
      /\ Called(s) /\ Owned(s) /\ Closed(s)
  BY MostOf
<1>2. /\ Tame(s, r) /\ r.dials = s.dials /\ r.loops = s.loops
      /\ r.winner = Nobody /\ r.done /\ r.killed = s.killed
      /\ s.winner # Nobody => ~Joined(r.sd[s.winner])
  BY <1>1, FinishedOK DEF Called
<1> HIDE DEF r
<1> DEFINE q == [r EXCEPT !.winner = s.winner, !.done = s.done]
<1>3. r \in Dials
  BY <1>2 DEF Tame
<1>4. /\ q \in Dials /\ q.sd = r.sd /\ q.pc = r.pc /\ q.killed = r.killed /\ q.dials = r.dials
      /\ q.loops = r.loops /\ q.winner = s.winner /\ q.done = s.done
  <2>1. s.winner \in Targets \cup {Nobody} /\ s.done \in BOOLEAN
    BY <1>1 DEF Dials
  <2> QED BY <1>3, <2>1 DEF Dials
<1> HIDE DEF q
<1>5. Tame(s, q) /\ Still(s, q)
  BY <1>2, <1>4 DEF Tame, Still
<1>6. /\ Early(q) /\ Reached(q) /\ Sweeps(q) /\ Frozen(q) /\ Listed(q)
      /\ Called(q) /\ Owned(q) /\ Closed(q)
  BY <1>5, TameMost, MostOf
<1>7. Early(r) /\ Reached(r) /\ Sweeps(r)
  BY <1>2, <1>4, <1>6 DEF Early, Reached, Sweeps
<1>8. Frozen(r) /\ Listed(r)
  BY <1>4, <1>6 DEF Frozen, Listed, NoLookup
<1>9. Called(r)
  BY <1>2, <1>4, <1>6 DEF Called
<1>10. Owned(r)
  <2>1. Plain(opts) => \A t \in Targets : Joined(r.sd[t]) /\ ~r.sd[t].adult => s.winner = t
    BY <1>4, <1>6 DEF Owned
  <2>2. \A t \in Targets : t # Nobody
    BY DialAssumption
  <2> QED BY <1>2, <2>1, <2>2 DEF Owned
<1>11. Closed(r)
  <2>1. \A u \in Targets : ~InRace(r.sd[u])
    BY <1>2, TamerBeaten DEF Tame, NoRace
  <2> QED BY <1>2, <2>1 DEF Closed
<1> QED BY <1>2, <1>3, <1>7, <1>8, <1>9, <1>10, <1>11 DEF Most, Core, r

LEMMA LoopEndsMost ==
  ASSUME NEW s, Most(s), NoRace(s), NEW then \in Thens, then = "kill" => s.killed
  PROVE  Most(LoopEnds(s, then)) /\ Tame(s, LoopEnds(s, then))
<1> DEFINE c == [s EXCEPT !.dials = <<>>]
<1>1. /\ s \in Dials /\ Early(s) /\ Reached(s) /\ Sweeps(s) /\ Frozen(s) /\ Listed(s)
      /\ Called(s) /\ Owned(s) /\ Closed(s)
  BY MostOf
<1>2. /\ c \in Dials /\ c.sd = s.sd /\ c.pc = s.pc /\ c.killed = s.killed /\ c.dials = <<>>
      /\ c.loops = s.loops /\ c.winner = s.winner /\ c.done = s.done
  <2>1. <<>> \in Seq(Targets)
    OBVIOUS
  <2> QED BY <1>1, <2>1 DEF Dials
<1>3. LoopEnds(s, then) = CASE then = "winner" -> c
                            [] then = "ring"   -> Finished(Doomed(c))
                            [] then = "kill"   -> Finished(c)
  BY DEF LoopEnds
<1> HIDE DEF c
<1>4. Early(c) /\ Reached(c) /\ Sweeps(c)
  BY <1>1, <1>2 DEF Early, Reached, Sweeps, NoRace
<1>5. Frozen(c) /\ Called(c) /\ Owned(c) /\ Closed(c)
  BY <1>1, <1>2 DEF Frozen, NoLookup, Called, Owned, Closed
<1>6. Listed(c)
  BY <1>2 DEF Listed, NoRepeats, ToSet
<1>7. Most(c)
  BY <1>2, <1>4, <1>5, <1>6 DEF Most, Core
<1>8. \A u \in Targets : Tamer(s.sd[u], s.sd[u])
  BY <1>1, DialersOf DEF Tamer
<1>9. Tame(s, c) /\ NoRace(c)
  BY <1>1, <1>2, <1>8 DEF Tame, NoRace
<1>10. /\ Tame(c, Doomed(c)) /\ Still(c, Doomed(c)) /\ Doomed(c).sd = c.sd
       /\ Doomed(c).killed
  BY <1>2, DoomedTame
<1>11. Most(Doomed(c)) /\ NoRace(Doomed(c))
  BY <1>7, <1>9, <1>10, TameMost DEF NoRace
<1>12. CASE then = "winner"
  BY <1>3, <1>7, <1>9, <1>12
<1>13. CASE then = "ring"
  <2>1. LoopEnds(s, then) = Finished(Doomed(c))
    BY <1>3, <1>13
  <2>2. Most(Finished(Doomed(c))) /\ Tame(Doomed(c), Finished(Doomed(c)))
    BY <1>10, <1>11, FinishedMost
  <2>3. Tame(s, Doomed(c))
    BY <1>9, <1>10, TameTame
  <2>4. Tame(s, Finished(Doomed(c)))
    BY <2>2, <2>3, TameTame
  <2> QED BY <2>1, <2>2, <2>4
<1>14. CASE then = "kill"
  <2>1. LoopEnds(s, then) = Finished(c) /\ c.killed
    BY <1>2, <1>3, <1>14
  <2>2. Most(Finished(c)) /\ Tame(c, Finished(c))
    BY <2>1, <1>7, <1>9, FinishedMost
  <2>3. Tame(s, Finished(c))
    BY <2>2, <1>9, TameTame
  <2> QED BY <2>1, <2>2, <2>3
<1> QED BY <1>12, <1>13, <1>14 DEF Thens

LEMMA AppendedTo ==
  ASSUME NEW S, NEW q \in Seq(S), NEW e \in S
  PROVE  LET r == Append(q, e)
         IN  /\ r \in Seq(S)
             /\ \A i \in DOMAIN r : r[i] = e \/ (i \in DOMAIN q /\ r[i] = q[i])
<1> DEFINE r == Append(q, e)
<1>1. /\ r \in Seq(S) /\ Len(r) = Len(q) + 1 /\ r[Len(q) + 1] = e
      /\ \A i \in 1..Len(q) : r[i] = q[i]
  BY AppendProperties
<1> HIDE DEF r
<1>2. DOMAIN r = 1..(Len(q) + 1) /\ DOMAIN q = 1..Len(q) /\ Len(q) \in Nat
  BY <1>1
<1>3. \A i \in 1..(Len(q) + 1) : i = Len(q) + 1 \/ i \in 1..Len(q)
  BY <1>2
<1>4. \A i \in DOMAIN r : r[i] = e \/ (i \in DOMAIN q /\ r[i] = q[i])
  <2> SUFFICES ASSUME NEW i \in DOMAIN r PROVE r[i] = e \/ (i \in DOMAIN q /\ r[i] = q[i])
    OBVIOUS
  <2>1. CASE i = Len(q) + 1
    BY <2>1, <1>1
  <2>2. CASE i \in 1..Len(q)
    BY <2>2, <1>1, <1>2
  <2> QED BY <2>1, <2>2, <1>2, <1>3
<1> QED BY <1>1, <1>4 DEF r

LEMMA Appended ==
  ASSUME NEW s \in Dials, NEW l \in Loops, Most(s), l.left # <<>>,
         \A u \in Targets : InRace(s.sd[u]) => u \in ToSet(Tail(l.left)),
         s.killed \/ NoLookup(s), l.then = "kill" => s.killed, s.pc \notin {"init", "teams"}
  PROVE  LET r == [s EXCEPT !.loops = Append(@, l)] IN Most(r) /\ Tame(s, r) /\ r.sd = s.sd
<1> DEFINE r == [s EXCEPT !.loops = Append(@, l)]
           ls == Append(s.loops, l)
<1>1. s.loops \in Seq(Loops)
  BY DialersOf
<1>2. ls \in Seq(Loops) /\ \A i \in DOMAIN ls : ls[i] = l \/ (i \in DOMAIN s.loops /\ ls[i] = s.loops[i])
  BY <1>1, AppendedTo
<1>3. /\ r \in Dials /\ r.sd = s.sd /\ r.pc = s.pc /\ r.killed = s.killed /\ r.dials = s.dials
      /\ r.loops = ls /\ r.winner = s.winner /\ r.done = s.done
  BY <1>2 DEF Dials
<1> HIDE DEF r, ls
<1>4. /\ Early(s) /\ Reached(s) /\ Sweeps(s) /\ Frozen(s) /\ Listed(s)
      /\ Called(s) /\ Owned(s) /\ Closed(s)
  BY MostOf
<1>5. Sweeps(r)
  BY <1>2, <1>3, <1>4 DEF Sweeps
<1>6. NoLookup(s) <=> NoLookup(r)
  BY <1>3 DEF NoLookup
<1>7. Frozen(r)
  BY <1>3, <1>4, <1>6 DEF Frozen
<1>8. Early(r) /\ Reached(r) /\ Listed(r)
  BY <1>3, <1>4 DEF Early, Reached, Listed
<1>9. Called(r) /\ Owned(r) /\ Closed(r)
  BY <1>3, <1>4 DEF Called, Owned, Closed
<1>10. \A u \in Targets : Tamer(s.sd[u], s.sd[u])
  BY DialersOf DEF Tamer
<1> QED BY <1>3, <1>5, <1>7, <1>8, <1>9, <1>10 DEF Most, Core, Tame, r

(* A loop stops at a dialer it has killed: he is beaten, as are those       *)
(* before him.                                                              *)
LEMMA KillLoopMost ==
  ASSUME NEW s, NEW todo, NEW then, Most(s), Loose(s, todo, then)
  PROVE  LET r == KillLoop(s, todo, then)
         IN  /\ Most(r) /\ Tame(s, r)
             /\ todo # <<>> /\ s.sd[todo[1]].at # "lookup" => Beaten(r.sd[todo[1]])
<1> DEFINE waits == {i \in DOMAIN todo : s.sd[todo[i]].at # "endpoint"}
           first == IF waits = {} THEN Len(todo) + 1 ELSE Min(waits)
           quick == {todo[i] : i \in 1..(first - 1)}
           f == [t \in Targets |->
                  IF t \in quick THEN [s.sd[t] EXCEPT !.killed = TRUE, !.heard = FALSE]
                  ELSE s.sd[t]]
           k == [s EXCEPT !.sd = f]
           l == [left |-> SubSeq(todo, first, Len(todo)), then |-> then]
           e == SdKilled(k, todo[first])
           r == KillLoop(s, todo, then)
<1>1. /\ todo \in Seq(Targets) /\ then \in Thens
      /\ \A u \in Targets : InRace(s.sd[u]) => u \in ToSet(todo)
      /\ s.killed \/ NoLookup(s)
      /\ then = "kill" => s.killed
      /\ s.pc \in {"init", "teams"} => todo = <<>>
  BY DEF Loose
<1>2. s \in Dials /\ s.sd \in [Targets -> Dialers]
  BY MostOf, DialersOf
<1>3. r = IF waits = {} THEN LoopEnds(k, then) ELSE [e EXCEPT !.loops = Append(@, l)]
  BY <1>2 DEF KillLoop, Dials
<1>4. DOMAIN todo = 1..Len(todo) /\ Len(todo) \in Nat /\ \A i \in 1..Len(todo) : todo[i] \in Targets
  BY <1>1
<1>5. /\ first \in 1..(Len(todo) + 1)
      /\ waits # {} => first \in DOMAIN todo /\ s.sd[todo[first]].at # "endpoint"
      /\ \A i \in 1..(first - 1) : i \in DOMAIN todo /\ s.sd[todo[i]].at = "endpoint"
  <2>1. CASE waits = {}
    BY <2>1, <1>4
  <2>2. CASE waits # {}
    <3>1. waits \in SUBSET Nat
      BY <1>4
    <3>2. Min(waits) \in waits /\ \A y \in waits : Min(waits) <= y
      BY <2>2, <3>1, Minimum
    <3>3. first \in waits /\ \A y \in waits : first <= y
      BY <2>2, <3>2
    <3> HIDE DEF first
    <3>4. first \in DOMAIN todo /\ s.sd[todo[first]].at # "endpoint" /\ first \in 1..Len(todo)
      BY <3>3, <1>4
    <3>5. \A i \in 1..(first - 1) : i \in DOMAIN todo /\ i \notin waits
      BY <3>3, <3>4, <1>4
    <3> QED BY <3>4, <3>5, <1>4
  <2> QED BY <2>1, <2>2
<1>6. waits = {} => first = Len(todo) + 1
  OBVIOUS
<1>7. waits = {} \/ waits # {}
  OBVIOUS
<1> HIDE DEF waits, first
<1>8. \A t \in Targets :
         /\ Tamer(s.sd[t], f[t])
         /\ t \in quick => ~InRace(f[t]) /\ Beaten(f[t])
  <2> SUFFICES ASSUME NEW t \in Targets
               PROVE  /\ Tamer(s.sd[t], f[t])
                      /\ t \in quick => ~InRace(f[t]) /\ Beaten(f[t])
    OBVIOUS
  <2>1. s.sd[t] \in Dialers
    BY <1>2
  <2>2. CASE t \in quick
    <3> DEFINE y == [s.sd[t] EXCEPT !.killed = TRUE, !.heard = FALSE]
    <3>1. f[t] = y
      BY <2>2
    <3>2. /\ y \in Dialers /\ y.at = s.sd[t].at /\ y.adult = s.sd[t].adult
          /\ y.leg = s.sd[t].leg /\ y.killed = TRUE /\ y.heard = FALSE
      BY <2>1 DEF Dialers
    <3>3. s.sd[t].at = "endpoint"
      BY <2>2, <1>5
    <3> HIDE DEF y, f
    <3>4. Beaten(y) /\ Tamer(s.sd[t], y)
      BY <2>1, <3>2, <3>3 DEF Beaten, Tamer
    <3> QED BY <3>1, <3>4 DEF InRace
  <2>3. CASE t \notin quick
    <3>1. f[t] = s.sd[t]
      BY <2>3
    <3> HIDE DEF f, quick
    <3> QED BY <3>1, <2>1, <2>3 DEF Tamer
  <2> QED BY <2>2, <2>3
<1>9. f \in [Targets -> Dialers]
  <2>1. \A t \in Targets : f[t] \in Dialers
    BY <1>8 DEF Tamer
  <2> QED BY <2>1
<1>10. \A i \in 1..(first - 1) : todo[i] \in quick
  OBVIOUS
<1> HIDE DEF f, quick
<1>11. /\ k \in Dials /\ k.sd = f /\ k.pc = s.pc /\ k.killed = s.killed /\ k.dials = s.dials
       /\ k.loops = s.loops /\ k.winner = s.winner /\ k.done = s.done
  BY <1>2, <1>9 DEF Dials
<1> HIDE DEF k
<1>12. Tame(s, k) /\ Still(s, k)
  BY <1>2, <1>8, <1>11 DEF Tame, Still
<1>13. Most(k)
  BY <1>12, TameMost
<1>14. CASE waits = {}
  <2>1. r = LoopEnds(k, then)
    BY <1>3, <1>14
  <2>2. \A u \in Targets : u \in ToSet(todo) => u \in quick
    BY <1>4, <1>6, <1>10, <1>14 DEF ToSet
  <2>3. NoRace(k)
    BY <2>2, <1>1, <1>8, <1>11, TamerBeaten DEF NoRace
  <2> HIDE DEF r
  <2>4. Most(r) /\ Tame(k, r)
    BY <2>1, <2>3, <1>1, <1>11, <1>13, LoopEndsMost
  <2>5. Tame(s, r)
    BY <2>4, <1>12, TameTame
  <2>6. todo # <<>> => Beaten(r.sd[todo[1]])
    <3>1. todo # <<>> => todo[1] \in ToSet(todo) /\ todo[1] \in Targets
      BY <1>4, <1>1 DEF ToSet
    <3>2. todo # <<>> => Beaten(k.sd[todo[1]])
      BY <3>1, <2>2, <1>8, <1>11
    <3> QED BY <3>1, <3>2, <2>4, TamerBeaten DEF Tame
  <2> QED BY <2>4, <2>5, <2>6 DEF r
<1>15. CASE waits # {}
  <2> DEFINE t == todo[first]
  <2>1. r = [e EXCEPT !.loops = Append(@, l)]
    BY <1>3, <1>15
  <2>2. first \in 1..Len(todo) /\ t \in Targets /\ s.sd[t].at # "endpoint"
    BY <1>4, <1>5, <1>15
  <2> HIDE DEF r
  <2>3. /\ Tame(k, e) /\ Still(k, e) /\ e.sd[t].killed
        /\ k.sd[t].at \notin {"ringing", "connecting"} => e.sd[t].leg # "up"
        /\ e.killed = k.killed
    BY <2>2, <1>11, SdKilledTame
  <2> HIDE DEF e
  <2>4. Most(e) /\ Tame(s, e)
    BY <2>3, <1>12, <1>13, TameMost, TameTame
  <2>5. e.sd[t].at = k.sd[t].at /\ k.sd[t].at = s.sd[t].at /\ e.sd[t].at \in Stages
    BY <2>2, <2>3, <1>12 DEF Tame, Tamer, Dialers
  <2> HIDE DEF t
  <2>6. ~InRace(e.sd[t]) /\ (s.sd[t].at # "lookup" => Beaten(e.sd[t]))
    BY <2>2, <2>3, <2>5 DEF InRace, Beaten, Stages
  <2>7. /\ l \in Loops /\ l.left # <<>> /\ l.then = then
        /\ \A u \in Targets : InRace(e.sd[u]) => u \in ToSet(Tail(l.left))
    <3> DEFINE left == SubSeq(todo, first, Len(todo))
    <3>1. /\ left \in Seq(Targets) /\ Len(left) = Len(todo) - first + 1
          /\ \A i \in 1..Len(left) : left[i] = todo[first + i - 1]
      BY <2>2, <1>1, <1>4
    <3> HIDE DEF left
    <3>2. left # <<>> /\ Len(left) \in Nat /\ Len(left) # 0
      BY <3>1, <2>2, <1>4
    <3>3. /\ Tail(left) \in Seq(Targets) /\ Len(Tail(left)) = Len(left) - 1
          /\ \A i \in 1..(Len(left) - 1) : Tail(left)[i] = left[i + 1]
      BY <3>1, <3>2
    <3>4. ASSUME NEW u \in Targets, InRace(e.sd[u]) PROVE u \in ToSet(Tail(left))
      <4>1. InRace(k.sd[u]) /\ InRace(s.sd[u])
        BY <3>4, <2>3, <1>12, TamerBeaten DEF Tame
      <4>2. PICK j \in 1..Len(todo) : todo[j] = u
        BY <4>1, <1>1, <1>4 DEF ToSet
      <4>3. ~(j \in 1..(first - 1))
        BY <4>1, <4>2, <1>8, <1>10, <1>11
      <4>4. j # first
        BY <3>4, <4>2, <2>6 DEF t
      <4>5. j > first
        BY <4>2, <4>3, <4>4, <2>2
      <4>6. /\ j - first \in 1..(Len(left) - 1) /\ (j - first) + 1 \in 1..Len(left)
            /\ first + ((j - first) + 1) - 1 = j
        BY <4>2, <4>5, <3>1, <2>2, <1>4
      <4>7. Tail(left)[j - first] = u
        BY <4>2, <4>6, <3>1, <3>3
      <4>8. j - first \in DOMAIN Tail(left)
        BY <4>6, <3>2, <3>3
      <4> QED BY <4>7, <4>8 DEF ToSet
    <3>5. l \in Loops /\ l.left = left /\ l.then = then
      BY <3>1, <1>1 DEF Loops, Thens, left
    <3> QED BY <3>2, <3>4, <3>5
  <2> HIDE DEF l
  <2>8. (e.killed \/ NoLookup(e)) /\ (then = "kill" => e.killed) /\ e.pc \notin {"init", "teams"} /\ e \in Dials
    <3>1. todo # <<>>
      BY <2>2
    <3>2. e.pc = s.pc /\ (s.killed => e.killed) /\ e \in Dials
      BY <2>4 DEF Tame
    <3>3. NoLookup(s) => NoLookup(e)
      BY <2>4 DEF NoLookup, Tame, Tamer
    <3> QED BY <3>1, <3>2, <3>3, <1>1
  <2>9. Most(r) /\ Tame(e, r) /\ r.sd = e.sd
    BY <2>1, <2>4, <2>7, <2>8, Appended
  <2>10. Tame(s, r)
    BY <2>4, <2>9, TameTame
  <2>11. todo # <<>> /\ s.sd[todo[1]].at # "lookup" => Beaten(r.sd[todo[1]])
    <3>1. CASE first = 1
      BY <3>1, <2>6, <2>9 DEF t
    <3>2. CASE first # 1
      <4>1. 1 \in 1..(first - 1) /\ todo[1] \in Targets
        BY <3>2, <2>2, <1>4
      <4>2. Beaten(k.sd[todo[1]])
        BY <4>1, <1>8, <1>10, <1>11
      <4> QED BY <4>1, <4>2, <2>3, <2>9, TamerBeaten DEF Tame
    <3> QED BY <3>1, <3>2
  <2> QED BY <2>9, <2>10, <2>11 DEF r
<1> QED BY <1>7, <1>14, <1>15

LEMMA KillOutdialsMost ==
  ASSUME NEW s, Most(s), NEW then \in Thens, s.killed \/ NoLookup(s), then = "kill" => s.killed
  PROVE  LET r == KillOutdials(s, then)
         IN  /\ Most(r) /\ Tame(s, r)
             /\ s.dials # <<>> /\ s.sd[s.dials[1]].at # "lookup" => Beaten(r.sd[s.dials[1]])
<1>1. s \in Dials /\ Reached(s) /\ Early(s)
  BY MostOf
<1>2. s.dials \in Seq(Targets)
  BY <1>1, DialersOf
<1>3. Loose(s, s.dials, then)
  BY <1>1, <1>2 DEF Loose, Reached, Early
<1> QED BY <1>3, KillLoopMost DEF KillOutdials

LEMMA KillInv ==
  ASSUME NEW s, Inv(s)
  PROVE  Inv(Kill(s)) /\ Tame(s, Kill(s))
<1> DEFINE q == Doomed(s)
<1>1. s \in Dials
  BY MostOf DEF Inv
<1>2. Tame(s, q) /\ Still(s, q) /\ q.killed
  BY <1>1, DoomedTame
<1>3. Kill(s) = KillOutdials(q, "kill")
  BY DEF Kill
<1> HIDE DEF q
<1>4. Most(q) /\ Sole(q)
  BY <1>2, TameInv DEF Inv
<1>5. Most(Kill(s)) /\ Tame(q, Kill(s))
  BY <1>2, <1>3, <1>4, KillOutdialsMost DEF Thens
<1> QED BY <1>2, <1>4, <1>5, TameSole, TameTame DEF Inv

LEMMA SweepInv ==
  ASSUME NEW s, Inv(s), NEW then \in {"winner", "ring"}, s.killed \/ NoLookup(s)
  PROVE  Inv(KillOutdials(s, then))
<1>1. Most(KillOutdials(s, then)) /\ Tame(s, KillOutdials(s, then))
  BY KillOutdialsMost DEF Inv, Thens
<1> QED BY <1>1, TameSole DEF Inv

LEMMA DroppedInv ==
  ASSUME NEW s, Inv(s), NEW t \in Targets, ~InRace(s.sd[t])
  PROVE  LET r == Dropped(s, t) IN Inv(r) /\ Tame(s, r)
<1> DEFINE ds == RemoveFirst(s.dials, t)
           r == Dropped(s, t)
<1>1. /\ s \in Dials /\ Early(s) /\ Reached(s) /\ Sweeps(s) /\ Frozen(s) /\ Listed(s)
      /\ Called(s) /\ Owned(s) /\ Closed(s) /\ Sole(s)
  BY MostOf DEF Inv
<1>2. s.dials \in Seq(Targets)
  BY <1>1, DialersOf
<1>3. /\ ds \in Seq(Targets) /\ ToSet(ds) \subseteq ToSet(s.dials)
      /\ \A u \in ToSet(s.dials) : u # t => u \in ToSet(ds)
      /\ NoRepeats(s.dials) => NoRepeats(ds) /\ t \notin ToSet(ds)
  BY <1>2, RemovedFirst
<1> HIDE DEF ds
<1>4. /\ r \in Dials /\ r.sd = s.sd /\ r.pc = s.pc /\ r.killed = s.killed /\ r.dials = ds
      /\ r.loops = s.loops /\ r.winner = s.winner /\ r.done = s.done
  BY <1>1, <1>3 DEF Dropped, Dials, ds
<1> HIDE DEF r
<1>5. Reached(r) /\ Sweeps(r)
  BY <1>1, <1>3, <1>4 DEF Reached, Sweeps
<1>6. Early(r)
  <2>1. s.dials = <<>> => ds = <<>>
    <3>1. ds # <<>> => ds[1] \in ToSet(ds)
      BY <1>3 DEF ToSet
    <3>2. s.dials = <<>> => ToSet(s.dials) = {}
      BY DEF ToSet
    <3> QED BY <3>1, <3>2, <1>3
  <2> QED BY <2>1, <1>1, <1>4 DEF Early
<1>7. Frozen(r) /\ Called(r) /\ Owned(r) /\ Closed(r) /\ Sole(r)
  BY <1>1, <1>4 DEF Frozen, NoLookup, Called, Owned, Closed, Sole
<1>8. Listed(r)
  BY <1>1, <1>3, <1>4 DEF Listed
<1>9. \A u \in Targets : Tamer(s.sd[u], s.sd[u])
  BY <1>1, DialersOf DEF Tamer
<1>10. Tame(s, r)
  BY <1>1, <1>4, <1>9 DEF Tame
<1> QED BY <1>4, <1>5, <1>6, <1>7, <1>8, <1>10 DEF Inv, Most, Core, r

LEMMA EndIfLastInv ==
  ASSUME NEW s, Inv(s)
  PROVE  Inv(EndIfLast(s)) /\ Tame(s, EndIfLast(s))
<1> DEFINE q == [s EXCEPT !.ring = FALSE]
<1>1. s \in Dials
  BY MostOf DEF Inv
<1>2. Tame(s, q) /\ Still(s, q)
  BY <1>1, Aside
<1>3. EndIfLast(s) = IF s.dials = <<>> /\ s.winner = Nobody THEN Kill(q) ELSE s
  BY DEF EndIfLast
<1> HIDE DEF q
<1>4. Inv(Kill(q)) /\ Tame(q, Kill(q))
  BY <1>2, TameInv, KillInv
<1>5. \A u \in Targets : Tamer(s.sd[u], s.sd[u])
  BY <1>1, DialersOf DEF Tamer
<1>6. Tame(s, s)
  BY <1>1, <1>5 DEF Tame
<1> QED BY <1>2, <1>3, <1>4, <1>6, TameTame

LEMMA StatusChangedInv ==
  ASSUME NEW s, Inv(s), NEW t \in Targets, NEW status \in Results,
         status \in {"failed", "no-answer"} => ~InRace(s.sd[t])
  PROVE  LET r == StatusChanged(s, t, status)
         IN  /\ Inv(r) /\ Tame(s, r)
             /\ status \notin {"failed", "no-answer"} => r.sd = s.sd
<1> DEFINE q == Result(s, status)
           r == StatusChanged(s, t, status)
           p == [q EXCEPT !.ring = FALSE]
           e == EndIfLast(Dropped(q, t))
<1>1. s \in Dials
  BY MostOf DEF Inv
<1>2. Tame(s, q) /\ Still(s, q) /\ q.sd = s.sd
  BY <1>1, ResultTame
<1>3. r = IF ~s.sd[t].heard THEN s
          ELSE IF status = "in-progress" THEN p
          ELSE IF status \in {"failed", "no-answer"} THEN e
          ELSE q
  BY DEF StatusChanged
<1> HIDE DEF q
<1>4. Inv(q) /\ q \in Dials
  BY <1>2, TameInv DEF Tame
<1>5. Tame(q, p) /\ Still(q, p) /\ p.sd = q.sd
  BY <1>4, Aside
<1> HIDE DEF p
<1>6. Inv(p) /\ Tame(s, p)
  BY <1>2, <1>4, <1>5, TameInv, TameTame
<1>7. ~InRace(s.sd[t]) => Inv(e) /\ Tame(s, e)
  <2> SUFFICES ASSUME ~InRace(s.sd[t]) PROVE Inv(e) /\ Tame(s, e)
    OBVIOUS
  <2>1. Inv(Dropped(q, t)) /\ Tame(q, Dropped(q, t))
    BY <1>2, <1>4, DroppedInv
  <2>2. Inv(e) /\ Tame(Dropped(q, t), e)
    BY <2>1, EndIfLastInv
  <2> QED BY <2>1, <2>2, <1>2, TameTame
<1> HIDE DEF e
<1>8. \A u \in Targets : Tamer(s.sd[u], s.sd[u])
  BY <1>1, DialersOf DEF Tamer
<1>9. Tame(s, s)
  BY <1>1, <1>8 DEF Tame
<1> HIDE DEF r
<1>10. /\ Inv(r) /\ Tame(s, r)
       /\ status \notin {"failed", "no-answer"} => r.sd = s.sd
  BY <1>2, <1>3, <1>4, <1>5, <1>6, <1>7, <1>9
<1> QED BY <1>10 DEF r

LEMMA DeclinedInv ==
  ASSUME NEW s, Inv(s), NEW t \in Targets, ~InRace(s.sd[t])
  PROVE  Inv(Declined(s, t)) /\ Tame(s, Declined(s, t))
<1> DEFINE p == Dropped(s, t)
           q == Deaf(p, t)
           q2 == [q EXCEPT !.ring = FALSE]
           r == EndIfLast(q2)
<1>1. s \in Dials
  BY MostOf DEF Inv
<1>2. Inv(p) /\ Tame(s, p)
  BY DroppedInv
<1>3. Declined(s, t) = IF ~s.sd[t].heard THEN s ELSE r
  BY DEF Declined
<1> HIDE DEF p
<1>4. p \in Dials
  BY <1>2 DEF Tame
<1>5. Tame(p, q) /\ Still(p, q)
  BY <1>4, DeafTame
<1> HIDE DEF q
<1>6. q \in Dials
  BY <1>5 DEF Tame
<1>7. Tame(q, q2) /\ Still(q, q2)
  BY <1>6, Aside
<1> HIDE DEF q2
<1>8. Inv(q2) /\ Tame(s, q2)
  BY <1>2, <1>5, <1>7, TameInv, TameTame
<1>9. Inv(r) /\ Tame(s, r)
  BY <1>8, EndIfLastInv, TameTame
<1>10. \A u \in Targets : Tamer(s.sd[u], s.sd[u])
  BY <1>1, DialersOf DEF Tamer
<1>11. Tame(s, s)
  BY <1>1, <1>10 DEF Tame
<1> QED BY <1>3, <1>9, <1>11

LEMMA SelectedInv ==
  ASSUME NEW s, Inv(s), NEW t \in Targets, opts.limit \in BOOLEAN
  PROVE  Inv(Selected(s, t))
<1>1. s \in Dials /\ Frozen(s) /\ Called(s)
  BY MostOf DEF Inv
<1>2. Inv(Kill(Deaf(s, t)))
  BY <1>1, DeafTame, TameInv, KillInv
<1>3. CASE s.winner = Nobody
  BY <1>2, <1>3 DEF Selected
<1>4. CASE s.winner # Nobody
  <2> DEFINE p == [s EXCEPT !.limit = opts.limit]
             q == [p EXCEPT !.results = "completed"]
             w == s.winner
             y == [q.sd[w] EXCEPT !.watched = TRUE]
             r == [q EXCEPT !.sd[w] = y]
  <2>1. w \in Targets /\ s.sd[w].at = "answered"
    BY <1>1, <1>4 DEF Dials, Called
  <2>2. Tame(s, p) /\ Still(s, p)
    BY <1>1, Aside
  <2>3. p \in Dials
    BY <2>2 DEF Tame
  <2>4. "completed" \in Results
    BY DEF Results
  <2>5. Tame(p, q) /\ Still(p, q)
    BY <2>3, <2>4, Aside
  <2>6. q \in Dials /\ q.winner = w
    BY <2>2, <2>5 DEF Tame, Still
  <2>7. Selected(s, t) = KillOutdials(r, "winner")
    <3>1. [s EXCEPT !.limit = opts.limit, !.results = "completed", !.sd[s.winner].watched = TRUE] = r
      BY <1>1, <2>6 DEF Dials
    <3> QED BY <3>1, <1>4 DEF Selected
  <2> HIDE DEF p, q
  <2>8. Tamer(q.sd[w], y)
    <3>1. q.sd[w] \in Dialers
      BY <2>1, <2>6, DialersOf
    <3>2. /\ y \in Dialers /\ y.at = q.sd[w].at /\ y.adult = q.sd[w].adult
          /\ y.leg = q.sd[w].leg /\ y.killed = q.sd[w].killed /\ y.heard = q.sd[w].heard
      BY <3>1 DEF Dialers
    <3> HIDE DEF y
    <3> QED BY <3>1, <3>2 DEF Tamer
  <2> HIDE DEF y, w
  <2>9. Tame(q, r) /\ Still(q, r)
    BY <2>1, <2>6, <2>8, TameOne
  <2> HIDE DEF r
  <2>10. Inv(r) /\ Tame(s, r)
    BY <2>2, <2>5, <2>9, TameInv, TameTame
  <2>11. NoLookup(r)
    <3>1. NoLookup(s)
      BY <1>1, <2>1 DEF Frozen, LateStages
    <3> QED BY <3>1, <2>10 DEF NoLookup, Tame, Tamer
  <2> QED BY <2>7, <2>10, <2>11, SweepInv
<1> QED BY <1>3, <1>4

------------------------------------------------------------------------------
(* A dialer that goes on.                                                   *)

GoesOn(s, t, y) ==
  /\ s.sd[t].at # "over" /\ y.at # "lookup"
  /\ Beaten(s.sd[t]) => Beaten(y)
  /\ InRace(y) => InRace(s.sd[t])
  /\ y.at = "answered" <=> s.sd[t].at = "answered"
  /\ Joined(y) => Joined(s.sd[t]) /\ (y.adult <=> s.sd[t].adult)
  /\ y.at \in LateStages => NoLookup(s)
  /\ y.at = "confirming" => t \in opts.confirm

LEMMA MoveInv ==
  ASSUME NEW s, Inv(s), NEW t \in Targets, NEW y \in Dialers,
         GoesOn(s, t, y)
  PROVE  LET r == [s EXCEPT !.sd[t] = y]
         IN  Inv(r) /\ r.sd = [s.sd EXCEPT ![t] = y]
<1>1. /\ s \in Dials /\ Early(s) /\ Reached(s) /\ Sweeps(s) /\ Frozen(s) /\ Listed(s)
      /\ Called(s) /\ Owned(s) /\ Closed(s) /\ Sole(s)
  BY MostOf DEF Inv
<1>0. /\ s.sd[t].at # "over" /\ y.at # "lookup"
      /\ Beaten(s.sd[t]) => Beaten(y)
      /\ InRace(y) => InRace(s.sd[t])
      /\ y.at = "answered" <=> s.sd[t].at = "answered"
      /\ Joined(y) => Joined(s.sd[t]) /\ (y.adult <=> s.sd[t].adult)
      /\ y.at \in LateStages => NoLookup(s)
      /\ y.at = "confirming" => t \in opts.confirm
  BY DEF GoesOn
<1> DEFINE f == [s.sd EXCEPT ![t] = y]
           r == [s EXCEPT !.sd[t] = y]
<1>2. s.sd \in [Targets -> Dialers]
  BY <1>1, DialersOf
<1>3. f \in [Targets -> Dialers] /\ \A u \in Targets : f[u] = IF u = t THEN y ELSE s.sd[u]
  BY <1>2
<1> HIDE DEF f
<1>4. /\ r \in Dials /\ r.sd = f /\ r.pc = s.pc /\ r.killed = s.killed /\ r.dials = s.dials
      /\ r.loops = s.loops /\ r.winner = s.winner /\ r.done = s.done
  BY <1>1, <1>3 DEF Dials, f
<1> HIDE DEF r
<1>5. \A u \in Targets : /\ Beaten(s.sd[u]) => Beaten(f[u])
                         /\ InRace(f[u]) => InRace(s.sd[u])
                         /\ Joined(f[u]) => Joined(s.sd[u]) /\ (f[u].adult <=> s.sd[u].adult)
  BY <1>0, <1>3
<1>6. s.pc \notin {"init", "teams"}
  BY <1>0, <1>1 DEF Early
<1>7. Reached(r) /\ Sweeps(r) /\ Early(r)
  BY <1>1, <1>4, <1>5, <1>6 DEF Reached, Sweeps, Early
<1>8. NoLookup(s) => NoLookup(r)
  BY <1>0, <1>3, <1>4 DEF NoLookup
<1>9. Frozen(r)
  BY <1>0, <1>1, <1>3, <1>4, <1>8 DEF Frozen
<1>10. \A u \in ToSet(s.dials) : u \in Targets
  BY <1>1, DialersOf DEF ToSet
<1>11. Listed(r)
  BY <1>0, <1>1, <1>3, <1>4, <1>10 DEF Listed
<1>12. s.winner # Nobody => s.winner \in Targets
  BY <1>1, DialersOf
<1>13. Called(r)
  BY <1>0, <1>1, <1>3, <1>4, <1>12 DEF Called
<1>14. Owned(r) /\ Sole(r)
  BY <1>1, <1>4, <1>5 DEF Owned, Sole
<1>15. Closed(r)
  BY <1>1, <1>4, <1>5 DEF Closed
<1> QED BY <1>4, <1>7, <1>9, <1>11, <1>13, <1>14, <1>15 DEF Inv, Most, Core, f, r

LEMMA AtIs ==
  ASSUME NEW s \in Dials, NEW t \in Targets, NEW stage \in Stages
  PROVE  LET y == [s.sd[t] EXCEPT !.at = stage]
         IN  /\ At(s, t, stage) = [s EXCEPT !.sd[t] = y]
             /\ y \in Dialers /\ y.at = stage /\ y.leg = s.sd[t].leg /\ y.killed = s.sd[t].killed
             /\ y.heard = s.sd[t].heard /\ y.adult = s.sd[t].adult
<1>1. s.sd[t] \in Dialers
  BY DialersOf
<1> QED BY <1>1 DEF At, Dials, Dialers

(* A dialer that ends has left the race.                                    *)
LEMMA OverInv ==
  ASSUME NEW s, Inv(s), NEW t \in Targets, s.sd[t].at \notin {"over", "answered"}
  PROVE  Inv(At(s, t, "over")) /\ ~InRace(At(s, t, "over").sd[t])
<1> DEFINE y == [s.sd[t] EXCEPT !.at = "over"]
           r == At(s, t, "over")
<1>1. s \in Dials
  BY MostOf DEF Inv
<1>2. r = [s EXCEPT !.sd[t] = y] /\ y \in Dialers /\ y.at = "over"
  <2>1. "over" \in Stages
    BY DEF Stages
  <2> QED BY <1>1, <2>1, AtIs
<1> HIDE DEF y, r
<1>3. Beaten(y) /\ ~InRace(y) /\ ~Joined(y)
  BY <1>2 DEF Beaten, InRace, Joined
<1>4. Inv(r) /\ r.sd = [s.sd EXCEPT ![t] = y]
  <2>1. y.at \notin LateStages
    BY <1>2 DEF LateStages
  <2>2. GoesOn(s, t, y)
    BY <1>2, <1>3, <2>1 DEF GoesOn
  <2>3. LET q == [s EXCEPT !.sd[t] = y] IN Inv(q) /\ q.sd = [s.sd EXCEPT ![t] = y]
    BY <1>2, <2>2, MoveInv
  <2> QED BY <1>2, <2>3
<1>5. r.sd[t] = y
  BY <1>1, <1>4, DialersOf
<1> QED BY <1>3, <1>4, <1>5 DEF r

(* The callee who is accepted.                                              *)
LEMMA AcceptedInv ==
  ASSUME NEW s, Inv(s), NEW t \in Targets, Duel(opts), opts \in DialOptions,
         s.sd[t].at \in {"connecting", "confirming"},
         s.sd[t].at = "connecting" => ~s.sd[t].killed
  PROVE  Inv(Accepted(s, t))
<1> DEFINE x == s.sd[t]
           y == [x EXCEPT !.at = "answered"]
           f == [s.sd EXCEPT ![t] = y]
           ds == RemoveFirst(s.dials, t)
           w == [Dropped(At(s, t, "answered"), t) EXCEPT !.winner = t, !.ring = FALSE]
           v1 == [w EXCEPT !.selecting = @ \cup {t}]
<1>1. /\ s \in Dials /\ Early(s) /\ Reached(s) /\ Sweeps(s) /\ Frozen(s) /\ Listed(s)
      /\ Called(s) /\ Owned(s) /\ Closed(s) /\ Sole(s)
  BY MostOf DEF Inv
<1>2. CASE ~s.sd[t].heard
  <2>1. Accepted(s, t) = At(s, t, "over")
    BY <1>2 DEF Accepted
  <2> QED BY <2>1, OverInv
<1>3. CASE s.sd[t].heard
  <2>1. Accepted(s, t) = IF opts.bridge THEN v1 ELSE Selected(w, t)
    BY <1>3 DEF Accepted
  <2>2. /\ At(s, t, "answered") = [s EXCEPT !.sd[t] = y]
        /\ y \in Dialers /\ y.at = "answered" /\ y.leg = x.leg /\ y.adult = x.adult
    <3>1. "answered" \in Stages
      BY DEF Stages
    <3> QED BY <1>1, <3>1, AtIs
  <2>3. s.sd \in [Targets -> Dialers] /\ s.dials \in Seq(Targets)
    BY <1>1, DialersOf
  <2>4. /\ ds \in Seq(Targets) /\ ToSet(ds) \subseteq ToSet(s.dials)
        /\ \A u \in ToSet(s.dials) : u # t => u \in ToSet(ds)
        /\ NoRepeats(s.dials) => NoRepeats(ds) /\ t \notin ToSet(ds)
    BY <2>3, RemovedFirst
  <2> HIDE DEF y
  <2>5. f \in [Targets -> Dialers] /\ \A u \in Targets : f[u] = IF u = t THEN y ELSE s.sd[u]
    BY <2>2, <2>3
  <2> HIDE DEF f, ds
  <2>6. w = [s EXCEPT !.sd = f, !.dials = ds, !.winner = t, !.ring = FALSE]
    BY <1>1, <2>2 DEF Dropped, Dials, f, ds
  <2>7. /\ w \in Dials /\ w.sd = f /\ w.pc = s.pc /\ w.killed = s.killed /\ w.dials = ds
        /\ w.loops = s.loops /\ w.winner = t /\ w.done = s.done
    BY <2>4, <2>5, <2>6, <1>1 DEF Dials
  <2> HIDE DEF w
  <2>8. /\ x.at = "connecting" => ~Beaten(x)
        /\ x.leg = "up" => ~Beaten(x) /\ InRace(x)
    BY <1>3 DEF Beaten, InRace
  <2>9. ~InRace(y) /\ y.at \in LateStages /\ (x.leg # "up" => Beaten(y)) /\ (Joined(y) => x.leg = "up")
    BY <2>2 DEF InRace, Beaten, Joined, LateStages
  <2>10. NoLookup(s)
    BY <1>1 DEF Frozen, LateStages
  <2>11. NoLookup(w)
    BY <2>2, <2>5, <2>7, <2>10 DEF NoLookup
  <2>12. Early(w)
    BY <1>1, <2>7 DEF Early
  <2>13. Reached(w)
    BY <1>1, <2>4, <2>5, <2>7, <2>9 DEF Reached
  <2>14. Sweeps(w)
    BY <1>1, <2>5, <2>7, <2>9 DEF Sweeps
  <2>15. Frozen(w)
    BY <2>11 DEF Frozen
  <2>16. \A u \in ToSet(ds) : u # t /\ u \in Targets /\ u \in opts.targets /\ s.sd[u].at # "lookup"
    <3>1. \A u \in ToSet(s.dials) : u \in Targets
      BY <2>3 DEF ToSet
    <3> QED BY <3>1, <2>4, <1>1 DEF Listed
  <2>17. Listed(w)
    BY <2>4, <2>5, <2>7, <2>16, <1>1 DEF Listed
  <2>18. t \in opts.targets
    BY <1>1 DEF Called
  <2>19. Called(w)
    BY <1>1, <2>2, <2>5, <2>7, <2>18 DEF Called
  <2>20. ASSUME NEW u \in Targets, u # t, Joined(s.sd[u])
         PROVE  x.at = "confirming" /\ x.leg # "up" /\ ~Plain(opts)
    <3>1. Beaten(x)
      BY <2>20, <1>1 DEF Sole
    <3>2. u \in opts.targets
      BY <2>20, <1>1 DEF Called, Joined
    <3>3. x.at = "confirming" /\ x.leg # "up"
      BY <3>1, <2>8
    <3>4. t \in opts.confirm
      BY <3>3, <1>1 DEF Called
    <3> QED BY <2>18, <2>20, <3>2, <3>3, <3>4 DEF Plain
  <2>21. Owned(w)
    <3>1. ASSUME Plain(opts), NEW u \in Targets, Joined(f[u]), ~f[u].adult
          PROVE  t = u /\ ~s.done
      <4>1. u = t
        BY <3>1, <2>5, <2>20
      <4>2. InRace(x)
        BY <4>1, <3>1, <2>5, <2>8, <2>9
      <4> QED BY <4>1, <4>2, <1>1 DEF Closed
    <3> QED BY <3>1, <2>7 DEF Owned
  <2>22. Closed(w)
    BY <1>1, <2>5, <2>7, <2>9 DEF Closed
  <2>23. Most(w)
    BY <2>7, <2>12, <2>13, <2>14, <2>15, <2>17, <2>19, <2>21, <2>22 DEF Most, Core
  (* It is enough that the others are beaten if he is on the line.          *)
  <2>24. ASSUME NEW r, Tame(w, r),
                \A u \in Targets : u # t /\ x.leg = "up" => Beaten(r.sd[u])
         PROVE  Sole(r)
    <3> SUFFICES ASSUME NEW a \in Targets, NEW u \in Targets, Joined(r.sd[a]), a # u
                 PROVE  Beaten(r.sd[u])
      BY DEF Sole
    <3>1. Joined(f[a])
      BY <2>7, <2>24, TamerBeaten DEF Tame
    <3>2. CASE a = t
      BY <3>1, <3>2, <2>5, <2>9, <2>24
    <3>3. CASE a # t
      <4>1. Joined(s.sd[a])
        BY <3>1, <3>3, <2>5
      <4>2. Beaten(f[u])
        <5>1. CASE u = t
          BY <4>1, <3>3, <5>1, <2>5, <2>9, <2>20
        <5>2. CASE u # t
          BY <4>1, <5>2, <2>5, <1>1 DEF Sole
        <5> QED BY <5>1, <5>2
      <4> QED BY <4>2, <2>7, <2>24, TamerBeaten DEF Tame
    <3> QED BY <3>2, <3>3
  <2>25. ASSUME NEW u \in Targets, u \notin opts.targets PROVE Beaten(w.sd[u])
    <3>1. s.sd[u].at = "over" /\ u # t
      BY <2>25, <2>18, <1>1 DEF Called
    <3> QED BY <3>1, <2>5, <2>7 DEF Beaten
  <2>26. CASE opts.bridge
    <3>1. w.selecting \cup {t} \in SUBSET Targets
      BY <2>7 DEF Dials
    <3>2. Tame(w, v1) /\ Still(w, v1)
      BY <3>1, <2>7, Aside
    <3> HIDE DEF v1
    <3>3. \A u \in Targets : u # t => u \notin opts.targets
      BY <2>18, <2>26 DEF Duel
    <3>4. Sole(v1)
      BY <3>2, <3>3, <2>24, <2>25, TamerBeaten DEF Tame
    <3> QED BY <3>2, <3>4, <2>1, <2>23, <2>26, TameMost DEF Inv
  <2>27. CASE ~opts.bridge
    <3> DEFINE p == [w EXCEPT !.limit = opts.limit]
               q == [p EXCEPT !.results = "completed"]
               z == [q.sd[t] EXCEPT !.watched = TRUE]
               v == [q EXCEPT !.sd[t] = z]
               r == KillOutdials(v, "winner")
    <3>1. Tame(w, p) /\ Still(w, p)
      BY <2>7, Aside DEF DialOptions
    <3>2. p \in Dials
      BY <3>1 DEF Tame
    <3>3. "completed" \in Results
      BY DEF Results
    <3>4. Tame(p, q) /\ Still(p, q)
      BY <3>2, <3>3, Aside
    <3>5. q \in Dials
      BY <3>4 DEF Tame
    <3>6. Selected(w, t) = r
      <4>1. [w EXCEPT !.limit = opts.limit, !.results = "completed", !.sd[w.winner].watched = TRUE] = v
        BY <2>7 DEF Dials
      <4>2. w.winner # Nobody
        BY <2>7, DialAssumption
      <4> QED BY <4>1, <4>2 DEF Selected
    <3> HIDE DEF p, q
    <3>7. Tamer(q.sd[t], z)
      <4>1. q.sd[t] \in Dialers
        BY <3>5, DialersOf
      <4>2. /\ z \in Dialers /\ z.at = q.sd[t].at /\ z.adult = q.sd[t].adult
            /\ z.leg = q.sd[t].leg /\ z.killed = q.sd[t].killed /\ z.heard = q.sd[t].heard
        BY <4>1 DEF Dialers
      <4> HIDE DEF z
      <4> QED BY <4>1, <4>2 DEF Tamer
    <3> HIDE DEF z
    <3>8. Tame(q, v) /\ Still(q, v)
      BY <3>5, <3>7, TameOne
    <3> HIDE DEF v
    <3>9. Tame(w, v) /\ Still(w, v)
      BY <3>1, <3>4, <3>8, TameTame
    <3>10. Most(v)
      BY <3>9, <2>23, TameMost
    <3>11. v.dials = ds
      BY <3>9, <2>7 DEF Still
    <3>12. NoLookup(v)
      BY <3>9, <2>11 DEF Tame, Tamer, NoLookup
    <3> HIDE DEF r
    <3>13. /\ Most(r) /\ Tame(v, r)
           /\ ds # <<>> /\ v.sd[ds[1]].at # "lookup" => Beaten(r.sd[ds[1]])
      BY <3>10, <3>11, <3>12, KillOutdialsMost DEF Thens, r
    <3>14. Tame(w, r)
      BY <3>9, <3>13, TameTame
    <3>15. ASSUME NEW u \in Targets, u # t, x.leg = "up" PROVE Beaten(r.sd[u])
      <4>1. CASE Beaten(w.sd[u])
        BY <4>1, <3>14, TamerBeaten DEF Tame
      <4>2. CASE ~Beaten(w.sd[u])
        <5>1. u \in opts.targets
          BY <4>2, <2>25
        <5>2. ~Joined(s.sd[u])
          BY <3>15, <2>20
        <5>3. w.sd[u] = s.sd[u]
          BY <3>15, <2>5, <2>7
        <5>4. w.sd[u].at # "answered"
          BY <4>2, <5>2, <5>3 DEF Joined, Beaten
        <5>5. InRace(w.sd[u])
          BY <4>2, <5>4, <2>11 DEF InRace, NoLookup
        <5>6. u \in ToSet(ds)
          BY <5>5, <2>7, <2>13 DEF Reached
        <5>7. ds # <<>> /\ ds[1] \in ToSet(ds)
          BY <5>6, <2>4 DEF ToSet
        <5>8. ds[1] = u
          BY <5>1, <5>7, <2>16, <2>18, <3>15 DEF Duel
        <5> QED BY <5>7, <5>8, <3>12, <3>13 DEF NoLookup
      <4> QED BY <4>1, <4>2
    <3>16. Sole(r)
      BY <3>14, <3>15, <2>24
    <3> QED BY <3>6, <3>13, <3>16, <2>1, <2>27 DEF Inv
  <2> QED BY <2>26, <2>27
<1> QED BY <1>2, <1>3

------------------------------------------------------------------------------
(* The steps.                                                               *)

LEMMA PcInv ==
  ASSUME NEW s, Inv(s), NEW x \in {"init", "teams", "dialing", "action", "done"},
         x \in {"init", "teams"} => s.pc \in {"init", "teams"}
  PROVE  Inv([s EXCEPT !.pc = x])
<1> DEFINE r == [s EXCEPT !.pc = x]
<1>1. /\ s \in Dials /\ Early(s) /\ Reached(s) /\ Sweeps(s) /\ Frozen(s) /\ Listed(s)
      /\ Called(s) /\ Owned(s) /\ Closed(s) /\ Sole(s)
  BY MostOf DEF Inv
<1>2. /\ r \in Dials /\ r.sd = s.sd /\ r.pc = x /\ r.killed = s.killed /\ r.dials = s.dials
      /\ r.loops = s.loops /\ r.winner = s.winner /\ r.done = s.done
  BY <1>1 DEF Dials
<1> HIDE DEF r
<1>3. Early(r) /\ Reached(r) /\ Sweeps(r)
  BY <1>1, <1>2 DEF Early, Reached, Sweeps
<1>4. Frozen(r) /\ Listed(r) /\ Called(r)
  BY <1>1, <1>2 DEF Frozen, NoLookup, Listed, Called
<1>5. Owned(r) /\ Closed(r) /\ Sole(r)
  BY <1>1, <1>2 DEF Owned, Closed, Sole
<1> QED BY <1>2, <1>3, <1>4, <1>5 DEF Inv, Most, Core, r

(* The targets are called.                                                  *)
LEMMA AttemptedInv ==
  ASSUME NEW s, Inv(s), s.pc \in {"init", "teams"}
  PROVE  Inv(Attempted(s))
<1> DEFINE f == [t \in Targets |->
                  IF t \in opts.targets THEN [s.sd[t] EXCEPT !.at = "lookup"] ELSE s.sd[t]]
           r == [s EXCEPT !.pc = "dialing", !.ring = TRUE, !.sd = f]
<1>1. /\ s \in Dials /\ Early(s) /\ Called(s) /\ Closed(s)
  BY MostOf DEF Inv
<1>2. Attempted(s) = r
  BY <1>1 DEF Attempted, Dials
<1>3. s.sd \in [Targets -> Dialers]
  BY <1>1, DialersOf
<1>4. \A t \in Targets :
        /\ f[t] \in Dialers
        /\ f[t].at \in {"lookup", "over"} /\ (f[t].at # "over" => t \in opts.targets)
  <2> SUFFICES ASSUME NEW t \in Targets
               PROVE  /\ f[t] \in Dialers
                      /\ f[t].at \in {"lookup", "over"} /\ (f[t].at # "over" => t \in opts.targets)
    OBVIOUS
  <2>1. s.sd[t] \in Dialers /\ s.sd[t].at = "over"
    BY <1>1, <1>3 DEF Early
  <2>2. "lookup" \in Stages
    BY DEF Stages
  <2>3. /\ [s.sd[t] EXCEPT !.at = "lookup"] \in Dialers
        /\ [s.sd[t] EXCEPT !.at = "lookup"].at = "lookup"
    BY <2>1, <2>2 DEF Dialers
  <2> QED BY <2>1, <2>3
<1>5. f \in [Targets -> Dialers]
  BY <1>4
<1> HIDE DEF f
<1>6. /\ r \in Dials /\ r.sd = f /\ r.pc = "dialing" /\ r.killed = s.killed /\ r.dials = <<>>
      /\ r.loops = <<>> /\ r.winner = Nobody /\ r.done = s.done
  BY <1>1, <1>5 DEF Dials, Early
<1> HIDE DEF r
<1>7. \A t \in Targets : ~InRace(r.sd[t]) /\ ~Joined(r.sd[t]) /\ r.sd[t].at \notin LateStages
                         /\ r.sd[t].at # "confirming"
  BY <1>4, <1>6 DEF InRace, Joined, Beaten, LateStages
<1>8. Early(r) /\ Reached(r) /\ Sweeps(r)
  BY <1>6, <1>7 DEF Early, Reached, Sweeps
<1>9. Frozen(r) /\ Listed(r) /\ Called(r)
  BY <1>4, <1>6, <1>7 DEF Frozen, Listed, NoRepeats, ToSet, Called
<1>10. Owned(r) /\ Sole(r)
  BY <1>7 DEF Owned, Sole
<1>11. Closed(r)
  BY <1>1, <1>6, <1>7 DEF Closed
<1> QED BY <1>2, <1>6, <1>8, <1>9, <1>10, <1>11 DEF Inv, Most, Core

(* A loop goes on.                                                          *)
LEMMA LoopResumesInv ==
  ASSUME Inv(d), LoopResumes
  PROVE  Inv(d')
<1>1. PICK i \in DOMAIN d.loops :
        d' = KillLoop([Deaf(d, Head(d.loops[i].left)) EXCEPT !.loops = RemoveAt(@, i)],
                      Tail(d.loops[i].left), d.loops[i].then)
  BY DEF LoopResumes
<1> DEFINE f == d.loops[i]
           t == Head(f.left)
           q == Deaf(d, t)
           ls == RemoveAt(d.loops, i)
           p == [q EXCEPT !.loops = ls]
<1>2. /\ d \in Dials /\ Early(d) /\ Sweeps(d) /\ Frozen(d) /\ Sole(d) /\ Most(d)
  BY MostOf DEF Inv
<1>3. d.loops \in Seq(Loops)
  BY <1>2, DialersOf
<1>4. f \in Loops /\ f.left \in Seq(Targets) /\ f.then \in Thens /\ f.left # <<>>
      /\ (f.then = "kill" => d.killed)
      /\ \A u \in Targets : InRace(d.sd[u]) => u \in ToSet(Tail(f.left))
  <2>1. f \in Loops
    BY <1>3, ElementOfSeq
  <2>2. f.left \in Seq(Targets) /\ f.then \in Thens
    BY <2>1 DEF Loops, Thens
  <2> QED BY <1>2, <2>1, <2>2 DEF Sweeps
<1>5. t \in Targets /\ Tail(f.left) \in Seq(Targets)
  BY <1>4
<1>6. /\ ls \in Seq(Loops)
      /\ \A j \in DOMAIN ls : \E k \in DOMAIN d.loops : ls[j] = d.loops[k]
  <2>1. /\ ls \in Seq(Loops) /\ Len(ls) = Len(d.loops) - 1
        /\ \A j \in DOMAIN ls : ls[j] = IF j < i THEN d.loops[j] ELSE d.loops[j + 1]
    BY <1>3, RemovedAt
  <2> HIDE DEF ls
  <2>2. /\ DOMAIN ls = 1..(Len(d.loops) - 1) /\ DOMAIN d.loops = 1..Len(d.loops)
        /\ Len(d.loops) \in Nat
    BY <2>1, <1>3
  <2>3. \A j \in DOMAIN ls : j \in DOMAIN d.loops /\ j + 1 \in DOMAIN d.loops
    BY <2>2
  <2> QED BY <2>1, <2>3
<1>7. d' = KillLoop(p, Tail(f.left), f.then)
  <2>1. q.loops = d.loops
    BY <1>2 DEF Deaf, Dials
  <2> QED BY <1>1, <2>1
<1> HIDE DEF f, t, ls
<1>8. Tame(d, q) /\ Still(d, q)
  BY <1>2, <1>5, DeafTame
<1> HIDE DEF q
<1>9. Most(q) /\ Sole(q)
  BY <1>2, <1>8, TameMost, TameSole
<1>10. /\ q \in Dials /\ Early(q) /\ Reached(q) /\ Sweeps(q) /\ Frozen(q) /\ Listed(q)
       /\ Called(q) /\ Owned(q) /\ Closed(q)
  BY <1>9, MostOf
<1>11. /\ p \in Dials /\ p.sd = q.sd /\ p.pc = q.pc /\ p.killed = q.killed /\ p.dials = q.dials
       /\ p.loops = ls /\ p.winner = q.winner /\ p.done = q.done
  BY <1>6, <1>10 DEF Dials
<1> HIDE DEF p
<1>12. d.loops # <<>> /\ d.pc \notin {"init", "teams"}
  BY <1>1, <1>2 DEF Early
<1>13. /\ p.killed \/ NoLookup(p)
       /\ p.pc \notin {"init", "teams"}
       /\ f.then = "kill" => p.killed
  <2>1. d.killed => p.killed
    BY <1>8, <1>11 DEF Tame
  <2>2. NoLookup(d) => NoLookup(p)
    BY <1>8, <1>11 DEF Tame, Tamer, NoLookup
  <2>3. p.pc = d.pc
    BY <1>8, <1>11 DEF Tame
  <2> QED BY <2>1, <2>2, <2>3, <1>2, <1>4, <1>12 DEF Frozen
<1>14. Sweeps(p)
  BY <1>6, <1>8, <1>10, <1>11 DEF Sweeps, Still
<1>15. Frozen(p)
  BY <1>10, <1>11, <1>13 DEF Frozen, NoLookup
<1>16. Early(p) /\ Reached(p) /\ Listed(p)
  BY <1>10, <1>11, <1>13 DEF Early, Reached, Listed
<1>17. Called(p) /\ Owned(p) /\ Closed(p) /\ Sole(p)
  BY <1>9, <1>10, <1>11 DEF Called, Owned, Closed, Sole
<1>18. Most(p)
  BY <1>11, <1>14, <1>15, <1>16, <1>17 DEF Most, Core
<1>19. \A u \in Targets : InRace(p.sd[u]) => u \in ToSet(Tail(f.left))
  BY <1>4, <1>8, <1>11, TamerBeaten DEF Tame
<1>20. Loose(p, Tail(f.left), f.then)
  BY <1>4, <1>5, <1>13, <1>19 DEF Loose
<1>21. Most(d') /\ Tame(p, d')
  BY <1>7, <1>18, <1>20, KillLoopMost
<1> QED BY <1>17, <1>21, TameSole DEF Inv

(* The callee becomes a call of his own.                                    *)
LEMMA ReferReplyInv ==
  ASSUME Inv(d), ReferReply
  PROVE  Inv(d')
<1>1. /\ d \in Dials /\ Early(d) /\ Reached(d) /\ Sweeps(d) /\ Frozen(d) /\ Listed(d)
      /\ Called(d) /\ Owned(d) /\ Closed(d) /\ Sole(d)
  BY MostOf DEF Inv
<1>2. CASE d' = [d EXCEPT !.refer = "none"]
  BY <1>1, <1>2, Aside, TameInv
<1>3. CASE d.winner # Nobody /\ d' = [d EXCEPT !.refer = "adulting", !.sd[d.winner].adult = TRUE,
                          !.winner = IF d.sd[d.winner].heard THEN Nobody ELSE @]
  <2> DEFINE w == d.winner
             y == [d.sd[w] EXCEPT !.adult = TRUE]
             f == [d.sd EXCEPT ![w] = y]
             v == IF d.sd[w].heard THEN Nobody ELSE w
  <2>1. w \in Targets /\ d.sd \in [Targets -> Dialers] /\ d.sd[w] \in Dialers
    BY <1>1, <1>3, DialersOf
  <2>2. /\ y \in Dialers /\ y.at = d.sd[w].at /\ y.adult = TRUE /\ y.leg = d.sd[w].leg
        /\ y.killed = d.sd[w].killed /\ y.heard = d.sd[w].heard
    BY <2>1 DEF Dialers
  <2>3. d' = [d EXCEPT !.refer = "adulting", !.sd = f, !.winner = v]
    BY <1>1, <1>3, <2>1 DEF Dials
  <2> HIDE DEF y
  <2>4. f \in [Targets -> Dialers] /\ \A u \in Targets : f[u] = IF u = w THEN y ELSE d.sd[u]
    BY <2>1, <2>2
  <2>5. v \in {Nobody, w}
    OBVIOUS
  <2> HIDE DEF f, v
  <2>6. /\ d' \in Dials /\ d'.sd = f /\ d'.pc = d.pc /\ d'.killed = d.killed /\ d'.dials = d.dials
        /\ d'.loops = d.loops /\ d'.winner = v /\ d'.done = d.done
    BY <1>1, <2>1, <2>3, <2>4, <2>5 DEF Dials
  <2>7. \A u \in Targets : /\ f[u].at = d.sd[u].at /\ (Beaten(f[u]) <=> Beaten(d.sd[u]))
                           /\ Joined(f[u]) <=> Joined(d.sd[u])
                           /\ InRace(f[u]) <=> InRace(d.sd[u])
                           /\ ~f[u].adult => u # w /\ ~d.sd[u].adult
    <3> SUFFICES ASSUME NEW u \in Targets
                 PROVE  /\ f[u].at = d.sd[u].at /\ (Beaten(f[u]) <=> Beaten(d.sd[u]))
                        /\ Joined(f[u]) <=> Joined(d.sd[u])
                        /\ InRace(f[u]) <=> InRace(d.sd[u])
                        /\ ~f[u].adult => u # w /\ ~d.sd[u].adult
      OBVIOUS
    <3>1. CASE u = w
      <4>1. f[u] = y /\ y.adult /\ y.at = d.sd[u].at
        BY <3>1, <2>2, <2>4
      <4>2. Beaten(y) <=> Beaten(d.sd[u])
        BY <3>1, <2>2 DEF Beaten
      <4>3. Joined(y) <=> Joined(d.sd[u])
        BY <3>1, <2>2 DEF Joined
      <4> QED BY <4>1, <4>2, <4>3 DEF InRace
    <3>2. CASE u # w
      BY <3>2, <2>4
    <3> QED BY <3>1, <3>2
  <2> HIDE DEF w
  <2>8. d.pc \notin {"init", "teams"}
    BY <1>1, <1>3 DEF Early
  <2>9. Early(d') /\ Reached(d') /\ Sweeps(d')
    BY <1>1, <2>6, <2>7, <2>8 DEF Early, Reached, Sweeps
  <2>10. NoLookup(d) <=> NoLookup(d')
    BY <2>6, <2>7 DEF NoLookup
  <2>11. Frozen(d')
    BY <1>1, <2>6, <2>7, <2>10 DEF Frozen
  <2>12. \A u \in ToSet(d.dials) : u \in Targets
    BY <1>1, DialersOf DEF ToSet
  <2>13. Listed(d')
    BY <1>1, <2>6, <2>7, <2>12 DEF Listed
  <2>14. Called(d')
    BY <1>1, <1>3, <2>1, <2>5, <2>6, <2>7 DEF Called, w
  <2>15. Owned(d')
    BY <1>1, <2>6, <2>7 DEF Owned, w
  <2>16. Sole(d') /\ Closed(d')
    BY <1>1, <2>6, <2>7 DEF Sole, Closed
  <2> QED BY <2>6, <2>9, <2>11, <2>13, <2>14, <2>15, <2>16 DEF Inv, Most, Core
<1> QED BY <1>2, <1>3 DEF ReferReply

(* A target joins the race.                                                 *)
LEMMA PlaceInv ==
  ASSUME Inv(d), NEW t \in Targets, Place(t)
  PROVE  Inv(d')
<1>1. /\ d \in Dials /\ Early(d) /\ Reached(d) /\ Sweeps(d) /\ Frozen(d) /\ Listed(d)
      /\ Called(d) /\ Owned(d) /\ Closed(d) /\ Sole(d)
  BY MostOf DEF Inv
<1>2. d.sd[t].at = "lookup"
  BY DEF Place
<1>3. CASE d' = At(d, t, "over")
  BY <1>2, <1>3, OverInv
<1>4. CASE ~d.killed /\ d' = [At(d, t, "endpoint") EXCEPT !.dials = Append(@, t), !.sd[t].heard = TRUE]
  <2> DEFINE y == [d.sd[t] EXCEPT !.at = "endpoint", !.heard = TRUE]
             f == [d.sd EXCEPT ![t] = y]
             ds == Append(d.dials, t)
  <2>1. d.sd \in [Targets -> Dialers] /\ d.sd[t] \in Dialers /\ d.dials \in Seq(Targets)
    BY <1>1, DialersOf
  <2>2. y \in Dialers /\ y.at = "endpoint"
    BY <2>1 DEF Dialers, Stages
  <2>3. d' = [d EXCEPT !.sd = f, !.dials = ds]
    BY <1>1, <1>4, <2>1 DEF At, Dials, Dialers
  <2> HIDE DEF y
  <2>4. f \in [Targets -> Dialers] /\ \A u \in Targets : f[u] = IF u = t THEN y ELSE d.sd[u]
    BY <2>1, <2>2
  <2>5. /\ ds \in Seq(Targets) /\ Len(ds) = Len(d.dials) + 1 /\ ds[Len(d.dials) + 1] = t
        /\ \A i \in 1..Len(d.dials) : ds[i] = d.dials[i]
    BY <2>1, AppendProperties
  <2> HIDE DEF f, ds
  <2>6. /\ d' \in Dials /\ d'.sd = f /\ d'.pc = d.pc /\ d'.killed = d.killed /\ d'.dials = ds
        /\ d'.loops = d.loops /\ d'.winner = d.winner /\ d'.done = d.done
    BY <1>1, <2>3, <2>4, <2>5 DEF Dials
  <2>7. ~NoLookup(d)
    BY <1>2 DEF NoLookup
  <2>8. d.loops = <<>> /\ \A u \in Targets : d.sd[u].at \notin LateStages
    BY <1>1, <1>4, <2>7 DEF Frozen
  <2>9. \A u \in Targets : f[u].at \notin LateStages /\ ~Joined(f[u])
    BY <2>2, <2>4, <2>8 DEF Joined, LateStages
  <2>10. d.pc \notin {"init", "teams"} /\ ~d.done
    BY <1>1, <1>2, <1>4 DEF Early, Closed
  <2>11. /\ DOMAIN ds = 1..(Len(d.dials) + 1) /\ DOMAIN d.dials = 1..Len(d.dials)
         /\ Len(d.dials) \in Nat
    BY <2>1, <2>5
  <2>12. \A i \in DOMAIN ds : i \in DOMAIN d.dials \/ i = Len(d.dials) + 1
    BY <2>11
  <2>13. t \in ToSet(ds) /\ \A u \in ToSet(d.dials) : u \in ToSet(ds)
    <3>1. Len(d.dials) + 1 \in DOMAIN ds /\ \A i \in DOMAIN d.dials : i \in DOMAIN ds
      BY <2>11
    <3> QED BY <3>1, <2>5, <2>11 DEF ToSet
  <2>14. \A u \in ToSet(ds) : u = t \/ u \in ToSet(d.dials)
    BY <2>5, <2>11, <2>12 DEF ToSet
  <2>15. t \notin ToSet(d.dials)
    BY <1>1, <1>2 DEF Listed
  <2>16. NoRepeats(ds)
    <3>1. NoRepeats(d.dials)
      BY <1>1 DEF Listed
    <3>2. \A i \in DOMAIN d.dials : d.dials[i] # t
      BY <2>15 DEF ToSet
    <3>3. ASSUME NEW i \in DOMAIN ds, NEW j \in DOMAIN ds, ds[i] = ds[j] PROVE i = j
      <4>1. CASE i \in DOMAIN d.dials /\ j \in DOMAIN d.dials
        BY <4>1, <3>1, <3>3, <2>5, <2>11 DEF NoRepeats
      <4>2. CASE i \in DOMAIN d.dials /\ j = Len(d.dials) + 1
        BY <4>2, <3>2, <3>3, <2>5, <2>11
      <4>3. CASE i = Len(d.dials) + 1 /\ j \in DOMAIN d.dials
        BY <4>3, <3>2, <3>3, <2>5, <2>11
      <4> QED BY <4>1, <4>2, <4>3, <2>12
    <3> QED BY <3>3 DEF NoRepeats
  <2>17. Early(d') /\ Reached(d') /\ Sweeps(d')
    BY <1>1, <2>4, <2>6, <2>8, <2>10, <2>13 DEF Early, Reached, Sweeps
  <2>18. Frozen(d')
    BY <2>6, <2>8, <2>9 DEF Frozen
  <2>19. t \in opts.targets
    BY <1>1, <1>2 DEF Called
  <2>20. \A u \in ToSet(d.dials) : u \in Targets
    BY <2>1 DEF ToSet
  <2>21. Listed(d')
    BY <1>1, <2>2, <2>4, <2>6, <2>14, <2>16, <2>19, <2>20 DEF Listed
  <2>22. d.winner = Nobody
    <3>1. d.winner # Nobody => d.winner \in Targets /\ d.sd[d.winner].at = "answered"
      BY <1>1, DialersOf DEF Called
    <3> QED BY <3>1, <2>8 DEF LateStages
  <2>23. Called(d')
    BY <1>1, <2>4, <2>6, <2>9, <2>19, <2>22 DEF Called, LateStages
  <2>24. Owned(d') /\ Sole(d') /\ Closed(d')
    BY <2>6, <2>9, <2>10 DEF Owned, Sole, Closed
  <2> QED BY <2>6, <2>17, <2>18, <2>21, <2>23, <2>24 DEF Inv, Most, Core
<1> QED BY <1>3, <1>4 DEF Place

(* A dialer goes to its next stage; he who was beaten stays so.             *)
LEMMA StageInv ==
  ASSUME NEW s, Inv(s), NEW t \in Targets, NEW stage \in Stages,
         \/ s.sd[t].at = "endpoint" /\ ~s.sd[t].killed /\ stage = "sending"
         \/ s.sd[t].at = "sending" /\ stage = "ringing"
         \/ s.sd[t].at = "connecting" /\ ~s.sd[t].killed /\ stage = "confirming" /\ t \in opts.confirm
  PROVE  Inv(At(s, t, stage))
<1> DEFINE x == s.sd[t]
           y == [x EXCEPT !.at = stage]
<1>1. s \in Dials /\ Frozen(s)
  BY MostOf DEF Inv
<1>2. /\ At(s, t, stage) = [s EXCEPT !.sd[t] = y]
      /\ y \in Dialers /\ y.at = stage /\ y.leg = x.leg /\ y.killed = x.killed
      /\ y.heard = x.heard /\ y.adult = x.adult
  BY <1>1, AtIs
<1> HIDE DEF y
<1>3. (Beaten(x) => Beaten(y)) /\ (InRace(y) => InRace(x)) /\ ~Joined(y)
  BY <1>2 DEF Beaten, InRace, Joined
<1>4. y.at \in LateStages => NoLookup(s)
  BY <1>1, <1>2 DEF Frozen, LateStages
<1>5. GoesOn(s, t, y)
  BY <1>2, <1>3, <1>4 DEF GoesOn
<1>6. Inv([s EXCEPT !.sd[t] = y])
  BY <1>2, <1>5, MoveInv
<1> QED BY <1>2, <1>6

LEMMA AnswersInv ==
  ASSUME Inv(d), NEW t \in Targets, Answers(t), opts.prompt
  PROVE  Inv(d')
<1> DEFINE x == d.sd[t]
           y == [x EXCEPT !.at = "connecting", !.leg = "up"]
<1>1. d \in Dials /\ Frozen(d)
  BY MostOf DEF Inv
<1>2. x \in Dialers /\ x.at = "ringing" /\ d' = [At(d, t, "connecting") EXCEPT !.sd[t].leg = "up"]
  BY <1>1, DialersOf DEF Answers
<1>3. d' = [d EXCEPT !.sd[t] = y]
  BY <1>1, <1>2 DEF At, Dials
<1>4. y \in Dialers /\ y.at = "connecting" /\ y.killed = x.killed /\ y.heard = x.heard
  BY <1>2 DEF Dialers, Stages
<1> HIDE DEF y
<1>5. NoLookup(d)
  BY DEF Answers, LookupsDone, NoLookup
<1>6. (Beaten(x) => Beaten(y)) /\ (InRace(y) => InRace(x)) /\ ~Joined(y)
  BY <1>2, <1>4 DEF Beaten, InRace, Joined
<1>7. GoesOn(d, t, y)
  BY <1>2, <1>4, <1>5, <1>6 DEF GoesOn
<1>8. Inv([d EXCEPT !.sd[t] = y])
  BY <1>4, <1>7, MoveInv
<1> QED BY <1>3, <1>8

(* What a dialer reports in the same breath.                                *)
LEMMA OverThenInv ==
  ASSUME NEW s, Inv(s), NEW t \in Targets, s.sd[t].at \notin {"over", "answered"}
  PROVE  /\ \A status \in Results : Inv(StatusChanged(At(s, t, "over"), t, status))
         /\ LET r == Declined(At(s, t, "over"), t) IN Inv(r) /\ r \in Dials
<1> DEFINE p == At(s, t, "over")
<1>1. Inv(p) /\ ~InRace(p.sd[t])
  BY OverInv
<1> HIDE DEF p
<1>2. \A status \in Results : Inv(StatusChanged(p, t, status))
  BY <1>1, StatusChangedInv
<1>3. Inv(Declined(p, t)) /\ Declined(p, t) \in Dials
  BY <1>1, DeclinedInv, MostOf DEF Inv
<1> QED BY <1>2, <1>3 DEF p

LEMMA ConnectedInv ==
  ASSUME Inv(d), NEW t \in Targets, Connected(t), Duel(opts), opts \in DialOptions
  PROVE  Inv(d')
<1> DEFINE s == StatusChanged(d, t, "in-progress")
<1>1. d.sd[t].at = "connecting"
  BY DEF Connected
<1>2. d' = IF s.sd[t].killed THEN StatusChanged(At(s, t, "over"), t, "completed")
           ELSE IF t \in opts.confirm THEN At(s, t, "confirming") ELSE Accepted(s, t)
  BY DEF Connected
<1> HIDE DEF s
<1>3. Inv(s) /\ s.sd = d.sd
  <2>1. "in-progress" \in Results
    BY DEF Results
  <2> QED BY <2>1, StatusChangedInv DEF s
<1>4. s.sd[t].at = "connecting"
  BY <1>1, <1>3
<1>5. CASE s.sd[t].killed
  <2>1. "completed" \in Results
    BY DEF Results
  <2>2. Inv(StatusChanged(At(s, t, "over"), t, "completed"))
    BY <1>3, <1>4, <2>1, OverThenInv
  <2> QED BY <1>2, <1>5, <2>2
<1>6. CASE ~s.sd[t].killed /\ t \in opts.confirm
  <2>1. "confirming" \in Stages
    BY DEF Stages
  <2>2. Inv(At(s, t, "confirming"))
    BY <1>3, <1>4, <1>6, <2>1, StageInv
  <2> QED BY <1>2, <1>6, <2>2
<1>7. CASE ~s.sd[t].killed /\ t \notin opts.confirm
  <2>1. Inv(Accepted(s, t))
    BY <1>3, <1>4, <1>7, AcceptedInv
  <2> QED BY <1>2, <1>7, <2>1
<1> QED BY <1>5, <1>6, <1>7

(* A leg that goes down.                                                    *)
LEMMA DownTame ==
  ASSUME NEW s \in Dials, NEW t \in Targets
  PROVE  LET r == [s EXCEPT !.sd[t].leg = "down"] IN Tame(s, r) /\ Still(s, r)
<1> DEFINE y == [s.sd[t] EXCEPT !.leg = "down"]
<1>1. s.sd[t] \in Dialers
  BY DialersOf
<1>2. y \in Dialers /\ Tamer(s.sd[t], y)
  BY <1>1 DEF Tamer, Dialers
<1>3. [s EXCEPT !.sd[t].leg = "down"] = [s EXCEPT !.sd[t] = y]
  BY DEF Dials
<1> HIDE DEF y
<1> QED BY <1>2, <1>3, TameOne

LEMMA SetupInv ==
  ASSUME Inv(d), NEW t \in Targets, Setup(t), Duel(opts), opts \in DialOptions
  PROVE  Inv(d')
<1>0. {"failed", "no-answer", "progress", "completed"} \subseteq Results
      /\ {"sending", "ringing"} \subseteq Stages
  BY DEF Results, Stages
<1>1. CASE Place(t)
  BY <1>1, PlaceInv
<1>2. CASE EndpointCreated(t)
  <2>1. CASE d.sd[t].killed
    BY <1>2, <2>1, OverInv DEF EndpointCreated
  <2>2. CASE ~d.sd[t].killed
    <3>1. d.sd[t].at = "endpoint" /\ d' = At(d, t, "sending")
      BY <1>2, <2>2 DEF EndpointCreated
    <3>2. Inv(At(d, t, "sending"))
      BY <1>0, <2>2, <3>1, StageInv
    <3> QED BY <3>1, <3>2
  <2> QED BY <2>1, <2>2
<1>3. CASE EndpointFails(t)
  BY <1>0, <1>3, OverThenInv DEF EndpointFails
<1>4. CASE InviteSent(t)
  <2>1. d.sd[t].at = "sending" /\ d' = StatusChanged(At(d, t, "ringing"), t, "progress")
    BY <1>4 DEF InviteSent
  <2>2. Inv(At(d, t, "ringing"))
    BY <1>0, <2>1, StageInv
  <2>3. Inv(StatusChanged(At(d, t, "ringing"), t, "progress"))
    BY <1>0, <2>2, StatusChangedInv
  <2> QED BY <2>1, <2>3
<1>5. CASE InviteFails(t)
  BY <1>5, OverThenInv DEF InviteFails, CreateFailed
<1>6. CASE Connected(t)
  BY <1>6, ConnectedInv
<1>7. CASE ConnectFails(t)
  BY <1>0, <1>7, OverThenInv DEF ConnectFails
<1>8. CASE NothingToConfirm(t)
  BY <1>8, AcceptedInv DEF NothingToConfirm
<1>9. CASE Confirmed(t)
  <2>1. d.sd[t].at = "confirming" /\ d' \in {Accepted(d, t), Declined(At(d, t, "over"), t)}
    BY <1>9 DEF Confirmed
  <2>2. Inv(Accepted(d, t))
    BY <2>1, AcceptedInv
  <2>3. Inv(Declined(At(d, t, "over"), t))
    BY <2>1, OverThenInv
  <2> QED BY <2>1, <2>2, <2>3
<1>10. CASE ConfirmFails(t)
  <2> DEFINE r == Declined(At(d, t, "over"), t)
  <2>1. d.sd[t].at = "confirming" /\ d' = [r EXCEPT !.sd[t].leg = "down"]
    BY <1>10 DEF ConfirmFails
  <2>2. Inv(r) /\ r \in Dials
    BY <2>1, OverThenInv
  <2> HIDE DEF r
  <2> QED BY <2>1, <2>2, DownTame, TameInv
<1> QED BY <1>1, <1>2, <1>3, <1>4, <1>5, <1>6, <1>7, <1>8, <1>9, <1>10 DEF Setup

LEMMA CalleeInv ==
  ASSUME Inv(d), NEW t \in Targets, Callee(t), opts.prompt
  PROVE  Inv(d')
<1>0. {"failed", "no-answer", "progress", "completed"} \subseteq Results
  BY DEF Results
<1>1. CASE Provisional(t)
  BY <1>0, <1>1, StatusChangedInv DEF Provisional
<1>2. CASE Rejected(t)
  BY <1>0, <1>2, OverThenInv DEF Rejected
<1>3. CASE Answers(t)
  BY <1>3, AnswersInv
<1>4. CASE CalleeHangsUp(t)
  <2> DEFINE gone == [d EXCEPT !.sd[t].leg = "down"]
             s == IF d.sd[t].at \in {"confirming", "answered"}
                  THEN StatusChanged(gone, t, "completed") ELSE gone
  <2>1. d' \in {Kill(s), s}
    BY <1>4 DEF CalleeHangsUp
  <2>2. d \in Dials
    BY MostOf DEF Inv
  <2>3. Inv(gone)
    BY <2>2, DownTame, TameInv
  <2> HIDE DEF gone
  <2>4. Inv(s)
    BY <1>0, <2>3, StatusChangedInv
  <2> HIDE DEF s
  <2> QED BY <2>1, <2>4, KillInv
<1> QED BY <1>1, <1>2, <1>3, <1>4 DEF Callee

LEMMA VerbInv ==
  ASSUME Inv(d), Verb, Duel(opts), opts \in DialOptions
  PROVE  Inv(d')
<1>0. d \in Dials
  BY MostOf DEF Inv
<1>1. CASE Initialized
  <2>1. d.pc = "init" /\ d' \in {[d EXCEPT !.pc = "dialing"], [d EXCEPT !.pc = "teams"], Attempted(d)}
    BY <1>0, <1>1 DEF Initialized, Dials
  <2>2. Inv([d EXCEPT !.pc = "dialing"]) /\ Inv([d EXCEPT !.pc = "teams"]) /\ Inv(Attempted(d))
    BY <2>1, PcInv, AttemptedInv
  <2> QED BY <2>1, <2>2
<1>2. CASE ExecThrows
  <2>1. Inv(Kill(d))
    BY KillInv
  <2>2. Inv([Kill(d) EXCEPT !.pc = "done"])
    BY <2>1, PcInv
  <2> QED BY <1>2, <2>2 DEF ExecThrows
<1>3. CASE TeamsLookedUp
  BY <1>3, AttemptedInv DEF TeamsLookedUp
<1>4. CASE TaskDone
  BY <1>4, PcInv DEF TaskDone
<1>5. CASE ActionPerformed
  BY <1>5, PcInv DEF ActionPerformed
<1>6. CASE LoopResumes
  BY <1>6, LoopResumesInv
<1>7. ASSUME NEW t \in Targets, AnswerPropagated(t) PROVE Inv(d')
  <2> DEFINE s == [d EXCEPT !.selecting = @ \ {t}]
  <2>1. d' \in {Selected(s, t), Kill(Deaf(s, t))}
    BY <1>7 DEF AnswerPropagated
  <2>2. d.selecting \ {t} \in SUBSET Targets
    BY <1>0 DEF Dials
  <2>3. Tame(d, s) /\ Still(d, s)
    BY <1>0, <2>2, Aside
  <2> HIDE DEF s
  <2>4. Inv(s) /\ s \in Dials
    BY <2>3, TameInv DEF Tame
  <2>5. Inv(Selected(s, t))
    BY <2>4, SelectedInv DEF DialOptions
  <2>6. Inv(Kill(Deaf(s, t)))
    BY <2>4, DeafTame, TameInv, KillInv
  <2> QED BY <2>1, <2>5, <2>6
<1> QED BY <1>1, <1>2, <1>3, <1>4, <1>5, <1>6, <1>7 DEF Verb

LEMMA SessionInv ==
  ASSUME Inv(d), Session \/ Timers, Duel(opts), opts \in DialOptions
  PROVE  Inv(d')
<1>0. d \in Dials
  BY MostOf DEF Inv
<1>1. CASE SessionKills
  <2>1. d.kills + 1 \in 0..MaxKills
    BY <1>0, <1>1, DialAssumption DEF SessionKills, Dials
  <2>2. Inv([d EXCEPT !.kills = d.kills + 1])
    BY <1>0, <2>1, Aside, TameInv
  <2>3. [d EXCEPT !.kills = @ + 1] = [d EXCEPT !.kills = d.kills + 1]
    BY <1>0 DEF Dials
  <2> QED BY <1>1, <2>2, <2>3, KillInv DEF SessionKills
<1>2. CASE ReferReceived
  BY <1>0, <1>2, Aside, TameInv DEF ReferReceived
<1>3. CASE ReferReply
  BY <1>3, ReferReplyInv
<1>4. CASE Adulted
  <2>1. Inv([d EXCEPT !.refer = "none"])
    BY <1>0, Aside, TameInv
  <2> QED BY <1>4, <2>1, KillInv DEF Adulted
<1>5. CASE RingTimeout
  <2> DEFINE s == [d EXCEPT !.ring = FALSE]
  <2>1. Tame(d, s) /\ Still(d, s) /\ s.sd = d.sd
    BY <1>0, Aside
  <2>2. d' = KillOutdials(s, "ring")
    BY <1>5 DEF RingTimeout
  <2> HIDE DEF s
  <2>3. NoLookup(s)
    BY <1>5, <2>1 DEF RingTimeout, LookupsDone, Duel, NoLookup
  <2>4. Inv(s)
    BY <2>1, TameInv
  <2> QED BY <2>2, <2>3, <2>4, SweepInv
<1>6. CASE MaxCallDuration
  BY <1>6, KillInv DEF MaxCallDuration
<1> QED BY <1>1, <1>2, <1>3, <1>4, <1>5, <1>6 DEF Session, Timers

------------------------------------------------------------------------------
(* Theorems.                                                                *)

DialInv == opts \in Calls /\ Inv(d)
Duels == \A o \in Calls : Duel(o)

LEMMA InitDialInv == DialInit => DialInv
<1> SUFFICES ASSUME DialInit PROVE DialInv
  OBVIOUS
<1>1. \A t \in Targets : d.sd[t] = [at |-> "over", leg |-> "none", killed |-> FALSE,
                    canceled |-> FALSE, heard |-> FALSE, watched |-> FALSE, adult |-> FALSE]
  BY DEF DialInit
<1>2. \A t \in Targets : d.sd[t].at = "over" /\ ~InRace(d.sd[t]) /\ ~Joined(d.sd[t])
  BY <1>1 DEF InRace, Beaten, Joined
<1>3. d.dials = <<>> /\ d.loops = <<>> /\ d.winner = Nobody /\ ~d.done
  BY DEF DialInit
<1>4. d \in Dials
  BY DialAssumption DEF DialInit, Dials, Dialers, Stages, Results
<1>5. Early(d) /\ Reached(d) /\ Sweeps(d)
  BY <1>2, <1>3 DEF Early, Reached, Sweeps
<1>6. Frozen(d) /\ Listed(d)
  BY <1>2, <1>3 DEF Frozen, Listed, NoRepeats, ToSet, LateStages
<1>7. Called(d) /\ Owned(d) /\ Sole(d) /\ Closed(d)
  BY <1>2, <1>3 DEF Called, Owned, Sole, Closed
<1> QED BY <1>4, <1>5, <1>6, <1>7 DEF DialInv, Inv, Most, Core, DialInit

LEMMA NextDialInv ==
  ASSUME Duels, DialInv, [DialNext]_dialVars
  PROVE  DialInv'
<1>1. opts \in Calls /\ opts \in DialOptions /\ Duel(opts) /\ opts.prompt /\ Inv(d)
  BY DialAssumption DEF Duels, DialInv, Duel
<1>2. opts' = opts
  BY DEF DialNext, dialVars
<1>3. Inv(d')
  <2>1. CASE Verb
    BY <1>1, <2>1, VerbInv
  <2>2. CASE Session \/ Timers
    BY <1>1, <2>2, SessionInv
  <2>3. ASSUME NEW t \in Targets, Setup(t) \/ Callee(t) PROVE Inv(d')
    BY <1>1, <2>3, SetupInv, CalleeInv
  <2>4. CASE UNCHANGED dialVars
    BY <1>1, <2>4 DEF dialVars
  <2> QED BY <2>1, <2>2, <2>3, <2>4 DEF DialNext
<1>4. Inv(d)'
  BY <1>2, <1>3 DEF Inv, Most, Core, Early, Reached, Sweeps, Frozen, NoLookup, Listed, Called,
     Owned, Closed, Sole
<1> QED BY <1>1, <1>2, <1>4 DEF DialInv

(* At most one callee is connected to the caller, if there are two at most  *)
(* and the caller need not be answered first.                               *)
THEOREM OneWinnerCorrect ==
  ASSUME Duels
  PROVE  DialSpec => []OneWinner
<1>1. DialInv => OneWinner
  <2> SUFFICES ASSUME DialInv, NEW t \in Targets, NEW u \in Targets,
                      Chosen(t), Chosen(u), Up(t), Up(u), t # u
               PROVE  FALSE
    BY DEF OneWinner
  <2>1. Joined(d.sd[t]) /\ Joined(d.sd[u])
    BY DEF Chosen, Up, Joined
  <2>2. Beaten(d.sd[u])
    BY <2>1 DEF DialInv, Inv, Sole
  <2> QED BY <2>1, <2>2 DEF Joined, Beaten
<1> QED BY <1>1, InitDialInv, NextDialInv, PTL DEF DialSpec

(* The callee who was connected is hung up when the verb ends, if moreover  *)
(* no two callees are asked to confirm.                                     *)
THEOREM ChosenLegEndsCorrect ==
  ASSUME Duels, \A o \in Calls : Plain(o)
  PROVE  DialSpec => []ChosenLegEnds
<1>1. DialInv => ChosenLegEnds
  <2> SUFFICES ASSUME DialInv, d.done, NEW t \in Targets, Chosen(t), Up(t)
               PROVE  FALSE
    BY DEF ChosenLegEnds
  <2>1. Joined(d.sd[t]) /\ ~d.sd[t].adult
    BY DEF Chosen, Up, Joined
  <2>2. Plain(opts)
    BY DEF DialInv
  <2> QED BY <2>1, <2>2, MostOf DEF DialInv, Inv, Owned
<1> QED BY <1>1, InitDialInv, NextDialInv, PTL DEF DialSpec

================================================================================
