--------------------------------- MODULE Queue ---------------------------------
(****************************************************************************)
(* lib/tasks/enqueue.js and lib/tasks/dequeue.js: callers put their url in  *)
(* a sorted set in redis and wait; an agent's verb pops one, tells it over  *)
(* http to leave the queue, is told when the caller's leg is ready (moved   *)
(* by REFER if it is on another server), and bridges.  Either side tells    *)
(* the other when it hangs up.                                              *)
(*                                                                          *)
(* Requests to redis and posts are steps of their own, so calls are killed  *)
(* and timers fire between them.  A post and its answer are one step.  Left *)
(* out: the order of the queue (any url may be popped, as with callSid),    *)
(* results reported to the action hooks, what the wait hook plays.          *)
(****************************************************************************)
EXTENDS Naturals, FiniteSets

CONSTANTS
  Callers,  \* calls that enqueue
  Agents,   \* calls that dequeue
  Remote,   \* the callers on another server than the agents
  Untimed,  \* the agents whose verb has no timeout
  Calms     \* the values of calm to be considered

None == "none"

ASSUME QueueAssumption ==
  /\ Remote \subseteq Callers /\ Untimed \subseteq Agents
  /\ Calms \subseteq BOOLEAN /\ None \notin Callers \cup Agents

VARIABLES
  calm,   \* calls end and timers fire only when no request of theirs pends,
          \* and no agent's before the first look into the queue, after 1 s
  queue,  \* the sorted set
  caller, \* see CallerStates
  agent   \* see AgentStates

(* killed  - kill() has run           moved - transferred: bridgeNow        *)
(* removing, counting - awaits of the 'kill' listener and notifyQueueEvent  *)
(* dequeued - this.dequeued           ready - "ready" is to be posted       *)
(* told    - the partner's "hangup" is on its way                           *)
(* hook    - the wait hook                                                  *)
CallerStates ==
  [at : {"out", "adding", "added", "waiting", "moving", "bridged", "over"},
   killed : BOOLEAN, moved : BOOLEAN, removing : BOOLEAN, counting : BOOLEAN,
   dequeued : BOOLEAN, ready : BOOLEAN, told : BOOLEAN,
   hook : {"off", "asked"}, partner : Agents \cup {None}]

(* unbridged - ep.bridge() failed, the verb still waits for its timer       *)
(* loop    - that of _getMemberFromQueue, which outlives its promise;       *)
(*           "first" is the second before it looks into the queue           *)
(* post    - "dequeue" is to be posted      bridged - state is Bridged      *)
AgentStates ==
  [at : {"out", "polling", "posting", "expecting", "bridging", "unbridged",
         "bridged", "over"},
   loop : {"off", "first", "asleep", "asking"}, killed : BOOLEAN, post : BOOLEAN,
   bridged : BOOLEAN, told : BOOLEAN, partner : Callers \cup {None}]

TypeOK ==
  /\ calm \in BOOLEAN /\ queue \subseteq Callers
  /\ caller \in [Callers -> CallerStates] /\ agent \in [Agents -> AgentStates]

vars == <<calm, queue, caller, agent>>

Init ==
  /\ calm \in Calms /\ queue = {}
  /\ caller = [c \in Callers |->
       [at |-> "out", killed |-> FALSE, moved |-> FALSE, removing |-> FALSE,
        counting |-> FALSE, dequeued |-> FALSE, ready |-> FALSE, told |-> FALSE,
        hook |-> "off", partner |-> None]]
  /\ agent = [a \in Agents |->
       [at |-> "out", loop |-> "off", killed |-> FALSE, post |-> FALSE,
        bridged |-> FALSE, told |-> FALSE, partner |-> None]]

CallerGoes(c, fields) == caller' = [caller EXCEPT ![c] = fields]
AgentGoes(a, fields) == agent' = [agent EXCEPT ![a] = fields]
Enqueued(c) == caller[c].at \notin {"out", "over"} \* its current task
Dequeuing(a) == agent[a].at \notin {"out", "over"}

------------------------------------------------------------------------------
(* The caller: exec(), _addToQueue() and _doWait().                         *)
Enqueue(c) ==
  /\ caller[c].at = "out"
  /\ CallerGoes(c, [caller[c] EXCEPT !.at = "adding"])
  /\ UNCHANGED <<calm, queue, agent>>

AddToSortedSet(c) ==
  /\ caller[c].at = "adding"
  /\ queue' = queue \cup {c}
  /\ CallerGoes(c, [caller[c] EXCEPT !.at = "added"])
  /\ UNCHANGED <<calm, agent>>

(* The length of the queue is back; from now on there are listeners.        *)
DoWait(c) ==
  /\ caller[c].at = "added"
  /\ CallerGoes(c, [caller[c] EXCEPT !.at = "waiting",
                      !.hook = IF caller[c].killed THEN "off" ELSE "asked"])
  /\ UNCHANGED <<calm, queue, agent>>

(* kill(), with its two listeners: _doWait()'s takes the url out of the     *)
(* queue unless "dequeue" was dealt with to the end, _bridgeLocal()'s tells *)
(* the partner.                                                             *)
Parted(r) == [r EXCEPT !.at = "over", !.hook = "off"]

Killed(r) ==
  LET removes == r.at \in {"waiting", "moving", "bridged"} /\ ~r.moved /\ ~r.dequeued
      k == [r EXCEPT !.killed = TRUE, !.removing = removes]
  IN  IF r.at = "bridged" \/ (r.at = "waiting" /\ ~removes) THEN Parted(k) ELSE k

Tells(c) ==
  IF caller[c].at = "bridged" THEN [agent EXCEPT ![caller[c].partner].told = TRUE]
  ELSE agent

KillCaller(c) == CallerGoes(c, Killed(caller[c])) /\ agent' = Tells(c)

(* No request of caller c pends.                                            *)
Quiet(c) ==
  \/ caller[c].at = "waiting" /\ c \in queue
  \/ /\ caller[c].at = "bridged" /\ ~caller[c].counting
     /\ agent[caller[c].partner].at \in {"unbridged", "bridged", "over"}

CallerHangsUp(c) ==
  /\ Enqueued(c) /\ ~caller[c].killed /\ (calm => Quiet(c))
  /\ KillCaller(c)
  /\ UNCHANGED <<calm, queue>>

(* The wait hook replies; a "leave" among its verbs kills the verb, even    *)
(* if the caller was dequeued since it was asked.  It is asked again only   *)
(* while the caller waits.                                                  *)
HookReplies(c) ==
  /\ caller[c].hook = "asked"
  /\ \/ /\ caller[c].at # "waiting" \/ caller[c].killed
        /\ CallerGoes(c, [caller[c] EXCEPT !.hook = "off"])
        /\ UNCHANGED agent
     \/ /\ ~caller[c].killed /\ (calm => Quiet(c) /\ caller[c].at = "waiting")
        /\ KillCaller(c)
  /\ UNCHANGED <<calm, queue>>

RemoveFromQueue(c) ==
  LET r == [caller[c] EXCEPT !.removing = FALSE] IN
  /\ caller[c].removing
  /\ queue' = queue \ {c}
  /\ CallerGoes(c, IF r.at = "waiting" THEN Parted(r) ELSE r)
  /\ UNCHANGED <<calm, agent>>

------------------------------------------------------------------------------
(* The caller is dequeued: notifyQueueEvent(), _doBridge(), _bridgeLocal(). *)
(* Without a listener the event is lost.                                    *)
Bridging(r, a) ==
  [r EXCEPT !.partner = a, !.at = "bridged", !.ready = TRUE]

DequeuedUnlessPlaying(c, a) ==
  LET r == [caller[c] EXCEPT !.counting = TRUE] IN
  IF caller[c].moved THEN caller[c]
  ELSE IF r.at # "waiting" \/ r.hook # "off" THEN r
  ELSE IF c \in Remote THEN [r EXCEPT !.partner = a, !.at = "moving"]
  ELSE Bridging(r, a)

Dequeued(c, a) ==
  LET r == [caller[c] EXCEPT !.counting = TRUE] IN
  IF caller[c].moved THEN caller[c]
  ELSE IF r.at # "waiting" THEN r
  ELSE IF c \in Remote THEN [r EXCEPT !.partner = a, !.at = "moving"]
  ELSE Bridging(r, a)

CountedMembers(c) ==
  /\ caller[c].counting
  /\ CallerGoes(c, [caller[c] EXCEPT !.counting = FALSE, !.dequeued = TRUE])
  /\ UNCHANGED <<calm, queue, agent>>

(* The new session on the agent's server begins with _doBridge(); the old   *)
(* one gets a BYE, and may still report and take the url out.               *)
ReferSucceeds(c) ==
  LET r == caller[c] IN
  /\ r.at = "moving" /\ ~r.killed
  /\ CallerGoes(c, Bridging([r EXCEPT !.moved = TRUE, !.hook = "off",
                                      !.removing = ~r.dequeued /\ ~r.counting],
                            r.partner))
  /\ UNCHANGED <<calm, queue, agent>>

ReferFails(c) ==
  /\ caller[c].at = "moving"
  /\ CallerGoes(c, Parted(caller[c]))
  /\ UNCHANGED <<calm, queue, agent>>

(* "ready" is posted to the agent; if it is refused exec() throws.          *)
PostReady(c) ==
  LET a == caller[c].partner
      r == [caller[c] EXCEPT !.ready = FALSE] IN
  /\ caller[c].ready
  /\ IF Dequeuing(a)
     THEN /\ CallerGoes(c, r)
          /\ AgentGoes(a, [agent[a] EXCEPT !.partner = c,
               !.at = IF @ \in {"posting", "expecting"} THEN "bridging" ELSE @])
     ELSE CallerGoes(c, Parted(r)) /\ UNCHANGED agent
  /\ UNCHANGED <<calm, queue>>

(* The agent's "hangup" arrives.                                            *)
CallerTold(c) ==
  /\ caller[c].told
  /\ LET r == [caller[c] EXCEPT !.told = FALSE] IN
     CallerGoes(c, IF r.at = "bridged" THEN Parted(r) ELSE r)
  /\ UNCHANGED <<calm, queue, agent>>

------------------------------------------------------------------------------
(* The agent: exec() and _getMemberFromQueue().                             *)
Dequeue(a) ==
  /\ agent[a].at = "out"
  /\ AgentGoes(a, [agent[a] EXCEPT !.at = "polling", !.loop = "first"])
  /\ UNCHANGED <<calm, queue, caller>>

Expired(a) == agent[a].at = "over" \* before a member was found

(* The first look into the queue is unconditional, whatever happened in the *)
(* second before it; later ones are not.                                    *)
WakesUp(a) ==
  /\ agent[a].loop \in {"first", "asleep"}
  /\ AgentGoes(a, [agent[a] EXCEPT !.loop =
       IF @ = "asleep" /\ (agent[a].killed \/ Expired(a)) THEN "off" ELSE "asking"])
  /\ UNCHANGED <<calm, queue, caller>>

(* What is popped by a loop whose promise is resolved is lost.              *)
Found(r, c) ==
  IF r.at = "polling"
  THEN [r EXCEPT !.loop = "off", !.partner = c, !.at = "posting", !.post = TRUE]
  ELSE [r EXCEPT !.loop = "off"]

RetrieveUnremoved(a) ==
  /\ agent[a].loop = "asking"
  /\ \/ AgentGoes(a, [agent[a] EXCEPT !.loop = "asleep"])
     \/ \E c \in queue : AgentGoes(a, Found(agent[a], c))
  /\ UNCHANGED <<calm, queue, caller>>

(* The request may fail, and a wanted callSid may not be in the queue.      *)
Retrieve(a) ==
  /\ agent[a].loop = "asking"
  /\ \/ /\ UNCHANGED queue
        /\ AgentGoes(a, [agent[a] EXCEPT !.loop = "asleep"])
     \/ \E c \in queue :
          /\ calm => caller[c].at = "waiting" /\ ~caller[c].killed
          /\ queue' = queue \ {c}
          /\ AgentGoes(a, Found(agent[a], c))
  /\ UNCHANGED <<calm, caller>>

Timeout(a) ==
  /\ agent[a].at = "polling" /\ a \notin Untimed
  /\ calm => agent[a].loop = "asleep"
  /\ AgentGoes(a, [agent[a] EXCEPT !.at = "over"])
  /\ UNCHANGED <<calm, queue, caller>>

------------------------------------------------------------------------------
(* _dequeueUrl() and notifyQueueEvent().  The post is under way when the    *)
(* verb is killed, too.                                                     *)
PostDequeue(a) ==
  LET c == agent[a].partner
      r == [agent[a] EXCEPT !.post = FALSE] IN
  /\ agent[a].post
  /\ IF Enqueued(c)
     THEN /\ CallerGoes(c, Dequeued(c, a))
          /\ AgentGoes(a, [r EXCEPT !.at = IF @ = "posting" THEN "expecting" ELSE @])
     ELSE AgentGoes(a, [r EXCEPT !.at = "over"]) /\ UNCHANGED caller
  /\ UNCHANGED <<calm, queue>>

(* ep.bridge() fails with a dead leg, and may fail with a live one: nobody  *)
(* catches it, and the verb waits for its timer.                            *)
Bridge(a) ==
  LET c == agent[a].partner IN
  /\ agent[a].at = "bridging"
  /\ \/ /\ caller[c].at = "bridged" /\ ~caller[c].killed
        /\ AgentGoes(a, [agent[a] EXCEPT !.at = "bridged", !.bridged = TRUE])
     \/ AgentGoes(a, [agent[a] EXCEPT !.at = "unbridged"])
  /\ UNCHANGED <<calm, queue, caller>>

(* In 20 seconds everything else has happened, or does not happen.          *)
BridgeTimeout(a) ==
  /\ agent[a].at \in {"expecting", "bridging", "unbridged"}
  /\ calm => agent[a].at = "unbridged" \/ caller[agent[a].partner].at = "over"
  /\ AgentGoes(a, [agent[a] EXCEPT !.at = "over"])
  /\ UNCHANGED <<calm, queue, caller>>

(* kill(): the partner is told only once the legs are bridged; a verb that  *)
(* still polls has no listener, and ends with its timer if it has one.      *)
QuietAgent(a) ==
  \/ agent[a].at = "bridged" /\ ~caller[agent[a].partner].counting
  \/ agent[a].at = "polling" /\ agent[a].loop = "asleep"

KilledAgent(r) ==
  [r EXCEPT !.killed = TRUE, !.at = IF @ = "polling" THEN @ ELSE "over"]

KilledSilently(a) == UNCHANGED caller

TellsCaller(a) ==
  IF agent[a].bridged THEN caller' = [caller EXCEPT ![agent[a].partner].told = TRUE]
  ELSE UNCHANGED caller

AgentHangsUp(a) ==
  /\ Dequeuing(a) /\ ~agent[a].killed /\ (calm => QuietAgent(a))
  /\ AgentGoes(a, KilledAgent(agent[a]))
  /\ TellsCaller(a)
  /\ UNCHANGED <<calm, queue>>

AgentTold(a) ==
  /\ agent[a].told
  /\ LET r == [agent[a] EXCEPT !.told = FALSE] IN
     AgentGoes(a, IF r.at \in {"posting", "expecting", "bridging", "unbridged", "bridged"}
                  THEN [r EXCEPT !.at = "over"] ELSE r)
  /\ UNCHANGED <<calm, queue, caller>>

------------------------------------------------------------------------------
CallerStep(c) ==
  \/ AddToSortedSet(c) \/ DoWait(c) \/ RemoveFromQueue(c) \/ CountedMembers(c)
  \/ ReferSucceeds(c) \/ ReferFails(c) \/ PostReady(c) \/ CallerTold(c)

AgentStep(a) ==
  \/ WakesUp(a) \/ Retrieve(a) \/ Timeout(a) \/ PostDequeue(a) \/ Bridge(a)
  \/ BridgeTimeout(a) \/ AgentTold(a)

Next ==
  \/ \E c \in Callers : CallerStep(c) \/ Enqueue(c) \/ CallerHangsUp(c) \/ HookReplies(c)
  \/ \E a \in Agents : AgentStep(a) \/ Dequeue(a) \/ AgentHangsUp(a)

Spec == Init /\ [][Next]_vars

(* Replies and posts arrive, timers fire.                                   *)
FairSpec ==
  /\ Spec
  /\ \A c \in Callers : WF_vars(CallerStep(c))
  /\ \A a \in Agents : WF_vars(PostDequeue(a)) /\ WF_vars(Bridge(a))
                       /\ WF_vars(BridgeTimeout(a)) /\ WF_vars(AgentTold(a))

------------------------------------------------------------------------------
(* A caller is popped by one agent, and no two agents deal with him,        *)
(* whoever hangs up and whatever timer fires meanwhile.                     *)
OnePartner ==
  \A a, b \in Agents :
    (/\ Dequeuing(a) /\ Dequeuing(b)
     /\ agent[a].partner = agent[b].partner /\ agent[a].partner # None) => a = b

(* Nobody is forgotten: a caller who waits is in the queue, or an agent has *)
(* taken the url and is about to post to it.  It does not hold for agents   *)
(* that hang up or time out while they pop a url, nor in the second before  *)
(* the first pop (a timeout of 1 s or less: the promise is resolved and the *)
(* popped url dropped), nor for a caller popped before there are listeners. *)
WaitingIsQueued ==
  \A c \in Callers :
    (calm /\ caller[c].at = "waiting" /\ ~caller[c].killed)
      => c \in queue \/ \E a \in Agents : agent[a].post /\ agent[a].partner = c

(* Once an agent and a caller have been brought together the end of the     *)
(* caller's verb is the end of the agent's, and once their legs are bridged *)
(* the end of the agent's is the end of the caller's.  If ep.bridge() fails *)
(* the agent ends by the timer and tells nobody, and the caller stays.      *)
PartnersPart ==
  \A a \in Agents, c \in Callers :
    /\ (calm /\ agent[a].partner = c /\ caller[c].at = "over") ~> (agent[a].at = "over")
    /\ (calm /\ agent[a].partner = c /\ agent[a].at = "over" /\ agent[a].bridged)
         ~> (caller[c].at = "over")
==============================================================================
