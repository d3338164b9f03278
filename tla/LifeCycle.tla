------------------------------- MODULE LifeCycle ------------------------------
(***************************************************************************)
(* The life cycle of a feature server instance: the registry of sessions   *)
(* (lib/session/session-tracker.js), the notifications of the auto scaling *)
(* group (lib/utils/aws-sns-lifecycle.js) and the OPTIONS pings that tell  *)
(* the SBCs whether to send it calls (lib/utils/sbc-pinger.js).            *)
(***************************************************************************)
EXTENDS Naturals, FiniteSets

CONSTANTS
  Scenarios,   \* what may happen in a behaviour, see ScenarioAssumption
  MaxStandby   \* bound on the answers that tell of a new LifecycleState

VARIABLES
  plan,     \* the scenario of this behaviour
  tracked,  \* SessionTracker.sessions
  lc,       \* the notifier and the flags of sbc-pinger.js
  pings,    \* the X-FS-Status of the OPTIONS requests in flight
  sbc       \* the status of this instance as the SBC knows it

lifeVars == <<lc, pings, sbc>>

LifecycleStates == {"InService", "Standby", "other"}
Unknown == "unknown"

(* The notifier: sbc-pinger.js listens to it, how far its subscription is   *)
(* confirmed, lifecycleState.  operationalState, dryUpCalls, how far the    *)
(* handler of the scale-in notification has got, completeScaleIn() was      *)
(* called, the changes of lifecycleState so far.                            *)
LifeCycles ==
  [heard : BOOLEAN, sub : {"none", "confirming", "describing", "confirmed"},
   state : LifecycleStates \cup {Unknown},
   scaleIn : BOOLEAN, dryUpCalls : BOOLEAN,
   check : {"none", "alert", "timer", "done"}, completed : BOOLEAN,
   changes : 0..MaxStandby]

InService ==
  [heard |-> FALSE, sub |-> "none", state |-> Unknown,
   scaleIn |-> FALSE, dryUpCalls |-> FALSE, check |-> "none",
   completed |-> FALSE, changes |-> 0]

LifeInit ==
  /\ tracked = {}
  /\ lc = InService
  /\ pings = {} /\ sbc = "open"

(* Session tracker.  remove() emits 'idle' when the last session goes; its  *)
(* handler in app.js reads operationalState of the emitter that             *)
(* sbc-pinger.js returned before the notifier took its place, and does      *)
(* nothing.                                                                 *)
Add(s) == tracked' = tracked \cup {s}
Remove(s) == tracked' = tracked \ {s}

(* Mutant: the ping tells only that there is a media server.                *)
AlwaysOpen(l) == "open"

FsStatus(l) == IF l.dryUpCalls THEN "closed" ELSE "open"
PingProxies(l) == pings' = pings \cup {FsStatus(l)}

HasNotifier == plan.lifeCycle \in {"scaleIn", "standby"}

(* init() and subscribe() have returned: from now on sbc-pinger.js listens. *)
(* It never does when no port is free.                                      *)
NotifierCreated ==
  /\ HasNotifier /\ ~lc.heard
  /\ lc' = [lc EXCEPT !.heard = TRUE]
  /\ UNCHANGED <<pings, sbc>>

(* _handlePost, SubscriptionConfirmation: the SubscribeURL is fetched, then *)
(* the group described; a failure is answered with 500.                     *)
SubscriptionConfirmation ==
  /\ HasNotifier
  /\ \/ /\ lc.sub = "none"
        /\ lc' = [lc EXCEPT !.sub = "confirming"]
     \/ /\ lc.sub = "confirming"
        /\ \E next \in {"describing", "none"} : lc' = [lc EXCEPT !.sub = next]
     \/ /\ lc.sub = "describing"
        /\ \E state \in LifecycleStates \cup {lc.state} :
             lc' = [lc EXCEPT !.sub = "confirmed", !.state = state]
  /\ UNCHANGED <<pings, sbc>>

(* _handlePost, Notification: the auto scaling group terminates this        *)
(* instance.                                                                *)
ScaleIn ==
  /\ plan.lifeCycle = "scaleIn" /\ lc.sub # "none" /\ ~lc.scaleIn
  /\ lc' = [lc EXCEPT !.scaleIn = TRUE, !.dryUpCalls = lc.heard,
                      !.check = IF lc.heard THEN "alert" ELSE "none"]
  /\ UNCHANGED <<pings, sbc>>

(* writeSystemAlerts() has returned: ping, and look at the calls in 5 s.    *)
AlertWritten ==
  /\ lc.check = "alert"
  /\ lc' = [lc EXCEPT !.check = "timer"]
  /\ PingProxies(lc)
  /\ UNCHANGED sbc

CheckCalls ==
  /\ lc.check = "timer"
  /\ lc' = [lc EXCEPT !.check = "done", !.completed = (tracked = {})]
  /\ UNCHANGED <<pings, sbc>>

(* SIGHUP: describeInstance() tells of a LifecycleState that is news.  It   *)
(* is that of the first instance of the first group.                        *)
Standby ==
  /\ plan.lifeCycle = "standby" /\ lc.heard /\ lc.changes < MaxStandby
  /\ \E state \in LifecycleStates \ {lc.state} :
       /\ lc' = [lc EXCEPT !.state = state, !.changes = @ + 1,
                           !.dryUpCalls = IF state = "other" THEN @ ELSE state = "Standby"]
       /\ IF state = "other" THEN UNCHANGED pings ELSE PingProxies(lc')
  /\ UNCHANGED sbc

(* SIGUSR1, on an instance that is not in an auto scaling group.            *)
DryUp ==
  /\ plan.lifeCycle = "signal" /\ ~lc.dryUpCalls
  /\ lc' = [lc EXCEPT !.dryUpCalls = TRUE]
  /\ PingProxies(lc')
  /\ UNCHANGED sbc

(* setInterval: a ping every OPTIONS_PING_INTERVAL.                         *)
PingTimer ==
  /\ plan.lifeCycle # "none"
  /\ FsStatus(lc) \notin pings
  /\ PingProxies(lc)
  /\ UNCHANGED <<lc, sbc>>

(* A ping reaches the SBC, not always in the order in which they were sent. *)
PingArrives ==
  \E status \in pings :
    /\ sbc' = status
    /\ pings' = pings \ {status}
    /\ UNCHANGED lc

LifeStep ==
  \/ NotifierCreated \/ SubscriptionConfirmation
  \/ ScaleIn \/ AlertWritten \/ CheckCalls \/ Standby \/ DryUp
  \/ PingTimer \/ PingArrives

LifeFairness ==
  /\ WF_lifeVars(AlertWritten) /\ WF_lifeVars(CheckCalls)
  /\ WF_lifeVars(PingTimer)
  /\ \A status \in {"open", "closed"} :
       SF_lifeVars(status \in pings /\ sbc' = status
                     /\ pings' = pings \ {status} /\ UNCHANGED lc)
==============================================================================
