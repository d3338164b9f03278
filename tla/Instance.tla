------------------------------- MODULE Instance -------------------------------
(***************************************************************************)
(* A feature server instance (app.js): inbound calls on their way to a     *)
(* session, an outbound call by REST, the tracker that counts them and the *)
(* auto scaling group that wants the instance to go.                       *)
(***************************************************************************)
EXTENDS Middleware, OutboundCall

(* What may come in a behaviour: inbound calls, an outbound call with or    *)
(* without answering machine detection, events of the life cycle.           *)
ASSUME ScenarioAssumption ==
  /\ Scenarios \subseteq
       [inbound : SUBSET Calls, outbound : {"none", "plain", "amd"},
        lifeCycle : {"none", "scaleIn", "standby", "signal"}]
  /\ MaxStandby \in Nat

vars == <<plan, tracked, lc, pings, sbc, invite, out, amd>>

TypeOK ==
  /\ plan \in Scenarios
  /\ tracked \subseteq Calls \cup {"rest"}
  /\ lc \in LifeCycles
  /\ pings \subseteq {"open", "closed"} /\ sbc \in {"open", "closed"}
  /\ invite \in [Calls -> Invites]
  /\ out \in OutboundStates
  /\ amd \in AmdStates

Init ==
  /\ plan \in Scenarios
  /\ LifeInit /\ PipelineInit /\ OutboundInit

Next ==
  /\ UNCHANGED plan
  /\ \/ LifeStep /\ UNCHANGED <<tracked, invite, out, amd>>
     \/ (\E c \in Calls : PipelineStep(c)) /\ UNCHANGED <<lifeVars, out, amd>>
     \/ OutboundStep /\ UNCHANGED <<lifeVars, invite>>

Spec == Init /\ [][Next]_vars
FairSpec == Spec /\ LifeFairness /\ PipelineFairness /\ OutboundFairness

------------------------------------------------------------------------------
(* Properties.                                                              *)

(* Once the instance dries up, for a scale-in, in standby or by a signal,   *)
(* the SBC learns it, although pings overtake each other.                   *)
SbcLearns == lc.dryUpCalls ~> (sbc = "closed" \/ ~lc.dryUpCalls)

(* lib/utils/sbc-pinger.js:77: "calls in progress; scale-in will complete   *)
(* when they are done".                                                     *)
ScaleInCompletes == (lc.check = "done" /\ tracked = {}) ~> lc.completed
==============================================================================
