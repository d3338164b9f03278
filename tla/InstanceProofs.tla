---------------------------- MODULE InstanceProofs ----------------------------
(***************************************************************************)
(* Proofs about an instance: the one verdict of the answering machine      *)
(* detector, and the INVITEs that were canceled in the pipeline.           *)
(***************************************************************************)
EXTENDS Instance, TLAPS

(* Why a detector decides once: the timers that decide run only while there *)
(* is no verdict, and nothing decides before startAmd() has set them.       *)
DetectorInv(a) ==
  /\ a \in AmdStates
  /\ a.timers \cap {"noSpeech", "decision"} # {} => a.decision = "none"
  /\ a.decision = "none" => a.verdicts = 0
  /\ a.verdicts <= 1
  /\ a.starting => a.decision = "none" /\ a.stt = "off" /\ a.timers = {}

LEMMA NoAmdInv == DetectorInv(NoAmd) /\ DetectorInv(Started)
<1>1. NoAmd \in AmdStates
  <2>1. {} \in SUBSET AmdTimers /\ 0 \in 0..2
    OBVIOUS
  <2> QED BY <2>1 DEF NoAmd, AmdStates, Decisions
<1>2. /\ Started \in AmdStates /\ Started.timers = {} /\ Started.stt = "off"
      /\ Started.decision = "none" /\ Started.verdicts = 0
  <2>1. Started = [NoAmd EXCEPT !.on = TRUE, !.starting = TRUE]
    BY DEF Started
  <2>2. /\ NoAmd.timers = {} /\ NoAmd.stt = "off" /\ NoAmd.decision = "none"
        /\ NoAmd.verdicts = 0
    BY DEF NoAmd
  <2> QED BY <1>1, <2>1, <2>2 DEF AmdStates
<1> QED BY <1>1, <1>2 DEF DetectorInv, NoAmd

(* What an update leaves of a detector.                                     *)
LEMMA TimersOf ==
  ASSUME NEW a \in AmdStates, NEW ts
  PROVE  /\ Without(a, ts) \in AmdStates
         /\ Without(a, ts).timers = a.timers \ ts
         /\ Without(a, ts).decision = a.decision
         /\ Without(a, ts).verdicts = a.verdicts
         /\ Without(a, ts).on = a.on
         /\ Without(a, ts).starting = a.starting
         /\ Without(a, ts).stt = a.stt
BY DEF Without, AmdStates

LEMMA DecisionOf ==
  ASSUME NEW a \in AmdStates, NEW d \in Decisions, a.verdicts = 0
  PROVE  /\ Decided(a, d) \in AmdStates
         /\ Decided(a, d).decision = d
         /\ Decided(a, d).verdicts = 1
         /\ Decided(a, d).timers = a.timers
         /\ Decided(a, d).on = a.on
         /\ Decided(a, d).starting = a.starting
<1>1. Decided(a, d) = [a EXCEPT !.decision = d, !.verdicts = 1]
  BY DEF Decided, AmdStates
<1>2. 1 \in 0..2
  OBVIOUS
<1> QED BY <1>1, <1>2 DEF AmdStates

LEMMA StopOf ==
  ASSUME NEW a \in AmdStates
  PROVE  /\ StopAmd(a) \in AmdStates
         /\ StopAmd(a).timers = IF a.on THEN {} ELSE a.timers
         /\ StopAmd(a).decision = a.decision
         /\ StopAmd(a).verdicts = a.verdicts
         /\ StopAmd(a).starting = a.starting
BY DEF StopAmd, AmdStates

(* stopAmd(), from whatever handler, keeps the invariant.                   *)
LEMMA StopAmdInv ==
  ASSUME NEW a, DetectorInv(a) PROVE DetectorInv(StopAmd(a))
BY DEF DetectorInv, StopAmd, AmdStates, AmdTimers

LEMMA ConfiguredInv ==
  ASSUME NEW a, DetectorInv(a), a.starting PROVE DetectorInv(Configured(a))
BY DEF DetectorInv, Configured, AmdStates, AmdTimers

(* After a verdict all is well once both timers that decide have gone.      *)
LEMMA AfterVerdict ==
  ASSUME NEW b \in AmdStates, b.verdicts = 1, b.decision # "none", ~b.starting,
         b.timers \cap {"noSpeech", "decision"} = {}
  PROVE  DetectorInv(b)
BY DEF DetectorInv

(* A timer that fires decides when no other has, or stops the detector.     *)
LEMMA TimerInv ==
  ASSUME NEW a, DetectorInv(a), NEW t \in AmdTimers, Due(a, t)
  PROVE  DetectorInv(OnTimer(a, t))
<1>0. t \in a.timers /\ a \in AmdStates /\ ~a.starting
  BY DEF Due, DetectorInv
<1>1. CASE t = "noSpeech"
  <2>1. a.verdicts = 0
    BY <1>0, <1>1 DEF DetectorInv
  <2> DEFINE w == Without(a, {"noSpeech"})
             b == Decided(w, "noSpeech")
             s == StopAmd(b)
             r == Without(s, {"decision"})
  <2>2. /\ w \in AmdStates /\ w.verdicts = 0 /\ ~w.starting
        /\ w.timers = a.timers \ {"noSpeech"}
    BY <1>0, <2>1, TimersOf
  <2> HIDE DEF w
  <2>3. /\ b \in AmdStates /\ b.verdicts = 1 /\ b.decision = "noSpeech"
        /\ ~b.starting /\ b.timers = a.timers \ {"noSpeech"}
    BY <2>2, DecisionOf DEF Decisions
  <2> HIDE DEF b
  <2>4. /\ s \in AmdStates /\ s.verdicts = 1 /\ s.decision = "noSpeech"
        /\ ~s.starting /\ s.timers \subseteq a.timers \ {"noSpeech"}
    BY <2>3, StopOf
  <2> HIDE DEF s
  <2>5. /\ r \in AmdStates /\ r.verdicts = 1 /\ r.decision = "noSpeech"
        /\ ~r.starting /\ r.timers \cap {"noSpeech", "decision"} = {}
    BY <2>4, TimersOf
  <2>6. OnTimer(a, t) = r
    BY <1>1 DEF OnTimer, OnNoSpeechTimeout, r, s, b, w
  <2> HIDE DEF r
  <2> QED BY <2>5, <2>6, AfterVerdict
<1>2. CASE t = "decision"
  <2>1. a.verdicts = 0
    BY <1>0, <1>2 DEF DetectorInv
  <2> DEFINE w == Without(a, {"decision"})
             b == Decided(w, "timeout")
             s == StopAmd(b)
             r == Without(s, {"noSpeech"})
  <2>2. /\ w \in AmdStates /\ w.verdicts = 0 /\ ~w.starting
        /\ w.timers = a.timers \ {"decision"}
    BY <1>0, <2>1, TimersOf
  <2> HIDE DEF w
  <2>3. /\ b \in AmdStates /\ b.verdicts = 1 /\ b.decision = "timeout"
        /\ ~b.starting /\ b.timers = a.timers \ {"decision"}
    BY <2>2, DecisionOf DEF Decisions
  <2> HIDE DEF b
  <2>4. /\ s \in AmdStates /\ s.verdicts = 1 /\ s.decision = "timeout"
        /\ ~s.starting /\ s.timers \subseteq a.timers \ {"decision"}
    BY <2>3, StopOf
  <2> HIDE DEF s
  <2>5. /\ r \in AmdStates /\ r.verdicts = 1 /\ r.decision = "timeout"
        /\ ~r.starting /\ r.timers \cap {"noSpeech", "decision"} = {}
    BY <2>4, TimersOf
  <2>6. OnTimer(a, t) = r
    BY <1>2 DEF OnTimer, OnDecisionTimeout, r, s, b, w
  <2> HIDE DEF r
  <2> QED BY <2>5, <2>6, AfterVerdict
<1>3. CASE t \in {"tone", "greeting"}
  <2>1. OnTimer(a, t) = StopAmd(Without(a, {t}))
    BY <1>3 DEF OnTimer, OnToneTimeout, OnGreetingCompletionTimeout
  <2>2. DetectorInv(Without(a, {t}))
    BY <1>0 DEF DetectorInv, Without, AmdStates
  <2> QED BY <2>1, <2>2, StopAmdInv
<1> QED BY <1>1, <1>2, <1>3 DEF AmdTimers

(* A transcript decides only while there is no verdict, and a verdict stops *)
(* the timers that decide.                                                  *)
LEMMA TranscriptInv ==
  ASSUME NEW a, DetectorInv(a), NEW u \in Utterances, a.on, a.stt = "on"
  PROVE  DetectorInv(EvaluateTranscription(a, u))
<1>0. a \in AmdStates /\ ~a.starting
  BY DEF DetectorInv
<1>1. CASE a.decision = "machine"
  BY <1>0, <1>1 DEF DetectorInv, EvaluateTranscription, AmdStates, AmdTimers
<1>2. CASE a.decision # "none" /\ a.decision # "machine"
  BY <1>2 DEF EvaluateTranscription
<1>3. CASE a.decision = "none" /\ u = "machine"
  <2> DEFINE b == Decided(a, "machine")
             ts == {"noSpeech", "decision"}
             w == Without(b, ts)
  <2>1. a.verdicts = 0
    BY <1>3 DEF DetectorInv
  <2>2. /\ b \in AmdStates /\ b.verdicts = 1 /\ b.decision = "machine"
        /\ ~b.starting
    BY <1>0, <2>1, DecisionOf DEF Decisions
  <2> HIDE DEF b
  <2>3. /\ w \in AmdStates /\ w.verdicts = 1 /\ w.decision = "machine"
        /\ ~w.starting /\ w.timers \cap ts = {}
    BY <2>2, TimersOf
  <2>4. EvaluateTranscription(a, u) = [w EXCEPT !.timers = @ \cup {"greeting"}]
    BY <1>3 DEF EvaluateTranscription, Machine, b
  <2> HIDE DEF w
  <2> QED BY <2>3, <2>4 DEF DetectorInv, AmdStates, AmdTimers
<1>4. CASE a.decision = "none" /\ u = "human"
  <2> DEFINE b == Decided(a, "human")
             s == StopAmd(b)
  <2>1. a.verdicts = 0
    BY <1>4 DEF DetectorInv
  <2>2. /\ b \in AmdStates /\ b.verdicts = 1 /\ b.decision = "human"
        /\ ~b.starting /\ b.on
    BY <1>0, <2>1, DecisionOf DEF Decisions
  <2> HIDE DEF b
  <2>3. /\ s \in AmdStates /\ s.verdicts = 1 /\ s.decision = "human"
        /\ ~s.starting /\ s.timers = {}
    BY <2>2, StopOf
  <2>4. EvaluateTranscription(a, u) = s
    BY <1>4 DEF EvaluateTranscription, Human, b
  <2> HIDE DEF s
  <2> QED BY <2>3, <2>4, AfterVerdict
<1>5. CASE a.decision = "none" /\ u = "unclear"
  BY <1>0, <1>5 DEF DetectorInv, EvaluateTranscription, Unclear, Without, AmdStates
<1> QED BY <1>1, <1>2, <1>3, <1>4, <1>5 DEF Utterances

LEMMA OtherEventsInv ==
  ASSUME NEW a, DetectorInv(a)
  PROVE  /\ DetectorInv(OnNoSpeechDetected(a))
         /\ DetectorInv(OnBeep(a))
         /\ DetectorInv(TranscriptionFailed(a))
         /\ ~a.starting => DetectorInv([a EXCEPT !.stt = "on"])
         /\ ~a.starting => DetectorInv([a EXCEPT !.stt = "starting"])
BY DEF DetectorInv, OnNoSpeechDetected, OnBeep, Without, TranscriptionFailed,
       AmdStates, AmdTimers

------------------------------------------------------------------------------
(* The detector of the outbound call.                                       *)

LEMMA DetectorInit == Init => DetectorInv(amd)
BY NoAmdInv DEF Init, OutboundInit

LEMMA DetectorNext == DetectorInv(amd) /\ [Next]_vars => DetectorInv(amd')
<1> SUFFICES ASSUME DetectorInv(amd), [Next]_vars PROVE DetectorInv(amd')
  OBVIOUS
<1>1. CASE UNCHANGED amd
  BY <1>1
<1>2. CASE OutboundStep
  <2>1. CASE CreateCall \/ EndpointCreated \/ InviteSent \/ InviteNotSent
               \/ ExecRestDial \/ FarAnswers \/ FarRefuses \/ OnConnectThrows \/ OnFailure
               \/ KillAfterFailure \/ OnCallTimeout \/ HookReplies
               \/ RestDialEnds \/ AppEnds \/ ClearRestSession \/ LccNoAnswer
    <3>1. UNCHANGED amd
      BY <2>1 DEF CreateCall, EndpointCreated, InviteSent, InviteNotSent,
           ExecRestDial, FarAnswers, FarRefuses, OnConnectThrows, OnFailure,
           KillAfterFailure,
           OnCallTimeout, HookReplies, RestDialEnds, AppEnds, ClearRestSession,
           LccNoAnswer
    <3> QED BY <3>1
  <2>2. CASE OnConnect
    BY <2>2, NoAmdInv DEF OnConnect
  <2>3. CASE JambonzHangup \/ CallerHungup
    BY <2>3, StopAmdInv DEF JambonzHangup, CallerHungup, HangsUp, TurnOffAmd
  <2>4. CASE StartAmd
    BY <2>4, ConfiguredInv DEF StartAmd, AmdStep
  <2>5. CASE \E t \in AmdTimers : AmdTimer(t)
    BY <2>5, TimerInv DEF AmdTimer, AmdStep
  <2>6. CASE \E u \in Utterances : OnTranscription(u)
    BY <2>6, TranscriptInv DEF OnTranscription, Transcribes, AmdStep
  <2>7. CASE OnSilence \/ Beep
    BY <2>7, OtherEventsInv DEF OnSilence, Beep, AmdStep
  <2>8. CASE TranscriptionStarts \/ OnEndOfUtterance
    <3>1. ~amd.starting
      BY <2>8 DEF TranscriptionStarts, OnEndOfUtterance, Transcribes, DetectorInv
    <3> QED BY <2>8, <3>1, OtherEventsInv
              DEF TranscriptionStarts, OnEndOfUtterance, AmdStep
  <2> QED BY <1>2, <2>1, <2>2, <2>3, <2>4, <2>5, <2>6, <2>7, <2>8 DEF OutboundStep
<1> QED BY <1>1, <1>2 DEF Next, vars

(* However transcripts, timers, hang-ups and the failure of the recognizer  *)
(* interleave, the detector gives one verdict: _onNoSpeechTimeout,          *)
(* _onDecisionTimeout and evaluateTranscription of amd-utils.js.            *)
THEOREM OneVerdictCorrect == Spec => []OneVerdict
<1> DEFINE Inv == DetectorInv(amd)
<1>1. Init => Inv
  BY DetectorInit
<1>2. Inv /\ [Next]_vars => Inv'
  BY DetectorNext
<1>3. Inv => OneVerdict
  BY DEF DetectorInv, OneVerdict
<1> QED BY <1>1, <1>2, <1>3, PTL DEF Spec

------------------------------------------------------------------------------
(* The pipeline of an INVITE.                                               *)

PipelineInv ==
  /\ invite \in [Calls -> Invites]
  /\ CanceledNotExecuted

InviteEnds == {"none", "stuck", "rejected", "session", "clearing", "gone"}

(* An INVITE that was canceled goes anywhere but to an executing session.   *)
LEMMA ToInv ==
  ASSUME PipelineInv, NEW c \in Calls, NEW stage \in PipelineStages \cup InviteEnds,
         To(c, stage), invite[c].told => stage # "session"
  PROVE  PipelineInv'
<1> DEFINE n == [invite[c] EXCEPT !.at = stage,
                   !.retries = IF stage = "webhook" THEN @ ELSE 0]
<1>1. invite' = [invite EXCEPT ![c] = n]
  BY DEF To, PipelineInv, Invites
<1>2. invite[c] \in Invites
  BY DEF PipelineInv
<1>3. n \in Invites /\ n.told = invite[c].told /\ n.at = stage
  <2>1. 0 \in 0..MaxRetries
    BY HttpRequestorAssumption
  <2> QED BY <1>2, <2>1 DEF Invites, InviteEnds, PipelineStages
<1> HIDE DEF n
<1> QED BY <1>1, <1>3 DEF PipelineInv, CanceledNotExecuted

LEMMA PipelineStart == Init => PipelineInv
<1> SUFFICES ASSUME Init PROVE PipelineInv
  OBVIOUS
<1>1. NoInvite \in Invites /\ ~NoInvite.told
  BY HttpRequestorAssumption DEF NoInvite, Invites
<1>2. invite = [c \in Calls |-> NoInvite]
  BY DEF Init, PipelineInit
<1> QED BY <1>1, <1>2 DEF PipelineInv, CanceledNotExecuted

LEMMA PipelineNext == PipelineInv /\ [Next]_vars => PipelineInv'
<1> SUFFICES ASSUME PipelineInv, [Next]_vars PROVE PipelineInv'
  OBVIOUS
<1>1. CASE UNCHANGED invite
  BY <1>1 DEF PipelineInv, CanceledNotExecuted
<1>2. ASSUME NEW c \in Calls, PipelineStep(c) PROVE PipelineInv'
  <2>0. invite[c] \in Invites /\ (invite[c].told => invite[c].at # "session")
    BY DEF PipelineInv, CanceledNotExecuted
  <2>1. CASE InitLocals(c)
    <3>1. PICK first \in {"locals", "payload", "account", "rejected"}, s \in BOOLEAN :
            invite' = [invite EXCEPT ![c].at = first, ![c].siprec = s]
      BY <2>1 DEF InitLocals
    <3> DEFINE n == [invite[c] EXCEPT !.at = first, !.siprec = s]
    <3>2. invite' = [invite EXCEPT ![c] = n]
      BY <3>1 DEF PipelineInv, Invites
    <3>3. n \in Invites /\ n.at # "session"
      BY <2>0 DEF Invites, PipelineStages
    <3> HIDE DEF n
    <3> QED BY <3>2, <3>3 DEF PipelineInv, CanceledNotExecuted
  <2>2. CASE UserLookedUp(c) \/ HandleSipRec(c) \/ GetAccountDetails(c) \/ BackedOff(c)
               \/ TasksDone(c) \/ ClearResources(c)
    <3>1. \E stage \in (PipelineStages \cup InviteEnds) \ {"session"} : To(c, stage)
      BY <2>2 DEF UserLookedUp, HandleSipRec, GetAccountDetails, BackedOff,
           TasksDone, ClearResources, PipelineStages, InviteEnds
    <3> QED BY <3>1, ToInv
  <2>3. CASE SessionStarted(c)
    <3>1. \E stage \in {"clearing", "session"} :
            To(c, stage) /\ (invite[c].told => stage # "session")
      BY <2>3 DEF SessionStarted
    <3> QED BY <3>1, ToInv DEF InviteEnds
  <2>4. CASE RetrieveApplication(c) \/ InvokeWebCallback(c)
    <3>1. CASE SessionStarted(c)
      BY <2>3, <3>1
    <3>2. CASE \E stage \in {"webhook", "rejected"} : To(c, stage)
      BY <3>2, ToInv DEF PipelineStages, InviteEnds
    <3>3. CASE \E failure \in RequestFailures :
                 /\ Retried(invite[c].retries, failure)
                 /\ invite' = [invite EXCEPT ![c].at = "backoff",
                                             ![c].retries = Counted(@)]
      <4> DEFINE n == [invite[c] EXCEPT !.at = "backoff", !.retries = @ + 1]
      <4>1. invite' = [invite EXCEPT ![c] = n]
        BY <3>3 DEF PipelineInv, Invites, Counted
      <4>2. invite[c].retries + 1 \in 0..MaxRetries
        BY <2>0, <3>3, HttpRequestorAssumption DEF Retried, Invites
      <4>3. n \in Invites /\ n.at # "session"
        BY <2>0, <4>2 DEF Invites, PipelineStages
      <4> HIDE DEF n
      <4> QED BY <4>1, <4>3 DEF PipelineInv, CanceledNotExecuted
    <3> QED BY <2>4, <3>1, <3>2, <3>3 DEF RetrieveApplication, InvokeWebCallback
  <2>5. CASE Cancel(c)
    <3> DEFINE n == [invite[c] EXCEPT !.canceled = TRUE,
                       !.told = invite[c].at # "locals",
                       !.at = IF @ = "session" THEN "clearing" ELSE @]
    <3>1. invite' = [invite EXCEPT ![c] = n]
      BY <2>5 DEF Cancel, PipelineInv, Invites
    <3>2. n \in Invites /\ n.at # "session"
      BY <2>0 DEF Invites
    <3> HIDE DEF n
    <3> QED BY <3>1, <3>2 DEF PipelineInv, CanceledNotExecuted
  <2> QED BY <1>2, <2>1, <2>2, <2>4, <2>5 DEF PipelineStep
<1>3. CASE LifeStep /\ UNCHANGED <<tracked, invite, out, amd>>
  BY <1>1, <1>3
<1>4. CASE OutboundStep /\ UNCHANGED <<lifeVars, invite>>
  BY <1>1, <1>4
<1> QED BY <1>1, <1>2, <1>3, <1>4 DEF Next, vars

(* However many calls there are, and however often a webhook is retried, no *)
(* session executes an application for a call whose CANCEL was heard.       *)
THEOREM CanceledCorrect == Spec => []CanceledNotExecuted
<1>1. PipelineInv => CanceledNotExecuted
  BY DEF PipelineInv
<1> QED BY <1>1, PipelineStart, PipelineNext, PTL DEF Spec
==============================================================================
