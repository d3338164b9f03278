----------------------------- MODULE OutboundCall -----------------------------
(***************************************************************************)
(* An outbound call by REST: the handler of POST /createCall               *)
(* (lib/http-routes/api/create-call.js), the verb rest:dial that waits for *)
(* the answer and fetches the application (lib/tasks/rest_dial.js), the    *)
(* session that executes it (lib/session/rest-call-session.js) and the     *)
(* answering machine detection on it.                                      *)
(*                                                                         *)
(* One call is modelled; it is dialled when the scenario has one.          *)
(***************************************************************************)
EXTENDS LifeCycle, Amd

VARIABLES
  out,  \* the call, see OutboundStates
  amd   \* its detector

OutboundStates ==
  [ post : {"none", "lookups", "inviting", "created", "failed"},
         \* the handler of the POST, up to its response
    far : {"none", "ringing", "answering", "refusing", "up", "down"},
         \* the INVITE transaction and the dialog, at the far end
    session : {"none", "prelude", "restDial", "app", "clearing", "gone"},
         \* exec() of the session
    began : BOOLEAN,     \* restDial.exec() has run: restDial.cs is set
    unheard : BOOLEAN,   \* the answer came before: recentCallStatus is 200
    cancel : BOOLEAN,    \* CANCEL was sent
    callGone : BOOLEAN,
    dlg : BOOLEAN,       \* cs.dlg
    ep : BOOLEAN,        \* the media endpoint exists
    canCancel : BOOLEAN, \* restDial.canCancel
    timer : BOOLEAN,     \* restDial.timer
    done : BOOLEAN,      \* restDial.notifyTaskDone() was called
    replaced : BOOLEAN,  \* replaceApplication() has set new tasks
    hook : {"none", "pending", "done"},  \* the session:new request
    killTimer : BOOLEAN ]  \* the 5 s after which a failed dial is killed

OutboundInit ==
  /\ amd = NoAmd
  /\ out = [ post |-> "none", far |-> "none", session |-> "none",
             began |-> FALSE, unheard |-> FALSE, cancel |-> FALSE,
             callGone |-> FALSE, dlg |-> FALSE, ep |-> FALSE,
             canCancel |-> FALSE, timer |-> FALSE, done |-> FALSE,
             replaced |-> FALSE, hook |-> "none", killTimer |-> FALSE ]

------------------------------------------------------------------------------
(* Effects.                                                                 *)

(* TaskRestDial.kill: clear the timer, cancel an INVITE, end the task.      *)
KillRestDial(o) ==
  [o EXCEPT !.timer = FALSE, !.cancel = @ \/ o.canCancel,
            !.canCancel = FALSE, !.done = TRUE]

(* _callReleased: the current task is killed and the loop will end.         *)
CallReleased(o) ==
  LET r == [o EXCEPT !.callGone = TRUE]
  IN  CASE o.session = "restDial" -> KillRestDial(r)
        [] o.session = "app" -> [r EXCEPT !.session = "clearing"]
        [] OTHER -> r

(* turnOffAmd: only a session that still has its endpoint.                  *)
TurnOffAmd == IF out.ep /\ amd.on THEN StopAmd(amd) ELSE amd

------------------------------------------------------------------------------
(* The handler of the POST.                                                 *)

CreateCall ==
  /\ plan.outbound # "none" /\ out.post = "none"
  /\ out' = [out EXCEPT !.post = "lookups"]
  /\ UNCHANGED <<amd, tracked>>

(* Lookups, an SBC and a media endpoint; any of them may be missing.        *)
EndpointCreated ==
  /\ out.post = "lookups"
  /\ \/ out' = [out EXCEPT !.post = "inviting", !.ep = TRUE]
     \/ out' = [out EXCEPT !.post = "failed"]
  /\ UNCHANGED <<amd, tracked>>

(* cbRequest: the INVITE is in flight, the session exists and executes      *)
(* rest:dial, at once or after looking up the carrier.                      *)
InviteSent ==
  /\ out.post = "inviting"
  /\ \E first \in {"prelude", "restDial"} :
       out' = [out EXCEPT !.post = "created", !.far = "ringing",
                          !.session = first, !.began = (first = "restDial"),
                          !.canCancel = (first = "restDial"),
                          !.timer = (first = "restDial")]
  /\ Add("rest")
  /\ UNCHANGED amd

(* cbRequest with an error: 500, and createUAC rejects.                     *)
InviteNotSent ==
  /\ out.post = "inviting"
  /\ out' = [out EXCEPT !.post = "failed", !.ep = FALSE]
  /\ UNCHANGED <<amd, tracked>>

(* The carrier was looked up: exec() enters its loop, unless the call is    *)
(* gone already, and TaskRestDial.exec sets the ring timer.                 *)
ExecRestDial ==
  /\ out.session = "prelude"
  /\ out' = IF out.callGone
            THEN [out EXCEPT !.session = "clearing"]
            ELSE [out EXCEPT !.session = "restDial", !.began = TRUE,
                             !.canCancel = TRUE, !.timer = TRUE]
  /\ UNCHANGED <<amd, tracked>>

------------------------------------------------------------------------------
(* The far end.  An answer may cross a CANCEL, or come while the carrier is *)
(* looked up.                                                               *)

FarAnswers ==
  /\ out.far = "ringing"
  /\ out' = [out EXCEPT !.far = "answering"]
  /\ UNCHANGED <<amd, tracked>>

FarRefuses ==
  /\ out.far = "ringing"
  /\ out' = [out EXCEPT !.far = "refusing"]
  /\ UNCHANGED <<amd, tracked>>

(* createUAC resolves; 'connect' sets the dialog, starts the detector and   *)
(* requests the application.                                                *)
OnConnect ==
  /\ out.far = "answering" /\ out.began
  /\ out' = [out EXCEPT !.far = "up", !.dlg = TRUE, !.canCancel = FALSE,
                        !.timer = FALSE, !.hook = "pending"]
  /\ \/ amd' = IF plan.outbound = "amd" /\ out.ep THEN Started ELSE amd
     \/ UNCHANGED amd  \* no speech credentials: the constructor throws
  /\ UNCHANGED tracked

(* Before exec() has told rest:dial its session, 'connect' throws: there is *)
(* no dialog and no request, and the rejection is only logged.              *)
OnConnectThrows ==
  /\ out.far = "answering" /\ ~out.began
  /\ out' = [out EXCEPT !.far = "up", !.unheard = TRUE]
  /\ UNCHANGED <<amd, tracked>>

(* createUAC rejects: the session is told, rest:dial is killed in 5 s.      *)
OnFailure ==
  /\ out.far = "refusing"
  /\ out' = [out EXCEPT !.far = "down", !.callGone = TRUE, !.ep = FALSE,
                        !.killTimer = TRUE]
  /\ UNCHANGED <<amd, tracked>>

(* Mutant: a failed dial that cannot be canceled any more is left alone.    *)
KillIfCancelable ==
  /\ out.killTimer
  /\ out' = [(IF out.canCancel THEN KillRestDial(out) ELSE out)
               EXCEPT !.killTimer = FALSE]
  /\ UNCHANGED <<amd, tracked>>

KillAfterFailure ==
  /\ out.killTimer
  /\ out' = [KillRestDial(out) EXCEPT !.killTimer = FALSE]
  /\ UNCHANGED <<amd, tracked>>

(* The ring timer cancels an INVITE that has no final response.             *)
OnCallTimeout ==
  /\ out.timer
  /\ out' = IF out.unheard THEN [out EXCEPT !.timer = FALSE]
            ELSE [out EXCEPT !.timer = FALSE, !.cancel = @ \/ out.canCancel,
                             !.canCancel = FALSE]
  /\ UNCHANGED <<amd, tracked>>

------------------------------------------------------------------------------
(* The session.                                                             *)

(* session:new is answered with verbs, which replace rest:dial unless the   *)
(* call is gone; with something else, which is ignored; or it fails.        *)
HookReplies ==
  /\ out.hook = "pending"
  /\ LET o == [out EXCEPT !.hook = "done"] IN
     \/ out' = IF out.callGone THEN o
               ELSE [(IF out.session = "restDial" THEN KillRestDial(o) ELSE o)
                       EXCEPT !.replaced = TRUE]
     \/ out' = o
     \/ out' = [o EXCEPT !.done = TRUE]
  /\ UNCHANGED <<amd, tracked>>

(* rest:dial ends: on to the application, or out of the loop.               *)
RestDialEnds ==
  /\ out.session = "restDial" /\ out.done
  /\ out' = [out EXCEPT !.session = IF out.replaced /\ ~out.callGone
                                    THEN "app" ELSE "clearing"]
  /\ UNCHANGED <<amd, tracked>>

AppEnds ==
  /\ out.session = "app"
  /\ out' = [out EXCEPT !.session = "clearing"]
  /\ UNCHANGED <<amd, tracked>>

(* _clearResources: BYE to a connected dialog, destroy the endpoint.  The   *)
(* detector is not turned off here.                                         *)
ClearRestSession ==
  /\ out.session = "clearing"
  /\ out' = [out EXCEPT !.session = "gone", !.dlg = FALSE, !.ep = FALSE,
                        !.far = IF out.dlg THEN "down" ELSE @]
  /\ Remove("rest")
  /\ UNCHANGED amd

(* update-call with no-answer: the INVITE is canceled, the call released.   *)
LccNoAnswer ==
  /\ "rest" \in tracked /\ ~out.dlg
  /\ out' = [CallReleased(out) EXCEPT !.cancel = TRUE]
  /\ UNCHANGED <<amd, tracked>>

(* _hangup: by REST, by the time limit (jambonz) or by the far end.         *)
HangsUp ==
  /\ amd' = TurnOffAmd
  /\ UNCHANGED tracked

JambonzHangup ==
  /\ out.dlg /\ out.far = "up" /\ "rest" \in tracked
  /\ out' = CallReleased(out)
  /\ HangsUp

(* Nobody listens to a dialog that the session does not have.               *)
CallerHungup ==
  /\ out.far = "up"
  /\ \/ /\ ~out.unheard
        /\ out' = CallReleased([out EXCEPT !.far = "down"])
        /\ HangsUp
     \/ /\ out.unheard
        /\ out' = [out EXCEPT !.far = "down"]
        /\ UNCHANGED <<amd, tracked>>

------------------------------------------------------------------------------
(* The detector.                                                            *)

AmdStep(after) ==
  /\ amd' = after
  /\ UNCHANGED <<out, tracked>>

StartAmd == amd.starting /\ AmdStep(Configured(amd))
AmdTimer(t) == Due(amd, t) /\ AmdStep(OnTimer(amd, t))
Transcribes == amd.on /\ amd.stt = "on"
OnTranscription(u) == Transcribes /\ AmdStep(EvaluateTranscription(amd, u))
OnSilence == Transcribes /\ AmdStep(OnNoSpeechDetected(amd))
Beep == amd.timers # {} /\ amd.on /\ AmdStep(OnBeep(amd))
(* startTranscribing, at first and when a recognizer ends with an utterance.*)
TranscriptionStarts ==
  /\ amd.stt = "starting"
  /\ \/ AmdStep([amd EXCEPT !.stt = "on"])
     \/ AmdStep(TranscriptionFailed(amd))
OnEndOfUtterance == Transcribes /\ AmdStep([amd EXCEPT !.stt = "starting"])

------------------------------------------------------------------------------
OutboundStep ==
  \/ CreateCall \/ EndpointCreated \/ InviteSent \/ InviteNotSent \/ ExecRestDial
  \/ FarAnswers \/ FarRefuses \/ OnConnect \/ OnConnectThrows \/ OnFailure
  \/ KillAfterFailure \/ OnCallTimeout \/ HookReplies \/ RestDialEnds \/ AppEnds \/ ClearRestSession
  \/ LccNoAnswer \/ JambonzHangup \/ CallerHungup
  \/ StartAmd \/ (\E t \in AmdTimers : AmdTimer(t))
  \/ (\E u \in Utterances : OnTranscription(u))
  \/ OnSilence \/ Beep \/ TranscriptionStarts \/ OnEndOfUtterance

outVars == <<out, amd, tracked>>

(* Lookups return, responses arrive, a canceled INVITE is refused or        *)
(* answered, timers fire.  The far end may ring and talk for ever, and an   *)
(* application may go on for ever.                                          *)
OutboundFairness ==
  /\ WF_outVars(EndpointCreated) /\ WF_outVars(InviteSent \/ InviteNotSent)
  /\ WF_outVars(ExecRestDial)
  /\ WF_outVars(out.cancel /\ FarRefuses)
  /\ WF_outVars(OnConnect \/ OnConnectThrows) /\ WF_outVars(OnFailure)
  /\ WF_outVars(KillAfterFailure) /\ WF_outVars(OnCallTimeout)
  /\ WF_outVars(HookReplies) /\ WF_outVars(RestDialEnds)
  /\ WF_outVars(ClearRestSession)
  /\ WF_outVars(StartAmd)
  /\ \A t \in AmdTimers : WF_outVars(AmdTimer(t))

------------------------------------------------------------------------------
(* Properties.                                                              *)

(* The detector tells the application one verdict: a person, a machine, no  *)
(* speech or no decision in time, whichever of transcripts and timers comes *)
(* first.                                                                   *)
OneVerdict == amd.verdicts <= 1

(* A detector whose timers run reaches a verdict, unless the call ends, the *)
(* transcription fails or the recognizer reports silence itself.            *)
VerdictComes ==
  (amd.on /\ "decision" \in amd.timers) ~> (amd.verdicts > 0 \/ ~amd.on \/ amd.muted)

(* A dialled call is answered, or its session ends and leaves no endpoint:  *)
(* the ring timer, the 5 s timer and the hang-ups between them leave no     *)
(* session waiting for ever.  It does not hold for an answer that comes     *)
(* while exec() still looks up the carrier: 'connect' throws, the ring      *)
(* timer finds status 200, and rest:dial waits until somebody kills it.     *)
DialSettles ==
  (out.post = "created")
    ~> (out.dlg \/ (out.session = "gone" /\ ~out.ep) \/ out.unheard)
==============================================================================
