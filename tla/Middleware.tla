------------------------------ MODULE Middleware ------------------------------
(***************************************************************************)
(* lib/middleware.js: what an INVITE goes through before its session is    *)
(* constructed (app.js).  Each stage is suspended in a lookup or in the    *)
(* webhook of the application; meanwhile the caller may cancel, which is   *)
(* heard from the end of initLocals on.                                    *)
(***************************************************************************)
EXTENDS LifeCycle, HttpRequestor

CONSTANTS Calls   \* inbound calls

VARIABLES invite  \* the progress of each INVITE

(* at: the stage it is suspended in, or its end; canceled: the caller sent  *)
(* CANCEL; told: req.locals.canceled or callGone; siprec: the INVITE has a  *)
(* multipart payload; retries: retryCount of the webhook.                   *)
PipelineStages ==
  {"locals", "payload", "account", "application", "webhook", "backoff"}
Invites ==
  [at : {"none", "stuck", "rejected", "session", "clearing", "gone"}
          \cup PipelineStages,
   siprec : BOOLEAN, canceled : BOOLEAN, told : BOOLEAN, retries : 0..MaxRetries]

NoInvite == [at |-> "none", siprec |-> FALSE, canceled |-> FALSE, told |-> FALSE,
             retries |-> 0]

PipelineInit == invite = [c \in Calls |-> NoInvite]

To(c, stage) ==
  invite' = [invite EXCEPT ![c].at = stage,
                           ![c].retries = IF stage = "webhook" THEN @ ELSE 0]

(* A new INVITE, from an SBC that takes the instance for open.  Without an  *)
(* authenticated user initLocals and createRootSpan do not await anything.  *)
InitLocals(c) ==
  /\ c \in plan.inbound /\ invite[c].at = "none" /\ sbc = "open"
  /\ \E first \in {"locals", "payload", "account", "rejected"}, s \in BOOLEAN :
       /\ first = "payload" => s
       /\ first = "account" => ~s
       /\ invite' = [invite EXCEPT ![c].at = first, ![c].siprec = s]
  /\ UNCHANGED tracked

(* The lookups of an authenticated user; there is no handler for a failure. *)
UserLookedUp(c) ==
  /\ invite[c].at = "locals"
  /\ \/ To(c, IF invite[c].siprec THEN "payload" ELSE "account")
     \/ To(c, "stuck")
  /\ UNCHANGED tracked

HandleSipRec(c) ==
  /\ invite[c].at = "payload"
  /\ \E next \in {"account", "rejected"} : To(c, next)
  /\ UNCHANGED tracked

GetAccountDetails(c) ==
  /\ invite[c].at = "account"
  /\ \E next \in {"application", "rejected"} : To(c, next)
  /\ UNCHANGED tracked

(* Mutant: the session does not look at req.locals.canceled.                *)
SessionStartedBlind(c) ==
  /\ To(c, "session")
  /\ Add(c)

(* app.js constructs the session, which adds itself to the tracker; one     *)
(* that was canceled is released at once and executes nothing.              *)
SessionStarted(c) ==
  /\ To(c, IF invite[c].told THEN "clearing" ELSE "session")
  /\ Add(c)

(* No application: 480.  A transferred call brings its verbs and needs no   *)
(* webhook.                                                                 *)
RetrieveApplication(c) ==
  /\ invite[c].at = "application"
  /\ \/ \E next \in {"webhook", "rejected"} : To(c, next) /\ UNCHANGED tracked
     \/ SessionStarted(c)

(* The webhook sends verbs, or none that may be executed, or fails.         *)
InvokeWebCallback(c) ==
  /\ invite[c].at = "webhook"
  /\ \/ SessionStarted(c)
     \/ To(c, "rejected") /\ UNCHANGED tracked
     \/ \E failure \in RequestFailures :
          /\ IF Retried(invite[c].retries, failure)
             THEN invite' = [invite EXCEPT ![c].at = "backoff", ![c].retries = Counted(@)]
             ELSE To(c, "rejected")
          /\ UNCHANGED tracked

(* The pause before the request is made again.                              *)
BackedOff(c) ==
  /\ invite[c].at = "backoff"
  /\ To(c, "webhook")
  /\ UNCHANGED tracked

(* CANCEL: the listener is there from the end of initLocals; the session    *)
(* has one of its own.                                                      *)
Cancel(c) ==
  /\ invite[c].at \in PipelineStages \cup {"session"} /\ ~invite[c].canceled
  /\ invite' = [invite EXCEPT ![c].canceled = TRUE,
                              ![c].told = invite[c].at # "locals",
                              ![c].at = IF @ = "session" THEN "clearing" ELSE @]
  /\ UNCHANGED tracked

(* exec() leaves its loop, for whatever reason.                             *)
TasksDone(c) ==
  /\ invite[c].at = "session"
  /\ To(c, "clearing")
  /\ UNCHANGED tracked

ClearResources(c) ==
  /\ invite[c].at = "clearing"
  /\ To(c, "gone")
  /\ Remove(c)

PipelineStep(c) ==
  \/ InitLocals(c) \/ UserLookedUp(c) \/ HandleSipRec(c) \/ GetAccountDetails(c)
  \/ RetrieveApplication(c) \/ InvokeWebCallback(c) \/ BackedOff(c)
  \/ Cancel(c) \/ TasksDone(c) \/ ClearResources(c)

PipelineFairness ==
  \A c \in Calls :
    /\ WF_<<invite, tracked>>(UserLookedUp(c) \/ HandleSipRec(c)
         \/ GetAccountDetails(c) \/ RetrieveApplication(c) \/ InvokeWebCallback(c)
         \/ BackedOff(c))
    /\ WF_<<invite, tracked>>(ClearResources(c))

(* A CANCEL that arrives once initLocals is over keeps the application from *)
(* being executed, however far the INVITE has got in the pipeline.          *)
CanceledNotExecuted ==
  \A c \in Calls : invite[c].told => invite[c].at # "session"

(* Every INVITE that is through initLocals is rejected or gets a session,   *)
(* whichever lookup or webhook fails.                                       *)
InvitesSettle ==
  \A c \in Calls :
    (invite[c].at \in PipelineStages \ {"locals"})
      ~> (invite[c].at \in {"rejected", "session", "clearing", "gone"})
==============================================================================
