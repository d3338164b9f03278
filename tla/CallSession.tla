----------------------------- MODULE CallSession -----------------------------
(***************************************************************************)
(* lib/session/call-session.js and lib/session/inbound-call-session.js:    *)
(* one inbound call that executes the verbs of an application.             *)
(*                                                                         *)
(* exec() is a coroutine: it takes the next task, waits for what the task  *)
(* needs (a media endpoint, an answered call), runs it, and when a         *)
(* websocket application has no tasks left waits for commands or hangup.   *)
(* Everything else (sip, REST, websocket, timers) runs as callbacks while  *)
(* the coroutine is suspended in an await, and acts on it through          *)
(* currentTask and wakeupResolver.                                         *)
(*                                                                         *)
(* An action is one run-to-completion turn of the event loop.              *)
(***************************************************************************)
EXTENDS ActionHookDelay, Sequences

CONSTANTS
  Apps,          \* the verb lists an application may answer with
  WsMayFail,     \* BOOLEAN: the websocket may be lost for good
  BargeInOn,     \* BOOLEAN: a background gather listens for speech
  AhdEnabled,    \* BOOLEAN: the session has an ActionHookDelayProcessor
  GiveUpApps,    \* what its giveUpActions may be, NoApp for none
  ActionsMayFail,\* BOOLEAN: a filler action may be rejected
  MaxApps        \* bound on the verb lists delivered during the call

NoApp == <<>>

(* What the exec loop can tell of a verb: the precondition it declares,     *)
(* whether it may run on early media, and whether its exec() goes on until  *)
(* it is killed.  hangup needs an answered call, decline an unanswered one, *)
(* and gather asks the application for verbs before it ends.                *)
EndpointVerbs == {"play", "earlyPlay", "listen", "earlyListen", "gather"}
EarlyVerbs == {"earlyPlay", "earlyListen"}
OpenVerbs == {"listen", "earlyListen", "gather"}
VerbNames == EndpointVerbs \cup {"pause", "config", "bargeOff", "hangup", "decline"}

NeedsEndpoint(t) == t.verb \in EndpointVerbs
Early(t) == t.verb \in EarlyVerbs

ASSUME SessionAssumption ==
  /\ Apps \subseteq Seq(VerbNames) \ {NoApp}
  /\ WsMayFail \in BOOLEAN /\ BargeInOn \in BOOLEAN
  /\ AhdEnabled \in BOOLEAN /\ ActionsMayFail \in BOOLEAN
  /\ GiveUpApps \subseteq Seq(VerbNames)
  /\ MaxApps \in Nat

(* A task remembers the application (stack) that brought it.                *)
Tasks == [verb : VerbNames, gen : Nat]
NoTask == [verb |-> "none", gen |-> 0]
TasksOf(app, g) == [i \in 1..Len(app) |-> [verb |-> app[i], gen |-> g]]

VARIABLES
  pc,          \* where exec() is suspended
  tasks,       \* this.tasks
  task,        \* exec()'s local: the task of this turn of the loop
  currentTask, \* this.currentTask
  killed,      \* kill() was called on task
  wakeup,      \* this.wakeupResolver is set
  gather,      \* what the gather that runs is doing
  stackIdx,    \* this.stackIdx
  callGone,    \* this.callGone
  ep,          \* this.ep is set
  dlg,         \* this.dlg
  canceled,    \* the caller sent CANCEL
  finalSent,   \* the final response sent to the INVITE
  declining,   \* sip:decline sent its response, not yet confirmed
  ws,          \* the websocket of the application
  notified,    \* history: the call statuses reported, in order
  handler,     \* the await each request handler is suspended in
  ahd,         \* this._actionHookDelayProcessor
  owed,        \* history: a gather left the processor running, and no verbs
               \* that stop it have come since
  delivered    \* verb lists delivered so far, for MaxApps

loopVars == <<pc, task, currentTask, killed, wakeup, gather>>
appVars  == <<tasks, stackIdx, delivered>>
sipVars  == <<ep, dlg, canceled, finalSent, declining, notified>>
hookVars == <<ws, handler, ahd, owed>>
vars == <<loopVars, appVars, callGone, sipVars, hookVars>>

PcStates == {"top", "allocating", "answering", "upgrading", "running",
             "waiting", "clearing", "done"}
GatherStates == {"none", "listening", "asking", "stopping", "over"}
HandlerStates == {"idle", "command", "callhook", "reply"}
Statuses == {"trying", "in-progress", "completed", "no-answer", "failed"}

TypeOK ==
  /\ pc \in PcStates
  /\ tasks \in Seq(Tasks)
  /\ task \in Tasks \cup {NoTask}
  /\ currentTask \in Tasks \cup {NoTask}
  /\ killed \in BOOLEAN /\ wakeup \in BOOLEAN /\ callGone \in BOOLEAN
  /\ gather \in GatherStates /\ owed \in BOOLEAN
  /\ stackIdx \in Nat
  /\ ep \in BOOLEAN
  /\ dlg \in {"none", "connected", "destroyed", "cleared"}
  /\ canceled \in BOOLEAN /\ declining \in BOOLEAN
  /\ finalSent \in {"none", "success", "failure"}
  /\ ws \in {"none", "open", "closed", "failed"}
  /\ notified \in Seq(Statuses)
  /\ handler \in [Handlers -> HandlerStates]
  /\ ahd \in AhdStates
  /\ delivered \in Nat

Init ==
  /\ pc = "top"
  /\ \E app \in Apps : tasks = TasksOf(app, 0)
  /\ task = NoTask /\ currentTask = NoTask
  /\ killed = FALSE /\ wakeup = FALSE
  /\ gather = "none" /\ owed = FALSE
  /\ stackIdx = 0 /\ delivered = 0
  /\ ep = FALSE /\ dlg = "none"
  /\ finalSent = "none" /\ declining = FALSE
  \* the INVITE may have been canceled before the session was constructed
  /\ canceled \in BOOLEAN
  /\ callGone = canceled
  /\ notified = IF canceled THEN <<"no-answer", "trying">> ELSE <<"trying">>
  \* appIsUsingWebsockets, or webhooks
  /\ ws \in {"open", "none"}
  /\ handler = [h \in Handlers |-> "idle"]
  /\ ahd = FreshAhd(AhdEnabled)

------------------------------------------------------------------------------
(* Effects shared by the callbacks.                                         *)

Range(s) == {s[i] : i \in DOMAIN s}

(* Mutant: no gate on 'completed'.                                          *)
NotifiedAgain(s) == Append(notified, s)

(* _notifyCallStatusChange: a second 'completed' is dropped.                *)
Notified(s) ==
  IF s = "completed" /\ s \in Range(notified) THEN notified
  ELSE Append(notified, s)

(* gather.kill(): a gather that still listens resolves, and is over.        *)
KillGather == gather' = IF gather = "listening" THEN "over" ELSE gather

(* _resolve() starts the processor, also when the gather is killed, but not *)
(* once the call is gone.                                                   *)
Restarts == gather = "listening" /\ ~callGone
AhdAfterKill == IF Restarts THEN Started(ahd) ELSE ahd

(* task.kill() on the current task, which is then forgotten.                *)
KillCurrent ==
  /\ killed' = (killed \/ currentTask # NoTask)
  /\ currentTask' = NoTask
  /\ KillGather
  /\ UNCHANGED task

(* Resolve wakeupResolver, if it is set.                                    *)
Wake ==
  /\ wakeup' = FALSE
  /\ pc' = IF wakeup THEN "top" ELSE pc

(* Mutant: exec() is left to notice callGone by itself.                     *)
CallReleasedQuietly ==
  /\ callGone' = TRUE
  /\ UNCHANGED loopVars

(* _callReleased                                                            *)
CallReleased ==
  /\ callGone' = TRUE
  /\ KillCurrent
  /\ Wake

(* dlg.destroy() of a dialog wrapped by wrapDialog: only the first call on  *)
(* a connected dialog reports the call completed.                           *)
DestroyDialog ==
  /\ dlg' = IF dlg = "connected" THEN "destroyed" ELSE dlg
  /\ notified' = IF dlg = "connected" THEN Notified("completed") ELSE notified

(* _jambonzHangup                                                           *)
JambonzHangup ==
  /\ DestroyDialog
  /\ CallReleased
  /\ UNCHANGED <<ep, canceled, finalSent, declining>>

(* replaceApplication: the running task is killed, or else the waiting      *)
(* session is woken.  A task that exec() holds but has not made current yet *)
(* is not affected.  The processor that a killed gather starts is left to   *)
(* the caller (AhdAfterKill).                                               *)
ReplaceApplication(app) ==
  IF callGone THEN UNCHANGED <<loopVars, tasks, stackIdx>>
  ELSE /\ tasks' = TasksOf(app, stackIdx + 1)
       /\ stackIdx' = stackIdx + 1
       /\ KillCurrent
       /\ IF currentTask = NoTask THEN Wake ELSE UNCHANGED <<wakeup, pc>>

(* await clearOrRestoreActionHookDelayProcessor() in handler h, the state   *)
(* of the processor being a: suspended as `kind` while a filler action is   *)
(* in progress.                                                             *)
StopAhd(a, h, kind) ==
  /\ ahd' = Stopped(a, h)
  /\ handler' = [handler EXCEPT ![h] = IF Suspends(a) THEN kind ELSE "idle"]

Deliver == delivered < MaxApps /\ delivered' = delivered + 1

(* hangup and sip:decline finish in the turn that starts them.              *)
Instant(t) == t.verb \in {"hangup", "decline"}

(* Callbacks run only while exec() is suspended.                            *)
Settled == pc # "top" /\ ~(pc = "running" /\ Instant(task))

------------------------------------------------------------------------------
(* The exec() loop.                                                         *)

(* exec() holds no task any more.                                           *)
TaskOver ==
  task' = NoTask /\ currentTask' = NoTask /\ killed' = FALSE /\ gather' = "none"

(* The rest of the loop body after task.exec() or a precondition failure:   *)
(* wait for commands when a websocket application ran out of tasks.         *)
NextTurn ==
  /\ TaskOver
  /\ UNCHANGED owed
  /\ IF tasks' = <<>> /\ ws' = "open" /\ ~callGone'
     THEN pc' = "waiting" /\ wakeup' = TRUE /\ ahd' = Started(ahd)
     ELSE pc' = "top" /\ UNCHANGED <<wakeup, ahd>>

(* Mutant: an unanswered INVITE gets no final response.                     *)
LeaveLoopUnanswered ==
  /\ pc' = "clearing"
  /\ TaskOver
  /\ DestroyDialog
  /\ UNCHANGED <<finalSent, wakeup, ep, canceled, declining>>

(* Leaving the loop: _onTasksDone and the synchronous part of               *)
(* _clearResources.                                                         *)
LeaveLoop ==
  /\ pc' = "clearing"
  /\ TaskOver
  /\ finalSent' = IF finalSent = "none" THEN "failure" ELSE finalSent
  /\ DestroyDialog
  /\ UNCHANGED <<wakeup, ep, canceled, declining>>

(* Mutant: exec() starts before currentTask is set.                         *)
StartTaskUnseen(t) ==
  /\ pc' = "running"
  /\ task' = t /\ currentTask' = NoTask /\ killed' = FALSE
  /\ gather' = IF t.verb = "gather" THEN "listening" ELSE "none"
  /\ UNCHANGED wakeup

(* The task becomes current and its exec() runs up to its first await.      *)
StartTask(t) ==
  /\ pc' = "running"
  /\ task' = t /\ currentTask' = t /\ killed' = FALSE
  /\ gather' = IF t.verb = "gather" THEN "listening" ELSE "none"
  /\ UNCHANGED wakeup

TasksExhausted ==
  /\ pc = "top"
  /\ tasks = <<>> \/ callGone
  /\ LeaveLoop
  /\ UNCHANGED <<appVars, callGone, hookVars>>

(* A task whose precondition is decided without an await.                   *)
Ready(t) ==
  /\ t.verb = "hangup" => dlg # "none"
  /\ t.verb = "decline" => finalSent = "none"
  /\ NeedsEndpoint(t) => ep /\ (Early(t) \/ dlg # "none")

TakeTask ==
  /\ pc = "top" /\ tasks # <<>> /\ ~callGone
  /\ tasks' = Tail(tasks)
  /\ UNCHANGED <<stackIdx, delivered, callGone, ep, dlg, canceled, declining,
                 notified, ws, handler>>
  /\ LET t == Head(tasks) IN
     \/ /\ Ready(t)
        /\ StartTask(t)
        /\ UNCHANGED <<ahd, owed, finalSent>>
     \/ \* BADPRECONDITIONS
        /\ ~Ready(t) /\ ~NeedsEndpoint(t)
        /\ NextTurn
        /\ UNCHANGED finalSent
     \/ \* await _createMediaEndpoint
        /\ NeedsEndpoint(t) /\ ~ep
        /\ pc' = "allocating" /\ task' = t
        /\ UNCHANGED <<currentTask, killed, wakeup, gather, ahd, owed, finalSent>>
     \/ \* await propagateAnswer: from early media to answer
        /\ ~Ready(t) /\ NeedsEndpoint(t) /\ ep
        /\ pc' = "upgrading" /\ task' = t
        /\ finalSent' = IF finalSent = "none" THEN "success" ELSE finalSent
        /\ UNCHANGED <<currentTask, killed, wakeup, gather, ahd, owed>>

(* The INVITE can still be answered when createUAS sends the 200 OK.        *)
InviteOpen == ~canceled /\ finalSent = "none"

(* The endpoint is allocated: early media (183), or answer the call.  When  *)
(* the INVITE transaction is gone the answer fails at once, the caller is   *)
(* reported gone, and exec() of the task throws for want of resources.      *)
EndpointAllocated ==
  /\ pc = "allocating"
  /\ ep' = TRUE
  /\ UNCHANGED <<appVars, canceled, declining, hookVars>>
  /\ \/ /\ Early(task)
        /\ StartTask(task)
        /\ UNCHANGED <<callGone, dlg, finalSent, notified>>
     \/ /\ ~Early(task) /\ InviteOpen
        /\ pc' = "answering" /\ finalSent' = "success"
        /\ UNCHANGED <<task, currentTask, killed, wakeup, gather, callGone,
                       dlg, notified>>
     \/ /\ ~Early(task) /\ ~InviteOpen
        /\ callGone' = TRUE
        /\ pc' = "clearing"
        /\ TaskOver
        /\ finalSent' = IF finalSent = "none" THEN "failure" ELSE finalSent
        /\ notified' = Notified("no-answer")
        /\ UNCHANGED <<wakeup, dlg>>

(* _createMediaEndpoint rejects: a sip error is passed on to the caller and *)
(* ends the call, any other error (no media server) only skips the task.    *)
AllocationFails ==
  /\ pc = "allocating"
  /\ UNCHANGED <<appVars, ep, dlg, canceled, declining, ws, handler>>
  /\ \/ /\ finalSent = "none"
        /\ finalSent' = "failure"
        /\ notified' = Notified("failed")
        /\ callGone' = TRUE
     \/ UNCHANGED <<finalSent, notified, callGone>>
  /\ NextTurn

Answered ==
  /\ pc \in {"answering", "upgrading"} /\ finalSent = "success"
  /\ dlg' = "connected"
  /\ notified' = Notified("in-progress")
  /\ StartTask(task)
  /\ UNCHANGED <<appVars, callGone, ep, canceled, finalSent, declining,
                 hookVars>>

(* createUAS rejects: caught after an allocation (the task is skipped), but *)
(* not on the way from early media to answer (the loop is left).            *)
AnswerFails ==
  \/ /\ pc = "answering"
     /\ UNCHANGED <<appVars, callGone, sipVars, ws, handler>>
     /\ NextTurn
  \/ /\ pc = "upgrading"
     /\ LeaveLoop
     /\ UNCHANGED <<appVars, callGone, hookVars>>

(* A gather ends when it is over, or fails to set itself up.                *)
MayEnd == ~Instant(task) /\ gather \notin {"asking", "stopping"}

(* exec() of the task ends, or throws a NonFatalTaskError.                  *)
TaskReturns ==
  /\ pc = "running" /\ MayEnd
  /\ UNCHANGED <<appVars, callGone, sipVars, ws, handler>>
  /\ NextTurn

(* Any other error leaves the loop.                                         *)
TaskThrows ==
  /\ pc = "running" /\ MayEnd
  /\ LeaveLoop
  /\ UNCHANGED <<appVars, callGone, hookVars>>

(* The hangup verb: destroy the dialog, then _callReleased.                 *)
HangupTask ==
  /\ pc = "running" /\ task.verb = "hangup"
  /\ DestroyDialog
  /\ callGone' = TRUE
  /\ UNCHANGED <<appVars, ep, canceled, finalSent, declining, ws, handler>>
  /\ NextTurn

(* The sip:decline verb: its response is sent, _callReleased is left to the *)
(* confirmation of the send, and the loop goes on meanwhile.                *)
DeclineTask ==
  /\ pc = "running" /\ task.verb = "decline"
  /\ finalSent' = "failure" /\ declining' = TRUE
  /\ notified' = Notified("failed")
  /\ UNCHANGED <<appVars, callGone, ep, dlg, canceled, ws, handler>>
  /\ NextTurn

(* The asynchronous part of _clearResources: the endpoint is released, then *)
(* the sockets and the processor are closed and the session is forgotten.   *)
ResourcesCleared ==
  /\ pc = "clearing"
  /\ pc' = "done"
  /\ dlg' = "cleared" /\ ep' = FALSE
  /\ ws' = IF ws = "open" THEN "closed" ELSE ws
  /\ ahd' = Stopped(ahd, "anon")
  /\ UNCHANGED <<task, currentTask, killed, wakeup, gather, appVars, callGone,
                 canceled, finalSent, declining, notified, handler, owed>>

------------------------------------------------------------------------------
(* Sip events.                                                              *)

(* CANCEL; the listener is removed by _onTasksDone.                         *)
Cancel ==
  /\ Settled /\ pc \notin {"clearing", "done"}
  /\ InviteOpen
  /\ canceled' = TRUE
  /\ notified' = Notified("no-answer")
  /\ CallReleased
  /\ UNCHANGED <<appVars, ep, dlg, finalSent, declining, hookVars>>

(* BYE from the caller, perhaps crossing our own BYE.                       *)
CallerHungup ==
  /\ Settled /\ dlg \in {"connected", "destroyed"}
  /\ dlg' = "destroyed"
  /\ notified' = Notified("completed")
  /\ CallReleased
  /\ UNCHANGED <<appVars, ep, canceled, finalSent, declining, hookVars>>

(* The send of the sip:decline response is confirmed.                       *)
DeclineSent ==
  /\ Settled /\ declining
  /\ declining' = FALSE
  /\ CallReleased
  /\ UNCHANGED <<appVars, ep, dlg, canceled, finalSent, notified, hookVars>>

(* MEDIA_TIMEOUT, the call duration limit, or 'completed' requested by REST *)
(* or by a command: all of them need media or a dialog.                     *)
HangupRequested ==
  /\ Settled /\ pc # "done"
  /\ dlg \in {"connected", "destroyed"} \/ (ep /\ ~callGone)
  /\ JambonzHangup
  /\ UNCHANGED <<appVars, hookVars>>

(* Mutant: no look at whether a final response was sent.                    *)
NoAnswerAlways ==
  /\ Settled /\ pc # "done"
  /\ finalSent' = "failure"
  /\ CallReleased
  /\ UNCHANGED <<appVars, ep, dlg, canceled, declining, notified, hookVars>>

(* 'no-answer' requested by REST or by a command.                           *)
NoAnswerRequested ==
  /\ Settled /\ pc # "done" /\ finalSent = "none"
  /\ finalSent' = "failure"
  /\ CallReleased
  /\ UNCHANGED <<appVars, ep, dlg, canceled, declining, notified, hookVars>>

------------------------------------------------------------------------------
(* The application.                                                         *)

(* A 'redirect' command without queueCommand.  Once the processor has       *)
(* stopped the session is woken; replaceApplication already did it when     *)
(* stop() does not suspend.                                                 *)
CommandReplace(h, app) ==
  /\ Settled /\ pc # "done" /\ ws = "open" /\ handler[h] = "idle"
  /\ Deliver
  /\ ReplaceApplication(app)
  /\ StopAhd(AhdAfterKill, h, "command")
  /\ owed' = FALSE
  /\ UNCHANGED <<callGone, sipVars, ws>>

(* Mutant: the session is not woken.                                        *)
CommandQueueQuietly(h, app) ==
  /\ Settled /\ pc # "done" /\ ws = "open" /\ handler[h] = "idle"
  /\ Deliver
  /\ tasks' = tasks \o TasksOf(app, stackIdx)
  /\ StopAhd(ahd, h, "command")
  /\ owed' = FALSE
  /\ UNCHANGED <<loopVars, stackIdx, callGone, sipVars, ws>>

(* With queueCommand: the tasks are appended.                               *)
CommandQueue(h, app) ==
  /\ Settled /\ pc # "done" /\ ws = "open" /\ handler[h] = "idle"
  /\ Deliver
  /\ tasks' = tasks \o TasksOf(app, stackIdx)
  /\ StopAhd(ahd, h, "command")
  /\ owed' = FALSE
  /\ IF Suspends(ahd) THEN UNCHANGED <<wakeup, pc>> ELSE Wake
  /\ UNCHANGED <<task, currentTask, killed, gather, stackIdx, callGone,
                 sipVars, ws>>

(* REST or a command sets a new call_hook: ask it for verbs.  A background  *)
(* gather that has resolved may ask in the same way.                        *)
CallHookRequested(h) ==
  /\ Settled /\ pc # "done" /\ handler[h] = "idle" /\ delivered < MaxApps
  /\ handler' = [handler EXCEPT ![h] = "reply"]
  /\ UNCHANGED <<loopVars, appVars, callGone, sipVars, ws, ahd, owed>>

CallHookReply(h, app) ==
  /\ Settled /\ handler[h] = "reply"
  /\ Deliver
  /\ ReplaceApplication(app)
  /\ StopAhd(AhdAfterKill, h, "callhook")
  /\ owed' = FALSE
  /\ UNCHANGED <<callGone, sipVars, ws>>

(* The request fails, or brings no verbs: then the current task is killed   *)
(* but stays current; without one the handler throws.  A failed request, or *)
(* a background gather that is told nothing, leaves all as it is.           *)
CallHookNoTasks(h) ==
  /\ Settled /\ handler[h] = "reply"
  /\ \/ /\ currentTask # NoTask
        /\ killed' = TRUE
        /\ KillGather
        /\ StopAhd(AhdAfterKill, h, "callhook")
     \/ /\ handler' = [handler EXCEPT ![h] = "idle"]
        /\ UNCHANGED <<killed, gather, ahd>>
  /\ UNCHANGED <<pc, task, currentTask, wakeup, appVars, callGone, sipVars, ws,
                 owed>>

(* performAction: the webhook of the running task answers with new verbs;   *)
(* the task may have been killed while it waited for them.                  *)
ActionHookReply(app) ==
  /\ Settled /\ pc = "running" /\ gather = "none"
  /\ Deliver
  /\ ReplaceApplication(app)
  /\ UNCHANGED <<callGone, sipVars, hookVars>>

(* gather._resolve: dtmf, speech, a timeout or an error; the application is *)
(* asked for verbs, while the processor covers the delay.                   *)
GatherAsks ==
  /\ Settled /\ gather = "listening"
  /\ IF callGone
     THEN gather' = "over" /\ UNCHANGED <<ahd, owed>>
     ELSE gather' = "asking" /\ ahd' = Started(ahd) /\ owed' = TRUE
  /\ UNCHANGED <<pc, task, currentTask, killed, wakeup, appVars, callGone, sipVars,
                 ws, handler>>

(* The reply brings verbs: they replace the application, which kills the    *)
(* gather to no effect, and the gather waits for the processor to stop.     *)
GatherReply(app) ==
  /\ Settled /\ gather = "asking"
  /\ Deliver
  /\ IF callGone THEN UNCHANGED <<tasks, stackIdx, currentTask, killed>>
     ELSE /\ tasks' = TasksOf(app, stackIdx + 1)
          /\ stackIdx' = stackIdx + 1
          /\ currentTask' = NoTask /\ killed' = TRUE
  /\ gather' = IF Suspends(ahd) THEN "stopping" ELSE "over"
  /\ ahd' = Stopped(ahd, "gather") /\ owed' = FALSE
  /\ UNCHANGED <<pc, task, wakeup, callGone, sipVars, ws, handler>>

(* It brings none, or the request fails: the processor goes on.             *)
GatherToldNothing ==
  /\ Settled /\ gather = "asking"
  /\ gather' = "over"
  /\ UNCHANGED <<pc, task, currentTask, killed, wakeup, appVars, callGone, sipVars,
                 hookVars>>

(* The background gather of bargein resolves in the same way, because it    *)
(* was killed, or to ask: then its request is another CallHookRequested.    *)
BackgroundResolves ==
  /\ Settled /\ pc # "done" /\ BargeInOn /\ ep /\ ~callGone
  /\ ahd' = Started(ahd) /\ owed' = TRUE
  /\ UNCHANGED <<loopVars, appVars, callGone, sipVars, ws, handler>>

(* Mutant: kill(true) also resolves the wakeup promise.                     *)
BargeInWakes ==
  /\ Settled /\ pc # "done" /\ BargeInOn /\ ws = "open" /\ ep
  /\ KillCurrent /\ Wake
  /\ tasks' = <<>>
  /\ ahd' = AhdAfterKill /\ owed' = (owed \/ Restarts)
  /\ UNCHANGED <<stackIdx, delivered, callGone, sipVars, ws, handler>>

(* kill(true): the background gather heard speech.  Tasks are dropped up to *)
(* a config that disables bargein, whose disabling is then dropped too.     *)
BargeIn ==
  /\ Settled /\ pc # "done" /\ BargeInOn /\ ws = "open" /\ ep
  /\ KillCurrent
  /\ ahd' = AhdAfterKill /\ owed' = (owed \/ Restarts)
  /\ \/ /\ \A i \in DOMAIN tasks : tasks[i].verb # "bargeOff"
        /\ tasks' = <<>>
     \/ \E i \in DOMAIN tasks :
          /\ tasks[i].verb = "bargeOff"
          /\ \A j \in 1..(i - 1) : tasks[j].verb # "bargeOff"
          /\ tasks' = <<[tasks[i] EXCEPT !.verb = "config"]>>
                       \o SubSeq(tasks, i + 1, Len(tasks))
  /\ UNCHANGED <<pc, wakeup, stackIdx, delivered, callGone, sipVars, ws, handler>>

(* The application closes its websocket; a waiting session is not told.     *)
WsClosed ==
  /\ Settled /\ ws = "open"
  /\ ws' = "closed"
  /\ UNCHANGED <<loopVars, appVars, callGone, sipVars, handler, ahd, owed>>

(* 'reconnect-error': the websocket is lost, hang up.                       *)
ReconnectError ==
  /\ Settled /\ pc # "done" /\ WsMayFail /\ ws = "open"
  /\ ws' = "failed"
  /\ JambonzHangup
  /\ UNCHANGED <<appVars, handler, ahd, owed>>

------------------------------------------------------------------------------
(* The ActionHookDelayProcessor's timers and playback.                      *)

NoResponseTimer ==
  /\ Settled /\ ahd.timers > 0
  /\ ahd' = NoResponseFired(ahd, ep)
  /\ UNCHANGED <<loopVars, appVars, callGone, sipVars, ws, handler, owed>>

(* The filler action is rejected before it is played to the end.            *)
FillerActionFails ==
  /\ Settled /\ ActionsMayFail /\ ahd.action
  /\ ahd' = ActionFailed(ahd)
  /\ UNCHANGED <<loopVars, appVars, callGone, sipVars, ws, handler, owed>>

(* 'playback-stop': the handler suspended in stop() goes on; one that       *)
(* delivered tasks wakes the session, whatever it is waiting for by now.  A *)
(* gather suspended there is over.                                          *)
PlaybackStop ==
  /\ Settled /\ ep /\ ahd.listeners > 0
  /\ ahd' = PlaybackStopped(ahd)
  /\ IF ahd.waiter \in Handlers
     THEN /\ handler' = [handler EXCEPT ![ahd.waiter] = "idle"]
          /\ IF handler[ahd.waiter] = "command" THEN Wake
             ELSE UNCHANGED <<wakeup, pc>>
     ELSE UNCHANGED <<handler, wakeup, pc>>
  /\ gather' = IF ahd.waiter = "gather" /\ gather = "stopping" THEN "over" ELSE gather
  /\ UNCHANGED <<task, currentTask, killed, appVars, callGone, sipVars, ws, owed>>

(* The give-up timer: hang up, or run the give-up actions instead; these    *)
(* may change during the call, by a config verb.  Nobody listens any more   *)
(* to a processor that was dropped.                                         *)
GiveUpTimer ==
  /\ Settled /\ ahd.giveUp
  /\ \E app \in GiveUpApps :
       \/ /\ app = NoApp /\ ahd.present
          /\ ahd' = GaveUp(ahd)
          /\ JambonzHangup
          /\ UNCHANGED <<appVars, owed>>
       \/ /\ app # NoApp /\ ahd.present
          /\ Deliver
          /\ ahd' = GaveUpWithTasks(ahd, Restarts)
          /\ owed' = (owed \/ Restarts)
          /\ ReplaceApplication(app)
          /\ UNCHANGED <<callGone, sipVars>>
       \/ /\ ~ahd.present
          /\ ahd' = IF app = NoApp THEN GaveUp(ahd)
                    ELSE [ahd EXCEPT !.active = FALSE, !.giveUp = FALSE]
          /\ UNCHANGED <<loopVars, appVars, callGone, sipVars, owed>>
  /\ UNCHANGED <<ws, handler>>

------------------------------------------------------------------------------
Exec ==
  \/ TasksExhausted \/ TakeTask
  \/ EndpointAllocated \/ AllocationFails \/ Answered \/ AnswerFails
  \/ TaskReturns \/ TaskThrows \/ HangupTask \/ DeclineTask
  \/ ResourcesCleared

Sip == Cancel \/ CallerHungup \/ DeclineSent \/ HangupRequested
       \/ NoAnswerRequested

Application ==
  \/ \E h \in Handlers, app \in Apps :
       CommandReplace(h, app) \/ CommandQueue(h, app) \/ CallHookReply(h, app)
  \/ \E h \in Handlers : CallHookRequested(h) \/ CallHookNoTasks(h)
  \/ \E app \in Apps : ActionHookReply(app)
  \/ BargeIn \/ WsClosed \/ ReconnectError

Gathering ==
  \/ GatherAsks \/ GatherToldNothing \/ BackgroundResolves
  \/ \E app \in Apps : GatherReply(app)

Filler == NoResponseTimer \/ FillerActionFails \/ PlaybackStop \/ GiveUpTimer

Next == Exec \/ Sip \/ Application \/ Gathering \/ Filler

Spec == Init /\ [][Next]_vars

(* Awaited results arrive, a task that was killed or ends by itself         *)
(* returns, a request is answered or times out, and a playback stops;       *)
(* nobody has to call, hang up, answer or speak.                            *)
Fairness ==
  /\ WF_vars(TasksExhausted) /\ WF_vars(TakeTask)
  /\ WF_vars(EndpointAllocated \/ AllocationFails)
  /\ WF_vars(Answered \/ AnswerFails)
  /\ WF_vars((killed \/ gather = "over" \/ task.verb \notin OpenVerbs) /\ TaskReturns)
  /\ WF_vars((\E app \in Apps : GatherReply(app)) \/ GatherToldNothing)
  /\ WF_vars(HangupTask \/ DeclineTask)
  /\ WF_vars(ResourcesCleared)
  /\ WF_vars(PlaybackStop)

FairSpec == Spec /\ Fairness

------------------------------------------------------------------------------
(* Properties.                                                              *)

Reported(s) == s \in Range(notified)

(* The assertion of _awaitCommandsOrHangup, and more: the resolver is set   *)
(* exactly while exec() waits on it, so no wait overwrites another and no   *)
(* event resolves a promise nobody awaits.                                  *)
ResolverMatchesWait == wakeup <=> (pc = "waiting")

(* Whoever must stop the running task finds it in currentTask, unless the   *)
(* task was killed already: a hangup, a redirect or bargein can not miss a  *)
(* task that has started.                                                   *)
RunningTaskKillable == (pc = "running" /\ ~killed) => currentTask = task

(* Replacing the application flushes the queue: every queued task belongs   *)
(* to the latest application.                                               *)
QueueIsCurrent == \A i \in DOMAIN tasks : tasks[i].gen = stackIdx

(* "race condition: we hang up at the same time as the caller": the call is *)
(* reported completed once, after it was reported answered, and nothing is  *)
(* reported after that.                                                     *)
CompletedIsFinal ==
  \A i \in DOMAIN notified : notified[i] = "completed" =>
    /\ i = Len(notified)
    /\ \E j \in 1..(i - 1) : notified[j] = "in-progress"

(* A session that leaves its loop has reported the end of an answered call, *)
(* and an INVITE that was not canceled has got its final response.          *)
LeftInOrder ==
  pc \in {"clearing", "done"} =>
    /\ Reported("in-progress") => Reported("completed")
    /\ canceled \/ finalSent # "none"

(* Answering, declining, REST and the end of the tasks compete to send the  *)
(* final response: it is never sent twice.                                  *)
OneFinalResponse == [][finalSent = "none"]_finalSent

(* A waiting session is woken by new tasks or by the end of the call, never *)
(* to find nothing to do, which would end the call; but see _onCommand: a   *)
(* command that waited for a filler action wakes it in any case.            *)
WokenForAReason ==
  [][(pc = "waiting" /\ pc' = "top") =>
       tasks' # <<>> \/ callGone' \/ \E h \in Handlers : handler[h] = "command"]_vars

(* A filler action does not start over verbs that the application sent: its *)
(* timer runs only while the loop waits for commands, or after a gather has *)
(* left the processor running.  A gather does so when it asks (then fillers *)
(* cover its own delay, and after an answer without verbs, gather.js:1459,  *)
(* they start over the verbs that were queued), and also when it is killed  *)
(* or is a background gather; the reply to another verb's hook does not     *)
(* stop the processor.  Verbs that come by a command, a call hook or the    *)
(* reply to a gather stop it before they run.  Left out are a processor     *)
(* that is dropped for the give-up actions, and a second timer, set by the  *)
(* listener of an overlapping playback, to which the processor does not     *)
(* refer any more: these start over any task.                               *)
NoFillerOverTask ==
  [][(ahd'.retryCount > ahd.retryCount /\ ahd.present /\ ahd.held) =>
       pc \in {"waiting", "clearing", "done"} \/ owed]_vars

(* A gather that waits in stop() for a filler action which has failed, or   *)
(* whose end resumes another caller of stop(): nothing ends it.             *)
Stranded == gather = "stopping" /\ ~(ahd.action /\ ahd.waiter = "gather")

(* However an answered call is hung up, and whatever the session is doing,  *)
(* its resources are cleared; but for a gather that is stranded, which      *)
(* kill() does not end, because it was resolved already.                    *)
HangupEndsSession == (dlg = "destroyed") ~> (pc = "done" \/ Stranded)

(* A request that waits in stop() for a filler action which has failed, or  *)
(* whose end resumes another caller of stop().                              *)
Abandoned ==
  \E h \in Handlers :
    handler[h] \in {"command", "callhook"} /\ ~(ahd.action /\ ahd.waiter = h)

(* Tasks queued for a waiting session are taken up, once the filler action  *)
(* that plays has stopped, unless the command that brought them waits on.   *)
QueuedTasksWake ==
  (pc = "waiting" /\ tasks # <<>>) ~> (pc # "waiting" \/ Abandoned)
==============================================================================
