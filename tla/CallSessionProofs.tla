-------------------------- MODULE CallSessionProofs --------------------------
(***************************************************************************)
(* Theorems about CallSession, for any applications, any number of request *)
(* handlers and any setting of the ActionHookDelayProcessor.               *)
(***************************************************************************)
EXTENDS CallSession, TLAPS

(* The processor refers to a no-response timer only while one is pending.   *)
AhdOK(a) == a \in AhdStates /\ (a.held => a.timers > 0)

------------------------------------------------------------------------------
(* Every method of the processor keeps AhdOK.                               *)

(* Arming a timer, _noResponseTimer = setTimeout(...).                      *)
LEMMA RearmedOK ==
  ASSUME NEW a, AhdOK(a), NEW n \in Nat PROVE AhdOK(Rearmed(a, n))
  <1> DEFINE t == a.timers + n
  <1>1. t \in Nat /\ (n > 0 \/ a.held => t > 0)
    BY DEF AhdOK, AhdStates
  <1>2. Rearmed(a, n) = [a EXCEPT !.timers = t, !.held = IF n > 0 THEN TRUE ELSE @]
    BY DEF Rearmed
  <1> HIDE DEF t
  <1>3. CASE n > 0
    BY <1>1, <1>2, <1>3 DEF AhdOK, AhdStates
  <1>4. CASE ~(n > 0)
    BY <1>1, <1>2, <1>4 DEF AhdOK, AhdStates
  <1> QED
    BY <1>3, <1>4

(* start()                                                                  *)
LEMMA StartedOK == ASSUME NEW a, AhdOK(a) PROVE AhdOK(Started(a))
  <1> DEFINE b == [a EXCEPT !.active = TRUE, !.retryCount = 0,
                            !.giveUp = IF GiveUpTimeout THEN TRUE ELSE @]
  <1>1. AhdOK(b)
    BY DEF AhdOK, AhdStates
  <1> HIDE DEF b
  <1>2. AhdOK(Rearmed(b, 1)) /\ AhdOK(Rearmed(b, 0))
    BY <1>1, RearmedOK
  <1> QED
    BY <1>2 DEF Started, b

(* stop()                                                                   *)
LEMMA HaltedOK ==
  ASSUME NEW a, AhdOK(a), NEW w \in Waiters PROVE AhdOK(Halted(a, w))
  <1>1. CASE a.held
    <2> DEFINE t == a.timers - 1
    <2>1. t \in Nat
      BY <1>1 DEF AhdOK, AhdStates
    <2>2. Halted(a, w) = [a EXCEPT !.active = FALSE, !.timers = t,
                            !.held = FALSE, !.giveUp = FALSE,
                            !.waiter = IF a.action THEN w ELSE @]
      BY <1>1 DEF Halted
    <2> HIDE DEF t
    <2> QED
      BY <2>1, <2>2 DEF AhdOK, AhdStates
  <1>2. CASE ~a.held
    BY <1>2 DEF AhdOK, AhdStates, Halted
  <1> QED
    BY <1>1, <1>2

(* Its callers in the session.                                              *)
LEMMA StoppedOK ==
  ASSUME NEW a, AhdOK(a), NEW w \in Waiters PROVE AhdOK(Stopped(a, w))
  BY HaltedOK DEF Stopped

(* A gather that listens is killed.                                         *)
LEMMA KilledOK == ASSUME AhdOK(ahd) PROVE AhdOK(AhdAfterKill)
  BY StartedOK DEF AhdAfterKill

(* _onNoResponseTimer()                                                     *)
LEMMA NoResponseFiredOK ==
  ASSUME NEW a, AhdOK(a), a.timers > 0, NEW e \in BOOLEAN
  PROVE  AhdOK(NoResponseFired(a, e))
  <1> DEFINE t == a.timers - 1
             l == a.listeners + 1
             r == a.retryCount + 1
             b == [a EXCEPT !.timers = t, !.held = FALSE]
  <1>1. t \in Nat /\ l \in Nat /\ r \in Nat
    BY DEF AhdOK, AhdStates
  <1>2. b.listeners + 1 = l /\ b.retryCount + 1 = r
    BY DEF AhdOK, AhdStates
  <1>3. NoResponseFired(a, e) =
          IF ~e THEN [b EXCEPT !.active = FALSE]
          ELSE [b EXCEPT !.action = TRUE, !.listeners = l, !.retryCount = r]
    BY <1>2 DEF NoResponseFired
  <1> HIDE DEF t, l, r
  <1> QED
    BY <1>1, <1>3 DEF AhdOK, AhdStates

(* The action's exec() rejects.                                             *)
LEMMA ActionFailedOK == ASSUME NEW a, AhdOK(a) PROVE AhdOK(ActionFailed(a))
  BY DEF AhdOK, AhdStates, ActionFailed

(* The 'playback-stop' listeners.                                           *)
LEMMA PlaybackStoppedOK ==
  ASSUME NEW a, AhdOK(a), a.listeners > 0 PROVE AhdOK(PlaybackStopped(a))
  <1> DEFINE b == [a EXCEPT !.action = FALSE, !.listeners = 0, !.waiter = "none",
                            !.present = IF a.waiter = "clear" THEN FALSE ELSE @]
             idle == IF a.waiter = "none" THEN a.listeners ELSE a.listeners - 1
             again == a.active /\ a.retryCount < Retries /\ NoResponseTimeout
  <1>1. AhdOK(b)
    BY DEF AhdOK, AhdStates, Waiters
  <1>2. idle \in Nat
    BY DEF AhdOK, AhdStates
  <1>3. PlaybackStopped(a) = Rearmed(b, IF again THEN idle ELSE 0)
    BY DEF PlaybackStopped
  <1> HIDE DEF b, idle, again
  <1>4. AhdOK(Rearmed(b, idle)) /\ AhdOK(Rearmed(b, 0))
    BY <1>1, <1>2, RearmedOK
  <1> QED
    BY <1>3, <1>4

(* _onNoResponseGiveUpTimer()                                               *)
LEMMA GaveUpOK ==
  ASSUME NEW a, AhdOK(a), NEW r \in BOOLEAN
  PROVE  /\ AhdOK(GaveUp(a)) /\ AhdOK(GaveUpWithTasks(a, r))
         /\ AhdOK([a EXCEPT !.active = FALSE, !.giveUp = FALSE])
  <1> DEFINE s == Halted(a, "clear")
             b == IF r THEN Started(s) ELSE s
  <1>1. AhdOK(Halted(a, "anon")) /\ AhdOK(s)
    BY HaltedOK DEF Waiters
  <1>2. AhdOK(b)
    BY <1>1, StartedOK
  <1>3. GaveUpWithTasks(a, r) = [b EXCEPT !.present = IF a.action THEN @ ELSE FALSE]
    BY DEF GaveUpWithTasks
  <1> HIDE DEF b
  <1>4. AhdOK(GaveUpWithTasks(a, r))
    BY <1>2, <1>3 DEF AhdOK, AhdStates
  <1>5. AhdOK([a EXCEPT !.active = FALSE, !.giveUp = FALSE])
    BY DEF AhdOK, AhdStates
  <1> QED
    BY <1>1, <1>4, <1>5 DEF GaveUp

------------------------------------------------------------------------------
(* The inductive invariant, by the part of the state each conjunct is about. *)

(* The part of the state that exec() and the events share.                  *)
LoopInv ==
  /\ pc \in PcStates
  /\ task \in Tasks \cup {NoTask} /\ currentTask \in Tasks \cup {NoTask}
  /\ killed \in BOOLEAN /\ wakeup \in BOOLEAN /\ gather \in GatherStates
  /\ pc \in {"allocating", "answering", "upgrading", "running"} => task \in Tasks
  /\ ResolverMatchesWait
  /\ RunningTaskKillable

(* The application's verbs.                                                 *)
AppInv ==
  /\ tasks \in Seq(Tasks) /\ stackIdx \in Nat /\ delivered \in Nat
  /\ QueueIsCurrent

(* The sip side.  A sip:decline that runs has found the INVITE unanswered,  *)
(* and only verbs that need media wait for an endpoint or an answer.        *)
SipInv ==
  /\ ep \in BOOLEAN /\ canceled \in BOOLEAN /\ declining \in BOOLEAN
  /\ callGone \in BOOLEAN
  /\ dlg \in {"none", "connected", "destroyed", "cleared"}
  /\ finalSent \in {"none", "success", "failure"}
  /\ notified \in Seq(Statuses)
  /\ pc \in {"allocating", "answering", "upgrading"} => NeedsEndpoint(task)
  /\ (pc = "running" /\ task.verb = "decline") => finalSent = "none"

(* The application side.                                                    *)
HookInv ==
  /\ ws \in {"none", "open", "closed", "failed"}
  /\ handler \in [Handlers -> HandlerStates] /\ owed \in BOOLEAN
  /\ AhdOK(ahd)

(* The reports follow the dialog, which exists only after the success       *)
(* response and the endpoint; while exec() waits for either there is none.  *)
ReportInv ==
  /\ CompletedIsFinal
  /\ Reported("in-progress") => finalSent = "success" /\ (ep \/ pc = "done")
  /\ dlg = "none" => ~Reported("in-progress")
  /\ dlg = "connected" => Reported("in-progress") /\ ~Reported("completed")
  /\ dlg = "destroyed" => Reported("completed")
  /\ dlg = "cleared" => pc = "done" /\ (Reported("in-progress") => Reported("completed"))
  /\ pc = "allocating" => ~ep /\ dlg = "none"
  /\ pc \in {"answering", "upgrading"} => ep /\ dlg = "none"
  /\ pc \in {"clearing", "done"} => dlg # "connected" /\ (canceled \/ finalSent # "none")

(* The processor runs only where the loop waits without verbs, or the call  *)
(* ends, or after a gather has started it: whoever else brings verbs stops  *)
(* it.  A wakeup is followed by the next turn before anything else.         *)
Armed(a) == a.present /\ (a.active \/ a.held)
FillerInv ==
  Armed(ahd) => \/ pc \in {"clearing", "done"}
                \/ pc \in {"waiting", "top"} /\ (tasks = <<>> \/ callGone)
                \/ owed

IInv == LoopInv /\ AppInv /\ SipInv /\ HookInv /\ ReportInv /\ FillerInv

(* exec() and its callbacks keep LoopInv.                                   *)

LEMMA NoTaskIsNone == NoTask \notin Tasks
  BY DEF NoTask, Tasks, VerbNames, EndpointVerbs

(* _callReleased                                                            *)
LEMMA ReleasedLoop == ASSUME LoopInv, CallReleased PROVE LoopInv'
  BY NoTaskIsNone DEF LoopInv, PcStates, ResolverMatchesWait, RunningTaskKillable,
     CallReleased, KillCurrent, KillGather, GatherStates, Wake

(* replaceApplication                                                       *)
LEMMA ReplacedLoop ==
  ASSUME LoopInv, NEW app, ReplaceApplication(app) PROVE LoopInv'
  BY NoTaskIsNone DEF LoopInv, PcStates, ResolverMatchesWait, RunningTaskKillable,
     ReplaceApplication, KillCurrent, KillGather, GatherStates, Wake, loopVars

(* The end of a turn of the loop, leaving it, and the start of a task.      *)
LEMMA NextTurnLoop == ASSUME LoopInv, pc # "waiting", NextTurn PROVE LoopInv'
  BY DEF LoopInv, PcStates, ResolverMatchesWait, RunningTaskKillable, NextTurn,
     TaskOver, GatherStates

LEMMA LeftLoop == ASSUME LoopInv, pc # "waiting", LeaveLoop PROVE LoopInv'
  BY DEF LoopInv, PcStates, ResolverMatchesWait, RunningTaskKillable, LeaveLoop,
     TaskOver, GatherStates

LEMMA StartedLoop ==
  ASSUME LoopInv, pc # "waiting", NEW t \in Tasks, StartTask(t) PROVE LoopInv'
  BY DEF LoopInv, PcStates, ResolverMatchesWait, RunningTaskKillable, StartTask,
     GatherStates

LEMMA LoopStep == LoopInv /\ AppInv /\ [Next]_vars => LoopInv'
  <1> SUFFICES ASSUME LoopInv, AppInv, [Next]_vars PROVE LoopInv'
    OBVIOUS
  <1>1. CASE UNCHANGED loopVars
    BY <1>1 DEF LoopInv, ResolverMatchesWait, RunningTaskKillable, loopVars
  <1>2. CASE CallReleased
    BY <1>2, ReleasedLoop
  <1>3. ASSUME NEW app, ReplaceApplication(app) PROVE LoopInv'
    BY <1>3, ReplacedLoop
  <1>4. CASE Exec
    <2>1. CASE TakeTask
      <3> DEFINE t == Head(tasks)
      <3>1. t \in Tasks
        BY <2>1 DEF TakeTask, AppInv
      <3>2. CASE StartTask(t)
        BY <2>1, <3>1, <3>2, StartedLoop DEF TakeTask
      <3>3. CASE NextTurn
        BY <2>1, <3>3, NextTurnLoop DEF TakeTask
      <3>4. CASE /\ pc' \in {"allocating", "upgrading"} /\ task' = t
                 /\ UNCHANGED <<currentTask, killed, wakeup, gather>>
        BY <2>1, <3>1, <3>4
        DEF TakeTask, LoopInv, PcStates, ResolverMatchesWait, RunningTaskKillable
      <3> QED
        BY <2>1, <3>2, <3>3, <3>4 DEF TakeTask
    <2>2. CASE EndpointAllocated
      <3>1. CASE StartTask(task)
        BY <2>2, <3>1, StartedLoop DEF EndpointAllocated, LoopInv
      <3>2. CASE pc' = "answering" /\ UNCHANGED <<task, currentTask, killed, wakeup, gather>>
        BY <2>2, <3>2 DEF EndpointAllocated, LoopInv, PcStates,
           ResolverMatchesWait, RunningTaskKillable
      <3>3. CASE pc' = "clearing" /\ TaskOver /\ UNCHANGED wakeup
        BY <2>2, <3>3 DEF EndpointAllocated, LoopInv, PcStates, TaskOver,
           GatherStates, ResolverMatchesWait, RunningTaskKillable
      <3> QED
        BY <2>2, <3>1, <3>2, <3>3 DEF EndpointAllocated
    <2>3. CASE Answered
      BY <2>3, StartedLoop DEF Answered, LoopInv
    <2>4. CASE AllocationFails \/ AnswerFails \/ TaskReturns \/ HangupTask \/ DeclineTask
               \/ TasksExhausted \/ TaskThrows
      BY <2>4, NextTurnLoop, LeftLoop
      DEF AllocationFails, AnswerFails, TaskReturns, HangupTask, DeclineTask,
          TasksExhausted, TaskThrows
    <2>5. CASE ResourcesCleared
      BY <2>5 DEF ResourcesCleared, LoopInv, PcStates, ResolverMatchesWait,
         RunningTaskKillable
    <2> QED
      BY <1>4, <2>1, <2>2, <2>3, <2>4, <2>5 DEF Exec
  <1>5. CASE Sip
    BY <1>5, <1>2 DEF Sip, Cancel, CallerHungup, DeclineSent, HangupRequested,
       NoAnswerRequested, JambonzHangup
  <1>6. CASE Application
    <2>1. ASSUME NEW h \in Handlers, NEW app \in Apps, CommandQueue(h, app)
          PROVE  LoopInv'
      BY <2>1 DEF CommandQueue, Wake, LoopInv, PcStates, ResolverMatchesWait,
         RunningTaskKillable
    <2>2. ASSUME NEW h \in Handlers, CallHookNoTasks(h) PROVE LoopInv'
      <3>1. CASE killed' = TRUE /\ KillGather
        BY <2>2, <3>1 DEF CallHookNoTasks, KillGather, GatherStates, LoopInv, PcStates,
           ResolverMatchesWait, RunningTaskKillable
      <3>2. CASE UNCHANGED <<killed, gather>>
        BY <2>2, <3>2 DEF CallHookNoTasks, LoopInv, PcStates, ResolverMatchesWait,
           RunningTaskKillable
      <3> QED
        BY <2>2, <3>1, <3>2 DEF CallHookNoTasks
    <2>3. CASE BargeIn
      BY <2>3, NoTaskIsNone DEF BargeIn, KillCurrent, KillGather, GatherStates,
         LoopInv, PcStates, ResolverMatchesWait, RunningTaskKillable
    <2> QED
      BY <1>6, <1>1, <1>2, <1>3, <2>1, <2>2, <2>3
      DEF Application, CommandReplace, CallHookReply, CallHookRequested,
          ActionHookReply, WsClosed, ReconnectError, JambonzHangup
  <1>7. CASE Filler
    <2>1. CASE PlaybackStop
      BY <2>1 DEF PlaybackStop, Wake, LoopInv, PcStates, GatherStates,
         ResolverMatchesWait, RunningTaskKillable
    <2> QED
      BY <1>7, <1>1, <1>2, <1>3, <2>1
      DEF Filler, NoResponseTimer, FillerActionFails, GiveUpTimer, JambonzHangup
  <1>8. CASE Gathering
    <2>1. CASE GatherAsks \/ GatherToldNothing
      BY <2>1 DEF GatherAsks, GatherToldNothing, LoopInv, GatherStates,
         ResolverMatchesWait, RunningTaskKillable
    <2>2. ASSUME NEW app, GatherReply(app) PROVE LoopInv'
      <3>1. gather' \in GatherStates
        BY <2>2 DEF GatherReply, GatherStates
      <3>2. /\ currentTask' \in Tasks \cup {NoTask} /\ killed' \in BOOLEAN
            /\ RunningTaskKillable'
        BY <2>2 DEF GatherReply, LoopInv, RunningTaskKillable
      <3> QED
        BY <2>2, <3>1, <3>2 DEF GatherReply, LoopInv, ResolverMatchesWait
    <2> QED
      BY <1>1, <1>8, <2>1, <2>2 DEF Gathering, BackgroundResolves
  <1> QED
    BY <1>1, <1>4, <1>5, <1>6, <1>7, <1>8 DEF Next, vars, loopVars

------------------------------------------------------------------------------
(* The queue of verbs.                                                      *)

LEMMA TasksOfType ==
  ASSUME NEW app \in Seq(VerbNames), NEW g \in Nat
  PROVE  /\ TasksOf(app, g) \in Seq(Tasks)
         /\ \A i \in DOMAIN TasksOf(app, g) : TasksOf(app, g)[i].gen = g
  BY DEF TasksOf, Tasks

(* The application is replaced, unless the call is gone.                    *)
LEMMA ReplacedQueue ==
  ASSUME AppInv, NEW app \in Seq(VerbNames), delivered' \in Nat,
         \/ UNCHANGED <<tasks, stackIdx>>
         \/ tasks' = TasksOf(app, stackIdx + 1) /\ stackIdx' = stackIdx + 1
  PROVE  AppInv'
  <1> DEFINE new == TasksOf(app, stackIdx + 1)
  <1>1. CASE UNCHANGED <<tasks, stackIdx>>
    BY <1>1 DEF AppInv, QueueIsCurrent
  <1>2. CASE tasks' = new /\ stackIdx' = stackIdx + 1
    <2>1. stackIdx + 1 \in Nat
      BY DEF AppInv
    <2>2. new \in Seq(Tasks) /\ \A i \in DOMAIN new : new[i].gen = stackIdx + 1
      BY <2>1, TasksOfType
    <2> HIDE DEF new
    <2> QED
      BY <1>2, <2>1, <2>2 DEF AppInv, QueueIsCurrent
  <1> QED
    BY <1>1, <1>2

(* What follows an element of a sequence: BargeIn keeps this part of the    *)
(* application.                                                             *)
LEMMA SuffixElements ==
  ASSUME NEW S, NEW s \in Seq(S), NEW i \in DOMAIN s
  PROVE  LET rest == SubSeq(s, i + 1, Len(s))
         IN  /\ rest \in Seq(S)
             /\ \A j \in DOMAIN rest : i + j \in DOMAIN s /\ rest[j] = s[i + j]
  <1>1. i \in 1..Len(s) /\ Len(s) \in Nat /\ DOMAIN s = 1..Len(s)
    OBVIOUS
  <1>2. SubSeq(s, i + 1, Len(s)) = [j \in 1..(Len(s) - i) |-> s[i + j]]
    BY <1>1
  <1>3. \A j \in 1..(Len(s) - i) : i + j \in 1..Len(s) /\ s[i + j] \in S
    BY <1>1
  <1> QED
    BY <1>1, <1>2, <1>3

LEMMA AppStep == AppInv /\ [Next]_vars => AppInv'
  <1> SUFFICES ASSUME AppInv, [Next]_vars PROVE AppInv'
    OBVIOUS
  <1> USE SessionAssumption
  <1>1. CASE UNCHANGED appVars
    BY <1>1 DEF AppInv, QueueIsCurrent, appVars
  <1>2. ASSUME NEW app \in Seq(VerbNames), Deliver, ReplaceApplication(app) PROVE AppInv'
    <2>1. delivered' \in Nat
      BY <1>2 DEF Deliver, AppInv
    <2> QED
      BY <1>2, <2>1, ReplacedQueue DEF ReplaceApplication
  <1>3. CASE TakeTask
    <2>1. /\ Tail(tasks) \in Seq(Tasks)
          /\ \A i \in DOMAIN Tail(tasks) : Tail(tasks)[i] = tasks[i + 1]
          /\ \A i \in DOMAIN Tail(tasks) : i + 1 \in DOMAIN tasks
      BY <1>3 DEF TakeTask, AppInv
    <2> QED
      BY <1>3, <2>1 DEF TakeTask, AppInv, QueueIsCurrent
  <1>4. ASSUME NEW h \in Handlers, NEW app \in Apps, CommandQueue(h, app)
        PROVE  AppInv'
    <2> DEFINE new == TasksOf(app, stackIdx)
    <2>1. new \in Seq(Tasks) /\ \A i \in DOMAIN new : new[i].gen = stackIdx
      BY TasksOfType DEF AppInv
    <2>2. delivered' \in Nat /\ tasks' = tasks \o new /\ stackIdx' = stackIdx
      BY <1>4 DEF CommandQueue, Deliver, AppInv
    <2> HIDE DEF new
    <2> QED
      BY <2>1, <2>2 DEF AppInv, QueueIsCurrent
  <1>5. CASE BargeIn
    <2>1. CASE tasks' = <<>>
      BY <1>5, <2>1 DEF BargeIn, AppInv, QueueIsCurrent
    <2>2. ASSUME NEW i \in DOMAIN tasks,
                 tasks' = <<[tasks[i] EXCEPT !.verb = "config"]>>
                          \o SubSeq(tasks, i + 1, Len(tasks))
          PROVE  AppInv'
      <3> DEFINE t == [tasks[i] EXCEPT !.verb = "config"]
                 rest == SubSeq(tasks, i + 1, Len(tasks))
      <3>0. tasks[i] \in Tasks /\ tasks[i].gen = stackIdx
        BY DEF AppInv, QueueIsCurrent
      <3>1. t \in Tasks /\ t.gen = stackIdx
        BY <3>0 DEF Tasks, VerbNames
      <3>2. rest \in Seq(Tasks)
        BY SuffixElements DEF AppInv
      <3>4. \A j \in DOMAIN rest : i + j \in DOMAIN tasks /\ rest[j] = tasks[i + j]
        BY SuffixElements DEF AppInv
      <3>5. \A j \in DOMAIN rest : rest[j].gen = stackIdx
        BY <3>4 DEF AppInv, QueueIsCurrent
      <3>3. tasks' = <<t>> \o rest /\ UNCHANGED <<stackIdx, delivered>>
        BY <1>5, <2>2 DEF BargeIn
      <3> HIDE DEF t, rest
      <3> QED
        BY <3>1, <3>2, <3>3, <3>5 DEF AppInv, QueueIsCurrent
    <2> QED
      BY <1>5, <2>1, <2>2 DEF BargeIn
  <1>6. CASE Exec
    BY <1>1, <1>3, <1>6 DEF Exec, TasksExhausted, EndpointAllocated, AllocationFails,
       Answered, AnswerFails, TaskReturns, TaskThrows, HangupTask, DeclineTask,
       ResourcesCleared
  <1>7. CASE Sip
    BY <1>1, <1>7 DEF Sip, Cancel, CallerHungup, DeclineSent, HangupRequested,
       NoAnswerRequested
  <1>8. CASE Application
    BY <1>1, <1>2, <1>4, <1>5, <1>8
    DEF Application, CommandReplace, CallHookReply, CallHookRequested,
        CallHookNoTasks, ActionHookReply, WsClosed, ReconnectError
  <1>9. CASE Filler
    BY <1>1, <1>2, <1>9
    DEF Filler, NoResponseTimer, FillerActionFails, PlaybackStop, GiveUpTimer
  <1>10. CASE Gathering
    <2>1. ASSUME NEW app \in Apps, GatherReply(app) PROVE AppInv'
      <3>1. delivered' \in Nat
        BY <2>1 DEF GatherReply, Deliver, AppInv
      <3> QED
        BY <2>1, <3>1, ReplacedQueue DEF GatherReply
    <2> QED
      BY <1>1, <1>10, <2>1
      DEF Gathering, GatherAsks, GatherToldNothing, BackgroundResolves
  <1> QED
    BY <1>1, <1>6, <1>7, <1>8, <1>9, <1>10 DEF Next, vars

------------------------------------------------------------------------------
(* The application side and the sip side.                                   *)

LEMMA NotifiedType ==
  ASSUME notified \in Seq(Statuses), NEW s \in Statuses
  PROVE  Notified(s) \in Seq(Statuses)
  BY DEF Notified

LEMMA HookStep == HookInv /\ SipInv /\ [Next]_vars => HookInv'
  <1> SUFFICES ASSUME HookInv, SipInv, [Next]_vars PROVE HookInv'
    OBVIOUS
  <1>1. CASE UNCHANGED hookVars
    BY <1>1 DEF HookInv, hookVars
  <1>2. ASSUME NextTurn, UNCHANGED <<ws, handler>> PROVE HookInv'
    BY <1>2, StartedOK DEF NextTurn, HookInv
  <1>0. AhdOK(ahd) /\ AhdOK(AhdAfterKill) /\ ep \in BOOLEAN /\ Restarts \in BOOLEAN
    BY KilledOK DEF HookInv, SipInv, Restarts
  <1>3. ASSUME NEW h \in Handlers, NEW kind \in {"command", "callhook"},
               StopAhd(ahd, h, kind) \/ StopAhd(AhdAfterKill, h, kind),
               owed' \in BOOLEAN, UNCHANGED ws
        PROVE  HookInv'
    <2>1. AhdOK(ahd')
      BY <1>3, <1>0, StoppedOK DEF StopAhd, Waiters
    <2> QED
      BY <1>3, <2>1 DEF StopAhd, HookInv, HandlerStates
  <1>4. CASE Exec
    <2>1. CASE TakeTask
      BY <2>1, <1>2 DEF TakeTask, HookInv
    <2>2. CASE ResourcesCleared
      <3>1. AhdOK(ahd')
        BY <2>2, StoppedOK DEF ResourcesCleared, HookInv, Waiters
      <3> QED
        BY <2>2, <3>1 DEF ResourcesCleared, HookInv
    <2> QED
      BY <1>4, <1>1, <1>2, <2>1, <2>2
      DEF Exec, TasksExhausted, EndpointAllocated, AllocationFails, Answered,
          AnswerFails, TaskReturns, TaskThrows, HangupTask, DeclineTask
  <1>5. CASE Sip
    BY <1>1, <1>5 DEF Sip, Cancel, CallerHungup, DeclineSent, HangupRequested,
       NoAnswerRequested
  <1>6. CASE Application
    <2>1. ASSUME NEW h \in Handlers, CallHookRequested(h) PROVE HookInv'
      BY <2>1 DEF CallHookRequested, HookInv, HandlerStates
    <2>2. ASSUME NEW h \in Handlers, CallHookNoTasks(h) PROVE HookInv'
      BY <2>2, <1>3 DEF CallHookNoTasks, HookInv, HandlerStates
    <2>3. CASE WsClosed \/ ReconnectError
      BY <2>3 DEF WsClosed, ReconnectError, HookInv
    <2>4. CASE BargeIn
      BY <1>0, <2>4 DEF BargeIn, HookInv
    <2> QED
      BY <1>6, <1>1, <1>3, <2>1, <2>2, <2>3, <2>4
      DEF Application, CommandReplace, CommandQueue, CallHookReply, ActionHookReply
  <1>7. CASE Filler
    <2>1. CASE NoResponseTimer
      <3>1. ep \in BOOLEAN
        BY DEF SipInv
      <3> QED
        BY <2>1, <3>1, NoResponseFiredOK DEF NoResponseTimer, HookInv
    <2>2. CASE FillerActionFails
      BY <2>2, ActionFailedOK DEF FillerActionFails, HookInv
    <2>3. CASE PlaybackStop
      <3>1. AhdOK(ahd')
        BY <2>3, PlaybackStoppedOK DEF PlaybackStop, HookInv
      <3> QED
        BY <2>3, <3>1 DEF PlaybackStop, HookInv, HandlerStates
    <2>4. CASE GiveUpTimer
      <3>1. AhdOK(ahd') /\ owed' \in BOOLEAN
        BY <1>0, <2>4, GaveUpOK DEF GiveUpTimer, HookInv
      <3> QED
        BY <2>4, <3>1 DEF GiveUpTimer, HookInv
    <2> QED
      BY <1>7, <2>1, <2>2, <2>3, <2>4 DEF Filler
  <1>8. CASE Gathering
    <2>1. AhdOK(ahd') /\ owed' \in BOOLEAN
      BY <1>0, <1>8, StartedOK, StoppedOK
      DEF Gathering, GatherAsks, GatherReply, GatherToldNothing, BackgroundResolves,
          HookInv, Waiters, hookVars
    <2> QED
      BY <1>8, <2>1 DEF Gathering, GatherAsks, GatherReply, GatherToldNothing,
         BackgroundResolves, HookInv, hookVars
  <1> QED
    BY <1>1, <1>4, <1>5, <1>6, <1>7, <1>8 DEF Next, vars

LEMMA SipStep == LoopInv /\ AppInv /\ SipInv /\ [Next]_vars => SipInv'
  <1> SUFFICES ASSUME LoopInv, AppInv, SipInv, [Next]_vars PROVE SipInv'
    OBVIOUS
  <1>0. \A s \in Statuses : Notified(s) \in Seq(Statuses)
    BY NotifiedType DEF SipInv
  \* Callbacks run while exec() is suspended: they leave its task alone.
  <1>1. ASSUME Settled, UNCHANGED task, pc' \in {pc, "top"},
               ep' \in BOOLEAN, canceled' \in BOOLEAN, declining' \in BOOLEAN,
               callGone' \in BOOLEAN, notified' \in Seq(Statuses),
               dlg' \in {"none", "connected", "destroyed", "cleared"},
               finalSent' \in {"none", "success", "failure"}
        PROVE  SipInv'
    BY <1>1 DEF SipInv, Settled, Instant, NeedsEndpoint
  <1>2. ASSUME NEW app, ReplaceApplication(app)
        PROVE  UNCHANGED task /\ pc' \in {pc, "top"}
    BY <1>2 DEF ReplaceApplication, KillCurrent, Wake, loopVars
  <1>3. ASSUME CallReleased
        PROVE  UNCHANGED task /\ pc' \in {pc, "top"} /\ callGone' = TRUE
    BY <1>3 DEF CallReleased, KillCurrent, Wake
  <1>4. ASSUME DestroyDialog
        PROVE  /\ dlg' \in {"none", "connected", "destroyed", "cleared"}
               /\ notified' \in Seq(Statuses)
    BY <1>4, <1>0 DEF DestroyDialog, SipInv, Statuses
  <1>5. CASE Exec
    <2>1. CASE TakeTask
      <3> DEFINE t == Head(tasks)
      <3>1. CASE Ready(t) /\ StartTask(t) /\ UNCHANGED finalSent
        BY <2>1, <3>1 DEF TakeTask, Ready, StartTask, SipInv
      <3>2. CASE NextTurn /\ UNCHANGED finalSent
        BY <2>1, <3>2 DEF TakeTask, NextTurn, SipInv
      <3>3. CASE /\ pc' \in {"allocating", "upgrading"} /\ task' = t
                 /\ NeedsEndpoint(t)
                 /\ finalSent' \in {"success", finalSent}
        BY <2>1, <3>3 DEF TakeTask, SipInv, NeedsEndpoint
      <3> QED
        BY <2>1, <3>1, <3>2, <3>3 DEF TakeTask
    <2>2. CASE EndpointAllocated
      <3>1. NeedsEndpoint(task) /\ task.verb # "decline"
        BY <2>2 DEF EndpointAllocated, SipInv, NeedsEndpoint, EndpointVerbs
      <3>2. CASE StartTask(task) /\ UNCHANGED <<callGone, dlg, finalSent, notified>>
        BY <2>2, <3>1, <3>2 DEF EndpointAllocated, StartTask, SipInv
      <3>3. CASE /\ pc' = "answering" /\ finalSent' = "success"
                 /\ UNCHANGED <<task, callGone, dlg, notified>>
        BY <2>2, <3>1, <3>3 DEF EndpointAllocated, SipInv, NeedsEndpoint
      <3>4. CASE /\ pc' = "clearing" /\ callGone' = TRUE /\ UNCHANGED dlg
                 /\ finalSent' \in {"failure", finalSent}
                 /\ notified' = Notified("no-answer")
        BY <2>2, <1>0, <3>4 DEF EndpointAllocated, SipInv, Statuses
      <3> QED
        BY <2>2, <3>2, <3>3, <3>4 DEF EndpointAllocated
    <2>3. CASE AllocationFails
      BY <2>3, <1>0 DEF AllocationFails, NextTurn, SipInv, Statuses
    <2>4. CASE Answered
      <3>1. NeedsEndpoint(task) /\ task.verb # "decline"
        BY <2>4 DEF Answered, SipInv, NeedsEndpoint, EndpointVerbs
      <3> QED
        BY <2>4, <1>0, <3>1 DEF Answered, StartTask, SipInv, Statuses
    <2>5. CASE NextTurn /\ callGone' \in BOOLEAN /\ UNCHANGED sipVars
      BY <2>5 DEF NextTurn, SipInv, sipVars
    <2>6. CASE LeaveLoop /\ UNCHANGED callGone
      BY <2>6, <1>4 DEF LeaveLoop, SipInv
    <2>7. CASE HangupTask
      BY <2>7, <1>4 DEF HangupTask, NextTurn, SipInv
    <2>8. CASE DeclineTask
      BY <2>8, <1>0 DEF DeclineTask, NextTurn, SipInv, Statuses
    <2>9. CASE ResourcesCleared
      BY <2>9 DEF ResourcesCleared, SipInv
    <2> QED
      BY <1>5, <2>1, <2>2, <2>3, <2>4, <2>5, <2>6, <2>7, <2>8, <2>9
      DEF Exec, TasksExhausted, AnswerFails, TaskReturns, TaskThrows, SipInv
  <1>6. CASE Sip
    <2>1. CASE Cancel
      BY <2>1, <1>0, <1>1, <1>3 DEF Cancel, SipInv, Statuses
    <2>2. CASE CallerHungup
      BY <2>2, <1>0, <1>1, <1>3 DEF CallerHungup, SipInv, Statuses
    <2>3. CASE DeclineSent
      BY <2>3, <1>1, <1>3 DEF DeclineSent, SipInv
    <2>4. CASE HangupRequested
      BY <2>4, <1>1, <1>3, <1>4 DEF HangupRequested, JambonzHangup, SipInv
    <2>5. CASE NoAnswerRequested
      BY <2>5, <1>1, <1>3 DEF NoAnswerRequested, SipInv
    <2> QED
      BY <1>6, <2>1, <2>2, <2>3, <2>4, <2>5 DEF Sip
  <1>7. ASSUME Settled, UNCHANGED task, pc' \in {pc, "top"},
               UNCHANGED <<callGone, sipVars>>
        PROVE  SipInv'
    BY <1>7, <1>1 DEF SipInv, sipVars
  <1>8. CASE Application
    <2>1. CASE ReconnectError
      BY <2>1, <1>1, <1>3, <1>4 DEF ReconnectError, JambonzHangup, SipInv
    <2> QED
      BY <1>8, <1>2, <1>7, <2>1
      DEF Application, CommandReplace, CommandQueue, CallHookReply,
          CallHookRequested, CallHookNoTasks, ActionHookReply, BargeIn, WsClosed,
          Wake, KillCurrent, loopVars
  <1>9. CASE Filler
    <2>1. CASE GiveUpTimer
      <3>1. CASE JambonzHangup
        BY <2>1, <3>1, <1>1, <1>3, <1>4 DEF GiveUpTimer, JambonzHangup, SipInv
      <3>2. ASSUME NEW app \in GiveUpApps, ReplaceApplication(app),
                   UNCHANGED <<callGone, sipVars>>
            PROVE  SipInv'
        BY <2>1, <3>2, <1>2, <1>7 DEF GiveUpTimer
      <3>3. CASE UNCHANGED <<loopVars, callGone, sipVars>>
        BY <2>1, <3>3, <1>7 DEF GiveUpTimer, loopVars
      <3> QED
        BY <2>1, <3>1, <3>2, <3>3 DEF GiveUpTimer
    <2> QED
      BY <1>9, <1>7, <2>1
      DEF Filler, NoResponseTimer, FillerActionFails, PlaybackStop, Wake, loopVars
  <1>10. CASE UNCHANGED vars
    BY <1>10 DEF SipInv, NeedsEndpoint, vars, loopVars, sipVars
  <1>11. CASE Gathering
    BY <1>7, <1>11 DEF Gathering, GatherAsks, GatherReply, GatherToldNothing,
       BackgroundResolves, loopVars
  <1> QED
    BY <1>5, <1>6, <1>8, <1>9, <1>10, <1>11 DEF Next

------------------------------------------------------------------------------
(* What is reported to the application.                                     *)

(* _notifyCallStatusChange: the rules for the next report.                  *)
LEMMA ReportAdded ==
  ASSUME notified \in Seq(Statuses), CompletedIsFinal,
         NEW s \in Statuses, notified' = Notified(s),
         s = "completed" => Reported("in-progress"),
         s # "completed" => ~Reported("completed")
  PROVE  CompletedIsFinal' /\ Range(notified') = Range(notified) \cup {s}
  <1>1. CASE s = "completed" /\ Reported("completed")
    BY <1>1 DEF Notified, Reported, CompletedIsFinal
  <1>2. CASE ~Reported("completed")
    <2>1. notified' = Append(notified, s)
      BY <1>2 DEF Notified, Reported
    <2>2. /\ Len(notified') = Len(notified) + 1 /\ Len(notified) \in Nat
          /\ DOMAIN notified = 1..Len(notified)
          /\ DOMAIN notified' = 1..(Len(notified) + 1)
          /\ \A i \in 1..Len(notified) : notified'[i] = notified[i]
          /\ notified'[Len(notified) + 1] = s
      BY <2>1
    <2>3. Range(notified') = Range(notified) \cup {s}
      BY <2>2 DEF Range
    <2>4. \A i \in 1..Len(notified) : notified[i] # "completed"
      BY <1>2, <2>2 DEF Reported, Range
    <2>5. ASSUME s = "completed"
          PROVE  \E j \in 1..Len(notified) : notified'[j] = "in-progress"
      BY <2>2, <2>5 DEF Reported, Range
    <2>6. ASSUME NEW i \in DOMAIN notified', notified'[i] = "completed"
          PROVE  i = Len(notified') /\ \E j \in 1..(i - 1) : notified'[j] = "in-progress"
      <3>1. i = Len(notified) + 1 /\ s = "completed"
        BY <2>2, <2>4, <2>6
      <3>2. i - 1 = Len(notified)
        BY <2>2, <3>1
      <3> QED
        BY <2>2, <2>5, <3>1, <3>2
    <2> QED
      BY <2>3, <2>6 DEF CompletedIsFinal
  <1> QED
    BY <1>1, <1>2

(* dlg.destroy(): a connected dialog is reported completed.                 *)
LEMMA DestroyedReports ==
  ASSUME SipInv, ReportInv, DestroyDialog
  PROVE  /\ CompletedIsFinal'
         /\ dlg' \in {"none", "destroyed", "cleared"}
         /\ dlg' = "none" <=> dlg = "none"
         /\ dlg' = "cleared" <=> dlg = "cleared"
         /\ Reported("in-progress")' <=> Reported("in-progress")
         /\ Reported("in-progress") => Reported("completed")'
  <1>1. CASE dlg = "connected"
    <2>1. CompletedIsFinal' /\ Range(notified') = Range(notified) \cup {"completed"}
      BY <1>1, ReportAdded DEF DestroyDialog, ReportInv, SipInv, Statuses
    <2> QED
      BY <1>1, <2>1 DEF DestroyDialog, Reported, ReportInv
  <1>2. CASE dlg # "connected"
    BY <1>2 DEF DestroyDialog, Reported, ReportInv, CompletedIsFinal, SipInv
  <1> QED
    BY <1>1, <1>2

(* A callback leaves exec() where it is, or wakes it.                       *)
Undisturbed ==
  /\ pc' = pc \/ (pc = "waiting" /\ pc' = "top")
  /\ ep' = ep /\ (canceled => canceled')
  /\ finalSent' = finalSent \/ finalSent = "none"
  /\ finalSent' \in {"none", "success", "failure"}
  /\ finalSent # "none" => finalSent' # "none"

LEMMA UndisturbedReports ==
  ASSUME SipInv, ReportInv, Undisturbed,
         UNCHANGED <<dlg, notified>> \/ DestroyDialog
  PROVE  ReportInv'
  <1>1. CASE UNCHANGED <<dlg, notified>>
    BY <1>1 DEF Undisturbed, ReportInv, SipInv, Reported, CompletedIsFinal
  <1>2. CASE DestroyDialog
    <2>1. dlg' = "destroyed" => Reported("in-progress")
      BY <1>2 DEF DestroyDialog, ReportInv, CompletedIsFinal, Reported, Range
    <2> QED
      BY <1>2, <2>1, DestroyedReports DEF Undisturbed, ReportInv, SipInv
  <1> QED
    BY <1>1, <1>2

LEMMA LeaveLoopReports ==
  ASSUME SipInv, ReportInv, LeaveLoop, pc # "done" PROVE ReportInv'
  <1>1. dlg' = "destroyed" => Reported("in-progress")
    BY DEF LeaveLoop, DestroyDialog, ReportInv, CompletedIsFinal, Reported, Range
  <1> QED
    BY <1>1, DestroyedReports DEF LeaveLoop, ReportInv, SipInv

LEMMA ExecReports == LoopInv /\ SipInv /\ ReportInv /\ Exec => ReportInv'
  <1> SUFFICES ASSUME LoopInv, SipInv, ReportInv, Exec PROVE ReportInv'
    OBVIOUS
  <1>1. ASSUME pc' = "top" \/ pc' = "waiting" \/ pc' = "running", pc # "done", ep => ep',
               finalSent # "none" => finalSent' = finalSent,
               UNCHANGED <<dlg, notified>>
        PROVE  ReportInv'
    BY <1>1 DEF ReportInv, Reported, CompletedIsFinal
  \* Reports other than completed, while there is no dialog.
  <1>2. ASSUME NEW s \in Statuses, s \notin {"in-progress", "completed"},
               notified' = Notified(s), dlg = "none", UNCHANGED dlg,
               pc' \notin {"allocating", "answering", "upgrading"},
               pc' \in {"clearing", "done"} => finalSent' # "none"
        PROVE  ReportInv'
    <2>1. ~Reported("in-progress") /\ ~Reported("completed")
      BY <1>2 DEF ReportInv, CompletedIsFinal, Reported, Range
    <2>2. CompletedIsFinal' /\ Range(notified') = Range(notified) \cup {s}
      BY <1>2, <2>1, ReportAdded DEF SipInv, ReportInv
    <2> QED
      BY <1>2, <2>1, <2>2 DEF ReportInv, Reported
  <1>3. CASE TakeTask
    <2> DEFINE t == Head(tasks)
    <2>1. CASE pc' \in {"running", "top", "waiting"} /\ UNCHANGED finalSent
      BY <1>1, <1>3, <2>1 DEF TakeTask
    <2>2. CASE pc' = "allocating" /\ ~ep /\ UNCHANGED finalSent
      <3>1. dlg = "none"
        BY <1>3, <2>2 DEF TakeTask, ReportInv, SipInv, CompletedIsFinal, Reported, Range
      <3> QED
        BY <1>3, <2>2, <3>1 DEF TakeTask, ReportInv, Reported, CompletedIsFinal
    <2>3. CASE /\ pc' = "upgrading" /\ ~Ready(t) /\ NeedsEndpoint(t) /\ ep
               /\ finalSent' = IF finalSent = "none" THEN "success" ELSE finalSent
      <3>1. dlg = "none"
        BY <2>3 DEF Ready, NeedsEndpoint, EndpointVerbs
      <3> QED
        BY <1>3, <2>3, <3>1 DEF TakeTask, ReportInv, Reported, CompletedIsFinal
    <2> QED
      BY <1>3, <2>1, <2>2, <2>3 DEF TakeTask, StartTask, NextTurn
  <1>4. CASE EndpointAllocated
    <2>1. dlg = "none"
      BY <1>4 DEF EndpointAllocated, ReportInv
    <2>2. CASE UNCHANGED <<dlg, notified>> /\ pc' \in {"running", "answering"}
      BY <1>4, <2>1, <2>2 DEF EndpointAllocated, ReportInv, Reported, CompletedIsFinal
    <2>3. CASE /\ notified' = Notified("no-answer") /\ UNCHANGED dlg
               /\ pc' = "clearing"
               /\ finalSent' = IF finalSent = "none" THEN "failure" ELSE finalSent
      BY <1>2, <2>1, <2>3 DEF Statuses
    <2> QED
      BY <1>4, <2>2, <2>3 DEF EndpointAllocated, StartTask
  <1>5. CASE AllocationFails
    <2>1. dlg = "none" /\ UNCHANGED dlg /\ pc' \in {"top", "waiting"}
      BY <1>5 DEF AllocationFails, NextTurn, ReportInv
    <2>2. CASE UNCHANGED <<finalSent, notified, callGone>>
      BY <1>1, <1>5, <2>1, <2>2 DEF AllocationFails
    <2>3. CASE notified' = Notified("failed")
      BY <1>2, <2>1, <2>3 DEF Statuses
    <2> QED
      BY <1>5, <2>2, <2>3 DEF AllocationFails
  <1>6. CASE Answered
    <2>1. ~Reported("in-progress") /\ ~Reported("completed")
      BY <1>6 DEF Answered, ReportInv, CompletedIsFinal, Reported, Range
    <2>2. CompletedIsFinal' /\ Range(notified') = Range(notified) \cup {"in-progress"}
      BY <1>6, <2>1, ReportAdded DEF Answered, SipInv, ReportInv, Statuses
    <2>3. ep
      BY <1>6 DEF Answered, ReportInv
    <2> QED
      BY <1>6, <2>1, <2>2, <2>3 DEF Answered, StartTask, ReportInv, Reported
  <1>7. CASE TasksExhausted \/ TaskThrows
    BY <1>7, LeaveLoopReports DEF TasksExhausted, TaskThrows
  <1>8. CASE AnswerFails
    <2>1. CASE pc = "answering" /\ UNCHANGED sipVars /\ NextTurn
      BY <1>1, <2>1 DEF NextTurn, sipVars
    <2>2. CASE pc = "upgrading" /\ LeaveLoop
      BY <2>2, LeaveLoopReports
    <2> QED
      BY <1>8, <2>1, <2>2 DEF AnswerFails
  <1>9. CASE TaskReturns
    BY <1>1, <1>9 DEF TaskReturns, NextTurn, sipVars
  <1>10. CASE HangupTask
    <2>1. dlg' = "destroyed" => Reported("in-progress")
      BY <1>10 DEF HangupTask, DestroyDialog, ReportInv, CompletedIsFinal, Reported, Range
    <2> QED
      BY <1>10, <2>1, DestroyedReports DEF HangupTask, NextTurn, ReportInv, SipInv
  <1>11. CASE DeclineTask
    <2>1. finalSent = "none" /\ ~Reported("in-progress")
      BY <1>11 DEF DeclineTask, SipInv, ReportInv
    <2>2. dlg = "none"
      BY <1>11, <2>1 DEF DeclineTask, ReportInv, SipInv, CompletedIsFinal, Reported, Range
    <2> QED
      BY <1>2, <1>11, <2>2 DEF DeclineTask, NextTurn, Statuses
  <1>12. CASE ResourcesCleared
    BY <1>12 DEF ResourcesCleared, ReportInv, SipInv, Reported, CompletedIsFinal
  <1> QED
    BY <1>3, <1>4, <1>5, <1>6, <1>7, <1>8, <1>9, <1>10, <1>11, <1>12 DEF Exec

LEMMA ReportStep == LoopInv /\ SipInv /\ ReportInv /\ [Next]_vars => ReportInv'
  <1> SUFFICES ASSUME LoopInv, SipInv, ReportInv, [Next]_vars PROVE ReportInv'
    OBVIOUS
  <1>1. ASSUME UNCHANGED sipVars, pc' = pc \/ (pc = "waiting" /\ pc' = "top")
        PROVE  ReportInv'
    BY <1>1, UndisturbedReports DEF Undisturbed, SipInv, sipVars
  <1>2. ASSUME CallReleased \/ Wake
        PROVE  pc' = pc \/ (pc = "waiting" /\ pc' = "top")
    BY <1>2 DEF CallReleased, Wake, LoopInv, ResolverMatchesWait
  <1>3. ASSUME NEW app, ReplaceApplication(app)
        PROVE  pc' = pc \/ (pc = "waiting" /\ pc' = "top")
    BY <1>2, <1>3 DEF ReplaceApplication, loopVars
  <1>4. ASSUME JambonzHangup PROVE ReportInv'
    BY <1>2, <1>4, UndisturbedReports DEF JambonzHangup, Undisturbed, SipInv
  <1>5. CASE Exec
    BY <1>5, ExecReports
  <1>6. CASE Sip
    <2>1. CASE Cancel
      <3>1. ~Reported("in-progress") /\ ~Reported("completed")
        BY <2>1 DEF Cancel, InviteOpen, ReportInv, CompletedIsFinal, Reported, Range
      <3>2. CompletedIsFinal' /\ Range(notified') = Range(notified) \cup {"no-answer"}
        BY <2>1, <3>1, ReportAdded DEF Cancel, SipInv, ReportInv, Statuses
      <3> QED
        BY <1>2, <2>1, <3>1, <3>2 DEF Cancel, ReportInv, Reported
    <2>2. CASE CallerHungup
      <3>1. Reported("in-progress")
        BY <2>2 DEF CallerHungup, ReportInv, CompletedIsFinal, Reported, Range
      <3>2. CompletedIsFinal' /\ Range(notified') = Range(notified) \cup {"completed"}
        BY <2>2, <3>1, ReportAdded DEF CallerHungup, SipInv, ReportInv, Statuses
      <3> QED
        BY <1>2, <2>2, <3>1, <3>2 DEF CallerHungup, ReportInv, Reported
    <2>3. CASE DeclineSent \/ NoAnswerRequested
      BY <1>2, <2>3, UndisturbedReports
      DEF DeclineSent, NoAnswerRequested, Undisturbed, SipInv
    <2>4. CASE HangupRequested
      BY <1>4, <2>4 DEF HangupRequested
    <2> QED
      BY <1>6, <2>1, <2>2, <2>3, <2>4 DEF Sip
  <1>7. CASE Application
    <2>1. CASE ReconnectError
      BY <1>4, <2>1 DEF ReconnectError
    <2> QED
      BY <1>7, <1>1, <1>2, <1>3, <2>1
      DEF Application, CommandReplace, CommandQueue, CallHookReply, CallHookRequested,
          CallHookNoTasks, ActionHookReply, BargeIn, WsClosed, loopVars
  <1>8. CASE Filler
    <2>1. CASE GiveUpTimer
      BY <1>1, <1>3, <1>4, <2>1 DEF GiveUpTimer, loopVars
    <2> QED
      BY <1>8, <1>1, <1>2, <2>1
      DEF Filler, NoResponseTimer, FillerActionFails, PlaybackStop, loopVars
  <1>9. CASE UNCHANGED vars
    BY <1>1, <1>9 DEF vars, loopVars
  <1>10. CASE Gathering
    BY <1>1, <1>10 DEF Gathering, GatherAsks, GatherReply, GatherToldNothing,
       BackgroundResolves, loopVars
  <1> QED
    BY <1>5, <1>6, <1>7, <1>8, <1>9, <1>10 DEF Next

------------------------------------------------------------------------------
(* When the filler timers run.                                              *)

(* Every method that stops the processor leaves no timer it refers to, and  *)
(* no method but start() makes a processor run that did not.                *)
LEMMA StoppedUnarmed ==
  ASSUME NEW a, AhdOK(a), NEW w \in Waiters
  PROVE  ~Armed(Stopped(a, w)) /\ ~Armed(Halted(a, w))
  BY DEF AhdOK, AhdStates, Armed, Stopped, Halted

LEMMA GaveUpUnarmed ==
  ASSUME NEW a, AhdOK(a)
  PROVE  /\ ~Armed(GaveUp(a)) /\ ~Armed(GaveUpWithTasks(a, FALSE))
         /\ ~a.present => ~Armed([a EXCEPT !.active = FALSE, !.giveUp = FALSE])
  <1>1. ~Armed(Halted(a, "anon")) /\ ~Armed(Halted(a, "clear"))
    BY StoppedUnarmed DEF Waiters
  <1>2. AhdOK(Halted(a, "clear"))
    BY HaltedOK DEF Waiters
  <1>3. ~Armed(GaveUpWithTasks(a, FALSE))
    BY <1>1, <1>2 DEF GaveUpWithTasks, Armed, AhdOK, AhdStates
  <1>4. ~a.present => ~Armed([a EXCEPT !.active = FALSE, !.giveUp = FALSE])
    BY DEF Armed, AhdOK, AhdStates
  <1> QED
    BY <1>1, <1>3, <1>4 DEF GaveUp

LEMMA FiredArmed ==
  ASSUME NEW a, AhdOK(a), NEW e \in BOOLEAN
  PROVE  /\ Armed(NoResponseFired(a, e)) => Armed(a)
         /\ Armed(ActionFailed(a)) => Armed(a)
         /\ Armed(PlaybackStopped(a)) => Armed(a)
  <1>1. Armed(NoResponseFired(a, e)) => Armed(a)
    BY DEF NoResponseFired, Armed, AhdOK, AhdStates
  <1>2. Armed(ActionFailed(a)) => Armed(a)
    BY DEF ActionFailed, Armed, AhdOK, AhdStates
  <1>3. Armed(PlaybackStopped(a)) => Armed(a)
    BY DEF PlaybackStopped, Rearmed, Armed, AhdOK, AhdStates
  <1> QED
    BY <1>1, <1>2, <1>3

LEMMA FillerStep ==
  LoopInv /\ SipInv /\ HookInv /\ FillerInv /\ [Next]_vars => FillerInv'
  <1> SUFFICES ASSUME LoopInv, SipInv, HookInv, FillerInv, [Next]_vars
               PROVE  FillerInv'
    OBVIOUS
  <1>1. ASSUME ~Armed(ahd') PROVE FillerInv'
    BY <1>1 DEF FillerInv
  <1>2. ASSUME Armed(ahd') => Armed(ahd), UNCHANGED tasks, callGone => callGone',
               pc' = pc \/ (pc = "waiting" /\ pc' = "top"), owed => owed'
        PROVE  FillerInv'
    BY <1>2 DEF FillerInv
  <1>3. ASSUME CallReleased \/ Wake
        PROVE  pc' = pc \/ (pc = "waiting" /\ pc' = "top")
    BY <1>3 DEF CallReleased, Wake, LoopInv, ResolverMatchesWait
  <1>4. ASSUME CallReleased, UNCHANGED <<tasks, ahd, owed>> PROVE FillerInv'
    BY <1>2, <1>3, <1>4 DEF CallReleased
  <1>0. AhdOK(ahd) /\ AhdOK(AhdAfterKill)
    BY KilledOK DEF HookInv
  <1>5. ASSUME NEW h \in Handlers, NEW kind,
               StopAhd(ahd, h, kind) \/ StopAhd(AhdAfterKill, h, kind)
        PROVE  FillerInv'
    BY <1>0, <1>1, <1>5, StoppedUnarmed DEF StopAhd, Waiters
  <1>6. ASSUME ~Armed(ahd) \/ owed, NextTurn PROVE FillerInv'
    BY <1>6 DEF NextTurn, FillerInv
  <1>7. CASE Exec
    <2>1. CASE pc' \in {"clearing", "done"}
      BY <2>1 DEF FillerInv
    <2>2. CASE TakeTask
      <3>1. ~Armed(ahd) \/ owed
        BY <2>2 DEF TakeTask, FillerInv
      <3> QED
        BY <2>2, <3>1, <1>6 DEF TakeTask, FillerInv
    <2>3. ASSUME pc \in {"allocating", "answering", "upgrading", "running"},
                 NextTurn \/ UNCHANGED <<ahd, owed>>
          PROVE  FillerInv'
      BY <2>3, <1>6 DEF FillerInv
    <2> QED
      BY <1>7, <2>1, <2>2, <2>3
      DEF Exec, TasksExhausted, EndpointAllocated, AllocationFails, Answered,
          AnswerFails, TaskReturns, TaskThrows, HangupTask, DeclineTask,
          ResourcesCleared, LeaveLoop, hookVars
  <1>8. CASE Sip
    BY <1>8, <1>4 DEF Sip, Cancel, CallerHungup, DeclineSent, HangupRequested,
       NoAnswerRequested, JambonzHangup, appVars, hookVars
  <1>9. CASE Application
    <2>1. ASSUME NEW h \in Handlers, CallHookNoTasks(h) PROVE FillerInv'
      BY <2>1, <1>2, <1>5 DEF CallHookNoTasks, appVars
    <2>2. ASSUME NEW app, ActionHookReply(app) PROVE FillerInv'
      BY <2>2 DEF ActionHookReply, hookVars, FillerInv, ReplaceApplication,
         KillCurrent, Wake, loopVars, LoopInv, ResolverMatchesWait
    <2>3. CASE BargeIn
      <3>1. tasks = <<>> => tasks' = <<>>
        BY <2>3 DEF BargeIn
      <3>2. owed' \/ ahd' = ahd
        BY <2>3 DEF BargeIn, AhdAfterKill
      <3> QED
        BY <2>3, <3>1, <3>2 DEF BargeIn, FillerInv
    <2>4. ASSUME NEW h \in Handlers, CallHookRequested(h) PROVE FillerInv'
      BY <2>4, <1>2 DEF CallHookRequested, loopVars, appVars
    <2>5. CASE WsClosed \/ ReconnectError
      BY <2>5, <1>2, <1>4
      DEF WsClosed, ReconnectError, JambonzHangup, loopVars, appVars
    <2> QED
      BY <1>9, <1>5, <2>1, <2>2, <2>3, <2>4, <2>5
      DEF Application, CommandReplace, CommandQueue, CallHookReply
  <1>10. CASE Filler
    <2>1. AhdOK(ahd) /\ ep \in BOOLEAN
      BY DEF HookInv, SipInv
    <2>2. CASE NoResponseTimer \/ FillerActionFails
      BY <2>1, <2>2, <1>2, FiredArmed
      DEF NoResponseTimer, FillerActionFails, loopVars, appVars
    <2>3. CASE PlaybackStop
      BY <2>1, <2>3, <1>2, <1>3, FiredArmed DEF PlaybackStop, appVars
    <2>4. CASE GiveUpTimer
      <3>1. CASE Restarts /\ owed'
        BY <3>1 DEF FillerInv
      <3>2. CASE ahd' = GaveUpWithTasks(ahd, FALSE) \/ ahd' = GaveUp(ahd)
        BY <2>1, <3>2, <1>1, GaveUpUnarmed
      <3>3. CASE /\ ahd' = [ahd EXCEPT !.active = FALSE, !.giveUp = FALSE]
                 /\ ~ahd.present
        BY <2>1, <3>3, <1>1, GaveUpUnarmed
      <3>4. Restarts \in BOOLEAN
        BY DEF Restarts, SipInv
      <3> QED
        BY <2>4, <3>1, <3>2, <3>3, <3>4 DEF GiveUpTimer
    <2> QED
      BY <1>10, <2>2, <2>3, <2>4 DEF Filler
  <1>11. CASE UNCHANGED vars
    BY <1>2, <1>11 DEF vars, loopVars, appVars, hookVars
  <1>12. CASE Gathering
    <2>1. CASE GatherAsks \/ BackgroundResolves
      BY <1>2, <2>1 DEF GatherAsks, BackgroundResolves, FillerInv, appVars, loopVars
    <2>2. CASE GatherToldNothing
      BY <1>2, <2>2 DEF GatherToldNothing, appVars, hookVars
    <2>3. ASSUME NEW app, GatherReply(app) PROVE FillerInv'
      BY <1>0, <1>1, <2>3, StoppedUnarmed DEF GatherReply, Waiters
    <2> QED
      BY <1>12, <2>1, <2>2, <2>3 DEF Gathering
  <1> QED
    BY <1>7, <1>8, <1>9, <1>10, <1>11, <1>12 DEF Next

------------------------------------------------------------------------------
LEMMA InitIInv == Init => IInv
  <1> SUFFICES ASSUME Init PROVE IInv
    OBVIOUS
  <1> USE SessionAssumption, AhdAssumption
  <1>1. LoopInv
    BY DEF Init, LoopInv, PcStates, GatherStates, ResolverMatchesWait,
       RunningTaskKillable
  <1>2. AppInv
    <2>1. PICK app \in Apps : tasks = TasksOf(app, 0)
      BY DEF Init
    <2>2. app \in Seq(VerbNames)
      BY <2>1
    <2> QED
      BY <2>1, <2>2, TasksOfType DEF Init, AppInv, QueueIsCurrent
  <1>3. SipInv
    <2>1. notified \in Seq(Statuses)
      <3>1. <<"trying">> \in Seq(Statuses) /\ <<"no-answer", "trying">> \in Seq(Statuses)
        BY DEF Statuses
      <3> QED
        BY <3>1 DEF Init
    <2> QED
      BY <2>1 DEF Init, SipInv
  <1>4. HookInv
    <2>1. AhdOK(FreshAhd(AhdEnabled))
      BY DEF FreshAhd, AhdOK, AhdStates, Waiters
    <2> QED
      BY <2>1 DEF Init, HookInv, HandlerStates
  <1>5. ReportInv
    BY DEF Init, ReportInv, CompletedIsFinal, Reported, Range
  <1>6. FillerInv
    BY DEF Init, FillerInv, Armed, FreshAhd
  <1> QED
    BY <1>1, <1>2, <1>3, <1>4, <1>5, <1>6 DEF IInv

(* The inductive invariant holds in every reachable state.                  *)
THEOREM Invariance == Spec => []IInv
  <1>1. IInv /\ [Next]_vars => IInv'
    BY LoopStep, AppStep, SipStep, HookStep, ReportStep, FillerStep DEF IInv
  <1> QED
    BY <1>1, InitIInv, PTL DEF Spec

(* The state has its types: in particular the bookkeeping of the filler     *)
(* timers never goes below zero.                                            *)
THEOREM TypeCorrect == Spec => []TypeOK
  <1>1. IInv => TypeOK
    BY DEF IInv, LoopInv, AppInv, SipInv, HookInv, AhdOK, TypeOK
  <1> QED
    BY <1>1, Invariance, PTL

(* _awaitCommandsOrHangup: assert(!this.wakeupResolver) never fails, and    *)
(* the resolver is set exactly while exec() waits.                          *)
THEOREM WaitCorrect == Spec => []ResolverMatchesWait
  <1>1. IInv => ResolverMatchesWait
    BY DEF IInv, LoopInv
  <1> QED
    BY <1>1, Invariance, PTL

(* _callReleased, replaceApplication and kill find every started task in    *)
(* currentTask unless it was killed before.                                 *)
THEOREM KillCorrect == Spec => []RunningTaskKillable
  <1>1. IInv => RunningTaskKillable
    BY DEF IInv, LoopInv
  <1> QED
    BY <1>1, Invariance, PTL

(* replaceApplication leaves no task of an earlier application in the queue. *)
THEOREM FlushCorrect == Spec => []QueueIsCurrent
  <1>1. IInv => QueueIsCurrent
    BY DEF IInv, AppInv
  <1> QED
    BY <1>1, Invariance, PTL

(* However the two ends hang up at the same time, completed is reported     *)
(* once, after in-progress, and nothing after it.                           *)
THEOREM CompletedCorrect == Spec => []CompletedIsFinal
  <1>1. IInv => CompletedIsFinal
    BY DEF IInv, ReportInv
  <1> QED
    BY <1>1, Invariance, PTL

(* _onTasksDone and _clearResources: an answered call was reported          *)
(* completed, and an INVITE that was not canceled has its final response.   *)
THEOREM LeftInOrderCorrect == Spec => []LeftInOrder
  <1>1. IInv => LeftInOrder
    BY DEF IInv, LoopInv, SipInv, ReportInv, LeftInOrder
  <1> QED
    BY <1>1, Invariance, PTL

(* Every sender of a final response has seen that none was sent.            *)
LEMMA FinalResponseStep == IInv /\ [Next]_vars => [finalSent = "none"]_finalSent
  <1> SUFFICES ASSUME IInv, [Next]_vars, finalSent # "none"
               PROVE  finalSent' = finalSent
    OBVIOUS
  <1>1. CASE Exec
    <2>1. CASE DeclineTask
      BY <2>1 DEF DeclineTask, IInv, SipInv
    <2> QED
      BY <1>1, <2>1 DEF Exec, TasksExhausted, TakeTask, EndpointAllocated, InviteOpen,
         AllocationFails, Answered, AnswerFails, TaskReturns, TaskThrows, HangupTask,
         ResourcesCleared, LeaveLoop, sipVars
  <1>2. CASE Sip
    BY <1>2 DEF Sip, Cancel, CallerHungup, DeclineSent, HangupRequested,
       NoAnswerRequested, JambonzHangup
  <1>3. CASE Application \/ Filler \/ Gathering
    BY <1>3 DEF Gathering, GatherAsks, GatherReply, GatherToldNothing, BackgroundResolves,
        Application, Filler, CommandReplace, CommandQueue, CallHookReply,
       CallHookRequested, CallHookNoTasks, ActionHookReply, BargeIn, WsClosed,
       ReconnectError, NoResponseTimer, FillerActionFails, PlaybackStop, GiveUpTimer,
       JambonzHangup, sipVars
  <1>4. CASE UNCHANGED vars
    BY <1>4 DEF vars, sipVars
  <1> QED
    BY <1>1, <1>2, <1>3, <1>4 DEF Next

(* The INVITE gets at most one final response.                              *)
THEOREM OneFinalResponseCorrect == Spec => OneFinalResponse
  <1> QED
    BY FinalResponseStep, Invariance, PTL DEF Spec, OneFinalResponse

(* An application that is delivered has verbs.                              *)
LEMMA DeliveredTasks ==
  ASSUME NEW app \in Seq(VerbNames), app # NoApp, NEW g \in Nat,
         NEW queue \in Seq(Tasks)
  PROVE  TasksOf(app, g) # <<>> /\ queue \o TasksOf(app, g) # <<>>
  <1>1. Len(app) > 0
    BY DEF NoApp
  <1>2. TasksOf(app, g) \in Seq(Tasks) /\ Len(TasksOf(app, g)) = Len(app)
    BY TasksOfType DEF TasksOf
  <1>3. Len(queue \o TasksOf(app, g)) = Len(queue) + Len(app)
    BY <1>2
  <1> QED
    BY <1>1, <1>2, <1>3

(* A wakeup brings verbs or the end of the call, or is that of a late       *)
(* command.                                                                 *)
LEMMA WokenStep ==
  ASSUME AppInv, [Next]_vars, pc = "waiting", pc' = "top"
  PROVE  tasks' # <<>> \/ callGone' \/ \E h \in Handlers : handler[h] = "command"
  <1> USE SessionAssumption
  <1>1. stackIdx \in Nat /\ stackIdx + 1 \in Nat /\ tasks \in Seq(Tasks)
    BY DEF AppInv
  <1>2. ASSUME NEW app \in Seq(VerbNames), app # NoApp, ReplaceApplication(app)
        PROVE  tasks' # <<>>
    BY <1>1, <1>2, DeliveredTasks DEF ReplaceApplication, loopVars
  <1>3. CASE CallReleased
    BY <1>3 DEF CallReleased
  <1>4. CASE Exec
    BY <1>4 DEF Exec, TasksExhausted, TakeTask, EndpointAllocated, AllocationFails,
       Answered, AnswerFails, TaskReturns, TaskThrows, HangupTask, DeclineTask,
       ResourcesCleared
  <1>5. CASE Sip
    BY <1>3, <1>5 DEF Sip, Cancel, CallerHungup, DeclineSent, HangupRequested,
       NoAnswerRequested, JambonzHangup
  <1>6. CASE Application
    <2>1. ASSUME NEW h \in Handlers, NEW app \in Apps, CommandQueue(h, app)
          PROVE  tasks' # <<>>
      BY <1>1, <2>1, DeliveredTasks DEF CommandQueue
    <2> QED
      BY <1>2, <1>3, <1>6, <2>1
      DEF Application, CommandReplace, CallHookReply, CallHookRequested,
          CallHookNoTasks, ActionHookReply, BargeIn, WsClosed, ReconnectError,
          JambonzHangup, loopVars
  <1>7. CASE Filler
    <2>1. CASE PlaybackStop
      BY <2>1 DEF PlaybackStop
    <2> QED
      BY <1>2, <1>3, <1>7, <2>1
      DEF Filler, NoResponseTimer, FillerActionFails, GiveUpTimer, JambonzHangup, loopVars
  <1>8. CASE Gathering
    BY <1>8 DEF Gathering, GatherAsks, GatherReply, GatherToldNothing,
       BackgroundResolves, loopVars
  <1> QED
    BY <1>4, <1>5, <1>6, <1>7, <1>8 DEF Next, vars, loopVars

(* No event wakes a waiting session to find nothing to do, but a command    *)
(* that waited for a filler action.                                         *)
THEOREM WokenCorrect == Spec => WokenForAReason
  <1>1. IInv /\ [Next]_vars =>
          [(pc = "waiting" /\ pc' = "top") =>
             tasks' # <<>> \/ callGone' \/ \E h \in Handlers : handler[h] = "command"]_vars
    BY WokenStep DEF IInv
  <1> QED
    BY <1>1, Invariance, PTL DEF Spec, WokenForAReason

(* The retry count grows when a filler action starts, and only then.        *)
LEMMA FillerStarts ==
  ASSUME HookInv, SipInv, FillerInv, [Next]_vars, ahd'.retryCount > ahd.retryCount,
         ahd.present /\ ahd.held
  PROVE  pc \in {"waiting", "clearing", "done"} \/ owed
  <1>1. CASE pc = "top"
    <2>1. ahd.retryCount \in Nat
      BY DEF HookInv, AhdOK, AhdStates
    <2>2. ~(0 > ahd.retryCount) /\ ~(ahd.retryCount > ahd.retryCount)
      BY <2>1
    <2>3. Started(ahd).retryCount \in {0, ahd.retryCount}
      BY DEF Started, Rearmed, HookInv, AhdOK, AhdStates
    <2>4. Exec \/ UNCHANGED vars
      BY <1>1 DEF Next, Sip, Application, Filler, Cancel, CallerHungup, DeclineSent,
         HangupRequested, NoAnswerRequested, CommandReplace, CommandQueue,
         CallHookReply, CallHookRequested, CallHookNoTasks, ActionHookReply, BargeIn,
         WsClosed, ReconnectError, Gathering, GatherAsks, GatherReply,
         GatherToldNothing, BackgroundResolves, NoResponseTimer, FillerActionFails,
         PlaybackStop, GiveUpTimer, Settled
    <2>5. ahd' = ahd \/ ahd' = Started(ahd)
      BY <1>1, <2>4 DEF Exec, TasksExhausted, TakeTask, EndpointAllocated,
         AllocationFails, Answered, AnswerFails, TaskReturns, TaskThrows, HangupTask,
         DeclineTask, ResourcesCleared, NextTurn, LeaveLoop, hookVars, vars
    <2> QED
      BY <2>2, <2>3, <2>5
  <1>2. CASE pc # "top"
    BY <1>2 DEF FillerInv, Armed
  <1> QED
    BY <1>1, <1>2

(* By a timer that the processor knows, a filler action starts only while   *)
(* the loop waits for commands, or ends, or after a gather has left the     *)
(* processor running and no verbs have stopped it.                          *)
THEOREM FillerCorrect == Spec => NoFillerOverTask
  <1>1. IInv /\ [Next]_vars =>
          [(ahd'.retryCount > ahd.retryCount /\ ahd.present /\ ahd.held) =>
             pc \in {"waiting", "clearing", "done"} \/ owed]_vars
    BY FillerStarts DEF IInv
  <1> QED
    BY <1>1, Invariance, PTL DEF Spec, NoFillerOverTask
==============================================================================
