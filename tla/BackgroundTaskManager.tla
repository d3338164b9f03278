------------------------- MODULE BackgroundTaskManager -------------------------
(****************************************************************************)
(* lib/utils/background-task-manager.js and what call-session.js and        *)
(* config.js do with it: tasks that run beside the verbs of a call.  A      *)
(* background gather hears the caller barge in and then kills the verb that *)
(* runs and the verbs behind it (bot mode); a sticky one is started again   *)
(* each time it ends.  At most one task of a type is meant to be running.   *)
(*                                                                          *)
(* newTask() awaits its preconditions before it registers the task, and     *)
(* exec() of a task that is stopped, or that reports to its action hook,    *)
(* returns in a later turn; other calls may come between.  The manager      *)
(* knows one task of a type, so these calls race; history variable raced    *)
(* says for which types they did, and the properties say that nothing else  *)
(* goes wrong.  Left out: tasks whose preconditions fail, and the siprec    *)
(* recorder.                                                                *)
(****************************************************************************)
EXTENDS Naturals, Sequences, FiniteSets, SequencesExt

CONSTANTS
  OtherTypes, \* the types used besides "bargeIn": "listen", "record",
              \* "transcribe" (ttsStream is like listen)
  Stacks,     \* the stacks of verbs a session may have
  MaxTasks,   \* bound on the tasks made
  MaxEnables  \* bound on the calls of enableBotMode()

Types == {"bargeIn"} \cup OtherTypes
Ids == 1..MaxTasks
None == 0

(* Verbs on the session's stack: "off" is a config that disables bot mode,  *)
(* "spent" one whose flag was deleted.                                      *)
ASSUME BackgroundAssumption ==
  /\ OtherTypes \subseteq {"listen", "record", "transcribe"}
  /\ Stacks \subseteq Seq({"verb", "off"})
  /\ {MaxTasks, MaxEnables} \subseteq Nat

VARIABLES
  tasks,     \* this.tasks, the Map from types to tasks
  task,      \* the tasks made so far, see TaskStates
  handled,   \* this._bargeInHandled
  listeners, \* listeners to "bargeIn-done", each of them kills
  enables,   \* calls of enableBotMode()
  stack,     \* the session's verbs, the current one first
  wish,      \* the last bot mode that was enabled, or "off"
  call,      \* "up", "gone", "cleared" once stopAll() has run
  raced      \* history: types made, or disabled, while another task of the
             \* type was alive that is not registered

(* A task starts in "init"; a gather that resolved is "ending" until its    *)
(* action hook has replied, a task that was stopped until exec() returns.   *)
(* owner is who awaits newTask(), which then wants the task to be sticky.   *)
TaskStates ==
  [type : Types, at : {"init", "running", "ending", "over"}, sticky : BOOLEAN,
   input : {"speech", "digits"}, listening : BOOLEAN, stopped : BOOLEAN,
   owner : {"none", "enable", "restart"}, wants : BOOLEAN]

TypeOK ==
  /\ tasks \in [Types -> Ids \cup {None}]
  /\ task \in Seq(TaskStates) /\ Len(task) <= MaxTasks
  /\ handled \in BOOLEAN /\ listeners \in 0..MaxEnables
  /\ enables \in 0..MaxEnables /\ stack \in Seq({"verb", "off", "spent"})
  /\ wish \in {"off", "plain", "sticky"} /\ call \in {"up", "gone", "cleared"}
  /\ raced \subseteq Types

vars == <<tasks, task, handled, listeners, enables, stack, wish, call, raced>>

Init ==
  /\ tasks = [y \in Types |-> None] /\ task = <<>>
  /\ handled = FALSE /\ listeners = 0 /\ enables = 0
  /\ stack \in Stacks /\ wish = "off" /\ call = "up" /\ raced = {}

Has(y) == tasks[y] # None
Running == {i \in DOMAIN task : task[i].at = "running"}

(* A task of the type that was stopped and still ends, or that awaits its   *)
(* preconditions, is alive behind the manager's back.                       *)
Unregistered(m, s, y, at) ==
  \E i \in DOMAIN s : s[i].type = y /\ s[i].at \in at /\ m[y] # i
Racing(m, s, y) ==
  IF Unregistered(m, s, y, {"init", "running", "ending"}) THEN raced \cup {y} ELSE raced

------------------------------------------------------------------------------
(* newTask() and stop().                                                    *)

(* newTask() up to its await.                                               *)
NewTask(made, y, input, owner, wants) ==
  Append(made, [type |-> y, at |-> "init", sticky |-> FALSE, input |-> input,
                listening |-> y = "bargeIn", stopped |-> FALSE,
                owner |-> owner, wants |-> wants])

(* stop() of a task: nobody listens to it any more, it is killed and no     *)
(* longer registered.                                                       *)
Stopped(t) ==
  [t EXCEPT !.listening = FALSE, !.stopped = TRUE,
            !.at = IF @ = "running" THEN "ending" ELSE @]
StoppedTasks(types) ==
  [i \in DOMAIN task |->
     IF \E y \in types : tasks[y] = i THEN Stopped(task[i]) ELSE task[i]]

(* Mutant of MayStart: it does not look whether the type is running.        *)
MayStartAnyhow(y) == call = "up"

(* newTask("record") when the call is answered or a cloud recording is      *)
(* asked for, and startBackgroundTask() for the other types.                *)
MayStart(y) == call = "up" /\ ~Has(y)
Start(y) ==
  /\ y # "bargeIn" /\ MayStart(y)
  /\ Len(task) < MaxTasks
  /\ task' = NewTask(task, y, "speech", "none", FALSE)
  /\ raced' = Racing(tasks, task, y)
  /\ UNCHANGED <<tasks, handled, listeners, enables, stack, wish, call>>

(* stopBackgroundTask(), and stop("record") when the call is completed or   *)
(* the recording is to end.                                                 *)
Stop(y) ==
  /\ y # "bargeIn" /\ call # "cleared" /\ Has(y)
  /\ task' = StoppedTasks({y})
  /\ tasks' = [tasks EXCEPT ![y] = None]
  /\ UNCHANGED <<handled, listeners, enables, stack, wish, call, raced>>

(* newTask() goes on: the task is executed and registered, whatever is      *)
(* registered by now.  enableBotMode() and the restart make it sticky, and  *)
(* enableBotMode() adds a listener.                                         *)
Registered(i) ==
  /\ i \in DOMAIN task /\ task[i].at = "init"
  /\ tasks' = [tasks EXCEPT ![task[i].type] = i]
  /\ task' = [task EXCEPT ![i].at = "running", ![i].sticky = task[i].wants]
  /\ listeners' = IF task[i].owner = "enable" THEN listeners + 1 ELSE listeners
  /\ UNCHANGED <<handled, enables, stack, wish, call, raced>>

------------------------------------------------------------------------------
(* Bot mode.                                                                *)

(* enableBotMode(): ignored if bot mode is on with the same input, else the *)
(* present gather makes way.                                                *)
EnableBotMode(input, sticky) ==
  /\ call = "up" /\ enables < MaxEnables /\ Len(task) < MaxTasks
  /\ enables' = enables + 1
  /\ LET i == tasks["bargeIn"]
         old == StoppedTasks({"bargeIn"})
     IN  \/ /\ Has("bargeIn") /\ task[i].input = input
            /\ UNCHANGED <<tasks, task, wish, raced>>
         \/ /\ Has("bargeIn") => task[i].input # input
            /\ tasks' = [tasks EXCEPT !["bargeIn"] = None]
            /\ task' = NewTask([j \in DOMAIN old |->
                                  IF j = i THEN [old[j] EXCEPT !.sticky = FALSE]
                                  ELSE old[j]],
                               "bargeIn", input, "enable", sticky)
            /\ wish' = IF sticky THEN "sticky" ELSE "plain"
            /\ raced' = Racing(tasks', old, "bargeIn")
  /\ UNCHANGED <<handled, listeners, stack, call>>

(* A gather that is being made is not found by disableBotMode().            *)
Missed ==
  IF Unregistered(tasks, task, "bargeIn", {"init", "running"})
  THEN raced \cup {"bargeIn"} ELSE raced

(* Mutant of DisableBotMode: the gather stays sticky.                       *)
DisableOnly ==
  /\ call = "up"
  /\ wish' = "off"
  /\ task' = StoppedTasks({"bargeIn"})
  /\ tasks' = [tasks EXCEPT !["bargeIn"] = None]
  /\ raced' = Missed
  /\ UNCHANGED <<handled, listeners, enables, stack, call>>

(* disableBotMode()                                                         *)
DisableBotMode ==
  /\ call = "up"
  /\ wish' = "off"
  /\ LET old == StoppedTasks({"bargeIn"})
     IN  task' = [i \in DOMAIN old |->
                    IF i = tasks["bargeIn"] THEN [old[i] EXCEPT !.sticky = FALSE]
                    ELSE old[i]]
  /\ tasks' = [tasks EXCEPT !["bargeIn"] = None]
  /\ raced' = Missed
  /\ UNCHANGED <<handled, listeners, enables, stack, call>>

(* kill(true) of the session: the current verb and those behind it are      *)
(* dropped up to a config that disables bot mode, whose flag is deleted.    *)
Kill(s) ==
  LET off == SelectInSeq(s, LAMBDA v : v = "off")
  IN  IF off = 0 THEN <<>> ELSE [SubSeq(s, off, Len(s)) EXCEPT ![1] = "spent"]
Killed(times) ==
  LET kill[n \in 0..times] == IF n = 0 THEN stack ELSE Kill(kill[n - 1])
  IN  kill[times]

(* _bargeInTaskCompleted() on an event of the background gather: "vad" is   *)
(* voice, after which it goes on, "transcription" and "dtmf" resolve it.    *)
BargeIn(i, resolves) ==
  /\ i \in Running /\ task[i].type = "bargeIn"
  /\ task[i].listening /\ call = "up"
  /\ handled' = TRUE
  /\ stack' = IF handled THEN stack ELSE Killed(listeners)
  /\ task' = IF resolves THEN [task EXCEPT ![i].at = "ending"] ELSE task
  /\ UNCHANGED <<tasks, listeners, enables, wish, call, raced>>

(* exec() of a task returns or fails: _taskCompleted() and _taskError()     *)
(* drop whichever task of the type is registered.  A sticky gather that     *)
(* did not fail is started again.                                           *)
Completed(i) == [task EXCEPT ![i].at = "over", ![i].listening = FALSE]

(* Mutant of Restarts: a gather that was heard is not started again.        *)
RestartsUnheard(i) == /\ task[i].type = "bargeIn" /\ task[i].sticky
                      /\ call = "up" /\ ~handled
Restarts(i) == task[i].type = "bargeIn" /\ task[i].sticky /\ call = "up"

ExecReturns(i) ==
  /\ i \in DOMAIN task /\ task[i].at = "ending" /\ Len(task) < MaxTasks
  /\ LET y == task[i].type IN
     /\ tasks' = [tasks EXCEPT ![y] = None]
     /\ IF Restarts(i)
        THEN /\ task' = NewTask(Completed(i), y, task[i].input, "restart", TRUE)
             /\ handled' = FALSE /\ raced' = Racing(tasks', Completed(i), y)
        ELSE task' = Completed(i) /\ UNCHANGED <<handled, raced>>
  /\ UNCHANGED <<listeners, enables, stack, wish, call>>
ExecFails(i) ==
  /\ i \in Running
  /\ tasks' = [tasks EXCEPT ![task[i].type] = None]
  /\ task' = Completed(i)
  /\ wish' = IF task[i].type = "bargeIn" THEN "off" ELSE wish
  /\ UNCHANGED <<handled, listeners, enables, stack, call, raced>>

------------------------------------------------------------------------------
(* The call ends: _callReleased(), and stopAll() in _clearResources().      *)

CallGone ==
  /\ call = "up"
  /\ call' = "gone"
  /\ UNCHANGED <<tasks, task, handled, listeners, enables, stack, wish, raced>>
StopAll ==
  /\ call = "gone"
  /\ call' = "cleared"
  /\ task' = StoppedTasks(Types)
  /\ tasks' = [y \in Types |-> None]
  /\ UNCHANGED <<handled, listeners, enables, stack, wish, raced>>

Next ==
  \/ \E y \in Types : Start(y) \/ Stop(y)
  \/ \E input \in {"speech", "digits"}, sticky \in BOOLEAN : EnableBotMode(input, sticky)
  \/ DisableBotMode \/ CallGone \/ StopAll
  \/ \E i \in Ids :
       \/ Registered(i) \/ ExecReturns(i) \/ ExecFails(i)
       \/ \E resolves \in BOOLEAN : BargeIn(i, resolves)

Spec == Init /\ [][Next]_vars

------------------------------------------------------------------------------
(* Properties.                                                              *)

(* A task that runs is registered, so it is the only one of its type, and   *)
(* stop() and stopAll() find it: "close all background tasks".  Unless one  *)
(* of the type was made while another still awaited its preconditions, or   *)
(* still ended after it was stopped: newTask() does not see those, and the  *)
(* one that ends later drops the other from the Map, which runs on.         *)
RunningIsKnown ==
  \A i \in Running : task[i].type \notin raced => tasks[task[i].type] = i

(* A sticky gather survives every bargein, until bot mode is disabled or    *)
(* fails, or the call ends; but for the same race among gathers.            *)
StickyStays ==
  wish = "sticky" /\ call = "up" /\ "bargeIn" \notin raced
    => \E i \in DOMAIN task : /\ task[i].type = "bargeIn"
                              /\ task[i].at # "over" /\ ~task[i].stopped

(* Once bot mode is off, nobody's speech kills a verb; but for the race,    *)
(* and for a gather that disableBotMode() misses as it is not made yet.     *)
OffIsOff == [][wish = "off" /\ "bargeIn" \notin raced => stack' = stack]_vars
==============================================================================
