--------------------------- MODULE ActionHookDelay ---------------------------
(***************************************************************************)
(* lib/utils/action-hook-delay.js: the ActionHookDelayProcessor (AHD).     *)
(* While a call waits for its application it plays filler actions after a  *)
(* silence and gives up after a longer one.                                *)
(*                                                                         *)
(* The processor has no thread of its own: every method below runs to      *)
(* completion inside a callback of the call session, so it is modelled as  *)
(* functions from one state of the processor to the next; CallSession      *)
(* decides when they run.  Times are abstract: an armed timer may fire at  *)
(* any moment.                                                             *)
(***************************************************************************)
EXTENDS Naturals

CONSTANTS
  Handlers,           \* requests that may be suspended inside stop()
  NoResponseTimeout,  \* BOOLEAN: noResponseTimeout > 0
  GiveUpTimeout,      \* BOOLEAN: noResponseGiveUpTimeout > 0
  Retries             \* how often the filler action may be repeated

ASSUME AhdAssumption ==
  /\ NoResponseTimeout \in BOOLEAN
  /\ GiveUpTimeout \in BOOLEAN
  /\ Retries \in Nat
  /\ {"none", "clear", "anon", "gather"} \cap Handlers = {}

(* Who is suspended in stop(): nobody, a request handler, the running       *)
(* gather, the removal of the processor, or a caller that dropped the       *)
(* promise.                                                                 *)
Waiters == Handlers \cup {"none", "clear", "anon", "gather"}

(* timers  - how many no-response timers are pending                        *)
(* held    - _noResponseTimer refers to one of them                         *)
(* giveUp  - the give-up timer is pending                                   *)
(* action  - _taskInProgress is not null                                    *)
(* listeners - 'playback-stop' listeners on the endpoint                    *)
(* waiter  - whom _sayResolver resumes                                      *)
AhdStates ==
  [present : BOOLEAN, active : BOOLEAN, timers : Nat, held : BOOLEAN,
   giveUp : BOOLEAN, action : BOOLEAN, listeners : Nat, retryCount : Nat,
   waiter : Waiters]

FreshAhd(enabled) ==
  [present |-> enabled, active |-> FALSE, timers |-> 0, held |-> FALSE,
   giveUp |-> FALSE, action |-> FALSE, listeners |-> 0, retryCount |-> 0,
   waiter |-> "none"]

(* A new no-response timer; an older one that is still pending is no longer *)
(* referred to and can not be cancelled.                                    *)
Rearmed(a, n) ==
  [a EXCEPT !.timers = @ + n, !.held = IF n > 0 THEN TRUE ELSE @]

Started(a) ==
  IF ~a.present \/ a.active THEN a
  ELSE LET b == [a EXCEPT !.active = TRUE, !.retryCount = 0,
                          !.giveUp = IF GiveUpTimeout THEN TRUE ELSE @]
       IN  Rearmed(b, IF NoResponseTimeout THEN 1 ELSE 0)

(* stop() leaves its caller suspended only when an action is in progress.   *)
Suspends(a) == a.present /\ a.action

(* Mutant: stop() forgets the no-response timer.                            *)
StoppedButTimed(a, w) ==
  IF ~a.present THEN a
  ELSE [a EXCEPT !.active = FALSE, !.giveUp = FALSE,
                 !.waiter = IF a.action THEN w ELSE @]

(* stop(): an earlier waiter is overwritten, not resumed.                   *)
Halted(a, w) ==
  [a EXCEPT !.active = FALSE,
            !.timers = IF a.held THEN @ - 1 ELSE @,
            !.held   = FALSE,
            !.giveUp = FALSE,
            !.waiter = IF a.action THEN w ELSE @]

(* Callers of stop() look first whether the session has a processor.        *)
Stopped(a, w) == IF a.present THEN Halted(a, w) ELSE a

(* _onNoResponseTimer: no endpoint, no action; otherwise the action starts  *)
(* whether or not an earlier one is still playing.                          *)
NoResponseFired(a, ep) ==
  LET b == [a EXCEPT !.timers = @ - 1, !.held = FALSE] IN
  IF ~ep THEN [b EXCEPT !.active = FALSE]
  ELSE [b EXCEPT !.action = TRUE, !.listeners = @ + 1, !.retryCount = @ + 1]

(* The action's exec() rejects: its listeners are removed, the waiter stays.*)
ActionFailed(a) == [a EXCEPT !.action = FALSE, !.listeners = 0]

(* The once-listeners of 'playback-stop': the first resumes the waiter if   *)
(* there is one, every other one may arm the no-response timer again.       *)
PlaybackStopped(a) ==
  LET idle  == IF a.waiter = "none" THEN a.listeners ELSE a.listeners - 1
      again == a.active /\ a.retryCount < Retries /\ NoResponseTimeout
      b == [a EXCEPT !.action = FALSE, !.listeners = 0, !.waiter = "none",
                     !.present = IF a.waiter = "clear" THEN FALSE ELSE @]
  IN  Rearmed(b, IF again THEN idle ELSE 0)

(* _onNoResponseGiveUpTimer without give-up actions: stop().                *)
GaveUp(a) == Halted(a, "anon")

(* With give-up actions: clearActionHookDelayProcessor() stops the          *)
(* processor at once and drops it later.  If the give-up actions kill a     *)
(* gather that listens, it starts the processor again in between.           *)
GaveUpWithTasks(a, restarted) ==
  LET s == Halted(a, "clear")
      b == IF restarted THEN Started(s) ELSE s
  IN  [b EXCEPT !.present = IF a.action THEN @ ELSE FALSE]
==============================================================================
