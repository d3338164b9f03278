--------------------------------- MODULE Verb ---------------------------------
(****************************************************************************)
(* What a verb that collects something promises to its session: it comes to *)
(* one outcome while it runs, reports it at most once, and is over for good *)
(* afterwards; but a verb whose recognizer broke down returns without an    *)
(* outcome, and what is left of it may still come to one.                   *)
(* lib/tasks/gather.js is shown to implement it (Gather).                   *)
(****************************************************************************)
CONSTANTS
  Outcomes,   \* what a verb may report to its action hook
  Aborted,    \* the outcome of a verb that was killed; it is not reported
  Undecided

VARIABLES
  phase,      \* "running", "reporting" to the action hook, or "over"
  outcome,
  fragile     \* the recognizer of the verb may break down

Init == phase = "running" /\ outcome = Undecided /\ fragile \in BOOLEAN

(* The outcome is reported, unless there is no hook or the call is gone.    *)
Decide(o) ==
  /\ phase = "running" /\ outcome = Undecided
  /\ outcome' = o
  /\ phase' \in IF o = Aborted THEN {"running"} ELSE {"running", "reporting"}

(* What is left of a verb that broke down decides.                          *)
DecideLate(o) ==
  /\ phase = "over" /\ outcome = Undecided /\ fragile
  /\ outcome' = o
  /\ UNCHANGED phase

(* The hook replied or failed.                                              *)
Reported ==
  /\ phase = "reporting" /\ phase' = "running"
  /\ UNCHANGED outcome

(* exec() returns, before an outcome if recognition broke down or the verb  *)
(* was killed before it began.                                              *)
Return ==
  /\ phase # "over" /\ phase' = "over"
  /\ UNCHANGED outcome

Next ==
  /\ \/ Reported \/ Return
     \/ \E o \in Outcomes \cup {Aborted} : Decide(o) \/ DecideLate(o)
  /\ UNCHANGED fragile

vars == <<phase, outcome, fragile>>
Spec == Init /\ [][Next]_vars
==============================================================================
