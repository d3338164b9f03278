------------------------------- MODULE MCDial --------------------------------
(* Small dial verbs for TLC.                                                *)
EXTENDS Dial, TLC

CONSTANTS a, b

Verb1(confirm, bridge, teams, limit) ==
  [targets |-> {a}, confirm |-> confirm, bridge |-> bridge, teams |-> teams,
   limit |-> limit, prompt |-> TRUE]
Ring(targets) ==
  [targets |-> targets, confirm |-> {}, bridge |-> FALSE, teams |-> FALSE,
   limit |-> FALSE, prompt |-> TRUE]

(* One callee with what a dial verb may ask for, or two at once.            *)
SingleOrTwo ==
  {Verb1({a}, FALSE, TRUE, TRUE), Verb1({a}, TRUE, FALSE, FALSE),
   Verb1({}, TRUE, TRUE, TRUE), Ring({a, b})}
==============================================================================
