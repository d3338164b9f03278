SPECIFICATION FairSpec
CONSTANTS
  Callers = {c1, c2}
  Agents = {a1, a2}
  Remote = {c2}
  Untimed = {a2}
  Calms = {TRUE, FALSE}
INVARIANTS OnePartner WaitingIsQueued
PROPERTIES PartnersPart
CHECK_DEADLOCK FALSE
