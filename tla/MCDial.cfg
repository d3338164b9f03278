SPECIFICATION FairDial
CONSTANTS
  a = a
  b = b
  Targets = {a, b}
  Calls <- SingleOrTwo
  MaxKills = 1
INVARIANTS OneWinner ChosenLegEnds
PROPERTY VerbEnds
CHECK_DEADLOCK FALSE
