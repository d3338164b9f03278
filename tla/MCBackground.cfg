SPECIFICATION Spec
CONSTANTS
  OtherTypes = {"listen"}
  Stacks <- OffBetween
  MaxTasks = 4
  MaxEnables = 2
INVARIANTS RunningIsKnown StickyStays
PROPERTIES OffIsOff
CHECK_DEADLOCK FALSE
