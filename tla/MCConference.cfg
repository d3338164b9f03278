SPECIFICATION FairSpec
CONSTANTS
  Members = {1, 2, 3, 4}
  Servers = {"s1", "s2"}
  Parties <- Guests
  Overlap = FALSE
INVARIANTS OneRoom LightsOut
PROPERTIES WaitersCalled
CHECK_DEADLOCK FALSE
