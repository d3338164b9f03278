SPECIFICATION FairSpec
CONSTANTS
  c1 = c1
  c2 = c2
  Calls = {c1, c2}
  Scenarios <- ScaleInOnly
  MaxStandby = 0
  MaxRetries = 0
  RetryPolicy = {}
PROPERTIES ScaleInCompletes
CHECK_DEADLOCK FALSE
