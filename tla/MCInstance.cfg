SPECIFICATION FairSpec
CONSTANTS
  c1 = c1
  c2 = c2
  Calls = {c1, c2}
  Scenarios <- EachKind
  MaxStandby = 3
  MaxRetries = 2
  RetryPolicy = {"ct", "5xx"}
INVARIANTS OneVerdict CanceledNotExecuted
PROPERTIES VerdictComes DialSettles InvitesSettle SbcLearns
CHECK_DEADLOCK FALSE
