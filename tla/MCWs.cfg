SPECIFICATION Spec
CONSTANTS
  Hooks = {h1}
  Notes = {n1}
  MaxReconnects = 2
  RetryOn <- ConnectionErrors
  MaxConnections = 3
INVARIANTS SentOnce OneSocket
PROPERTY SettlesOnce
CHECK_DEADLOCK FALSE
