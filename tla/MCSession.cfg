SPECIFICATION FairSpec
CONSTANTS
  Handlers = {h1}
  NoResponseTimeout = TRUE
  GiveUpTimeout = TRUE
  Retries = 1
  Apps <- MixedApps
  WsMayFail = TRUE
  BargeInOn = TRUE
  AhdEnabled = TRUE
  GiveUpApps <- GiveUps
  ActionsMayFail = TRUE
  MaxApps = 2
INVARIANTS RunningTaskKillable CompletedIsFinal LeftInOrder
PROPERTIES OneFinalResponse WokenForAReason NoFillerOverTask HangupEndsSession QueuedTasksWake
CHECK_DEADLOCK FALSE
