SPECIFICATION FairSpec
CONSTANTS
  Texts <- AllTexts
  HighWater = 3
  LowWater = 1
  MayClose = TRUE
  EpMayGo = TRUE
  MaxPieces = 4
  MaxFlushes = 1
  MaxSays = 2
INVARIANTS SentInOrder FlushAfterText HeldTextHasTimer
PROPERTIES MarkerIsFlushed ResumedWhenDrained
CHECK_DEADLOCK FALSE
