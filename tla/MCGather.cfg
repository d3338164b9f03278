SPECIFICATION FairSpec
CONSTANTS
  Gathers <- Verbs
  MaxKeys = 3
  MaxFailures = 1
  MaxSpeech = 3
INVARIANTS DtmfWins
PROPERTIES OneOutcome GatherEnds
CHECK_DEADLOCK FALSE
