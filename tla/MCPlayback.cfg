SPECIFICATION FairSpec
CONSTANTS
  N = 3
  MaxApps = 2
  Calms = {TRUE, FALSE}
  Verbs <- MCVerbs
  Voices <- MCVoices
INVARIANTS OnlyStoppedIsBroken CalmStopBreaks
PROPERTIES PlaybackEnds
CHECK_DEADLOCK FALSE
