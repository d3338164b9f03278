SPECIFICATION Spec
CONSTANTS
  N = 2
  MaxApps = 1
  Calms = {FALSE}
  Verbs <- SimplePlays
  Voices <- MCVoices
INVARIANTS StopBreaks
CHECK_DEADLOCK FALSE
