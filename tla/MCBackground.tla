------------------------------ MODULE MCBackground ------------------------------
(* A stack of verbs for TLC.                                                *)
EXTENDS BackgroundTaskManager

OffBetween == {<<"verb", "off", "verb">>}
==============================================================================
