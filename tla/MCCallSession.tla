--------------------------- MODULE MCCallSession ---------------------------
(* Small call sessions for TLC.                                             *)
EXTENDS CallSession

(* A hangup, or a verb.                                                     *)
GiveUps == {<<>>, <<"pause">>}

(* Verbs that need media, an answered call, or neither.                     *)
MixedApps ==
  {<<"earlyPlay", "gather", "hangup">>, <<"decline", "listen", "bargeOff">>}
=============================================================================
