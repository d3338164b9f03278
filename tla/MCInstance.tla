------------------------------ MODULE MCInstance ------------------------------
(* A feature server with two inbound calls and one outbound call for TLC.   *)
EXTENDS Instance

CONSTANTS c1, c2

Come(i, o, l) == [inbound |-> i, outbound |-> o, lifeCycle |-> l]

(* Each kind of interaction on its own.                                     *)
EachKind ==
  {Come({c1, c2}, "none", "none"), Come({}, "amd", "none"),
   Come({c1}, "plain", "none"), Come({c1}, "none", "scaleIn"),
   Come({c1}, "none", "standby"), Come({}, "plain", "signal")}

ScaleInOnly == {Come({c1}, "none", "scaleIn")}
==============================================================================
