------------------------------ MODULE MCPlayback ------------------------------
(* Three verbs and two further applications for Playback.                   *)
EXTENDS Playback

Play(loop, hook, timed, missing) ==
  [kind |-> "play", loop |-> loop, hook |-> hook, timed |-> timed, missing |-> missing]
Say(loop, missing) ==
  [kind |-> "say", loop |-> loop, hook |-> FALSE, timed |-> FALSE, missing |-> missing]

MCVerbs ==
  {Play(1, TRUE, FALSE, FALSE), Play(0, FALSE, TRUE, FALSE),
   Play(1, TRUE, FALSE, TRUE), Say(2, FALSE), Say(1, TRUE)}

MCVoices ==
  {[primary |-> "stream", fallback |-> "file"], [primary |-> "file", fallback |-> "stream"]}

SimplePlays == {Play(1, FALSE, FALSE, FALSE)}
==============================================================================
