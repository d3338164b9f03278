------------------------ MODULE MCTtsStreamingBuffer ------------------------
(* A small stream of text for TLC.                                          *)
EXTENDS TtsStreamingBuffer

(* A sentence, the start of one with a trailing space, a sentence end with  *)
(* the next word, and white space.                                          *)
AllTexts == {<<"stop">>, <<"word", "space">>, <<"stop", "space", "word">>,
             <<"space">>}
=============================================================================
