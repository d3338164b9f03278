------------------------------- MODULE MCGather -------------------------------
(* Small gather verbs for TLC.                                              *)
EXTENDS Gather

Plain ==
  [digits |-> TRUE, speech |-> TRUE, max |-> 2, min |-> 1, inter |-> TRUE,
   finish |-> FALSE, term |-> FALSE, bargein |-> TRUE, dtmfBargein |-> TRUE,
   prompt |-> None, during |-> FALSE, timed |-> TRUE, continuous |-> FALSE,
   fast |-> FALSE, vendor |-> "google", token |-> FALSE, fails |-> FALSE,
   fallback |-> FALSE, hook |-> TRUE, delay |-> FALSE]

(* Digits and speech, with each kind of prompt, vendor and timer.           *)
Sound ==
  {[Plain EXCEPT !.prompt = p, !.during = l, !.vendor = v, !.fast = f,
                 !.finish = (v = "google"), !.delay = (v = "deepgram")] :
     p \in {"play", "open", "closing"}, l \in BOOLEAN,
     v \in {"google", "deepgram", "nuance"}, f \in BOOLEAN}
  \cup {[Plain EXCEPT !.inter = i, !.min = m, !.timed = t] :
          i \in BOOLEAN, m \in {0, 1}, t \in BOOLEAN}
  \cup {[Plain EXCEPT !.prompt = "play", !.during = l, !.continuous = TRUE,
                      !.term = TRUE, !.max = 9, !.vendor = v, !.timed = t] :
          l \in BOOLEAN, v \in {"google", "speechmatics"}, t \in BOOLEAN}
  \cup {[Plain EXCEPT !.speech = FALSE, !.prompt = "play", !.during = l,
                      !.token = FALSE, !.hook = h] :
          l \in BOOLEAN, h \in BOOLEAN}
  \cup {[Plain EXCEPT !.digits = FALSE, !.dtmfBargein = FALSE, !.prompt = p,
                      !.during = (p = "play"), !.timed = FALSE, !.token = TRUE,
                      !.fails = TRUE, !.fallback = TRUE] :
          p \in {None, "play"}}

(* Recognizers that break down beside timers, digits and prompts, with and  *)
(* without another vendor to fall back to.                                  *)
Unreliable ==
  {[Plain EXCEPT !.prompt = p, !.during = l, !.fails = TRUE, !.fallback = f,
                 !.delay = f] :
     p \in {"play", "closing"}, l \in BOOLEAN, f \in BOOLEAN}
  \cup {[Plain EXCEPT !.fails = TRUE, !.fallback = f, !.token = t] :
          f \in BOOLEAN, t \in BOOLEAN}

Verbs == Sound \cup Unreliable
==============================================================================
