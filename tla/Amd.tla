--------------------------------- MODULE Amd ---------------------------------
(***************************************************************************)
(* lib/utils/amd-utils.js: answering machine detection on an answered call.*)
(* Transcripts, four timers, a beep detector and the silence reported by   *)
(* the recognizer compete for one verdict; stopAmd() ends it from any of   *)
(* their handlers and when the call is hung up.                            *)
(*                                                                         *)
(* The detector is a record.  on is ep.amd, which startAmd() sets before   *)
(* it awaits a token and the channel variables, and which stopAmd() clears.*)
(* Timers belong to the object, and live on when ep.amd is cleared without *)
(* stopAllTimers().                                                        *)
(***************************************************************************)
EXTENDS Naturals

AmdTimers == {"noSpeech", "decision", "tone", "greeting"}
Decisions == {"none", "human", "machine", "noSpeech", "timeout"}

(* What a transcript amounts to: a hint, digits or a long text (machine), a *)
(* short final text (human), or anything else.                              *)
Utterances == {"machine", "human", "unclear"}

AmdStates ==
  [on : BOOLEAN, starting : BOOLEAN, timers : SUBSET AmdTimers,
   decision : Decisions, stt : {"off", "starting", "on"},
   muted : BOOLEAN, verdicts : 0..2]

NoAmd == [on |-> FALSE, starting |-> FALSE, timers |-> {},
          decision |-> "none", stt |-> "off", muted |-> FALSE, verdicts |-> 0]

(* startAmd up to its await: the object exists, nothing listens yet.        *)
Started == [NoAmd EXCEPT !.on = TRUE, !.starting = TRUE]

(* startAmd after the await: handlers, timers and transcription start even  *)
(* when stopAmd() was called meanwhile; startTranscribing() then rejects.   *)
Configured(a) ==
  [a EXCEPT !.starting = FALSE, !.timers = {"noSpeech", "decision", "tone"},
            !.stt = IF a.on THEN "starting" ELSE "off"]

StopAmd(a) ==
  [a EXCEPT !.timers = IF a.on THEN {} ELSE @, !.on = FALSE, !.stt = "off"]

Decided(a, d) ==
  [a EXCEPT !.decision = d,
            !.verdicts = IF @ = 2 THEN 2 ELSE @ + 1]

Without(a, ts) == [a EXCEPT !.timers = @ \ ts]

OnNoSpeechTimeout(a) ==
  Without(StopAmd(Decided(Without(a, {"noSpeech"}), "noSpeech")), {"decision"})

OnDecisionTimeout(a) ==
  Without(StopAmd(Decided(Without(a, {"decision"}), "timeout")), {"noSpeech"})

OnToneTimeout(a) == StopAmd(Without(a, {"tone"}))
OnGreetingCompletionTimeout(a) == StopAmd(Without(a, {"greeting"}))

(* The timers start together, with 5, 15 and 20 seconds unless opts.timers  *)
(* says otherwise: they may end in any order.                               *)
Due(a, t) == t \in a.timers

OnTimer(a, t) ==
  CASE t = "noSpeech" -> OnNoSpeechTimeout(a)
    [] t = "decision" -> OnDecisionTimeout(a)
    [] t = "tone"     -> OnToneTimeout(a)
    [] t = "greeting" -> OnGreetingCompletionTimeout(a)

(* Mutants: a machine does not stop the decision timer; any speech does.    *)
MachineOnly(a) ==
  [Without(Decided(a, "machine"), {"noSpeech"}) EXCEPT !.timers = @ \cup {"greeting"}]

Machine(a) ==
  [Without(Decided(a, "machine"), {"noSpeech", "decision"})
     EXCEPT !.timers = @ \cup {"greeting"}]
Human(a) == StopAmd(Decided(a, "human"))

UnclearStops(a) == Without(a, {"noSpeech", "decision"})
Unclear(a) == Without(a, {"noSpeech"})

EvaluateTranscription(a, heard) ==
  CASE a.decision = "machine" -> [a EXCEPT !.timers = @ \cup {"greeting"}]
    [] a.decision # "none" /\ a.decision # "machine" -> a
    [] a.decision = "none" /\ heard = "machine" -> Machine(a)
    [] a.decision = "none" /\ heard = "human" -> Human(a)
    [] a.decision = "none" /\ heard = "unclear" -> Unclear(a)

(* The recognizer of one vendor reports silence: the timers stop, and the   *)
(* event emitted on the task is not the one the verbs listen to.            *)
OnNoSpeechDetected(a) == [a EXCEPT !.timers = {}, !.muted = TRUE]

OnBeep(a) == Without(a, {"tone"})

(* startTranscription() is rejected: ep.amd is cleared, the timers go on.   *)
TranscriptionFailed(a) == [a EXCEPT !.on = FALSE, !.stt = "off"]
==============================================================================
