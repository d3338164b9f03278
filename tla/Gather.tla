-------------------------------- MODULE Gather --------------------------------
(****************************************************************************)
(* lib/tasks/gather.js on top of stt-task.js and task.js: the verb collects *)
(* digits or speech, possibly while a prompt plays, until digits, a final   *)
(* transcript, one of five timers, a failure or kill() resolves it; then it *)
(* reports to its action hook and returns.                                  *)
(*                                                                          *)
(* A handler is a function from one state of the verb to the next, applied  *)
(* in one turn of the event loop; the awaits of exec(), startListening(),   *)
(* _startFallback() and _resolve() are fields of the state.  Listeners on   *)
(* the endpoint and timers outlive exec(), so handlers may run on a verb    *)
(* that is over.  Left out: filler noise, openai partials, partial result   *)
(* hooks, hints, statistics.                                                *)
(****************************************************************************)
EXTENDS Naturals, FiniteSets

CONSTANTS
  Gathers,     \* the gather verbs considered, see GatherOptions
  MaxKeys,     \* bound on the digits pressed
  MaxSpeech,   \* bound on the transcripts received
  MaxFailures  \* bound on the failures of recognizers

None == "none"

(* max, min   - maxDigits (or numDigits) and minDigits, 0 if not given      *)
(* inter      - interDigitTimeout       finish - finishOnKey                *)
(* term       - asrDtmfTerminationDigit                                     *)
(* prompt     - nested play or say; "open" and "closing" are a streaming    *)
(*              say without and with closeOnStreamEmpty                     *)
(* during     - listenDuringPrompt      timed - timeout is not 0            *)
(* continuous - asrTimeout              fast  - fastRecognitionTimeout      *)
(* token      - credentials need a request to the vendor                    *)
(* fails      - the recognizer may fail fallback - there is another one     *)
(* hook       - actionHook              delay - the session has an          *)
(*              ActionHookDelayProcessor                                    *)
Vendors == {"google", "deepgram", "speechmatics", "nuance"}
GatherOptions ==
  [digits : BOOLEAN, speech : BOOLEAN, max : Nat, min : Nat, inter : BOOLEAN,
   finish : BOOLEAN, term : BOOLEAN, bargein : BOOLEAN, dtmfBargein : BOOLEAN,
   prompt : {None, "play", "open", "closing"}, during : BOOLEAN,
   timed : BOOLEAN, continuous : BOOLEAN, fast : BOOLEAN, vendor : Vendors,
   token : BOOLEAN, fails : BOOLEAN, fallback : BOOLEAN, hook : BOOLEAN,
   delay : BOOLEAN]

ASSUME GatherAssumption ==
  /\ Gathers \subseteq GatherOptions /\ {MaxKeys, MaxSpeech, MaxFailures} \subseteq Nat
  /\ \A o \in Gathers : /\ o.prompt = None => ~o.during
                        /\ o.vendor = "speechmatics" => o.continuous
                        /\ o.digits \/ o.speech

VARIABLES
  opts,   \* the verb's data
  g       \* the verb, see GatherStates

(* asr is armed only for continuous recognition; final is the second for a  *)
(* last transcript after the termination digit.                             *)
Timers == {"timeout", "interDigit", "asr", "final", "fast"}
Reported == {"dtmf", "speech", "timeout", "error", "low"}
Reasons == Reported \cup {"killed"}

(* pc       - where exec() is: "init" in the request for credentials,       *)
(*            "setup" in ep.set() of the recognizer, "waiting" for the end  *)
(* starting - startListening() is suspended in ep.set()                     *)
(* prompt   - the nested task           nested - this.sayTask or .playTask  *)
(* dtmf     - listener on the endpoint  dtmfSet - _dtmfListenerStarted      *)
(* heard    - listeners for transcripts heardSet - _speechHandlersSet       *)
(* asking   - the media server transcribes for this verb                    *)
(* timerRef - this._timeoutTimer is set, which says nothing of the timer    *)
(* keys     - length of digitBuffer     pressed - digits pressed at all     *)
(* texts    - _bufferedTranscripts      spoken  - transcripts received      *)
(* fallback - where _startFallback() is suspended, orElse what its caller   *)
(*            does when it returns false                                    *)
(* primary  - isHandledByPrimaryProvider                                    *)
(* hook     - where _resolve() is suspended                                 *)
(* delayed  - _resolve() started the delay processor and did not stop it    *)
(* done     - notifyTaskDone() was called                                   *)
GatherStates ==
  [pc : {"init", "setup", "waiting", "over"}, killed : BOOLEAN,
   starting : BOOLEAN, prompt : {None, "playing", "over"}, nested : BOOLEAN,
   dtmf : BOOLEAN, dtmfSet : BOOLEAN, heard : BOOLEAN, heardSet : BOOLEAN,
   asking : BOOLEAN, timers : SUBSET Timers, timerRef : BOOLEAN,
   keys : 0..MaxKeys, pressed : 0..MaxKeys, texts : 0..MaxSpeech,
   spoken : 0..MaxSpeech, fallback : {None, "creds", "set"},
   orElse : {None, "done", "error"}, primary : BOOLEAN,
   resolved : Reasons \cup {None},
   hook : {None, "asked", "failed", "stopping"}, delayed : BOOLEAN,
   done : BOOLEAN, callGone : BOOLEAN,
   failures : 0..MaxFailures]

TypeOK == opts \in Gathers /\ g \in GatherStates

Init ==
  /\ opts \in Gathers
  /\ g = [pc |-> "init", killed |-> FALSE, starting |-> FALSE, prompt |-> None,
          nested |-> opts.prompt # None, dtmf |-> FALSE, dtmfSet |-> FALSE,
          heard |-> FALSE, heardSet |-> FALSE, asking |-> FALSE, timers |-> {},
          timerRef |-> FALSE, keys |-> 0, pressed |-> 0, texts |-> 0,
          spoken |-> 0, fallback |-> None, orElse |-> None, primary |-> TRUE,
          resolved |-> None, hook |-> None, delayed |-> FALSE, done |-> FALSE,
          callGone |-> FALSE, failures |-> 0]

------------------------------------------------------------------------------
(* Timers and audio.                                                        *)

Arm(s, t) == [s EXCEPT !.timers = @ \cup {t}]
Disarm(s, t) == [s EXCEPT !.timers = @ \ {t}]

(* _startTimer() and _clearTimer(); the timer's callback leaves the field.  *)
StartTimer(s) ==
  IF opts.timed THEN [Arm(s, "timeout") EXCEPT !.timerRef = TRUE] ELSE s
ClearTimer(s) ==
  IF s.timerRef THEN [Disarm(s, "timeout") EXCEPT !.timerRef = FALSE] ELSE s

(* _killAudio(): the nested task is killed and forgotten.                   *)
KillAudio(s) == [s EXCEPT !.nested = FALSE]

(* removeCustomEventListeners(), _stopTranscribing() and _startTranscribing *)
Deaf(s) == [s EXCEPT !.heard = FALSE]
StopTranscribing(s) == [s EXCEPT !.asking = FALSE]
StartTranscribing(s) == [s EXCEPT !.asking = TRUE]

(* _setSpeechHandlers() up to its await: does nothing the second time.      *)
SetSpeechHandlers(s) ==
  IF s.heardSet THEN s ELSE [s EXCEPT !.heard = TRUE, !.heardSet = TRUE]

Done(s) == [s EXCEPT !.done = TRUE]

------------------------------------------------------------------------------
(* Resolution.                                                              *)

(* The end of _resolve(): the delay processor is stopped when verbs came.   *)
AfterHook(s, verbs) ==
  IF s.delayed /\ verbs THEN [s EXCEPT !.hook = "stopping"]
  ELSE Done([s EXCEPT !.hook = None])

(* Mutant of Resolve: whoever comes last decides.                           *)
ResolveAgain(s, reason) ==
  LET quiet == IF opts.speech THEN StopTranscribing(s) ELSE s
      r == [KillAudio(Deaf(quiet)) EXCEPT
             !.resolved = reason, !.dtmf = FALSE, !.timers = {},
             !.timerRef = FALSE]
  IN  IF reason \in Reported /\ opts.hook /\ ~s.callGone
      THEN [r EXCEPT !.hook = "asked"]
      ELSE Done(r)

(* _resolve(): the first reason wins.  The hook is asked unless the call is *)
(* gone or the verb was killed; the delay processor starts in either case.  *)
Resolve(s, reason) ==
  LET quiet == IF opts.speech THEN StopTranscribing(s) ELSE s
      r == [KillAudio(Deaf(quiet)) EXCEPT
             !.resolved = reason, !.dtmf = FALSE, !.timers = {},
             !.timerRef = FALSE]
      d == [r EXCEPT !.delayed = opts.delay]
  IN  CASE s.resolved # None -> quiet
        [] s.resolved = None /\ s.callGone -> Done(r)
        [] s.resolved = None /\ ~s.callGone /\ reason \in Reported /\ opts.hook
             -> [d EXCEPT !.hook = "asked"]
        [] OTHER -> AfterHook(d, FALSE)

(* The verb's kill(): in the request for credentials it throws, because     *)
(* fillerNoise is not merged yet, and leaves nothing but the flag.          *)
Kill(s) ==
  LET k == [s EXCEPT !.killed = TRUE]
  IN  IF s.pc = "init" THEN k
      ELSE Resolve([KillAudio(k) EXCEPT !.dtmf = FALSE,
                      !.timers = @ \ {"interDigit", "asr"}], "killed")

------------------------------------------------------------------------------
(* Listening.                                                               *)

(* startDtmfListener(): it does not look at whether the verb is resolved.   *)
WantsDtmf == opts.digits \/ opts.dtmfBargein \/ opts.term
StartDtmfListener(s) == [s EXCEPT !.dtmf = WantsDtmf, !.dtmfSet = WantsDtmf]

(* startListening(), until it awaits ep.set().                              *)
StartListening(s) ==
  LET timed == StartTimer(s)
      asr == IF opts.continuous /\ ~opts.timed THEN Arm(timed, "asr") ELSE timed
  IN  CASE ~opts.speech \/ opts.during -> asr
        [] opts.speech /\ ~opts.during /\ asr.heardSet -> StartTranscribing(asr)
        [] OTHER -> [SetSpeechHandlers(asr) EXCEPT !.starting = TRUE]

(* process(), when the prompt is over or not waited for.  The second time   *)
(* the assertion that the dtmf listener is not started rejects a promise    *)
(* that nobody handles, which is only logged.                               *)
PromptProcessed(s) ==
  LET l == IF opts.during THEN s ELSE StartDtmfListener(s)
  IN  CASE ~opts.during /\ s.dtmfSet -> s
        [] (opts.during \/ ~s.dtmfSet) /\ (s.killed \/ s.resolved # None) -> l
        [] OTHER -> StartListening(l)

(* handling() from the credentials to its next await.                       *)
Handling(s) ==
  LET prompted == [s EXCEPT !.prompt = "playing"]
      begun == CASE s.nested /\ opts.prompt = "open" -> PromptProcessed(prompted)
                 [] s.nested /\ opts.prompt # "open" -> prompted
                 [] OTHER -> StartListening(s)
  IN  IF ~s.nested /\ s.killed THEN [s EXCEPT !.pc = "over"]
      ELSE IF opts.speech /\ opts.during
      THEN [SetSpeechHandlers(begun) EXCEPT !.pc = "setup"]
      ELSE IF opts.during \/ ~s.nested
      THEN [StartDtmfListener(begun) EXCEPT !.pc = "waiting"]
      ELSE [begun EXCEPT !.pc = "waiting"]

(* A handler is an action of its own on the verb.                           *)
Becomes(s) == g' = s /\ UNCHANGED opts

Begin ==
  /\ g.pc = "init"
  /\ Becomes(Handling(g))

(* A recognizer fails.                                                      *)
Failing == opts.fails /\ g.failures < MaxFailures
Failed(s) == [s EXCEPT !.failures = @ + 1]

(* exec() of the base task without credentials: the other vendor is taken,  *)
(* or the verb is over.                                                     *)
WithoutCredentials(s) ==
  IF opts.fallback /\ s.primary THEN [s EXCEPT !.primary = FALSE]
  ELSE [Done(s) EXCEPT !.pc = "over"]
NoCredentials ==
  /\ g.pc = "init" /\ opts.speech /\ Failing
  /\ Becomes(WithoutCredentials(Failed(g)))

(* exec() goes on after ep.set().                                           *)
SetUp ==
  /\ g.pc = "setup"
  /\ LET wanted == g.resolved = None /\ ~g.killed
         s == IF wanted THEN StartTranscribing(g) ELSE g
     IN  Becomes([StartDtmfListener(s) EXCEPT !.pc = "waiting"])

(* The vendor's session cannot be made: exec() ends, nothing is resolved.   *)
SetUpFails ==
  /\ g.pc = "setup" /\ Failing
  /\ Becomes([Deaf(Failed(g)) EXCEPT !.pc = "over"])

(* startListening() goes on; it looks at killed and not at resolved.        *)
Listening ==
  /\ g.starting
  /\ LET s == [g EXCEPT !.starting = FALSE]
     IN  Becomes(IF s.killed THEN s ELSE StartTranscribing(s))

(* The nested task returns.  For a streaming say the callback returns early *)
(* while this.sayTask is there, and throws, to be caught, when it is not.   *)
PromptEnds ==
  /\ g.prompt = "playing"
  /\ LET s == [g EXCEPT !.prompt = "over"]
         streaming == opts.prompt \in {"open", "closing"}
     IN  Becomes(IF streaming /\ s.nested THEN s ELSE PromptProcessed(s))

(* The nested task fails.                                                   *)
PromptFails ==
  /\ g.prompt = "playing" /\ opts.fails
  /\ Becomes(PromptProcessed([g EXCEPT !.prompt = "over"]))

(* exec() returns when the verb has called notifyTaskDone().                *)
TaskDone ==
  /\ g.pc = "waiting" /\ g.done
  /\ Becomes([Deaf(KillAudio(g)) EXCEPT !.pc = "over"])

------------------------------------------------------------------------------
(* Digits.                                                                  *)

Enough(s) == opts.min > 0 /\ s.keys >= opts.min

(* Mutant of DtmfFirst: the recognizer is stopped, its listeners stay.      *)
DtmfFirstHeard(s) == StopTranscribing(Disarm(s, "asr"))

(* The first digit ends recognition: dtmf has priority.                     *)
DtmfFirst(s) == StopTranscribing(Disarm(Deaf(s), "asr"))

(* Mutant of Digit: every digit ends the main timer.                         *)
DigitUntimed(s) ==
  LET first == IF s.keys = 0 /\ opts.speech THEN DtmfFirst(s) ELSE s
      k == [first EXCEPT !.keys = @ + 1]
      inter == IF opts.inter /\ Enough(k) THEN Arm(k, "interDigit") ELSE k
  IN  IF k.keys = opts.max THEN Resolve(k, "dtmf") ELSE ClearTimer(inter)

(* A digit that is collected.                                               *)
Digit(s) ==
  LET first == IF s.keys = 0 /\ opts.speech THEN DtmfFirst(s) ELSE s
      k == [first EXCEPT !.keys = @ + 1]
  IN  CASE k.keys = opts.max -> Resolve(k, "dtmf")
        [] k.keys # opts.max /\ opts.inter /\ Enough(k)
             -> ClearTimer(Arm(k, "interDigit"))
        [] OTHER -> k

(* _onDtmf(): the main timer is started if its field is empty.              *)
OnDtmf(s, key) ==
  LET timed == IF s.timerRef THEN s ELSE StartTimer(s)
      quiet == Disarm(timed, "interDigit")
      b == IF opts.dtmfBargein THEN KillAudio(quiet) ELSE quiet
  IN  IF key = "term" /\ opts.continuous /\ b.texts > 0
      THEN Arm(ClearTimer(Disarm(b, "asr")), "final")
      ELSE IF ~opts.digits THEN b
      ELSE IF key = "finish" THEN Resolve(b, "dtmf") ELSE Digit(b)

Keys == {"digit"} \cup (IF opts.finish THEN {"finish"} ELSE {})
                  \cup (IF opts.term THEN {"term"} ELSE {})
Pressed(key) ==
  /\ g.dtmf /\ g.pressed < MaxKeys
  /\ Becomes(OnDtmf([g EXCEPT !.pressed = @ + 1], key))

------------------------------------------------------------------------------
(* Transcripts.                                                             *)

(* Transcripts that are wanted before the words are final: "words" is the   *)
(* final part of an utterance of deepgram's.                                *)
Partial(s, kind) ==
  LET b == IF kind = "words" THEN [s EXCEPT !.texts = @ + 1] ELSE s
      t == IF b.timerRef THEN StartTimer(b) ELSE b
      q == IF opts.bargein THEN KillAudio(t) ELSE t
  IN  IF opts.fast THEN Arm(q, "fast") ELSE q

(* A final transcript in continuous mode.                                   *)
ContinuousFinal(s) ==
  LET b == ClearTimer([s EXCEPT !.texts = @ + 1])
  IN  IF "final" \in b.timers THEN Resolve(Disarm(b, "final"), "speech")
      ELSE Arm(b, "asr")

(* An empty final transcript resolves nothing, except that deepgram's       *)
(* releases the words that were buffered.                                   *)
EmptyFinal(s) ==
  IF opts.vendor = "deepgram" /\ ~opts.continuous /\ s.texts > 0
  THEN Resolve([s EXCEPT !.texts = 0], "speech") ELSE s

(* Deepgram's end of utterance; it may be ignored for words to come.        *)
UtteranceEnd(s) ==
  IF s.texts = 0 THEN s ELSE Resolve([s EXCEPT !.texts = 0], "speech")

OnTranscription(s, kind) ==
  CASE kind = "low" -> Resolve(s, "low")
    [] kind = "utterance" -> UtteranceEnd(s)
    [] kind \in {"partial", "words"} -> Partial(s, kind)
    [] kind = "empty" -> EmptyFinal(s)
    [] kind = "final" /\ opts.continuous -> ContinuousFinal(s)
    [] kind = "final" /\ ~opts.continuous
         -> Resolve([s EXCEPT !.texts = 0], "speech")

Kinds == {"low", "partial", "empty", "final"} \cup
         (IF opts.vendor = "deepgram" THEN {"words", "utterance"} ELSE {})
Transcribed(kind) ==
  /\ g.heard /\ (g.asking \/ g.fallback # None) /\ g.spoken < MaxSpeech
  /\ Becomes(OnTranscription([g EXCEPT !.spoken = @ + 1], kind))

(* nuance tells when speech starts, which stops the prompt.                 *)
SpeechStarts ==
  /\ g.heard /\ opts.bargein /\ opts.vendor = "nuance"
  /\ Becomes(KillAudio(g))

------------------------------------------------------------------------------
(* Timers.                                                                  *)

(* The callbacks of the five timers.                                        *)
TimerCallback(s, t) ==
  CASE t = "timeout" /\ opts.continuous -> Arm(s, "asr")
    [] t = "timeout" /\ ~opts.continuous
         -> Resolve(s, IF Enough(s) THEN "dtmf" ELSE "timeout")
    [] t \in {"asr", "final"}
         -> IF t = "asr" /\ opts.vendor = "speechmatics" /\ s.texts = 0
            THEN Arm(s, "asr")
            ELSE Resolve(s, IF s.texts > 0 THEN "speech" ELSE "timeout")
    [] t = "fast" -> Resolve(s, "speech")
    [] t = "interDigit" -> Resolve(s, "dtmf")
Fires(t) ==
  /\ t \in g.timers
  /\ Becomes(TimerCallback(Disarm(g, t), t))

------------------------------------------------------------------------------
(* Failures of the recognizer.                                              *)

(* What the callers of _startFallback() do when it returns false.           *)
OrElse(s, what) ==
  CASE what = "done" -> Done(s)
    [] what = "error" -> Resolve(s, "error")
    [] OTHER -> s

StartFallback(s, what) ==
  IF opts.fallback /\ s.primary
  THEN [StopTranscribing(s) EXCEPT !.primary = FALSE, !.fallback = "creds",
                                   !.orElse = what]
  ELSE OrElse(s, what)

(* _onVendorError() resolves with an error, _onVendorConnectFailure() and   *)
(* _onJambonzError() just end the verb; nuance's no speech is a timeout.    *)
VendorFails(what) ==
  /\ g.heard /\ Failing
  /\ Becomes(StartFallback(Failed(g), what))
NoSpeech ==
  /\ g.heard /\ opts.vendor = "nuance"
  /\ Becomes(Resolve(g, "timeout"))

(* gladia and cobalt need requests of their own, which may fail.            *)
ListeningFails ==
  /\ g.starting /\ Failing
  /\ Becomes(StartFallback([Failed(g) EXCEPT !.starting = FALSE], None))

(* _initFallback() has the credentials of the other vendor.                 *)
FallbackReady ==
  /\ g.fallback = "creds"
  /\ Becomes([SetSpeechHandlers([Deaf(g) EXCEPT !.heardSet = FALSE])
               EXCEPT !.fallback = "set"])
FallbackFails ==
  /\ g.fallback # None
  /\ Becomes(OrElse([g EXCEPT !.fallback = None, !.orElse = None], g.orElse))

(* The other vendor listens, whatever has become of the verb meanwhile.     *)
FallenBack ==
  /\ g.fallback = "set"
  /\ Becomes([StartTranscribing(g) EXCEPT !.fallback = None, !.orElse = None])

------------------------------------------------------------------------------
(* The session and the application.                                         *)

SessionKills ==
  /\ ~g.killed /\ g.pc # "over" /\ (g.pc = "init" => opts.token)
  /\ Becomes(Kill(g))
CallGone ==
  /\ ~g.callGone /\ g.pc # "init" /\ g.pc # "over"
  /\ Becomes(Kill([g EXCEPT !.callGone = TRUE]))

(* The action hook replied, with verbs or without, or failed, in which case *)
(* the status hook is told.                                                 *)
HookReplies(verbs) ==
  /\ g.hook = "asked"
  /\ Becomes(AfterHook(g, verbs))
HookFails ==
  /\ g.hook = "asked"
  /\ Becomes([g EXCEPT !.hook = "failed"])
FailureReported ==
  /\ g.hook = "failed"
  /\ Becomes(AfterHook(g, FALSE))

(* The delay processor has stopped.                                         *)
DelayStopped ==
  /\ g.hook = "stopping"
  /\ Becomes(Done([g EXCEPT !.hook = None, !.delayed = FALSE]))

Exec == Begin \/ NoCredentials \/ SetUp \/ SetUpFails \/ TaskDone
Media == Listening \/ ListeningFails \/ PromptEnds \/ PromptFails
         \/ FallbackReady \/ FallbackFails \/ FallenBack
Caller == \/ \E key \in Keys : Pressed(key)
          \/ \E kind \in Kinds : Transcribed(kind)
          \/ SpeechStarts \/ NoSpeech
          \/ \E what \in {"done", "error"} : VendorFails(what)
Hook == HookFails \/ FailureReported \/ DelayStopped
        \/ \E verbs \in BOOLEAN : HookReplies(verbs)
Session == SessionKills \/ CallGone

Next == Exec \/ Media \/ Caller \/ Hook \/ Session \/ \E t \in Timers : Fires(t)

vars == <<opts, g>>
Spec == Init /\ [][Next]_vars

(* The media server, the databases and the hooks answer, prompts end and    *)
(* timers fire.  The caller need do nothing.                                *)
Fairness ==
  /\ WF_vars(Exec)
  /\ WF_vars(Media)
  /\ WF_vars(Hook)
  /\ \A t \in Timers : WF_vars(Fires(t))
FairSpec == Spec /\ Fairness

------------------------------------------------------------------------------
(* Properties.                                                              *)

(* The verb keeps the promise of Verb: digits, transcripts, timers and      *)
(* kill() compete, one of them decides, later ones change nothing, and      *)
(* nothing is decided or reported once exec() has returned, unless it       *)
(* returned because the recognizer failed: then nobody stops the timers.    *)
Phase == CASE g.pc = "over" -> "over"
           [] g.pc # "over" /\ g.hook # None -> "reporting"
           [] OTHER -> "running"
Promise == INSTANCE Verb WITH
  Outcomes <- Reported, Aborted <- "killed", Undecided <- None,
  phase <- Phase, outcome <- g.resolved, fragile <- opts.fails
OneOutcome == Promise!Spec

(* "DTMF is higher priority than STT": digits that were pressed are not     *)
(* lost to a transcript.  Left out are fast recognition and continuous      *)
(* mode, whose timers outlive the first digit, and a verb that fell back,   *)
(* since the fallback may listen again after the first digit.               *)
DtmfWins ==
  g.keys > 0 /\ g.primary /\ ~opts.fast /\ ~opts.continuous
    => g.resolved \notin {"speech", "low"}

(* A verb that was killed returns, and so does one with a timeout to whom   *)
(* the caller says nothing more.  Left out, as they are known to wait for   *)
(* ever: a kill that throws in the request for credentials, a timeout after *)
(* a streaming say that closes, and a digit after the timeout in continuous *)
(* mode.                                                                    *)
MustEnd == \/ g.killed /\ ~opts.token
           \/ opts.timed /\ ~opts.token /\ opts.prompt # "closing" /\ ~opts.continuous
GatherEnds == MustEnd ~> g.pc = "over"
==============================================================================
