----------------------------- MODULE GatherProofs -----------------------------
(* A gather implements Verb, for any verbs, digits, transcripts, failures,  *)
(* and its digits come before its transcripts.                              *)
EXTENDS Gather, TLAPS

(* The verb without the bounds of its counters.                             *)
States ==
  [pc : {"init", "setup", "waiting", "over"}, killed : BOOLEAN,
   starting : BOOLEAN, prompt : {None, "playing", "over"}, nested : BOOLEAN,
   dtmf : BOOLEAN, dtmfSet : BOOLEAN, heard : BOOLEAN, heardSet : BOOLEAN,
   asking : BOOLEAN, timers : SUBSET Timers, timerRef : BOOLEAN,
   keys : Nat, pressed : Nat, texts : Nat, spoken : Nat,
   fallback : {None, "creds", "set"}, orElse : {None, "done", "error"},
   primary : BOOLEAN, resolved : Reasons \cup {None},
   hook : {None, "asked", "failed", "stopping"}, delayed : BOOLEAN,
   done : BOOLEAN, callGone : BOOLEAN, failures : Nat]

(* Nothing can happen to the verb but what exec() does.                     *)
Idle(s) ==
  /\ s.timers = {} /\ ~s.dtmf /\ ~s.heard /\ ~s.starting
  /\ s.prompt # "playing" /\ s.fallback = None

(* Only a verb that was resolved asks its hook; it is done when it was      *)
(* resolved or broke down; before it begins, and when it returned without   *)
(* an outcome though its recognizer is reliable, nothing goes on.           *)
Settled(s) ==
  /\ s.hook # None => s.resolved # None
  /\ s.done => s.resolved # None \/ opts.fails
  /\ s.fallback # None => opts.fails
  /\ s.pc = "init" => Idle(s) /\ s.resolved = None
  /\ s.pc = "over" /\ s.resolved = None => Idle(s) \/ opts.fails

IInv == opts \in Gathers /\ g \in States /\ Settled(g)

(* An event can only come for a verb of this kind.                          *)
Live(s) == s.pc # "init" /\ (s.pc = "over" => s.resolved # None \/ opts.fails)

(* A verb that fell back stays with the other vendor.                       *)
Forward == g'.primary => g.primary

(* What a helper leaves alone that does not resolve the verb.               *)
Same(s, t) ==
  /\ t \in States
  /\ t.pc = s.pc /\ t.hook = s.hook /\ t.resolved = s.resolved
  /\ t.done = s.done /\ t.fallback = s.fallback /\ t.primary = s.primary

(* What a handler does at most.                                             *)
Handled(s, t) ==
  /\ t \in States /\ t.pc = s.pc /\ (t.primary => s.primary)
  /\ t.done => s.done \/ t.resolved # None \/ opts.fails
  /\ t.fallback # None => s.fallback # None \/ opts.fails
  /\ \/ t.resolved = s.resolved /\ t.hook = s.hook
     \/ /\ s.resolved = None /\ t.resolved \in Reasons
        /\ t.hook = s.hook \/ (t.hook = "asked" /\ t.resolved \in Reported)

-------------------------------------------------------------------------------
(* Helpers that resolve nothing.                                            *)

(* The small steps of a handler.                                            *)
LEMMA Small ==
  ASSUME NEW s \in States, opts \in GatherOptions, NEW t \in Timers
  PROVE  /\ Same(s, Arm(s, t)) /\ Same(s, Disarm(s, t))
         /\ Same(s, StartTimer(s)) /\ Same(s, ClearTimer(s))
         /\ Same(s, KillAudio(s)) /\ Same(s, Deaf(s))
         /\ Same(s, StopTranscribing(s)) /\ Same(s, StartTranscribing(s))
         /\ Same(s, SetSpeechHandlers(s)) /\ Same(s, StartDtmfListener(s))
<1>1. Same(s, Arm(s, t)) /\ Same(s, Disarm(s, t))
  BY DEF Same, States, Arm, Disarm
<1>2. Same(s, StartTimer(s)) /\ Same(s, ClearTimer(s))
  <2>1. "timeout" \in Timers
    BY DEF Timers
  <2>2. /\ Same(s, s)
        /\ Same(s, [Arm(s, "timeout") EXCEPT !.timerRef = TRUE])
        /\ Same(s, [Disarm(s, "timeout") EXCEPT !.timerRef = FALSE])
    BY <2>1 DEF Same, States, Arm, Disarm
  <2> QED BY <2>2 DEF StartTimer, ClearTimer
<1>3. Same(s, KillAudio(s)) /\ Same(s, Deaf(s))
  BY DEF Same, States, KillAudio, Deaf
<1>4. Same(s, StopTranscribing(s)) /\ Same(s, StartTranscribing(s))
  BY DEF Same, States, StopTranscribing, StartTranscribing
<1>5. Same(s, SetSpeechHandlers(s))
  <2>1. Same(s, s) /\ Same(s, [s EXCEPT !.heard = TRUE, !.heardSet = TRUE])
    BY DEF Same, States
  <2> QED BY <2>1 DEF SetSpeechHandlers
<1>6. Same(s, StartDtmfListener(s))
  <2>1. WantsDtmf \in BOOLEAN
    BY DEF WantsDtmf
  <2> QED BY <2>1 DEF Same, States, StartDtmfListener
<1> QED BY <1>1, <1>2, <1>3, <1>4, <1>5, <1>6

(* Helpers are composed.                                                    *)
LEMMA SameSame ==
  ASSUME NEW r, NEW s, NEW t, Same(r, s), Same(s, t)
  PROVE  Same(r, t)
BY DEF Same

(* Listening is started.                                                    *)
LEMMA ListeningSame ==
  ASSUME NEW s \in States, opts \in GatherOptions
  PROVE  Same(s, StartListening(s))
<1> DEFINE timed == StartTimer(s)
           asr == IF opts.continuous /\ ~opts.timed THEN Arm(timed, "asr") ELSE timed
<1>1. Same(s, timed) /\ timed \in States
  BY Small DEF Same, Timers
<1>2. Same(s, asr) /\ asr \in States
  BY <1>1, Small, SameSame DEF Same, Timers
<1> HIDE DEF asr
<1>3. Same(asr, StartTranscribing(asr)) /\ Same(asr, SetSpeechHandlers(asr))
  BY <1>2, Small DEF Timers
<1>4. Same(SetSpeechHandlers(asr), [SetSpeechHandlers(asr) EXCEPT !.starting = TRUE])
  BY <1>3 DEF Same, States
<1> QED
  BY <1>2, <1>3, <1>4, SameSame DEF StartListening, asr

(* The prompt is over.                                                      *)
LEMMA PromptSame ==
  ASSUME NEW s \in States, opts \in GatherOptions
  PROVE  Same(s, PromptProcessed(s))
<1>1. Same(s, s)
  BY DEF Same
<1>2. Same(s, StartDtmfListener(s)) /\ StartDtmfListener(s) \in States
  BY Small DEF Same, Timers
<1>3. Same(s, StartListening(s))
      /\ Same(StartDtmfListener(s), StartListening(StartDtmfListener(s)))
  BY <1>2, ListeningSame
<1> QED BY <1>1, <1>2, <1>3, SameSame DEF PromptProcessed

-------------------------------------------------------------------------------
(* Resolution and what leads to it.                                         *)

HookOK(s) == s.hook # None => s.resolved # None

(* A helper followed by a handler is a handler.                             *)
LEMMA SameHandled ==
  ASSUME NEW r, NEW s, NEW t, Same(r, s), Handled(s, t)
  PROVE  Handled(r, t)
BY DEF Same, Handled

(* A helper is a handler, and the state after it is one in which the verb   *)
(* may be resolved.                                                         *)
LEMMA SameIsHandled ==
  ASSUME NEW s, NEW t, Same(s, t)
  PROVE  /\ Handled(s, t) /\ t \in States
         /\ HookOK(s) => HookOK(t)
BY DEF Same, Handled, HookOK

(* notifyTaskDone()                                                         *)
LEMMA DoneIs ==
  ASSUME NEW s \in States
  PROVE  /\ Done(s) \in States /\ Done(s).done
         /\ Done(s).pc = s.pc /\ Done(s).hook = s.hook
         /\ Done(s).resolved = s.resolved /\ Done(s).fallback = s.fallback
         /\ Done(s).primary = s.primary
BY DEF Done, States

(* _resolve() decides at most once, and asks the hook of no killed verb.    *)
LEMMA ResolveHandled ==
  ASSUME NEW s \in States, opts \in GatherOptions, HookOK(s), NEW reason \in Reasons
  PROVE  Handled(s, Resolve(s, reason))
<1> DEFINE quiet == IF opts.speech THEN StopTranscribing(s) ELSE s
           still == KillAudio(Deaf(quiet))
           r == [still EXCEPT !.resolved = reason, !.dtmf = FALSE, !.timers = {},
                              !.timerRef = FALSE]
           d == [r EXCEPT !.delayed = opts.delay]
<1>1. Same(s, s)
  BY DEF Same
<1>2. Same(s, quiet) /\ quiet \in States
  BY <1>1, Small DEF Same, Timers
<1> HIDE DEF quiet
<1>3. Same(s, still) /\ still \in States
  <2>1. Same(quiet, Deaf(quiet)) /\ Deaf(quiet) \in States
    BY <1>2, Small DEF Same, Timers
  <2>2. Same(Deaf(quiet), still)
    BY <2>1, Small DEF Timers
  <2> QED BY <1>2, <2>1, <2>2, SameSame DEF Same
<1> HIDE DEF still
<1>4. /\ r \in States /\ r.pc = s.pc /\ r.hook = s.hook /\ r.resolved = reason
      /\ r.done = s.done /\ r.fallback = s.fallback /\ r.primary = s.primary
  BY <1>3 DEF Same, States
<1> HIDE DEF r
<1>5. /\ d \in States /\ d.pc = s.pc /\ d.hook = s.hook /\ d.resolved = reason
      /\ d.done = s.done /\ d.fallback = s.fallback /\ d.primary = s.primary
  <2>1. opts.delay \in BOOLEAN
    BY DEF GatherOptions
  <2> QED BY <1>4, <2>1 DEF States
<1> HIDE DEF d
<1>6. None \notin Reasons
  BY DEF None, Reasons, Reported
<1>7. CASE s.resolved # None
  BY <1>2, <1>7, SameIsHandled DEF Resolve, quiet
<1>8. CASE s.resolved = None
  <2>1. s.hook = None
    BY <1>8 DEF HookOK
  <2>2. Handled(s, Done(r))
    BY <1>4, <1>6, <1>8, <2>1, DoneIs DEF Handled
  <2>3. reason \in Reported => Handled(s, [d EXCEPT !.hook = "asked"])
    BY <1>5, <1>6, <1>8, <2>1 DEF Handled, States
  <2>4. Handled(s, AfterHook(d, FALSE))
    <3> DEFINE e == [d EXCEPT !.hook = None]
    <3>1. /\ e \in States /\ e.pc = s.pc /\ e.hook = None /\ e.resolved = reason
          /\ e.done = s.done /\ e.fallback = s.fallback /\ e.primary = s.primary
      BY <1>5 DEF States
    <3> HIDE DEF e
    <3>2. Handled(s, Done(e))
      BY <3>1, <1>6, <1>8, <2>1, DoneIs DEF Handled
    <3> QED BY <3>2 DEF AfterHook, e
  <2> QED
    BY <1>8, <2>2, <2>3, <2>4 DEF Resolve, quiet, still, r, d
<1> QED BY <1>7, <1>8

(* The verb's kill().                                                       *)
LEMMA KillHandled ==
  ASSUME NEW s \in States, opts \in GatherOptions, HookOK(s), s.pc # "init"
  PROVE  Handled(s, Kill(s))
<1> DEFINE k == [s EXCEPT !.killed = TRUE]
           t == [KillAudio(k) EXCEPT !.dtmf = FALSE,
                   !.timers = @ \ {"interDigit", "asr"}]
<1>1. Same(s, k) /\ k \in States /\ k.pc = s.pc
  BY DEF Same, States
<1> HIDE DEF k
<1>2. Same(k, KillAudio(k)) /\ KillAudio(k) \in States
  BY <1>1, Small DEF Same, Timers
<1>3. Same(KillAudio(k), t)
  BY <1>2 DEF Same, States
<1>4. Same(s, t)
  BY <1>1, <1>2, <1>3, SameSame
<1> HIDE DEF t
<1>5. Handled(t, Resolve(t, "killed"))
  BY <1>4, SameIsHandled, ResolveHandled DEF Reasons
<1>6. Handled(s, Resolve(t, "killed"))
  BY <1>4, <1>5, SameHandled
<1>7. Kill(s) = Resolve(t, "killed")
  BY <1>1 DEF Kill, t, k
<1> QED BY <1>6, <1>7

-------------------------------------------------------------------------------
(* The handlers.                                                            *)

(* Digits that are collected.                                               *)
LEMMA DigitHandled ==
  ASSUME NEW s \in States, opts \in GatherOptions, HookOK(s)
  PROVE  Handled(s, Digit(s))
<1> DEFINE first == IF s.keys = 0 /\ opts.speech THEN DtmfFirst(s) ELSE s
           k == [first EXCEPT !.keys = @ + 1]
<1>1. Same(s, s)
  BY DEF Same
<1>2. Same(s, DtmfFirst(s))
  <2>1. Same(s, Deaf(s)) /\ Deaf(s) \in States
    BY Small DEF Same, Timers
  <2>2. Same(Deaf(s), Disarm(Deaf(s), "asr")) /\ Disarm(Deaf(s), "asr") \in States
    BY <2>1, Small DEF Same, Timers
  <2>3. Same(Disarm(Deaf(s), "asr"), DtmfFirst(s))
    BY <2>2, Small DEF DtmfFirst, Timers
  <2> QED BY <2>1, <2>2, <2>3, SameSame
<1>3. Same(s, first) /\ first \in States
  BY <1>1, <1>2 DEF Same
<1> HIDE DEF first
<1>4. Same(s, k) /\ k \in States
  BY <1>3 DEF Same, States
<1> HIDE DEF k
<1>5. Handled(s, k)
  BY <1>4, SameIsHandled
<1>6. Handled(s, Resolve(k, "dtmf"))
  <2>1. HookOK(k) /\ "dtmf" \in Reasons
    BY <1>4, SameIsHandled DEF Reasons, Reported
  <2> QED BY <1>4, <2>1, ResolveHandled, SameHandled
<1>7. Handled(s, ClearTimer(Arm(k, "interDigit")))
  <2>1. Same(k, Arm(k, "interDigit")) /\ Arm(k, "interDigit") \in States
    BY <1>4, Small DEF Same, Timers
  <2>2. Same(Arm(k, "interDigit"), ClearTimer(Arm(k, "interDigit")))
    BY <2>1, Small DEF Timers
  <2> QED BY <1>4, <2>1, <2>2, SameSame, SameIsHandled
<1> QED
  BY <1>5, <1>6, <1>7 DEF Digit, k, first

(* A key is pressed.                                                        *)
LEMMA DtmfHandled ==
  ASSUME NEW s \in States, opts \in GatherOptions, HookOK(s), NEW key
  PROVE  Handled(s, OnDtmf(s, key))
<1> DEFINE timed == IF s.timerRef THEN s ELSE StartTimer(s)
           quiet == Disarm(timed, "interDigit")
           b == IF opts.dtmfBargein THEN KillAudio(quiet) ELSE quiet
<1>1. Same(s, s)
  BY DEF Same
<1>2. Same(s, timed) /\ timed \in States
  BY <1>1, Small DEF Same, Timers
<1> HIDE DEF timed
<1>3. Same(s, quiet) /\ quiet \in States
  BY <1>2, Small, SameSame DEF Same, Timers
<1> HIDE DEF quiet
<1>4. Same(s, b) /\ b \in States /\ HookOK(b)
  <2>1. Same(quiet, KillAudio(quiet))
    BY <1>3, Small DEF Timers
  <2> QED BY <1>3, <2>1, SameSame, SameIsHandled
<1> HIDE DEF b
<1>5. Handled(s, b)
  BY <1>4, SameIsHandled
<1>6. Handled(s, Resolve(b, "dtmf")) /\ Handled(s, Digit(b))
  BY <1>4, ResolveHandled, DigitHandled, SameHandled DEF Reasons, Reported
<1>7. Handled(s, Arm(ClearTimer(Disarm(b, "asr")), "final"))
  <2>1. Same(b, Disarm(b, "asr")) /\ Disarm(b, "asr") \in States
    BY <1>4, Small DEF Same, Timers
  <2>2. /\ Same(Disarm(b, "asr"), ClearTimer(Disarm(b, "asr")))
        /\ ClearTimer(Disarm(b, "asr")) \in States
    BY <2>1, Small DEF Same, Timers
  <2>3. Same(ClearTimer(Disarm(b, "asr")), Arm(ClearTimer(Disarm(b, "asr")), "final"))
    BY <2>2, Small DEF Timers
  <2> QED BY <1>4, <2>1, <2>2, <2>3, SameSame, SameIsHandled
<1> QED
  BY <1>5, <1>6, <1>7 DEF OnDtmf, b, quiet, timed

(* A transcript.                                                            *)
LEMMA TranscriptHandled ==
  ASSUME NEW s \in States, opts \in GatherOptions, HookOK(s), NEW kind \in Kinds
  PROVE  Handled(s, OnTranscription(s, kind))
<1> DEFINE more == [s EXCEPT !.texts = @ + 1]
           none == [s EXCEPT !.texts = 0]
<1>1. Same(s, s)
  BY DEF Same
<1>2. /\ Same(s, more) /\ more \in States
      /\ Same(s, none) /\ none \in States /\ HookOK(none)
  BY DEF Same, States, HookOK
<1> HIDE DEF more, none
<1>3. "speech" \in Reasons /\ "low" \in Reasons
  BY DEF Reasons, Reported
<1>4. Handled(s, s) /\ Handled(s, Resolve(s, "low")) /\ Handled(s, Resolve(none, "speech"))
  BY <1>1, <1>2, <1>3, ResolveHandled, SameHandled, SameIsHandled
<1>5. Handled(s, Partial(s, kind))
  <2> DEFINE b == IF kind = "words" THEN more ELSE s
             t == IF b.timerRef THEN StartTimer(b) ELSE b
             q == IF opts.bargein THEN KillAudio(t) ELSE t
  <2>1. Same(s, b) /\ b \in States
    BY <1>1, <1>2
  <2> HIDE DEF b
  <2>2. Same(s, t) /\ t \in States
    BY <2>1, Small, SameSame DEF Same, Timers
  <2> HIDE DEF t
  <2>3. Same(s, q) /\ q \in States
    BY <2>2, Small, SameSame DEF Same, Timers
  <2> HIDE DEF q
  <2>4. Same(s, IF opts.fast THEN Arm(q, "fast") ELSE q)
    BY <2>3, Small, SameSame DEF Timers
  <2>5. Partial(s, kind) = IF opts.fast THEN Arm(q, "fast") ELSE q
    BY DEF Partial, q, t, b, more
  <2> QED BY <2>4, <2>5, SameIsHandled
<1>6. Handled(s, ContinuousFinal(s))
  <2> DEFINE b == ClearTimer(more)
             f == Disarm(b, "final")
  <2>1. Same(s, b) /\ b \in States
    BY <1>2, Small, SameSame DEF Same, Timers
  <2> HIDE DEF b
  <2>2. Same(s, f) /\ f \in States /\ HookOK(f)
    BY <2>1, Small, SameSame, SameIsHandled DEF Timers
  <2> HIDE DEF f
  <2>3. Handled(s, Resolve(f, "speech"))
    BY <1>3, <2>2, ResolveHandled, SameHandled
  <2>4. Handled(s, Arm(b, "asr"))
    BY <2>1, Small, SameSame, SameIsHandled DEF Timers
  <2> QED BY <2>3, <2>4 DEF ContinuousFinal, f, b, more
<1>7. Handled(s, EmptyFinal(s)) /\ Handled(s, UtteranceEnd(s))
  BY <1>4 DEF EmptyFinal, UtteranceEnd, none
<1>8. kind \in {"low", "utterance", "partial", "words", "empty", "final"}
  BY DEF Kinds
<1> QED
  BY <1>4, <1>5, <1>6, <1>7, <1>8 DEF OnTranscription, none

(* A timer fires.                                                           *)
LEMMA TimerHandled ==
  ASSUME NEW s \in States, opts \in GatherOptions, HookOK(s), NEW t \in Timers
  PROVE  Handled(s, TimerCallback(s, t))
<1>1. Handled(s, Arm(s, "asr"))
  BY Small, SameIsHandled DEF Timers
<1>2. \A reason \in Reported : Handled(s, Resolve(s, reason))
  BY ResolveHandled DEF Reasons
<1>3. {"dtmf", "speech", "timeout"} \subseteq Reported
  BY DEF Reported
<1>4. t \in {"timeout", "interDigit", "asr", "final", "fast"}
  BY DEF Timers
<1> QED
  BY <1>1, <1>2, <1>3, <1>4 DEF TimerCallback

(* What happens when there is no vendor left.                               *)
LEMMA OrElseHandled ==
  ASSUME NEW s \in States, opts \in GatherOptions, HookOK(s), opts.fails, NEW what
  PROVE  Handled(s, OrElse(s, what))
<1>1. Handled(s, Done(s))
  BY DoneIs DEF Handled
<1>2. Handled(s, Resolve(s, "error"))
  BY ResolveHandled DEF Reasons, Reported
<1>3. Handled(s, s)
  BY DEF Handled
<1> QED BY <1>1, <1>2, <1>3 DEF OrElse

(* The recognizer fails.                                                    *)
LEMMA FallbackHandled ==
  ASSUME NEW s \in States, opts \in GatherOptions, HookOK(s), opts.fails,
         NEW what \in {None, "done", "error"}
  PROVE  Handled(s, StartFallback(s, what))
<1> DEFINE f == [StopTranscribing(s) EXCEPT !.primary = FALSE, !.fallback = "creds",
                                            !.orElse = what]
<1>1. Same(s, StopTranscribing(s))
  BY Small DEF Timers
<1>2. Handled(s, f)
  <2> DEFINE q == StopTranscribing(s)
  <2>1. q \in States /\ q.pc = s.pc /\ q.hook = s.hook
        /\ q.resolved = s.resolved /\ q.done = s.done
    BY <1>1 DEF Same
  <2> HIDE DEF q
  <2> DEFINE e == [q EXCEPT !.primary = FALSE, !.fallback = "creds", !.orElse = what]
  <2>2. /\ e \in States /\ e.pc = s.pc /\ e.hook = s.hook
        /\ e.resolved = s.resolved /\ e.done = s.done /\ ~e.primary
    <3> DEFINE c == [q EXCEPT !.primary = FALSE, !.fallback = "creds"]
    <3>1. /\ c \in States /\ c.pc = s.pc /\ c.hook = s.hook
          /\ c.resolved = s.resolved /\ c.done = s.done /\ ~c.primary
      BY <2>1 DEF States
    <3> HIDE DEF c
    <3>2. LET o == [c EXCEPT !.orElse = what] IN
          /\ o \in States /\ o.pc = s.pc /\ o.hook = s.hook
          /\ o.resolved = s.resolved /\ o.done = s.done /\ ~o.primary
      BY <3>1 DEF States
    <3> QED BY <3>2 DEF c
  <2> HIDE DEF e
  <2>3. Handled(s, e)
    BY <2>2 DEF Handled
  <2> QED BY <2>3 DEF e, q
<1>3. Handled(s, OrElse(s, what))
  BY OrElseHandled
<1> QED BY <1>2, <1>3 DEF StartFallback

-------------------------------------------------------------------------------
(* Steps.                                                                   *)

(* A handler keeps the invariant, and is a step of the abstract verb or     *)
(* none.                                                                    *)
LEMMA HandlerStep ==
  ASSUME IInv, Live(g), Handled(g, g'), UNCHANGED opts
  PROVE  IInv' /\ [Promise!Next]_(Promise!vars) /\ Forward
<1>1. g' \in States
  BY DEF Handled
<1>2. None \notin Reasons /\ "killed" \notin Reported
  BY DEF None, Reasons, Reported
<1>3. Settled(g)'
  BY <1>2 DEF IInv, Settled, Live, Handled
<1>4. IInv'
  BY <1>1, <1>3 DEF IInv
<1> SUFFICES [Promise!Next]_(Promise!vars)
  BY <1>4 DEF Handled, Forward
<1>5. CASE g'.resolved = g.resolved /\ g'.hook = g.hook
  BY <1>4, <1>5 DEF Handled, Phase, Promise!vars
<1>6. CASE /\ g.resolved = None /\ g'.resolved \in Reasons
           /\ \/ g'.hook = g.hook
              \/ g'.hook = "asked" /\ g'.resolved \in Reported
  <2>1. g.hook = None /\ g'.pc = g.pc
    BY <1>6 DEF IInv, Settled, Handled
  <2>2. g'.resolved \in Reported \cup {"killed"}
    BY <1>6 DEF Reasons
  <2>3. CASE g.pc = "over"
    <3>1. opts.fails
      BY <1>6, <2>3 DEF Live
    <3>2. Promise!DecideLate(g'.resolved)
      BY <1>6, <2>1, <2>3, <3>1 DEF Promise!DecideLate, Phase
    <3> QED BY <1>4, <2>2, <3>2 DEF Promise!Next
  <2>4. CASE g.pc # "over"
    <3>1. Promise!Decide(g'.resolved)
      BY <1>2, <1>6, <2>1, <2>4 DEF Promise!Decide, Phase, None
    <3> QED BY <1>4, <2>2, <3>1 DEF Promise!Next
  <2> QED BY <2>3, <2>4
<1> QED BY <1>4, <1>5, <1>6 DEF Handled

(* exec() goes on: it resolves nothing, and what it leaves behind when it   *)
(* returns can decide only after a failure.                                 *)
LEMMA ExecStep ==
  ASSUME IInv, UNCHANGED opts, g' \in States, g.pc # "over",
         g'.hook = g.hook, g'.resolved = g.resolved, g'.fallback = g.fallback,
         g'.done => g.done \/ opts.fails, Forward,
         g'.pc = "init" => g.pc = "init" /\ Idle(g'),
         g'.pc = "over" /\ g.resolved = None => Idle(g') \/ opts.fails
  PROVE  IInv' /\ [Promise!Next]_(Promise!vars) /\ Forward
<1>1. Settled(g)'
  BY DEF IInv, Settled, Idle
<1>2. IInv'
  BY <1>1 DEF IInv
<1>3. CASE g'.pc = "over"
  BY <1>2, <1>3 DEF Promise!Next, Promise!Return, Phase
<1>4. CASE g'.pc # "over"
  BY <1>2, <1>4 DEF Promise!vars, Phase
<1> QED BY <1>3, <1>4

(* Handlers run only on a verb that has begun.                              *)
LEMMA EventIsLive ==
  ASSUME IInv, ~Idle(g)
  PROVE  Live(g)
BY DEF IInv, Settled, Live

(* exec() begins.                                                           *)
LEMMA BeginStep ==
  ASSUME IInv, opts \in GatherOptions, Begin
  PROVE  IInv' /\ [Promise!Next]_(Promise!vars) /\ Forward
<1> DEFINE prompted == [g EXCEPT !.prompt = "playing"]
           begun == CASE g.nested /\ opts.prompt = "open" -> PromptProcessed(prompted)
                      [] g.nested /\ opts.prompt # "open" -> prompted
                      [] OTHER -> StartListening(g)
<1>1. /\ g.pc = "init" /\ g' = Handling(g) /\ UNCHANGED opts
      /\ g \in States /\ Idle(g) /\ g.resolved = None
  BY DEF Begin, Becomes, IInv, Settled
<1>2. Same(g, prompted) /\ prompted \in States
  BY <1>1 DEF Same, States
<1> HIDE DEF prompted
<1>3. Same(g, begun) /\ begun \in States
  <2>1. Same(prompted, PromptProcessed(prompted)) /\ Same(g, StartListening(g))
    BY <1>1, <1>2, PromptSame, ListeningSame
  <2>2. Same(g, begun)
    BY <1>2, <2>1, SameSame
  <2> QED BY <2>2 DEF Same
<1>4. CASE ~g.nested /\ g.killed
  <2>1. g' = [g EXCEPT !.pc = "over"]
    BY <1>1, <1>4 DEF Handling
  <2>2. g' \in States /\ Idle(g') /\ g'.hook = g.hook /\ g'.resolved = g.resolved
        /\ g'.fallback = g.fallback /\ g'.done = g.done /\ g'.pc = "over" /\ Forward
    BY <1>1, <2>1 DEF States, Idle, Forward
  <2> QED BY <1>1, <2>2, ExecStep
<1>5. CASE ~(~g.nested /\ g.killed)
  <2> DEFINE heard == SetSpeechHandlers(begun)
             dtmf == StartDtmfListener(begun)
  <2>1. /\ Same(g, heard) /\ heard \in States
        /\ Same(g, dtmf) /\ dtmf \in States
    BY <1>3, Small, SameSame DEF Same, Timers
  <2>2. \/ g' = [heard EXCEPT !.pc = "setup"]
        \/ g' = [dtmf EXCEPT !.pc = "waiting"]
        \/ g' = [begun EXCEPT !.pc = "waiting"]
    BY <1>1, <1>5 DEF Handling, begun, prompted
  <2> HIDE DEF heard, dtmf, begun
  <2>3. /\ g' \in States /\ g'.pc \in {"setup", "waiting"}
        /\ g'.hook = g.hook /\ g'.resolved = g.resolved
        /\ g'.fallback = g.fallback /\ g'.done = g.done /\ Forward
    <3>1. \A s \in {heard, dtmf, begun}, p \in {"setup", "waiting"} :
            LET t == [s EXCEPT !.pc = p]
            IN  /\ t \in States /\ t.pc = p /\ t.hook = g.hook
                /\ t.resolved = g.resolved /\ t.fallback = g.fallback
                /\ t.done = g.done /\ t.primary = g.primary
      BY <1>3, <2>1 DEF Same, States
    <3> QED BY <2>2, <3>1 DEF Forward
  <2> QED BY <1>1, <2>3, ExecStep
<1> QED BY <1>4, <1>5

(* The other turns of exec().                                               *)
LEMMA ExecSteps ==
  ASSUME IInv, opts \in GatherOptions, NoCredentials \/ SetUp \/ SetUpFails \/ TaskDone
  PROVE  IInv' /\ [Promise!Next]_(Promise!vars) /\ Forward
<1> DEFINE Unmoved(t) == /\ t \in States /\ t.hook = g.hook /\ (t.primary => g.primary)
                         /\ t.resolved = g.resolved /\ t.fallback = g.fallback
<1>1. CASE NoCredentials
  <2> DEFINE f == Failed(g)
  <2>1. /\ g.pc = "init" /\ opts.fails /\ UNCHANGED opts
        /\ g' = WithoutCredentials(f) /\ g \in States /\ Idle(g)
    BY <1>1 DEF NoCredentials, Failing, Becomes, IInv, Settled
  <2>2. Unmoved(f) /\ f.pc = g.pc /\ f.done = g.done /\ Idle(f)
    BY <2>1 DEF Failed, States, Idle
  <2> HIDE DEF f
  <2>3. CASE opts.fallback /\ f.primary
    <3>1. g' = [f EXCEPT !.primary = FALSE]
      BY <2>1, <2>3 DEF WithoutCredentials
    <3>2. Unmoved(g') /\ g'.pc = g.pc /\ g'.done = g.done
      BY <2>2, <3>1 DEF States
    <3>3. Idle(g')
      BY <2>2, <3>1 DEF States, Idle
    <3> QED BY <2>1, <3>2, <3>3, ExecStep DEF Forward
  <2>4. CASE ~(opts.fallback /\ f.primary)
    <3>1. g' = [Done(f) EXCEPT !.pc = "over"]
      BY <2>1, <2>4 DEF WithoutCredentials
    <3>2. Unmoved(g') /\ g'.pc = "over"
      BY <2>2, <3>1, DoneIs DEF States
    <3> QED BY <2>1, <3>2, ExecStep DEF Forward
  <2> QED BY <2>3, <2>4
<1>2. CASE SetUp
  <2> DEFINE wanted == g.resolved = None /\ ~g.killed
             s == IF wanted THEN StartTranscribing(g) ELSE g
             t == StartDtmfListener(s)
  <2>1. g.pc = "setup" /\ UNCHANGED opts /\ g' = [t EXCEPT !.pc = "waiting"] /\ g \in States
    BY <1>2 DEF SetUp, Becomes, IInv
  <2>2. Same(g, s) /\ s \in States
    <3>1. Same(g, g)
      BY <2>1 DEF Same
    <3> QED BY <2>1, <3>1, Small DEF Same, Timers
  <2> HIDE DEF s
  <2>3. Same(g, t)
    BY <2>2, Small, SameSame DEF Timers
  <2> HIDE DEF t
  <2>4. Unmoved(g') /\ g'.pc = "waiting" /\ g'.done = g.done
    BY <2>1, <2>3 DEF Same, States
  <2> QED BY <2>1, <2>4, ExecStep DEF Forward
<1>3. CASE SetUpFails
  <2> DEFINE f == Failed(g)
             t == Deaf(f)
  <2>1. /\ g.pc = "setup" /\ opts.fails /\ UNCHANGED opts
        /\ g' = [t EXCEPT !.pc = "over"] /\ g \in States
    BY <1>3 DEF SetUpFails, Failing, Becomes, IInv
  <2>2. Same(g, f) /\ f \in States
    BY <2>1 DEF Failed, Same, States
  <2> HIDE DEF f
  <2>3. Same(g, t)
    BY <2>2, Small, SameSame DEF Timers
  <2> HIDE DEF t
  <2>4. Unmoved(g') /\ g'.pc = "over"
    BY <2>1, <2>3 DEF Same, States
  <2> QED BY <2>1, <2>4, ExecStep DEF Forward
<1>4. CASE TaskDone
  <2> DEFINE t == Deaf(KillAudio(g))
  <2>1. /\ g.pc = "waiting" /\ g.done /\ UNCHANGED opts
        /\ g' = [t EXCEPT !.pc = "over"] /\ g \in States
    BY <1>4 DEF TaskDone, Becomes, IInv
  <2>2. Same(g, t)
    <3>1. Same(g, KillAudio(g)) /\ KillAudio(g) \in States
      BY <2>1, Small DEF Same, Timers
    <3>2. Same(KillAudio(g), t)
      BY <3>1, Small DEF Timers
    <3> QED BY <3>1, <3>2, SameSame
  <2> HIDE DEF t
  <2>3. Unmoved(g') /\ g'.pc = "over" /\ g'.done = g.done
    BY <2>1, <2>2 DEF Same, States
  <2>4. g.resolved # None \/ opts.fails
    BY <2>1 DEF IInv, Settled
  <2> QED BY <2>1, <2>3, <2>4, ExecStep DEF Forward
<1> QED BY <1>1, <1>2, <1>3, <1>4

(* The media server.                                                        *)
LEMMA MediaSteps ==
  ASSUME IInv, opts \in GatherOptions, Media
  PROVE  IInv' /\ [Promise!Next]_(Promise!vars) /\ Forward
<1>1. g \in States /\ HookOK(g) /\ UNCHANGED opts
      /\ (g.fallback # None => opts.fails)
  BY DEF IInv, Settled, HookOK, Media, Listening, ListeningFails, PromptEnds, PromptFails,
         FallbackReady, FallbackFails, FallenBack, Becomes
<1>2. ~Idle(g)
  BY DEF Media, Listening, ListeningFails, PromptEnds, PromptFails,
         FallbackReady, FallbackFails, FallenBack, Idle, None
<1>3. Live(g)
  BY <1>2, EventIsLive
<1> SUFFICES Handled(g, g')
  BY <1>1, <1>3, HandlerStep
<1>4. CASE Listening
  <2> DEFINE s == [g EXCEPT !.starting = FALSE]
  <2>1. g' = IF s.killed THEN s ELSE StartTranscribing(s)
    BY <1>4 DEF Listening, Becomes
  <2>2. Same(g, s) /\ s \in States
    BY <1>1 DEF Same, States
  <2> HIDE DEF s
  <2>3. Same(g, StartTranscribing(s))
    BY <2>2, Small, SameSame DEF Timers
  <2> QED BY <2>1, <2>2, <2>3, SameIsHandled
<1>5. CASE ListeningFails
  <2> DEFINE f == Failed(g)
             s == [f EXCEPT !.starting = FALSE]
  <2>1. opts.fails /\ g' = StartFallback(s, None)
    BY <1>5 DEF ListeningFails, Failing, Becomes
  <2>2. Same(g, f) /\ f \in States
    BY <1>1 DEF Failed, Same, States
  <2> HIDE DEF f
  <2>3. Same(f, s) /\ s \in States
    BY <2>2 DEF Same, States
  <2> HIDE DEF s
  <2>4. Same(g, s)
    BY <2>2, <2>3, SameSame
  <2>5. HookOK(s)
    BY <1>1, <2>4, SameIsHandled
  <2> QED BY <2>1, <2>3, <2>4, <2>5, FallbackHandled, SameHandled
<1>6. CASE PromptEnds \/ PromptFails
  <2> DEFINE s == [g EXCEPT !.prompt = "over"]
  <2>1. g' \in {s, PromptProcessed(s)}
    BY <1>6 DEF PromptEnds, PromptFails, Becomes
  <2>2. Same(g, s) /\ s \in States
    BY <1>1 DEF Same, States
  <2> HIDE DEF s
  <2>3. Same(g, PromptProcessed(s))
    BY <2>2, PromptSame, SameSame
  <2> QED BY <2>1, <2>2, <2>3, SameIsHandled
<1>7. CASE FallbackReady
  <2> DEFINE d == Deaf(g)
             s == [d EXCEPT !.heardSet = FALSE]
             h == SetSpeechHandlers(s)
  <2>1. opts.fails /\ g' = [h EXCEPT !.fallback = "set"]
    BY <1>1, <1>7 DEF FallbackReady, Becomes, None
  <2>2. Same(g, d) /\ d \in States
    BY <1>1, Small DEF Same, Timers
  <2> HIDE DEF d
  <2>3. Same(d, s) /\ s \in States
    BY <2>2 DEF Same, States
  <2> HIDE DEF s
  <2>4. Same(s, h)
    BY <2>3, Small DEF Timers
  <2>5. Same(g, h)
    BY <2>2, <2>3, <2>4, SameSame
  <2> HIDE DEF h
  <2> QED BY <2>1, <2>5 DEF Handled, Same, States
<1>8. CASE FallbackFails
  <2> DEFINE s == [g EXCEPT !.fallback = None, !.orElse = None]
  <2>1. opts.fails /\ g' = OrElse(s, g.orElse)
    BY <1>1, <1>8 DEF FallbackFails, Becomes
  <2>2. /\ s \in States /\ s.pc = g.pc /\ s.hook = g.hook
        /\ s.resolved = g.resolved /\ s.done = g.done /\ s.primary = g.primary
    BY <1>1 DEF States
  <2> HIDE DEF s
  <2>3. Handled(s, OrElse(s, g.orElse))
    BY <1>1, <2>1, <2>2, OrElseHandled DEF HookOK
  <2> QED BY <2>1, <2>2, <2>3 DEF Handled
<1>9. CASE FallenBack
  <2> DEFINE s == StartTranscribing(g)
  <2>1. g' = [s EXCEPT !.fallback = None, !.orElse = None]
    BY <1>9 DEF FallenBack, Becomes
  <2>2. Same(g, s)
    BY <1>1, Small DEF Timers
  <2> HIDE DEF s
  <2> QED BY <2>1, <2>2 DEF Handled, Same, States
<1> QED
  BY <1>4, <1>5, <1>6, <1>7, <1>8, <1>9 DEF Media

(* The caller, the recognizer and the timers.                               *)
LEMMA CallerSteps ==
  ASSUME IInv, opts \in GatherOptions, Caller \/ \E t \in Timers : Fires(t)
  PROVE  IInv' /\ [Promise!Next]_(Promise!vars) /\ Forward
<1>1. g \in States /\ HookOK(g) /\ UNCHANGED opts
  BY DEF IInv, Settled, HookOK, Caller, Pressed, Transcribed, SpeechStarts, NoSpeech,
         VendorFails, Fires, Becomes
<1>2. ~Idle(g)
  BY DEF Caller, Pressed, Transcribed, SpeechStarts, NoSpeech, VendorFails, Fires, Idle
<1>3. Live(g)
  BY <1>2, EventIsLive
<1> SUFFICES Handled(g, g')
  BY <1>1, <1>3, HandlerStep
<1>4. ASSUME NEW key \in Keys, Pressed(key)
      PROVE  Handled(g, g')
  <2> DEFINE s == [g EXCEPT !.pressed = @ + 1]
  <2>1. g' = OnDtmf(s, key)
    BY <1>4 DEF Pressed, Becomes
  <2>2. Same(g, s) /\ s \in States
    BY <1>1 DEF Same, States
  <2> HIDE DEF s
  <2> QED BY <1>1, <2>1, <2>2, DtmfHandled, SameHandled, SameIsHandled
<1>5. ASSUME NEW kind \in Kinds, Transcribed(kind)
      PROVE  Handled(g, g')
  <2> DEFINE s == [g EXCEPT !.spoken = @ + 1]
  <2>1. g' = OnTranscription(s, kind)
    BY <1>5 DEF Transcribed, Becomes
  <2>2. Same(g, s) /\ s \in States
    BY <1>1 DEF Same, States
  <2> HIDE DEF s
  <2> QED BY <1>1, <2>1, <2>2, TranscriptHandled, SameHandled, SameIsHandled
<1>6. CASE SpeechStarts
  BY <1>1, <1>6, Small, SameIsHandled DEF SpeechStarts, Becomes, Timers
<1>7. CASE NoSpeech
  BY <1>1, <1>7, ResolveHandled DEF NoSpeech, Becomes, Reasons, Reported
<1>8. ASSUME NEW what \in {"done", "error"}, VendorFails(what)
      PROVE  Handled(g, g')
  <2> DEFINE f == Failed(g)
  <2>1. opts.fails /\ g' = StartFallback(f, what)
    BY <1>8 DEF VendorFails, Failing, Becomes
  <2>2. Same(g, f) /\ f \in States
    BY <1>1 DEF Failed, Same, States
  <2> HIDE DEF f
  <2> QED BY <1>1, <2>1, <2>2, FallbackHandled, SameHandled, SameIsHandled
<1>9. ASSUME NEW t \in Timers, Fires(t)
      PROVE  Handled(g, g')
  <2> DEFINE s == Disarm(g, t)
  <2>1. g' = TimerCallback(s, t)
    BY <1>9 DEF Fires, Becomes
  <2>2. Same(g, s) /\ s \in States
    BY <1>1, Small DEF Same
  <2> HIDE DEF s
  <2> QED BY <1>1, <2>1, <2>2, TimerHandled, SameHandled, SameIsHandled
<1> QED BY <1>4, <1>5, <1>6, <1>7, <1>8, <1>9 DEF Caller

(* The action hook; the verb is resolved by then.                           *)
LEMMA HookSteps ==
  ASSUME IInv, opts \in GatherOptions, Hook
  PROVE  IInv' /\ [Promise!Next]_(Promise!vars) /\ Forward
<1>1. g \in States /\ g.resolved # None /\ g.hook # None /\ UNCHANGED opts
  BY DEF IInv, Settled, Hook, HookReplies, HookFails, FailureReported, DelayStopped,
         Becomes, None
<1>2. /\ g' \in States /\ g'.pc = g.pc /\ g'.resolved = g.resolved
      /\ g'.fallback = g.fallback /\ g'.primary = g.primary
  <2>1. CASE HookFails
    BY <1>1, <2>1 DEF HookFails, Becomes, States
  <2>2. ASSUME NEW verbs \in BOOLEAN, g' = AfterHook(g, verbs)
        PROVE  /\ g' \in States /\ g'.pc = g.pc /\ g'.resolved = g.resolved
               /\ g'.fallback = g.fallback /\ g'.primary = g.primary
    <3> DEFINE e == [g EXCEPT !.hook = None]
    <3>1. /\ e \in States /\ e.pc = g.pc /\ e.resolved = g.resolved
          /\ e.fallback = g.fallback /\ e.primary = g.primary
      BY <1>1 DEF States
    <3>2. CASE g.delayed /\ verbs
      BY <1>1, <2>2, <3>2 DEF AfterHook, States
    <3>3. CASE ~(g.delayed /\ verbs)
      <4>1. g' = Done(e)
        BY <2>2, <3>3 DEF AfterHook
      <4> HIDE DEF e
      <4> QED BY <3>1, <4>1, DoneIs
    <3> QED BY <3>2, <3>3
  <2>3. CASE FailureReported \/ \E verbs \in BOOLEAN : HookReplies(verbs)
    BY <2>2, <2>3 DEF FailureReported, HookReplies, Becomes
  <2>4. CASE DelayStopped
    <3> DEFINE e == [g EXCEPT !.hook = None, !.delayed = FALSE]
    <3>1. /\ e \in States /\ e.pc = g.pc /\ e.resolved = g.resolved
          /\ e.fallback = g.fallback /\ e.primary = g.primary
      BY <1>1 DEF States
    <3>2. g' = Done(e)
      BY <2>4 DEF DelayStopped, Becomes
    <3> HIDE DEF e
    <3> QED BY <3>1, <3>2, DoneIs
  <2> QED BY <2>1, <2>3, <2>4 DEF Hook
<1>3. g.pc # "init"
  BY <1>1 DEF IInv, Settled
<1>4. IInv'
  BY <1>1, <1>2, <1>3 DEF IInv, Settled
<1>5. CASE Phase' = Phase
  BY <1>1, <1>2, <1>4, <1>5 DEF Promise!vars, Forward
<1>6. CASE Phase' # Phase
  <2>1. Phase = "reporting" /\ Phase' = "running"
    BY <1>1, <1>2, <1>6 DEF Phase
  <2> QED BY <1>1, <1>2, <1>4, <2>1 DEF Promise!Next, Promise!Reported, Forward
<1> QED BY <1>5, <1>6

(* The session kills the verb; before it begins that leaves only a flag.    *)
LEMMA SessionSteps ==
  ASSUME IInv, opts \in GatherOptions, Session
  PROVE  IInv' /\ [Promise!Next]_(Promise!vars) /\ Forward
<1>1. g \in States /\ HookOK(g) /\ UNCHANGED opts /\ g.pc # "over"
  BY DEF IInv, Settled, HookOK, Session, SessionKills, CallGone, Becomes
<1>2. CASE SessionKills /\ g.pc = "init"
  <2>1. g' = [g EXCEPT !.killed = TRUE] /\ Idle(g)
    BY <1>2 DEF SessionKills, Becomes, Kill, IInv, Settled
  <2>2. /\ g' \in States /\ g'.pc = g.pc /\ g'.hook = g.hook
        /\ g'.resolved = g.resolved /\ g'.fallback = g.fallback /\ g'.done = g.done
        /\ Forward
    BY <1>1, <2>1 DEF States, Forward
  <2>3. Idle(g')
    BY <1>1, <2>1 DEF States, Idle
  <2> QED BY <1>1, <1>2, <2>2, <2>3, ExecStep
<1>3. CASE g.pc # "init"
  <2>1. Live(g)
    BY <1>1, <1>3 DEF Live
  <2>2. CASE SessionKills
    BY <1>1, <1>3, <2>1, <2>2, KillHandled, HandlerStep DEF SessionKills, Becomes
  <2>3. CASE CallGone
    <3> DEFINE s == [g EXCEPT !.callGone = TRUE]
    <3>1. g' = Kill(s)
      BY <2>3 DEF CallGone, Becomes
    <3>2. Same(g, s) /\ s \in States /\ s.pc # "init"
      BY <1>1, <1>3 DEF Same, States
    <3> HIDE DEF s
    <3>3. Handled(g, g')
      BY <1>1, <3>1, <3>2, KillHandled, SameHandled, SameIsHandled
    <3> QED BY <1>1, <2>1, <3>3, HandlerStep
  <2> QED BY <2>2, <2>3 DEF Session
<1> QED BY <1>2, <1>3 DEF Session, CallGone

-------------------------------------------------------------------------------
(* Theorems.                                                                *)

(* The invariant holds at first.                                            *)
LEMMA InitInv == Init => IInv /\ Promise!Init
<1> SUFFICES ASSUME Init PROVE IInv /\ Promise!Init
  OBVIOUS
<1>1. opts \in GatherOptions /\ opts.fails \in BOOLEAN
  BY GatherAssumption DEF Init, GatherOptions
<1>2. g \in States
  BY DEF Init, States, None
<1>3. Settled(g)
  BY DEF Init, Settled, Idle, None
<1> QED BY <1>1, <1>2, <1>3 DEF Init, IInv, Promise!Init, Phase

(* Every step keeps the invariant and is one of the abstract verb.          *)
LEMMA NextInv ==
  IInv /\ [Next]_vars => IInv' /\ [Promise!Next]_(Promise!vars) /\ Forward
<1> SUFFICES ASSUME IInv, [Next]_vars
             PROVE  IInv' /\ [Promise!Next]_(Promise!vars) /\ Forward
  OBVIOUS
<1>1. opts \in GatherOptions
  BY GatherAssumption DEF IInv
<1>2. CASE Next
  BY <1>1, <1>2, BeginStep, ExecSteps, MediaSteps, CallerSteps, HookSteps, SessionSteps
     DEF Next, Exec
<1>3. CASE UNCHANGED vars
  BY <1>3 DEF vars, IInv, Settled, Idle, Promise!vars, Phase, Forward
<1> QED BY <1>2, <1>3

(* Whatever the caller does and however the recognizer fails, a gather      *)
(* comes to one outcome and reports it at most once, and only what is left  *)
(* of a recognizer that failed may do so after exec() has returned.         *)
THEOREM OneOutcomeCorrect == Spec => OneOutcome
BY InitInv, NextInv, PTL DEF Spec, OneOutcome, Promise!Spec


-------------------------------------------------------------------------------
(* Digits before speech.                                                    *)

Spoken == {"speech", "low"}

(* Recognition whose timers do not outlive the first digit.                 *)
Tame == ~opts.fast /\ ~opts.continuous

(* Transcripts are listened for only before the first digit.  Digits are    *)
(* listened for once: when the prompt is over, or, during it, before the    *)
(* recognizer is asked for anything, so never after a transcript decided.   *)
Wins(s) ==
  /\ s.timers \subseteq {"timeout", "interDigit"} /\ s.fallback = None
  /\ s.heard => s.keys = 0 /\ opts.speech /\ s.heardSet
  /\ s.keys > 0 => s.resolved \notin Spoken /\ s.dtmfSet
  /\ s.dtmf => s.dtmfSet /\ s.resolved \notin Spoken
  /\ s.heardSet /\ ~opts.during => s.dtmfSet \/ ~WantsDtmf
  /\ s.resolved \in Spoken => s.heardSet
  /\ s.pc \in {"init", "setup"} => ~s.asking /\ ~s.dtmfSet /\ s.resolved \notin Spoken
  /\ s.pc = "setup" => opts.during
  /\ s.pc = "init" => ~s.heardSet
  /\ s.starting => ~opts.during
WinsInv == Tame /\ g.primary => Wins(g)

(* What a step may do that neither listens anew nor resolves to speech.     *)
Quieter(s, t) ==
  /\ t \in States
  /\ t.pc = s.pc /\ t.keys = s.keys /\ t.heardSet = s.heardSet /\ t.dtmfSet = s.dtmfSet
  /\ t.fallback = s.fallback /\ t.primary = s.primary
  /\ t.timers \subseteq s.timers \cup {"timeout", "interDigit"}
  /\ (t.heard => s.heard) /\ (t.dtmf => s.dtmf) /\ (t.asking => s.asking)
  /\ (t.starting => s.starting)
  /\ t.resolved \in Spoken => s.resolved \in Spoken

LEMMA QuietWins ==
  ASSUME NEW s, NEW t, Wins(s), Quieter(s, t)
  PROVE  Wins(t)
BY DEF Wins, Quieter

LEMMA QuietQuiet ==
  ASSUME NEW r, NEW s, NEW t, Quieter(r, s), Quieter(s, t)
  PROVE  Quieter(r, t)
BY DEF Quieter

LEMMA QuietItself ==
  ASSUME NEW s \in States
  PROVE  Quieter(s, s)
BY DEF Quieter

LEMMA QuietHelpers ==
  ASSUME NEW s \in States, opts \in GatherOptions
  PROVE  /\ \A t \in Timers : Quieter(s, Disarm(s, t))
         /\ Quieter(s, Arm(s, "timeout")) /\ Quieter(s, Arm(s, "interDigit"))
         /\ Quieter(s, StartTimer(s)) /\ Quieter(s, ClearTimer(s))
         /\ Quieter(s, KillAudio(s)) /\ Quieter(s, Deaf(s))
         /\ Quieter(s, StopTranscribing(s)) /\ Quieter(s, Done(s))
<1>1. ASSUME NEW t \in Timers PROVE Quieter(s, Disarm(s, t))
  BY DEF Quieter, States, Disarm
<1>2. Quieter(s, Arm(s, "timeout")) /\ Quieter(s, Arm(s, "interDigit"))
  BY DEF Quieter, States, Arm, Timers
<1>3. Quieter(s, StartTimer(s))
  <2>1. Quieter(s, [Arm(s, "timeout") EXCEPT !.timerRef = TRUE])
    BY DEF Quieter, States, Arm, Timers
  <2> QED BY <2>1, QuietItself DEF StartTimer
<1>4. Quieter(s, ClearTimer(s))
  <2>1. Quieter(s, [Disarm(s, "timeout") EXCEPT !.timerRef = FALSE])
    BY DEF Quieter, States, Disarm
  <2> QED BY <2>1, QuietItself DEF ClearTimer
<1>5. Quieter(s, KillAudio(s))
  BY DEF Quieter, States, KillAudio
<1>6. Quieter(s, Deaf(s))
  BY DEF Quieter, States, Deaf
<1>7. Quieter(s, StopTranscribing(s))
  BY DEF Quieter, States, StopTranscribing
<1>8. Quieter(s, Done(s))
  BY DEF Quieter, States, Done
<1> QED BY <1>1, <1>2, <1>3, <1>4, <1>5, <1>6, <1>7, <1>8

(* The end of _resolve().                                                   *)
LEMMA AfterHookQuiet ==
  ASSUME NEW s \in States, NEW verbs
  PROVE  Quieter(s, AfterHook(s, verbs))
<1>1. Quieter(s, [s EXCEPT !.hook = "stopping"])
  BY DEF Quieter, States
<1>2. Quieter(s, [[s EXCEPT !.hook = None] EXCEPT !.done = TRUE])
  BY DEF Quieter, States
<1> QED BY <1>1, <1>2 DEF AfterHook, Done

(* _resolve(), whatever the reason, but for what it is resolved to.         *)
Resolves(s, t, reason) ==
  \/ Quieter(s, t)
  \/ /\ s.resolved = None /\ t.resolved = reason /\ t.timers = {} /\ ~t.dtmf /\ ~t.heard
     /\ Quieter(s, [t EXCEPT !.resolved = None])
     /\ t \in States

LEMMA ResolveIs ==
  ASSUME NEW s \in States, opts \in GatherOptions, NEW reason \in Reasons
  PROVE  Resolves(s, Resolve(s, reason), reason)
<1> DEFINE quiet == IF opts.speech THEN StopTranscribing(s) ELSE s
           still == KillAudio(Deaf(quiet))
           r == [still EXCEPT !.resolved = reason, !.dtmf = FALSE, !.timers = {},
                              !.timerRef = FALSE]
           d == [r EXCEPT !.delayed = opts.delay]
<1>1. Quieter(s, quiet) /\ quiet \in States
  BY QuietItself, QuietHelpers DEF Quieter
<1>2. Quieter(s, still) /\ still \in States /\ ~still.heard
  <2>1. Quieter(quiet, Deaf(quiet)) /\ Deaf(quiet) \in States
    BY <1>1, QuietHelpers DEF Quieter
  <2>2. Quieter(Deaf(quiet), still) /\ still \in States
    BY <2>1, QuietHelpers DEF Quieter
  <2>3. ~Deaf(quiet).heard
    BY <1>1 DEF Deaf, States
  <2>4. ~still.heard
    BY <2>2, <2>3 DEF Quieter
  <2> QED BY <1>1, <2>1, <2>2, <2>4, QuietQuiet
<1>3. Quieter(s, quiet) => Resolves(s, quiet, reason)
  BY DEF Resolves
<1> HIDE DEF quiet
<1> HIDE DEF still
<1>4. /\ r \in States /\ r.resolved = reason /\ r.timers = {} /\ ~r.dtmf /\ ~r.heard
      /\ r.pc = s.pc /\ r.keys = s.keys /\ r.heardSet = s.heardSet
      /\ r.dtmfSet = s.dtmfSet /\ r.fallback = s.fallback /\ r.primary = s.primary
      /\ (r.asking => s.asking) /\ (r.starting => s.starting)
  BY <1>2 DEF Quieter, States
<1> HIDE DEF r
<1> DEFINE Ends(t) ==
      /\ t \in States /\ t.resolved = reason /\ t.timers = {} /\ ~t.dtmf /\ ~t.heard
      /\ t.pc = s.pc /\ t.keys = s.keys /\ t.heardSet = s.heardSet
      /\ t.dtmfSet = s.dtmfSet /\ t.fallback = s.fallback /\ t.primary = s.primary
      /\ (t.asking => s.asking) /\ (t.starting => s.starting)
<1>5. Ends(d)
  <2>1. opts.delay \in BOOLEAN
    BY DEF GatherOptions
  <2> QED BY <1>4, <2>1 DEF States
<1> HIDE DEF d
<1>6. Ends(Done(r))
  BY <1>4 DEF Done, States
<1>9. Ends([d EXCEPT !.hook = "asked"])
  BY <1>5 DEF States
<1>7. Ends(AfterHook(d, FALSE))
  <2>1. Ends([[d EXCEPT !.hook = None] EXCEPT !.done = TRUE])
    BY <1>5 DEF States
  <2> QED BY <2>1 DEF AfterHook, Done
<1>8. ASSUME NEW t, Ends(t), s.resolved = None PROVE Resolves(s, t, reason)
  <2>1. Quieter(s, [t EXCEPT !.resolved = None])
    BY <1>8 DEF Quieter, States, Spoken, None
  <2> QED BY <1>8, <2>1 DEF Resolves
<1> HIDE DEF Ends
<1> QED
  BY <1>1, <1>3, <1>6, <1>7, <1>8, <1>9 DEF Resolve, quiet, still, r, d

LEMMA ResolveQuiet ==
  ASSUME NEW s \in States, opts \in GatherOptions, NEW reason \in Reasons \ Spoken
  PROVE  Quieter(s, Resolve(s, reason))
<1> DEFINE t == Resolve(s, reason)
<1>1. Resolves(s, t, reason)
  BY ResolveIs
<1> HIDE DEF t
<1>2. ASSUME s.resolved = None, t.resolved = reason, t.timers = {}, ~t.dtmf, ~t.heard,
             Quieter(s, [t EXCEPT !.resolved = None]), t \in States
      PROVE  Quieter(s, t)
  BY <1>2 DEF Quieter, States
<1> QED BY <1>1, <1>2 DEF Resolves, t

(* A transcript may decide before the first digit, once digits are listened *)
(* for.                                                                     *)
LEMMA SpeechWins ==
  ASSUME NEW s \in States, opts \in GatherOptions, Wins(s), NEW reason \in Reasons,
         s.keys = 0, s.heardSet, s.pc \notin {"init", "setup"}
  PROVE  Wins(Resolve(s, reason))
<1> DEFINE t == Resolve(s, reason)
<1>1. Resolves(s, t, reason)
  BY ResolveIs
<1> HIDE DEF t
<1>2. CASE Quieter(s, t)
  BY <1>2, QuietWins DEF t
<1>3. CASE ~Quieter(s, t)
  <2>1. /\ t.timers = {} /\ ~t.dtmf /\ ~t.heard /\ t \in States
        /\ Quieter(s, [t EXCEPT !.resolved = None])
    BY <1>1, <1>3 DEF Resolves
  <2>2. /\ t.pc = s.pc /\ t.keys = s.keys /\ t.heardSet = s.heardSet
        /\ t.dtmfSet = s.dtmfSet /\ t.fallback = s.fallback /\ (t.starting => s.starting)
    BY <2>1 DEF Quieter, States
  <2> QED BY <2>1, <2>2 DEF Wins, t
<1> QED BY <1>2, <1>3

(* The verb's kill().                                                       *)
LEMMA KillQuiet ==
  ASSUME NEW s \in States, opts \in GatherOptions
  PROVE  Quieter(s, Kill(s))
<1> DEFINE k == [s EXCEPT !.killed = TRUE]
           q == KillAudio(k)
           t == [q EXCEPT !.dtmf = FALSE, !.timers = @ \ {"interDigit", "asr"}]
<1>1. Quieter(s, k) /\ k \in States
  BY DEF Quieter, States
<1> HIDE DEF k
<1>2. Quieter(k, q) /\ q \in States
  BY <1>1, QuietHelpers DEF Quieter
<1> HIDE DEF q
<1>3. Quieter(q, t) /\ t \in States
  <2>1. t \in States
    BY <1>2 DEF States
  <2>2. Quieter(q, t)
    BY <1>2, <2>1 DEF Quieter, States
  <2> QED BY <2>1, <2>2
<1> HIDE DEF t
<1>4. Quieter(t, Resolve(t, "killed"))
  BY <1>3, ResolveQuiet DEF Reasons, Reported, Spoken
<1>5. Quieter(s, Resolve(t, "killed"))
  BY <1>1, <1>2, <1>3, <1>4, QuietQuiet
<1> QED BY <1>1, <1>5 DEF Kill, t, q, k

-------------------------------------------------------------------------------
(* Digits.                                                                  *)

Pressable(s) == s \in States /\ Wins(s) /\ s.dtmfSet /\ s.resolved \notin Spoken

LEMMA QuietPressable ==
  ASSUME NEW s, NEW t, Pressable(s), Quieter(s, t)
  PROVE  Pressable(t)
BY QuietWins DEF Pressable, Quieter

LEMMA DigitWins ==
  ASSUME NEW s, opts \in GatherOptions, Pressable(s)
  PROVE  Wins(Digit(s))
<1> DEFINE first == IF s.keys = 0 /\ opts.speech THEN DtmfFirst(s) ELSE s
           k == [first EXCEPT !.keys = @ + 1]
<1>1. s \in States /\ Wins(s)
  BY DEF Pressable
<1>2. Quieter(s, DtmfFirst(s)) /\ ~DtmfFirst(s).heard
  <2>1. Quieter(s, Deaf(s)) /\ Deaf(s) \in States
    BY <1>1, QuietHelpers DEF Quieter
  <2>2. Quieter(Deaf(s), Disarm(Deaf(s), "asr")) /\ Disarm(Deaf(s), "asr") \in States
    BY <2>1, QuietHelpers DEF Quieter, Timers
  <2>3. Quieter(Disarm(Deaf(s), "asr"), DtmfFirst(s))
    BY <2>2, QuietHelpers DEF DtmfFirst
  <2>4. ~Deaf(s).heard
    BY <1>1 DEF Deaf, States
  <2>5. ~DtmfFirst(s).heard
    BY <2>2, <2>3, <2>4 DEF Quieter
  <2>6. Quieter(s, DtmfFirst(s))
    BY <2>1, <2>2, <2>3, QuietQuiet
  <2> QED BY <2>5, <2>6
<1>3. Quieter(s, first) /\ ~first.heard
  BY <1>1, <1>2, QuietItself DEF Wins
<1>4. Pressable(first)
  BY <1>3, QuietPressable
<1> HIDE DEF first
<1>5. k \in States /\ Wins(k)
  <2>1. first \in States /\ first.keys \in Nat
    BY <1>4 DEF Pressable, States
  <2>2. /\ k \in States /\ k.timers = first.timers /\ k.fallback = first.fallback
        /\ k.heard = first.heard /\ k.resolved = first.resolved
        /\ k.dtmfSet = first.dtmfSet /\ k.heardSet = first.heardSet
        /\ k.dtmf = first.dtmf /\ k.pc = first.pc
        /\ k.asking = first.asking /\ k.starting = first.starting
    BY <2>1 DEF States
  <2> HIDE DEF k
  <2> QED BY <1>3, <1>4, <2>2 DEF Pressable, Wins
<1> HIDE DEF k
<1>6. Wins(Resolve(k, "dtmf"))
  BY <1>5, ResolveQuiet, QuietWins DEF Reasons, Reported, Spoken
<1>7. Wins(ClearTimer(Arm(k, "interDigit")))
  <2>1. Quieter(k, Arm(k, "interDigit")) /\ Arm(k, "interDigit") \in States
    BY <1>5, QuietHelpers DEF Quieter
  <2>2. Quieter(Arm(k, "interDigit"), ClearTimer(Arm(k, "interDigit")))
    BY <2>1, QuietHelpers
  <2> QED BY <1>5, <2>1, <2>2, QuietWins
<1> QED BY <1>5, <1>6, <1>7 DEF Digit, k, first

LEMMA DtmfKeepsWins ==
  ASSUME NEW s, opts \in GatherOptions, Tame, Pressable(s), NEW key
  PROVE  Wins(OnDtmf(s, key))
<1> DEFINE timed == IF s.timerRef THEN s ELSE StartTimer(s)
           quiet == Disarm(timed, "interDigit")
           b == IF opts.dtmfBargein THEN KillAudio(quiet) ELSE quiet
<1>1. s \in States
  BY DEF Pressable
<1>2. Quieter(s, timed) /\ timed \in States
  BY <1>1, QuietItself, QuietHelpers DEF Quieter
<1> HIDE DEF timed
<1>3. Quieter(timed, quiet) /\ quiet \in States
  BY <1>2, QuietHelpers DEF Quieter, Timers
<1> HIDE DEF quiet
<1>4. Quieter(quiet, b) /\ b \in States
  BY <1>3, QuietItself, QuietHelpers DEF Quieter
<1> HIDE DEF b
<1>5. Pressable(b) /\ Wins(b)
  BY <1>2, <1>3, <1>4, QuietPressable DEF Pressable
<1>6. Wins(Resolve(b, "dtmf"))
  BY <1>4, <1>5, ResolveQuiet, QuietWins DEF Reasons, Reported, Spoken
<1>7. Wins(Digit(b))
  BY <1>5, DigitWins
<1> QED BY <1>5, <1>6, <1>7 DEF OnDtmf, b, quiet, timed, Tame

-------------------------------------------------------------------------------
(* Transcripts and timers.                                                  *)

LEMMA TranscriptWins ==
  ASSUME NEW s \in States, opts \in GatherOptions, Tame, Wins(s), NEW kind \in Kinds,
         s.heard, s.pc \notin {"init", "setup"}
  PROVE  Wins(OnTranscription(s, kind))
<1> DEFINE more == [s EXCEPT !.texts = @ + 1]
           none == [s EXCEPT !.texts = 0]
<1>1. s.keys = 0 /\ s.heardSet
  BY DEF Wins
<1>2. "speech" \in Reasons /\ "low" \in Reasons
  BY DEF Reasons, Reported
<1>3. Quieter(s, more) /\ more \in States
  BY DEF Quieter, States
<1>4. Quieter(s, none) /\ none \in States
  BY DEF Quieter, States
<1> HIDE DEF more, none
<1>5. Wins(Resolve(s, "low"))
  BY <1>1, <1>2, SpeechWins
<1>6. Wins(Resolve(none, "speech"))
  <2>1. Wins(none) /\ none.keys = 0 /\ none.heardSet /\ none.pc = s.pc
    BY <1>1, <1>4, QuietWins DEF Quieter
  <2> QED BY <1>2, <1>4, <2>1, SpeechWins
<1>7. Wins(Partial(s, kind))
  <2> DEFINE b == IF kind = "words" THEN more ELSE s
             t == IF b.timerRef THEN StartTimer(b) ELSE b
             q == IF opts.bargein THEN KillAudio(t) ELSE t
  <2>1. Quieter(s, b) /\ b \in States
    BY <1>3, QuietItself
  <2> HIDE DEF b
  <2>2. Quieter(b, t) /\ t \in States
    BY <2>1, QuietItself, QuietHelpers DEF Quieter
  <2> HIDE DEF t
  <2>3. Quieter(t, q)
    BY <2>2, QuietItself, QuietHelpers
  <2> HIDE DEF q
  <2>4. Wins(q)
    BY <2>1, <2>2, <2>3, QuietWins
  <2> QED BY <2>4 DEF Partial, q, t, b, more, Tame
<1>8. Wins(EmptyFinal(s)) /\ Wins(UtteranceEnd(s))
  BY <1>6 DEF EmptyFinal, UtteranceEnd, none
<1>9. kind \in {"low", "utterance", "partial", "words", "empty", "final"}
  BY DEF Kinds
<1> QED
  BY <1>5, <1>6, <1>7, <1>8, <1>9 DEF OnTranscription, none, Tame

LEMMA TimerQuiet ==
  ASSUME NEW s \in States, opts \in GatherOptions, Tame, NEW t \in {"timeout", "interDigit"}
  PROVE  Quieter(s, TimerCallback(s, t))
<1>1. /\ Quieter(s, Resolve(s, "dtmf")) /\ Quieter(s, Resolve(s, "timeout"))
  BY ResolveQuiet DEF Reasons, Reported, Spoken
<1> QED BY <1>1 DEF TimerCallback, Tame

LEMMA OrElseQuiet ==
  ASSUME NEW s \in States, opts \in GatherOptions, NEW what
  PROVE  Quieter(s, OrElse(s, what))
<1>1. Quieter(s, Done(s)) /\ Quieter(s, s) /\ Quieter(s, Resolve(s, "error"))
  BY QuietHelpers, QuietItself, ResolveQuiet DEF Reasons, Reported, Spoken
<1> QED BY <1>1 DEF OrElse

-------------------------------------------------------------------------------
(* Listening.                                                               *)

(* What startListening() does.                                              *)
Listens(s, t) ==
  /\ t \in States
  /\ t.pc = s.pc /\ t.keys = s.keys /\ t.dtmf = s.dtmf /\ t.dtmfSet = s.dtmfSet
  /\ t.resolved = s.resolved /\ t.fallback = s.fallback /\ t.primary = s.primary
  /\ t.timers \subseteq s.timers \cup {"timeout", "interDigit"}
  /\ t.asking => s.asking \/ (~opts.during /\ s.heardSet)
  /\ (s.heardSet => t.heardSet) /\ (opts.during => t.heardSet = s.heardSet)
  /\ t.heard => s.heard \/ (opts.speech /\ ~opts.during /\ t.heardSet)
  /\ t.heard /\ s.heardSet => s.heard
  /\ t.starting => s.starting \/ ~opts.during

LEMMA ListeningIs ==
  ASSUME NEW s \in States, opts \in GatherOptions, Tame
  PROVE  Listens(s, StartListening(s))
<1> DEFINE timed == StartTimer(s)
           asr == IF opts.continuous /\ ~opts.timed THEN Arm(timed, "asr") ELSE timed
<1>1. Same(s, asr) /\ Quieter(s, asr) /\ asr \in States
  BY Small, QuietHelpers DEF Quieter, Tame, Timers
<1>2. asr.dtmf = s.dtmf /\ asr.asking = s.asking /\ asr.heard = s.heard
      /\ asr.starting = s.starting
  BY DEF StartTimer, Arm, States, Tame
<1> HIDE DEF asr
<1>3. CASE ~opts.speech \/ opts.during
  <2>1. Listens(s, asr)
    BY <1>1, <1>2 DEF Quieter, Same, Listens
  <2> QED BY <1>3, <2>1 DEF StartListening, asr
<1>4. CASE opts.speech /\ ~opts.during /\ asr.heardSet
  <2> DEFINE t == [asr EXCEPT !.asking = TRUE]
  <2>1. /\ t \in States /\ t.pc = asr.pc /\ t.keys = asr.keys /\ t.dtmf = asr.dtmf
        /\ t.dtmfSet = asr.dtmfSet /\ t.resolved = asr.resolved
        /\ t.fallback = asr.fallback /\ t.primary = asr.primary /\ t.timers = asr.timers
        /\ t.heardSet = asr.heardSet /\ t.heard = asr.heard /\ t.starting = asr.starting
    BY <1>1 DEF States
  <2> HIDE DEF t
  <2>2. Listens(s, t)
    BY <1>1, <1>2, <1>4, <2>1 DEF Quieter, Same, Listens
  <2> QED BY <1>4, <2>2 DEF StartListening, asr, t, StartTranscribing
<1>5. CASE opts.speech /\ ~opts.during /\ ~asr.heardSet
  <2> DEFINE h == [asr EXCEPT !.heard = TRUE, !.heardSet = TRUE]
             t == [h EXCEPT !.starting = TRUE]
  <2>1. /\ h \in States /\ h.pc = asr.pc /\ h.keys = asr.keys /\ h.dtmf = asr.dtmf
        /\ h.dtmfSet = asr.dtmfSet /\ h.resolved = asr.resolved
        /\ h.fallback = asr.fallback /\ h.primary = asr.primary /\ h.timers = asr.timers
        /\ h.asking = asr.asking /\ h.heardSet
    BY <1>1 DEF States
  <2> HIDE DEF h
  <2>2. /\ t \in States /\ t.pc = asr.pc /\ t.keys = asr.keys /\ t.dtmf = asr.dtmf
        /\ t.dtmfSet = asr.dtmfSet /\ t.resolved = asr.resolved
        /\ t.fallback = asr.fallback /\ t.primary = asr.primary /\ t.timers = asr.timers
        /\ t.asking = asr.asking /\ t.heardSet
    BY <2>1 DEF States
  <2> HIDE DEF t
  <2>3. Listens(s, t)
    BY <1>1, <1>2, <1>5, <2>2 DEF Quieter, Same, Listens
  <2> QED BY <1>5, <2>3 DEF StartListening, asr, t, h, SetSpeechHandlers
<1> QED BY <1>3, <1>4, <1>5

(* startDtmfListener().                                                     *)
HearsKeys(s, t) ==
  /\ t \in States
  /\ t.pc = s.pc /\ t.keys = s.keys /\ t.heardSet = s.heardSet /\ t.heard = s.heard
  /\ t.resolved = s.resolved /\ t.fallback = s.fallback /\ t.primary = s.primary
  /\ t.timers = s.timers /\ t.asking = s.asking /\ t.starting = s.starting
  /\ t.dtmf = WantsDtmf /\ t.dtmfSet = WantsDtmf

LEMMA DtmfListenerIs ==
  ASSUME NEW s \in States
  PROVE  HearsKeys(s, StartDtmfListener(s))
<1>1. WantsDtmf \in BOOLEAN
  BY DEF WantsDtmf
<1> QED BY <1>1 DEF HearsKeys, StartDtmfListener, States

(* The prompt is over.                                                      *)
LEMMA PromptWins ==
  ASSUME NEW s \in States, opts \in GatherOptions, Tame, Wins(s), s.pc # "init"
  PROVE  Wins(PromptProcessed(s))
<1> DEFINE l == IF opts.during THEN s ELSE StartDtmfListener(s)
<1>1. CASE ~opts.during /\ s.dtmfSet
  BY <1>1 DEF PromptProcessed
<1>2. CASE opts.during \/ ~s.dtmfSet
  <2>1. Wins(l) /\ l \in States
    <3>1. CASE opts.during
      BY <3>1
    <3>2. CASE ~opts.during
      <4>1. HearsKeys(s, l)
        BY <3>2, DtmfListenerIs
      <4> HIDE DEF l
      <4> QED BY <1>2, <3>2, <4>1 DEF HearsKeys, Wins
    <3> QED BY <3>1, <3>2
  <2>2. ~opts.during => l.keys = 0 /\ (l.dtmfSet \/ ~WantsDtmf)
    <3> SUFFICES ASSUME ~opts.during PROVE l.keys = 0 /\ (l.dtmfSet \/ ~WantsDtmf)
      OBVIOUS
    <3>1. HearsKeys(s, l)
      BY DtmfListenerIs
    <3>2. s.keys = 0
      BY <1>2 DEF Wins, States
    <3> HIDE DEF l
    <3> QED BY <3>1, <3>2 DEF HearsKeys
  <2>3. l.pc # "init"
    BY DtmfListenerIs DEF HearsKeys
  <2> HIDE DEF l
  <2>4. l.resolved = None => Wins(StartListening(l))
    <3> DEFINE t == StartListening(l)
    <3>1. Listens(l, t)
      BY <2>1, ListeningIs
    <3> HIDE DEF t
    <3>2. ASSUME l.resolved = None PROVE Wins(t)
      BY <2>1, <2>2, <2>3, <3>1, <3>2 DEF Listens, Wins, Spoken, None
    <3> QED BY <3>2 DEF t
  <2>5. s.resolved = l.resolved
    BY DtmfListenerIs DEF HearsKeys, l
  <2> QED BY <1>2, <2>1, <2>4, <2>5 DEF PromptProcessed, l
<1> QED BY <1>1, <1>2

(* exec() begins; nothing is heard yet.                                     *)
LEMMA BeginWins ==
  ASSUME IInv, opts \in GatherOptions, Tame, Wins(g), Begin
  PROVE  Wins(g')
<1> DEFINE prompted == [g EXCEPT !.prompt = "playing"]
           begun == CASE g.nested /\ opts.prompt = "open" -> PromptProcessed(prompted)
                      [] g.nested /\ opts.prompt # "open" -> prompted
                      [] OTHER -> StartListening(g)
           Fresh(t) ==
             /\ t \in States /\ t.keys = 0 /\ t.fallback = None /\ t.resolved = None
             /\ t.timers \subseteq {"timeout", "interDigit"}
             /\ t.heard => opts.speech /\ t.heardSet
             /\ t.dtmf = t.dtmfSet /\ (t.dtmfSet => WantsDtmf)
             /\ t.starting => ~opts.during
             /\ ~t.asking
             /\ opts.during => ~t.heardSet /\ ~t.dtmfSet
             /\ t.heardSet => t.dtmfSet \/ ~WantsDtmf \/ ~g.nested
<1>1. /\ g.pc = "init" /\ g' = Handling(g) /\ g \in States
      /\ Idle(g) /\ g.resolved = None
  BY DEF Begin, Becomes, IInv, Settled
<1>2. /\ g.keys = 0 /\ g.fallback = None /\ g.timers = {} /\ ~g.heard /\ ~g.heardSet
      /\ ~g.dtmf /\ ~g.dtmfSet /\ ~g.starting /\ ~g.asking
  BY <1>1 DEF Wins, Idle, States
<1>3. Fresh(prompted)
  BY <1>1, <1>2 DEF States
<1> HIDE DEF prompted
<1>4. ASSUME NEW s, Fresh(s), ~s.heardSet, s.dtmfSet \/ ~WantsDtmf \/ opts.during \/ ~g.nested
      PROVE  Fresh(StartListening(s))
  <2> DEFINE t == StartListening(s)
  <2>1. Listens(s, t)
    BY <1>4, ListeningIs
  <2> HIDE DEF t
  <2>2. Fresh(t)
    BY <1>4, <2>1 DEF Listens
  <2> QED BY <2>2 DEF t
<1>5. Fresh(begun)
  <2>1. CASE g.nested /\ opts.prompt = "open"
    <3> DEFINE l == IF opts.during THEN prompted ELSE StartDtmfListener(prompted)
    <3>1. ~prompted.dtmfSet /\ ~prompted.heardSet
      BY <1>1, <1>2 DEF prompted, States
    <3>2. Fresh(l) /\ ~l.heardSet /\ (l.dtmfSet \/ ~WantsDtmf \/ opts.during)
      <4>1. CASE opts.during
        BY <1>3, <3>1, <4>1
      <4>2. CASE ~opts.during
        <5>1. HearsKeys(prompted, l)
          BY <1>3, <4>2, DtmfListenerIs
        <5> HIDE DEF l
        <5> QED BY <1>3, <3>1, <4>2, <5>1 DEF HearsKeys
      <4> QED BY <4>1, <4>2
    <3> HIDE DEF l
    <3>3. Fresh(StartListening(l))
      BY <1>4, <3>2
    <3> HIDE DEF Fresh
    <3>4. PromptProcessed(prompted) = l \/ PromptProcessed(prompted) = StartListening(l)
      <4>1. CASE prompted.killed \/ prompted.resolved # None
        BY <3>1, <4>1 DEF PromptProcessed, l
      <4>2. CASE ~(prompted.killed \/ prompted.resolved # None)
        BY <3>1, <4>2 DEF PromptProcessed, l
      <4> QED BY <4>1, <4>2
    <3> QED BY <2>1, <3>2, <3>3, <3>4
  <2>2. CASE g.nested /\ opts.prompt # "open"
    BY <1>3, <2>2
  <2>3. CASE ~g.nested
    <3> HIDE DEF begun
    <3>1. Fresh(g)
      <4>1. g \in States /\ g.keys = 0 /\ g.fallback = None /\ g.resolved = None
        BY <1>1, <1>2
      <4>2. g.timers \subseteq {"timeout", "interDigit"}
        BY <1>2
      <4>3. /\ ~g.heard /\ ~g.heardSet /\ ~g.dtmf /\ ~g.dtmfSet
            /\ ~g.starting /\ ~g.asking /\ g.dtmf = g.dtmfSet
        BY <1>1, <1>2 DEF States
      <4> QED BY <4>1, <4>2, <4>3
    <3>2. Fresh(StartListening(g))
      BY <1>2, <1>4, <2>3, <3>1
    <3> HIDE DEF Fresh
    <3> QED BY <2>3, <3>2 DEF begun
  <2> QED BY <2>1, <2>2, <2>3
<1>6. CASE ~g.nested /\ g.killed
  <2>1. g' = [g EXCEPT !.pc = "over"]
    BY <1>1, <1>6 DEF Handling
  <2> QED BY <1>1, <1>2, <2>1 DEF Wins, States, Spoken
<1>7. CASE ~(~g.nested /\ g.killed) /\ opts.speech /\ opts.during
  <2> DEFINE h == SetSpeechHandlers(begun)
  <2>1. g' = [h EXCEPT !.pc = "setup"]
    BY <1>1, <1>7 DEF Handling, begun, prompted
  <2> HIDE DEF begun
  <2>2. h = [begun EXCEPT !.heard = TRUE, !.heardSet = TRUE]
    BY <1>5, <1>7 DEF SetSpeechHandlers
  <2>3. /\ h \in States /\ h.keys = 0 /\ h.fallback = None /\ h.resolved = None
        /\ h.timers = begun.timers /\ h.heardSet /\ h.dtmf = begun.dtmf
        /\ h.dtmfSet = begun.dtmfSet /\ h.starting = begun.starting
        /\ h.asking = begun.asking
    <3>1. begun \in States /\ begun.keys = 0 /\ begun.fallback = None /\ begun.resolved = None
      BY <1>5
    <3> HIDE DEF h, Fresh
    <3>2. h \in States /\ h.heardSet
      BY <2>2, <3>1 DEF States
    <3>3. /\ h.keys = begun.keys /\ h.fallback = begun.fallback
          /\ h.resolved = begun.resolved /\ h.timers = begun.timers
          /\ h.dtmf = begun.dtmf /\ h.dtmfSet = begun.dtmfSet
          /\ h.starting = begun.starting /\ h.asking = begun.asking
      BY <2>2, <3>1 DEF States
    <3> QED BY <3>1, <3>2, <3>3
  <2> HIDE DEF h
  <2>4. /\ g' \in States /\ g'.keys = 0 /\ g'.fallback = None /\ g'.resolved = None
        /\ g'.timers = h.timers /\ g'.heardSet /\ g'.dtmf = h.dtmf
        /\ g'.dtmfSet = h.dtmfSet /\ g'.starting = h.starting
        /\ g'.asking = h.asking /\ g'.pc = "setup"
    BY <2>1, <2>3 DEF States
  <2> QED BY <1>5, <1>7, <2>3, <2>4 DEF Wins, Spoken, None
<1>8. CASE ~(~g.nested /\ g.killed) /\ ~(opts.speech /\ opts.during)
  <2> DEFINE l == IF opts.during \/ ~g.nested THEN StartDtmfListener(begun) ELSE begun
  <2>1. g' = [l EXCEPT !.pc = "waiting"]
    BY <1>1, <1>8 DEF Handling, begun, prompted
  <2> HIDE DEF begun
  <2>2. l = begun \/ HearsKeys(begun, l)
    BY <1>5, DtmfListenerIs
  <2>3. opts.during \/ ~g.nested => HearsKeys(begun, l)
    BY <1>5, DtmfListenerIs
  <2> HIDE DEF l
  <2>4. /\ l \in States /\ l.keys = 0 /\ l.fallback = None /\ l.resolved = None
        /\ l.timers = begun.timers /\ l.heard = begun.heard /\ l.heardSet = begun.heardSet
        /\ l.dtmf = l.dtmfSet /\ l.starting = begun.starting
        /\ (l.dtmfSet => WantsDtmf)
        /\ (l.heardSet => l.dtmfSet \/ ~WantsDtmf)
    BY <1>5, <2>2, <2>3 DEF HearsKeys
  <2>5. /\ g' \in States /\ g'.keys = 0 /\ g'.fallback = None /\ g'.resolved = None
        /\ g'.timers = l.timers /\ g'.heard = l.heard /\ g'.heardSet = l.heardSet
        /\ g'.dtmf = l.dtmf /\ g'.dtmfSet = l.dtmfSet /\ g'.starting = l.starting
        /\ g'.pc = "waiting"
    BY <2>1, <2>4 DEF States
  <2> QED BY <1>5, <2>4, <2>5 DEF Wins, Spoken, None
<1> QED BY <1>6, <1>7, <1>8

(* The other turns of exec().                                               *)
LEMMA ExecWins ==
  ASSUME IInv, opts \in GatherOptions, Tame, Wins(g), g'.primary,
         NoCredentials \/ SetUp \/ SetUpFails \/ TaskDone
  PROVE  Wins(g')
<1>1. g \in States
  BY DEF IInv
<1>2. CASE NoCredentials
  <2> DEFINE f == Failed(g)
             d == Done(f)
  <2>1. Quieter(g, f) /\ f \in States
    BY <1>1 DEF Failed, Quieter, States
  <2> HIDE DEF f
  <2>2. ~[f EXCEPT !.primary = FALSE].primary
    BY <2>1 DEF States
  <2>3. Quieter(f, d) /\ d \in States
    BY <2>1, QuietHelpers DEF Quieter
  <2>4. g' = [d EXCEPT !.pc = "over"]
    BY <1>2, <2>2 DEF NoCredentials, Becomes, WithoutCredentials, f, d
  <2>5. Wins(d)
    BY <2>1, <2>3, QuietWins
  <2> HIDE DEF d
  <2>6. Wins([d EXCEPT !.pc = "over"])
    BY <2>3, <2>5 DEF Wins, States
  <2> QED BY <2>4, <2>6
<1>3. CASE SetUp
  <2> DEFINE wanted == g.resolved = None /\ ~g.killed
             s == IF wanted THEN StartTranscribing(g) ELSE g
             t == StartDtmfListener(s)
  <2>1. g.pc = "setup" /\ g' = [t EXCEPT !.pc = "waiting"]
    BY <1>3 DEF SetUp, Becomes
  <2>2. /\ s \in States /\ s.timers = g.timers /\ s.fallback = g.fallback
        /\ s.heard = g.heard /\ s.keys = g.keys /\ s.heardSet = g.heardSet
        /\ s.resolved = g.resolved /\ s.dtmfSet = g.dtmfSet /\ s.starting = g.starting
    <3>1. CASE wanted
      <4>1. s = [g EXCEPT !.asking = TRUE]
        BY <3>1 DEF StartTranscribing
      <4> HIDE DEF s
      <4> QED BY <1>1, <4>1 DEF States
    <3>2. CASE ~wanted
      BY <1>1, <3>2
    <3> QED BY <3>1, <3>2
  <2> HIDE DEF s
  <2>3. HearsKeys(s, t)
    BY <2>2, DtmfListenerIs
  <2> HIDE DEF t
  <2>4. /\ g' \in States /\ g'.timers = t.timers /\ g'.fallback = t.fallback
        /\ g'.heard = t.heard /\ g'.keys = t.keys /\ g'.heardSet = t.heardSet
        /\ g'.resolved = t.resolved /\ g'.dtmfSet = t.dtmfSet /\ g'.dtmf = t.dtmf
        /\ g'.starting = t.starting /\ g'.pc = "waiting"
    BY <2>1, <2>3 DEF HearsKeys, States
  <2> QED BY <2>1, <2>2, <2>3, <2>4 DEF Wins, HearsKeys
<1>4. CASE SetUpFails
  <2> DEFINE f == Failed(g)
             d == Deaf(f)
  <2>1. Quieter(g, f) /\ f \in States
    BY <1>1 DEF Failed, Quieter, States
  <2> HIDE DEF f
  <2>2. Quieter(f, d) /\ d \in States
    BY <2>1, QuietHelpers DEF Quieter
  <2>3. g' = [d EXCEPT !.pc = "over"]
    BY <1>4 DEF SetUpFails, Becomes, d, f
  <2>4. Wins(d)
    BY <2>1, <2>2, QuietWins
  <2> HIDE DEF d
  <2>5. Wins([d EXCEPT !.pc = "over"])
    BY <2>2, <2>4 DEF Wins, States
  <2> QED BY <2>3, <2>5
<1>5. CASE TaskDone
  <2> DEFINE k == KillAudio(g)
             d == Deaf(k)
  <2>1. Quieter(g, k) /\ k \in States
    BY <1>1, QuietHelpers DEF Quieter
  <2> HIDE DEF k
  <2>2. Quieter(k, d) /\ d \in States
    BY <2>1, QuietHelpers DEF Quieter
  <2>3. g' = [d EXCEPT !.pc = "over"]
    BY <1>5 DEF TaskDone, Becomes, d, k
  <2>4. Wins(d)
    BY <2>1, <2>2, QuietWins
  <2> HIDE DEF d
  <2>5. Wins([d EXCEPT !.pc = "over"])
    BY <2>2, <2>4 DEF Wins, States
  <2> QED BY <2>3, <2>5
<1> QED BY <1>2, <1>3, <1>4, <1>5

(* A failure starts the fallback, or ends the verb.                         *)
LEMMA FallbackWins ==
  ASSUME NEW s \in States, opts \in GatherOptions, Wins(s), NEW what,
         StartFallback(s, what).primary
  PROVE  Wins(StartFallback(s, what))
<1>1. CASE opts.fallback /\ s.primary
  <2> DEFINE q == StopTranscribing(s)
  <2>1. q \in States
    BY QuietHelpers DEF Quieter
  <2> HIDE DEF q
  <2>2. ~[q EXCEPT !.primary = FALSE, !.fallback = "creds", !.orElse = what].primary
    BY <2>1 DEF States
  <2> QED BY <1>1, <2>2 DEF StartFallback, q
<1>2. CASE ~(opts.fallback /\ s.primary)
  BY <1>2, OrElseQuiet, QuietWins DEF StartFallback
<1> QED BY <1>1, <1>2

(* startListening() goes on.                                                *)
LEMMA StartedQuiet ==
  ASSUME NEW s \in States
  PROVE  LET t == [s EXCEPT !.starting = FALSE] IN Quieter(s, t) /\ t \in States
<1> DEFINE t == [s EXCEPT !.starting = FALSE]
<1>1. t \in States /\ t.starting = FALSE
  BY DEF States
<1>2. /\ t.pc = s.pc /\ t.keys = s.keys /\ t.heardSet = s.heardSet
      /\ t.dtmfSet = s.dtmfSet /\ t.fallback = s.fallback /\ t.primary = s.primary
  BY DEF States
<1>3. /\ t.timers = s.timers /\ t.heard = s.heard /\ t.dtmf = s.dtmf
      /\ t.asking = s.asking /\ t.resolved = s.resolved
  BY DEF States
<1> HIDE DEF t
<1>4. Quieter(s, t)
  BY <1>1, <1>2, <1>3 DEF Quieter
<1> QED BY <1>1, <1>4 DEF t

(* The media server.                                                        *)
LEMMA MediaWins ==
  ASSUME IInv, opts \in GatherOptions, Tame, Wins(g), g'.primary, Media
  PROVE  Wins(g')
<1>0. g.fallback = None
  BY DEF Wins
<1>1. g \in States
  BY DEF IInv
<1>2. CASE Listening
  <2> DEFINE s == [g EXCEPT !.starting = FALSE]
  <2>1. Quieter(g, s) /\ s \in States
    BY <1>1, StartedQuiet
  <2>2. g.starting /\ g' = IF s.killed THEN s ELSE StartTranscribing(s)
    BY <1>2 DEF Listening, Becomes
  <2> HIDE DEF s
  <2>3. Wins(s) /\ s.pc \notin {"init", "setup"}
    <3>1. g.pc # "init"
      BY <2>2 DEF IInv, Settled, Idle
    <3> QED BY <2>1, <2>2, <3>1, QuietWins DEF Quieter, Wins
  <2>4. Wins(StartTranscribing(s))
    BY <2>1, <2>3 DEF StartTranscribing, Wins, States
  <2> QED BY <2>2, <2>3, <2>4
<1>3. CASE ListeningFails
  <2> DEFINE f == Failed(g)
             s == [f EXCEPT !.starting = FALSE]
  <2>1. g' = StartFallback(s, None)
    BY <1>3 DEF ListeningFails, Becomes
  <2>2. Quieter(g, f) /\ f \in States
    BY <1>1 DEF Failed, Quieter, States
  <2> HIDE DEF f
  <2>3. Quieter(f, s) /\ s \in States
    BY <2>2, StartedQuiet
  <2> HIDE DEF s
  <2>4. Wins(s)
    BY <2>2, <2>3, QuietWins
  <2> QED BY <2>1, <2>3, <2>4, FallbackWins
<1>4. CASE PromptEnds \/ PromptFails
  <2> DEFINE s == [g EXCEPT !.prompt = "over"]
  <2>1. g' \in {s, PromptProcessed(s)} /\ g.prompt = "playing"
    BY <1>4 DEF PromptEnds, PromptFails, Becomes
  <2>2. Quieter(g, s) /\ s \in States
    BY <1>1 DEF Quieter, States
  <2> HIDE DEF s
  <2>3. Wins(s) /\ s.pc # "init"
    BY <2>1, <2>2, QuietWins DEF Quieter, IInv, Settled, Idle
  <2>4. Wins(PromptProcessed(s))
    BY <2>2, <2>3, PromptWins
  <2> QED BY <2>1, <2>3, <2>4
<1> QED
  BY <1>0, <1>2, <1>3, <1>4 DEF Media, FallbackReady, FallbackFails, FallenBack, None

(* The caller, the recognizer and the timers.                               *)
LEMMA CallerWins ==
  ASSUME IInv, opts \in GatherOptions, Tame, Wins(g), g'.primary,
         Caller \/ \E t \in Timers : Fires(t)
  PROVE  Wins(g')
<1>1. g \in States
  BY DEF IInv
<1>2. ASSUME NEW key \in Keys, Pressed(key)
      PROVE  Wins(g')
  <2> DEFINE s == [g EXCEPT !.pressed = @ + 1]
  <2>1. g.dtmf /\ g' = OnDtmf(s, key)
    BY <1>2 DEF Pressed, Becomes
  <2>2. Quieter(g, s)
    BY <1>1 DEF Quieter, States
  <2> HIDE DEF s
  <2>3. Pressable(g)
    BY <1>1, <2>1 DEF Pressable, Wins
  <2> QED BY <2>1, <2>2, <2>3, QuietPressable, DtmfKeepsWins
<1>3. ASSUME NEW kind \in Kinds, Transcribed(kind)
      PROVE  Wins(g')
  <2> DEFINE s == [g EXCEPT !.spoken = @ + 1]
  <2>1. g.heard /\ g.asking /\ g' = OnTranscription(s, kind)
    BY <1>3 DEF Transcribed, Becomes, Wins
  <2>2. Quieter(g, s) /\ s \in States /\ s.heard = g.heard
    BY <1>1 DEF Quieter, States
  <2> HIDE DEF s
  <2>3. Wins(s) /\ s.heard /\ s.pc \notin {"init", "setup"}
    BY <2>1, <2>2, QuietWins DEF Quieter, Wins
  <2> QED BY <2>1, <2>2, <2>3, TranscriptWins
<1>4. CASE SpeechStarts
  BY <1>1, <1>4, QuietHelpers, QuietWins DEF SpeechStarts, Becomes
<1>5. CASE NoSpeech
  <2>1. "timeout" \in Reasons \ Spoken
    BY DEF Reasons, Reported, Spoken
  <2> QED BY <1>1, <1>5, <2>1, ResolveQuiet, QuietWins DEF NoSpeech, Becomes
<1>6. ASSUME NEW what \in {"done", "error"}, VendorFails(what)
      PROVE  Wins(g')
  <2> DEFINE f == Failed(g)
  <2>1. g' = StartFallback(f, what)
    BY <1>6 DEF VendorFails, Becomes
  <2>2. Quieter(g, f) /\ f \in States
    BY <1>1 DEF Failed, Quieter, States
  <2> HIDE DEF f
  <2> QED BY <2>1, <2>2, QuietWins, FallbackWins
<1>7. ASSUME NEW t \in Timers, Fires(t)
      PROVE  Wins(g')
  <2> DEFINE s == Disarm(g, t)
  <2>1. t \in {"timeout", "interDigit"} /\ g' = TimerCallback(s, t)
    BY <1>7 DEF Fires, Becomes, Wins
  <2>2. Quieter(g, s) /\ s \in States
    BY <1>1, QuietHelpers DEF Quieter
  <2> HIDE DEF s
  <2> QED BY <2>1, <2>2, TimerQuiet, QuietWins
<1> QED BY <1>2, <1>3, <1>4, <1>5, <1>6, <1>7 DEF Caller

(* The action hook and the session.                                         *)
LEMMA HookWins ==
  ASSUME IInv, Wins(g), Hook
  PROVE  Wins(g')
<1>1. g \in States
  BY DEF IInv
<1>2. ASSUME NEW verbs, g' = AfterHook(g, verbs)
      PROVE  Wins(g')
  BY <1>1, <1>2, AfterHookQuiet, QuietWins
<1>3. CASE HookFails
  <2>1. g' = [g EXCEPT !.hook = "failed"]
    BY <1>3 DEF HookFails, Becomes
  <2>2. Quieter(g, [g EXCEPT !.hook = "failed"])
    BY <1>1 DEF Quieter, States
  <2> QED BY <2>1, <2>2, QuietWins
<1>4. CASE DelayStopped
  <2> DEFINE e == [g EXCEPT !.hook = None, !.delayed = FALSE]
  <2>1. Quieter(g, e) /\ e \in States
    <3>1. /\ e \in States /\ e.pc = g.pc /\ e.keys = g.keys /\ e.heardSet = g.heardSet
          /\ e.dtmfSet = g.dtmfSet /\ e.fallback = g.fallback /\ e.primary = g.primary
          /\ e.timers = g.timers /\ e.heard = g.heard /\ e.dtmf = g.dtmf
          /\ e.asking = g.asking /\ e.starting = g.starting /\ e.resolved = g.resolved
      BY <1>1 DEF States
    <3> HIDE DEF e
    <3> QED BY <3>1 DEF Quieter
  <2> HIDE DEF e
  <2>2. Quieter(e, Done(e))
    BY <2>1 DEF Done, Quieter, States
  <2>3. g' = Done(e)
    BY <1>4 DEF DelayStopped, Becomes, e
  <2> QED BY <2>1, <2>2, <2>3, QuietWins
<1> QED BY <1>2, <1>3, <1>4 DEF Hook, FailureReported, HookReplies, Becomes

LEMMA SessionWins ==
  ASSUME IInv, opts \in GatherOptions, Wins(g), Session
  PROVE  Wins(g')
<1>1. g \in States
  BY DEF IInv
<1>2. CASE SessionKills
  BY <1>1, <1>2, KillQuiet, QuietWins DEF SessionKills, Becomes
<1>3. CASE CallGone
  <2> DEFINE s == [g EXCEPT !.callGone = TRUE]
  <2>1. Quieter(g, s) /\ s \in States
    BY <1>1 DEF Quieter, States
  <2>2. g' = Kill(s)
    BY <1>3 DEF CallGone, Becomes
  <2> HIDE DEF s
  <2> QED BY <2>1, <2>2, KillQuiet, QuietWins
<1> QED BY <1>2, <1>3 DEF Session

(* Nothing is heard at first.                                               *)
LEMMA InitWins == Init => WinsInv
<1> SUFFICES ASSUME Init PROVE Wins(g)
  BY DEF WinsInv
<1> QED BY DEF Init, Wins, Spoken, None

(* Every step keeps the order of listening.                                 *)
LEMMA NextWins == IInv /\ WinsInv /\ [Next]_vars => WinsInv'
<1> SUFFICES ASSUME IInv, WinsInv, [Next]_vars, Tame', g'.primary
             PROVE  Wins(g)'
  BY DEF WinsInv
<1>1. opts \in GatherOptions /\ Forward
  BY GatherAssumption, NextInv DEF IInv
<1>2. UNCHANGED opts
  BY DEF Next, vars, Exec, Begin, NoCredentials, SetUp, SetUpFails, TaskDone,
         Media, Listening, ListeningFails, PromptEnds, PromptFails, FallbackReady,
         FallbackFails, FallenBack, Caller, Pressed, Transcribed, SpeechStarts,
         NoSpeech, VendorFails, Hook, HookReplies, HookFails, FailureReported,
         DelayStopped, Session, SessionKills, CallGone, Fires, Becomes
<1>3. Tame /\ Wins(g)
  BY <1>1, <1>2 DEF Tame, WinsInv, Forward
<1>4. CASE Next
  <2>1. Wins(g')
    BY <1>1, <1>3, <1>4, BeginWins, ExecWins, MediaWins, CallerWins, HookWins, SessionWins
       DEF Next, Exec
  <2> QED BY <1>2, <2>1 DEF Wins, WantsDtmf
<1>5. CASE UNCHANGED vars
  BY <1>3, <1>5 DEF vars, Wins, WantsDtmf
<1> QED BY <1>4, <1>5

(* Digits that were pressed are not lost to a transcript, in whatever order *)
(* digits, transcripts, timers, the prompt and kill() come.                 *)
THEOREM DtmfWinsCorrect == Spec => []DtmfWins
<1>1. Init => IInv /\ WinsInv
  BY InitInv, InitWins
<1>2. IInv /\ WinsInv /\ [Next]_vars => (IInv /\ WinsInv)'
  BY NextInv, NextWins
<1>3. WinsInv => DtmfWins
  BY DEF WinsInv, Tame, Wins, DtmfWins, Spoken
<1> QED BY <1>1, <1>2, <1>3, PTL DEF Spec
===============================================================================
