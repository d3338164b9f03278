-------------------------------- MODULE Playback --------------------------------
(****************************************************************************)
(* lib/tasks/play.js and lib/tasks/say.js (what it does without a stream of *)
(* tokens) on the one endpoint of a session, with                           *)
(* lib/utils/sticky-event-emitter.js, through which a play is told to stop. *)
(*                                                                          *)
(* The media server answers a command to play with a start, a stop and the  *)
(* end of the command; the events arrive in order, stop and end in either.  *)
(* A break of audio that has not started may come to nothing, which is why  *)
(* play.js waits for the start.  Left out: playing to a member of a         *)
(* conference, urls and texts of several parts, the seek offset.            *)
(****************************************************************************)
EXTENDS Naturals, Sequences

CONSTANTS
  N,       \* verbs that are run, one after the other
  Verbs,   \* what each of them may be, see VerbSet
  Voices,  \* what the vendors of speech give, see VoiceSet
  MaxApps, \* how often the application is replaced
  Calms    \* the values of calm to be considered

(* loop 0 is "forever"; missing: the file does not exist                    *)
VerbSet ==
  [kind : {"play", "say"}, loop : Nat, hook : BOOLEAN, timed : BOOLEAN, missing : BOOLEAN]

(* A vendor gives a file, or a stream that begins while it is synthesized.  *)
VoiceSet == [primary : {"file", "stream"}, fallback : {"none", "file", "stream"}]

ASSUME PlaybackAssumption ==
  /\ N \in Nat \ {0} /\ MaxApps \in Nat /\ Calms \subseteq BOOLEAN
  /\ \A v \in Verbs : v \in VerbSet
  /\ Voices \subseteq VoiceSet

VARIABLES
  calm,      \* verbs are only stopped in time, see InTime
  verb,      \* the verbs
  voice,     \* the vendors of the session
  fellback,  \* cs.hasFallbackTts
  cur,       \* the verb that was started last
  task,      \* its state, see TaskStates
  progress,  \* cs.taskInProgress: cur, or Null after a break was delivered
  apps,      \* applications so far
  emitter,   \* see EmitterStates
  ep         \* the endpoint, see EpStates

vars == <<calm, verb, voice, fellback, cur, task, progress, apps, emitter, ep>>

Nothing == "nothing"
Null == 0

(* at      - the await in which exec() is suspended; at "stopping" the      *)
(*           command has ended, and say waits for the stop event            *)
(* held    - it is cs.currentTask     replaced - by another application     *)
(* timer   - timeoutSecs              primary - isHandledByPrimaryProvider  *)
(* id      - playbackIds[0]           said - _playPromise                   *)
TaskStates ==
  [at : {"preparing", "synth", "fallback", "playing", "stopping", "hook", "failing",
         "waiting", "over"},
   held : BOOLEAN, left : Nat, killed : BOOLEAN, replaced : BOOLEAN, timer : BOOLEAN,
   primary : BOOLEAN, vendor : {"primary", "fallback"},
   id : {Nothing, "file", "primary", "fallback"}, said : {"open", "ok", "failed"}]

(* The event that is cached, and the plays that listen for one.             *)
EmitterStates == [cache : {{}} \cup {{n} : n \in 0..N}, listening : SUBSET (1..N)]

Events == [type : {"start", "stop", "done"}, id : {"file", "primary", "fallback"},
           failed : BOOLEAN]

(* of - the verb whose audio it is          heard - its start was handled   *)
(* starting, saying - the plays, the says that listen for a start           *)
(* stopping - the running say listens for a stop                            *)
EpStates ==
  [audio : {"none", "sent", "on"}, of : 0..N, id : {"file", "primary", "fallback"},
   heard : BOOLEAN, broken : BOOLEAN, events : Seq(Events),
   starting : Seq(1..N), saying : SUBSET (1..N), stopping : BOOLEAN]

TypeOK ==
  /\ calm \in BOOLEAN /\ verb \in [1..N -> Verbs] /\ voice \in Voices
  /\ fellback \in BOOLEAN /\ cur \in 1..N /\ progress \in {Null, cur} /\ apps \in 0..MaxApps
  /\ task \in TaskStates /\ emitter \in EmitterStates /\ ep \in EpStates

Fresh(n) ==
  [at |-> "preparing", held |-> FALSE, left |-> verb[n].loop, killed |-> FALSE,
   replaced |-> FALSE, timer |-> FALSE, primary |-> TRUE, vendor |-> "primary",
   id |-> Nothing, said |-> "ok"]

Silent == [cache |-> {}, listening |-> {}]

Init ==
  /\ calm \in Calms /\ verb \in [1..N -> Verbs] /\ voice \in Voices
  /\ fellback = FALSE /\ cur = 1 /\ progress = 1 /\ apps = 0
  /\ task = Fresh(1) /\ emitter = Silent
  /\ ep = [audio |-> "none", of |-> 0, id |-> "file", heard |-> FALSE, broken |-> FALSE,
           events |-> <<>>, starting |-> <<>>, saying |-> {}, stopping |-> FALSE]

Is(kind) == verb[cur].kind = kind
Running == task.at \notin {"waiting", "over"}

(* Callbacks run when exec() has gone as far as it can.                     *)
Settled == ~(task.at = "stopping" /\ task.said # "open")

------------------------------------------------------------------------------
(* The endpoint.                                                            *)
Event(type, e, failed) == [type |-> type, id |-> e.id, failed |-> failed]

Ended(e, failed) ==
  LET stop == Event("stop", e, failed)
      done == Event("done", e, FALSE)
  IN  {[e EXCEPT !.audio = "none", !.events = Append(Append(@, stop), done)],
       [e EXCEPT !.audio = "none", !.events = Append(Append(@, done), stop)]}

StartedAudio(e) == [e EXCEPT !.audio = "on", !.events = Append(@, Event("start", e, FALSE))]

(* uuid_break                                                               *)
Broken(e) ==
  CASE e.audio = "on" -> Ended([e EXCEPT !.broken = TRUE], FALSE)
    [] e.audio = "sent" -> {e} \cup Ended([StartedAudio(e) EXCEPT !.broken = TRUE], FALSE)
    [] OTHER -> {e}

(* ep.play()                                                                *)
Played(e, id) ==
  [e EXCEPT !.audio = "sent", !.of = cur, !.id = id, !.heard = FALSE, !.broken = FALSE,
            !.starting = IF Is("play") THEN Append(@, cur) ELSE @,
            !.saying = IF Is("say") THEN @ \cup {cur} ELSE @]

AudioStarts ==
  /\ ep.audio = "sent" /\ ~verb[cur].missing
  /\ ep' = StartedAudio(ep)
  /\ UNCHANGED <<calm, verb, voice, fellback, cur, task, progress, apps, emitter>>

(* The file is missing, or cannot be played.                                *)
AudioFails ==
  /\ ep.audio = "sent" /\ verb[cur].missing
  /\ ep' = [ep EXCEPT !.audio = "none", !.events = Append(@, Event("done", ep, TRUE))]
  /\ UNCHANGED <<calm, verb, voice, fellback, cur, task, progress, apps, emitter>>

(* A stream may fail while it is played.                                    *)
AudioEnds ==
  /\ ep.audio = "on"
  /\ \E failed \in BOOLEAN : (failed => ep.id # "file") /\ ep' \in Ended(ep, failed)
  /\ UNCHANGED <<calm, verb, voice, fellback, cur, task, progress, apps, emitter>>

------------------------------------------------------------------------------
(* The emitter; e is the endpoint, which a listener breaks if the event is  *)
(* for its play.  Any delivery clears the emitter and cs.taskInProgress.    *)
Emit(n, e) ==
  IF emitter.listening = {}
  THEN emitter' = [emitter EXCEPT !.cache = {n}] /\ ep' = e /\ UNCHANGED progress
  ELSE /\ emitter' = Silent /\ progress' = Null
       /\ ep' \in IF n \in emitter.listening THEN Broken(e) ELSE {e}

ListenToAny(plays, e) == \* Mutant: the listener does not compare the task ids
  IF emitter.cache = {} \/ plays = <<>>
  THEN /\ emitter' = [emitter EXCEPT !.listening = @ \cup {plays[i] : i \in DOMAIN plays}]
       /\ ep' = e /\ UNCHANGED progress
  ELSE /\ emitter' = [Silent EXCEPT !.listening = {plays[i] : i \in 2..Len(plays)}]
       /\ progress' = Null /\ ep' \in Broken(e)

(* The plays that waited for a start now listen for a break; an event that  *)
(* is cached goes to the first of them, whoever it was meant for.           *)
Listen(plays, e) ==
  IF emitter.cache = {} \/ plays = <<>>
  THEN /\ emitter' = [emitter EXCEPT !.listening = @ \cup {plays[i] : i \in DOMAIN plays}]
       /\ ep' = e /\ UNCHANGED progress
  ELSE /\ emitter' = [Silent EXCEPT !.listening = {plays[i] : i \in 2..Len(plays)}]
       /\ progress' = Null
       /\ ep' \in IF emitter.cache = {plays[1]} THEN Broken(e) ELSE {e}

------------------------------------------------------------------------------
(* exec() goes on; t is the state of the task.                              *)
Finish(t) ==
  \/ /\ cur < N
     /\ cur' = cur + 1 /\ task' = Fresh(cur + 1) /\ progress' = cur + 1
  \/ /\ ~t.replaced \/ cur = N
     /\ task' = [t EXCEPT !.at = IF cur = N THEN "over" ELSE "waiting", !.held = FALSE]
     /\ UNCHANGED <<cur, progress>>

Forever == verb[cur].loop = 0
Source(t) == IF voice[t.vendor] = "stream" THEN t.vendor ELSE "file"

(* The head of the loop.                                                    *)
Again(t, e) ==
  IF ~t.killed /\ (Forever \/ t.left > 0)
  THEN /\ task' = [t EXCEPT !.at = "playing", !.said = "open",
                            !.left = IF Forever THEN @ ELSE @ - 1]
       /\ ep' = Played(e, IF Is("say") THEN Source(t) ELSE "file")
       /\ UNCHANGED <<cur, progress>>
  ELSE Finish(t) /\ ep' = e

(* The preconditions are met, and the session calls exec().                 *)
Prepared ==
  /\ task.at = "preparing"
  /\ LET t == [task EXCEPT !.held = TRUE] IN
     IF Is("play")
     THEN Again([t EXCEPT !.timer = verb[cur].timed], ep)
     ELSE /\ task' = [t EXCEPT !.at = "synth",
                        !.vendor = IF fellback THEN "fallback" ELSE "primary"]
          /\ UNCHANGED <<cur, progress, ep>>
  /\ UNCHANGED <<calm, verb, voice, fellback, apps, emitter>>

(* startFallback()                                                          *)
Fallback(t) ==
  IF voice.fallback # "none" /\ t.primary /\ ~fellback
  THEN /\ fellback' = TRUE
       /\ task' = [t EXCEPT !.at = "fallback", !.primary = FALSE, !.vendor = "fallback"]
       /\ UNCHANGED <<cur, progress>>
  ELSE Finish(t) /\ UNCHANGED fellback

(* The ids of what is synthesized are appended to playbackIds, also those   *)
(* of the fallback; a killed task synthesizes nothing.                      *)
Synthesized ==
  /\ task.at \in {"synth", "fallback"}
  /\ Again([task EXCEPT !.id = IF @ = Nothing THEN Source(task) ELSE @], ep)
  /\ UNCHANGED <<calm, verb, voice, fellback, apps, emitter>>

SynthFails ==
  /\ task.at = "synth" /\ Fallback(task)
  /\ UNCHANGED <<calm, verb, voice, apps, emitter, ep>>

(* The error of the fallback is not a SpeechCredentialError, unless there   *)
(* are no credentials: it ends the session.                                 *)
FallbackFails ==
  /\ task.at = "fallback"
  /\ \/ Finish(task)
     \/ task' = [task EXCEPT !.at = "over", !.held = FALSE] /\ UNCHANGED <<cur, progress>>
  /\ UNCHANGED <<calm, verb, voice, fellback, apps, emitter, ep>>

------------------------------------------------------------------------------
(* Events of the endpoint.                                                  *)
Head1 == Head(ep.events)
Taken == [ep EXCEPT !.events = Tail(@)]
Arrives(type) == Settled /\ ep.events # <<>> /\ Head1.type = type

(* isMatchingEvent(): a file goes by its name, a stream by its playback id. *)
Matches(v) == v.id = "file" \/ v.id = task.id

PlaybackStarted ==
  LET ours == cur \in ep.saying /\ Matches(Head1)
      e == [Taken EXCEPT !.heard = TRUE, !.stopping = @ \/ ours, !.starting = <<>>,
                         !.saying = IF ours THEN @ \ {cur} ELSE @]
  IN  /\ Arrives("start")
      /\ Listen(ep.starting, e)
      /\ UNCHANGED <<calm, verb, voice, fellback, cur, task, apps>>

PlaybackStopped ==
  /\ Arrives("stop")
  /\ IF ep.stopping /\ Matches(Head1)
     THEN /\ ep' = [Taken EXCEPT !.stopping = FALSE]
          /\ task' = [task EXCEPT !.said = IF @ # "open" THEN @
                                           ELSE IF Head1.failed THEN "failed" ELSE "ok"]
     ELSE ep' = Taken /\ UNCHANGED task
  /\ UNCHANGED <<calm, verb, voice, fellback, cur, progress, apps, emitter>>

(* ep.play() returns.                                                       *)
PlayReturns ==
  LET last == task.killed \/ (~Forever /\ task.left = 0)
      t == [task EXCEPT !.timer = @ /\ ~last]
  IN  /\ Arrives("done") /\ Is("play")
      /\ IF last /\ verb[cur].hook
         THEN /\ task' = [t EXCEPT !.at = "hook"] /\ ep' = Taken
              /\ UNCHANGED <<cur, progress>>
         ELSE Again(t, Taken)
      /\ ~Head1.failed
      /\ UNCHANGED <<calm, verb, voice, fellback, apps, emitter>>

PlayThrows ==
  /\ Arrives("done") /\ Is("play") /\ Head1.failed
  /\ ep' = Taken
  /\ IF verb[cur].hook
     THEN task' = [task EXCEPT !.at = "failing"] /\ UNCHANGED <<cur, progress>>
     ELSE Finish(task)
  /\ UNCHANGED <<calm, verb, voice, fellback, apps, emitter>>

SayReturns ==
  /\ Arrives("done") /\ Is("say")
  /\ ep' = Taken
  /\ task' = [task EXCEPT !.at = "stopping",
                !.said = IF @ = "open" /\ Head1.failed THEN "failed" ELSE @]
  /\ UNCHANGED <<calm, verb, voice, fellback, cur, progress, apps, emitter>>

(* The round that failed is played again by the fallback.                   *)
SayGoesOn ==
  /\ task.at = "stopping" /\ task.said # "open"
  /\ IF task.said = "ok"
     THEN Again(task, ep) /\ UNCHANGED fellback
     ELSE /\ Fallback([task EXCEPT !.left = IF Forever THEN @ ELSE @ + 1])
          /\ UNCHANGED ep
  /\ UNCHANGED <<calm, verb, voice, apps, emitter>>

HookReplies ==
  /\ \/ task.at = "hook" /\ Again(task, ep)
     \/ task.at = "failing" /\ Finish(task) /\ UNCHANGED ep
  /\ UNCHANGED <<calm, verb, voice, fellback, apps, emitter>>

------------------------------------------------------------------------------
(* A verb is stopped by its timer or by another application.                *)
NoneMissing == \A n \in 1..N : ~(verb[n].kind = "play" /\ verb[n].missing)

InTime ==
  /\ ~task.killed /\ ~task.replaced /\ task.at # "hook"
  /\ task.at = "preparing" => verb[cur].loop = 1
  /\ Is("play") => emitter.listening = {} \/ (ep.of = cur /\ ep.heard)
  /\ NoneMissing

KillPlayAtOnce == \* Mutant: kill() breaks the audio itself, as it once did
  ep' \in Broken(ep) /\ UNCHANGED <<emitter, progress>>

(* TaskPlay.kill()                                                          *)
KillPlay == IF task.at = "failing" THEN UNCHANGED <<emitter, progress, ep>> ELSE Emit(cur, ep)

(* TaskSay.kill()                                                           *)
KillSay ==
  /\ \E e \in Broken(ep) : ep' = [e EXCEPT !.starting = <<>>, !.saying = {}, !.stopping = FALSE]
  /\ UNCHANGED <<emitter, progress>>

(* Mutant: the promise is forgotten                                        *)
KilledSayUnresolved(t) == [t EXCEPT !.killed = TRUE]

KilledSay(t) == [t EXCEPT !.killed = TRUE, !.said = IF @ = "open" THEN "ok" ELSE @]

TimesOut ==
  /\ task.timer /\ task.at = "playing" /\ (calm => InTime)
  /\ task' = [task EXCEPT !.killed = TRUE, !.timer = FALSE]
  /\ KillPlay
  /\ UNCHANGED <<calm, verb, voice, fellback, cur, apps>>

(* replaceApplication(): the running task is killed; a session that waits   *)
(* goes on.  If there is no current task a break is sent to a play all the  *)
(* same: it may be about to start.                                          *)
BreakInProgress ==
  IF Is("play") THEN Emit(progress, ep) ELSE UNCHANGED <<emitter, ep, progress>>

ReplaceCurrent ==
  /\ task.held
  /\ LET t == [task EXCEPT !.held = FALSE, !.replaced = TRUE] IN
     IF Is("play") THEN task' = [t EXCEPT !.killed = TRUE] /\ KillPlay
                   ELSE task' = KilledSay(t) /\ KillSay
  /\ UNCHANGED cur

ReplaceUnseen ==
  /\ ~task.held /\ Running
  /\ task' = [task EXCEPT !.replaced = TRUE] /\ BreakInProgress
  /\ UNCHANGED cur

WakeUp ==
  /\ task.at = "waiting" /\ cur < N
  /\ LET done == progress IN
     IF Is("play") /\ emitter.listening = {}
     THEN emitter' = [emitter EXCEPT !.cache = {done}]
     ELSE emitter' = IF Is("play") THEN Silent ELSE emitter
  /\ cur' = cur + 1 /\ task' = Fresh(cur + 1) /\ progress' = cur + 1
  /\ UNCHANGED ep

NewApplication ==
  /\ Settled /\ apps < MaxApps /\ (calm => InTime)
  /\ ReplaceCurrent \/ ReplaceUnseen \/ WakeUp
  /\ apps' = apps + 1
  /\ UNCHANGED <<calm, verb, voice, fellback>>

------------------------------------------------------------------------------
MediaStep == AudioStarts \/ AudioFails \/ AudioEnds
TaskStep ==
  \/ Prepared \/ Synthesized \/ SynthFails \/ FallbackFails \/ SayGoesOn \/ HookReplies
  \/ PlaybackStarted \/ PlaybackStopped \/ PlayReturns \/ PlayThrows \/ SayReturns

Next == MediaStep \/ TaskStep \/ TimesOut \/ NewApplication

Spec == Init /\ [][Next]_vars

(* Audio ends, events arrive, and vendors and applications answer.          *)
FairSpec == Spec /\ WF_vars(MediaStep) /\ WF_vars(TaskStep)

------------------------------------------------------------------------------
Stopped == task.killed \/ task.replaced

(* A break stops no audio but that of a verb that was stopped, although the *)
(* emitter hands events to whoever listens next.                            *)
OthersPlayOn == (ep.broken /\ ep.of = cur) => Stopped

(* This is so unless a play whose file is missing leaves its listener to    *)
(* the next.                                                                *)
OnlyStoppedIsBroken == NoneMissing => OthersPlayOn

(* Once the start of a play's audio is known, a play that is stopped is     *)
(* silent.                                                                  *)
StopBreaks ==
  (Is("play") /\ ep.of = cur /\ ep.heard /\ Stopped) => ep.audio # "on"

(* Whether a play is stopped before it runs, before its audio starts or     *)
(* after, by its timer or by an application, its audio is broken; if it is  *)
(* stopped once, not between two rounds of its loop, and no play before it  *)
(* left a listener behind.                                                  *)
CalmStopBreaks == calm => StopBreaks

(* A verb that is killed ends, and any other ends by itself, unless it is   *)
(* to play for ever, or a stream takes over from a vendor that failed.      *)
MayStay(n) ==
  verb[n].loop = 0 \/ (verb[n].kind = "say" /\ voice.fallback = "stream")

PlaybackEnds ==
  \A n \in 1..N :
    (cur = n /\ Running /\ (task.killed \/ ~MayStay(n))) ~> ~(cur = n /\ Running)
==============================================================================
