# jambonz-feature-server in TLA+

The feature server executes applications (lists of verbs such as `say`, `gather`, `dial`)
on phone calls. An application is fetched from a webhook or arrives over a websocket;
SIP signalling is handled by drachtio and media by FreeSWITCH, both over sockets. The
program is a single-threaded node.js process: nothing is preempted, but every `await`
suspends a handler with its local variables, and whatever happens meanwhile may make
what it knows stale. These modules describe that interleaving. **One action of a module
is one run-to-completion turn of the event loop**: what a handler does from one await to
the next.

## 1. Inventory

| component | state it keeps | operations | interacts with |
|---|---|---|---|
| `CallSession`, `InboundCallSession` (lib/session) | task queue, current task, wakeup resolver, stack index, dialog, endpoint, call gone | the `exec()` loop, preconditions, answer, hangup, `replaceApplication`, `kill`, commands, REST call control | all of the below |
| `ActionHookDelayProcessor` | two timers, the filler action that plays, retry count, a resolver | start, stop, timers, playback events | CallSession starts and stops it; it hangs up or replaces the application |
| `TtsStreamingBuffer` | queue of text and flush markers, buffered length, full flag, timer, connection status | bufferTokens, flush, clear, start, stop, media server events | `say` verbs open and stop it, the application feeds it, FreeSWITCH answers it |
| `WsRequestor` | socket, messages in flight, queued messages, reconnect promise | request, acks, close, reconnection | carries every message between a session and its application |
| `HttpRequestor` | the back-off between retries | request with retries | webhooks |
| `BackgroundTaskManager` | map from type to task, `_bargeInHandled` | newTask, stop, stopAll, sticky restart | background gather, listen, record, transcribe of a session; kills its verbs on a bargein |
| `Gather` (with the stt base task) | digits, transcripts, five timers, what it resolved to | dtmf, speech, timeouts, fallback, kill | media server, application |
| `Dial`, `SingleDialer` | outdials, the one that was connected | simultaneous ring, confirm, bridge, hold, kill | CallSession, child sessions |
| `Conference` | host hash and waiting list in redis, members on the media server | create, join, wait, leave, kick | other feature servers |
| `Enqueue`, `Dequeue` | sorted set in redis, partner, state of either side | add, pop, post, move, bridge, hang up | each other, across servers |
| instance life cycle (`aws-sns-lifecycle`, `sbc-pinger`, `session-tracker`, `app.js`) | life cycle state, drying up, calls in progress | scale-in, standby, signals, OPTIONS pings | the auto scaling group, SBCs |
| middleware | `req.locals` of an INVITE | lookups, the application's webhook | the session that follows |
| `TaskRestDial`, `RestCallSession`, `createCall` | an outbound call, its timer | dial, answer, fail, hang up | REST, CallSession |
| answering machine detection | four timers, decision | transcripts, timers, silence, beep | an outbound call |
| `Play`, `Say` (with the tts base task), `StickyEventEmitter` | a cached break, who listens for one, playback ids, the vendor in use | play, say, fallback, timeout, kill, `uuid_break` | the endpoint, which says what it plays; CallSession, which stops them |
| other sessions (adulting, confirm, siprec, sms) | as CallSession | as CallSession | Dial, REST |
| transcribe, listen, refer, LLM, dialogflow, lex, rasa, dtmf collector | per verb | per verb | media server, application |
| other http routes, database, tracing, configuration | none of their own | lookups, validation, conversion | |

What is hard in this code: `exec()` holds a task across the await of its precondition
while nothing else can see it; several handlers may resolve one wakeup promise, some of
them long after they decided to; both ends may hang up at once, and a caller may cancel
before the session exists; several parts may send the final response to one INVITE;
activations of `_feedQueue` overlap; a websocket is lost with messages in flight,
queued and half reconnected; a gather, a detector and a dial have many ways to end, and
must take one; two servers share redis, with a request between any two decisions; the
two sides of a queue tell each other over http what may not be true any more.
`PROJECT.json` lists each of these hazards at its line.

What makes the components correct:

* CallSession: one final response per INVITE; completed is reported once and last; a
  hangup, redirect or bargein reaches the running task; a waiting session is woken by new
  tasks or by the end of the call, and only by these; every hangup ends in the release of
  the resources.
* ActionHookDelayProcessor: no filler action over verbs that the application sent, and
  whoever waits for a filler action goes on when it stops.
* TtsStreamingBuffer: text is sent once and in order; a flush goes out after the text
  before it; held text and markers are not forgotten; pause is followed by resume.
* WsRequestor, HttpRequestor: one socket; no message sent twice, every request settled
  once; retries end.
* BackgroundTaskManager: a task that runs can be found and stopped; a sticky bargein
  stays; bot mode that is off kills nothing.
* Gather: one outcome, reported at most once, nothing after the end; digits before speech.
* Dial: one callee is connected, all others end, and the verb ends.
* Play, Say: a break reaches the audio it is meant for and no other; every verb ends.
* Conference: one room per name; waiting callers are called; nothing is left in redis.
* Enqueue, Dequeue: a caller has one agent, is not lost, and partners part together.
* Instance: canceled INVITEs are not executed, every INVITE and every outbound call
  settles, SBCs learn that an instance drains, a scale-in completes.

## 2. Modules

| module | what it is |
|---|---|
| `ActionHookDelay` | the processor as a record and functions from one state to the next: it has no thread of its own, its methods run inside callbacks of the session |
| `CallSession` | the session and its exec loop, composed with `ActionHookDelay` |
| `CallSessionProofs` | theorems about `CallSession` |
| `TtsStreamingBuffer` | the buffer with its suspended activations |
| `WsRequestor` | the requestor, its sockets and the far end |
| `StreamProofs` | theorems about `WsRequestor` and `TtsStreamingBuffer`, which both keep what is to be sent while nobody is there to take it |
| `Dial` | the dial verb with its dialers and the suspended loops that kill them |
| `Verb` | abstract: a verb that collects something is settled once, reports at most once, and is over; what is left of one whose recognizer broke down may still be settled |
| `Gather` | the gather verb on top of its base tasks; implements `Verb` |
| `GatherProofs` | theorems about `Gather`: it implements `Verb`, and digits come before speech |
| `BackgroundTaskManager` | the manager, bot mode of the session and the background gather |
| `BackgroundProofs` | theorems about `BackgroundTaskManager` |
| `Conference` | the conference verbs of several callers, redis and the rooms on the media servers |
| `ConferenceProofs` | theorems about `Conference` |
| `Queue` | enqueue and dequeue verbs of several calls, and the sorted set; run as it is |
| `ConnectProofs` | theorems about `Queue` and `Dial`, which both connect a caller to somebody |
| `Playback` | play and say verbs one after the other on an endpoint, with the emitter |
| `PlaybackProofs` | theorems about `Playback`: who is broken, and who is silent |
| `LifeCycle` | session tracker, life cycle notifications and pings of an instance |
| `HttpRequestor` | which failures are retried, and how often |
| `Middleware` | INVITEs on their way to a session, extends `LifeCycle` and `HttpRequestor` |
| `Amd` | the detector as a record and functions |
| `OutboundCall` | an outbound call by REST with its session and detector, extends `LifeCycle` and `Amd` |
| `Instance` | `Middleware` and `OutboundCall` on one instance |
| `InstanceProofs` | theorems about `Instance` |
| `MC...` | small applications, texts, policies, verbs and callers for TLC |

Operators whose comment begins with "Mutant" are not part of the specifications: each
is the operator after it with a plausible mistake, used to see that a property notices
the mistake.

### CallSession

`pc` is the await in which `exec()` is suspended: "allocating" (`_createMediaEndpoint`),
"answering" (`propagateAnswer` after an allocation), "upgrading" (`propagateAnswer` from
early media), "running" (`task.exec`), "waiting" (`_awaitCommandsOrHangup`), "clearing"
(`_clearResources`), "done". "top" is the head of the loop; since the loop runs on from
there within the same turn, callbacks are enabled only in the other states (`Settled`).
`task` is the local variable of the loop, `currentTask` the field that callbacks see:
the difference between the two is what several properties are about. `killed` says that
the running task was told to stop; it returns later, in `TaskReturns`.

A verb is reduced to what the loop can tell: whether it needs an endpoint, may run on
early media, needs an answered or an unanswered call, and whether it ends by itself.
`hangup`, `sip:decline` and `gather` are modelled with their effects. `gen` remembers the
application that brought a task.

A `gather` is the one verb that drives the delay processor itself, so its `_resolve()` is
part of this module: `gather` says whether the one that runs listens, asks its hook, waits
in `stop()` for a filler action, or is over. It starts the processor when it resolves, also
when it is killed, and stops it only if its hook returned verbs. The background gather of
bot mode does the same beside the verbs (`BackgroundResolves`). `owed` is a history variable:
a gather has left the processor running, and no verbs that stop it have come since. How a
gather comes to resolve is the subject of `Gather`, which has the same steps from the verb's side.

Callbacks are actions of their own: SIP (`Cancel`, `CallerHungup`, `DeclineSent`), the
call duration limit, media timeout and REST (`HangupRequested`, `NoAnswerRequested`),
websocket commands (`CommandReplace`, `CommandQueue`), call hooks (`CallHookRequested`,
`CallHookReply`, `CallHookNoTasks`), the reply to the running verb's own webhook
(`ActionHookReply`), `kill(true)` from the background gather (`BargeIn`), the loss of the
websocket, and the processor's timers and playbacks. The give-up actions may be any of
`GiveUpApps` when the timer fires, since a `config` may set them anew. `handler[h]` is where one of several
concurrent requests is suspended: in `stop()` of the processor after a command or a call
hook, or waiting for a reply.

### TtsStreamingBuffer

Text comes in pieces (a word, a word that ends a sentence, white space), numbered as they
are accepted; a marker carries the number of the last piece before it. `awaiting` holds
the activations that wait for a reply, in the order of their commands, because FreeSWITCH
answers commands on one connection in order. `sent` is the history of the commands.
Text is measured in pieces where the code counts characters; the marks are constants.

### WsRequestor

One record holds the requestor: a handler is one function of it, and helpers such as
`Proceed` and `SendQueued` are applied in the order in which the code calls them. Each
message is used once and `msg[m]` is what became of it. Handshakes in progress are
counted; `listener` is the call of `_connect()` whose listeners are installed, since
each call removes those of the one before. A failed assertion in an event handler
(`crashed`) and the loop of `sendQueuedMsgs` that feeds itself (`spinning`) stop the
model, as they stop the process. `queuedMsg` is two variables: its requests keep their
order in `queue`, its notifications are the set `notes`, since each of them is sent in a turn of its
own.

### Dial

One record holds the verb, with a record for each dialer; a handler is a function of it.
`at` is the await in which `SingleDialer.exec()` is suspended, `leg` the callee's dialog,
`heard` whether the verb's listeners are still attached: events of a dialer that is not
heard change nothing. `loops` are the suspended activations of `_killOutdials()`, each
with the copy of the map it walks and with what follows it: nothing after a winner, a
`kill()` after the ring timer, the rest of `kill()` otherwise. `winner` is `this.sd`.
`SessionKills` stands for every kill from outside: hangup, replacement, media timeout, a
REFER of the callee. `prompt` in the options of a verb is an assumption on the databases:
the lookups of the targets end before a callee answers or the ring timer fires. Without
it a target placed late is called although another is connected.

### Gather and Verb

One record `g` holds the verb. `pc` is the await of `handling()`, `listening` and `fallback`
those of `startListening()` and `_startFallback()`, `hook` how far `_resolve()` has got. Handlers
are functions of `g` and are composed in the order of the calls: a digit stops the
recognition, may resolve, kills the prompt, restarts a timer. Listeners on the endpoint
and timers outlive `exec()`, so handlers run on a verb that is over as well.
`Promise == INSTANCE Verb WITH ...` maps `pc` and `hook` to a phase, `resolved` to the outcome, and
`opts.fails` to `fragile`: only what is left of a verb whose recognizer may fail decides after
the end.

### BackgroundTaskManager

`tasks` is the Map, `task` all tasks ever made, with where their `exec()` is; a task may run
without being in the Map. `stack` is the stack of verbs of the session, in which "off" is
a config that disables bot mode: `kill()` clears up to such a mark and deletes its flag.
`newTask()` is two steps, before and after its await, and a stopped task ends in a step of its
own, so that a type may be started again in between. The manager looks only at the Map, and loses
a task then. `raced` is a history variable: the types of which a task was made while another
was alive that is not in the Map, and the gather if bot mode was disabled while one was being made.

### Playback

`cur` is the verb that was started last and `task` its state; `task.at` is the await in which
its `exec()` is suspended, the preconditions and the webhook included. `held` and `progress` are
the two fields by which the session finds it, `currentTask` and `taskInProgress`. `ep` is the
endpoint: the audio and whose it is, the events that are on their way, and the listeners
for them, which outlive the verb in the case of a play. `emitter` is the
`StickyEventEmitter`: a break that found no listener is cached for the next one, whoever
that is. `NewApplication` and `TimesOut` stop verbs at any moment. Three assumptions on the media
server: a break of audio that has not started may come to nothing; the events of one
playback arrive in order, but its stop and the end of its command in either; a file that
is missing gives no start. A stream is told by a playback id, a file is not.

### Conference

`hash` and `waitlist` are what redis holds for one conference, `room` who is in it on each
media server, `member` the verb of each caller: `at` is the await of `exec()`, `exit` that of
`kill()`. Every request to redis, every notification and every REFER is a step.
`Overlap` lets callers leave while others arrive or leave. `miscounted` is a history variable: a
kick has left one member alone, whom the kicked verb does not count.

### Queue

`queue` is the sorted set. `caller` is the enqueue verb of each caller, `agent` the dequeue
verb of each agent with its polling loop, which outlives the promise that it resolves: it sleeps a
second, looks into the queue whatever happened meanwhile, and looks at the timeout only afterwards. A
post over http and its answer are one step. `ep.bridge()` may fail, for a leg that is gone or any
other, and nobody catches it: the agent then waits for its timer. `calm` behaviours are those in which no call
ends and no timer fires while a request of that side pends, nor, for an agent, in that first second.

### Instance

`plan` is what may come in a behaviour: inbound calls, an outbound call with or without
detection, events of the life cycle. `invite[c].at` is the stage in which the INVITE is
suspended; `told` says that the CANCEL was heard. `out` is the outbound call: the handler of
the POST, the far end, and the session each have a field, since each goes on by itself
and they meet in timers and callbacks. An answer may come before `exec()` has told `rest:dial` its
session; `OnConnectThrows` is what `_onConnect` makes of it, and `unheard` that there is a call
nobody knows. `amd` is its detector. `lc` holds the notifier
and what `sbc-pinger.js` made of it; `pings` are OPTIONS requests in flight, which may
overtake each other; `tracked` is the session tracker.

## 3. Runs

All state spaces are explored completely. Deadlock is not an error anywhere: sessions
end, streams may stay silent, a requestor is closed, calls stay up.

| run | question | bounds |
|---|---|---|
| session | an application over http or websocket: answer, early media, decline, hangup, cancel, replacement, commands, a gather's hook and bargein that interrupt each other; delay actions that repeat, fail, and give up by a hangup or by other tasks | one request handler beside the gather that asks, two deliveries of verbs, two applications that mix all kinds of verbs, one repeat |
| tts | order and liveness of the buffer, with a lost endpoint and several says | four pieces, one flush, two say verbs, marks 3 and 1 |
| dial | one callee with confirm, answerOnBridge, Teams lookup and time limit, or two at once | one kill by the session on top of timers, hangups and failures |
| ws | the default retry policy (connection errors) | session:new, a request, a notification, three sockets, two reconnects |
| gather | the one outcome of a gather, for more than sixty verbs: kinds of prompt, vendor, timers, digits, continuous and fast recognition, recognizers that fail beside all these, fallback | three keys, three transcripts, one failure |
| background | background verbs and bot mode at any time, a mark between two verbs of the stack | four tasks, bot mode enabled twice, listen besides the gather |
| conference | create, wait, join, leave, kick over two servers, also a kick out of a room of two | four callers, three parties, at most one host who ends it |
| queue | two callers, one of them on another server, and two agents, one with a timeout; calm behaviours and all others | two callers, two agents |
| playback | plays and says, once, twice or for ever, with a timer, a webhook or a missing file; a vendor that streams and falls back to files, and the reverse | three verbs, two further applications |
| early_break | the break of a play whose audio has not started; ends in a violation | two plays, one further application |
| instance | each kind of interaction on one instance: two INVITEs, an outbound call with detection, an outbound call beside an INVITE, scale-in, standby, a signal | two retries after connection errors and 5xx, three changes of state |
| scale_in | a scale-in with a call in progress | one INVITE; ends in a violation |

Two deliveries are enough for what the properties distinguish: the first application is
replaced while it is in any of its awaits, and once more while the handler of the first
replacement is suspended. Four pieces give a sentence, its remainder, a marker between
them and text after it. Three sockets give a reconnect that is dropped itself. Three
keys exceed a maximum of two digits, and three transcripts leave a late one after two that
were combined. Four callers give a creator and a rival on two servers with a waiting
caller on each. Three verbs let what the first leaves behind pass over the second, and two
applications stop two of them. Two agents compete for one caller, two callers for one agent.

What the passing runs show:

* `OneFinalResponse`, `CompletedIsFinal`, `LeftInOrder`: whoever answers, declines,
  cancels or hangs up, and in whatever order, the INVITE gets one final response, and
  "completed" is reported once, last, and for every call reported answered.
* `RunningTaskKillable`: a task that has started is found by those who must stop it.
* `WokenForAReason`: a waiting session that is woken finds tasks or the end of the call; only a
  command that waited for a filler action to end may wake it for nothing.
* `NoFillerOverTask`, `QueuedTasksWake`: no timer that the processor still refers to starts a
  filler over a verb, as long as the processor is not dropped and no gather has left it
  running; and queued verbs wake the session, unless the filler
  for whose end they wait failed, or the call hook that brought them was abandoned.
* `HangupEndsSession`: a hangup of an answered call, by anybody, ends in the release of
  its resources, unless a gather waits for a filler action that will not tell it (`Stranded`).
* `SentInOrder`, `FlushAfterText`: overlapping activations neither repeat nor reorder
  text, and a flush never overtakes the text before it.
* `HeldTextHasTimer`, `MarkerIsFlushed`, `ResumedWhenDrained`: during the first say of an
  open stream nothing is forgotten, and a pause is followed by a resume unless flushes
  are requested.
* `OneWinner`, `ChosenLegEnds`, `VerbEnds`: with two callees one is connected, it is hung up
  with the verb even when it was accepted while the verb was being killed, and a verb
  that was killed or has nobody left to call ends.
* `SentOnce`, `SettlesOnce`, `OneSocket`: no message goes out twice, no promise is settled
  twice, and under the default policy there is one socket.
* `OneOutcome` is the refinement: every behaviour of `Gather` is one of `Verb`, whose outcome
  is decided once while the verb runs, or, if its recognizer failed, by a timer that
  `notifyTaskDone()` left running. `DtmfWins`: a digit is not lost to a transcript that
  was on its way. `GatherEnds`: no event takes the last timer without leading to the end.
* `RunningIsKnown`, `StickyStays`: a task that runs is registered; a sticky gather is there
  again after each bargein. `OffIsOff`: a bargein after the end of bot mode kills nothing. All
  three for types that did not race: no other order of calls, failures and ends breaks them.
* `OneRoom`, `LightsOut`, `WaitersCalled`: while nobody is leaving, and until a kick leaves one
  member alone, the room that has members is where redis sends new callers; redis is clean when all have left; a caller on the list
  when the conference starts gets into a room.
* `OnePartner`: no two agents deal with one caller, in any behaviour. `WaitingIsQueued`,
  `PartnersPart`: in calm behaviours no waiting caller is forgotten, the end of the caller is the
  end of the agent, and once their legs are bridged also the reverse.
* `OnlyStoppedIsBroken`, `CalmStopBreaks`: although the emitter hands a break to whoever
  listens next, it never silences a verb that nobody stopped, and a play that is stopped
  before it runs, before its audio starts or after is silenced. `PlaybackEnds`: a verb that
  is killed ends, also when the event it waits for never comes.
* `OneVerdict`, `VerdictComes`: the detector decides at most once, and does decide.
  `CanceledNotExecuted`, `InvitesSettle`: a CANCEL keeps an INVITE from being executed, and
  retries and failures do not leave it pending. `DialSettles`: an outbound call is answered
  or its session is released, unless the answer came before the session could hear it. `SbcLearns`: pings that overtake each other do not keep an
  SBC from learning that the instance is closed.

Two runs end in a violation, each a disagreement between the code and what it says of
itself (`findings`). `scale_in`: the handler that should complete a scale-in when the last
call ends looks at an emitter that was replaced since. `early_break`: a play that ended by
itself leaves its listener in the emitter, which takes the break that should be cached for
the next play. Two more behaviours of `Playback` are in the model and kept out of its
properties: a play whose file is missing leaves its start listener on the endpoint, which
hears the start of the next play and then breaks that; and the playback ids of a fallback are
appended to those of the stream that failed, so that a say whose fallback streams too
compares its events with the wrong id and waits on.

### Restrictions

Some properties hold only under a condition that is a constant of the module or a
conjunct of the property. Each condition stands for behaviours that are in the model
and are known to break the property; `hazards` in `PROJECT.json` says which:

* a late command in `WokenForAReason`, a dropped processor (`ahd.present`) or an
  orphaned timer (`ahd.held`: overlapping playbacks leave several listeners, and one
  playback-stop then arms several timers, of which one can be cancelled) in
  `NoFillerOverTask`, a wait for a filler that failed in `QueuedTasksWake` (`Abandoned`);
* a processor that a gather left running (`owed`) in `NoFillerOverTask`: after a reply without verbs,
  after a kill of the gather, and after the background gather, fillers start over the verbs
  that were queued; without this conjunct TLC finds the property violated, and
  `HangupEndsSession` without `Stranded`;
* `Streaming` (the first say), no flush requests for `ResumedWhenDrained`;
* `RetryOn` = connection errors for `OneSocket`; `prompt` lookups and two callees in `dial`;
* `MustEnd` in `Gather`; no fast or continuous recognition, and no fallback yet
  (`g.primary`), for `DtmfWins`;
* `raced` in `BackgroundTaskManager`, type by type;
* `Overlap = FALSE` in `Conference`: one caller leaves when the others have settled; in the
  proofs about it at most one caller ends the conference, who does not wait (`Tidy`);
* `miscounted` in `OneRoom` and `WaitersCalled`: the kicked verb deletes the hash under the member who
  remains, and the next caller opens a second room;
* `calm` in `Queue`, where no side ends while a request of it pends, nor an agent before its first
  look into the queue, from which it would drop the caller it pops; `bridged` in `PartnersPart`: an agent
  whose bridge failed ends by its timer and tells nobody, and its caller stays for ever;
* `unheard` in `DialSettles`: the call is up, and the session waits until somebody kills it;
* `calm` in `Playback` (`InTime`): a verb is stopped once, not between two rounds of its loop nor
  while its webhook is asked, and no listener of an earlier play is left; no file of a play
  is missing for `OnlyStoppedIsBroken`; a say that repeats a stream for ever or falls back
  to one need not end (`MayStay`).

### Fairness

`CallSession!Fairness`: awaited results arrive (the media server and drachtio answer or
fail), a task that was killed or that ends by itself returns, the request of a gather is
answered or times out, the loop runs on, a playback stops. A `listen` need not end unless it is
killed, nor a `gather` that listens. Nobody has to call, hang up,
speak, answer a call hook or send commands, and no timer is relied upon.

`TtsStreamingBuffer!FairSpec`: commands are answered, connections are reported and timers
fire. `Dial!Fairness`: the media server, drachtio, the databases and the webhooks answer,
and the ring timer fires unless it is cleared; callees and callers need do nothing.
`Gather!Fairness`: the media server and the webhook answer, prompts end and timers fire;
nobody need press or say anything. `Conference!FairSpec`: a member that awaits a reply or a
REFER goes on. `Queue!FairSpec`: requests and posts return and the bridge timer fires;
nobody need hang up. `Instance!FairSpec`: lookups, webhooks and responses arrive or fail,
timers fire, a canceled INVITE is refused or answered; the far end may ring or talk for
ever. Pings get strong fairness: they are sent every few seconds, and a network that
delivers them again and again delivers each status that is sent again and again.
`Playback!FairSpec`: audio ends, events arrive, vendors and webhooks answer; nobody need stop
a verb, and no timer is relied upon.
`WsRequestor` and `BackgroundTaskManager` have no fairness: their properties are safety
properties.

## 4. Proofs

`CallSessionProofs` proves, for all applications, handlers, timeouts and bounds:
`TypeOK`, `ResolverMatchesWait` (the resolver is set exactly while the loop waits on it, the
assertion in `_awaitCommandsOrHangup`), `RunningTaskKillable`, `QueueIsCurrent` (the queue holds tasks
of the latest application only), `WokenForAReason`, `OneFinalResponse`, `CompletedIsFinal`,
`LeftInOrder` and `NoFillerOverTask`: all its safety properties. The assumptions are
`SessionAssumption` and `AhdAssumption`: types of the constants, and that no handler has
the name of another kind of waiter.

None of the invariants is inductive by itself. `IInv` adds to them what each needs: what
the suspension point says of the other variables (while the loop waits there is no task;
while it allocates or answers, `currentTask` is empty and `task` is one that needs an
endpoint; `Answered` finds the response that was sent), that a `sip:decline` only runs on
an INVITE without a final response, and that the stack index of the queued tasks is the
current one. `Invariance` has one step per action. `OneFinalResponseCorrect` is an action
property: it follows from `IInv` and the guard of every action that sends a response. `WokenCorrect`
looks at each action that resolves the promise. `ReportInv` ties the reports to the dialog,
which exists only after the success response and only with an endpoint, and which is
there until "completed" is reported; `FillerInv` says that the processor runs only
where the loop waits without verbs or the call ends, or when a gather left it running (`owed`): `HaltedOK`
and `KilledOK` say what stopping it and killing a gather do to it.

`InstanceProofs` proves `OneVerdict` and `CanceledNotExecuted`, for any calls, scenarios, retries
and retry policy, from `ScenarioAssumption` and `HttpRequestorAssumption`. `DetectorInv` says why a
detector decides once: the timers that decide run only while it has not decided, so a
verdict must take them away, and nothing decides before `startAmd()` has set them. There is
one lemma for each kind of event, since the same functions are applied by several
actions of `OutboundCall`. `PipelineInv` adds the types to `CanceledNotExecuted`.

`ConnectProofs` proves `OnePartner` for any callers and agents, on any servers, with and without
`calm`, from `QueueAssumption` (types of the constants). `IInv` gives the reason: a caller enters the
queue once, an agent is bound to him only when he leaves it, an agent who has not popped
anybody is bound to nobody, and the "ready" of a caller goes to the agent who popped him. Lemma
`Kept` states what a step may do without binding anybody; all steps but adding, popping
and posting "dequeue" are shown to be of that kind. It also proves `WaitingIsQueued`, which holds
in `calm` behaviours, from the same assumption: by `WaitInv` a caller who is to wait is in the
sorted set until an agent pops him, and that agent's post to him is still to come; the loop
of an agent has stopped when it posts, so no second pop can take the place of the first; and an
agent whose loop is still in its first second has not ended, in calm behaviours.

`ConnectProofs` also proves `OneWinner` and `ChosenLegEnds` of `Dial`, for any targets, limits, confirm
hooks and kills, from `DialAssumption` and for verbs that are a `Duel`: their lookups are `prompt`, they
have two targets at most, and with two they do not wait for the caller to be answered. For `ChosenLegEnds`
they are `Plain` too: of two callees none confirms. All verbs of `MCDial` are of this kind, and it
is as far as the properties go. A loop that kills the dialers kills the first one in the turn that starts it and
then awaits, so that of three callees the third may answer while the second is killed; a caller
who is answered late gives the second callee the time to answer too; and a callee who accepts in
the confirm hook while the loop waits takes the place of the winner in `sd`.
A callee is `Beaten` when he will not be connected any more, or was and is gone; this lasts, and he is
`InRace` before it. The invariant says that whoever is in the race is in `dials` (`Reached`) and
every suspended loop has yet to come to him (`Sweeps`), that nobody enters the race once a loop runs or
a callee has answered (`Frozen`), that who is connected has beaten all others (`Sole`) and is the verb's own
winner until it ends (`Owned`), and that nobody is in the race when it has ended (`Closed`). Most handlers
are shown to be `Tame`: they let nobody in. `KillLoopMost` is the heart of it: the loop has
beaten the dialer at which it stops and all before him, so of two the other is beaten at once.

`ConferenceProofs` proves `OneRoom`, and `LightsOut` as long as no kick has left a member alone
(`miscounted`), for any callers and servers, from
`ConferenceAssumption` (the callers are finitely many), `~Overlap` and `Tidy`: at most one caller ends
the conference for all, and he does not wait for another. The second condition was found
in the proof: a waiting host who hangs up between joining the list and listening for the
start stays on the list, is called into a later conference and, when he is dropped from it,
ends it while its starter is still notifying the others; one of those then sits in a room that no
hash leads to. Two hosts do the same to each other. `IInv` says that as long as nobody is on the way
out, the hash leads to the only room in use, and to those who are about to join it
(`HashLeads`, `Arrivals`); when some are, all others have settled (`OthersSettled`), the room keeps its
hash while one stays (`OthersStay`), and the last one will delete it (`LastDeletes`). A caller who was
killed before he was a member goes on and joins; `StrayIsKept` says that there is company.

`PlaybackProofs` proves `OnlyStoppedIsBroken` for any verbs, vendors and applications, from
`PlaybackAssumption`. Its `IInv` says that at most one start and one end of audio are on the
way, in that order; that only the play which is running waits for a start, and hears it before
the end, so that a cached break meets a listener of the running play only, which compares
it with itself; and that a cached break is of an earlier verb or of one that was stopped.

It also proves `CalmStopBreaks`, from the same assumption, for the `calm` behaviours: a play is
stopped once, not between two rounds, and no play before it left a listener behind. `CalmInv`
follows a play through its three phases. Before it begins (`Waits`) a stop leaves
its break in the cache. While it runs (`Plays`) it listens for its start or, once that was
heard, for a break; when it is stopped it is in its last round, and either silent or about to
hear its start and to find the break in the cache. When it has come to its end (`HasPlayed`) it listens
still, so that the break of the next application is spent on it and cannot reach a later verb.
`HeardOK` says that the start that was heard is that of the present audio.

`GatherProofs` proves `OneOutcome`, that `Gather` implements `Verb`, for any verbs and bounds, from
`GatherAssumption`. `IInv` has the types without the bounds of the counters and says why a verb
comes to one outcome: only a resolved verb asks its hook, a verb is done only when it is
resolved or broke down, and nothing happens to a verb before it begins nor after it
returned undecided, if its recognizer is reliable. Every handler is a composition of helpers; those that
resolve nothing are shown to be so (`Same`), and the others to do at most what `_resolve()`
does (`Handled`), so that each step maps to a step of `Verb` or a stutter.

It also proves `DtmfWins`, from the same assumption. As the property says, this leaves out fast
recognition and continuous mode, whose timers outlive the first digit, and a verb that fell
back to another recognizer; a verb that fell back stays so (`Forward`), so that `WinsInv` need only follow
the others. `Wins` says why speech does not take what was pressed: transcripts are
listened for only before the first digit; and digits are listened for once, when the prompt is over
or, if they may come during it, before the recognizer is asked for anything, so never
anew after a transcript decided.

`BackgroundProofs` proves `RunningIsKnown`, `StickyStays` and `OffIsOff` for any types, stacks and
bounds, from `BackgroundAssumption`. The inductive invariant `Known` says that what the Map holds is
alive and was not stopped, whatever raced, and of the types that did not race that none has two
tasks which are alive, and that a task which is alive is being made,
registered or was stopped; `BotInv` that a gather which was stopped is not sticky, so that
its late return cannot bring it back, and how the gathers that are alive follow bot mode.

`StreamProofs` proves `OneSocket`, `SentOnce` and `SettlesOnce` for any messages, limits, network and far
end, from `WsAssumption` and under a retry policy that does not include rejections, as the default
one; if it does, `OneSocket` does not hold. `ConnInv` says that at most one handshake is
under way or one message waits to dial again, never both, and that meanwhile
`connectInProgress` is set and there is no socket; so the handshake that ends is the only one,
and the socket it opens takes the place of none. `MsgInv` says that what is queued waits, that what
was sent never waits again, and that timers run only for messages in flight. The helpers that
handlers share (`SendQueued`, `ReconnectResolved`, `ClearPending`) leave the connection alone and settle
nothing twice: the lemmas show each to be `Mild`.

`StreamProofs` also proves `SentInOrder`, `FlushAfterText` and `HeldTextHasTimer` of the streaming buffer, for any
texts, water marks and bounds,
from `TtsAssumption` (types, and a low water mark below the high one). `TtsInv` has three parts. `QInv`: the numbers in the queue
rise without gaps up to the last piece accepted, two markers have text between them, and the
buffered length is the number of pieces; the length matters because `_setTimerIfNeeded`
looks at it and not at the queue. `SentInv`: what was sent, and the text before a marker whose flush is due
after a reply, is before all text that is still queued. `Held`: what an open stream keeps is watched by
the timer, if text is in front, or else by an activation that awaits a reply to something other than
"connect". The functions that handlers are composed of are shown one by one to keep them.

Only model-checked is liveness, which is out of the prover's reach, `PartnersPart` of `Queue` with it.
Every invariant that a run checks is stated by a theorem, `LightsOut` only until a kick
is miscounted; the runs check it after one too.

## 5. Not modelled

* In `CallSession`: call control that only acts on the running verb (mute, hold, whisper,
  dtmf, record), REFER, re-INVITE and media release, 3pcc INVITEs (the wait for their
  ACK), JAMBONES_INJECT_CONTENT, filler noise, delay actions that a verb or `config` sets anew.
* In `WsRequestor`: handover to http, pings, `maliciousClient`; in `HttpRequestor` the handover to
  a websocket, pools and signatures.
* In `Dial`: whisper, mute, hold, the media path, dtmf, nested listen, dub and transcribe.
* In `Gather`: filler noise, partial result hooks, hints, a Transcribe that shares the
  endpoint, and the conversion of vendor payloads.
* In `BackgroundTaskManager`: the siprec recorder, and tasks whose preconditions fail.
* In `Playback`: playing to a member of a conference, urls and texts of several parts, the seek
  offset, says that stream tokens (see `TtsStreamingBuffer`), what vendors are asked.
* In `Conference`: hold, mute, coaching, the wait hook, tags, recording.
* In `Queue`: the order of the sorted set, what the wait hook plays, results for the hooks.
* In `Instance`: dual streams of `createCall`, other live call control, the choice of an SBC.

Components with status `not_modelled` in `PROJECT.json` say there why. Text, payloads,
headers, spans, statistics and logging are abstracted everywhere.

## 6. Plan

In this order, each with its runs and, where it pays, its proofs:

1. `Transcribe`, which shares its base with `Gather`, and `Listen`.
2. Hold and the media path of `Dial` and `Conference`, REFER with NOTIFYs.
3. `AdultingCallSession` and `ConfirmCallSession` as instances of `CallSession`.
4. Proofs: what holds of `Dial` for any number of callees (no loop passes by a dialer that may
   still win, a callee who is killed is never bridged afterwards); the abstract specifications of
   `Queue` and `Conference` (a caller is with one agent, a room has one hash) with their refinements.
