--------------------------------- MODULE Dial ---------------------------------
(****************************************************************************)
(* lib/tasks/dial.js and lib/utils/place-outdial.js: the dial verb calls    *)
(* several targets at once, connects the first that answers and accepts,    *)
(* kills the others, and ends with the call of the one it connected.        *)
(*                                                                          *)
(* Each SingleDialer runs its own exec() with an await at every step, and   *)
(* reports to the verb by events, as long as the verb listens.  The verb's  *)
(* loop _killOutdials() awaits each dialer in turn: several such loops may  *)
(* be suspended, and a dialer that a loop has not reached yet goes on.      *)
(*                                                                          *)
(* A handler is a function from one state of the verb to the next.  The two *)
(* awaits of SingleDialer.kill() are one.  Left out: whisper, mute, hold,   *)
(* releasing and anchoring media, dtmf, nested listen, dub and transcribe.  *)
(****************************************************************************)
EXTENDS Naturals, SequencesExt

CONSTANTS
  Targets,     \* what may be dialed
  Calls,       \* the dial verbs considered, see DialOptions
  MaxKills     \* bound on the times the session kills the verb

Nobody == "nobody"

(* targets - data.target                 confirm - those with a confirmHook *)
(* bridge  - answerOnBridge, and the caller is not answered yet             *)
(* teams   - a target needs the lookup of the account's Teams settings      *)
(* limit   - timeLimit is set                                               *)
(* prompt  - the lookups of all targets, which take milliseconds, end       *)
(*           before a callee answers or the ring timer fires                *)
DialOptions ==
  [targets : SUBSET Targets, confirm : SUBSET Targets, bridge : BOOLEAN,
   teams : BOOLEAN, limit : BOOLEAN, prompt : BOOLEAN]

ASSUME DialAssumption ==
  /\ Nobody \notin Targets /\ Calls \subseteq DialOptions /\ MaxKills \in Nat

VARIABLES
  opts,   \* the verb's data
  d       \* the verb and its dialers, see Dials

(* at       - where exec() of the dialer is suspended: "lookup" before it   *)
(*            exists, "endpoint", "sending" until drachtio has the INVITE,  *)
(*            "ringing", "connecting" while the endpoint gets the answer,   *)
(*            "confirming", "answered" when the verb took it, "over"        *)
(* leg      - the callee's dialog                                           *)
(* canceled - a CANCEL was sent          heard - the verb still listens     *)
(* watched  - the verb listens to 'destroy' of the dialog                   *)
(* adult    - the leg has a session of its own                              *)
Stages == {"lookup", "endpoint", "sending", "ringing", "connecting",
           "confirming", "answered", "over"}
Dialers ==
  [at : Stages, leg : {"none", "up", "down"}, killed : BOOLEAN,
   canceled : BOOLEAN, heard : BOOLEAN, watched : BOOLEAN, adult : BOOLEAN]

Results == {"none", "progress", "in-progress", "failed", "no-answer",
            "completed"}
Loops == [left : Seq(Targets), then : {"winner", "ring", "kill"}]

(* pc     - where exec() of the verb is suspended                           *)
(* dials  - this.dials, in order         winner - this.sd                   *)
(* ring   - timerRing                    limit  - timerMaxCallDuration      *)
(* loops  - the suspended activations of _killOutdials() and what follows   *)
(* done   - notifyTaskDone() was called  results - results.dialCallStatus   *)
(* selecting - dialers whose _selectSingleDial() awaits propagateAnswer()   *)
(* refer  - a REFER of the caller being handled                             *)
(* kills  - how often the session has killed the verb                       *)
Dials ==
  [pc : {"init", "teams", "dialing", "action", "done"}, killed : BOOLEAN,
   done : BOOLEAN, dials : Seq(Targets), winner : Targets \cup {Nobody},
   ring : BOOLEAN, limit : BOOLEAN, loops : Seq(Loops),
   selecting : SUBSET Targets, results : Results,
   refer : {"none", "asked", "adulting"}, kills : 0..MaxKills,
   sd : [Targets -> Dialers]]

DialTypeOK == opts \in Calls /\ d \in Dials

DialInit ==
  /\ opts \in Calls
  /\ d = [pc |-> "init", killed |-> FALSE, done |-> FALSE, dials |-> <<>>,
          winner |-> Nobody, ring |-> FALSE, limit |-> FALSE, loops |-> <<>>,
          selecting |-> {}, results |-> "none", refer |-> "none", kills |-> 0,
          sd |-> [t \in Targets |->
                   [at |-> "over", leg |-> "none", killed |-> FALSE,
                    canceled |-> FALSE, heard |-> FALSE, watched |-> FALSE,
                    adult |-> FALSE]]]

------------------------------------------------------------------------------
(* The verb.                                                                *)

At(s, t, stage) == [s EXCEPT !.sd[t].at = stage]
Deaf(s, t) == [s EXCEPT !.sd[t].heard = FALSE]
Dropped(s, t) == [s EXCEPT !.dials = RemoveFirst(@, t)]

(* The first answer, or no-answer, that ends up in the results stays.       *)
Result(s, status) ==
  IF s.results \in {"completed", "no-answer"} THEN s
  ELSE [s EXCEPT !.results = status]

(* SingleDialer.kill(): an INVITE in progress is canceled, a call hung up;  *)
(* before the INVITE is out only the flag is left.                          *)
SdKilled(s, t) ==
  LET x == s.sd[t]
      inviting == x.at \in {"ringing", "connecting"}
      hangup == ~inviting /\ x.leg = "up"
      k == [s EXCEPT !.sd[t].killed = TRUE, !.sd[t].canceled = @ \/ inviting,
                     !.sd[t].leg = IF hangup THEN "down" ELSE @]
  IN  IF hangup /\ x.heard THEN Result(k, "completed") ELSE k

(* The end of TaskDial.kill().                                              *)
Finished(s) ==
  LET hungup == IF s.winner = Nobody THEN s
                ELSE Deaf(SdKilled(s, s.winner), s.winner)
  IN  [hungup EXCEPT !.winner = Nobody, !.done = TRUE]

Doomed(s) == [s EXCEPT !.killed = TRUE, !.ring = FALSE, !.limit = FALSE]

(* What follows the loop: nothing, TaskDial.kill() of the ring timer, which *)
(* finds no dials left, or the rest of the TaskDial.kill() that ran it.     *)
LoopEnds(s, then) ==
  LET cleared == [s EXCEPT !.dials = <<>>]
  IN  CASE then = "winner" -> cleared
        [] then = "ring"   -> Finished(Doomed(cleared))
        [] then = "kill"   -> Finished(cleared)

(* _killOutdials() over a copy of the map.  Killing a dialer that has no    *)
(* endpoint yet awaits nothing; the first that has one suspends the loop.   *)
KillLoop(s, todo, then) ==
  LET waits == {i \in DOMAIN todo : s.sd[todo[i]].at # "endpoint"}
      first == IF waits = {} THEN Len(todo) + 1 ELSE Min(waits)
      quick == {todo[i] : i \in 1..(first - 1)}
      k == [s EXCEPT !.sd = [t \in Targets |->
              IF t \in quick THEN [@[t] EXCEPT !.killed = TRUE, !.heard = FALSE]
              ELSE @[t]]]
  IN  IF waits = {} THEN LoopEnds(k, then)
      ELSE [SdKilled(k, todo[first]) EXCEPT
              !.loops = Append(@, [left |-> SubSeq(todo, first, Len(todo)),
                                   then |-> then])]

KillOutdials(s, then) == KillLoop(s, s.dials, then)
Kill(s) == KillOutdials(Doomed(s), "kill")

(* The verb ends when the last dialer has failed.                           *)
EndIfLast(s) ==
  IF s.dials = <<>> /\ s.winner = Nobody THEN Kill([s EXCEPT !.ring = FALSE])
  ELSE s

(* on('callStatusChange').                                                  *)
StatusChanged(s, t, status) ==
  LET r == Result(s, status)
  IN  IF ~s.sd[t].heard THEN s
      ELSE CASE status = "in-progress" -> [r EXCEPT !.ring = FALSE]
             [] status \in {"failed", "no-answer"} -> EndIfLast(Dropped(r, t))
             [] OTHER -> r

(* Mutant of Selected: the other outdials are left alone.                   *)
SelectedAlone(s, t) ==
  IF s.winner = Nobody THEN Kill(Deaf(s, t))
  ELSE [s EXCEPT !.limit = opts.limit, !.results = "completed",
                 !.sd[s.winner].watched = TRUE]

(* The rest of _connectSingleDial() once the caller is answered.  When the  *)
(* verb was killed meanwhile, this.dlg is undefined and the catch kills     *)
(* again.                                                                   *)
Selected(s, t) ==
  IF s.winner = Nobody THEN Kill(Deaf(s, t))
  ELSE KillOutdials([s EXCEPT !.limit = opts.limit, !.results = "completed",
                              !.sd[s.winner].watched = TRUE], "winner")

(* on('accept').                                                            *)
Accepted(s, t) ==
  LET w == [Dropped(At(s, t, "answered"), t) EXCEPT !.winner = t,
                                                     !.ring = FALSE]
  IN  IF ~s.sd[t].heard THEN At(s, t, "over")
      ELSE IF opts.bridge THEN [w EXCEPT !.selecting = @ \cup {t}]
      ELSE Selected(w, t)

(* on('decline').                                                           *)
Declined(s, t) ==
  IF ~s.sd[t].heard THEN s
  ELSE EndIfLast([Deaf(Dropped(s, t), t) EXCEPT !.ring = FALSE])

(* Mutant of CreateFailed: the failure of the last dialer ends nothing.     *)
CreateFailedOnly(s, t) ==
  IF ~s.sd[t].heard THEN s
  ELSE [Deaf(Dropped(s, t), t) EXCEPT !.ring = FALSE]

(* on('callCreateFail').  The catch of exec() then reports to nobody.       *)
CreateFailed(s, t) == Declined(s, t)

(* _attemptCalls() after its lookup of the Teams account.                   *)
Attempted(s) ==
  [s EXCEPT !.pc = "dialing", !.ring = TRUE,
            !.sd = [t \in Targets |->
                     IF t \in opts.targets THEN [@[t] EXCEPT !.at = "lookup"]
                     ELSE @[t]]]

------------------------------------------------------------------------------
(* exec() of the verb, its timers and what the session asks of it.          *)

Initialized ==
  /\ d.pc = "init"
  /\ d' = CASE d.killed -> [d EXCEPT !.pc = "dialing"]
            [] ~d.killed /\ opts.teams -> [d EXCEPT !.pc = "teams"]
            [] OTHER -> Attempted(d)

(* No endpoint, no Teams settings: exec() ends in its catch.                *)
ExecThrows ==
  /\ d.pc \in {"init", "teams"}
  /\ d' = [Kill(d) EXCEPT !.pc = "done"]

TeamsLookedUp ==
  /\ d.pc = "teams"
  /\ d' = Attempted(d)

TaskDone ==
  /\ d.pc = "dialing" /\ d.done
  /\ d' = [d EXCEPT !.pc = "action"]

ActionPerformed ==
  /\ d.pc = "action"
  /\ d' = [d EXCEPT !.pc = "done"]

LookupsDone == opts.prompt => \A u \in Targets : d.sd[u].at # "lookup"

(* The caller hangs up, the verb is replaced, media times out.              *)
SessionKills ==
  /\ d.pc # "done" /\ d.kills < MaxKills
  /\ d' = Kill([d EXCEPT !.kills = @ + 1])

RingTimeout ==
  /\ d.ring /\ LookupsDone
  /\ d' = KillOutdials([d EXCEPT !.ring = FALSE], "ring")

MaxCallDuration ==
  /\ d.limit
  /\ d' = Kill(d)

(* A dialer a loop waits for is killed: the loop goes on.                   *)
LoopResumes ==
  \E i \in DOMAIN d.loops :
    LET f == d.loops[i]
        t == Head(f.left)
    IN  d' = KillLoop([Deaf(d, t) EXCEPT !.loops = RemoveAt(@, i)],
                      Tail(f.left), f.then)

(* propagateAnswer() in _selectSingleDial() resolves or rejects.            *)
AnswerPropagated(t) ==
  /\ t \in d.selecting
  /\ LET s == [d EXCEPT !.selecting = @ \ {t}]
     IN  d' \in {Selected(s, t), Kill(Deaf(s, t))}

(* The caller refers the callee to a new application: the child leg gets a  *)
(* session of its own, and when its endpoint is unbridged the verb ends.    *)
ReferReceived ==
  /\ d.winner # Nobody /\ d.refer = "none" /\ d.pc = "dialing"
  /\ d' = [d EXCEPT !.refer = "asked"]

ReferReply ==
  /\ d.refer = "asked"
  /\ \/ d' = [d EXCEPT !.refer = "none"]
     \/ /\ d.winner # Nobody
        /\ d' = [d EXCEPT !.refer = "adulting", !.sd[d.winner].adult = TRUE,
                          !.winner = IF d.sd[d.winner].heard THEN Nobody ELSE @]

Adulted ==
  /\ d.refer = "adulting"
  /\ d' = IF d.pc = "done" THEN [d EXCEPT !.refer = "none"]
          ELSE Kill([d EXCEPT !.refer = "none"])

------------------------------------------------------------------------------
(* The dialers.                                                             *)

(* Mutant of Place: nobody asks whether the verb was killed meanwhile.      *)
PlaceAnyway(t) ==
  /\ d.sd[t].at = "lookup"
  /\ \/ d' = At(d, t, "over")
     \/ d' = [At(d, t, "endpoint") EXCEPT !.dials = Append(@, t),
                                          !.sd[t].heard = TRUE]

(* The lookups for a target are done, or throw.                             *)
Place(t) ==
  /\ d.sd[t].at = "lookup"
  /\ \/ d' = At(d, t, "over")
     \/ /\ ~d.killed
        /\ d' = [At(d, t, "endpoint") EXCEPT !.dials = Append(@, t),
                                             !.sd[t].heard = TRUE]

EndpointCreated(t) ==
  /\ d.sd[t].at = "endpoint"
  /\ d' = At(d, t, IF d.sd[t].killed THEN "over" ELSE "sending")

EndpointFails(t) ==
  /\ d.sd[t].at = "endpoint"
  /\ d' = StatusChanged(At(d, t, "over"), t, "failed")

(* cbRequest: the INVITE is out, killed or not.                             *)
InviteSent(t) ==
  /\ d.sd[t].at = "sending"
  /\ d' = StatusChanged(At(d, t, "ringing"), t, "progress")

InviteFails(t) ==
  /\ d.sd[t].at = "sending"
  /\ d' = CreateFailed(At(d, t, "over"), t)

Provisional(t) ==
  /\ d.sd[t].at = "ringing"
  /\ d' = StatusChanged(d, t, "progress")

(* Final responses: busy and the like, or 487, also after a CANCEL.         *)
Rejected(t) ==
  /\ d.sd[t].at = "ringing"
  /\ \E status \in {"failed", "no-answer"} :
       d' = StatusChanged(At(d, t, "over"), t, status)

Answers(t) ==
  /\ d.sd[t].at = "ringing"
  /\ LookupsDone
  /\ d' = [At(d, t, "connecting") EXCEPT !.sd[t].leg = "up"]

(* The endpoint has the callee's sdp.  Killed just as the call was          *)
(* answered: completed is reported and the dialog left as it is.            *)
Connected(t) ==
  /\ d.sd[t].at = "connecting"
  /\ LET s == StatusChanged(d, t, "in-progress")
     IN  d' = CASE s.sd[t].killed -> StatusChanged(At(s, t, "over"), t, "completed")
                [] ~s.sd[t].killed /\ t \in opts.confirm -> At(s, t, "confirming")
                [] OTHER -> Accepted(s, t)

ConnectFails(t) ==
  /\ d.sd[t].at = "connecting"
  /\ d' = StatusChanged(At(d, t, "over"), t, "failed")

(* The confirm hook returned no tasks.                                      *)
NothingToConfirm(t) ==
  /\ d.sd[t].at = "confirming"
  /\ d' = Accepted(d, t)

(* The tasks of the confirm hook have run.                                  *)
Confirmed(t) ==
  /\ d.sd[t].at = "confirming"
  /\ d' = IF d.sd[t].leg = "up" THEN Accepted(d, t)
          ELSE Declined(At(d, t, "over"), t)

(* The confirm hook fails: declined, then hung up.                          *)
ConfirmFails(t) ==
  /\ d.sd[t].at = "confirming"
  /\ d' = [Declined(At(d, t, "over"), t) EXCEPT !.sd[t].leg = "down"]

(* The callee hangs up.  The dialer listens once its call is connected, the *)
(* verb once it has selected the dialer.                                    *)
CalleeHangsUp(t) ==
  /\ d.sd[t].leg = "up"
  /\ LET gone == [d EXCEPT !.sd[t].leg = "down"]
         s == IF d.sd[t].at \in {"confirming", "answered"}
              THEN StatusChanged(gone, t, "completed") ELSE gone
     IN  d' = IF d.sd[t].watched /\ s.winner # Nobody THEN Kill(s) ELSE s

Verb == \/ Initialized \/ ExecThrows \/ TeamsLookedUp \/ TaskDone
        \/ ActionPerformed \/ LoopResumes
        \/ \E t \in Targets : AnswerPropagated(t)
Session == SessionKills \/ ReferReceived \/ ReferReply \/ Adulted
Timers == RingTimeout \/ MaxCallDuration
Setup(t) ==
  \/ Place(t) \/ EndpointCreated(t) \/ EndpointFails(t)
  \/ InviteSent(t) \/ InviteFails(t)
  \/ Connected(t) \/ ConnectFails(t)
  \/ NothingToConfirm(t) \/ Confirmed(t) \/ ConfirmFails(t)
Callee(t) == Provisional(t) \/ Rejected(t) \/ Answers(t) \/ CalleeHangsUp(t)

DialNext ==
  /\ UNCHANGED opts
  /\ Verb \/ Session \/ Timers \/ \E t \in Targets : Setup(t) \/ Callee(t)

dialVars == <<opts, d>>
DialSpec == DialInit /\ [][DialNext]_dialVars

(* Replies of the media server, drachtio, the databases and the webhooks    *)
(* arrive, and the ring timer fires unless it is cleared.  A callee may     *)
(* ring for ever and a call last for ever.                                  *)
Fairness ==
  /\ WF_dialVars(UNCHANGED opts /\ Verb)
  /\ WF_dialVars(UNCHANGED opts /\ RingTimeout)
  /\ WF_dialVars(UNCHANGED opts /\ (ReferReply \/ Adulted))
  /\ \A t \in Targets : WF_dialVars(UNCHANGED opts /\ Setup(t))
FairDial == DialSpec /\ Fairness

------------------------------------------------------------------------------
(* Properties.                                                              *)

Up(t) == d.sd[t].leg = "up"
Chosen(t) == d.sd[t].at = "answered" /\ ~d.sd[t].adult

(* Connecting one callee is the end of every other call: _connectSingleDial *)
(* kills the other dialers before one of them can be accepted as well, so   *)
(* two connected callees never both believe to be the one.                  *)
OneWinner ==
  \A t, u \in Targets : Chosen(t) /\ Chosen(u) /\ Up(t) /\ Up(u) => t = u

(* A callee who was connected to the caller is hung up when the verb ends,  *)
(* even when it was accepted while kill() was waiting for its outdials,     *)
(* unless it has become a call of its own.                                  *)
ChosenLegEnds == d.done => \A t \in Targets : Chosen(t) => ~Up(t)

(* A verb that was killed ends, and so does one that has no callee left:    *)
(* exec() does not wait for ever on its completion promise.                 *)
NobodyLeft ==
  /\ d.pc = "dialing" /\ d.winner = Nobody
  /\ \A t \in opts.targets : d.sd[t].at = "over"
VerbEnds == d.killed \/ NobodyLeft ~> d.pc = "done"
==============================================================================
