------------------------------ MODULE Conference ------------------------------
(****************************************************************************)
(* lib/tasks/conference.js: callers on several feature servers meet in a    *)
(* conference of one name.  A hash in redis says which server hosts it, a   *)
(* set lists the callers who wait for it; callers at home elsewhere are     *)
(* moved to the host by REFER.  The verb's awaits are states of a member;   *)
(* between them anybody else may act.                                       *)
(*                                                                          *)
(* Left out: hooks (but the entry prompt is a state), tags, coaching, mute, *)
(* hold, recording and the events that only report.                         *)
(****************************************************************************)
EXTENDS Naturals, FiniteSets

CONSTANTS
  Members,  \* the callers
  Servers,  \* the feature servers, each with its media server
  Parties,  \* who they may be, see Callers
  Overlap   \* callers leave while others arrive or leave

None == "none"

(* server - where the call comes in; waits - startConferenceOnEnter is      *)
(* false; ends - endConferenceOnExit; prompt - enterHook                    *)
Callers == [server : Servers, waits : BOOLEAN, ends : BOOLEAN, prompt : BOOLEAN]

ASSUME ConferenceAssumption ==
  /\ IsFiniteSet(Members) /\ Parties \subseteq [Members -> Callers]
  /\ Overlap \in BOOLEAN /\ None \notin Servers

VARIABLES
  hash,     \* the host in the conference's hash in redis, or None
  waitlist, \* the set in redis of callers to be told when it starts
  room,     \* the members of the conference on each media server
  member,   \* the verb of each caller, see MemberStates
  miscounted \* history: a kick has left one member alone, see Kick

(* Where exec() is (at) and where kill() is (exit).                         *)
Ats == {"out", "lookup", "create", "retry", "add", "waiting", "moving",
        "prompt", "join", "read", "notify", "done", "over"}
Exits == {None, "check", "delete", "kick", "over"}

MemberStates ==
  [at : Ats, exit : Exits, caller : Callers,
   moved : BOOLEAN,              \* cs.isTransferredCall
   addr : Servers \cup {None},   \* joinDetails.conferenceSipAddress of a move
   starts : BOOLEAN,             \* the action is "start"
   killed : BOOLEAN, memberId : BOOLEAN,
   todo : SUBSET Members]        \* the waiting callers still to be notified

TypeOK ==
  /\ hash \in Servers \cup {None} /\ waitlist \subseteq Members
  /\ room \in [Servers -> SUBSET Members]
  /\ member \in [Members -> MemberStates]
  /\ miscounted \in BOOLEAN

vars == <<hash, waitlist, room, member, miscounted>>

(* The verb of caller c before or after exec().                             *)
Verb(c, at) ==
  [at |-> at, exit |-> None, caller |-> c, moved |-> FALSE, addr |-> None,
   starts |-> FALSE, killed |-> FALSE, memberId |-> FALSE, todo |-> {}]
Over(r) == Verb(r.caller, "over")

Init ==
  /\ hash = None /\ waitlist = {} /\ room = [s \in Servers |-> {}] /\ miscounted = FALSE
  /\ \E party \in Parties : member = [m \in Members |-> Verb(party[m], "out")]

Here(m) == member[m].caller.server
Room(m) == room[Here(m)]
Present(m) == m \in Room(m)
Gone(m) == member[m].at = "over" \/ (member[m].at = "waiting" /\ member[m].killed)

(* Nothing but a callback, a message or the caller moves a settled member.  *)
Settled(m) == \/ member[m].at = "out" \/ Gone(m)
              \/ member[m].at = "waiting"
              \/ member[m].at = "done" /\ member[m].exit = None /\ Present(m)
Leaving(m) == ~Gone(m) /\ (member[m].exit # None \/ member[m].killed
                           \/ (member[m].at = "done" /\ ~Present(m)))

(* One caller leaves when all others are settled, and leaves before he is   *)
(* a member only if somebody keeps the room and he is not about to start it. *)
MayLeave(m) ==
  Overlap \/ /\ \A o \in Members \ {m} : Settled(o)
             /\ Settled(m) \/ (~member[m].starts
                                /\ \E o \in Members \ {m} : Present(o))

Sets(m, fields) == member' = [member EXCEPT ![m] = fields]

------------------------------------------------------------------------------
(* _init(): which of join, wait and start it is.                            *)
Enter(m) ==
  /\ member[m].at = "out"
  /\ Overlap \/ ~\E o \in Members : Leaving(o)
  /\ Sets(m, [member[m] EXCEPT !.at = "lookup"])
  /\ UNCHANGED <<hash, waitlist, room, miscounted>>

(* _doJoin(): here, or by REFER to the host.                                *)
Joining(r, s) ==
  IF s # r.caller.server /\ ~r.moved THEN [r EXCEPT !.at = "moving", !.addr = s]
  ELSE [r EXCEPT !.at = IF r.caller.prompt THEN "prompt" ELSE "join"]
Starting(r) == Joining([r EXCEPT !.starts = TRUE], r.caller.server)

RetrieveHash(m) ==
  /\ member[m].at = "lookup"
  /\ Sets(m, IF hash # None THEN Joining(member[m], hash)
             ELSE [member[m] EXCEPT
                     !.at = IF member[m].caller.waits THEN "add" ELSE "create"])
  /\ UNCHANGED <<hash, waitlist, room, miscounted>>

(* createHash() adds the key only if it does not exist (NX).                *)
CreateAlways(m) ==
  /\ member[m].at = "create"
  /\ hash' = Here(m)
  /\ Sets(m, Starting(member[m]))
  /\ UNCHANGED <<waitlist, room, miscounted>>

CreateHash(m) ==
  /\ member[m].at = "create"
  /\ hash' = IF hash = None THEN Here(m) ELSE hash
  /\ Sets(m, IF hash = None THEN Starting(member[m])
             ELSE [member[m] EXCEPT !.at = "retry"])
  /\ UNCHANGED <<waitlist, room, miscounted>>

(* Somebody was faster; if the hash is gone again exec() throws.            *)
RetrieveAgain(m) ==
  /\ member[m].at = "retry"
  /\ Sets(m, IF hash # None THEN Joining(member[m], hash)
             ELSE Over(member[m]))
  /\ UNCHANGED <<hash, waitlist, room, miscounted>>

------------------------------------------------------------------------------
(* _doWait(): the url goes on the list before there is a listener for the   *)
(* notification; a caller killed between the two waits for ever.            *)
AddToWaitList(m) ==
  /\ member[m].at = "add" /\ m \notin waitlist
  /\ waitlist' = waitlist \cup {m}
  /\ UNCHANGED <<hash, room, member, miscounted>>

Listens(m) ==
  /\ member[m].at = "add" /\ m \in waitlist
  /\ Sets(m, [member[m] EXCEPT !.at = "waiting"])
  /\ UNCHANGED <<hash, waitlist, room, miscounted>>

------------------------------------------------------------------------------
(* The host has a new session for the call, which starts over with the verb. *)
ReferSucceeds(m) ==
  LET r == member[m] IN
  /\ r.at = "moving" /\ ~r.killed
  /\ Sets(m, [Verb([r.caller EXCEPT !.server = r.addr], "lookup") EXCEPT
                !.moved = TRUE])
  /\ UNCHANGED <<hash, waitlist, room, miscounted>>

ReferFails(m) ==
  /\ member[m].at = "moving"
  /\ Sets(m, Over(member[m]))
  /\ UNCHANGED <<hash, waitlist, room, miscounted>>

(* After the join the one who started the conference turns to the list, the *)
(* others wait for the end.                                                 *)
Then(r) == [r EXCEPT !.at = IF r.starts THEN "read" ELSE "done"]

PromptEnds(m) ==
  LET r == member[m] IN
  /\ r.at = "prompt"
  /\ Sets(m, IF r.killed THEN Then(r) ELSE [r EXCEPT !.at = "join"])
  /\ UNCHANGED <<hash, waitlist, room, miscounted>>

Joined(m) ==
  LET r == member[m] IN
  /\ r.at = "join"
  /\ room' = [room EXCEPT ![Here(m)] = @ \cup {m}]
  /\ Sets(m, [Then(r) EXCEPT !.memberId = TRUE])
  /\ UNCHANGED <<hash, waitlist, miscounted>>

(* The media server refuses, or its endpoint is gone: exec() throws.        *)
JoinFails(m) ==
  /\ member[m].at = "join"
  /\ Overlap \/ \E o \in Members \ {m} : Present(o)
  /\ Sets(m, Over(member[m]))
  /\ UNCHANGED <<hash, waitlist, room, miscounted>>

------------------------------------------------------------------------------
(* _doStart(): the members of the set are notified one after the other and  *)
(* the set is deleted, whoever is on it by then.                            *)
RetrieveSet(m) ==
  /\ member[m].at = "read"
  /\ Sets(m, [member[m] EXCEPT !.at = IF waitlist = {} THEN "done" ELSE "notify",
                               !.todo = waitlist])
  /\ UNCHANGED <<hash, waitlist, room, miscounted>>

Called(r, s) == IF r.at = "waiting" THEN Joining(r, s) ELSE r

NotifyOne(m) ==
  /\ member[m].at = "notify"
  /\ \E w \in member[m].todo :
       member' = [member EXCEPT ![m].todo = {},
                                ![w] = Called(@, Here(m))]
  /\ UNCHANGED <<hash, waitlist, room, miscounted>>

Notify(m) ==
  /\ member[m].at = "notify"
  /\ \E w \in member[m].todo :
       member' = [member EXCEPT ![m].todo = @ \ {w},
                                ![w] = Called(@, Here(m))]
  /\ UNCHANGED <<hash, waitlist, room, miscounted>>

ClearWaitList(m) ==
  /\ member[m].at = "notify" /\ member[m].todo = {}
  /\ waitlist' = {}
  /\ Sets(m, [member[m] EXCEPT !.at = "done"])
  /\ UNCHANGED <<hash, room, miscounted>>

------------------------------------------------------------------------------
(* kill(): a waiting caller leaves the list; who never joined is done at    *)
(* once, though exec() goes on from where it is; a member checks first      *)
(* whether he is the last.                                                  *)
Killed(r) ==
  IF r.at = "waiting" THEN Over(r)
  ELSE [r EXCEPT !.killed = TRUE, !.exit = IF r.memberId THEN "check" ELSE "over"]

HangsUp(m) ==
  /\ member[m].at \notin {"out", "over"} /\ ~member[m].killed
  /\ member[m].exit = None /\ (member[m].memberId => Present(m))
  /\ MayLeave(m)
  /\ waitlist' = IF member[m].at = "waiting" THEN waitlist \ {m} ELSE waitlist
  /\ Sets(m, Killed(member[m]))
  /\ UNCHANGED <<hash, room, miscounted>>

(* The conference ends with the last member who has the flag for it.        *)
Left(m) ==
  LET others == Room(m) \ {m}
  IN  IF m \in Room(m) /\ member[m].caller.ends
           /\ ~\E o \in others : member[o].caller.ends
      THEN {} ELSE others

Leave(m) == room' = [room EXCEPT ![Here(m)] = Left(m)]

(* By REST command.  The verb counts when it has been dropped, and takes    *)
(* itself off the count: where one member remains it finds none.            *)
Kick(m) ==
  /\ Present(m) /\ ~member[m].killed /\ MayLeave(m)
  /\ Leave(m)
  /\ miscounted' = (miscounted \/ Cardinality(Left(m)) = 1)
  /\ UNCHANGED <<hash, waitlist, member>>

(* replaceEndpointAndEnd(), once the media server has dropped the member.   *)
Dropped(m) ==
  LET r == member[m] IN
  /\ r.memberId /\ ~Present(m) /\ ~r.killed /\ r.exit = None
  /\ Sets(m, Killed(r))
  /\ UNCHANGED <<hash, waitlist, room, miscounted>>

(* _doFinalMemberCheck()                                                    *)
RemainingAndSelf(m) == Cardinality(Room(m))

Remaining(m) == IF Room(m) = {} THEN 0 ELSE Cardinality(Room(m)) - 1
Check(m) ==
  LET n == Remaining(m) IN
  /\ member[m].exit = "check"
  /\ Sets(m, [member[m] EXCEPT
                !.exit = IF n = 0 \/ member[m].caller.ends THEN "delete" ELSE "kick"])
  /\ UNCHANGED <<hash, waitlist, room, miscounted>>

DeleteHash(m) ==
  /\ member[m].exit = "delete"
  /\ hash' = None
  /\ Sets(m, [member[m] EXCEPT !.exit = "kick"])
  /\ UNCHANGED <<waitlist, room, miscounted>>

KickSelf(m) ==
  /\ member[m].exit = "kick" /\ Leave(m)
  /\ Sets(m, IF member[m].at = "done" THEN Over(member[m])
             ELSE [member[m] EXCEPT !.exit = "over"])
  /\ UNCHANGED <<hash, waitlist, miscounted>>

(* exec() of a verb that was killed on its way gets to awaitTaskDone(); the  *)
(* session ends and releases the endpoint.                                  *)
Ends(m) ==
  /\ member[m].at = "done" /\ member[m].exit = "over"
  /\ Leave(m)
  /\ Sets(m, Over(member[m]))
  /\ UNCHANGED <<hash, waitlist, miscounted>>

Goes(m) ==
  \/ RetrieveHash(m) \/ CreateHash(m) \/ RetrieveAgain(m) \/ AddToWaitList(m)
  \/ Listens(m) \/ ReferSucceeds(m) \/ ReferFails(m)
  \/ PromptEnds(m) \/ Joined(m) \/ JoinFails(m) \/ RetrieveSet(m) \/ Notify(m)
  \/ ClearWaitList(m) \/ Ends(m)
Exiting(m) == Dropped(m) \/ Check(m) \/ DeleteHash(m) \/ KickSelf(m)

Next == \E m \in Members :
          Goes(m) \/ Exiting(m) \/ Enter(m) \/ HangsUp(m) \/ Kick(m)

Spec == Init /\ [][Next]_vars

(* Replies come; callers need not come, nor leave.                          *)
FairSpec ==
  Spec /\ \A m \in Members : WF_vars(Goes(m)) /\ WF_vars(Exiting(m))

------------------------------------------------------------------------------
(* A conference goes on under its name: unless somebody is on the way out,  *)
(* the room that has members is on the server that the hash leads new       *)
(* callers to, so there is never a second one.  It does not hold once a     *)
(* member was kicked out of a room of two: his verb deletes the hash under  *)
(* the one who remains, and the next caller opens another room.             *)
OneRoom ==
  ~miscounted =>
    \A s \in Servers : room[s] # {} /\ ~(\E m \in Members : Leaving(m)) => hash = s

(* The last one turns out the lights: no host is left in redis when nobody  *)
(* is there any more, however the members left.                             *)
LightsOut == (\A m \in Members : member[m].at = "out" \/ Gone(m)) => hash = None

(* A caller who waits, and listens, when the one who starts the conference  *)
(* reads the list comes to sit in a room with members, or hangs up, or the  *)
(* move or the join fails, unless the one who starts it is a second room's, *)
(* after a kick as in OneRoom.                                              *)
WaitersCalled ==
  \A m, o \in Members :
    (/\ member[m].at = "waiting" /\ m \in waitlist
     /\ member[o].at = "read" /\ ~miscounted)
      ~> (Present(m) \/ member[m].at = "over")
==============================================================================
