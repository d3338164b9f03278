---------------------------- MODULE ConferenceProofs ---------------------------
(****************************************************************************)
(* Proofs about the conference: it goes on under its name, and its hash is  *)
(* gone when nobody is there any more, for any callers who do not overlap   *)
(* and of whom one, who does not wait for others, may end it for all, until *)
(* a kick leaves a member alone (miscounted).                               *)
(****************************************************************************)
EXTENDS Conference, FiniteSetTheorems, TLAPS

(* One caller at most ends the conference, and he does not wait for others. *)
Tidy == \A party \in Parties, m \in Members : party[m].ends =>
          ~party[m].waits /\ \A o \in Members : party[o].ends => o = m

(* Who sits in a room for good, who is on the way out of it, who was killed *)
(* before he was a member and goes on, who has created the hash and has not *)
(* joined yet.                                                              *)
Sits(m) == member[m].exit = None /\ Present(m)
Departs(m) == /\ member[m].memberId
              /\ \/ member[m].exit \in {"check", "delete", "kick"}
                 \/ member[m].exit = None /\ ~Present(m)
Stray(m) == member[m].exit = "over" /\ ~Gone(m)
Opens(m) == member[m].starts /\ member[m].at \in {"prompt", "join"}
Quiet == \A m \in Members : ~Departs(m)

Consistent(m) ==
  LET r == member[m] IN
  /\ r.killed <=> r.exit # None
  /\ r.memberId => r.at \in {"read", "notify", "done"}
  /\ r.at \in {"out", "over"} => ~r.killed
  /\ r.at \in {"read", "notify"} => r.starts /\ ~r.killed /\ Present(m)
  /\ r.at = "done" => r.memberId \/ r.exit = "over"
  /\ r.exit \in {"check", "delete", "kick"} => r.at = "done" /\ r.memberId
  /\ r.starts => r.at \in {"prompt", "join", "read", "notify", "done"}
  /\ r.starts /\ r.at \in {"prompt", "join"} => ~r.killed
  /\ r.at \in {"add", "waiting"} => r.caller.waits
  /\ r.at \in {"out", "create", "retry", "add", "waiting", "moving"} => ~r.moved
  /\ r.at = "moving" => r.addr # None
  /\ \A s \in Servers : m \in room[s] => s = Here(m) /\ r.memberId

OneHost ==
  \A m \in Members : member[m].caller.ends =>
    ~member[m].caller.waits /\ \A o \in Members : member[o].caller.ends => o = m

(* While somebody is on the way out nobody else moves.                      *)
OthersSettled ==
  /\ \A m \in Members : Departs(m) => \A o \in Members : Settled(o) \/ Departs(o)
  /\ \A m \in Members : Stray(m) /\ member[m].caller.ends =>
       \A o \in Members \ {m} : Settled(o)
StrayIsKept == \A m \in Members : Stray(m) => \E o \in Members : Sits(o)

(* The hash, the rooms and those who arrive, when nobody departs.           *)
HashLeads ==
  Quiet => /\ \A s \in Servers : room[s] # {} => hash = s
           /\ hash # None => \E m \in Members : Sits(m) \/ Opens(m)
ArrivesAt(m) ==
  /\ member[m].at \in {"prompt", "join"} => hash = Here(m)
  /\ member[m].at = "moving" => hash = member[m].addr
  /\ member[m].at = "lookup" /\ member[m].moved => hash = Here(m)
Arrivals == Quiet => \A m \in Members : ArrivesAt(m)

(* When some depart: if all do, the last one deletes the hash; if not, it   *)
(* is one, who leaves the hash alone unless he takes the others with him.   *)
OneInUse == \A s, t \in Servers : room[s] # {} /\ room[t] # {} => s = t
Deletes(m) == Departs(m) /\ member[m].exit \in {None, "check", "delete"}
LastDeletes ==
  ~Quiet /\ (\A m \in Members : ~Sits(m)) =>
    hash = None \/ \E m \in Members : Deletes(m)
Spares(m, o) ==
  /\ Here(m) = Here(o)
  /\ member[m].caller.ends => Present(m)
  /\ ~member[m].caller.ends =>
       /\ hash = Here(m) /\ member[m].exit # "delete"
       /\ member[m].exit # "kick" => Remaining(m) # 0
OthersStay == \A m, o \in Members : Departs(m) /\ Sits(o) => Spares(m, o)
AllLeave ==
  \A m, o \in Members : Departs(m) /\ Departs(o) /\ m # o =>
    \A s \in Servers : room[s] = {}

(* The types of all but the history variable.                               *)
Typed ==
  /\ hash \in Servers \cup {None} /\ waitlist \subseteq Members
  /\ room \in [Servers -> SUBSET Members]
  /\ member \in [Members -> MemberStates]

IInv ==
  /\ Typed /\ OneHost /\ \A m \in Members : Consistent(m)
  /\ OthersSettled /\ StrayIsKept /\ HashLeads /\ Arrivals
  /\ OneInUse /\ LastDeletes /\ OthersStay /\ AllLeave

LEMMA InitInv ==
  ASSUME Tidy, Init
  PROVE  IInv
<1>1. PICK party \in Parties : member = [m \in Members |-> Verb(party[m], "out")]
  BY DEF Init
<1>2. \A m \in Members : party[m] \in Callers
  BY ConferenceAssumption
<1>3. \A m \in Members :
        /\ member[m].at = "out" /\ member[m].exit = None /\ member[m].caller = party[m]
        /\ ~member[m].moved /\ ~member[m].starts /\ ~member[m].killed
        /\ ~member[m].memberId
  BY <1>1 DEF Verb
<1>4. hash = None /\ \A s \in Servers : room[s] = {}
  BY DEF Init
<1>5. Typed
  BY <1>1, <1>2 DEF Init, Typed, Verb, MemberStates, Ats, Exits
<1>6. OneHost
  BY <1>1, <1>3 DEF Tidy, OneHost
<1>7. \A m \in Members : Here(m) \in Servers
  BY <1>2, <1>3 DEF Here, Callers
<1>8. \A m \in Members : ~Departs(m) /\ ~Stray(m) /\ ~Sits(m)
  BY <1>3, <1>4, <1>7 DEF Departs, Stray, Sits, Present, Room, None
<1>9. \A m \in Members : Consistent(m)
  BY <1>3, <1>4 DEF Consistent, None
<1>10. OthersSettled /\ StrayIsKept /\ Quiet
  BY <1>8 DEF OthersSettled, StrayIsKept, Quiet
<1>11. HashLeads /\ Arrivals
  BY <1>3, <1>4 DEF HashLeads, Arrivals, ArrivesAt
<1>12. OneInUse /\ LastDeletes /\ OthersStay /\ AllLeave
  BY <1>4, <1>8, <1>10 DEF OneInUse, LastDeletes, OthersStay, AllLeave
<1> QED
  BY <1>5, <1>6, <1>9, <1>10, <1>11, <1>12 DEF IInv

(* Nothing but the list of those to notify changes for a member.            *)
Same(o) ==
  LET r == member[o]
      s == member'[o]
  IN  /\ s.at = r.at /\ s.exit = r.exit /\ s.caller = r.caller /\ s.moved = r.moved
      /\ s.addr = r.addr /\ s.starts = r.starts /\ s.killed = r.killed
      /\ s.memberId = r.memberId

(* The same member in the same room means the same to everybody.            *)
LEMMA SameIs ==
  ASSUME NEW o, Same(o), room'[Here(o)] = room[Here(o)]
  PROVE  /\ Here(o)' = Here(o) /\ Room(o)' = Room(o) /\ (Present(o)' <=> Present(o))
         /\ (Gone(o)' <=> Gone(o)) /\ (Settled(o)' <=> Settled(o))
         /\ (Sits(o)' <=> Sits(o)) /\ (Departs(o)' <=> Departs(o)) /\ (Stray(o)' <=> Stray(o))
         /\ (Opens(o)' <=> Opens(o)) /\ Remaining(o)' = Remaining(o)
<1>1. Here(o)' = Here(o) /\ Room(o)' = Room(o) /\ (Present(o)' <=> Present(o))
  BY DEF Same, Here, Room, Present
<1>2. Remaining(o)' = Remaining(o)
  BY <1>1, Zenon DEF Remaining
<1>3. (Gone(o)' <=> Gone(o))
  BY DEF Same, Gone
<1>4. (Settled(o)' <=> Settled(o))
  BY <1>1, <1>3 DEF Same, Settled
<1>5. /\ (Sits(o)' <=> Sits(o)) /\ (Departs(o)' <=> Departs(o)) /\ (Stray(o)' <=> Stray(o))
      /\ (Opens(o)' <=> Opens(o))
  BY <1>1, <1>3 DEF Same, Sits, Departs, Stray, Opens
<1> QED
  BY <1>1, <1>2, <1>3, <1>4, <1>5

(* Somebody who is not a member, before and after, goes on.                 *)
LEMMA Moves ==
  ASSUME IInv, Typed', NEW m \in Members, UNCHANGED <<hash, room>>,
         \A o \in Members \ {m} : Same(o),
         Quiet, \A o \in Members \ {m} : Stray(o) => ~member[o].caller.ends,
         ~member[m].memberId, ~member'[m].memberId,
         member'[m].caller.ends = member[m].caller.ends,
         member'[m].caller.waits = member[m].caller.waits,
         Consistent(m)', ArrivesAt(m)',
         Stray(m)' => \E o \in Members : Sits(o),
         Stray(m)' /\ member[m].caller.ends => \A o \in Members \ {m} : Settled(o),
         Opens(m) => Opens(m)' \/ \E o \in Members : Sits(o)
  PROVE  IInv'
<1>1. \A o \in Members \ {m} :
         /\ Here(o)' = Here(o) /\ Room(o)' = Room(o) /\ (Present(o)' <=> Present(o))
         /\ (Settled(o)' <=> Settled(o))
         /\ (Sits(o)' <=> Sits(o)) /\ (Departs(o)' <=> Departs(o)) /\ (Stray(o)' <=> Stray(o))
         /\ (Opens(o)' <=> Opens(o)) /\ Remaining(o)' = Remaining(o)
  BY SameIs
<1>2. ~Departs(m) /\ ~Departs(m)'
  BY DEF Departs
<1>3. \A o \in Members : Here(o) \in Servers /\ Here(o)' \in Servers
  BY DEF IInv, Typed, MemberStates, Callers, Here
<1>4. ~Sits(m) /\ ~Sits(m)'
  BY <1>3 DEF Sits, IInv, Consistent, Present, Room
<1>5. \A o \in Members : (Sits(o)' <=> Sits(o))
  BY <1>1, <1>4
<1>6. Quiet'
  BY <1>1, <1>2 DEF Quiet
<1>7. \A o \in Members : Consistent(o)'
  <2> SUFFICES ASSUME NEW o \in Members \ {m} PROVE Consistent(o)'
    OBVIOUS
  <2> QED BY <1>1 DEF IInv, Consistent, Same
<1>8. OneHost'
  BY DEF IInv, OneHost, Same
<1>9. OthersSettled'
  BY <1>1, <1>6 DEF IInv, OthersSettled, Quiet, Same
<1>10. StrayIsKept'
  BY <1>1, <1>5 DEF IInv, StrayIsKept
<1>11. HashLeads'
  BY <1>1, <1>5 DEF IInv, HashLeads
<1>12. Arrivals'
  BY <1>1 DEF IInv, Arrivals, ArrivesAt, Same
<1>13. OneInUse' /\ LastDeletes' /\ OthersStay' /\ AllLeave'
  BY <1>6 DEF IInv, OneInUse, LastDeletes, OthersStay, AllLeave, Quiet
<1> QED
  BY <1>7, <1>8, <1>9, <1>10, <1>11, <1>12, <1>13 DEF IInv

------------------------------------------------------------------------------
(* Whoever departs or strays is not settled.                                *)
LEMMA Unsettled ==
  ASSUME IInv, NEW m \in Members
  PROVE  /\ Departs(m) \/ Stray(m) => ~Settled(m) /\ Leaving(m)
         /\ Departs(m) => ~Stray(m)
         /\ Present(m) /\ Settled(m) => Sits(m)
         /\ Present(m) => member[m].memberId
         /\ Sits(m) => member[m].memberId /\ member[m].at \in {"read", "notify", "done"}
         /\ member[m] \in MemberStates /\ Here(m) \in Servers
<1>1. Consistent(m) /\ member[m] \in MemberStates
  BY DEF IInv, Typed
<1>2. Here(m) \in Servers
  BY <1>1 DEF MemberStates, Callers, Here
<1>3. Present(m) => member[m].memberId
  BY <1>1, <1>2 DEF Consistent, Present, Room
<1>4. Departs(m) \/ Stray(m) => ~Settled(m) /\ Leaving(m)
  BY <1>1 DEF Consistent, Departs, Stray, Settled, Leaving, Gone, None
<1>5. Departs(m) => ~Stray(m)
  BY DEF Departs, Stray, None
<1>6. Present(m) /\ Settled(m) => Sits(m)
  BY <1>1, <1>3 DEF Consistent, Settled, Gone, Sits
<1> QED
  BY <1>1, <1>2, <1>3, <1>4, <1>5, <1>6 DEF Sits, Consistent

(* When somebody moves, nobody departs, and the host does not stray.        *)
LEMMA Undisturbed ==
  ASSUME IInv, NEW m \in Members, ~Settled(m), ~Departs(m)
  PROVE  Quiet /\ \A o \in Members \ {m} : Stray(o) => ~member[o].caller.ends
BY DEF IInv, OthersSettled, Quiet

(* When all others are settled, nobody departs nor strays but perhaps m.    *)
LEMMA SettledQuiet ==
  ASSUME IInv, NEW m \in Members, \A o \in Members \ {m} : Settled(o), ~Departs(m)
  PROVE  Quiet /\ \A o \in Members \ {m} : ~Stray(o)
BY Unsettled DEF Quiet

Arriving == {"lookup", "create", "retry", "add", "moving", "prompt", "join"}

LEMMA ArrivingIs ==
  ASSUME IInv, NEW m \in Members, member[m].at \in Arriving
  PROVE  /\ ~Settled(m) /\ ~Departs(m) /\ ~member[m].memberId /\ ~Gone(m)
         /\ Quiet /\ \A o \in Members \ {m} : Stray(o) => ~member[o].caller.ends
         /\ ArrivesAt(m)
<1>1. ~Settled(m) /\ ~Departs(m) /\ ~member[m].memberId /\ ~Gone(m)
  BY DEF IInv, Consistent, Settled, Gone, Departs, Arriving
<1> QED
  BY <1>1, Undisturbed DEF IInv, Arrivals

(* A caller who arrives takes a step.                                       *)
LEMMA MovesOn ==
  ASSUME IInv, NEW m \in Members, NEW r \in MemberStates, Sets(m, r),
         UNCHANGED <<hash, room>>, waitlist' \subseteq Members,
         member[m].at \in Arriving, r.at \in Arriving \cup {"waiting", "done"},
         r.exit = member[m].exit, r.killed = member[m].killed,
         r.starts = member[m].starts, ~r.memberId,
         r.caller.ends = member[m].caller.ends, r.caller.waits = member[m].caller.waits,
         r.starts => r.at \in {"prompt", "join"},
         r.at = "done" => r.exit = "over",
         r.at \in {"add", "waiting"} => r.caller.waits,
         r.at \in {"create", "retry", "add", "waiting", "moving"} => ~r.moved,
         r.at \in {"prompt", "join"} => hash = r.caller.server,
         r.at = "moving" => hash = r.addr /\ hash # None,
         r.at = "lookup" /\ r.moved => hash = r.caller.server
  PROVE  IInv'
<1>1. Typed'
  BY DEF IInv, Typed, Sets
<1>2. member'[m] = r /\ \A o \in Members \ {m} : member'[o] = member[o]
  BY DEF IInv, Typed, Sets
<1>3. \A o \in Members \ {m} : Same(o)
  BY <1>2 DEF Same
<1>4. ~Settled(m) /\ ~member[m].memberId /\ ~Gone(m) /\ Quiet
      /\ \A o \in Members \ {m} : Stray(o) => ~member[o].caller.ends
  BY ArrivingIs
<1>5. Consistent(m) /\ member[m].killed \in BOOLEAN
  BY DEF IInv, Typed, MemberStates
<1>6. Consistent(m)'
  BY <1>2, <1>4, <1>5 DEF Consistent, Arriving
<1>7. ArrivesAt(m)'
  BY <1>2 DEF ArrivesAt, Here
<1>8. Stray(m)' => Stray(m)
  BY <1>2, <1>4 DEF Stray
<1>9. Opens(m) => Opens(m)'
  BY <1>2 DEF Opens
<1> HIDE DEF Sets
<1> QED
  BY <1>1, <1>2, <1>3, <1>4, <1>6, <1>7, <1>8, <1>9, Moves
     DEF IInv, StrayIsKept, OthersSettled

(* A caller who is not a member gives up.                                   *)
LEMMA GivesUp ==
  ASSUME IInv, NEW m \in Members, Sets(m, Over(member[m])),
         UNCHANGED <<hash, room>>, waitlist' \subseteq Members,
         ~member[m].memberId,
         Quiet, \A o \in Members \ {m} : Stray(o) => ~member[o].caller.ends,
         Opens(m) => \E o \in Members : Sits(o)
  PROVE  IInv'
<1>1. member[m] \in MemberStates /\ Consistent(m)
  BY DEF IInv, Typed
<1> DEFINE r == Over(member[m])
<1>2. /\ r \in MemberStates /\ r.at = "over" /\ ~r.killed /\ r.exit = None
      /\ ~r.memberId /\ ~r.starts /\ r.caller = member[m].caller
  BY <1>1 DEF Over, Verb, MemberStates, Ats, Exits
<1>3. member' = [member EXCEPT ![m] = r]
  BY DEF Sets
<1> HIDE DEF r
<1>4. Typed'
  BY <1>2, <1>3 DEF IInv, Typed
<1>5. member'[m] = r /\ \A o \in Members \ {m} : member'[o] = member[o]
  BY <1>3 DEF IInv, Typed
<1>6. \A o \in Members \ {m} : Same(o)
  BY <1>5 DEF Same
<1>7. Consistent(m)' /\ ArrivesAt(m)' /\ ~Stray(m)'
  BY <1>1, <1>2, <1>5 DEF Consistent, ArrivesAt, Stray, Gone, None
<1> QED
  BY <1>2, <1>4, <1>5, <1>6, <1>7, Moves

LEMMA JoiningIs ==
  ASSUME NEW r \in MemberStates, NEW s \in Servers
  PROVE  LET j == Joining(r, s) IN
         /\ j \in MemberStates /\ j.at \in {"moving", "prompt", "join"}
         /\ j.exit = r.exit /\ j.killed = r.killed /\ j.starts = r.starts
         /\ j.memberId = r.memberId /\ j.caller = r.caller /\ j.moved = r.moved
         /\ j.at = "moving" => j.addr = s /\ ~r.moved /\ s # r.caller.server
         /\ j.at \in {"prompt", "join"} => s = r.caller.server \/ r.moved
<1> DEFINE m == [r EXCEPT !.at = "moving", !.addr = s]
           p == [r EXCEPT !.at = IF r.caller.prompt THEN "prompt" ELSE "join"]
<1>1. Joining(r, s) = IF s # r.caller.server /\ ~r.moved THEN m ELSE p
  BY DEF Joining
<1>2. /\ m \in MemberStates /\ m.at = "moving" /\ m.addr = s
      /\ m.exit = r.exit /\ m.killed = r.killed /\ m.starts = r.starts
      /\ m.memberId = r.memberId /\ m.caller = r.caller /\ m.moved = r.moved
  BY DEF MemberStates, Ats
<1>3. /\ p \in MemberStates /\ p.at \in {"prompt", "join"}
      /\ p.exit = r.exit /\ p.killed = r.killed /\ p.starts = r.starts
      /\ p.memberId = r.memberId /\ p.caller = r.caller /\ p.moved = r.moved
  BY DEF MemberStates, Ats
<1> HIDE DEF m, p
<1> QED
  BY <1>1, <1>2, <1>3

------------------------------------------------------------------------------
(* The steps of callers who arrive.                                         *)
LEMMA LookupInv ==
  ASSUME IInv, NEW m \in Members, RetrieveHash(m)
  PROVE  IInv'
<1>1. /\ member[m].at = "lookup" /\ UNCHANGED <<hash, waitlist, room>>
      /\ member[m] \in MemberStates /\ Consistent(m) /\ ArrivesAt(m)
      /\ ~member[m].memberId /\ ~member[m].starts /\ waitlist \subseteq Members
      /\ hash \in Servers \cup {None}
  BY ArrivingIs DEF RetrieveHash, IInv, Typed, Consistent, Arriving
<1>2. CASE hash # None
  <2> DEFINE j == Joining(member[m], hash)
  <2>1. /\ j \in MemberStates /\ j.at \in {"moving", "prompt", "join"}
        /\ j.exit = member[m].exit /\ j.killed = member[m].killed
        /\ j.starts = member[m].starts /\ j.memberId = member[m].memberId
        /\ j.caller = member[m].caller /\ j.moved = member[m].moved
        /\ j.at = "moving" => j.addr = hash /\ ~member[m].moved
        /\ j.at \in {"prompt", "join"} => hash = member[m].caller.server \/ member[m].moved
    BY <1>1, <1>2, JoiningIs
  <2>2. Sets(m, j)
    BY <1>2 DEF RetrieveHash
  <2> HIDE DEF j
  <2>3. j.at \in {"prompt", "join"} => hash = j.caller.server
    BY <1>1, <2>1 DEF ArrivesAt, Here
  <2> QED
    BY <1>1, <1>2, <2>1, <2>2, <2>3, MovesOn DEF Arriving
<1>3. CASE hash = None
  <2>1. PICK a \in {"add", "create"} :
          /\ Sets(m, [member[m] EXCEPT !.at = a])
          /\ a = "add" => member[m].caller.waits
    BY <1>3 DEF RetrieveHash
  <2> DEFINE r == [member[m] EXCEPT !.at = a]
  <2>2. /\ r \in MemberStates /\ r.at = a /\ r.exit = member[m].exit
        /\ r.killed = member[m].killed /\ r.starts = member[m].starts
        /\ r.memberId = member[m].memberId /\ r.caller = member[m].caller
        /\ r.moved = member[m].moved
    BY <1>1 DEF MemberStates, Ats
  <2>3. Sets(m, r)
    BY <2>1
  <2> HIDE DEF r
  <2>4. ~member[m].moved
    BY <1>1, <1>3, Unsettled, ConferenceAssumption DEF ArrivesAt
  <2> QED
    BY <1>1, <2>1, <2>2, <2>3, <2>4, MovesOn DEF Arriving
<1> QED BY <1>2, <1>3

LEMMA RetryInv ==
  ASSUME IInv, NEW m \in Members, RetrieveAgain(m)
  PROVE  IInv'
<1>1. /\ member[m].at = "retry" /\ UNCHANGED <<hash, waitlist, room>>
      /\ member[m] \in MemberStates /\ Consistent(m)
      /\ ~member[m].memberId /\ ~member[m].starts /\ ~member[m].moved
      /\ waitlist \subseteq Members /\ hash \in Servers \cup {None}
  BY ArrivingIs DEF RetrieveAgain, IInv, Typed, Consistent, Arriving
<1>2. CASE hash # None
  <2> DEFINE j == Joining(member[m], hash)
  <2>1. /\ j \in MemberStates /\ j.at \in {"moving", "prompt", "join"}
        /\ j.exit = member[m].exit /\ j.killed = member[m].killed
        /\ j.starts = member[m].starts /\ j.memberId = member[m].memberId
        /\ j.caller = member[m].caller /\ j.moved = member[m].moved
        /\ j.at = "moving" => j.addr = hash /\ ~member[m].moved
        /\ j.at \in {"prompt", "join"} => hash = member[m].caller.server \/ member[m].moved
    BY <1>1, <1>2, JoiningIs
  <2>2. Sets(m, j)
    BY <1>2 DEF RetrieveAgain
  <2> HIDE DEF j
  <2> QED
    BY <1>1, <1>2, <2>1, <2>2, MovesOn DEF Arriving
<1>3. CASE hash = None
  BY <1>1, <1>3, ArrivingIs, GivesUp DEF RetrieveAgain, Arriving, Opens
<1> QED BY <1>2, <1>3

LEMMA WaitListInv ==
  ASSUME IInv, NEW m \in Members, AddToWaitList(m) \/ Listens(m)
  PROVE  IInv'
<1>1. /\ member[m].at = "add" /\ UNCHANGED <<hash, room>>
      /\ member[m] \in MemberStates /\ Consistent(m)
      /\ ~member[m].memberId /\ ~member[m].starts
      /\ waitlist' \subseteq Members
  BY ArrivingIs DEF AddToWaitList, Listens, IInv, Typed, Consistent, Arriving
<1>2. PICK a \in {"add", "waiting"} : Sets(m, [member[m] EXCEPT !.at = a])
  <2>1. CASE AddToWaitList(m)
    <3>1. [member[m] EXCEPT !.at = "add"] = member[m]
      BY <1>1 DEF MemberStates
    <3>2. [member EXCEPT ![m] = member[m]] = member
      BY DEF IInv, Typed
    <3> QED BY <2>1, <3>1, <3>2 DEF AddToWaitList, Sets
  <2>2. CASE Listens(m)
    BY <2>2 DEF Listens
  <2> QED BY <2>1, <2>2
<1> DEFINE r == [member[m] EXCEPT !.at = a]
<1>3. /\ r \in MemberStates /\ r.at = a /\ r.exit = member[m].exit
      /\ r.killed = member[m].killed /\ r.starts = member[m].starts
      /\ r.memberId = member[m].memberId /\ r.caller = member[m].caller
      /\ r.moved = member[m].moved
  BY <1>1 DEF MemberStates, Ats
<1>4. Sets(m, r)
  BY <1>2
<1> HIDE DEF r
<1>5. ~member[m].moved /\ member[m].caller.waits
  BY <1>1 DEF Consistent
<1> QED
  BY <1>1, <1>3, <1>4, <1>5, MovesOn DEF Arriving

LEMMA ReferInv ==
  ASSUME IInv, NEW m \in Members, ReferSucceeds(m) \/ ReferFails(m)
  PROVE  IInv'
<1>1. /\ member[m].at = "moving" /\ UNCHANGED <<hash, waitlist, room>>
      /\ member[m] \in MemberStates /\ Consistent(m) /\ ArrivesAt(m)
      /\ ~member[m].memberId /\ ~member[m].starts
      /\ waitlist \subseteq Members
      /\ \A s \in Servers : m \notin room[s]
  BY ArrivingIs DEF ReferSucceeds, ReferFails, IInv, Typed, Consistent, Arriving
<1>2. CASE ReferFails(m)
  BY <1>1, <1>2, ArrivingIs, GivesUp DEF ReferFails, Arriving, Opens
<1>3. CASE ReferSucceeds(m)
  <2> DEFINE c == [member[m].caller EXCEPT !.server = member[m].addr]
             r == [Verb(c, "lookup") EXCEPT !.moved = TRUE]
  <2>1. CASE hash # None
    <3>1. hash = member[m].addr /\ hash \in Servers
      BY <1>1, <2>1 DEF ArrivesAt, IInv, Typed
    <3>2. /\ c \in Callers /\ c.ends = member[m].caller.ends
          /\ c.waits = member[m].caller.waits /\ c.server = hash
      BY <1>1, <3>1 DEF MemberStates, Callers
    <3>3. Sets(m, r)
      BY <1>3 DEF ReferSucceeds
    <3> HIDE DEF c
    <3>4. /\ r \in MemberStates /\ r.at = "lookup" /\ r.exit = None /\ ~r.killed
          /\ ~r.starts /\ ~r.memberId /\ r.caller = c /\ r.moved
      BY <3>2 DEF Verb, MemberStates, Ats, Exits
    <3>5. member[m].killed = FALSE /\ member[m].exit = None /\ member[m].starts = FALSE
      BY <1>1, <1>3 DEF ReferSucceeds, Consistent, MemberStates
    <3>6. r.killed = FALSE /\ r.starts = FALSE
      BY <3>4 DEF MemberStates
    <3> HIDE DEF r
    <3> QED
      BY <1>1, <3>2, <3>3, <3>4, <3>5, <3>6, MovesOn DEF Arriving
  <2>2. CASE hash = None
    BY <1>1, <2>2 DEF ArrivesAt, Consistent
  <2> QED BY <2>1, <2>2
<1> QED BY <1>2, <1>3

LEMMA PromptInv ==
  ASSUME IInv, NEW m \in Members, PromptEnds(m)
  PROVE  IInv'
<1>1. /\ member[m].at = "prompt" /\ UNCHANGED <<hash, waitlist, room>>
      /\ member[m] \in MemberStates /\ Consistent(m) /\ ArrivesAt(m)
      /\ ~member[m].memberId /\ waitlist \subseteq Members
  BY ArrivingIs DEF PromptEnds, IInv, Typed, Consistent, Arriving
<1>2. PICK a \in {"done", "join"} :
        /\ Sets(m, [member[m] EXCEPT !.at = a])
        /\ a = "done" => member[m].killed
  BY <1>1 DEF PromptEnds, Then, Consistent
<1> DEFINE r == [member[m] EXCEPT !.at = a]
<1>3. /\ r \in MemberStates /\ r.at = a /\ r.exit = member[m].exit
      /\ r.killed = member[m].killed /\ r.starts = member[m].starts
      /\ r.memberId = member[m].memberId /\ r.caller = member[m].caller
      /\ r.moved = member[m].moved
  BY <1>1 DEF MemberStates, Ats
<1>4. Sets(m, r)
  BY <1>2
<1> HIDE DEF r
<1>5. /\ a = "done" => ~member[m].starts /\ member[m].exit = "over"
      /\ hash = member[m].caller.server
  BY <1>1, <1>2 DEF Consistent, ArrivesAt, Here, MemberStates, Exits
<1> QED
  BY <1>1, <1>2, <1>3, <1>4, <1>5, MovesOn DEF Arriving

(* A join fails only while others are in the room.                          *)
LEMMA JoinFailsInv ==
  ASSUME IInv, ~Overlap, NEW m \in Members, JoinFails(m)
  PROVE  IInv'
<1>1. member[m].at = "join" /\ UNCHANGED <<hash, waitlist, room>>
      /\ ~member[m].memberId /\ waitlist \subseteq Members
  BY ArrivingIs DEF JoinFails, IInv, Typed, Arriving
<1>2. PICK o \in Members \ {m} : Present(o)
  BY DEF JoinFails
<1>3. \E p \in Members : Sits(p)
  <2>1. CASE Sits(o)
    BY <2>1
  <2>2. CASE ~Sits(o)
    <3>1. ~Departs(o) /\ ~Settled(m) /\ ~Departs(m)
      BY <1>1, ArrivingIs DEF Quiet, Arriving
    <3>2. member[o].exit = "over" /\ member[o].at \in {"read", "notify", "done"}
      BY <1>2, <2>2, <3>1, Unsettled
         DEF IInv, Consistent, Departs, Sits, MemberStates, Exits
    <3>3. Stray(o)
      BY <3>2 DEF Stray, Gone
    <3> QED BY <3>3 DEF IInv, StrayIsKept
  <2> QED BY <2>1, <2>2
<1> QED
  BY <1>1, <1>3, ArrivingIs, GivesUp DEF JoinFails, Arriving

(* He finds no hash in redis: he is the one who starts the conference.      *)
LEMMA CreateInv ==
  ASSUME IInv, NEW m \in Members, CreateHash(m)
  PROVE  IInv'
<1>1. /\ member[m].at = "create" /\ UNCHANGED <<waitlist, room>>
      /\ member[m] \in MemberStates /\ Consistent(m)
      /\ ~member[m].memberId /\ ~member[m].starts /\ ~member[m].moved /\ ~Gone(m)
      /\ ~Departs(m) /\ Quiet /\ waitlist \subseteq Members
  BY ArrivingIs DEF CreateHash, IInv, Typed, Consistent, Arriving
<1>2. CASE hash # None
  <2> DEFINE r == [member[m] EXCEPT !.at = "retry"]
  <2>1. /\ r \in MemberStates /\ r.at = "retry" /\ r.exit = member[m].exit
        /\ r.killed = member[m].killed /\ r.starts = member[m].starts
        /\ r.memberId = member[m].memberId /\ r.caller = member[m].caller
        /\ r.moved = member[m].moved
    BY <1>1 DEF MemberStates, Ats
  <2>2. Sets(m, r) /\ UNCHANGED hash
    BY <1>2 DEF CreateHash
  <2> HIDE DEF r
  <2> QED
    BY <1>1, <2>1, <2>2, MovesOn DEF Arriving
<1>3. CASE hash = None
  <2>1. \A s \in Servers : room[s] = {}
    BY <1>1, <1>3, ConferenceAssumption DEF IInv, HashLeads
  <2>2. \A o \in Members : ~Sits(o) /\ ~Present(o)
    BY <2>1, Unsettled DEF Sits, Present, Room
  <2>3. \A o \in Members : ~Stray(o)
    BY <2>2 DEF IInv, StrayIsKept
  <2>4. ~member[m].killed /\ member[m].exit = None
    BY <1>1, <2>3 DEF Consistent, Stray, MemberStates, Exits
  <2> DEFINE q == [member[m] EXCEPT !.starts = TRUE]
             r == Joining(q, Here(m))
  <2>5. /\ q \in MemberStates /\ q.exit = None /\ ~q.killed /\ q.starts
        /\ ~q.memberId /\ q.caller = member[m].caller /\ ~q.moved
    BY <1>1, <2>4 DEF MemberStates
  <2>6. /\ member' = [member EXCEPT ![m] = r] /\ hash' = Here(m)
        /\ UNCHANGED <<waitlist, room>>
    BY <1>3 DEF CreateHash, Sets, Starting, Here
  <2> HIDE DEF q
  <2>7. /\ r \in MemberStates /\ r.at \in {"prompt", "join"}
        /\ r.exit = None /\ ~r.killed /\ r.starts
        /\ ~r.memberId /\ r.caller = member[m].caller /\ ~r.moved
    BY <2>5, JoiningIs, Unsettled DEF Here
  <2> HIDE DEF r
  <2>8. Typed'
    BY <2>6, <2>7, Unsettled DEF IInv, Typed
  <2>9. member'[m] = r /\ \A o \in Members \ {m} : member'[o] = member[o]
    BY <2>6 DEF IInv, Typed
  <2>10. \A o \in Members \ {m} : Same(o)
    BY <2>9 DEF Same
  <2>11. \A o \in Members \ {m} :
           /\ Here(o)' = Here(o) /\ (Settled(o)' <=> Settled(o))
           /\ (Present(o)' <=> Present(o))
           /\ (Departs(o)' <=> Departs(o)) /\ (Stray(o)' <=> Stray(o))
    BY <2>6, <2>10, SameIs
  <2>12. ~Departs(m)' /\ ~Stray(m)' /\ Opens(m)' /\ Here(m)' = Here(m)
    BY <2>7, <2>9 DEF Departs, Stray, Opens, Here, None
  <2>13. Quiet' /\ \A o \in Members : ~Stray(o)'
    BY <1>1, <2>3, <2>11, <2>12 DEF Quiet
  <2>14. \A o \in Members : Consistent(o)'
    <3>1. Consistent(m)'
      BY <1>1, <2>1, <2>6, <2>7, <2>9 DEF Consistent, None
    <3>2. ASSUME NEW o \in Members \ {m} PROVE Consistent(o)'
      BY <2>6, <2>9, <2>11 DEF IInv, Consistent
    <3> QED BY <3>1, <3>2
  <2>15. OneHost' /\ OthersSettled' /\ StrayIsKept'
    BY <2>7, <2>9, <2>13 DEF IInv, OneHost, OthersSettled, StrayIsKept, Quiet
  <2>16. HashLeads'
    BY <2>1, <2>6, <2>12 DEF HashLeads
  <2>17. Arrivals'
    <3>1. ASSUME NEW o \in Members \ {m} PROVE ArrivesAt(o)'
      <4>1. /\ member[o].at \notin {"prompt", "join", "moving"}
            /\ ~(member[o].at = "lookup" /\ member[o].moved)
        BY <1>1, <1>3, Unsettled, ConferenceAssumption
           DEF IInv, Arrivals, ArrivesAt, Consistent
      <4> QED BY <2>9, <4>1 DEF ArrivesAt
    <3>2. ArrivesAt(m)'
      BY <2>6, <2>7, <2>9, <2>12 DEF ArrivesAt
    <3> QED BY <3>1, <3>2 DEF Arrivals
  <2>18. OneInUse' /\ LastDeletes' /\ OthersStay' /\ AllLeave'
    BY <2>6, <2>13 DEF IInv, OneInUse, LastDeletes, OthersStay, AllLeave, Quiet
  <2> QED
    BY <2>8, <2>14, <2>15, <2>16, <2>17, <2>18 DEF IInv
<1> QED BY <1>2, <1>3

(* He enters only while nobody leaves.                                      *)
LEMMA EnterInv ==
  ASSUME IInv, ~Overlap, NEW m \in Members, Enter(m)
  PROVE  IInv'
<1> DEFINE r == [member[m] EXCEPT !.at = "lookup"]
<1>1. /\ member[m].at = "out" /\ UNCHANGED <<hash, room>>
      /\ waitlist' = waitlist /\ member[m] \in MemberStates /\ Consistent(m)
      /\ Sets(m, r)
  BY DEF Enter, IInv, Typed
<1>2. /\ r \in MemberStates /\ r.at = "lookup" /\ r.exit = member[m].exit
      /\ r.killed = member[m].killed /\ r.starts = member[m].starts
      /\ r.memberId = member[m].memberId /\ r.caller = member[m].caller
      /\ r.moved = member[m].moved
  BY <1>1 DEF MemberStates, Ats
<1> HIDE DEF r
<1>3. member'[m] = r /\ \A o \in Members \ {m} : member'[o] = member[o]
  BY <1>1 DEF IInv, Typed, Sets
<1>4. Typed'
  BY <1>1, <1>2 DEF IInv, Typed, Sets
<1>5. \A o \in Members \ {m} : Same(o)
  BY <1>3 DEF Same
<1>6. Quiet /\ \A o \in Members : ~Stray(o)
  BY Unsettled DEF Enter, Quiet
<1>7. ~member[m].memberId /\ ~member[m].moved /\ ~member[m].killed /\ ~member[m].starts
      /\ member[m].exit = None
  BY <1>1 DEF Consistent
<1>8. Consistent(m)' /\ ArrivesAt(m)'
  BY <1>1, <1>2, <1>3, <1>7 DEF Consistent, ArrivesAt
<1>9. ~Stray(m)' /\ ~Opens(m)
  BY <1>1, <1>2, <1>3, <1>7 DEF Stray, Opens, None
<1> QED
  BY <1>1, <1>2, <1>3, <1>4, <1>5, <1>6, <1>7, <1>8, <1>9, Moves

------------------------------------------------------------------------------
(* The steps of the one who starts the conference, once he has joined.      *)
LEMMA HostIs ==
  ASSUME IInv, NEW m \in Members, member[m].at \in {"read", "notify"}
  PROVE  /\ Sits(m) /\ ~Settled(m) /\ ~Departs(m) /\ ~Stray(m)
         /\ Quiet /\ \A o \in Members \ {m} : Stray(o) => ~member[o].caller.ends
         /\ hash = Here(m) /\ member[m].starts /\ member[m].memberId
<1>1. /\ ~Settled(m) /\ Sits(m) /\ ~Departs(m) /\ ~Stray(m)
      /\ member[m].starts /\ member[m].memberId
  BY Unsettled
     DEF IInv, Consistent, Settled, Gone, Sits, Departs, Stray, None, Typed, MemberStates
<1>2. Room(m) # {} /\ Here(m) \in Servers
  BY <1>1, Unsettled DEF Sits, Present
<1> QED
  BY <1>1, <1>2, Undisturbed DEF IInv, HashLeads, Room

LEMMA Proceeds ==
  ASSUME IInv, Typed', NEW m \in Members, UNCHANGED <<hash, room>>,
         member[m].at \in {"read", "notify"},
         \A o \in Members \ {m} : Same(o),
         member'[m].at \in {"notify", "done"}, member'[m].exit = member[m].exit,
         member'[m].caller = member[m].caller, member'[m].starts = member[m].starts,
         member'[m].killed = member[m].killed, member'[m].memberId = member[m].memberId
  PROVE  IInv'
<1>1. \A o \in Members \ {m} :
         /\ Here(o)' = Here(o) /\ Room(o)' = Room(o) /\ (Present(o)' <=> Present(o))
         /\ (Settled(o)' <=> Settled(o))
         /\ (Sits(o)' <=> Sits(o)) /\ (Departs(o)' <=> Departs(o)) /\ (Stray(o)' <=> Stray(o))
         /\ (Opens(o)' <=> Opens(o))
  BY SameIs
<1>2. /\ Sits(m) /\ ~Settled(m) /\ ~Departs(m) /\ ~Stray(m)
      /\ Quiet /\ \A o \in Members \ {m} : Stray(o) => ~member[o].caller.ends
      /\ member[m].starts /\ member[m].memberId
  BY HostIs
<1>3. Here(m)' = Here(m) /\ (Present(m)' <=> Present(m))
  BY DEF Here, Present, Room
<1>4. Sits(m)' /\ ~Departs(m)' /\ ~Stray(m)'
  BY <1>2, <1>3 DEF Sits, Departs, Stray, None
<1>5. \A o \in Members : (Sits(o)' <=> Sits(o))
  BY <1>1, <1>2, <1>4
<1>6. Quiet'
  BY <1>1, <1>2, <1>4 DEF Quiet
<1>7. \A o \in Members : Consistent(o)'
  <2>1. ASSUME NEW o \in Members \ {m} PROVE Consistent(o)'
    BY <1>1 DEF IInv, Consistent, Same
  <2>2. Consistent(m)'
    <3>1. Consistent(m) /\ Present(m)
      BY <1>2 DEF IInv, Sits
    <3> QED BY <1>2, <1>3, <3>1 DEF Consistent
  <2> QED BY <2>1, <2>2
<1>8. OneHost'
  BY DEF IInv, OneHost, Same
<1>9. OthersSettled'
  BY <1>1, <1>2, <1>4, <1>6 DEF OthersSettled, Quiet, Same
<1>10. StrayIsKept'
  BY <1>2, <1>4 DEF StrayIsKept
<1>11. HashLeads'
  BY <1>1, <1>2, <1>5, <1>4 DEF IInv, HashLeads
<1>12. Arrivals'
  BY <1>1, <1>2 DEF IInv, Arrivals, ArrivesAt, Same
<1>13. OneInUse' /\ LastDeletes' /\ OthersStay' /\ AllLeave'
  BY <1>6 DEF IInv, OneInUse, LastDeletes, OthersStay, AllLeave, Quiet
<1> QED
  BY <1>7, <1>8, <1>9, <1>10, <1>11, <1>12, <1>13 DEF IInv

LEMMA ReadInv ==
  ASSUME IInv, NEW m \in Members, RetrieveSet(m) \/ ClearWaitList(m)
  PROVE  IInv'
<1>1. PICK a \in {"notify", "done"}, t \in SUBSET Members :
        Sets(m, [member[m] EXCEPT !.at = a, !.todo = t])
  <2>1. CASE RetrieveSet(m)
    BY <2>1 DEF RetrieveSet, IInv, Typed
  <2>2. CASE ClearWaitList(m)
    <3>1. member[m] \in MemberStates
      BY DEF IInv, Typed
    <3>2. [member[m] EXCEPT !.at = "done"]
            = [member[m] EXCEPT !.at = "done", !.todo = member[m].todo]
      BY <3>1 DEF MemberStates
    <3> QED BY <2>2, <3>1, <3>2 DEF ClearWaitList, MemberStates
  <2> QED BY <2>1, <2>2
<1>2. /\ UNCHANGED <<hash, room>> /\ member[m].at \in {"read", "notify"}
      /\ waitlist' \subseteq Members /\ member[m] \in MemberStates
  BY DEF RetrieveSet, ClearWaitList, IInv, Typed
<1> DEFINE r == [member[m] EXCEPT !.at = a, !.todo = t]
<1>3. /\ r \in MemberStates /\ r.at = a /\ r.exit = member[m].exit
      /\ r.killed = member[m].killed /\ r.starts = member[m].starts
      /\ r.memberId = member[m].memberId /\ r.caller = member[m].caller
  BY <1>2 DEF MemberStates, Ats
<1>4. Sets(m, r)
  BY <1>1
<1> HIDE DEF r
<1>5. member'[m] = r /\ \A o \in Members \ {m} : member'[o] = member[o]
  BY <1>4 DEF IInv, Typed, Sets
<1>6. Typed'
  BY <1>2, <1>3, <1>4 DEF IInv, Typed, Sets
<1>7. \A o \in Members \ {m} : Same(o)
  BY <1>5 DEF Same
<1> QED
  BY <1>2, <1>3, <1>5, <1>6, <1>7, Proceeds

(* Everybody else is where he was.                                          *)
LEMMA NotifyInv ==
  ASSUME IInv, NEW m \in Members, Notify(m)
  PROVE  IInv'
<1>1. /\ member[m].at = "notify" /\ UNCHANGED <<hash, waitlist, room>>
      /\ waitlist \subseteq Members /\ member[m] \in MemberStates
  BY DEF Notify, IInv, Typed
<1>2. PICK w \in member[m].todo :
        member' = [member EXCEPT ![m].todo = @ \ {w}, ![w] = Called(@, Here(m))]
  BY DEF Notify
<1>3. w \in Members /\ member[w] \in MemberStates /\ Here(m) \in Servers
  BY <1>1, Unsettled DEF MemberStates, IInv, Typed
<1> DEFINE q == [member[m] EXCEPT !.todo = @ \ {w}]
           r == Joining(member[w], Here(m))
<1>4. /\ q \in MemberStates /\ q.at = "notify" /\ q.exit = member[m].exit
      /\ q.killed = member[m].killed /\ q.starts = member[m].starts
      /\ q.memberId = member[m].memberId /\ q.caller = member[m].caller
      /\ q.moved = member[m].moved /\ q.addr = member[m].addr
  BY <1>1 DEF MemberStates
<1>5. CASE member[w].at # "waiting"
  <2>1. member' = [member EXCEPT ![m] = q]
    <3>1. CASE w = m
      BY <1>1, <1>2, <1>3, <1>4, <1>5, <3>1 DEF IInv, Typed, Called, MemberStates
    <3>2. CASE w # m
      BY <1>1, <1>2, <1>3, <1>4, <1>5, <3>2 DEF IInv, Typed, Called
    <3> QED BY <3>1, <3>2
  <2> HIDE DEF q
  <2>2. member'[m] = q /\ \A o \in Members \ {m} : member'[o] = member[o]
    BY <2>1 DEF IInv, Typed
  <2>3. Typed'
    BY <1>1, <1>4, <2>1 DEF IInv, Typed
  <2>4. \A o \in Members \ {m} : Same(o)
    BY <2>2 DEF Same
  <2> QED
    BY <1>1, <1>4, <2>2, <2>3, <2>4, Proceeds
<1>6. CASE member[w].at = "waiting"
  <2>1. w # m /\ Consistent(w)
    BY <1>1, <1>3, <1>6 DEF IInv
  <2>2. member' = [member EXCEPT ![m] = q, ![w] = r]
    BY <1>1, <1>2, <1>3, <1>6, <2>1 DEF IInv, Typed, Called
  <2>3. /\ r \in MemberStates /\ r.at \in {"moving", "prompt", "join"}
        /\ r.exit = member[w].exit /\ r.killed = member[w].killed
        /\ r.starts = member[w].starts /\ r.memberId = member[w].memberId
        /\ r.caller = member[w].caller /\ r.moved = member[w].moved
        /\ r.at = "moving" => r.addr = Here(m)
        /\ r.at \in {"prompt", "join"} => Here(m) = member[w].caller.server \/ member[w].moved
    BY <1>3, JoiningIs
  <2> HIDE DEF q, r
  <2>4. /\ member'[m] = q /\ member'[w] = r
        /\ \A o \in Members \ {m, w} : member'[o] = member[o]
    BY <1>3, <2>1, <2>2 DEF IInv, Typed
  <2>5. Typed'
    BY <1>1, <1>3, <1>4, <2>2, <2>3 DEF IInv, Typed
  <2>6. \A o \in Members \ {w} : Same(o)
    BY <1>1, <1>4, <2>4 DEF Same
  <2>7. /\ Sits(m) /\ ~Stray(m) /\ Quiet /\ hash = Here(m)
        /\ \A o \in Members \ {m} : Stray(o) => ~member[o].caller.ends
    BY <1>1, HostIs
  <2>8. ~member[w].caller.ends
    BY <1>3, <1>6, <2>1 DEF Consistent, IInv, OneHost
  <2>9. ~member[w].memberId /\ ~member[w].starts /\ ~member[w].moved /\ ~Opens(w)
    BY <1>6, <2>1 DEF Consistent, Opens
  <2>10. Consistent(w)'
    BY <1>1, <1>3, <2>1, <2>3, <2>4, <2>9, ConferenceAssumption DEF Consistent
  <2>11. ArrivesAt(w)'
    BY <1>1, <2>3, <2>4, <2>7, <2>9 DEF ArrivesAt, Here
  <2> QED
    BY <1>1, <1>3, <2>3, <2>4, <2>5, <2>6, <2>7, <2>8, <2>9, <2>10, <2>11, Moves
<1> QED BY <1>5, <1>6

(* The same member, present or not as before, means the same to everybody.  *)
LEMMA StillIs ==
  ASSUME NEW o, Same(o), Present(o)' <=> Present(o)
  PROVE  /\ Here(o)' = Here(o) /\ (Gone(o)' <=> Gone(o)) /\ (Settled(o)' <=> Settled(o))
         /\ (Sits(o)' <=> Sits(o)) /\ (Departs(o)' <=> Departs(o)) /\ (Stray(o)' <=> Stray(o))
         /\ (Opens(o)' <=> Opens(o)) /\ (Deletes(o)' <=> Deletes(o))
<1>1. Here(o)' = Here(o)
  BY DEF Same, Here
<1>2. Gone(o)' <=> Gone(o)
  BY DEF Same, Gone
<1>3. Settled(o)' <=> Settled(o)
  BY <1>2 DEF Same, Settled
<1>4. (Departs(o)' <=> Departs(o)) /\ (Deletes(o)' <=> Deletes(o))
  BY DEF Same, Departs, Deletes
<1> QED
  BY <1>1, <1>2, <1>3, <1>4 DEF Same, Sits, Stray, Opens

(* He is a member: he sits in the room that the hash leads to, or is a      *)
(* stray that others keep company.                                          *)
LEMMA JoinedInv ==
  ASSUME IInv, NEW m \in Members, Joined(m)
  PROVE  IInv'
<1>1. /\ member[m].at = "join" /\ UNCHANGED <<hash, waitlist>>
      /\ waitlist \subseteq Members /\ member[m] \in MemberStates /\ Consistent(m)
      /\ room' = [room EXCEPT ![Here(m)] = @ \cup {m}] /\ Here(m) \in Servers
  BY Unsettled DEF Joined, IInv, Typed
<1>2. /\ ~Settled(m) /\ ~Departs(m) /\ ~member[m].memberId /\ ~Gone(m) /\ Quiet
      /\ \A o \in Members \ {m} : Stray(o) => ~member[o].caller.ends
      /\ hash = Here(m)
  BY <1>1, ArrivingIs DEF Arriving, ArrivesAt
<1> DEFINE r == [Then(member[m]) EXCEPT !.memberId = TRUE]
<1>3. /\ r \in MemberStates /\ r.at = (IF member[m].starts THEN "read" ELSE "done")
      /\ r.exit = member[m].exit /\ r.killed = member[m].killed
      /\ r.starts = member[m].starts /\ r.memberId /\ r.caller = member[m].caller
  BY <1>1 DEF MemberStates, Ats, Then
<1>4. Sets(m, r)
  BY DEF Joined
<1> HIDE DEF r
<1>5. member'[m] = r /\ \A o \in Members \ {m} : member'[o] = member[o]
  BY <1>4 DEF IInv, Typed, Sets
<1>6. Typed'
  BY <1>1, <1>3, <1>4 DEF IInv, Typed, Sets
<1>7. \A s \in Servers : room'[s] = IF s = Here(m) THEN room[s] \cup {m} ELSE room[s]
  BY <1>1 DEF IInv, Typed
<1>8. ASSUME NEW o \in Members \ {m}
      PROVE  /\ Same(o) /\ Here(o)' = Here(o) /\ (Present(o)' <=> Present(o))
             /\ (Settled(o)' <=> Settled(o)) /\ (Sits(o)' <=> Sits(o))
             /\ (Departs(o)' <=> Departs(o)) /\ (Stray(o)' <=> Stray(o))
  <2>1. Same(o) /\ Here(o)' = Here(o) /\ Here(o) \in Servers
    BY <1>5, Unsettled DEF Same, Here
  <2>2. Present(o)' <=> Present(o)
    BY <1>7, <2>1 DEF Present, Room
  <2> QED BY <2>1, <2>2, StillIs
<1>9. Here(m)' = Here(m) /\ Present(m)'
  BY <1>1, <1>3, <1>5, <1>7 DEF Here, Present, Room
<1>10. ~Departs(m)' /\ (Sits(m)' \/ (Stray(m) /\ Stray(m)'))
       /\ (Stray(m)' => Stray(m))
  BY <1>1, <1>2, <1>3, <1>5, <1>9
     DEF Consistent, Departs, Sits, Stray, Gone, MemberStates, Exits, None
<1>11. Quiet' /\ \E o \in Members : Sits(o)'
  <2>1. Quiet'
    BY <1>2, <1>8, <1>10 DEF Quiet
  <2>2. ~Sits(m)
    BY <1>2, Unsettled DEF Sits
  <2>3. \E o \in Members : Sits(o)'
    BY <1>8, <1>10, <2>2 DEF IInv, StrayIsKept
  <2> QED BY <2>1, <2>3
<1>12. \A o \in Members : Consistent(o)'
  <2>1. ASSUME NEW o \in Members \ {m} PROVE Consistent(o)'
    BY <1>5, <1>7, <1>8 DEF IInv, Consistent
  <2>2. Consistent(m)'
    <3>1. \A s \in Servers : m \notin room[s]
      BY <1>1, <1>2 DEF Consistent
    <3> QED BY <1>1, <1>3, <1>5, <1>7, <1>9, <3>1 DEF Consistent
  <2> QED BY <2>1, <2>2
<1>13. OneHost'
  BY <1>3, <1>5 DEF IInv, OneHost
<1>14. OthersSettled'
  BY <1>2, <1>3, <1>5, <1>8, <1>10, <1>11 DEF IInv, OthersSettled, Quiet
<1>15. StrayIsKept'
  BY <1>11 DEF StrayIsKept
<1>16. HashLeads'
  BY <1>1, <1>2, <1>7, <1>11 DEF IInv, HashLeads
<1>17. Arrivals'
  <2>1. ArrivesAt(m)'
    BY <1>3, <1>5 DEF ArrivesAt
  <2> QED
    BY <1>1, <1>2, <1>5, <1>8, <2>1 DEF IInv, Arrivals, ArrivesAt
<1>18. OneInUse'
  BY <1>2, <1>7 DEF IInv, HashLeads, OneInUse
<1>19. LastDeletes' /\ OthersStay' /\ AllLeave'
  BY <1>11 DEF LastDeletes, OthersStay, AllLeave, Quiet
<1> QED
  BY <1>6, <1>12, <1>13, <1>14, <1>15, <1>16, <1>17, <1>18, <1>19 DEF IInv

------------------------------------------------------------------------------
(* The first of the settled members leaves: his step only takes him out of  *)
(* the others' room, if he is not in it for the time being.                 *)
LEMMA StartsLeaving ==
  ASSUME IInv, Typed', NEW m \in Members, hash' = hash,
         Sits(m), Settled(m), \A o \in Members \ {m} : Settled(o) /\ Same(o),
         \A s \in Servers : room'[s] = room[s] \/ room'[s] = room[s] \ {m},
         Departs(m)', member'[m].exit # "delete", member'[m].exit # "kick",
         member'[m].caller = member[m].caller, Consistent(m)',
         member[m].caller.ends => Present(m)',
         (\E o \in Members \ {m} : Sits(o)) => Remaining(m)' # 0
  PROVE  IInv'
<1>1. Quiet /\ \A o \in Members : ~Stray(o)
  BY Unsettled DEF Quiet
<1>2. Here(m)' = Here(m) /\ \A o \in Members : Here(o) \in Servers
  BY Unsettled DEF Here
<1>3. ASSUME NEW o \in Members \ {m}
      PROVE  /\ Here(o)' = Here(o) /\ (Present(o)' <=> Present(o))
             /\ Settled(o)' /\ (Sits(o)' <=> Sits(o))
             /\ ~Departs(o)' /\ ~Stray(o)'
  <2>1. Same(o) /\ Here(o)' = Here(o)
    BY DEF Same, Here
  <2>2. Present(o)' <=> Present(o)
    BY <1>2, <2>1 DEF Present, Room
  <2> QED BY <1>1, <2>1, <2>2, StillIs DEF Quiet
<1>4. ~Stray(m)' /\ ~Sits(m)'
  BY DEF Departs, Stray, Sits, None
<1>5. ~Quiet' /\ Deletes(m)'
  <2>1. member'[m].exit \in Exits
    BY DEF Typed, MemberStates
  <2> QED BY <2>1 DEF Quiet, Departs, Deletes
<1>6. \A o \in Members : Consistent(o)'
  BY <1>3 DEF IInv, Consistent, Same
<1>7. OneHost'
  BY DEF IInv, OneHost, Same
<1>8. OthersSettled' /\ StrayIsKept'
  BY <1>3, <1>4 DEF OthersSettled, StrayIsKept
<1>9. HashLeads' /\ Arrivals' /\ LastDeletes'
  BY <1>5 DEF HashLeads, Arrivals, LastDeletes
<1>10. OneInUse'
  BY DEF IInv, OneInUse
<1>11. AllLeave'
  BY <1>3 DEF AllLeave
<1>12. OthersStay'
  <2> SUFFICES ASSUME NEW o \in Members, Sits(o)' PROVE Spares(m, o)'
    BY <1>3 DEF OthersStay
  <2>1. o # m /\ Sits(o) /\ Here(o)' = Here(o)
    BY <1>3, <1>4
  <2>2. room[Here(o)] # {} /\ room[Here(m)] # {}
    BY <2>1 DEF Sits, Present, Room
  <2>3. Here(m) = Here(o) /\ hash = Here(m)
    BY <1>1, <1>2, <2>2 DEF IInv, OneInUse, HashLeads
  <2> QED BY <1>2, <2>1, <2>3 DEF Spares
<1> QED
  BY <1>6, <1>7, <1>8, <1>9, <1>10, <1>11, <1>12 DEF IInv

(* Two members or more: somebody remains when one of them is not counted.   *)
LEMMA Counting ==
  ASSUME Typed, NEW m \in Members, Here(m) \in Servers
  PROVE  /\ IsFiniteSet(Room(m)) /\ Cardinality(Room(m)) \in Nat
         /\ Remaining(m) = 0 <=> Room(m) = {} \/ \E o \in Members : Room(m) = {o}
<1>1. Room(m) \subseteq Members
  BY DEF Typed, Room
<1>2. IsFiniteSet(Room(m)) /\ Cardinality(Room(m)) \in Nat
  BY <1>1, ConferenceAssumption, FS_Subset, FS_CardinalityType
<1>3. Cardinality(Room(m)) = 0 <=> Room(m) = {}
  BY <1>2, FS_EmptySet
<1>4. Cardinality(Room(m)) = 1 <=> \E o : Room(m) = {o}
  BY <1>2, FS_Singleton
<1>5. Remaining(m) = 0 <=> Room(m) = {} \/ Cardinality(Room(m)) = 1
  BY <1>2, <1>3, SMT DEF Remaining
<1> QED
  BY <1>1, <1>2, <1>4, <1>5

LEMMA HangsUpInv ==
  ASSUME IInv, ~Overlap, NEW m \in Members, HangsUp(m)
  PROVE  IInv'
<1>1. /\ UNCHANGED <<hash, room>> /\ waitlist' \subseteq Members
      /\ member[m] \in MemberStates /\ Consistent(m) /\ Here(m) \in Servers
      /\ ~member[m].killed /\ member[m].exit = None
      /\ member[m].memberId => Present(m)
      /\ \A o \in Members \ {m} : Settled(o)
      /\ Settled(m) \/ (~member[m].starts /\ \E o \in Members \ {m} : Present(o))
      /\ member[m].at \notin {"out", "over"}
      /\ Sets(m, Killed(member[m]))
  BY Unsettled DEF HangsUp, MayLeave, IInv, Typed
<1>2. ~Departs(m) /\ Quiet /\ \A o \in Members \ {m} : ~Stray(o)
  BY <1>1, SettledQuiet DEF Departs, None
<1>3. CASE member[m].at = "waiting"
  <2>1. ~member[m].memberId /\ ~Opens(m) /\ Sets(m, Over(member[m]))
    BY <1>1, <1>3 DEF Consistent, Opens, Killed
  <2> QED BY <1>1, <1>2, <2>1, GivesUp
<1>4. CASE member[m].at # "waiting"
  <2>1. PICK e \in {"check", "over"} :
          /\ Sets(m, [member[m] EXCEPT !.killed = TRUE, !.exit = e])
          /\ e = "check" <=> member[m].memberId
    BY <1>1, <1>4 DEF Killed
  <2> DEFINE r == [member[m] EXCEPT !.killed = TRUE, !.exit = e]
  <2>2. /\ r \in MemberStates /\ r.at = member[m].at /\ r.exit = e /\ r.killed
        /\ r.starts = member[m].starts /\ r.memberId = member[m].memberId
        /\ r.caller = member[m].caller /\ r.moved = member[m].moved
        /\ r.addr = member[m].addr
    BY <1>1 DEF MemberStates, Exits
  <2>3. Sets(m, r)
    BY <2>1
  <2> HIDE DEF r
  <2>4. member'[m] = r /\ \A o \in Members \ {m} : member'[o] = member[o]
    BY <2>3 DEF IInv, Typed, Sets
  <2>5. Typed'
    BY <1>1, <2>2, <2>3 DEF IInv, Typed, Sets
  <2>6. \A o \in Members \ {m} : Same(o)
    BY <2>4 DEF Same
  <2>7. CASE ~member[m].memberId
    <3>1. ~Settled(m)
      BY <1>1, <1>4, <2>7 DEF Settled, Gone, Consistent, None
    <3>2. ~member[m].starts /\ \E o \in Members : Sits(o)
      BY <1>1, <3>1, Unsettled
    <3>3. Consistent(m)'
      <4>1. \A s \in Servers : m \notin room[s]
        BY <1>1, <2>7 DEF Consistent
      <4>2. e = "over" /\ member[m].at \notin {"read", "notify", "out", "over"}
        BY <1>1, <2>1, <2>7, <3>2 DEF Consistent
      <4> QED BY <1>1, <2>2, <2>4, <2>7, <3>2, <4>1, <4>2 DEF Consistent, None
    <3>4. ArrivesAt(m)'
      BY <1>1, <1>2, <2>2, <2>4 DEF IInv, Arrivals, ArrivesAt, Here
    <3>5. ~Opens(m)
      BY <3>2 DEF Opens
    <3> QED
      BY <1>1, <1>2, <2>2, <2>4, <2>5, <2>6, <2>7, <3>2, <3>3, <3>4, <3>5, Moves
  <2>8. CASE member[m].memberId
    <3>1. Present(m) /\ Sits(m) /\ e = "check"
      BY <1>1, <2>1, <2>8 DEF Sits
    <3>2. member[m].at = "done" /\ Settled(m)
      BY <1>1, <2>8, <3>1 DEF Consistent, Settled, Gone
    <3>3. Here(m)' = Here(m) /\ Present(m)' /\ Room(m)' = Room(m)
      BY <1>1, <2>2, <2>4, <3>1 DEF Here, Present, Room
    <3>4. Departs(m)'
      BY <2>2, <2>4, <2>8, <3>1 DEF Departs
    <3>5. Consistent(m)'
      BY <1>1, <2>2, <2>4, <2>8, <3>1, <3>2, <3>3 DEF Consistent, None
    <3>6. ASSUME NEW o \in Members \ {m}, Sits(o) PROVE Remaining(m)' # 0
      <4>1. Room(m) # {} /\ Room(o) # {} /\ Here(o) \in Servers
        BY <3>1, <3>6, Unsettled DEF Present, Sits
      <4>2. o \in Room(m) /\ m \in Room(m)
        BY <1>1, <3>1, <3>6, <4>1 DEF Present, Sits, Room, IInv, OneInUse
      <4>3. Remaining(m) # 0
        <5>1. \A p \in Members : Room(m) # {p}
          BY <4>2
        <5> QED BY <1>1, <4>1, <5>1, Counting DEF IInv
      <4>4. Remaining(m)' = Remaining(m)
        BY <3>3, Zenon DEF Remaining
      <4> QED BY <4>3, <4>4
    <3> QED
      BY <1>1, <2>2, <2>4, <2>5, <2>6, <3>1, <3>2, <3>3, <3>4, <3>5, <3>6, StartsLeaving
  <2> QED BY <2>7, <2>8
<1> QED BY <1>3, <1>4

------------------------------------------------------------------------------
(* Those who depart.                                                        *)
LEMMA DepartingIs ==
  ASSUME IInv, NEW m \in Members, Departs(m)
  PROVE  /\ member[m].at = "done" /\ member[m].memberId
         /\ ~Settled(m) /\ ~Sits(m) /\ ~Stray(m) /\ ~Quiet
         /\ member[m].exit \in {None, "check", "delete", "kick"}
         /\ \A o \in Members : Settled(o) \/ Departs(o)
         /\ \A o \in Members : Stray(o) => ~member[o].caller.ends
<1>1. Consistent(m)
  BY DEF IInv
<1>2. member[m].at = "done" /\ member[m].memberId
  BY <1>1 DEF Departs, Consistent, None
<1>3. ~Settled(m) /\ ~Stray(m) /\ ~Quiet /\ ~Sits(m)
  BY Unsettled DEF Departs, Quiet, Sits, None
<1> QED
  BY <1>2, <1>3 DEF IInv, OthersSettled, Departs, Stray

(* Without others who stay, the room of one who departs has nobody else.    *)
LEMMA NobodyElse ==
  ASSUME IInv, NEW m \in Members, Departs(m), \A o \in Members : ~Sits(o)
  PROVE  Remaining(m) = 0
<1>1. Here(m) \in Servers
  BY Unsettled
<1>2. ASSUME NEW o \in Room(m) PROVE o = m
  <2>1. o \in Members /\ Present(o)
    BY <1>1 DEF IInv, Typed, Room, Consistent, Present
  <2>2. Settled(o) \/ Departs(o)
    BY <2>1, DepartingIs
  <2>3. Departs(o)
    BY <2>1, <2>2, Unsettled
  <2> QED
    BY <1>1, <2>1, <2>3 DEF IInv, AllLeave, Room
<1> QED
  BY <1>1, <1>2, Counting DEF IInv

(* One of them goes a step further.                                         *)
LEMMA GoesOn ==
  ASSUME IInv, Typed', NEW m \in Members, Departs(m), Departs(m)', UNCHANGED room,
         \A o \in Members \ {m} : Same(o),
         member'[m].caller = member[m].caller, Consistent(m)',
         (\A o \in Members : ~Sits(o)) =>
           hash' = None \/ (hash' = hash /\ (Deletes(m) => Deletes(m)')),
         \A o \in Members : Sits(o) /\ Spares(m, o) => Spares(m, o)'
  PROVE  IInv'
<1>1. /\ ~Settled(m) /\ ~Sits(m) /\ ~Stray(m)
      /\ \A o \in Members : Settled(o) \/ Departs(o)
      /\ \A o \in Members : Stray(o) => ~member[o].caller.ends
  BY DepartingIs
<1>2. \A o \in Members \ {m} :
        /\ Here(o)' = Here(o) /\ (Present(o)' <=> Present(o))
        /\ (Settled(o)' <=> Settled(o)) /\ (Sits(o)' <=> Sits(o))
        /\ (Departs(o)' <=> Departs(o)) /\ (Stray(o)' <=> Stray(o))
        /\ (Deletes(o)' <=> Deletes(o))
  BY SameIs, StillIs
<1>3. ~Stray(m)' /\ ~Sits(m)' /\ ~Quiet'
  BY DEF Departs, Stray, Sits, Quiet, None
<1>4. \A o \in Members : Consistent(o)'
  BY <1>2 DEF IInv, Consistent, Same
<1>5. OneHost'
  BY DEF IInv, OneHost, Same
<1>6. \A o \in Members : (Stray(o)' <=> Stray(o)) /\ (Sits(o)' <=> Sits(o))
                         /\ (Departs(o)' <=> Departs(o))
  BY <1>1, <1>2, <1>3
<1>7. OthersSettled'
  BY <1>1, <1>2, <1>6 DEF OthersSettled, Same
<1>8. StrayIsKept' /\ AllLeave' /\ OneInUse' /\ HashLeads' /\ Arrivals'
  BY <1>3, <1>6 DEF IInv, StrayIsKept, AllLeave, OneInUse, HashLeads, Arrivals
<1>9. LastDeletes'
  BY <1>2, <1>3, <1>6, DepartingIs DEF IInv, LastDeletes
<1>10. OthersStay'
  <2> SUFFICES ASSUME NEW d \in Members, NEW o \in Members, Departs(d)', Sits(o)'
               PROVE  Spares(d, o)'
    BY DEF OthersStay
  <2>1. Departs(d) /\ Sits(o) /\ Here(o) \in Servers
    BY <1>6, Unsettled
  <2>2. d = m
    BY <2>1 DEF IInv, AllLeave, Sits, Present, Room
  <2> QED BY <2>1, <2>2 DEF IInv, OthersStay
<1> QED
  BY <1>4, <1>5, <1>7, <1>8, <1>9, <1>10 DEF IInv

LEMMA ExitingIs ==
  ASSUME IInv, NEW m \in Members, Departs(m), NEW e \in {"check", "delete", "kick"},
         Sets(m, [member[m] EXCEPT !.killed = TRUE, !.exit = e]),
         UNCHANGED <<waitlist, room>>, hash' \in Servers \cup {None}
  PROVE  /\ Typed' /\ Departs(m)' /\ Consistent(m)'
         /\ \A o \in Members \ {m} : Same(o)
         /\ member'[m].caller = member[m].caller /\ member'[m].exit = e
         /\ Here(m)' = Here(m) /\ (Present(m)' <=> Present(m))
         /\ Remaining(m)' = Remaining(m)
         /\ \A o \in Members : Sits(o) => o # m /\ Here(o)' = Here(o)
<1> DEFINE r == [member[m] EXCEPT !.killed = TRUE, !.exit = e]
<1>1. member[m] \in MemberStates /\ Consistent(m) /\ waitlist \subseteq Members
  BY DEF IInv, Typed
<1>2. /\ r \in MemberStates /\ r.at = member[m].at /\ r.exit = e /\ r.killed
      /\ r.starts = member[m].starts /\ r.memberId = member[m].memberId
      /\ r.caller = member[m].caller /\ r.moved = member[m].moved
      /\ r.addr = member[m].addr
  BY <1>1 DEF MemberStates, Exits
<1> HIDE DEF r
<1>3. member' = [member EXCEPT ![m] = r]
  BY DEF Sets, r
<1>4. member'[m] = r /\ \A o \in Members \ {m} : member'[o] = member[o]
  BY <1>3 DEF IInv, Typed
<1>5. Typed'
  BY <1>2, <1>3 DEF IInv, Typed
<1>6. \A o \in Members \ {m} : Same(o)
  BY <1>4 DEF Same
<1>7. Here(m)' = Here(m) /\ (Present(m)' <=> Present(m)) /\ Room(m)' = Room(m)
  BY <1>2, <1>4 DEF Here, Present, Room
<1>8. Remaining(m)' = Remaining(m)
  BY <1>7, Zenon DEF Remaining
<1>9. member[m].at = "done" /\ member[m].memberId /\ ~Sits(m)
  BY DepartingIs
<1>10. Departs(m)'
  BY <1>2, <1>4, <1>9 DEF Departs
<1>11. Consistent(m)'
  BY <1>1, <1>2, <1>4, <1>7, <1>9 DEF Consistent, None
<1>12. \A o \in Members : Sits(o) => o # m /\ Here(o)' = Here(o)
  BY <1>4, <1>9 DEF Here
<1> QED
  BY <1>2, <1>4, <1>5, <1>6, <1>7, <1>8, <1>10, <1>11, <1>12

LEMMA DroppedInv ==
  ASSUME IInv, NEW m \in Members, Dropped(m)
  PROVE  IInv'
<1>1. /\ Departs(m) /\ UNCHANGED <<hash, waitlist, room>> /\ member[m].at = "done"
      /\ member[m].exit = None /\ ~Present(m) /\ hash \in Servers \cup {None}
  BY DepartingIs DEF Dropped, Departs, IInv, Typed
<1>2. Sets(m, [member[m] EXCEPT !.killed = TRUE, !.exit = "check"])
  BY <1>1 DEF Dropped, Killed
<1>3. /\ Typed' /\ Departs(m)' /\ Consistent(m)'
      /\ \A o \in Members \ {m} : Same(o)
      /\ member'[m].caller = member[m].caller /\ member'[m].exit = "check"
      /\ Here(m)' = Here(m) /\ Remaining(m)' = Remaining(m)
      /\ \A o \in Members : Sits(o) => Here(o)' = Here(o)
  BY <1>1, <1>2, ExitingIs
<1>4. Deletes(m)'
  BY <1>3 DEF Deletes
<1>5. \A o \in Members : Sits(o) /\ Spares(m, o) => Spares(m, o)'
  <2> SUFFICES ASSUME NEW o \in Members, Sits(o), Spares(m, o) PROVE Spares(m, o)'
    OBVIOUS
  <2>1. Here(o)' = Here(o)
    BY <1>3
  <2> QED BY <1>1, <1>3, <2>1 DEF Spares, None
<1> QED
  BY <1>1, <1>3, <1>4, <1>5, GoesOn

LEMMA ExitsIs ==
  ASSUME IInv, NEW m \in Members, member[m].exit \in {"check", "delete", "kick"}
  PROVE  /\ Departs(m) /\ member[m].at = "done" /\ member[m].memberId
         /\ \A e : [member[m] EXCEPT !.exit = e]
                     = [member[m] EXCEPT !.killed = TRUE, !.exit = e]
<1>1. member[m] \in MemberStates /\ Consistent(m)
  BY DEF IInv, Typed
<1>2. Departs(m) /\ member[m].at = "done" /\ member[m].memberId
  BY <1>1 DEF Consistent, Departs
<1>3. member[m].killed = TRUE
  BY <1>1 DEF Consistent, MemberStates, None
<1> QED
  BY <1>1, <1>2, <1>3 DEF MemberStates

(* The last one finds no others and deletes the hash; while others stay he  *)
(* does so only if he ends the conference for them.                         *)
LEMMA CheckInv ==
  ASSUME IInv, NEW m \in Members, Check(m)
  PROVE  IInv'
<1>1. /\ Departs(m) /\ UNCHANGED <<hash, waitlist, room>> /\ hash \in Servers \cup {None}
      /\ member[m].exit = "check"
      /\ \A e : [member[m] EXCEPT !.exit = e]
                  = [member[m] EXCEPT !.killed = TRUE, !.exit = e]
  BY ExitsIs DEF Check, IInv, Typed
<1>2. PICK e \in {"delete", "kick"} :
        /\ Sets(m, [member[m] EXCEPT !.exit = e])
        /\ e = "delete" <=> Remaining(m) = 0 \/ member[m].caller.ends
  BY DEF Check
<1>3. Sets(m, [member[m] EXCEPT !.killed = TRUE, !.exit = e])
  BY <1>1, <1>2
<1>4. /\ Typed' /\ Departs(m)' /\ Consistent(m)'
      /\ \A o \in Members \ {m} : Same(o)
      /\ member'[m].caller = member[m].caller /\ member'[m].exit = e
      /\ Here(m)' = Here(m) /\ Remaining(m)' = Remaining(m)
      /\ (Present(m)' <=> Present(m))
      /\ \A o \in Members : Sits(o) => Here(o)' = Here(o)
  BY <1>1, <1>3, ExitingIs
<1>5. (\A o \in Members : ~Sits(o)) => Deletes(m)'
  BY <1>1, <1>2, <1>4, NobodyElse DEF Deletes
<1>6. \A o \in Members : Sits(o) /\ Spares(m, o) => Spares(m, o)'
  <2> SUFFICES ASSUME NEW o \in Members, Sits(o), Spares(m, o) PROVE Spares(m, o)'
    OBVIOUS
  <2>1. Here(o)' = Here(o)
    BY <1>4
  <2> QED BY <1>1, <1>2, <1>4, <2>1 DEF Spares
<1> QED
  BY <1>1, <1>4, <1>5, <1>6, GoesOn

LEMMA DeleteHashInv ==
  ASSUME IInv, NEW m \in Members, DeleteHash(m)
  PROVE  IInv'
<1>1. /\ Departs(m) /\ UNCHANGED <<waitlist, room>> /\ hash' = None
      /\ member[m].exit = "delete"
      /\ \A e : [member[m] EXCEPT !.exit = e]
                  = [member[m] EXCEPT !.killed = TRUE, !.exit = e]
  BY ExitsIs DEF DeleteHash
<1>2. Sets(m, [member[m] EXCEPT !.killed = TRUE, !.exit = "kick"])
  BY <1>1 DEF DeleteHash
<1>3. /\ Typed' /\ Departs(m)' /\ Consistent(m)'
      /\ \A o \in Members \ {m} : Same(o)
      /\ member'[m].caller = member[m].caller
      /\ Here(m)' = Here(m) /\ (Present(m)' <=> Present(m))
      /\ \A o \in Members : Sits(o) => Here(o)' = Here(o)
  BY <1>1, <1>2, ExitingIs
<1>4. \A o \in Members : Sits(o) /\ Spares(m, o) => Spares(m, o)'
  <2> SUFFICES ASSUME NEW o \in Members, Sits(o), Spares(m, o) PROVE Spares(m, o)'
    OBVIOUS
  <2>1. Here(o)' = Here(o)
    BY <1>3
  <2> QED BY <1>1, <1>3, <2>1 DEF Spares
<1> QED
  BY <1>1, <1>3, <1>4, GoesOn

------------------------------------------------------------------------------
(* What the media server does when a member leaves.                         *)
LEMMA LeaveIs ==
  ASSUME IInv, NEW m \in Members, Leave(m)
  PROVE  /\ room' \in [Servers -> SUBSET Members]
         /\ Present(m) /\ member[m].caller.ends => \A s \in Servers : room'[s] = {}
         /\ ~(Present(m) /\ member[m].caller.ends) =>
              \A s \in Servers : room'[s] = room[s] \ {m}
<1>1. /\ Here(m) \in Servers /\ room \in [Servers -> SUBSET Members]
      /\ Consistent(m) /\ Left(m) \subseteq Room(m)
  BY Unsettled DEF IInv, Typed, Left
<1>2. room' = [room EXCEPT ![Here(m)] = Left(m)]
  BY DEF Leave
<1>3. room' \in [Servers -> SUBSET Members]
  BY <1>1, <1>2 DEF Room
<1>4. ASSUME Present(m), member[m].caller.ends, NEW s \in Servers
      PROVE  room'[s] = {}
  <2>1. \A o \in Room(m) \ {m} : ~member[o].caller.ends
    BY <1>1, <1>4 DEF IInv, OneHost, Room, Typed
  <2>2. Left(m) = {}
    BY <1>4, <2>1 DEF Left, Present
  <2>3. s # Here(m) => room[s] = {}
    BY <1>1, <1>4 DEF IInv, OneInUse, Present, Room
  <2> QED BY <1>1, <1>2, <2>2, <2>3
<1>5. ASSUME ~(Present(m) /\ member[m].caller.ends), NEW s \in Servers
      PROVE  room'[s] = room[s] \ {m}
  <2>1. Left(m) = Room(m) \ {m}
    BY <1>5 DEF Left, Present
  <2>2. s # Here(m) => m \notin room[s]
    BY <1>1 DEF Consistent
  <2> QED BY <1>1, <1>2, <2>1, <2>2 DEF Room
<1> QED
  BY <1>3, <1>4, <1>5

(* The conference ends for all: whoever sat in it departs, if anybody did,  *)
(* and deletes the hash.                                                    *)
LEMMA Empties ==
  ASSUME IInv, Typed', NEW m \in Members, hash' = hash,
         \A s \in Servers : room'[s] = {},
         \A o \in Members \ {m} : Settled(o) /\ Same(o),
         member'[m].caller = member[m].caller, Consistent(m)', ArrivesAt(m)',
         Settled(m)' \/ Departs(m)', ~Stray(m)',
         hash = None \/ Deletes(m)' \/ \E o \in Members \ {m} : Sits(o)
  PROVE  IInv'
<1>1. \A o \in Members : ~Present(o)' /\ ~Sits(o)'
  BY Unsettled DEF Present, Room, Sits, Here, Typed, MemberStates, Callers
<1>2. ASSUME NEW o \in Members \ {m}
      PROVE  /\ Settled(o)' \/ Departs(o)'
             /\ Sits(o) => Deletes(o)'
             /\ ~Stray(o)' /\ Consistent(o)' /\ ArrivesAt(o)'
  <2>1. Same(o) /\ Settled(o) /\ Consistent(o) /\ ~Stray(o)
    BY Unsettled DEF IInv
  <2>2. ~Stray(o)'
    BY <2>1 DEF Same, Stray, Gone
  <2>3. Consistent(o)'
    BY <2>1 DEF Same, Consistent, Settled, Gone
  <2>4. ArrivesAt(o)'
    BY <2>1 DEF Same, ArrivesAt, Settled, Gone
  <2>5. Sits(o) => Deletes(o)' /\ Departs(o)'
    BY <1>1, <2>1, Unsettled DEF Same, Sits, Deletes, Departs
  <2>6. ~Sits(o) => Settled(o)'
    BY <2>1 DEF Same, Sits, Settled, Gone
  <2> QED BY <2>2, <2>3, <2>4, <2>5, <2>6
<1>3. \A o \in Members : Consistent(o)'
  BY <1>2
<1>4. OneHost'
  BY DEF IInv, OneHost, Same
<1>5. OthersSettled' /\ StrayIsKept'
  BY <1>2 DEF OthersSettled, StrayIsKept
<1>6. hash' = None \/ \E o \in Members : Deletes(o)'
  BY <1>2
<1>7. HashLeads'
  BY <1>6 DEF HashLeads, Quiet, Deletes
<1>8. Arrivals' /\ LastDeletes'
  BY <1>2, <1>6 DEF Arrivals, LastDeletes
<1>9. OneInUse' /\ OthersStay' /\ AllLeave'
  BY <1>1 DEF OneInUse, OthersStay, AllLeave
<1> QED
  BY <1>3, <1>4, <1>5, <1>7, <1>8, <1>9 DEF IInv

LEMMA KickInv ==
  ASSUME IInv, ~Overlap, NEW m \in Members, Kick(m), ~miscounted'
  PROVE  IInv'
<1>1. /\ Present(m) /\ ~member[m].killed /\ Leave(m) /\ UNCHANGED <<hash, waitlist, member>>
      /\ Consistent(m) /\ Here(m) \in Servers /\ Cardinality(Left(m)) # 1
      /\ \A o \in Members \ {m} : Settled(o)
      /\ Settled(m) \/ ~member[m].starts
  BY Unsettled DEF Kick, MayLeave, IInv
<1>2. /\ Sits(m) /\ member[m].memberId /\ member[m].exit = None
      /\ member[m].at = "done" /\ Settled(m)
  BY <1>1, Unsettled DEF Consistent, Sits, Settled, Gone
<1>3. Typed' /\ \A o \in Members : Same(o) /\ Here(o)' = Here(o)
  BY <1>1, LeaveIs DEF IInv, Typed, Same, Here
<1>4. /\ member[m].caller.ends => \A s \in Servers : room'[s] = {}
      /\ ~member[m].caller.ends => \A s \in Servers : room'[s] = room[s] \ {m}
  BY <1>1, LeaveIs
<1>5. ~Present(m)'
  BY <1>1, <1>3, <1>4 DEF Present, Room
<1>6. Departs(m)' /\ Deletes(m)' /\ ~Stray(m)'
  BY <1>1, <1>2, <1>5 DEF Departs, Deletes, Stray, None
<1>7. Consistent(m)'
  BY <1>1, <1>2, <1>3, <1>4 DEF Consistent
<1>8. CASE member[m].caller.ends
  <2>1. ArrivesAt(m)'
    BY <1>1, <1>2 DEF ArrivesAt
  <2> QED BY <1>1, <1>3, <1>4, <1>6, <1>7, <1>8, <2>1, Empties
<1>9. CASE ~member[m].caller.ends
  <2>1. ASSUME NEW o \in Members \ {m}, Sits(o) PROVE Remaining(m)' # 0
    <3>1. Room(m) # {} /\ Room(o) # {} /\ Here(o) \in Servers
      BY <1>1, <2>1, Unsettled DEF Present, Sits
    <3>2. o \in Room(m) /\ m \in Room(m) /\ Room(m) \subseteq Members
      BY <1>1, <2>1, <3>1 DEF Present, Sits, Room, IInv, OneInUse, Typed
    <3>3. IsFiniteSet(Room(m)) /\ Cardinality(Room(m)) \in Nat
      BY <1>1, Counting DEF IInv
    <3>4. Room(m)' = Room(m) \ {m}
      BY <1>1, <1>3, <1>4, <1>9 DEF Room
    <3>5. IsFiniteSet(Room(m)') /\ Cardinality(Room(m)') = Cardinality(Room(m)) - 1
      BY <3>2, <3>3, <3>4, FS_RemoveElement
    <3>6. Room(m)' # {} /\ Cardinality(Room(m)') # 1
      <4>1. Left(m) = Room(m) \ {m}
        BY <1>9 DEF Left
      <4> QED BY <1>1, <3>2, <3>4, <4>1
    <3>7. Cardinality(Room(m)') \in Nat /\ Cardinality(Room(m)') # 0
      BY <3>5, <3>6, FS_CardinalityType, FS_EmptySet
    <3> QED BY <3>6, <3>7 DEF Remaining
  <2> QED
    BY <1>1, <1>2, <1>3, <1>4, <1>6, <1>7, <1>9, <2>1, StartsLeaving DEF None
<1> QED BY <1>8, <1>9

(* A caller is over who was one of those who depart, or a stray.            *)
LEMMA OverIs ==
  ASSUME IInv, NEW m \in Members, Leave(m), Sets(m, Over(member[m])), UNCHANGED waitlist,
         hash' = hash
  PROVE  /\ Typed' /\ Consistent(m)' /\ ArrivesAt(m)'
         /\ Settled(m)' /\ ~Stray(m)' /\ ~Departs(m)' /\ ~Sits(m)'
         /\ member'[m].caller = member[m].caller
         /\ \A o \in Members \ {m} : Same(o)
<1>1. member[m] \in MemberStates /\ Here(m) \in Servers /\ Consistent(m)
      /\ room' \in [Servers -> SUBSET Members]
  BY LeaveIs, Unsettled DEF IInv, Typed
<1> DEFINE r == Over(member[m])
<1>2. /\ r \in MemberStates /\ r.at = "over" /\ ~r.killed /\ r.exit = None
      /\ ~r.memberId /\ ~r.starts /\ r.caller = member[m].caller
  BY <1>1 DEF Over, Verb, MemberStates, Ats, Exits
<1>3. member' = [member EXCEPT ![m] = r]
  BY DEF Sets
<1> HIDE DEF r
<1>4. Typed'
  BY <1>1, <1>2, <1>3 DEF IInv, Typed
<1>5. member'[m] = r /\ \A o \in Members \ {m} : member'[o] = member[o]
  BY <1>3 DEF IInv, Typed
<1>6. \A o \in Members \ {m} : Same(o)
  BY <1>5 DEF Same
<1>7. \A s \in Servers : m \notin room'[s]
  BY <1>1, LeaveIs
<1>8. Here(m)' = Here(m) /\ ~Present(m)'
  BY <1>1, <1>2, <1>5, <1>7 DEF Here, Present, Room
<1>9. Consistent(m)' /\ ArrivesAt(m)' /\ Settled(m)' /\ ~Stray(m)' /\ ~Departs(m)'
  BY <1>2, <1>5, <1>7 DEF Consistent, ArrivesAt, Settled, Stray, Departs, Gone, None
<1> QED
  BY <1>2, <1>4, <1>5, <1>6, <1>8, <1>9 DEF Sits

(* What is left for the others when he leaves them alone.                   *)
LEMMA Remainder ==
  ASSUME IInv, NEW m \in Members, Leave(m), ~(Present(m) /\ member[m].caller.ends),
         NEW o \in Members \ {m}, Same(o)
  PROVE  /\ Here(o)' = Here(o) /\ (Present(o)' <=> Present(o))
         /\ (Settled(o)' <=> Settled(o)) /\ (Sits(o)' <=> Sits(o))
         /\ (Departs(o)' <=> Departs(o)) /\ (Stray(o)' <=> Stray(o))
         /\ (Deletes(o)' <=> Deletes(o)) /\ (Opens(o)' <=> Opens(o))
         /\ Consistent(o)'
<1>1. Here(o) \in Servers /\ \A s \in Servers : room'[s] = room[s] \ {m}
  BY LeaveIs, Unsettled
<1>2. Here(o)' = Here(o)
  BY DEF Same, Here
<1>3. Present(o)' <=> Present(o)
  BY <1>1, <1>2 DEF Present, Room
<1>4. Consistent(o)'
  BY <1>1, <1>2, <1>3 DEF Same, Consistent, IInv
<1> QED
  BY <1>2, <1>3, <1>4, StillIs

LEMMA KickSelfInv ==
  ASSUME IInv, NEW m \in Members, KickSelf(m)
  PROVE  IInv'
<1>1. /\ Departs(m) /\ UNCHANGED <<hash, waitlist>> /\ Leave(m)
      /\ member[m].exit = "kick" /\ Sets(m, Over(member[m])) /\ Here(m) \in Servers
  BY ExitsIs, Unsettled DEF KickSelf
<1>2. /\ Typed' /\ Consistent(m)' /\ ArrivesAt(m)'
      /\ Settled(m)' /\ ~Stray(m)' /\ ~Departs(m)' /\ ~Sits(m)'
      /\ member'[m].caller = member[m].caller
      /\ \A o \in Members \ {m} : Same(o)
  BY <1>1, OverIs
<1>3. /\ ~Deletes(m) /\ ~Sits(m) /\ ~Quiet
      /\ \A o \in Members : Settled(o) \/ Departs(o)
      /\ \A o \in Members : Stray(o) => ~member[o].caller.ends
  BY <1>1, DepartingIs DEF Deletes, None
<1>4. CASE Present(m) /\ member[m].caller.ends
  <2>1. \A o \in Members \ {m} : Settled(o)
    BY <1>1, <1>3, <1>4 DEF IInv, AllLeave, Present, Room
  <2>2. \A o \in Members \ {m} : ~Departs(o)
    BY <2>1, DepartingIs
  <2>3. hash = None \/ \E o \in Members \ {m} : Sits(o)
    BY <1>3, <2>2 DEF IInv, LastDeletes, Deletes
  <2>4. \A s \in Servers : room'[s] = {}
    BY <1>1, <1>4, LeaveIs
  <2> QED BY <1>1, <1>2, <2>1, <2>3, <2>4, Empties
<1>5. CASE ~(Present(m) /\ member[m].caller.ends)
  <2>1. \A o \in Members \ {m} :
          /\ Here(o)' = Here(o) /\ (Present(o)' <=> Present(o))
          /\ (Settled(o)' <=> Settled(o)) /\ (Sits(o)' <=> Sits(o))
          /\ (Departs(o)' <=> Departs(o)) /\ (Stray(o)' <=> Stray(o))
          /\ (Deletes(o)' <=> Deletes(o)) /\ Consistent(o)'
    BY <1>1, <1>2, <1>5, Remainder
  <2>2. \A s \in Servers : room'[s] = room[s] \ {m}
    BY <1>1, <1>5, LeaveIs
  <2>3. \A o \in Members : Consistent(o)' /\ (Sits(o)' <=> Sits(o))
    BY <1>2, <1>3, <2>1
  <2>4. OneHost'
    BY <1>2 DEF IInv, OneHost, Same
  <2>5. OthersSettled' /\ StrayIsKept'
    <3>1. \A o \in Members : Stray(o)' => Stray(o) /\ ~member[o].caller.ends
                                          /\ ~member'[o].caller.ends
      BY <1>2, <1>3, <2>1 DEF Same
    <3>2. \A o \in Members : Settled(o)' \/ Departs(o)'
      BY <1>2, <1>3, <2>1
    <3> QED BY <2>3, <3>1, <3>2 DEF IInv, OthersSettled, StrayIsKept
  <2>6. OneInUse'
    BY <2>2 DEF IInv, OneInUse
  <2>7. CASE \E d \in Members \ {m} : Departs(d)
    <3>1. \A s \in Servers : room[s] = {} /\ room'[s] = {}
      BY <1>1, <2>2, <2>7 DEF IInv, AllLeave
    <3>2. \A o \in Members : ~Sits(o) /\ ~Sits(o)'
      BY <2>3, <3>1, Unsettled DEF Sits, Present, Room
    <3>3. hash = None \/ \E d \in Members \ {m} : Deletes(d)
      BY <1>3, <3>2 DEF IInv, LastDeletes
    <3>4. LastDeletes' /\ OthersStay' /\ AllLeave'
      BY <1>1, <2>1, <3>1, <3>2, <3>3 DEF LastDeletes, OthersStay, AllLeave
    <3>5. ~Quiet'
      BY <2>1, <2>7 DEF Quiet
    <3> QED
      BY <1>2, <2>3, <2>4, <2>5, <2>6, <3>4, <3>5 DEF IInv, HashLeads, Arrivals
  <2>8. CASE ~\E d \in Members \ {m} : Departs(d)
    <3>1. Quiet'
      BY <1>2, <2>1, <2>8 DEF Quiet
    <3>2. ASSUME NEW s \in Servers, room'[s] # {} PROVE hash = s
      <4>1. PICK o \in room'[s] : TRUE
        BY <3>2
      <4>2. o \in Members \ {m} /\ o \in room[s] /\ s = Here(o)
        BY <2>2, <4>1 DEF IInv, Typed, Consistent
      <4>3. Sits(o)
        BY <1>3, <2>8, <4>2, Unsettled DEF Present, Room
      <4>4. Spares(m, o)
        BY <1>1, <4>2, <4>3 DEF IInv, OthersStay
      <4> QED BY <1>5, <4>2, <4>4 DEF Spares
    <3>3. hash # None => \E o \in Members : Sits(o)
      BY <1>3, <2>8 DEF IInv, LastDeletes, Deletes
    <3>4. HashLeads'
      BY <1>1, <2>3, <3>2, <3>3 DEF HashLeads
    <3>5. Arrivals'
      <4>1. ASSUME NEW o \in Members \ {m} PROVE ArrivesAt(o)'
        BY <1>2, <1>3, <2>8 DEF Settled, Gone, Same, ArrivesAt
      <4> QED BY <1>2, <4>1 DEF Arrivals
    <3>6. LastDeletes' /\ OthersStay' /\ AllLeave'
      BY <3>1 DEF LastDeletes, OthersStay, AllLeave, Quiet
    <3> QED
      BY <1>2, <2>3, <2>4, <2>5, <2>6, <3>4, <3>5, <3>6 DEF IInv
  <2> QED BY <2>7, <2>8
<1> QED BY <1>4, <1>5

LEMMA EndsInv ==
  ASSUME IInv, NEW m \in Members, Ends(m)
  PROVE  IInv'
<1>1. /\ Stray(m) /\ UNCHANGED <<hash, waitlist>> /\ Leave(m)
      /\ member[m].exit = "over" /\ Sets(m, Over(member[m])) /\ Here(m) \in Servers
  BY Unsettled DEF Ends, Stray, Gone
<1>2. /\ Typed' /\ Consistent(m)' /\ ArrivesAt(m)'
      /\ Settled(m)' /\ ~Stray(m)' /\ ~Departs(m)' /\ ~Sits(m)'
      /\ member'[m].caller = member[m].caller
      /\ \A o \in Members \ {m} : Same(o)
  BY <1>1, OverIs
<1>3. /\ ~Sits(m) /\ Quiet /\ ~Opens(m)
      /\ \A o \in Members \ {m} : Stray(o) => ~member[o].caller.ends
      /\ \E o \in Members \ {m} : Sits(o)
  <2>1. ~Sits(m) /\ ~Departs(m) /\ ~Settled(m) /\ ~Opens(m)
    BY <1>1, Unsettled DEF Sits, Ends, Opens, None
  <2> QED BY <1>1, <2>1, Undisturbed DEF IInv, StrayIsKept
<1>4. CASE Present(m) /\ member[m].caller.ends
  <2>1. \A o \in Members \ {m} : Settled(o)
    BY <1>1, <1>4 DEF IInv, OthersSettled
  <2>2. \A s \in Servers : room'[s] = {}
    BY <1>1, <1>4, LeaveIs
  <2> QED BY <1>1, <1>2, <1>3, <2>1, <2>2, Empties
<1>5. CASE ~(Present(m) /\ member[m].caller.ends)
  <2>1. \A o \in Members \ {m} :
          /\ Here(o)' = Here(o) /\ (Present(o)' <=> Present(o))
          /\ (Settled(o)' <=> Settled(o)) /\ (Sits(o)' <=> Sits(o))
          /\ (Departs(o)' <=> Departs(o)) /\ (Stray(o)' <=> Stray(o))
          /\ (Opens(o)' <=> Opens(o)) /\ Consistent(o)'
    BY <1>1, <1>2, <1>5, Remainder
  <2>2. \A s \in Servers : room'[s] = room[s] \ {m}
    BY <1>1, <1>5, LeaveIs
  <2>3. \A o \in Members : Consistent(o)' /\ (Sits(o)' <=> Sits(o))
    BY <1>2, <1>3, <2>1
  <2>4. OneHost'
    BY <1>2 DEF IInv, OneHost, Same
  <2>5. Quiet'
    BY <1>2, <1>3, <2>1 DEF Quiet
  <2>6. OthersSettled' /\ StrayIsKept'
    <3>1. \A o \in Members : Stray(o)' => ~member'[o].caller.ends
      BY <1>2, <1>3, <2>1 DEF Same
    <3> QED BY <1>3, <2>3, <2>5, <3>1 DEF OthersSettled, StrayIsKept, Quiet
  <2>7. HashLeads'
    BY <1>1, <1>3, <2>2, <2>3 DEF IInv, HashLeads
  <2>8. Arrivals'
    BY <1>1, <1>2, <1>3, <2>1 DEF IInv, Arrivals, ArrivesAt, Same
  <2>9. OneInUse'
    BY <2>2 DEF IInv, OneInUse
  <2>10. LastDeletes' /\ OthersStay' /\ AllLeave'
    BY <2>5 DEF LastDeletes, OthersStay, AllLeave, Quiet
  <2> QED
    BY <1>2, <2>3, <2>4, <2>6, <2>7, <2>8, <2>9, <2>10 DEF IInv
<1> QED BY <1>4, <1>5

------------------------------------------------------------------------------
LEMMA NextInv ==
  ASSUME IInv, ~Overlap, [Next]_vars, ~miscounted'
  PROVE  IInv'
<1>1. CASE Next
  <2>1. PICK m \in Members :
          Goes(m) \/ Exiting(m) \/ Enter(m) \/ HangsUp(m) \/ Kick(m)
    BY <1>1 DEF Next
  <2>2. CASE Goes(m)
    BY <2>2, LookupInv, CreateInv, RetryInv, WaitListInv, ReferInv, PromptInv,
       JoinedInv, JoinFailsInv, ReadInv, NotifyInv, EndsInv DEF Goes
  <2>3. CASE Exiting(m)
    BY <2>3, DroppedInv, CheckInv, DeleteHashInv, KickSelfInv DEF Exiting
  <2> QED BY <2>1, <2>2, <2>3, EnterInv, HangsUpInv, KickInv
<1>2. CASE UNCHANGED vars
  BY <1>2
     DEF vars, IInv, Typed, OneHost, Consistent, OthersSettled, StrayIsKept, HashLeads,
         Arrivals, ArrivesAt, OneInUse, LastDeletes, OthersStay, AllLeave, Spares, Quiet,
         Departs, Stray, Sits, Opens, Deletes, Settled, Gone, Present, Room, Here, Remaining
<1> QED BY <1>1, <1>2

(* A kick that leaves one member alone is never forgotten.                  *)
LEMMA Remembered ==
  ASSUME [Next]_vars, miscounted
  PROVE  miscounted'
<1>1. CASE UNCHANGED vars
  BY <1>1 DEF vars
<1>2. ASSUME NEW m \in Members, Goes(m) PROVE miscounted'
  BY <1>2 DEF Goes, RetrieveHash, CreateHash, RetrieveAgain, AddToWaitList, Listens,
     ReferSucceeds, ReferFails, PromptEnds, Joined, JoinFails, RetrieveSet, Notify,
     ClearWaitList, Ends
<1>3. ASSUME NEW m \in Members, Exiting(m) PROVE miscounted'
  BY <1>3 DEF Exiting, Dropped, Check, DeleteHash, KickSelf
<1>4. ASSUME NEW m \in Members, Enter(m) \/ HangsUp(m) \/ Kick(m) PROVE miscounted'
  BY <1>4 DEF Enter, HangsUp, Kick
<1> QED BY <1>1, <1>2, <1>3, <1>4 DEF Next

(* While the callers do not overlap, and one host at most ends the          *)
(* conference for all, the invariant holds until a kick leaves one alone.   *)
LEMMA Invariance ==
  ASSUME ~Overlap, Tidy
  PROVE  Spec => [](miscounted \/ IInv)
<1>1. Init => IInv
  BY InitInv
<1>2. (miscounted \/ IInv) /\ [Next]_vars => (miscounted \/ IInv)'
  BY NextInv, Remembered
<1> QED BY <1>1, <1>2, PTL DEF Spec

(* A conference goes on under its name: once nobody is on the way out, the  *)
(* room that has members is on the server that the hash leads to, as long   *)
(* as nobody was kicked out of a room of two.                               *)
THEOREM OneRoomCorrect ==
  ASSUME ~Overlap, Tidy
  PROVE  Spec => []OneRoom
<1>1. miscounted \/ IInv => OneRoom
  BY Unsettled DEF IInv, HashLeads, Quiet, OneRoom
<1> QED BY <1>1, Invariance, PTL

(* When everybody has left no hash remains that would lead new callers to a *)
(* room without members, unless a kick left a member alone before.          *)
THEOREM LightsOutCorrect ==
  ASSUME ~Overlap, Tidy
  PROVE  Spec => [](~miscounted => LightsOut)
<1>1. ASSUME IInv, \A m \in Members : member[m].at = "out" \/ Gone(m)
      PROVE  hash = None
  <2>1. \A m \in Members : Settled(m) /\ ~Sits(m) /\ ~Opens(m)
    BY <1>1, Unsettled DEF Settled, Gone, Opens
  <2>2. Quiet
    BY <1>1, <2>1, DepartingIs DEF Quiet
  <2> QED BY <1>1, <2>1, <2>2 DEF IInv, HashLeads
<1>2. miscounted \/ IInv => (~miscounted => LightsOut)
  BY <1>1 DEF LightsOut
<1> QED BY <1>2, Invariance, PTL
===============================================================================
