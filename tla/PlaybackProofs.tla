---------------------------- MODULE PlaybackProofs ----------------------------
(* A break stops no audio but that of a verb that was stopped, and a play   *)
(* that is stopped in time is silent, for any number of verbs and           *)
(* applications.                                                            *)
EXTENDS Playback, TLAPS

(* What is on its way: at most one start, which only stops of earlier audio *)
(* precede, and at most one end, which only stops follow.                   *)
OnlyStops(events) == \A i \in DOMAIN events : events[i].type = "stop"
Ordered(events) ==
  \A i, j \in DOMAIN events : i < j =>
    /\ events[i].type = "done" => events[j].type = "stop"
    /\ events[j].type = "start" => events[i].type = "stop"

EpOK(e) ==
  /\ e \in EpStates /\ Ordered(e.events)
  /\ e.audio = "sent" => OnlyStops(e.events)
  /\ e.audio = "on" => \A i \in DOMAIN e.events : e.events[i].type # "done"

Quiet(e) == e.audio = "none" /\ OnlyStops(e.events)

(* The start of the audio is still to be heard.                             *)
Due(e) == e.audio = "sent" \/ \E i \in DOMAIN e.events : e.events[i].type = "start"

(* Only the play that runs waits for a start, and will hear it before the   *)
(* end of its audio.                                                        *)
StartInv ==
  ep.starting # <<>> =>
    /\ ep.starting = <<cur>> /\ Is("play") /\ task.at = "playing" /\ Due(ep)

(* A break that is cached is that of an earlier verb, or of one that was    *)
(* stopped.                                                                 *)
CacheInv ==
  /\ \A n \in emitter.cache : n <= cur
  /\ emitter.cache = {cur} => Stopped

IInv ==
  /\ TypeOK /\ EpOK(ep) /\ ep.of <= cur
  /\ task.at # "playing" => Quiet(ep)
  /\ NoneMissing => StartInv
  /\ CacheInv
  /\ OnlyStoppedIsBroken

------------------------------------------------------------------------------
(* The endpoint.                                                            *)

(* What breaking and ending leave alone.                                    *)
Same(e, r) == r.of = e.of /\ r.starting = e.starting

(* What an event looks like.                                                *)
LEMMA EventType ==
  ASSUME NEW type \in {"start", "stop", "done"}, NEW e \in EpStates, NEW failed \in BOOLEAN
  PROVE  Event(type, e, failed) \in Events /\ Event(type, e, failed).type = type
  BY DEF Event, Events, EpStates

(* Audio that starts after earlier audio has ended is the first to do so.   *)
LEMMA StartedOK ==
  ASSUME NEW e, EpOK(e), e.audio = "sent"
  PROVE  LET r == StartedAudio(e) IN
         EpOK(r) /\ r.audio = "on" /\ Same(e, r) /\ Due(r) /\ r.broken = e.broken
  <1> DEFINE start == Event("start", e, FALSE)
             r == StartedAudio(e)
  <1>1. e \in EpStates /\ e.events \in Seq(Events) /\ OnlyStops(e.events)
    BY DEF EpOK, EpStates
  <1>2. start \in Events /\ start.type = "start"
    BY <1>1, EventType
  <1> HIDE DEF start
  <1>3. r = [e EXCEPT !.audio = "on", !.events = Append(e.events, start)]
    BY DEF StartedAudio, start
  <1>9. Append(e.events, start) \in Seq(Events)
    BY <1>1, <1>2
  <1> HIDE DEF r
  <1>4. r \in EpStates /\ r.audio = "on" /\ r.events = Append(e.events, start)
        /\ Same(e, r) /\ r.broken = e.broken
    BY <1>1, <1>3, <1>9 DEF EpStates, Same
  <1>5. /\ DOMAIN r.events = 1..(Len(e.events) + 1)
        /\ r.events[Len(e.events) + 1] = start
        /\ \A i \in 1..Len(e.events) : r.events[i] = e.events[i] /\ r.events[i].type = "stop"
    BY <1>1, <1>2, <1>4 DEF OnlyStops
  <1>6. Ordered(r.events) /\ \A i \in DOMAIN r.events : r.events[i].type # "done"
    BY <1>1, <1>2, <1>5 DEF Ordered
  <1>7. Len(e.events) \in Nat
    BY <1>1
  <1>8. Due(r)
    BY <1>2, <1>5, <1>7 DEF Due
  <1> QED
    BY <1>4, <1>6, <1>8 DEF EpOK, r

(* Audio that ends has not ended before.                                    *)
LEMMA EndedOK ==
  ASSUME NEW e, EpOK(e), e.audio = "on", NEW failed \in BOOLEAN, NEW r \in Ended(e, failed)
  PROVE  EpOK(r) /\ Same(e, r) /\ (Due(e) => Due(r)) /\ r.broken = e.broken
  <1> DEFINE stop == Event("stop", e, failed)
             done == Event("done", e, FALSE)
             n == Len(e.events)
  <1>1. e \in EpStates /\ e.events \in Seq(Events) /\ Ordered(e.events) /\ n \in Nat
        /\ \A i \in DOMAIN e.events : e.events[i].type # "done"
    BY DEF EpOK, EpStates
  <1>2. stop \in Events /\ stop.type = "stop" /\ done \in Events /\ done.type = "done"
    BY <1>1, EventType
  <1> HIDE DEF stop, done
  <1>3. PICK a, b \in Events :
          /\ r = [e EXCEPT !.audio = "none", !.events = Append(Append(e.events, a), b)]
          /\ {a.type, b.type} = {"stop", "done"}
    BY <1>2 DEF Ended, stop, done
  <1>4. /\ Append(Append(e.events, a), b) \in Seq(Events)
        /\ Len(Append(Append(e.events, a), b)) = n + 2
        /\ Append(Append(e.events, a), b)[n + 1] = a
        /\ Append(Append(e.events, a), b)[n + 2] = b
        /\ \A i \in 1..n : Append(Append(e.events, a), b)[i] = e.events[i]
    BY <1>1
  <1>5. r \in EpStates /\ r.audio = "none" /\ Same(e, r) /\ r.broken = e.broken
        /\ r.events = Append(Append(e.events, a), b)
    BY <1>1, <1>3, <1>4 DEF EpStates, Same
  <1>6. /\ DOMAIN r.events = 1..(n + 2) /\ DOMAIN e.events = 1..n
        /\ r.events[n + 1] = a /\ r.events[n + 2] = b
        /\ \A i \in 1..n : r.events[i] = e.events[i]
    BY <1>1, <1>4, <1>5
  <1>7. Ordered(r.events)
    <2> SUFFICES ASSUME NEW i \in 1..(n + 2), NEW j \in 1..(n + 2), i < j
                 PROVE  /\ r.events[i].type = "done" => r.events[j].type = "stop"
                        /\ r.events[j].type = "start" => r.events[i].type = "stop"
      BY <1>6 DEF Ordered
    <2>1. CASE j \in 1..n
      <3>1. i \in 1..n
        BY <1>1, <2>1
      <3> QED
        BY <1>1, <1>6, <2>1, <3>1 DEF Ordered
    <2>2. CASE j = n + 1
      <3>1. i \in 1..n
        BY <1>1, <2>2
      <3>2. r.events[i].type # "done" /\ r.events[j].type \in {"stop", "done"}
        BY <1>1, <1>3, <1>6, <2>2, <3>1
      <3> QED
        BY <3>2
    <2>3. CASE j = n + 2
      <3>1. i \in 1..n \/ i = n + 1
        BY <1>1, <2>3
      <3>2. r.events[i].type # "done" \/ r.events[j].type = "stop"
        BY <1>1, <1>3, <1>6, <2>3, <3>1
      <3>3. r.events[j].type \in {"stop", "done"}
        BY <1>3, <1>6, <2>3
      <3> QED
        BY <3>2, <3>3
    <2>4. j \in 1..n \/ j = n + 1 \/ j = n + 2
      BY <1>1
    <2> QED
      BY <2>1, <2>2, <2>3, <2>4
  <1>8. Due(e) => Due(r)
    BY <1>1, <1>6 DEF Due
  <1> QED
    BY <1>5, <1>7, <1>8 DEF EpOK

(* uuid_break of audio: silence is left alone, and a start that has to be   *)
(* heard is heard.                                                          *)
LEMMA BrokenOK ==
  ASSUME NEW e, EpOK(e), NEW r \in Broken(e)
  PROVE  EpOK(r) /\ Same(e, r) /\ (Due(e) => Due(r)) /\ (Quiet(e) => r = e)
  <1>1. CASE e.audio = "on"
    <2> DEFINE b == [e EXCEPT !.broken = TRUE]
    <2>1. EpOK(b) /\ b.audio = "on" /\ Same(e, b) /\ (Due(e) => Due(b))
      BY <1>1 DEF EpOK, EpStates, Same, Due
    <2>2. r \in Ended(b, FALSE)
      BY <1>1 DEF Broken
    <2> HIDE DEF b
    <2> QED
      BY <1>1, <2>1, <2>2, EndedOK DEF Same, Quiet
  <1>2. CASE e.audio = "sent"
    <2>1. CASE r = e
      BY <2>1 DEF Same
    <2>2. CASE r \in Ended([StartedAudio(e) EXCEPT !.broken = TRUE], FALSE)
      <3> DEFINE s == StartedAudio(e)
                 b == [s EXCEPT !.broken = TRUE]
      <3>1. EpOK(s) /\ s.audio = "on" /\ Same(e, s) /\ Due(s)
        BY <1>2, StartedOK
      <3> HIDE DEF s
      <3>2. EpOK(b) /\ b.audio = "on" /\ Same(e, b) /\ Due(b)
        BY <3>1 DEF EpOK, EpStates, Same, Due
      <3>3. r \in Ended(b, FALSE)
        BY <2>2 DEF s
      <3> HIDE DEF b
      <3> QED
        BY <1>2, <3>2, <3>3, EndedOK DEF Same, Quiet
    <2> QED
      BY <1>2, <2>1, <2>2 DEF Broken
  <1>3. CASE e.audio = "none"
    BY <1>3 DEF Broken, Same
  <1> QED
    BY <1>1, <1>2, <1>3 DEF EpOK, EpStates

(* When the end of the audio is taken, nothing but stops is left, and no    *)
(* start was to be heard.                                                   *)
LEMMA TakenOK ==
  ASSUME EpOK(ep), ep.events # <<>>
  PROVE  /\ EpOK(Taken) /\ Same(ep, Taken) /\ Taken.broken = ep.broken
         /\ Taken.saying = ep.saying /\ Taken.audio = ep.audio
         /\ Head1 \in Events
         /\ Quiet(ep) => Quiet(Taken)
         /\ Head1.type = "done" => Quiet(Taken) /\ ~Due(ep)
         /\ Head1.type = "stop" => (Due(ep) => Due(Taken))
  <1> DEFINE n == Len(ep.events)
  <1>1. ep \in EpStates /\ ep.events \in Seq(Events) /\ Ordered(ep.events)
        /\ n \in Nat /\ n > 0 /\ DOMAIN ep.events = 1..n /\ Head1 = ep.events[1]
    BY DEF EpOK, EpStates, Head1
  <1>2. Tail(ep.events) \in Seq(Events) /\ DOMAIN Tail(ep.events) = 1..(n - 1)
        /\ \A i \in 1..(n - 1) : Tail(ep.events)[i] = ep.events[i + 1]
    BY <1>1
  <1>3. Taken \in EpStates /\ Same(ep, Taken) /\ Taken.broken = ep.broken
        /\ Taken.saying = ep.saying /\ Taken.audio = ep.audio
        /\ Taken.events = Tail(ep.events)
    BY <1>1, <1>2 DEF Taken, EpStates, Same
  <1>4. \A i \in 1..(n - 1) : i + 1 \in 1..n
    BY <1>1
  <1>5. Ordered(Tail(ep.events))
    <2> SUFFICES ASSUME NEW i \in 1..(n - 1), NEW j \in 1..(n - 1), i < j
                 PROVE  /\ ep.events[i + 1].type = "done" => ep.events[j + 1].type = "stop"
                        /\ ep.events[j + 1].type = "start" => ep.events[i + 1].type = "stop"
      BY <1>2 DEF Ordered
    <2>1. i + 1 \in 1..n /\ j + 1 \in 1..n /\ i + 1 < j + 1
      BY <1>1
    <2> QED
      BY <1>1, <2>1 DEF Ordered
  <1>6. OnlyStops(ep.events) => OnlyStops(Tail(ep.events))
    BY <1>1, <1>2, <1>4 DEF OnlyStops
  <1>7. (\A i \in DOMAIN ep.events : ep.events[i].type # "done")
          => \A i \in DOMAIN Tail(ep.events) : Tail(ep.events)[i].type # "done"
    BY <1>1, <1>2, <1>4
  <1>8. EpOK(Taken) /\ (Quiet(ep) => Quiet(Taken))
    BY <1>3, <1>5, <1>6, <1>7 DEF EpOK, Quiet
  <1>9. Head1.type = "done" => Quiet(Taken) /\ ~Due(ep)
    <2> SUFFICES ASSUME ep.events[1].type = "done" PROVE Quiet(Taken) /\ ~Due(ep)
      BY <1>1
    <2>1. 1 \in 1..n
      BY <1>1
    <2>2. ep.audio = "none"
      BY <1>1, <2>1 DEF EpOK, EpStates, OnlyStops
    <2>3. \A j \in 1..n : j > 1 => ep.events[j].type = "stop"
      BY <1>1, <2>1 DEF Ordered
    <2>4. OnlyStops(Tail(ep.events))
      BY <1>1, <1>2, <1>4, <2>3 DEF OnlyStops
    <2>5. \A j \in 1..n : ep.events[j].type # "start"
      BY <1>1, <2>1, <2>3
    <2> QED
      BY <1>1, <1>3, <2>2, <2>4, <2>5 DEF Quiet, Due
  <1>10. Head1.type = "stop" => (Due(ep) => Due(Taken))
    <2> SUFFICES ASSUME ep.events[1].type = "stop", NEW j \in 1..n,
                        ep.events[j].type = "start"
                 PROVE  \E i \in DOMAIN Tail(ep.events) : Tail(ep.events)[i].type = "start"
      BY <1>1, <1>3 DEF Due
    <2>1. j > 1 /\ j - 1 \in 1..(n - 1)
      BY <1>1
    <2>2. Tail(ep.events)[j - 1] = ep.events[j]
      BY <1>1, <1>2, <2>1
    <2> QED
      BY <1>2, <2>1, <2>2
  <1> QED
    BY <1>1, <1>3, <1>8, <1>9, <1>10

(* A command to play over silence.                                          *)
LEMMA PlayedOK ==
  ASSUME NEW e, EpOK(e), Quiet(e), cur \in 1..N, NEW id \in {"file", "primary", "fallback"}
  PROVE  LET r == Played(e, id) IN
         /\ EpOK(r) /\ r.of = cur /\ ~r.broken /\ Due(r)
         /\ r.starting = IF Is("play") THEN Append(e.starting, cur) ELSE e.starting
  <1> DEFINE r == Played(e, id)
             plays == IF Is("play") THEN Append(e.starting, cur) ELSE e.starting
             says == IF Is("say") THEN e.saying \cup {cur} ELSE e.saying
  <1>1. e \in EpStates /\ e.starting \in Seq(1..N) /\ e.saying \in SUBSET (1..N)
    BY DEF EpOK, EpStates
  <1>2. plays \in Seq(1..N)
    <2>1. Append(e.starting, cur) \in Seq(1..N)
      BY <1>1
    <2> QED
      BY <1>1, <2>1
  <1>6. says \in SUBSET (1..N)
    BY <1>1
  <1>7. cur \in 0..N
    BY PlaybackAssumption
  <1>3. r = [e EXCEPT !.audio = "sent", !.of = cur, !.id = id, !.heard = FALSE,
                      !.broken = FALSE, !.starting = plays, !.saying = says]
    BY DEF Played
  <1> HIDE DEF plays, says, r
  <1>4. r \in EpStates /\ r.of = cur /\ r.broken = FALSE /\ r.audio = "sent"
        /\ r.events = e.events /\ r.starting = plays
    BY <1>1, <1>2, <1>3, <1>6, <1>7 DEF EpStates
  <1>5. EpOK(r) /\ Due(r)
    BY <1>4 DEF EpOK, Quiet, Due
  <1> QED
    BY <1>4, <1>5 DEF plays, r

------------------------------------------------------------------------------
(* The verbs.                                                               *)

(* The parts of the invariant that a step need not care about.              *)
Unmoved == UNCHANGED <<calm, verb, voice>> /\ fellback' \in BOOLEAN /\ apps' \in 0..MaxApps

(* A verb that begins.                                                      *)
LEMMA FreshType ==
  ASSUME verb \in [1..N -> Verbs], NEW n \in 1..N
  PROVE  Fresh(n) \in TaskStates
  <1>1. verb[n] \in VerbSet
    BY PlaybackAssumption
  <1> QED
    BY <1>1 DEF Fresh, TaskStates, VerbSet

(* A step after which the same verb is running.                             *)
LEMMA SameVerb ==
  ASSUME IInv, Unmoved, cur' = cur, progress' \in {Null, cur},
         task' \in TaskStates, Stopped => Stopped',
         EpOK(ep'), ep'.of = ep.of, Quiet(ep) => Quiet(ep'),
         NoneMissing /\ ep'.broken => ep.broken \/ Stopped',
         ep'.starting \in {ep.starting, <<>>},
         NoneMissing /\ ep'.starting # <<>> => Due(ep'),
         \/ task'.at = task.at
         \/ Quiet(ep') /\ (NoneMissing => ep'.starting = <<>>),
         emitter' \in EmitterStates, CacheInv'
  PROVE  IInv'
  <1>1. TypeOK'
    BY DEF IInv, TypeOK, Unmoved, EpOK
  <1>2. NoneMissing' = NoneMissing /\ Is("play")' = Is("play")
    BY DEF Unmoved, NoneMissing, Is
  <1>3. ep'.of <= cur' /\ (task'.at # "playing" => Quiet(ep'))
    BY DEF IInv
  <1>4. NoneMissing' => StartInv'
    BY <1>2 DEF IInv, StartInv
  <1>5. OnlyStoppedIsBroken'
    BY <1>2 DEF IInv, OnlyStoppedIsBroken, OthersPlayOn
  <1> QED
    BY <1>1, <1>3, <1>4, <1>5 DEF IInv

(* A step that ends a verb; the next one may begin.                         *)
LEMMA NextVerb ==
  ASSUME IInv, Unmoved, cur \in 1..(N - 1), cur' = cur + 1, progress' = cur + 1,
         task' = Fresh(cur + 1), EpOK(ep'), Quiet(ep'), ep'.of = ep.of,
         NoneMissing => ep'.starting = <<>>,
         emitter' \in EmitterStates, \A n \in emitter'.cache : n <= cur
  PROVE  IInv'
  <1>1. cur + 1 \in 1..N /\ cur \in Nat /\ ep.of \in Nat /\ ep.of <= cur
    BY PlaybackAssumption DEF IInv, EpOK, EpStates
  <1>2. TypeOK'
    BY <1>1, FreshType DEF IInv, TypeOK, Unmoved, EpOK
  <1>3. ep'.of <= cur' /\ ep'.of # cur'
    BY <1>1
  <1>4. CacheInv'
    <2>1. \A n \in emitter'.cache : n \in Nat
      BY PlaybackAssumption DEF EmitterStates
    <2>2. \A n \in emitter'.cache : n <= cur + 1 /\ n # cur + 1
      BY <1>1, <2>1
    <2> QED
      BY <2>2 DEF CacheInv
  <1>5. NoneMissing' = NoneMissing
    BY DEF Unmoved, NoneMissing
  <1> QED
    BY <1>2, <1>3, <1>4, <1>5 DEF IInv, StartInv, OnlyStoppedIsBroken, OthersPlayOn

(* exec() goes on over silence.                                             *)
LEMMA GoesOn ==
  ASSUME IInv, Unmoved, UNCHANGED emitter,
         NEW t \in TaskStates, Stopped => t.killed \/ t.replaced,
         NEW e, EpOK(e), Quiet(e), e.of = ep.of, e.broken = ep.broken,
         e.starting = ep.starting, NoneMissing => e.starting = <<>>,
         Again(t, e) \/ (Finish(t) /\ ep' = e)
  PROVE  IInv'
  <1>1. cur \in 1..N /\ emitter \in EmitterStates /\ progress \in {Null, cur}
    BY DEF IInv, TypeOK
  <1>2. ASSUME Finish(t), ep' = e PROVE IInv'
    <2>1. CASE cur < N /\ cur' = cur + 1 /\ task' = Fresh(cur + 1) /\ progress' = cur + 1
      <3>1. cur \in 1..(N - 1)
        BY <1>1, <2>1, PlaybackAssumption
      <3>2. emitter' \in EmitterStates /\ \A n \in emitter'.cache : n <= cur
        BY <1>1 DEF IInv, CacheInv
      <3> QED
        BY <1>2, <2>1, <3>1, <3>2, NextVerb
    <2>2. CASE /\ task' = [t EXCEPT !.at = IF cur = N THEN "over" ELSE "waiting",
                                    !.held = FALSE]
               /\ UNCHANGED <<cur, progress>>
      <3>1. task' \in TaskStates /\ (Stopped => Stopped')
        BY <2>2 DEF TaskStates, Stopped
      <3>2. CacheInv'
        BY <2>2, <3>1 DEF IInv, CacheInv
      <3> QED
        BY <1>1, <1>2, <2>2, <3>1, <3>2, SameVerb
    <2> QED
      BY <1>2, <2>1, <2>2 DEF Finish
  <1>3. ASSUME task' = [t EXCEPT !.at = "playing", !.said = "open",
                                 !.left = IF Forever THEN @ ELSE @ - 1],
               Forever \/ t.left > 0,
               ep' = Played(e, IF Is("say") THEN Source(t) ELSE "file"),
               UNCHANGED <<cur, progress>>
        PROVE  IInv'
    <2> DEFINE id == IF Is("say") THEN Source(t) ELSE "file"
    <2>1. id \in {"file", "primary", "fallback"}
      BY DEF Source, TaskStates
    <2> HIDE DEF id
    <2>2. ep' = Played(e, id)
      BY <1>3 DEF id
    <2>3. /\ EpOK(ep') /\ ep'.of = cur /\ ~ep'.broken /\ Due(ep')
          /\ ep'.starting = IF Is("play") THEN Append(e.starting, cur) ELSE e.starting
      BY <1>1, <2>1, <2>2, PlayedOK
    <2>4. (IF Forever THEN t.left ELSE t.left - 1) \in Nat
      BY <1>3 DEF TaskStates
    <2>5. task' \in TaskStates /\ task'.at = "playing" /\ (Stopped => Stopped')
      BY <1>3, <2>4 DEF TaskStates, Stopped
    <2>6. TypeOK'
      BY <1>1, <1>3, <2>3, <2>5 DEF IInv, TypeOK, Unmoved, EpOK
    <2>7. NoneMissing' = NoneMissing /\ Is("play")' = Is("play")
      BY <1>3 DEF Unmoved, NoneMissing, Is
    <2>8. Append(<<>>, cur) = <<cur>>
      OBVIOUS
    <2>9. NoneMissing' => StartInv'
      BY <1>3, <2>3, <2>5, <2>7, <2>8 DEF StartInv
    <2>10. CacheInv' /\ OnlyStoppedIsBroken'
      BY <1>3, <2>3, <2>5 DEF IInv, CacheInv, OnlyStoppedIsBroken, OthersPlayOn
    <2>11. ep'.of <= cur'
      BY <1>1, <1>3, <2>3
    <2> QED
      BY <2>3, <2>5, <2>6, <2>9, <2>10, <2>11 DEF IInv
  <1> QED
    BY <1>2, <1>3 DEF Again

(* A break that finds no listener is kept for the verb it is meant for.     *)
LEMMA EmitOK ==
  ASSUME IInv, NEW n \in {Null, cur}, Emit(n, ep)
  PROVE  /\ emitter' \in EmitterStates /\ progress' \in {Null, cur}
         /\ \A m \in emitter'.cache : m <= cur
         /\ ep' \in Broken(ep) \cup {ep}
  <1>1. cur \in 1..N /\ emitter \in EmitterStates /\ progress \in {Null, cur} /\ n \in 0..N
        /\ n <= cur
    BY PlaybackAssumption DEF IInv, TypeOK, Null
  <1>2. CASE emitter.listening = {}
    BY <1>1, <1>2 DEF Emit, EmitterStates
  <1>3. CASE emitter.listening # {}
    BY <1>1, <1>3 DEF Emit, EmitterStates, Silent
  <1> QED
    BY <1>2, <1>3

(* A verb that is stopped may be broken.                                    *)
LEMMA Stops ==
  ASSUME IInv, Unmoved, cur' = cur, progress' \in {Null, cur},
         task' \in TaskStates, task'.at = task.at, Stopped',
         emitter' \in EmitterStates, \A n \in emitter'.cache : n <= cur,
         NEW e \in Broken(ep) \cup {ep},
         \/ ep' = e
         \/ ep' = [e EXCEPT !.starting = <<>>, !.saying = {}, !.stopping = FALSE]
  PROVE  IInv'
  <1>1. EpOK(ep)
    BY DEF IInv
  <1>2. EpOK(e) /\ Same(ep, e) /\ (Due(ep) => Due(e)) /\ (Quiet(ep) => Quiet(e))
    BY <1>1, BrokenOK DEF Same
  <1>3. /\ EpOK(ep') /\ ep'.of = ep.of /\ (Quiet(ep) => Quiet(ep'))
        /\ ep'.starting \in {ep.starting, <<>>}
        /\ Due(ep) => Due(ep')
    <2>1. CASE ep' = e
      BY <1>2, <2>1 DEF Same
    <2>2. CASE ep' = [e EXCEPT !.starting = <<>>, !.saying = {}, !.stopping = FALSE]
      <3>1. /\ ep' \in EpStates /\ ep'.of = e.of /\ ep'.starting = <<>>
            /\ ep'.audio = e.audio /\ ep'.events = e.events
        <4>1. e \in EpStates /\ <<>> \in Seq(1..N) /\ {} \in SUBSET (1..N)
          BY <1>2 DEF EpOK
        <4> QED
          BY <2>2, <4>1 DEF EpStates
      <3> QED
        BY <1>2, <3>1 DEF EpOK, Quiet, Due, Same
    <2> QED
      BY <2>1, <2>2
  <1>4. NoneMissing /\ ep'.starting # <<>> => Due(ep')
    BY <1>3 DEF IInv, StartInv
  <1>5. CacheInv'
    BY DEF CacheInv
  <1> QED
    BY <1>3, <1>4, <1>5, SameVerb

(* What a sequence holds.                                                   *)
LEMMA Elements ==
  ASSUME NEW S, NEW s \in Seq(S)
  PROVE  \A i \in DOMAIN s : s[i] \in S /\ i \in 1..Len(s)
  OBVIOUS

(* A listener that breaks the audio does so for a verb that was stopped.    *)
LEMMA ListenOK ==
  ASSUME IInv, NEW e, EpOK(e), Listen(ep.starting, e), cur' = cur
  PROVE  /\ emitter' \in EmitterStates /\ progress' \in {Null, cur}
         /\ emitter'.cache = emitter.cache \/ emitter'.cache = {}
         /\ ep' \in Broken(e) \cup {e}
         /\ NoneMissing /\ ep' # e => Stopped
  <1>1. /\ emitter \in EmitterStates /\ progress \in {Null, cur}
        /\ ep.starting \in Seq(1..N)
    BY DEF IInv, TypeOK, EpStates
  <1>2. CASE emitter.cache = {} \/ ep.starting = <<>>
    <2>1. {ep.starting[i] : i \in DOMAIN ep.starting} \in SUBSET (1..N)
      <3>1. \A i \in DOMAIN ep.starting : ep.starting[i] \in 1..N
        BY <1>1, Elements
      <3> QED
        BY <3>1
    <2> QED
      BY <1>1, <1>2, <2>1 DEF Listen, EmitterStates
  <1>3. CASE ~(emitter.cache = {} \/ ep.starting = <<>>)
    <2>1. {ep.starting[i] : i \in 2..Len(ep.starting)} \in SUBSET (1..N)
      <3>1. \A i \in DOMAIN ep.starting : ep.starting[i] \in 1..N
        BY <1>1, Elements
      <3>2. \A i \in 2..Len(ep.starting) : i \in DOMAIN ep.starting
        BY <1>1
      <3> QED
        BY <3>1, <3>2
    <2>2. NoneMissing => ep.starting[1] = cur
      BY <1>3 DEF IInv, StartInv
    <2>3. NoneMissing /\ ep' # e => Stopped
      BY <1>3, <2>2 DEF Listen, IInv, CacheInv
    <2> QED
      BY <1>1, <1>3, <2>1, <2>3 DEF Listen, EmitterStates, Silent
  <1> QED
    BY <1>2, <1>3

------------------------------------------------------------------------------
(* The actions.                                                             *)

(* The audio starts, ends or fails.                                         *)
LEMMA MediaStepOK == IInv /\ MediaStep => IInv'
  <1> SUFFICES ASSUME IInv, MediaStep PROVE IInv'
    OBVIOUS
  <1>1. /\ TypeOK /\ EpOK(ep) /\ CacheInv /\ ep \in EpStates
        /\ NoneMissing /\ ep.starting # <<>> => Is("play") /\ Due(ep)
    BY DEF IInv, EpOK, StartInv
  <1>2. ASSUME UNCHANGED <<calm, verb, voice, fellback, cur, task, progress, apps, emitter>>,
               EpOK(ep'), Same(ep, ep'), ep'.broken = ep.broken, Quiet(ep) => Quiet(ep'),
               NoneMissing /\ ep.starting # <<>> => Due(ep')
        PROVE  IInv'
    <2>1. /\ Unmoved /\ progress' \in {Null, cur} /\ task' \in TaskStates
          /\ emitter' \in EmitterStates /\ CacheInv' /\ (Stopped => Stopped')
      BY <1>1, <1>2 DEF Unmoved, TypeOK, CacheInv, Stopped
    <2> QED
      BY <1>2, <2>1, SameVerb DEF Same
  <1>3. CASE AudioStarts
    BY <1>1, <1>2, <1>3, StartedOK DEF AudioStarts, Quiet
  <1>4. CASE AudioEnds
    BY <1>1, <1>2, <1>4, EndedOK DEF AudioEnds, Quiet
  <1>5. CASE AudioFails
    <2> DEFINE done == Event("done", ep, TRUE)
               n == Len(ep.events)
    <2>1. ep.audio = "sent" /\ OnlyStops(ep.events) /\ ep.events \in Seq(Events) /\ n \in Nat
      BY <1>1, <1>5 DEF AudioFails, EpOK, EpStates
    <2>2. done \in Events /\ done.type = "done"
      BY <1>1, EventType
    <2> HIDE DEF done
    <2>3. /\ Append(ep.events, done) \in Seq(Events)
          /\ DOMAIN Append(ep.events, done) = 1..(n + 1)
          /\ Append(ep.events, done)[n + 1] = done
          /\ \A i \in 1..n : Append(ep.events, done)[i] = ep.events[i]
      BY <2>1, <2>2
    <2>4. ep' = [ep EXCEPT !.audio = "none", !.events = Append(ep.events, done)]
      BY <1>5 DEF AudioFails, done
    <2>5. /\ ep' \in EpStates /\ Same(ep, ep') /\ ep'.broken = ep.broken
          /\ ep'.audio = "none" /\ ep'.events = Append(ep.events, done)
      BY <1>1, <2>3, <2>4 DEF EpStates, Same
    <2>6. \A i \in 1..n : ep.events[i].type = "stop"
      BY <2>1 DEF OnlyStops
    <2>7. Ordered(Append(ep.events, done))
      <3> SUFFICES ASSUME NEW i \in 1..(n + 1), NEW j \in 1..(n + 1), i < j
                   PROVE  /\ Append(ep.events, done)[i].type = "stop"
                          /\ Append(ep.events, done)[j].type # "start"
        BY <2>3 DEF Ordered
      <3>1. i \in 1..n /\ (j \in 1..n \/ j = n + 1)
        BY <2>1
      <3> QED
        BY <2>2, <2>3, <2>6, <3>1
    <2>8. EpOK(ep')
      BY <2>5, <2>7 DEF EpOK
    <2>9. NoneMissing => ep.starting = <<>>
      <3>1. cur \in 1..N /\ verb[cur].missing
        BY <1>1, <1>5 DEF AudioFails, TypeOK
      <3> QED
        BY <1>1, <3>1 DEF NoneMissing, Is
    <2> QED
      BY <1>2, <1>5, <2>1, <2>5, <2>8, <2>9 DEF AudioFails, Quiet
  <1> QED
    BY <1>3, <1>4, <1>5 DEF MediaStep

(* exec() of the verb that runs.                                            *)
LEMMA TaskStepOK == IInv /\ TaskStep => IInv'
  <1> SUFFICES ASSUME IInv, TaskStep PROVE IInv'
    OBVIOUS
  <1>1. /\ TypeOK /\ EpOK(ep) /\ CacheInv /\ task \in TaskStates /\ fellback \in BOOLEAN
        /\ apps \in 0..MaxApps /\ progress \in {Null, cur} /\ emitter \in EmitterStates
        /\ NoneMissing => StartInv
    BY DEF IInv, TypeOK
  \* Between two rounds nothing is played and nothing listens for a start.
  <1>2. task.at # "playing" => Quiet(ep) /\ (NoneMissing => ep.starting = <<>>)
    BY DEF IInv, StartInv
  <1>3. ASSUME Unmoved, UNCHANGED emitter, task.at # "playing",
               NEW t \in TaskStates, Stopped => t.killed \/ t.replaced,
               Again(t, ep) \/ (Finish(t) /\ ep' = ep)
        PROVE  IInv'
    BY <1>1, <1>2, <1>3, GoesOn
  <1>4. ASSUME Unmoved, UNCHANGED <<cur, progress, emitter, ep>>, task.at # "playing",
               task' \in TaskStates, Stopped => Stopped'
        PROVE  IInv'
    <2>1. CacheInv'
      BY <1>1, <1>4 DEF CacheInv
    <2> QED
      BY <1>1, <1>2, <1>4, <2>1, SameVerb
  \* The end of the audio leaves silence.
  <1>5. ASSUME Arrives("done")
        PROVE  /\ EpOK(Taken) /\ Quiet(Taken) /\ Taken.of = ep.of
               /\ Taken.broken = ep.broken /\ Taken.starting = ep.starting
               /\ NoneMissing => ep.starting = <<>>
               /\ Quiet(ep) => Quiet(Taken)
    BY <1>1, <1>5, TakenOK DEF Arrives, Same, StartInv
  <1>6. ASSUME Unmoved, UNCHANGED <<cur, progress, emitter>>, Arrives("done"), ep' = Taken,
               task' \in TaskStates, Stopped => Stopped'
        PROVE  IInv'
    <2>1. CacheInv'
      BY <1>1, <1>6 DEF CacheInv
    <2> QED
      BY <1>1, <1>5, <1>6, <2>1, SameVerb
  <1>7. CASE Prepared
    <2>1. Unmoved /\ UNCHANGED emitter /\ task.at # "playing"
      BY <1>1, <1>7 DEF Prepared, Unmoved
    <2>2. CASE Is("play")
      <3> DEFINE t == [[task EXCEPT !.held = TRUE] EXCEPT !.timer = verb[cur].timed]
      <3>1. verb[cur].timed \in BOOLEAN
        BY <1>1, PlaybackAssumption DEF TypeOK, VerbSet
      <3>2. t \in TaskStates /\ (Stopped => t.killed \/ t.replaced)
        BY <1>1, <3>1 DEF TaskStates, Stopped
      <3> HIDE DEF t
      <3>3. Again(t, ep)
        BY <1>7, <2>2 DEF Prepared, t
      <3> QED
        BY <1>3, <2>1, <3>2, <3>3
    <2>3. CASE ~Is("play")
      <3>1. task' \in TaskStates /\ (Stopped => Stopped')
        <4>1. PICK v \in {"primary", "fallback"} :
                task' = [[task EXCEPT !.held = TRUE] EXCEPT !.at = "synth", !.vendor = v]
          BY <1>7, <2>3 DEF Prepared
        <4> QED
          BY <1>1, <4>1 DEF TaskStates, Stopped
      <3> QED
        BY <1>4, <1>7, <2>1, <2>3, <3>1 DEF Prepared
    <2> QED
      BY <2>2, <2>3
  <1>8. CASE Synthesized
    <2> DEFINE t == [task EXCEPT !.id = IF @ = Nothing THEN Source(task) ELSE @]
    <2>1. Source(task) \in {"file", "primary", "fallback"}
      BY <1>1 DEF Source, TaskStates
    <2>2. t \in TaskStates /\ (Stopped => t.killed \/ t.replaced)
      BY <1>1, <2>1 DEF TaskStates, Stopped
    <2> HIDE DEF t
    <2>3. Again(t, ep) /\ Unmoved /\ UNCHANGED emitter /\ task.at # "playing"
      BY <1>1, <1>8 DEF Synthesized, Unmoved, t
    <2> QED
      BY <1>3, <2>2, <2>3
  \* The fallback begins, or the verb ends.
  <1>9. ASSUME NEW t \in TaskStates, Stopped => t.killed \/ t.replaced, Fallback(t),
               task.at # "playing", UNCHANGED <<calm, verb, voice, apps, emitter, ep>>
        PROVE  IInv'
    <2>1. Unmoved
      BY <1>1, <1>9 DEF Unmoved, Fallback
    <2>2. CASE Finish(t)
      BY <1>3, <1>9, <2>1, <2>2
    <2>3. CASE /\ task' = [t EXCEPT !.at = "fallback", !.primary = FALSE, !.vendor = "fallback"]
               /\ UNCHANGED <<cur, progress>>
      <3>1. task' \in TaskStates /\ (Stopped => Stopped')
        BY <1>9, <2>3 DEF TaskStates, Stopped
      <3> QED
        BY <1>4, <1>9, <2>1, <2>3, <3>1
    <2> QED
      BY <1>9, <2>2, <2>3 DEF Fallback
  <1>10. CASE SynthFails
    BY <1>1, <1>9, <1>10 DEF SynthFails, Stopped
  <1>11. CASE FallbackFails
    <2>1. Unmoved /\ UNCHANGED emitter /\ task.at # "playing"
      BY <1>1, <1>11 DEF FallbackFails, Unmoved
    <2>2. CASE Finish(task)
      BY <1>1, <1>3, <1>11, <2>1, <2>2 DEF FallbackFails, Stopped
    <2>3. CASE task' = [task EXCEPT !.at = "over", !.held = FALSE] /\ UNCHANGED <<cur, progress>>
      <3>1. task' \in TaskStates /\ (Stopped => Stopped')
        BY <1>1, <2>3 DEF TaskStates, Stopped
      <3> QED
        BY <1>4, <1>11, <2>1, <2>3, <3>1 DEF FallbackFails
    <2> QED
      BY <1>11, <2>2, <2>3 DEF FallbackFails
  <1>12. CASE SayGoesOn
    <2>1. task.at # "playing" /\ UNCHANGED <<calm, verb, voice, apps, emitter>>
      BY <1>12 DEF SayGoesOn
    <2>2. CASE task.said = "ok"
      BY <1>1, <1>3, <1>12, <2>1, <2>2 DEF SayGoesOn, Unmoved, Stopped
    <2>3. CASE task.said # "ok"
      <3> DEFINE t == [task EXCEPT !.left = IF Forever THEN @ ELSE @ + 1]
      <3>1. (IF Forever THEN task.left ELSE task.left + 1) \in Nat
        BY <1>1 DEF TaskStates
      <3>2. t \in TaskStates /\ (Stopped => t.killed \/ t.replaced)
        BY <1>1, <3>1 DEF TaskStates, Stopped
      <3> HIDE DEF t
      <3>3. Fallback(t) /\ UNCHANGED ep
        BY <1>12, <2>3 DEF SayGoesOn, t
      <3> QED
        BY <1>9, <2>1, <3>2, <3>3
    <2> QED
      BY <2>2, <2>3
  <1>13. CASE HookReplies
    BY <1>1, <1>3, <1>13 DEF HookReplies, Unmoved, Stopped
  <1>14. CASE PlayReturns
    <2> DEFINE last == task.killed \/ (~Forever /\ task.left = 0)
               t == [task EXCEPT !.timer = @ /\ ~last]
    <2>1. (task.timer /\ ~last) \in BOOLEAN
      BY <1>1 DEF TaskStates
    <2>2. t \in TaskStates /\ (Stopped => t.killed \/ t.replaced)
      BY <1>1, <2>1 DEF TaskStates, Stopped
    <2> HIDE DEF t, last
    <2>3. Unmoved /\ UNCHANGED emitter /\ Arrives("done")
      BY <1>1, <1>14 DEF PlayReturns, Unmoved
    <2>4. \/ task' = [t EXCEPT !.at = "hook"] /\ ep' = Taken /\ UNCHANGED <<cur, progress>>
          \/ Again(t, Taken)
      BY <1>14 DEF PlayReturns, t, last
    <2>5. CASE Again(t, Taken)
      BY <1>1, <1>5, <2>2, <2>3, <2>5, GoesOn
    <2>6. CASE task' = [t EXCEPT !.at = "hook"] /\ ep' = Taken /\ UNCHANGED <<cur, progress>>
      <3>1. task' \in TaskStates /\ (Stopped => Stopped')
        BY <2>2, <2>6 DEF TaskStates, Stopped
      <3> QED
        BY <1>6, <2>3, <2>6, <3>1
    <2> QED
      BY <2>4, <2>5, <2>6
  <1>15. CASE PlayThrows
    <2>1. Unmoved /\ UNCHANGED emitter /\ Arrives("done") /\ ep' = Taken
      BY <1>1, <1>15 DEF PlayThrows, Unmoved
    <2>2. CASE Finish(task)
      BY <1>1, <1>5, <2>1, <2>2, GoesOn DEF Stopped
    <2>3. CASE task' = [task EXCEPT !.at = "failing"] /\ UNCHANGED <<cur, progress>>
      <3>1. task' \in TaskStates /\ (Stopped => Stopped')
        BY <1>1, <2>3 DEF TaskStates, Stopped
      <3> QED
        BY <1>6, <2>1, <2>3, <3>1
    <2> QED
      BY <1>15, <2>2, <2>3 DEF PlayThrows
  <1>16. CASE SayReturns
    <2>1. Unmoved /\ UNCHANGED <<cur, progress, emitter>> /\ Arrives("done") /\ ep' = Taken
      BY <1>1, <1>16 DEF SayReturns, Unmoved
    <2>2. task' \in TaskStates /\ (Stopped => Stopped')
      BY <1>1, <1>16 DEF SayReturns, TaskStates, Stopped
    <2> QED
      BY <1>6, <2>1, <2>2
  <1>17. CASE PlaybackStopped
    <2>1. /\ EpOK(Taken) /\ Taken.of = ep.of /\ Taken.broken = ep.broken
          /\ Taken.starting = ep.starting /\ (Quiet(ep) => Quiet(Taken))
          /\ Due(ep) => Due(Taken)
      BY <1>1, <1>17, TakenOK DEF PlaybackStopped, Arrives, Same
    <2>2. \/ ep' = Taken /\ UNCHANGED task
          \/ /\ ep' = [Taken EXCEPT !.stopping = FALSE]
             /\ task' = [task EXCEPT !.said = IF @ # "open" THEN @
                                              ELSE IF Head1.failed THEN "failed" ELSE "ok"]
      BY <1>17 DEF PlaybackStopped
    <2>3. /\ EpOK(ep') /\ ep'.of = ep.of /\ ep'.broken = ep.broken
          /\ ep'.starting = ep.starting /\ (Quiet(ep) => Quiet(ep'))
          /\ Due(ep) => Due(ep')
      <3>1. CASE ep' = Taken
        BY <2>1, <3>1
      <3>2. CASE ep' = [Taken EXCEPT !.stopping = FALSE]
        BY <2>1, <3>2 DEF EpOK, EpStates, Quiet, Due
      <3> QED
        BY <2>2, <3>1, <3>2
    <2>4. task' \in TaskStates /\ (Stopped => Stopped') /\ task'.at = task.at
      BY <1>1, <2>2 DEF TaskStates, Stopped
    <2>5. Unmoved /\ UNCHANGED <<cur, progress, emitter>>
      BY <1>1, <1>17 DEF PlaybackStopped, Unmoved
    <2>6. CacheInv'
      BY <1>1, <2>4, <2>5 DEF CacheInv
    <2>7. NoneMissing /\ ep'.starting # <<>> => Due(ep')
      BY <1>1, <2>3 DEF StartInv
    <2> QED
      BY <1>1, <2>3, <2>4, <2>5, <2>6, <2>7, SameVerb
  <1>18. CASE PlaybackStarted
    <2> DEFINE ours == cur \in ep.saying /\ Matches(Head1)
               e == [Taken EXCEPT !.heard = TRUE, !.stopping = @ \/ ours, !.starting = <<>>,
                                  !.saying = IF ours THEN @ \ {cur} ELSE @]
    <2>1. /\ EpOK(Taken) /\ Taken.of = ep.of /\ Taken.broken = ep.broken
          /\ Quiet(ep) => Quiet(Taken)
      BY <1>1, <1>18, TakenOK DEF PlaybackStarted, Arrives, Same
    <2>2. (Taken.stopping \/ ours) \in BOOLEAN
          /\ (IF ours THEN Taken.saying \ {cur} ELSE Taken.saying) \in SUBSET (1..N)
          /\ <<>> \in Seq(1..N)
      BY <2>1 DEF EpOK, EpStates
    <2>3. /\ e \in EpStates /\ e.audio = Taken.audio /\ e.events = Taken.events
          /\ e.of = Taken.of /\ e.broken = Taken.broken /\ e.starting = <<>>
      BY <2>1, <2>2 DEF EpOK, EpStates
    <2>4. Listen(ep.starting, e) /\ Unmoved /\ UNCHANGED <<cur, task>>
      BY <1>1, <1>18 DEF PlaybackStarted, Unmoved
    <2> HIDE DEF e, ours
    <2>5. EpOK(e) /\ (Quiet(ep) => Quiet(e))
      BY <2>1, <2>3 DEF EpOK, Quiet
    <2>6. /\ emitter' \in EmitterStates /\ progress' \in {Null, cur}
          /\ emitter'.cache = emitter.cache \/ emitter'.cache = {}
          /\ ep' \in Broken(e) \cup {e}
          /\ NoneMissing /\ ep' # e => Stopped
      BY <2>4, <2>5, ListenOK
    <2>7. EpOK(ep') /\ ep'.of = ep.of /\ ep'.starting = <<>> /\ (Quiet(ep) => Quiet(ep'))
      BY <2>1, <2>3, <2>5, <2>6, BrokenOK DEF Same
    <2>8. (Stopped => Stopped') /\ task' \in TaskStates /\ task'.at = task.at
      BY <1>1, <2>4 DEF Stopped
    <2>9. CacheInv'
      BY <1>1, <2>4, <2>6, <2>8 DEF CacheInv
    <2>10. NoneMissing /\ ep'.broken => ep.broken \/ Stopped'
      BY <2>1, <2>3, <2>6, <2>8
    <2> QED
      BY <2>4, <2>6, <2>7, <2>8, <2>9, <2>10, SameVerb
  <1> QED
    BY <1>7, <1>8, <1>10, <1>11, <1>12, <1>13, <1>14, <1>15, <1>16, <1>17, <1>18 DEF TaskStep

(* The timer of a play.                                                     *)
LEMMA TimesOutOK == IInv /\ TimesOut => IInv'
  <1> SUFFICES ASSUME IInv, TimesOut PROVE IInv'
    OBVIOUS
  <1>1. TypeOK /\ task \in TaskStates /\ task.at = "playing"
    BY DEF IInv, TypeOK, TimesOut
  <1>2. task' = [task EXCEPT !.killed = TRUE, !.timer = FALSE]
    BY DEF TimesOut
  <1>3. task' \in TaskStates /\ task'.at = task.at /\ Stopped'
    BY <1>1, <1>2 DEF TaskStates, Stopped
  <1>4. Unmoved /\ cur' = cur
    BY <1>1 DEF TimesOut, Unmoved, TypeOK
  <1>5. Emit(cur, ep)
    BY <1>1 DEF TimesOut, KillPlay
  <1> QED
    BY <1>3, <1>4, <1>5, EmitOK, Stops

(* replaceApplication().                                                    *)
LEMMA NewApplicationOK == IInv /\ NewApplication => IInv'
  <1> SUFFICES ASSUME IInv, NewApplication PROVE IInv'
    OBVIOUS
  <1>1. /\ TypeOK /\ task \in TaskStates /\ emitter \in EmitterStates
        /\ progress \in {Null, cur} /\ cur \in 1..N /\ EpOK(ep)
        /\ \A n \in emitter.cache : n <= cur
    BY DEF IInv, TypeOK, CacheInv
  <1>2. Unmoved
    BY <1>1, PlaybackAssumption DEF NewApplication, Unmoved, TypeOK
  <1>3. CASE ReplaceCurrent
    <2> DEFINE t == [task EXCEPT !.held = FALSE, !.replaced = TRUE]
    <2>1. t \in TaskStates /\ t.at = task.at /\ t.replaced
      BY <1>1 DEF TaskStates
    <2> HIDE DEF t
    <2>2. CASE Is("play")
      <3>1. task' = [t EXCEPT !.killed = TRUE] /\ KillPlay /\ cur' = cur
        BY <1>3, <2>2 DEF ReplaceCurrent, t
      <3>2. task' \in TaskStates /\ task'.at = task.at /\ Stopped'
        BY <2>1, <3>1 DEF TaskStates, Stopped
      <3>3. CASE Emit(cur, ep)
        BY <1>2, <3>1, <3>2, <3>3, EmitOK, Stops
      <3>4. CASE UNCHANGED <<emitter, progress, ep>>
        BY <1>1, <1>2, <3>1, <3>2, <3>4, Stops
      <3> QED
        BY <3>1, <3>3, <3>4 DEF KillPlay
    <2>3. CASE ~Is("play")
      <3>1. task' = KilledSay(t) /\ KillSay /\ cur' = cur
        BY <1>3, <2>3 DEF ReplaceCurrent, t
      <3>2. task' \in TaskStates /\ task'.at = task.at /\ Stopped'
        BY <2>1, <3>1 DEF KilledSay, TaskStates, Stopped
      <3>3. PICK e \in Broken(ep) :
              ep' = [e EXCEPT !.starting = <<>>, !.saying = {}, !.stopping = FALSE]
        BY <3>1 DEF KillSay
      <3>4. UNCHANGED <<emitter, progress>>
        BY <3>1 DEF KillSay
      <3> QED
        BY <1>1, <1>2, <3>1, <3>2, <3>3, <3>4, Stops
    <2> QED
      BY <2>2, <2>3
  <1>4. CASE ReplaceUnseen
    <2>1. task' = [task EXCEPT !.replaced = TRUE] /\ cur' = cur /\ BreakInProgress
      BY <1>4 DEF ReplaceUnseen
    <2>2. task' \in TaskStates /\ task'.at = task.at /\ Stopped'
      BY <1>1, <2>1 DEF TaskStates, Stopped
    <2>3. CASE Emit(progress, ep)
      BY <1>1, <1>2, <2>1, <2>2, <2>3, EmitOK, Stops
    <2>4. CASE UNCHANGED <<emitter, ep, progress>>
      BY <1>1, <1>2, <2>1, <2>2, <2>4, Stops
    <2> QED
      BY <2>1, <2>3, <2>4 DEF BreakInProgress
  <1>5. CASE WakeUp
    <2>1. task.at = "waiting" /\ cur < N /\ cur' = cur + 1 /\ task' = Fresh(cur + 1)
          /\ progress' = cur + 1 /\ ep' = ep
      BY <1>5 DEF WakeUp
    <2>2. cur \in 1..(N - 1) /\ progress \in 0..N /\ progress <= cur
      BY <1>1, <2>1, PlaybackAssumption DEF Null
    <2>3. emitter' \in EmitterStates /\ \A n \in emitter'.cache : n <= cur
      <3>1. CASE emitter' = [emitter EXCEPT !.cache = {progress}]
        BY <1>1, <2>2, <3>1 DEF EmitterStates
      <3>2. CASE emitter' = Silent
        BY <3>2 DEF Silent, EmitterStates
      <3>3. CASE emitter' = emitter
        BY <1>1, <3>3
      <3> QED
        BY <1>5, <3>1, <3>2, <3>3 DEF WakeUp
    <2>4. Quiet(ep) /\ (NoneMissing => ep.starting = <<>>)
      BY <2>1 DEF IInv, StartInv
    <2> QED
      BY <1>1, <1>2, <2>1, <2>2, <2>3, <2>4, NextVerb
  <1> QED
    BY <1>3, <1>4, <1>5 DEF NewApplication

------------------------------------------------------------------------------
(* The first verb has not begun.                                            *)
LEMMA InitOK == Init => IInv
  <1> SUFFICES ASSUME Init PROVE IInv
    OBVIOUS
  <1>1. 1 \in 1..N /\ 0 \in 0..N
    BY PlaybackAssumption
  <1>2. Fresh(1) \in TaskStates
    BY <1>1, FreshType DEF Init
  <1>3. emitter \in EmitterStates /\ emitter.cache = {}
    BY DEF Init, Silent, EmitterStates
  <1>4. <<>> \in Seq(Events) /\ <<>> \in Seq(1..N) /\ {} \in SUBSET (1..N)
    OBVIOUS
  <1>5. /\ ep \in EpStates /\ ep.of = 0 /\ ep.audio = "none" /\ ep.events = <<>>
        /\ ep.starting = <<>> /\ ep.broken = FALSE
    BY <1>1, <1>4 DEF Init, EpStates
  <1>6. TypeOK
    <2>1. calm \in BOOLEAN /\ verb \in [1..N -> Verbs] /\ voice \in Voices /\ fellback \in BOOLEAN
      BY PlaybackAssumption DEF Init
    <2>2. cur \in 1..N /\ progress \in {Null, cur}
      BY <1>1 DEF Init
    <2>3. apps \in 0..MaxApps
      BY PlaybackAssumption DEF Init
    <2>4. task \in TaskStates
      BY <1>2 DEF Init
    <2> QED
      BY <1>3, <1>5, <2>1, <2>2, <2>3, <2>4 DEF TypeOK
  <1>7. EpOK(ep) /\ Quiet(ep)
    BY <1>5 DEF EpOK, Quiet, Ordered, OnlyStops
  <1>8. ep.of <= cur
    BY <1>5 DEF Init
  <1> QED
    BY <1>3, <1>5, <1>6, <1>7, <1>8
    DEF IInv, StartInv, CacheInv, OnlyStoppedIsBroken, OthersPlayOn

(* Every step keeps the invariant.                                          *)
LEMMA StepOK == IInv /\ [Next]_vars => IInv'
  <1> SUFFICES ASSUME IInv, [Next]_vars PROVE IInv'
    OBVIOUS
  <1>1. CASE UNCHANGED vars
    BY <1>1
    DEF vars, IInv, TypeOK, StartInv, CacheInv, OnlyStoppedIsBroken, OthersPlayOn,
        NoneMissing, Stopped, Is
  <1> QED
    BY <1>1, MediaStepOK, TaskStepOK, TimesOutOK, NewApplicationOK DEF Next

(* Whatever verbs follow each other, whatever vendors give, and however     *)
(* often applications are replaced and timers fire: unless the file of a    *)
(* play is missing, uuid_break stops only audio of a verb that was stopped. *)
THEOREM OnlyStoppedIsBrokenCorrect == Spec => []OnlyStoppedIsBroken
  <1>1. IInv => OnlyStoppedIsBroken
    BY DEF IInv
  <1> QED
    BY <1>1, InitOK, StepOK, PTL DEF Spec

-------------------------------------------------------------------------------
(* A play that is stopped in time is silent.                                *)

Halted(t) == t.killed \/ t.replaced
AtLast(t) == t.killed \/ (~Forever /\ t.left = 0)

(* A play that has not begun: a break for it is cached when it is stopped.  *)
Waits(t, e, m, p) ==
  /\ t.at = "preparing" /\ ~t.killed /\ ~t.held /\ t.left = verb[cur].loop /\ e.of < cur
  /\ IF Halted(t) THEN m.cache = {cur} /\ verb[cur].loop = 1 ELSE m.cache = {} /\ p = cur

(* A play that runs listens for its start or for a break; once it is        *)
(* stopped it plays no further round, and is silent unless its break is     *)
(* cached and its start is still to be heard.                               *)
Plays(t, e, m) ==
  /\ t.at = "playing" /\ e.of = cur /\ (e.heard \/ e.starting = <<cur>>)
  /\ IF Halted(t)
     THEN /\ AtLast(t)
          /\ \/ m.cache = {} /\ e.heard /\ e.audio = "none"
             \/ m.cache = {cur} /\ ~e.heard
     ELSE t.held /\ m.cache = {} /\ (e.heard => cur \in m.listening)

(* A play that has come to its end listens for a break still.               *)
HasPlayed(t, e, m) ==
  /\ t.at \in {"hook", "failing", "waiting", "over"} /\ e.of = cur /\ e.heard /\ m.cache = {}
  /\ t.at = "hook" => AtLast(t)
  /\ ~Halted(t) => cur \in m.listening /\ (t.held <=> t.at \in {"hook", "failing"})

PlayOK(t, e, m, p) == Waits(t, e, m, p) \/ Plays(t, e, m) \/ HasPlayed(t, e, m)

(* The start that was heard is that of the audio.                           *)
HeardOK(e) == e.heard => e.audio # "sent" /\ e.starting = <<>>

CalmOK(t, e, m, p) ==
  /\ HeardOK(e)
  /\ Is("play") => PlayOK(t, e, m, p)
  /\ ~Is("play") => m.cache = {} /\ ~t.timer

CalmInv ==
  calm => /\ Stopped => NoneMissing
          /\ NoneMissing => CalmOK(task, ep, emitter, progress)

(* A step after which the same verb is running.                             *)
LEMMA SameCalm ==
  ASSUME calm, NoneMissing, UNCHANGED <<calm, verb, cur>>,
         CalmOK(task', ep', emitter', progress')
  PROVE  CalmInv'
  <1>1. NoneMissing' /\ Is("play")' = Is("play")
    BY DEF NoneMissing, Is
  <1>2. CalmOK(task, ep, emitter, progress)'
    BY <1>1
    DEF CalmOK, HeardOK, PlayOK, Waits, Plays, HasPlayed, Halted, AtLast, Forever
  <1> QED
    BY <1>1, <1>2 DEF CalmInv

(* A step after which the next one is.                                      *)
LEMMA NextCalm ==
  ASSUME IInv, calm, NoneMissing, UNCHANGED <<calm, verb>>, cur' = cur + 1,
         task' = Fresh(cur + 1), progress' = cur + 1, emitter'.cache = {},
         ep'.of = ep.of, HeardOK(ep')
  PROVE  CalmInv'
  <1>1. cur \in Nat /\ ep.of \in Nat /\ ep.of < cur + 1
    BY PlaybackAssumption DEF IInv, TypeOK, EpOK, EpStates
  <1>2. NoneMissing'
    BY DEF NoneMissing
  <1>3. /\ task'.at = "preparing" /\ ~task'.killed /\ ~task'.held /\ ~task'.replaced
        /\ ~task'.timer /\ task'.left = verb'[cur'].loop
    BY DEF Fresh
  <1>4. Waits(task, ep, emitter, progress)'
    BY <1>1, <1>3 DEF Waits, Halted
  <1> QED
    BY <1>2, <1>3, <1>4 DEF CalmInv, CalmOK, PlayOK, HeardOK, Stopped

(* Breaking audio silences it, but for audio that has not started.          *)
Muted(e, r) ==
  /\ r.of = e.of /\ r.heard = e.heard /\ r.starting = e.starting
  /\ r.audio \in {e.audio, "none"} /\ (e.audio = "on" => r.audio = "none")

LEMMA EndedMuted ==
  ASSUME NEW e \in EpStates, NEW failed \in BOOLEAN, NEW r \in Ended(e, failed)
  PROVE  Muted(e, r) /\ r.audio = "none"
  BY DEF Ended, EpStates, Muted

LEMMA BrokenMuted ==
  ASSUME NEW e, EpOK(e), NEW r \in Broken(e)
  PROVE  Muted(e, r)
  <1>1. e \in EpStates
    BY DEF EpOK
  <1>2. CASE e.audio = "on"
    <2> DEFINE b == [e EXCEPT !.broken = TRUE]
    <2>1. b \in EpStates /\ Muted(b, r)
      BY <1>1, <1>2, EndedMuted DEF Broken, EpStates
    <2>2. b.of = e.of /\ b.heard = e.heard /\ b.starting = e.starting /\ b.audio = e.audio
      BY <1>1 DEF EpStates
    <2> HIDE DEF b
    <2> QED
      BY <2>1, <2>2 DEF Muted
  <1>3. CASE e.audio = "sent" /\ r # e
    <2> DEFINE s == StartedAudio(e)
               b == [s EXCEPT !.broken = TRUE]
    <2>1. s \in EpStates
      BY <1>3, StartedOK DEF EpOK
    <2>2. s.of = e.of /\ s.heard = e.heard /\ s.starting = e.starting
      BY <1>1 DEF EpStates, StartedAudio
    <2>3. r \in Ended(b, FALSE)
      BY <1>3 DEF Broken
    <2> HIDE DEF s
    <2>4. b \in EpStates /\ b.of = s.of /\ b.heard = s.heard /\ b.starting = s.starting
      BY <2>1 DEF EpStates
    <2> HIDE DEF b
    <2> QED
      BY <1>3, <2>2, <2>3, <2>4, EndedMuted DEF Muted
  <1>4. CASE e.audio # "on" /\ r = e
    BY <1>4 DEF Muted
  <1> QED
    BY <1>1, <1>2, <1>3, <1>4 DEF Broken, EpStates

(* The audio starts, ends or fails.                                         *)
LEMMA MediaCalm ==
  ASSUME IInv, calm, NoneMissing, CalmOK(task, ep, emitter, progress), MediaStep
  PROVE  CalmInv'
  <1>1. ep \in EpStates /\ UNCHANGED <<calm, verb, cur, task, progress, emitter>>
    BY DEF IInv, EpOK, MediaStep, AudioStarts, AudioFails, AudioEnds
  <1>2. /\ ep'.of = ep.of /\ ep'.heard = ep.heard /\ ep'.starting = ep.starting
        /\ ep'.audio = "none" \/ (ep.audio = "sent" /\ ep'.audio = "on")
    <2>1. CASE AudioStarts
      BY <1>1, <2>1 DEF AudioStarts, StartedAudio, EpStates
    <2>2. CASE AudioFails
      BY <1>1, <2>2 DEF AudioFails, EpStates
    <2>3. CASE AudioEnds
      BY <1>1, <2>3, EndedMuted DEF AudioEnds, Muted
    <2> QED
      BY <2>1, <2>2, <2>3 DEF MediaStep
  <1>3. HeardOK(ep')
    BY <1>2 DEF CalmOK, HeardOK
  <1>4. Is("play") => PlayOK(task, ep', emitter, progress)
    BY <1>2 DEF CalmOK, HeardOK, PlayOK, Waits, Plays, HasPlayed
  <1>5. CalmOK(task', ep', emitter', progress')
    BY <1>1, <1>3, <1>4 DEF CalmOK
  <1> QED
    BY <1>1, <1>5, SameCalm

-------------------------------------------------------------------------------
(* exec() goes on.                                                          *)

(* What a command to play does.                                             *)
LEMMA PlayedIs ==
  ASSUME NEW e \in EpStates, NEW id
  PROVE  LET r == Played(e, id) IN
         /\ r.of = cur /\ r.heard = FALSE
         /\ Is("play") => r.starting = Append(e.starting, cur)
  BY DEF Played, EpStates

(* A say.                                                                   *)
LEMMA SayGoesOnCalm ==
  ASSUME IInv, calm, NoneMissing, CalmOK(task, ep, emitter, progress), ~Is("play"),
         UNCHANGED <<calm, verb, emitter>>, NEW t \in TaskStates, ~t.timer,
         NEW e \in EpStates, e.of = ep.of, HeardOK(e),
         Again(t, e) \/ (Finish(t) /\ ep' = e)
  PROVE  CalmInv'
  <1>1. emitter.cache = {}
    BY DEF CalmOK
  <1>2. ASSUME Finish(t), ep' = e PROVE CalmInv'
    <2>1. CASE cur' = cur + 1 /\ task' = Fresh(cur + 1) /\ progress' = cur + 1
      BY <1>1, <1>2, <2>1, NextCalm
    <2>2. CASE /\ task' = [t EXCEPT !.at = IF cur = N THEN "over" ELSE "waiting",
                                    !.held = FALSE]
               /\ UNCHANGED <<cur, progress>>
      <3>1. ~task'.timer
        BY <2>2 DEF TaskStates
      <3>2. CalmOK(task', ep', emitter', progress')
        BY <1>1, <1>2, <3>1 DEF CalmOK
      <3> QED
        BY <2>2, <3>2, SameCalm
    <2> QED
      BY <1>2, <2>1, <2>2 DEF Finish
  <1>3. ASSUME task' = [t EXCEPT !.at = "playing", !.said = "open",
                                 !.left = IF Forever THEN @ ELSE @ - 1],
               ep' = Played(e, IF Is("say") THEN Source(t) ELSE "file"),
               UNCHANGED <<cur, progress>>
        PROVE  CalmInv'
    <2>1. ~task'.timer
      BY <1>3 DEF TaskStates
    <2>2. HeardOK(ep')
      BY <1>3, PlayedIs DEF HeardOK
    <2>3. CalmOK(task', ep', emitter', progress')
      BY <1>1, <2>1, <2>2 DEF CalmOK
    <2> QED
      BY <1>3, <2>3, SameCalm
  <1> QED
    BY <1>2, <1>3 DEF Again

(* A play, after a round.                                                   *)
LEMMA PlayGoesOnCalm ==
  ASSUME IInv, calm, NoneMissing, Is("play"), UNCHANGED <<calm, verb, emitter>>,
         emitter.cache = {}, NEW t \in TaskStates,
         Halted(t) => AtLast(t), ~Halted(t) => t.held /\ cur \in emitter.listening,
         NEW e \in EpStates, e.of = cur, ep.of = cur, e.heard, HeardOK(e),
         Again(t, e) \/ (Finish(t) /\ ep' = e)
  PROVE  CalmInv'
  <1>2. ASSUME Finish(t), ep' = e PROVE CalmInv'
    <2>1. CASE cur' = cur + 1 /\ task' = Fresh(cur + 1) /\ progress' = cur + 1
      BY <1>2, <2>1, NextCalm
    <2>2. CASE /\ task' = [t EXCEPT !.at = IF cur = N THEN "over" ELSE "waiting",
                                    !.held = FALSE]
               /\ UNCHANGED <<cur, progress>>
      <3>1. /\ task'.at \in {"over", "waiting"} /\ task'.held = FALSE
            /\ task'.killed = t.killed /\ task'.replaced = t.replaced
        BY <2>2 DEF TaskStates
      <3>2. HasPlayed(task', ep', emitter')
        BY <1>2, <3>1 DEF HasPlayed, Halted
      <3>3. CalmOK(task', ep', emitter', progress')
        BY <1>2, <3>2 DEF CalmOK, PlayOK
      <3> QED
        BY <2>2, <3>3, SameCalm
    <2> QED
      BY <1>2, <2>1, <2>2 DEF Finish
  <1>3. ASSUME task' = [t EXCEPT !.at = "playing", !.said = "open",
                                 !.left = IF Forever THEN @ ELSE @ - 1],
               ~t.killed, Forever \/ t.left > 0,
               ep' = Played(e, IF Is("say") THEN Source(t) ELSE "file"),
               UNCHANGED <<cur, progress>>
        PROVE  CalmInv'
    <2>1. ~Halted(t)
      BY <1>3 DEF AtLast, TaskStates
    <2>2. /\ task'.at = "playing" /\ task'.held = t.held
          /\ task'.killed = t.killed /\ task'.replaced = t.replaced
      BY <1>3 DEF TaskStates
    <2>3. ep'.of = cur /\ ~ep'.heard /\ ep'.starting = <<cur>>
      <3>1. e.starting = <<>> /\ Append(<<>>, cur) = <<cur>>
        BY DEF HeardOK
      <3> QED
        BY <1>3, <3>1, PlayedIs
    <2>4. Plays(task', ep', emitter')
      BY <2>1, <2>2, <2>3 DEF Plays, Halted
    <2>5. CalmOK(task', ep', emitter', progress')
      BY <2>3, <2>4 DEF CalmOK, PlayOK, HeardOK
    <2> QED
      BY <1>3, <2>5, SameCalm
  <1> QED
    BY <1>2, <1>3 DEF Again

(* A verb whose preconditions are met.                                      *)
LEMMA PreparedCalm ==
  ASSUME IInv, calm, NoneMissing, CalmOK(task, ep, emitter, progress), Prepared
  PROVE  CalmInv'
  <1>1. /\ task.at = "preparing" /\ UNCHANGED <<calm, verb, emitter>> /\ task \in TaskStates
        /\ ep \in EpStates /\ cur \in 1..N /\ verb[cur] \in VerbSet
    BY PlaybackAssumption DEF Prepared, IInv, TypeOK, EpOK
  <1>2. CASE Is("play")
    <2> DEFINE h == [task EXCEPT !.held = TRUE]
               t == [h EXCEPT !.timer = verb[cur].timed]
    <2>1. Again(t, ep)
      BY <1>1, <1>2 DEF Prepared
    <2>2. h \in TaskStates /\ h.held = TRUE /\ h.killed = task.killed
          /\ h.replaced = task.replaced /\ h.left = task.left
      BY <1>1 DEF TaskStates
    <2> HIDE DEF h
    <2>3. t \in TaskStates /\ t.held = TRUE /\ t.killed = task.killed
          /\ t.replaced = task.replaced /\ t.left = task.left
      BY <1>1, <2>2 DEF TaskStates, VerbSet
    <2> HIDE DEF t
    <2>4. Waits(task, ep, emitter, progress)
      BY <1>1, <1>2 DEF CalmOK, PlayOK, Plays, HasPlayed
    <2>5. ~t.killed /\ t.left = verb[cur].loop /\ verb[cur].loop \in Nat
      BY <1>1, <2>3, <2>4 DEF Waits, VerbSet
    <2>6. /\ task' = [t EXCEPT !.at = "playing", !.said = "open",
                               !.left = IF Forever THEN @ ELSE @ - 1]
          /\ ep' = Played(ep, IF Is("say") THEN Source(t) ELSE "file")
          /\ UNCHANGED <<cur, progress>>
      BY <2>1, <2>5 DEF Again, Forever
    <2>7. ep'.of = cur /\ ~ep'.heard /\ ep'.starting = <<cur>>
      <3>1. ep.starting = <<>> /\ Append(<<>>, cur) = <<cur>>
        BY <1>1 DEF IInv, StartInv
      <3> QED
        BY <1>1, <1>2, <2>6, <3>1, PlayedIs
    <2>8. /\ task'.at = "playing" /\ task'.held = TRUE /\ task'.killed = task.killed
          /\ task'.replaced = task.replaced /\ (~Forever => task'.left = verb[cur].loop - 1)
      BY <2>3, <2>5, <2>6 DEF TaskStates
    <2>9. Plays(task', ep', emitter')
      BY <1>1, <2>4, <2>7, <2>8 DEF Plays, Waits, Halted, AtLast, Forever
    <2>10. CalmOK(task', ep', emitter', progress')
      BY <1>2, <2>7, <2>9 DEF CalmOK, PlayOK, HeardOK
    <2> QED
      BY <1>1, <2>6, <2>10, SameCalm
  <1>3. CASE ~Is("play")
    <2>1. PICK v \in {"primary", "fallback"} :
            task' = [[task EXCEPT !.held = TRUE] EXCEPT !.at = "synth", !.vendor = v]
      BY <1>1, <1>3 DEF Prepared
    <2>2. task'.timer = task.timer
      BY <1>1, <2>1 DEF TaskStates
    <2>3. UNCHANGED <<cur, progress, ep>>
      BY <1>3 DEF Prepared
    <2>4. CalmOK(task', ep', emitter', progress')
      BY <1>1, <1>3, <2>2, <2>3 DEF CalmOK
    <2> QED
      BY <1>1, <2>3, <2>4, SameCalm
  <1> QED
    BY <1>2, <1>3

(* Where exec() of a say is suspended.                                      *)
LEMMA OnlySays ==
  ASSUME NoneMissing, CalmOK(task, ep, emitter, progress),
         task.at \in {"synth", "fallback", "stopping"}
  PROVE  ~Is("play")
  BY DEF CalmOK, PlayOK, Waits, Plays, HasPlayed

(* The turns of a say.                                                      *)
LEMMA SayCalm ==
  ASSUME IInv, calm, NoneMissing, CalmOK(task, ep, emitter, progress),
         Synthesized \/ SynthFails \/ FallbackFails \/ SayGoesOn \/ SayReturns
  PROVE  CalmInv'
  <1>1. /\ task \in TaskStates /\ ep \in EpStates /\ HeardOK(ep) /\ emitter.cache = {}
        /\ ~Is("play") /\ ~task.timer
    <2>1. ~Is("play")
      BY OnlySays DEF Synthesized, SynthFails, FallbackFails, SayGoesOn, SayReturns, Is
    <2> QED
      BY <2>1 DEF IInv, TypeOK, EpOK, CalmOK
  <1>2. UNCHANGED <<calm, verb, emitter>>
    BY DEF Synthesized, SynthFails, FallbackFails, SayGoesOn, SayReturns
  \* It goes on, or ends.
  <1>3. ASSUME NEW t \in TaskStates, ~t.timer, Again(t, ep) \/ (Finish(t) /\ ep' = ep)
        PROVE  CalmInv'
    BY <1>1, <1>2, <1>3, SayGoesOnCalm
  \* It waits for something else.
  <1>4. ASSUME ~task'.timer, cur' = cur, HeardOK(ep')
        PROVE  CalmInv'
    <2>1. CalmOK(task', ep', emitter', progress')
      BY <1>1, <1>2, <1>4 DEF CalmOK
    <2> QED
      BY <1>2, <1>4, <2>1, SameCalm
  <1>5. ASSUME NEW t \in TaskStates, ~t.timer, Fallback(t), UNCHANGED ep
        PROVE  CalmInv'
    <2>1. CASE task' = [t EXCEPT !.at = "fallback", !.primary = FALSE, !.vendor = "fallback"]
               /\ UNCHANGED <<cur, progress>>
      <3>1. ~task'.timer
        BY <1>5, <2>1 DEF TaskStates
      <3> QED
        BY <1>1, <1>4, <1>5, <2>1, <3>1
    <2> QED
      BY <1>3, <1>5, <2>1 DEF Fallback
  <1>6. CASE Synthesized
    <2> DEFINE t == [task EXCEPT !.id = IF @ = Nothing THEN Source(task) ELSE @]
    <2>1. Source(task) \in {"file", "primary", "fallback"}
      BY <1>1 DEF Source, TaskStates
    <2>2. t \in TaskStates /\ ~t.timer
      BY <1>1, <2>1 DEF TaskStates
    <2>3. Again(t, ep)
      BY <1>6 DEF Synthesized
    <2> QED
      BY <1>3, <2>2, <2>3
  <1>7. CASE SynthFails
    BY <1>1, <1>5, <1>7 DEF SynthFails
  <1>8. CASE FallbackFails
    <2>1. CASE task' = [task EXCEPT !.at = "over", !.held = FALSE] /\ UNCHANGED <<cur, progress>>
      <3>1. ~task'.timer
        BY <1>1, <2>1 DEF TaskStates
      <3> QED
        BY <1>1, <1>4, <1>8, <2>1, <3>1 DEF FallbackFails
    <2> QED
      BY <1>1, <1>3, <1>8, <2>1 DEF FallbackFails
  <1>9. CASE SayGoesOn
    <2>1. CASE task.said = "ok"
      BY <1>1, <1>3, <1>9, <2>1 DEF SayGoesOn
    <2>2. CASE task.said # "ok"
      <3> DEFINE t == [task EXCEPT !.left = IF Forever THEN @ ELSE @ + 1]
      <3>1. (IF Forever THEN task.left ELSE task.left + 1) \in Nat
        BY <1>1 DEF TaskStates
      <3>2. t \in TaskStates /\ ~t.timer
        BY <1>1, <3>1 DEF TaskStates
      <3>3. Fallback(t) /\ UNCHANGED ep
        BY <1>9, <2>2 DEF SayGoesOn
      <3> QED
        BY <1>5, <3>2, <3>3
    <2> QED
      BY <2>1, <2>2
  <1>10. CASE SayReturns
    <2>1. ~task'.timer
      BY <1>1, <1>10 DEF SayReturns, TaskStates
    <2>2. HeardOK(ep')
      BY <1>1, <1>10 DEF SayReturns, Taken, HeardOK, EpStates
    <2> QED
      BY <1>4, <1>10, <2>1, <2>2 DEF SayReturns
  <1> QED
    BY <1>6, <1>7, <1>8, <1>9, <1>10

(* A play is played through, or cannot be; its hook answers.                *)
LEMMA PlayCalm ==
  ASSUME IInv, calm, NoneMissing, CalmOK(task, ep, emitter, progress),
         PlayReturns \/ PlayThrows
  PROVE  CalmInv'
  <1>1. /\ task \in TaskStates /\ ep \in EpStates /\ EpOK(ep) /\ HeardOK(ep) /\ Is("play")
        /\ UNCHANGED <<calm, verb, emitter>> /\ Arrives("done")
    BY DEF IInv, TypeOK, EpOK, CalmOK, PlayReturns, PlayThrows
  <1>2. EpOK(Taken) /\ Taken.of = ep.of /\ ~Due(ep) /\ ~Quiet(ep)
    <2>1. ep.events # <<>> /\ Head1.type = "done"
      BY <1>1 DEF Arrives
    <2>2. EpOK(Taken) /\ Taken.of = ep.of /\ ~Due(ep)
      BY <1>1, <2>1, TakenOK DEF Same
    <2>3. 1 \in DOMAIN ep.events /\ ep.events[1].type # "stop"
      BY <1>1, <2>1 DEF Head1, EpStates
    <2> QED
      BY <2>2, <2>3 DEF Quiet, OnlyStops
  <1>3. Taken.heard = ep.heard /\ Taken.starting = ep.starting /\ Taken.audio = ep.audio
    BY <1>1 DEF Taken, EpStates
  <1>4. Plays(task, ep, emitter) /\ ep.heard /\ emitter.cache = {}
    <2>1. task.at = "playing" /\ ep.starting = <<>>
      BY <1>2 DEF IInv, StartInv
    <2>2. Plays(task, ep, emitter)
      BY <1>1, <2>1 DEF CalmOK, PlayOK, Waits, HasPlayed
    <2>3. ep.starting # <<cur>>
      BY <2>1
    <2> QED
      BY <2>2, <2>3 DEF Plays
  <1>5. Taken \in EpStates /\ HeardOK(Taken) /\ Taken.heard /\ Taken.of = cur /\ ep.of = cur
    BY <1>1, <1>2, <1>3, <1>4 DEF EpOK, HeardOK, Plays
  <1>6. ASSUME NEW t \in TaskStates, t.killed = task.killed, t.replaced = task.replaced,
               t.held = task.held, t.left = task.left
        PROVE  /\ Halted(t) => AtLast(t)
               /\ ~Halted(t) => t.held /\ cur \in emitter.listening
               /\ AtLast(task) => AtLast(t)
    <2>1. Halted(task) => AtLast(task)
      BY <1>4 DEF Plays
    <2>2. ~Halted(task) => task.held /\ cur \in emitter.listening
      BY <1>4 DEF Plays
    <2>3. AtLast(task) => AtLast(t)
      BY <1>6 DEF AtLast
    <2>4. Halted(t) <=> Halted(task)
      BY <1>6 DEF Halted
    <2> QED
      BY <1>6, <2>1, <2>2, <2>3, <2>4
  <1>7. ASSUME NEW t \in TaskStates, t.killed = task.killed, t.replaced = task.replaced,
               t.held = task.held, t.left = task.left,
               Again(t, Taken) \/ (Finish(t) /\ ep' = Taken)
        PROVE  CalmInv'
    BY <1>1, <1>4, <1>5, <1>6, <1>7, PlayGoesOnCalm
  <1>8. ASSUME NEW t \in TaskStates, t.killed = task.killed, t.replaced = task.replaced,
               t.held = task.held, t.left = task.left, NEW at \in {"hook", "failing"},
               at = "hook" => AtLast(task), task' = [t EXCEPT !.at = at], ep' = Taken,
               UNCHANGED <<cur, progress>>
        PROVE  CalmInv'
    <2>1. /\ task'.at = at /\ task'.held = t.held /\ task'.killed = t.killed
          /\ task'.replaced = t.replaced /\ task'.left = t.left
      BY <1>8 DEF TaskStates
    <2>2. HasPlayed(task', ep', emitter')
      BY <1>1, <1>4, <1>5, <1>6, <1>8, <2>1 DEF HasPlayed, Halted, AtLast
    <2>3. CalmOK(task', ep', emitter', progress')
      BY <1>1, <1>5, <1>8, <2>2 DEF CalmOK, PlayOK
    <2> QED
      BY <1>1, <1>8, <2>3, SameCalm
  <1>9. CASE PlayReturns
    <2> DEFINE last == task.killed \/ (~Forever /\ task.left = 0)
               t == [task EXCEPT !.timer = @ /\ ~last]
    <2>1. (task.timer /\ ~last) \in BOOLEAN
      BY <1>1 DEF TaskStates
    <2>2. /\ t \in TaskStates /\ t.killed = task.killed /\ t.replaced = task.replaced
          /\ t.held = task.held /\ t.left = task.left
      BY <1>1, <2>1 DEF TaskStates
    <2>3. last <=> AtLast(task)
      BY DEF AtLast
    <2> HIDE DEF t, last
    <2>4. \/ last /\ task' = [t EXCEPT !.at = "hook"] /\ ep' = Taken
             /\ UNCHANGED <<cur, progress>>
          \/ Again(t, Taken)
      BY <1>9 DEF PlayReturns, t, last
    <2> QED
      BY <1>7, <1>8, <2>2, <2>3, <2>4
  <1>10. CASE PlayThrows
    <2>1. \/ task' = [task EXCEPT !.at = "failing"] /\ ep' = Taken /\ UNCHANGED <<cur, progress>>
          \/ Finish(task) /\ ep' = Taken
      BY <1>10 DEF PlayThrows
    <2> QED
      BY <1>1, <1>7, <1>8, <2>1
  <1> QED
    BY <1>9, <1>10

LEMMA HookCalm ==
  ASSUME IInv, calm, NoneMissing, CalmOK(task, ep, emitter, progress), HookReplies
  PROVE  CalmInv'
  <1>1. /\ task \in TaskStates /\ ep \in EpStates /\ HeardOK(ep)
        /\ UNCHANGED <<calm, verb, emitter>> /\ task.at \in {"hook", "failing"}
        /\ Again(task, ep) \/ (Finish(task) /\ ep' = ep)
    BY DEF IInv, TypeOK, EpOK, CalmOK, HookReplies
  <1>2. CASE ~Is("play")
    BY <1>1, <1>2, SayGoesOnCalm DEF CalmOK
  <1>3. CASE Is("play")
    <2>1. HasPlayed(task, ep, emitter)
      BY <1>1, <1>3 DEF CalmOK, PlayOK, Waits, Plays
    <2>2. CASE task.at = "failing"
      <3>1. Finish(task) /\ ep' = ep
        BY <2>2 DEF HookReplies
      <3>2. HasPlayed(task, ep, emitter) /\ cur \in 1..N
        BY <2>1 DEF IInv, TypeOK
      <3>3. CASE cur' = cur + 1 /\ task' = Fresh(cur + 1) /\ progress' = cur + 1
        BY <1>1, <3>1, <3>2, <3>3, NextCalm DEF HasPlayed
      <3>4. CASE /\ task' = [task EXCEPT !.at = IF cur = N THEN "over" ELSE "waiting",
                                         !.held = FALSE]
                 /\ UNCHANGED <<cur, progress>>
        <4>1. /\ task'.at \in {"over", "waiting"} /\ task'.held = FALSE
              /\ task'.killed = task.killed /\ task'.replaced = task.replaced
          BY <1>1, <3>4 DEF TaskStates
        <4>2. HasPlayed(task', ep', emitter')
          BY <1>1, <2>1, <3>1, <3>4, <4>1 DEF HasPlayed, Halted
        <4>3. CalmOK(task', ep', emitter', progress')
          BY <1>1, <1>3, <3>1, <4>2 DEF CalmOK, PlayOK
        <4> QED
          BY <1>1, <3>4, <4>3, SameCalm
      <3> QED
        BY <3>1, <3>3, <3>4 DEF Finish
    <2>3. CASE task.at = "hook"
      BY <1>1, <1>3, <2>1, <2>3, PlayGoesOnCalm DEF HasPlayed
    <2> QED
      BY <1>1, <2>2, <2>3
  <1> QED
    BY <1>2, <1>3

(* The start of the audio is heard: a break that is cached breaks it, and   *)
(* otherwise the play listens for one.                                      *)
LEMMA StartedCalm ==
  ASSUME IInv, calm, NoneMissing, CalmOK(task, ep, emitter, progress), PlaybackStarted
  PROVE  CalmInv'
  <1> DEFINE ours == cur \in ep.saying /\ Matches(Head1)
             e == [Taken EXCEPT !.heard = TRUE, !.stopping = @ \/ ours, !.starting = <<>>,
                                !.saying = IF ours THEN @ \ {cur} ELSE @]
  <1>1. /\ ep \in EpStates /\ EpOK(ep) /\ HeardOK(ep) /\ Arrives("start")
        /\ UNCHANGED <<calm, verb, cur, task>> /\ Listen(ep.starting, e)
    BY DEF IInv, EpOK, CalmOK, PlaybackStarted
  <1>2. ep.audio # "sent" /\ ~Quiet(ep)
    <2>1. 1 \in DOMAIN ep.events /\ ep.events[1].type # "stop"
      BY <1>1 DEF Arrives, Head1, EpStates
    <2> QED
      BY <1>1, <2>1 DEF EpOK, Quiet, OnlyStops
  <1>3. /\ EpOK(Taken) /\ Taken \in EpStates /\ Taken.of = ep.of /\ Taken.audio = ep.audio
    BY <1>1, TakenOK DEF Arrives, Same, EpOK
  <1>4. (Taken.stopping \/ ours) \in BOOLEAN
        /\ (IF ours THEN Taken.saying \ {cur} ELSE Taken.saying) \in SUBSET (1..N)
        /\ <<>> \in Seq(1..N)
    BY <1>3 DEF EpStates
  <1>5. /\ e \in EpStates /\ e.events = Taken.events /\ e.of = Taken.of
        /\ e.audio = Taken.audio /\ e.heard /\ e.starting = <<>>
    BY <1>3, <1>4 DEF EpStates
  <1> HIDE DEF e, ours
  <1>6. EpOK(e)
    BY <1>3, <1>5 DEF EpOK
  <1>7. e.of = ep.of /\ e.audio \in {"on", "none"}
    BY <1>1, <1>2, <1>3, <1>5 DEF EpStates
  <1>8. HeardOK(e)
    BY <1>5, <1>7 DEF HeardOK
  <1>9. CASE ep.starting = <<>>
    <2>1. ep' = e /\ emitter'.cache = emitter.cache
          /\ emitter.listening \subseteq emitter'.listening
      BY <1>1, <1>9 DEF Listen, IInv, TypeOK, EmitterStates
    <2>2. Is("play") => PlayOK(task, ep', emitter', progress')
      <3> SUFFICES ASSUME Is("play") PROVE Plays(task, ep', emitter')
        BY DEF PlayOK
      <3>1. task.at = "playing"
        BY <1>2 DEF IInv
      <3>2. Plays(task, ep, emitter) /\ ep.heard
        <4>1. Plays(task, ep, emitter)
          BY <3>1 DEF CalmOK, PlayOK, Waits, HasPlayed
        <4>2. ep.starting # <<cur>>
          BY <1>9
        <4> QED
          BY <4>1, <4>2 DEF Plays
      <3>3. ep'.heard /\ ep'.of = ep.of /\ ep'.audio = ep.audio
        BY <1>3, <1>5, <2>1
      <3> QED
        BY <2>1, <3>2, <3>3 DEF Plays
    <2>3. CalmOK(task', ep', emitter', progress')
      BY <1>1, <1>8, <2>1, <2>2 DEF CalmOK
    <2> QED
      BY <1>1, <2>3, SameCalm
  <1>10. CASE ep.starting # <<>>
    <2>1. Is("play") /\ task.at = "playing" /\ ep.starting = <<cur>>
      BY <1>10 DEF IInv, StartInv
    <2>2. Plays(task, ep, emitter) /\ ~ep.heard
      BY <1>1, <1>10, <2>1 DEF CalmOK, PlayOK, Waits, HasPlayed, HeardOK
    <2>3. <<cur>>[1] = cur /\ DOMAIN <<cur>> = {1} /\ Len(<<cur>>) = 1
      OBVIOUS
    <2>4. CASE emitter.cache = {}
      <3>1. ep' = e /\ emitter' = [emitter EXCEPT !.listening = @ \cup {<<cur>>[i] : i \in {1}}]
        BY <1>1, <2>1, <2>3, <2>4 DEF Listen
      <3>2. emitter'.cache = {} /\ cur \in emitter'.listening
        BY <2>3, <2>4, <3>1 DEF IInv, TypeOK, EmitterStates
      <3>3. Plays(task', ep', emitter')
        BY <1>1, <1>5, <1>7, <2>2, <2>4, <3>1, <3>2 DEF Plays
      <3>4. CalmOK(task', ep', emitter', progress')
        BY <1>8, <2>1, <3>1, <3>3 DEF CalmOK, PlayOK
      <3> QED
        BY <1>1, <3>4, SameCalm
    <2>5. CASE emitter.cache # {}
      <3>1. emitter.cache = {cur} /\ Halted(task) /\ AtLast(task)
        BY <2>2, <2>5 DEF Plays
      <3>2. emitter'.cache = {} /\ ep' \in Broken(e)
        BY <1>1, <2>1, <2>3, <2>5, <3>1 DEF Listen, Silent
      <3>3. Muted(e, ep')
        BY <1>6, <3>2, BrokenMuted
      <3>4. ep'.of = ep.of /\ ep'.heard /\ ep'.audio = "none" /\ ep'.starting = <<>>
        BY <1>5, <1>7, <3>3 DEF Muted
      <3>5. Plays(task', ep', emitter')
        BY <1>1, <2>2, <3>1, <3>2, <3>4 DEF Plays
      <3>6. CalmOK(task', ep', emitter', progress')
        BY <2>1, <3>4, <3>5 DEF CalmOK, PlayOK, HeardOK
      <3> QED
        BY <1>1, <3>6, SameCalm
    <2> QED
      BY <2>4, <2>5
  <1> QED
    BY <1>9, <1>10

LEMMA StoppedCalm ==
  ASSUME IInv, calm, NoneMissing, CalmOK(task, ep, emitter, progress), PlaybackStopped
  PROVE  CalmInv'
  <1>1. /\ task \in TaskStates /\ ep \in EpStates /\ UNCHANGED <<calm, verb, cur, progress, emitter>>
    BY DEF IInv, TypeOK, EpOK, PlaybackStopped
  <1>2. /\ ep'.of = ep.of /\ ep'.heard = ep.heard /\ ep'.starting = ep.starting
        /\ ep'.audio = ep.audio
    BY <1>1 DEF PlaybackStopped, Taken, EpStates
  <1>3. /\ task'.at = task.at /\ task'.killed = task.killed /\ task'.held = task.held
        /\ task'.replaced = task.replaced /\ task'.left = task.left /\ task'.timer = task.timer
    BY <1>1 DEF PlaybackStopped, TaskStates
  <1>4. HeardOK(ep')
    BY <1>2 DEF CalmOK, HeardOK
  <1>5. Is("play") => PlayOK(task', ep', emitter', progress')
    BY <1>1, <1>2, <1>3 DEF CalmOK, PlayOK, Waits, Plays, HasPlayed, Halted, AtLast
  <1>6. CalmOK(task', ep', emitter', progress')
    BY <1>1, <1>3, <1>4, <1>5 DEF CalmOK
  <1> QED
    BY <1>1, <1>6, SameCalm

-------------------------------------------------------------------------------
(* A verb is stopped.                                                       *)

(* A break of a play that runs.                                             *)
LEMMA EmitCalm ==
  ASSUME IInv, calm, NoneMissing, CalmOK(task, ep, emitter, progress), InTime,
         Is("play"), task.at = "playing", Emit(cur, ep), UNCHANGED <<calm, verb, cur>>,
         task'.at = "playing", task'.killed
  PROVE  CalmInv'
  <1>1. EpOK(ep) /\ HeardOK(ep) /\ emitter \in EmitterStates
    BY DEF IInv, TypeOK, CalmOK
  <1>2. Plays(task, ep, emitter) /\ ~Halted(task)
    BY DEF CalmOK, PlayOK, Waits, HasPlayed, InTime, Halted
  <1>3. Halted(task') /\ AtLast(task')
    BY DEF Halted, AtLast
  <1>4. CASE ep.heard
    <2>1. cur \in emitter.listening
      BY <1>2, <1>4 DEF Plays
    <2>2. emitter'.cache = {} /\ ep' \in Broken(ep)
      BY <2>1 DEF Emit, Silent
    <2>3. Muted(ep, ep')
      BY <1>1, <2>2, BrokenMuted
    <2>4. ep.audio \in {"on", "none"}
      BY <1>1, <1>4 DEF EpOK, EpStates, HeardOK
    <2>5. ep'.of = cur /\ ep'.heard /\ ep'.audio = "none" /\ ep'.starting = <<>>
      BY <1>1, <1>2, <1>4, <2>3, <2>4 DEF Plays, Muted, HeardOK
    <2>6. Plays(task', ep', emitter')
      BY <1>3, <2>2, <2>5 DEF Plays
    <2>7. CalmOK(task', ep', emitter', progress')
      BY <2>5, <2>6 DEF CalmOK, PlayOK, HeardOK
    <2> QED
      BY <2>7, SameCalm
  <1>5. CASE ~ep.heard
    <2>1. emitter.listening = {}
      BY <1>5 DEF InTime
    <2>2. emitter'.cache = {cur} /\ ep' = ep
      BY <1>1, <2>1 DEF Emit, EmitterStates
    <2>3. Plays(task', ep', emitter')
      BY <1>2, <1>3, <1>5, <2>2 DEF Plays
    <2>4. CalmOK(task', ep', emitter', progress')
      BY <1>1, <2>2, <2>3 DEF CalmOK, PlayOK
    <2> QED
      BY <2>4, SameCalm
  <1> QED
    BY <1>4, <1>5

LEMMA TimesOutCalm ==
  ASSUME IInv, calm, NoneMissing, CalmOK(task, ep, emitter, progress), TimesOut
  PROVE  CalmInv'
  <1>1. task \in TaskStates /\ UNCHANGED <<calm, verb, cur>> /\ InTime /\ Is("play")
    BY DEF IInv, TypeOK, CalmOK, TimesOut
  <1>2. task.at = "playing" /\ Emit(cur, ep)
    BY DEF TimesOut, KillPlay
  <1>3. task'.at = "playing" /\ task'.killed
    BY <1>1 DEF TimesOut, TaskStates
  <1> QED
    BY <1>1, <1>2, <1>3, EmitCalm

(* replaceApplication()                                                     *)
LEMMA ReplacedCalm ==
  ASSUME IInv, calm, NoneMissing, CalmOK(task, ep, emitter, progress), NewApplication
  PROVE  CalmInv'
  <1>1. /\ task \in TaskStates /\ ep \in EpStates /\ EpOK(ep) /\ HeardOK(ep)
        /\ emitter \in EmitterStates /\ UNCHANGED <<calm, verb>> /\ InTime /\ ~Halted(task)
    BY DEF IInv, TypeOK, EpOK, CalmOK, NewApplication, InTime, Halted
  \* A say.
  <1>2. ASSUME ~Is("play"), cur' = cur, emitter' = emitter, ~task'.timer, HeardOK(ep')
        PROVE  CalmInv'
    <2>1. CalmOK(task', ep', emitter', progress')
      BY <1>2 DEF CalmOK
    <2> QED
      BY <1>1, <1>2, <2>1, SameCalm
  <1>3. CASE ReplaceCurrent
    <2> DEFINE t == [task EXCEPT !.held = FALSE, !.replaced = TRUE]
    <2>1. t \in TaskStates /\ t.at = task.at /\ t.timer = task.timer
      BY <1>1 DEF TaskStates
    <2>2. cur' = cur /\ task.held
      BY <1>3 DEF ReplaceCurrent
    <2>3. CASE Is("play")
      <3>1. task' = [t EXCEPT !.killed = TRUE] /\ KillPlay
        BY <1>3, <2>3 DEF ReplaceCurrent
      <3> HIDE DEF t
      <3>2. task'.at = task.at /\ task'.killed
        BY <2>1, <3>1 DEF TaskStates
      <3>3. CASE task.at = "playing"
        BY <1>1, <2>2, <2>3, <3>1, <3>2, <3>3, EmitCalm DEF KillPlay
      <3>4. CASE task.at # "playing"
        <4>1. task.at = "failing" /\ HasPlayed(task, ep, emitter)
          BY <1>1, <2>2, <2>3, <3>4 DEF CalmOK, PlayOK, Waits, Plays, HasPlayed, InTime
        <4>2. UNCHANGED <<emitter, progress, ep>>
          BY <3>1, <4>1 DEF KillPlay
        <4>3. HasPlayed(task', ep', emitter')
          BY <3>2, <4>1, <4>2 DEF HasPlayed, Halted
        <4>4. CalmOK(task', ep', emitter', progress')
          BY <1>1, <2>3, <4>2, <4>3 DEF CalmOK, PlayOK
        <4> QED
          BY <1>1, <2>2, <4>4, SameCalm
      <3> QED
        BY <3>3, <3>4
    <2>4. CASE ~Is("play")
      <3>1. task' = KilledSay(t) /\ KillSay
        BY <1>3, <2>4 DEF ReplaceCurrent
      <3> HIDE DEF t
      <3>2. ~task'.timer
        BY <2>1, <2>4, <3>1 DEF KilledSay, TaskStates, CalmOK
      <3>3. PICK e \in Broken(ep) :
              ep' = [e EXCEPT !.starting = <<>>, !.saying = {}, !.stopping = FALSE]
        BY <3>1 DEF KillSay
      <3>4. e \in EpStates /\ Muted(ep, e)
        BY <1>1, BrokenOK, BrokenMuted DEF EpOK
      <3>5. ep'.heard = e.heard /\ ep'.audio = e.audio /\ ep'.starting = <<>>
        BY <3>3, <3>4 DEF EpStates
      <3>6. HeardOK(ep')
        BY <1>1, <3>4, <3>5 DEF HeardOK, Muted
      <3> QED
        BY <1>2, <2>2, <2>4, <3>1, <3>2, <3>6 DEF KillSay
    <2> QED
      BY <2>3, <2>4
  <1>4. CASE ReplaceUnseen
    <2>1. /\ ~task.held /\ Running /\ task' = [task EXCEPT !.replaced = TRUE]
          /\ BreakInProgress /\ cur' = cur
      BY <1>4 DEF ReplaceUnseen
    <2>2. /\ task'.at = task.at /\ task'.killed = task.killed /\ task'.held = task.held
          /\ task'.left = task.left /\ task'.timer = task.timer /\ task'.replaced
      BY <1>1, <2>1 DEF TaskStates
    <2>3. CASE Is("play")
      <3>1. Waits(task, ep, emitter, progress)
        BY <1>1, <2>1, <2>3 DEF CalmOK, PlayOK, Plays, HasPlayed, Running
      <3>2. progress = cur /\ verb[cur].loop = 1 /\ ep.of # cur
        BY <1>1, <3>1 DEF Waits, InTime, IInv, EpOK, EpStates, TypeOK
      <3>3. emitter.listening = {} /\ Emit(cur, ep)
        BY <1>1, <2>1, <2>3, <3>2 DEF InTime, BreakInProgress
      <3>4. emitter'.cache = {cur} /\ ep' = ep
        BY <1>1, <3>3 DEF Emit, EmitterStates
      <3>5. Waits(task', ep', emitter', progress')
        BY <2>2, <3>1, <3>2, <3>4 DEF Waits, Halted
      <3>6. CalmOK(task', ep', emitter', progress')
        BY <1>1, <2>3, <3>4, <3>5 DEF CalmOK, PlayOK
      <3> QED
        BY <1>1, <2>1, <3>6, SameCalm
    <2>4. CASE ~Is("play")
      <3>1. UNCHANGED <<emitter, ep>>
        BY <2>1, <2>4 DEF BreakInProgress
      <3>2. ~task'.timer
        BY <2>2, <2>4 DEF CalmOK
      <3> QED
        BY <1>1, <1>2, <2>1, <2>4, <3>1, <3>2
    <2> QED
      BY <2>3, <2>4
  <1>5. CASE WakeUp
    <2>1. /\ task.at = "waiting" /\ cur' = cur + 1 /\ task' = Fresh(cur + 1)
          /\ progress' = cur + 1 /\ ep' = ep
      BY <1>5 DEF WakeUp
    <2>2. emitter'.cache = {}
      <3>1. CASE Is("play")
        <4>1. cur \in emitter.listening
          BY <1>1, <2>1, <3>1 DEF CalmOK, PlayOK, Waits, Plays, HasPlayed
        <4> QED
          BY <1>5, <3>1, <4>1 DEF WakeUp, Silent
      <3>2. CASE ~Is("play")
        BY <1>5, <3>2 DEF WakeUp, CalmOK
      <3> QED
        BY <3>1, <3>2
    <2> QED
      BY <1>1, <2>1, <2>2, NextCalm
  <1> QED
    BY <1>3, <1>4, <1>5 DEF NewApplication

-------------------------------------------------------------------------------
(* exec() stops no verb: only the timer and applications do.                *)
LEMMA UnstoppedGoesOn ==
  ASSUME NEW t \in TaskStates, ~Halted(t), NEW e, Again(t, e) \/ Finish(t)
  PROVE  ~Stopped'
  <1>1. CASE task' = Fresh(cur + 1)
    BY <1>1 DEF Fresh, Stopped
  <1>2. CASE task' = [t EXCEPT !.at = IF cur = N THEN "over" ELSE "waiting", !.held = FALSE]
    BY <1>2 DEF TaskStates, Stopped, Halted
  <1>3. CASE task' = [t EXCEPT !.at = "playing", !.said = "open",
                               !.left = IF Forever THEN @ ELSE @ - 1]
    BY <1>3 DEF TaskStates, Stopped, Halted
  <1> QED
    BY <1>1, <1>2, <1>3 DEF Again, Finish

LEMMA TaskStepStopsNone ==
  ASSUME task \in TaskStates, cur \in 1..N, verb \in [1..N -> Verbs], ~Stopped, TaskStep
  PROVE  ~Stopped'
  <1>1. ~Halted(task)
    BY DEF Halted, Stopped
  \* The fallback begins, or the verb ends.
  <1>2. ASSUME NEW t \in TaskStates, ~Halted(t), Fallback(t)
        PROVE  ~Stopped'
    <2>1. CASE task' = [t EXCEPT !.at = "fallback", !.primary = FALSE, !.vendor = "fallback"]
      BY <1>2, <2>1 DEF TaskStates, Stopped, Halted
    <2> QED
      BY <1>2, <2>1, UnstoppedGoesOn DEF Fallback
  <1>3. CASE Prepared
    <2>1. CASE Is("play")
      <3> DEFINE t == [[task EXCEPT !.held = TRUE] EXCEPT !.timer = verb[cur].timed]
      <3>1. verb[cur].timed \in BOOLEAN
        BY PlaybackAssumption DEF VerbSet
      <3>2. t \in TaskStates /\ ~Halted(t)
        BY <1>1, <3>1 DEF TaskStates, Halted
      <3> HIDE DEF t
      <3>3. Again(t, ep)
        BY <1>3, <2>1 DEF Prepared, t
      <3> QED
        BY <3>2, <3>3, UnstoppedGoesOn
    <2>2. CASE ~Is("play")
      <3>1. PICK v \in {"primary", "fallback"} :
              task' = [[task EXCEPT !.held = TRUE] EXCEPT !.at = "synth", !.vendor = v]
        BY <1>3, <2>2 DEF Prepared
      <3> QED
        BY <1>1, <3>1 DEF TaskStates, Stopped, Halted
    <2> QED
      BY <2>1, <2>2
  <1>4. CASE Synthesized
    <2> DEFINE t == [task EXCEPT !.id = IF @ = Nothing THEN Source(task) ELSE @]
    <2>1. Source(task) \in {"file", "primary", "fallback"}
      BY DEF Source, TaskStates
    <2>2. t \in TaskStates /\ ~Halted(t)
      BY <1>1, <2>1 DEF TaskStates, Halted
    <2> HIDE DEF t
    <2> QED
      BY <1>4, <2>2, UnstoppedGoesOn DEF Synthesized, t
  <1>5. CASE SynthFails
    BY <1>1, <1>2, <1>5 DEF SynthFails
  <1>6. CASE FallbackFails
    <2>1. CASE task' = [task EXCEPT !.at = "over", !.held = FALSE]
      BY <1>1, <2>1 DEF TaskStates, Stopped, Halted
    <2> QED
      BY <1>1, <1>6, <2>1, UnstoppedGoesOn DEF FallbackFails
  <1>7. CASE SayGoesOn
    <2>1. CASE task.said = "ok"
      BY <1>1, <1>7, <2>1, UnstoppedGoesOn DEF SayGoesOn
    <2>2. CASE task.said # "ok"
      <3> DEFINE t == [task EXCEPT !.left = IF Forever THEN @ ELSE @ + 1]
      <3>1. (IF Forever THEN task.left ELSE task.left + 1) \in Nat
        BY DEF TaskStates
      <3>2. t \in TaskStates /\ ~Halted(t)
        BY <1>1, <3>1 DEF TaskStates, Halted
      <3> HIDE DEF t
      <3> QED
        BY <1>2, <1>7, <2>2, <3>2 DEF SayGoesOn, t
    <2> QED
      BY <2>1, <2>2
  <1>8. CASE HookReplies
    BY <1>1, <1>8, UnstoppedGoesOn DEF HookReplies
  <1>9. CASE PlayReturns
    <2> DEFINE last == task.killed \/ (~Forever /\ task.left = 0)
               t == [task EXCEPT !.timer = @ /\ ~last]
    <2>1. (task.timer /\ ~last) \in BOOLEAN
      BY DEF TaskStates
    <2>2. t \in TaskStates /\ ~Halted(t)
      BY <1>1, <2>1 DEF TaskStates, Halted
    <2> HIDE DEF t, last
    <2>3. task' = [t EXCEPT !.at = "hook"] \/ Again(t, Taken)
      BY <1>9 DEF PlayReturns, t, last
    <2>4. CASE task' = [t EXCEPT !.at = "hook"]
      BY <2>2, <2>4 DEF TaskStates, Stopped, Halted
    <2> QED
      BY <2>2, <2>3, <2>4, UnstoppedGoesOn
  <1>10. CASE PlayThrows
    <2>1. CASE task' = [task EXCEPT !.at = "failing"]
      BY <1>1, <2>1 DEF TaskStates, Stopped, Halted
    <2> QED
      BY <1>1, <1>10, <2>1, UnstoppedGoesOn DEF PlayThrows
  <1>11. CASE SayReturns
    BY <1>1, <1>11 DEF SayReturns, TaskStates, Stopped, Halted
  <1>12. CASE PlaybackStarted
    BY <1>12 DEF PlaybackStarted, Stopped
  <1>13. CASE PlaybackStopped
    BY <1>1, <1>13 DEF PlaybackStopped, TaskStates, Stopped, Halted
  <1> QED
    BY <1>3, <1>4, <1>5, <1>6, <1>7, <1>8, <1>9, <1>10, <1>11, <1>12, <1>13 DEF TaskStep

(* Every step keeps the invariant.                                          *)
LEMMA NextCalmInv == IInv /\ CalmInv /\ [Next]_vars => CalmInv'
  <1> SUFFICES ASSUME IInv, CalmInv, [Next]_vars, calm' PROVE CalmInv'
    BY DEF CalmInv
  <1>1. /\ task \in TaskStates /\ cur \in 1..N /\ verb \in [1..N -> Verbs]
    BY DEF IInv, TypeOK
  <1>2. CASE UNCHANGED vars
    BY <1>2
    DEF vars, CalmInv, CalmOK, HeardOK, PlayOK, Waits, Plays, HasPlayed, Halted, AtLast,
        Forever, Is, NoneMissing, Stopped
  <1>3. CASE Next
    <2>1. calm /\ UNCHANGED <<calm, verb>>
      BY <1>3
      DEF Next, MediaStep, AudioStarts, AudioFails, AudioEnds, TaskStep, Prepared,
          Synthesized, SynthFails, FallbackFails, SayGoesOn, HookReplies, PlaybackStarted,
          PlaybackStopped, PlayReturns, PlayThrows, SayReturns, TimesOut, NewApplication
    <2>2. CASE NoneMissing
      <3>1. CalmOK(task, ep, emitter, progress)
        BY <2>1, <2>2 DEF CalmInv
      <3> QED
        BY <1>3, <2>1, <2>2, <3>1, MediaCalm, PreparedCalm, SayCalm, PlayCalm, HookCalm,
           StartedCalm, StoppedCalm, TimesOutCalm, ReplacedCalm
        DEF Next, TaskStep
    <2>3. CASE ~NoneMissing
      <3>1. ~Stopped /\ ~NoneMissing'
        BY <2>1, <2>3 DEF CalmInv, NoneMissing
      <3>2. ~TimesOut /\ ~NewApplication
        BY <2>1, <2>3 DEF TimesOut, NewApplication, InTime
      <3>3. MediaStep => task' = task
        BY DEF MediaStep, AudioStarts, AudioFails, AudioEnds
      <3>4. ~Stopped'
        BY <1>1, <1>3, <3>1, <3>2, <3>3, TaskStepStopsNone DEF Next, Stopped
      <3> QED
        BY <3>1, <3>4 DEF CalmInv
    <2> QED
      BY <2>2, <2>3
  <1> QED
    BY <1>2, <1>3

(* The first verb is not stopped.                                           *)
LEMMA InitCalm == Init => CalmInv
  <1> SUFFICES ASSUME Init PROVE CalmInv
    OBVIOUS
  <1>1. /\ cur = 1 /\ progress = 1 /\ task = Fresh(1) /\ emitter.cache = {}
        /\ ep.of = 0 /\ ~ep.heard
    BY DEF Init, Silent
  <1>2. /\ task.at = "preparing" /\ ~task.killed /\ ~task.held /\ ~task.replaced
        /\ ~task.timer /\ task.left = verb[1].loop
    BY <1>1 DEF Fresh
  <1>3. Waits(task, ep, emitter, progress)
    BY <1>1, <1>2 DEF Waits, Halted
  <1> QED
    BY <1>1, <1>2, <1>3 DEF CalmInv, CalmOK, PlayOK, HeardOK, Stopped

(* Whether a play is stopped before it begins, before its audio starts or   *)
(* while it plays, by its timer or by another application, its audio is     *)
(* broken, directly or when its start is heard, if it is stopped in time.   *)
THEOREM CalmStopBreaksCorrect == Spec => []CalmStopBreaks
  <1>1. IInv /\ CalmInv => CalmStopBreaks
    <2> SUFFICES ASSUME IInv, CalmInv, calm, Is("play"), ep.of = cur, ep.heard, Stopped
                 PROVE  ep.audio # "on"
      BY DEF CalmStopBreaks, StopBreaks
    <2>1. PlayOK(task, ep, emitter, progress) /\ Halted(task)
      BY DEF CalmInv, CalmOK, Stopped, Halted
    <2>2. cur \in Nat /\ (task.at # "playing" => ep.audio = "none")
      BY PlaybackAssumption DEF IInv, TypeOK, Quiet
    <2> QED
      BY <2>1, <2>2 DEF PlayOK, Waits, Plays, HasPlayed
  <1>2. Init => IInv /\ CalmInv
    BY InitOK, InitCalm
  <1>3. IInv /\ CalmInv /\ [Next]_vars => (IInv /\ CalmInv)'
    BY StepOK, NextCalmInv
  <1> QED
    BY <1>1, <1>2, <1>3, PTL DEF Spec
===============================================================================
