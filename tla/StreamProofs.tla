---------------------------- MODULE StreamProofs -----------------------------
(***************************************************************************)
(* Theorems about the two components that stream to somebody who may not   *)
(* be there yet, and keep what is to be sent meanwhile.                    *)
(*                                                                         *)
(* WsRequestor, for any messages, limits and bounds.  A handler is a       *)
(* composition of functions on the requestor, so most lemmas say of one of *)
(* these what it preserves; OneSocket needs a retry policy that does not   *)
(* include rejections.                                                     *)
(*                                                                         *)
(* TtsStreamingBuffer, for any texts, water marks and orders of replies,   *)
(* connections and timeouts: text is sent once and in order, a flush       *)
(* follows the text before it, what is held back will be looked at again.  *)
(***************************************************************************)
EXTENDS WsRequestor, TtsStreamingBuffer, WellFoundedInduction, TLAPS

------------------------------------------------------------------------------
(* The inductive invariant of a requestor a.                                *)

NoRepeat(s) == \A i, j \in DOMAIN s : s[i] = s[j] => i = j
Unsent == {"idle", "dialing", "backoff", "queued", "immediate"}

(* What is queued waits, what was sent does not, and an ack timer runs for  *)
(* a message that is in flight.                                             *)
MsgInv(a) ==
  /\ NoRepeat(a.queue) /\ NoRepeat(a.log)
  /\ \A m \in ToSet(a.queue) \cup a.notes : a.msg[m] = "queued"
  /\ ToSet(a.queue) \cap a.notes = {}
  /\ \A m \in ToSet(a.log) : a.msg[m] \notin Unsent
  /\ \A m \in a.timed : a.msg[m] = "inflight"

(* The handshake reports to the message that dials.                         *)
ListenerInv(a) == a.listener \in Msgs => a.msg[a.listener] = "dialing"

(* There is one handshake, or one message that will dial again, or none;    *)
(* meanwhile connectInProgress is set and there is no socket.               *)
ConnInv(a) ==
  /\ ~a.crashed
  /\ a.dials \in {0, 1}
  /\ a.dials = 1 => a.connecting /\ ~a.ws
  /\ \A m \in Msgs : a.msg[m] = "backoff" =>
       /\ a.connecting /\ ~a.ws /\ a.dials = 0
       /\ \A n \in Msgs : a.msg[n] = "backoff" => n = m

K(a) == a \in Requestors /\ MsgInv(a) /\ ListenerInv(a)

(* What a function does that neither opens nor drops a socket: it settles   *)
(* nothing twice and leaves who dials as it is.                             *)
Keeps(a, b) == \A m \in Msgs : a.msg[m] \in Final => b.msg[m] = a.msg[m]
NoBackoff(a, b) == \A m \in Msgs : b.msg[m] = "backoff" => a.msg[m] = "backoff"
SameConn(a, b) ==
  /\ b.ws = a.ws /\ b.connecting = a.connecting /\ b.dials = a.dials
  /\ b.listener = a.listener /\ b.crashed = a.crashed
Mild(a, b) == K(b) /\ Keeps(a, b) /\ NoBackoff(a, b) /\ SameConn(a, b)

(* Nothing happens to messages that are neither queued nor in flight.       *)
Others(a, b) ==
  \A m \in Msgs : a.msg[m] \notin {"queued", "inflight"} => b.msg[m] = a.msg[m]

------------------------------------------------------------------------------
(* Sequences of messages.                                                   *)

(* The empty sequence has no positions.                                     *)
LEMMA EmptyDomain ==
  ASSUME NEW e, e = <<>>
  PROVE  e \in Seq(Msgs) /\ DOMAIN e = {}
  OBVIOUS

(* Nothing is in a sequence without positions.                              *)
LEMMA NothingIn ==
  ASSUME NEW e, DOMAIN e = {}
  PROVE  ToSet(e) = {} /\ NoRepeat(e)
  BY Zenon DEF ToSet, NoRepeat

(* A sequence of one message.                                               *)
LEMMA SingleSeq ==
  ASSUME NEW m \in Msgs
  PROVE  <<m>> \in Seq(Msgs) /\ ToSet(<<m>>) = {m} /\ NoRepeat(<<m>>)
  BY DEF ToSet, NoRepeat

(* A new message at the end, as send() and request() add it.                *)
LEMMA AppendSeq ==
  ASSUME NEW s \in Seq(Msgs), NEW m \in Msgs
  PROVE  /\ Append(s, m) \in Seq(Msgs) /\ ToSet(Append(s, m)) = ToSet(s) \cup {m}
         /\ NoRepeat(s) /\ m \notin ToSet(s) => NoRepeat(Append(s, m))
  <1> DEFINE e == Append(s, m)
  <1>1. /\ e \in Seq(Msgs) /\ DOMAIN e = DOMAIN s \cup {Len(s) + 1}
        /\ Len(s) + 1 \notin DOMAIN s /\ e[Len(s) + 1] = m
        /\ \A i \in DOMAIN s : e[i] = s[i]
    OBVIOUS
  <1> HIDE DEF e
  <1>2. ToSet(e) = ToSet(s) \cup {m}
    BY <1>1 DEF ToSet
  <1>3. NoRepeat(s) /\ m \notin ToSet(s) => NoRepeat(e)
    BY <1>1 DEF ToSet, NoRepeat
  <1> QED
    BY <1>1, <1>2, <1>3 DEF e

(* Two disjoint queues, one after the other.                                *)
LEMMA ConcatSeq ==
  ASSUME NEW s \in Seq(Msgs), NEW t \in Seq(Msgs)
  PROVE  /\ s \o t \in Seq(Msgs) /\ ToSet(s \o t) = ToSet(s) \cup ToSet(t)
         /\ NoRepeat(s) /\ NoRepeat(t) /\ ToSet(s) \cap ToSet(t) = {} => NoRepeat(s \o t)
  <1> DEFINE e == s \o t
  <1>1. /\ e \in Seq(Msgs) /\ Len(e) = Len(s) + Len(t)
        /\ DOMAIN s = 1..Len(s) /\ DOMAIN t = 1..Len(t) /\ DOMAIN e = 1..Len(e)
        /\ Len(s) \in Nat /\ Len(t) \in Nat
        /\ \A i \in 1..Len(e) : e[i] = IF i <= Len(s) THEN s[i] ELSE t[i - Len(s)]
    OBVIOUS
  <1> HIDE DEF e
  <1>2. \A i \in DOMAIN s : i \in DOMAIN e /\ e[i] = s[i]
    BY <1>1
  <1>3. \A i \in DOMAIN t : i + Len(s) \in DOMAIN e /\ e[i + Len(s)] = t[i]
    BY <1>1
  <1>4. \A i \in DOMAIN e : \/ i \in DOMAIN s /\ e[i] = s[i]
                            \/ i - Len(s) \in DOMAIN t /\ e[i] = t[i - Len(s)]
    BY <1>1
  <1>5. ToSet(e) = ToSet(s) \cup ToSet(t)
    <2>1. ToSet(e) \subseteq ToSet(s) \cup ToSet(t)
      BY <1>4 DEF ToSet
    <2>2. ToSet(s) \subseteq ToSet(e)
      BY <1>2 DEF ToSet
    <2>3. ToSet(t) \subseteq ToSet(e)
      BY <1>3 DEF ToSet
    <2> QED
      BY <2>1, <2>2, <2>3
  <1>6. ASSUME NoRepeat(s), NoRepeat(t), ToSet(s) \cap ToSet(t) = {}
        PROVE  NoRepeat(e)
    <2> SUFFICES ASSUME NEW i \in DOMAIN e, NEW j \in DOMAIN e, e[i] = e[j]
                 PROVE  i = j
      BY DEF NoRepeat
    <2>1. CASE i \in DOMAIN s /\ j \in DOMAIN s
      BY <1>2, <1>6, <2>1 DEF NoRepeat
    <2>2. CASE i \notin DOMAIN s /\ j \notin DOMAIN s
      <3>1. i - Len(s) \in DOMAIN t /\ j - Len(s) \in DOMAIN t /\ t[i - Len(s)] = t[j - Len(s)]
        BY <1>4, <2>2
      <3>2. i - Len(s) = j - Len(s)
        BY <1>6, <3>1 DEF NoRepeat
      <3> QED
        BY <1>1, <3>2
    <2>3. CASE i \in DOMAIN s /\ j \notin DOMAIN s
      BY <1>2, <1>4, <1>6, <2>3 DEF ToSet
    <2>4. CASE i \notin DOMAIN s /\ j \in DOMAIN s
      BY <1>2, <1>4, <1>6, <2>4 DEF ToSet
    <2> QED
      BY <2>1, <2>2, <2>3, <2>4
  <1> QED
    BY <1>1, <1>5, <1>6 DEF e

------------------------------------------------------------------------------
(* The functions.                                                           *)

(* Two mild changes in a row are a mild change.                             *)
LEMMA MildTrans ==
  ASSUME NEW a, NEW b, NEW c, Mild(a, b), Mild(b, c)
  PROVE  Mild(a, c) /\ (Others(a, b) /\ Others(b, c) => Others(a, c))
  BY DEF Mild, Others, Keeps, NoBackoff, SameConn

(* Who dials is the same, and nobody new will dial again.                   *)
LEMMA MildConn ==
  ASSUME NEW a, NEW b, ConnInv(a), Mild(a, b)
  PROVE  ConnInv(b)
  BY DEF Mild, NoBackoff, SameConn, ConnInv

(* A message that is free to be sent or queued.                             *)
Loose(a, m) == m \in Msgs /\ a.msg[m] \in {"idle", "dialing", "immediate"} /\ a.listener # m

(* queuedMsg takes the message.                                             *)
LEMMA QueuedMild ==
  ASSUME NEW a, K(a), NEW m, Loose(a, m)
  PROVE  Mild(a, Queued(a, m))
  <1> DEFINE b == Queued(a, m)
  <1>1. a \in Requestors /\ MsgInv(a) /\ ListenerInv(a) /\ m \in Msgs
    BY DEF K, Loose
  <1>2. /\ b.msg = [a.msg EXCEPT ![m] = "queued"]
        /\ b.queue = IF WantsAck(m) THEN Append(a.queue, m) ELSE a.queue
        /\ b.notes = IF WantsAck(m) THEN a.notes ELSE a.notes \cup {m}
        /\ b.log = a.log /\ b.timed = a.timed /\ SameConn(a, b)
    BY <1>1 DEF Queued, Requestors, SameConn
  <1>3. a.queue \in Seq(Msgs) /\ a.msg \in [Msgs -> Final \cup Progress]
    BY <1>1 DEF Requestors
  <1>4. m \notin ToSet(a.queue) \cup a.notes /\ m \notin ToSet(a.log) /\ m \notin a.timed
    BY <1>1 DEF MsgInv, Loose, Unsent
  <1>5. /\ Append(a.queue, m) \in Seq(Msgs)
        /\ ToSet(Append(a.queue, m)) = ToSet(a.queue) \cup {m}
        /\ NoRepeat(a.queue) => NoRepeat(Append(a.queue, m))
    BY <1>1, <1>3, <1>4, AppendSeq
  <1>6. b \in Requestors
    BY <1>1, <1>5 DEF Queued, Requestors, Progress
  <1> HIDE DEF b
  <1>7. MsgInv(b)
    BY <1>1, <1>2, <1>3, <1>4, <1>5 DEF MsgInv, Unsent
  <1>8. ListenerInv(b) /\ Keeps(a, b) /\ NoBackoff(a, b)
    BY <1>1, <1>2, <1>3 DEF ListenerInv, Keeps, NoBackoff, SameConn, Loose, Final
  <1> QED
    BY <1>2, <1>6, <1>7, <1>8 DEF K, Mild, b

(* Messages that are sent were not sent before, and wait nowhere else.      *)
LEMMA TransmittedMild ==
  ASSUME NEW a, K(a), NEW ms \in Seq(Msgs), NoRepeat(ms),
         \A m \in ToSet(ms) : a.msg[m] \in Unsent \ {"backoff"} /\ a.listener # m,
         ToSet(ms) \cap ToSet(a.queue) = {}, ToSet(ms) \cap a.notes = {}
  PROVE  /\ Mild(a, Transmitted(a, ms))
         /\ \A m \in Msgs \ ToSet(ms) : Transmitted(a, ms).msg[m] = a.msg[m]
  <1> DEFINE acks == {m \in ToSet(ms) : WantsAck(m)}
             f == [m \in Msgs |-> IF m \in acks THEN "inflight"
                                  ELSE IF m \in ToSet(ms) THEN "sent" ELSE a.msg[m]]
             b == Transmitted(a, ms)
  <1>1. a \in Requestors /\ MsgInv(a) /\ ListenerInv(a)
    BY DEF K
  <1>2. a.log \in Seq(Msgs) /\ a.msg \in [Msgs -> Final \cup Progress] /\ ToSet(ms) \subseteq Msgs
    BY <1>1 DEF Requestors, ToSet
  <1>3. /\ a.log \o ms \in Seq(Msgs) /\ ToSet(a.log \o ms) = ToSet(a.log) \cup ToSet(ms)
        /\ NoRepeat(a.log \o ms)
    BY <1>1, <1>2, ConcatSeq DEF MsgInv
  <1>4. acks \subseteq ToSet(ms)
    OBVIOUS
  <1>5. f \in [Msgs -> Final \cup Progress]
    BY <1>2 DEF Final, Progress
  <1>6. b = [a EXCEPT !.log = a.log \o ms, !.msg = f, !.timed = a.timed \cup acks,
                      !.init = a.init \/ New \in acks]
    BY <1>1 DEF Transmitted
  <1>7. /\ \A m \in ToSet(ms) : f[m] \in {"inflight", "sent"}
        /\ \A m \in acks : f[m] = "inflight"
        /\ \A m \in Msgs \ ToSet(ms) : f[m] = a.msg[m]
    BY <1>2
  <1> HIDE DEF acks, f
  <1>8. /\ b.msg = f /\ b.queue = a.queue /\ b.notes = a.notes /\ b.log = a.log \o ms
        /\ b.timed = a.timed \cup acks /\ SameConn(a, b)
    BY <1>1, <1>6 DEF Requestors, SameConn
  <1>9. b \in Requestors
    <2>1. a.timed \cup acks \subseteq Msgs
      BY <1>1, <1>2, <1>4 DEF Requestors
    <2>2. (a.init \/ New \in acks) \in BOOLEAN
      OBVIOUS
    <2> QED
      BY <1>1, <1>3, <1>5, <1>6, <2>1, <2>2 DEF Requestors
  <1> HIDE DEF b
  <1>10. MsgInv(b)
    <2>1. \A m \in ToSet(a.queue) \cup a.notes : m \in Msgs /\ m \notin ToSet(ms)
      <3>1. ToSet(a.queue) \subseteq Msgs /\ a.notes \subseteq Msgs
        BY <1>1 DEF Requestors, ToSet
      <3> QED
        BY <3>1
    <2>2. NoRepeat(b.queue) /\ NoRepeat(b.log) /\ ToSet(b.queue) \cap b.notes = {}
      BY <1>1, <1>3, <1>8 DEF MsgInv
    <2>3. \A m \in ToSet(b.queue) \cup b.notes : b.msg[m] = "queued"
      BY <1>1, <1>7, <1>8, <2>1 DEF MsgInv
    <2>4. \A m \in ToSet(a.log) : m \in Msgs /\ a.msg[m] \notin Unsent
      <3>1. ToSet(a.log) \subseteq Msgs
        BY <1>2 DEF ToSet
      <3> QED
        BY <1>1, <3>1 DEF MsgInv
    <2>5. \A m \in ToSet(b.log) : b.msg[m] \notin Unsent
      BY <1>3, <1>7, <1>8, <2>4 DEF Unsent
    <2>6. \A m \in a.timed : m \in Msgs /\ m \notin ToSet(ms) /\ a.msg[m] = "inflight"
      BY <1>1 DEF MsgInv, Requestors, Unsent
    <2>7. \A m \in b.timed : b.msg[m] = "inflight"
      BY <1>7, <1>8, <2>6
    <2> QED
      BY <2>2, <2>3, <2>5, <2>7 DEF MsgInv
  <1>11. ListenerInv(b)
    BY <1>1, <1>7, <1>8 DEF ListenerInv, SameConn
  <1>12. Keeps(a, b)
    BY <1>7, <1>8 DEF Keeps, Final, Unsent
  <1>13. NoBackoff(a, b)
    BY <1>7, <1>8 DEF NoBackoff
  <1> QED
    BY <1>7, <1>8, <1>9, <1>10, <1>11, <1>12, <1>13 DEF K, Mild, b

(* A change of what is not looked at.                                       *)
LEMMA UnseenMild ==
  ASSUME NEW a, K(a), NEW b \in Requestors, SameConn(a, b),
         b.msg = a.msg, b.queue = a.queue, b.notes = a.notes, b.log = a.log,
         b.timed \subseteq a.timed
  PROVE  Mild(a, b) /\ Others(a, b)
  BY DEF K, Mild, Others, MsgInv, ListenerInv, Keeps, NoBackoff, SameConn

(* Messages of the queue are given an outcome, or a turn of their own.      *)
LEMMA DequeuedMild ==
  ASSUME NEW a, K(a), NEW b \in Requestors, SameConn(a, b), b.log = a.log,
         b.timed = a.timed, DOMAIN b.queue = {}, b.notes = {},
         \A m \in Msgs : IF m \in ToSet(a.queue) \cup a.notes
                        THEN b.msg[m] \in {"queued", "immediate", "failed", "discarded"}
                        ELSE b.msg[m] = a.msg[m],
         \A m \in ToSet(a.log) : b.msg[m] = a.msg[m]
  PROVE  Mild(a, b) /\ Others(a, b)
  <1>1. a \in Requestors /\ MsgInv(a) /\ ListenerInv(a)
    BY DEF K
  <1>2. \A m \in ToSet(a.queue) \cup a.notes : m \notin a.timed /\ a.msg[m] = "queued"
    BY <1>1 DEF MsgInv
  <1>3. ToSet(b.queue) = {} /\ NoRepeat(b.queue)
    BY NothingIn
  <1>4. a.timed \subseteq Msgs
    BY <1>1 DEF Requestors
  <1>5. MsgInv(b)
    BY <1>1, <1>2, <1>3, <1>4 DEF MsgInv
  <1>6. ListenerInv(b)
    BY <1>1, <1>2 DEF ListenerInv, SameConn
  <1>7. Keeps(a, b)
    BY <1>2 DEF Keeps, Final
  <1>8. NoBackoff(a, b)
    BY DEF NoBackoff
  <1>9. Others(a, b)
    BY <1>2 DEF Others
  <1> QED
    BY <1>5, <1>6, <1>7, <1>8, <1>9 DEF K, Mild

(* No change is a mild change.                                              *)
LEMMA MildItself ==
  ASSUME NEW a, K(a)
  PROVE  Mild(a, a)
  BY DEF Mild, Keeps, NoBackoff, SameConn

(* What K says of the queue and of the notifications.                       *)
LEMMA QueueTypes ==
  ASSUME NEW a, K(a)
  PROVE  /\ a \in Requestors /\ a.msg \in [Msgs -> Final \cup Progress]
         /\ a.queue \in Seq(Msgs) /\ ToSet(a.queue) \subseteq Msgs /\ a.notes \subseteq Msgs
         /\ NoRepeat(a.queue) /\ ToSet(a.queue) \cap a.notes = {}
         /\ \A m \in ToSet(a.queue) \cup a.notes : a.msg[m] = "queued"
         /\ \A m \in ToSet(a.queue) \cup a.notes : m \notin ToSet(a.log)
         /\ \A m \in ToSet(a.queue) \cup a.notes : a.listener # m
  <1>1. a \in Requestors /\ MsgInv(a) /\ ListenerInv(a)
    BY DEF K
  <1>2. a.queue \in Seq(Msgs) /\ a.notes \subseteq Msgs /\ a.msg \in [Msgs -> Final \cup Progress]
    BY <1>1 DEF Requestors
  <1>3. ToSet(a.queue) \subseteq Msgs
    BY <1>2 DEF ToSet
  <1> QED
    BY <1>1, <1>2, <1>3 DEF MsgInv, ListenerInv, Unsent

(* sendQueuedMsgs                                                           *)
LEMMA SendQueuedMild ==
  ASSUME NEW a, K(a)
  PROVE  Mild(a, SendQueued(a)) /\ Others(a, SendQueued(a))
  <1> DEFINE none == <<>>
             f == [m \in Msgs |-> IF m \in a.notes THEN "immediate" ELSE a.msg[m]]
             b == [a EXCEPT !.queue = none, !.notes = {}, !.msg = f]
             g == [m \in Msgs |-> IF m \in ToSet(a.queue) THEN "discarded" ELSE f[m]]
             c == [b EXCEPT !.msg = g]
  <1>1. /\ a \in Requestors /\ a.msg \in [Msgs -> Final \cup Progress]
        /\ a.queue \in Seq(Msgs) /\ ToSet(a.queue) \subseteq Msgs /\ a.notes \subseteq Msgs
        /\ NoRepeat(a.queue) /\ ToSet(a.queue) \cap a.notes = {}
        /\ \A m \in ToSet(a.queue) \cup a.notes : a.msg[m] = "queued"
        /\ \A m \in ToSet(a.queue) \cup a.notes : m \notin ToSet(a.log)
        /\ \A m \in ToSet(a.queue) \cup a.notes : a.listener # m
    BY QueueTypes
  <1>2. f \in [Msgs -> Final \cup Progress] /\ g \in [Msgs -> Final \cup Progress]
    BY <1>1 DEF Final, Progress
  <1>3. \A m \in Msgs : /\ m \in a.notes => f[m] = "immediate" /\ g[m] = "immediate"
                        /\ m \in ToSet(a.queue) => f[m] = "queued" /\ g[m] = "discarded"
                        /\ m \notin ToSet(a.queue) \cup a.notes => f[m] = a.msg[m] /\ g[m] = a.msg[m]
    BY <1>1
  <1>4. SendQueued(a) = IF a.queue # <<>> /\ a.rc THEN [a EXCEPT !.spinning = TRUE]
                        ELSE IF a.closed THEN c ELSE Transmitted(b, a.queue)
    BY <1>1 DEF SendQueued, Requestors
  <1>5. \A m \in ToSet(a.log) : m \in Msgs
    BY <1>1 DEF Requestors, ToSet
  <1>e. none \in Seq(Msgs) /\ DOMAIN none = {} /\ none = <<>>
    OBVIOUS
  <1> HIDE DEF f, g, none
  <1>6. /\ b \in Requestors /\ SameConn(a, b) /\ b.log = a.log /\ b.timed = a.timed
        /\ b.queue = none /\ b.notes = {} /\ b.msg = f
    BY <1>1, <1>2, <1>e DEF Requestors, SameConn
  <1>7. /\ c \in Requestors /\ SameConn(a, c) /\ c.log = a.log /\ c.timed = a.timed
        /\ c.queue = none /\ c.notes = {} /\ c.msg = g
    BY <1>1, <1>2, <1>e DEF Requestors, SameConn
  <1> HIDE DEF b, c
  <1>8. Mild(a, b) /\ Others(a, b)
    <2>1. \A m \in Msgs : IF m \in ToSet(a.queue) \cup a.notes
                          THEN b.msg[m] \in {"queued", "immediate", "failed", "discarded"}
                          ELSE b.msg[m] = a.msg[m]
      BY <1>3, <1>6
    <2>2. \A m \in ToSet(a.log) : b.msg[m] = a.msg[m]
      BY <1>1, <1>3, <1>5, <1>6
    <2> QED
      BY <1>6, <1>e, <2>1, <2>2, DequeuedMild
  <1>9. Mild(a, c) /\ Others(a, c)
    <2>1. \A m \in Msgs : IF m \in ToSet(a.queue) \cup a.notes
                          THEN c.msg[m] \in {"queued", "immediate", "failed", "discarded"}
                          ELSE c.msg[m] = a.msg[m]
      BY <1>3, <1>7
    <2>2. \A m \in ToSet(a.log) : c.msg[m] = a.msg[m]
      BY <1>1, <1>3, <1>5, <1>7
    <2> QED
      BY <1>7, <1>e, <2>1, <2>2, DequeuedMild
  <1>10. Mild(b, Transmitted(b, a.queue)) /\ Others(a, Transmitted(b, a.queue))
    <2>1. \A m \in ToSet(a.queue) : b.msg[m] = "queued" /\ b.listener # m
      BY <1>1, <1>3, <1>6 DEF SameConn
    <2>2. K(b) /\ ToSet(b.queue) = {}
      <3>1. DOMAIN b.queue = {}
        BY <1>6, <1>e
      <3> QED
        BY <1>8, <3>1, NothingIn DEF Mild
    <2> QED
      <3>1. /\ Mild(b, Transmitted(b, a.queue))
            /\ \A m \in Msgs \ ToSet(a.queue) : Transmitted(b, a.queue).msg[m] = b.msg[m]
        BY <1>1, <1>6, <2>1, <2>2, TransmittedMild DEF Unsent
      <3>2. Others(a, Transmitted(b, a.queue))
        BY <1>1, <1>8, <3>1 DEF Others
      <3> QED
        BY <3>1, <3>2
  <1>11. Mild(a, [a EXCEPT !.spinning = TRUE]) /\ Others(a, [a EXCEPT !.spinning = TRUE])
    <2> DEFINE e == [a EXCEPT !.spinning = TRUE]
    <2>1. /\ e \in Requestors /\ SameConn(a, e) /\ e.msg = a.msg /\ e.queue = a.queue
          /\ e.notes = a.notes /\ e.log = a.log /\ e.timed = a.timed
      BY <1>1 DEF Requestors, SameConn
    <2> HIDE DEF e
    <2>2. Mild(a, e) /\ Others(a, e)
      BY <2>1, UnseenMild
    <2> QED
      BY <2>2 DEF e
  <1> QED
    BY <1>4, <1>8, <1>9, <1>10, <1>11, MildTrans

(* rejectQueuedMsgs, when the reconnect promise is rejected.                *)
LEMMA RejectedMild ==
  ASSUME NEW a, K(a)
  PROVE  Mild(a, ReconnectRejected(a)) /\ Others(a, ReconnectRejected(a))
  <1> DEFINE none == <<>>
             f == [m \in Msgs |-> IF m \in ToSet(a.queue) THEN "failed"
                                  ELSE IF m \in a.notes THEN "discarded" ELSE a.msg[m]]
             b == [a EXCEPT !.rc = FALSE, !.waiter = FALSE, !.queue = none, !.notes = {},
                            !.msg = f]
  <1>1. /\ a \in Requestors /\ a.msg \in [Msgs -> Final \cup Progress]
        /\ ToSet(a.queue) \subseteq Msgs /\ a.notes \subseteq Msgs
        /\ \A m \in ToSet(a.queue) \cup a.notes : m \notin ToSet(a.log)
    BY QueueTypes
  <1>2. f \in [Msgs -> Final \cup Progress]
    BY <1>1 DEF Final, Progress
  <1>3. \A m \in Msgs : IF m \in ToSet(a.queue) \cup a.notes
                        THEN f[m] \in {"failed", "discarded"} ELSE f[m] = a.msg[m]
    BY <1>1
  <1>4. none \in Seq(Msgs) /\ DOMAIN none = {}
    OBVIOUS
  <1>5. ReconnectRejected(a) = IF a.rc /\ a.waiter THEN b ELSE a
    BY <1>1 DEF ReconnectRejected, Requestors
  <1>6. \A m \in ToSet(a.log) : m \in Msgs
    BY <1>1 DEF Requestors, ToSet
  <1> HIDE DEF f, none
  <1>7. /\ b \in Requestors /\ SameConn(a, b) /\ b.log = a.log /\ b.timed = a.timed
        /\ b.queue = none /\ b.notes = {} /\ b.msg = f
    BY <1>1, <1>2, <1>4 DEF Requestors, SameConn
  <1> HIDE DEF b
  <1>8. Mild(a, b) /\ Others(a, b)
    <2>1. \A m \in Msgs : IF m \in ToSet(a.queue) \cup a.notes
                          THEN b.msg[m] \in {"queued", "immediate", "failed", "discarded"}
                          ELSE b.msg[m] = a.msg[m]
      BY <1>3, <1>7
    <2>2. \A m \in ToSet(a.log) : b.msg[m] = a.msg[m]
      BY <1>1, <1>3, <1>6, <1>7
    <2> QED
      BY <1>4, <1>7, <2>1, <2>2, DequeuedMild
  <1>9. Mild(a, a) /\ Others(a, a)
    BY MildItself DEF Others
  <1> QED
    BY <1>5, <1>8, <1>9

(* The reconnect promise is resolved.                                       *)
LEMMA ResolvedMild ==
  ASSUME NEW a, K(a)
  PROVE  Mild(a, ReconnectResolved(a))
  <1> DEFINE b == [a EXCEPT !.rc = FALSE, !.waiter = FALSE]
  <1>1. a \in Requestors
    BY DEF K
  <1>2. /\ b \in Requestors /\ SameConn(a, b) /\ b.msg = a.msg /\ b.queue = a.queue
        /\ b.notes = a.notes /\ b.log = a.log /\ b.timed = a.timed
    BY <1>1 DEF Requestors, SameConn
  <1>3. ReconnectResolved(a) = IF a.rc /\ a.waiter THEN SendQueued(b) ELSE a
    BY DEF ReconnectResolved
  <1> HIDE DEF b
  <1>4. Mild(a, b) /\ K(b)
    BY <1>2, UnseenMild DEF Mild
  <1>5. Mild(a, SendQueued(b))
    BY <1>4, SendQueuedMild, MildTrans
  <1> QED
    BY <1>3, <1>5, MildItself

(* session:reconnect                                                        *)
LEMMA ReconnectMild ==
  ASSUME NEW a, K(a)
  PROVE  Mild(a, Reconnect(a)) /\ Others(a, Reconnect(a))
  <1> DEFINE b == [a EXCEPT !.rc = TRUE, !.waiter = FALSE, !.timed = @ \ {New}]
             c == [a EXCEPT !.rc = TRUE, !.waiter = TRUE, !.rcFlight = TRUE]
  <1>1. a \in Requestors
    BY DEF K
  <1>2. /\ b \in Requestors /\ SameConn(a, b) /\ b.msg = a.msg /\ b.queue = a.queue
        /\ b.notes = a.notes /\ b.log = a.log /\ b.timed \subseteq a.timed
    BY <1>1 DEF Requestors, SameConn
  <1>3. /\ c \in Requestors /\ SameConn(a, c) /\ c.msg = a.msg /\ c.queue = a.queue
        /\ c.notes = a.notes /\ c.log = a.log /\ c.timed \subseteq a.timed
    BY <1>1 DEF Requestors, SameConn
  <1>4. Reconnect(a) = IF a.closed THEN a ELSE IF a.init THEN SendQueued(b) ELSE c
    BY DEF Reconnect
  <1> HIDE DEF b, c
  <1>5. Mild(a, b) /\ K(b) /\ Others(a, b)
    BY <1>2, UnseenMild DEF Mild
  <1>6. Mild(a, c) /\ Others(a, c)
    BY <1>3, UnseenMild
  <1>7. Mild(a, SendQueued(b)) /\ Others(a, SendQueued(b))
    BY <1>5, SendQueuedMild, MildTrans
  <1>8. Mild(a, a) /\ Others(a, a)
    BY MildItself DEF Others
  <1> QED
    BY <1>4, <1>6, <1>7, <1>8

(* request() once the connection is there.                                  *)
LEMMA ProceedMild ==
  ASSUME NEW a, K(a), NEW m, Loose(a, m)
  PROVE  Mild(a, Proceed(a, m))
  <1> DEFINE b == Transmitted(a, <<m>>)
  <1>1. <<m>> \in Seq(Msgs) /\ ToSet(<<m>>) = {m} /\ NoRepeat(<<m>>)
    BY SingleSeq DEF Loose
  <1>2. /\ \A n \in ToSet(<<m>>) : a.msg[n] \in Unsent \ {"backoff"} /\ a.listener # n
        /\ ToSet(<<m>>) \cap ToSet(a.queue) = {} /\ ToSet(<<m>>) \cap a.notes = {}
    BY <1>1, QueueTypes DEF Loose, Unsent
  <1>3. Mild(a, b) /\ K(b)
    BY <1>1, <1>2, TransmittedMild DEF Mild
  <1>4. Mild(b, SendQueued(b))
    BY <1>3, SendQueuedMild
  <1> QED
    BY <1>3, <1>4, QueuedMild, MildTrans DEF Proceed

(* _clearPendingMessages                                                    *)
LEMMA ClearMild ==
  ASSUME NEW a, K(a)
  PROVE  Mild(a, ClearPending(a)) /\ Others(a, ClearPending(a))
  <1> DEFINE f == [m \in Msgs |-> IF m \notin InFlight(a) THEN a.msg[m]
                                  ELSE IF a.init THEN "abandoned" ELSE "failed"]
             b == [a EXCEPT !.timed = {}, !.rcFlight = FALSE, !.msg = f]
  <1>1. a \in Requestors /\ a.msg \in [Msgs -> Final \cup Progress] /\ MsgInv(a) /\ ListenerInv(a)
    BY QueueTypes DEF K
  <1>2. f \in [Msgs -> Final \cup Progress]
    BY <1>1 DEF Final, Progress
  <1>3. \A m \in Msgs : IF a.msg[m] = "inflight" THEN f[m] \in {"abandoned", "failed"}
                        ELSE f[m] = a.msg[m]
    BY <1>1 DEF InFlight
  <1>4. ClearPending(a) = IF ~a.init /\ (a.rcFlight \/ InFlight(a) # {})
                          THEN ReconnectRejected(b) ELSE b
    BY <1>1 DEF ClearPending, Requestors
  <1>5. ToSet(a.queue) \cup a.notes \subseteq Msgs /\ ToSet(a.log) \subseteq Msgs
    <2>1. a.log \in Seq(Msgs)
      BY <1>1 DEF Requestors
    <2> QED
      BY <2>1, QueueTypes DEF ToSet
  <1> HIDE DEF f
  <1>6. /\ b \in Requestors /\ SameConn(a, b) /\ b.log = a.log /\ b.timed = {}
        /\ b.queue = a.queue /\ b.notes = a.notes /\ b.msg = f
    BY <1>1, <1>2 DEF Requestors, SameConn
  <1> HIDE DEF b
  <1>7. Mild(a, b) /\ Others(a, b)
    <2>1. MsgInv(b)
      BY <1>1, <1>3, <1>5, <1>6 DEF MsgInv, Unsent
    <2>2. ListenerInv(b)
      BY <1>1, <1>3, <1>6 DEF ListenerInv, SameConn
    <2>3. Keeps(a, b) /\ NoBackoff(a, b) /\ Others(a, b)
      BY <1>3, <1>6 DEF Keeps, NoBackoff, Others, Final
    <2> QED
      BY <1>6, <2>1, <2>2, <2>3 DEF Mild, K
  <1>8. Mild(b, ReconnectRejected(b)) /\ Others(b, ReconnectRejected(b))
    BY <1>7, RejectedMild DEF Mild
  <1> QED
    BY <1>4, <1>7, <1>8, MildTrans

------------------------------------------------------------------------------
(* What opens or drops a socket, and the fate of one message.               *)

Good(a) == K(a) /\ ConnInv(a)

(* A mild change keeps the whole invariant.                                 *)
LEMMA MildGood ==
  ASSUME NEW a, NEW b, Good(a), Mild(a, b)
  PROVE  Good(b) /\ Keeps(a, b)
  BY MildConn DEF Good, Mild

(* Settled after one change, settled after the next.                        *)
LEMMA KeepsTrans ==
  ASSUME NEW a, NEW b, NEW c, Keeps(a, b), Keeps(b, c)
  PROVE  Keeps(a, c)
  BY DEF Keeps

(* One message that is not queued gets another state.                       *)
LEMMA SetMsg ==
  ASSUME NEW a, K(a), NEW m \in Msgs, a.msg[m] # "queued", a.msg[m] \notin Final,
         NEW v \in Final \cup {"backoff", "dialing"}, v \in Final \/ a.msg[m] \in Unsent,
         NEW b \in Requestors, b.msg = [a.msg EXCEPT ![m] = v], b.log = a.log,
         b.queue = a.queue, b.notes = a.notes, b.timed = a.timed \ {m},
         b.listener \in Msgs => b.msg[b.listener] = "dialing"
  PROVE  K(b) /\ Keeps(a, b)
  <1>1. a \in Requestors /\ a.msg \in [Msgs -> Final \cup Progress] /\ MsgInv(a)
    BY QueueTypes DEF K
  <1>2. ToSet(a.queue) \cup a.notes \subseteq Msgs /\ ToSet(a.log) \subseteq Msgs /\ a.timed \subseteq Msgs
    <2>1. a.log \in Seq(Msgs) /\ a.timed \subseteq Msgs
      BY <1>1 DEF Requestors
    <2> QED
      BY <2>1, QueueTypes DEF ToSet
  <1>3. b.msg[m] = v /\ \A n \in Msgs \ {m} : b.msg[n] = a.msg[n]
    BY <1>1
  <1>4. MsgInv(b)
    <2>1. NoRepeat(b.queue) /\ NoRepeat(b.log) /\ ToSet(b.queue) \cap b.notes = {}
      BY <1>1 DEF MsgInv
    <2>2. \A n \in ToSet(b.queue) \cup b.notes : b.msg[n] = "queued"
      BY <1>1, <1>2, <1>3 DEF MsgInv
    <2>3. \A n \in ToSet(b.log) : b.msg[n] \notin Unsent
      BY <1>1, <1>2, <1>3 DEF MsgInv, Unsent, Final
    <2>4. \A n \in b.timed : b.msg[n] = "inflight"
      BY <1>1, <1>2, <1>3 DEF MsgInv
    <2> QED
      BY <2>1, <2>2, <2>3, <2>4 DEF MsgInv
  <1>5. Keeps(a, b)
    BY <1>3 DEF Keeps
  <1> QED
    BY <1>4, <1>5 DEF K, ListenerInv

(* Only the connection of b differs from that of a.                         *)
LEMMA OnlyConn ==
  ASSUME NEW a, K(a), NEW b \in Requestors, b.msg = a.msg, b.queue = a.queue,
         b.notes = a.notes, b.log = a.log, b.timed = a.timed,
         b.listener \in Msgs => b.listener = a.listener
  PROVE  K(b) /\ Keeps(a, b)
  BY DEF K, MsgInv, ListenerInv, Keeps

(* The end of _onClose: no socket, perhaps a timer.                         *)
LEMMA SocketClosedGood ==
  ASSUME NEW a, Good(a)
  PROVE  /\ Good(SocketClosed(a)) /\ Keeps(a, SocketClosed(a)) /\ Others(a, SocketClosed(a))
         /\ SameConn([a EXCEPT !.ws = FALSE], SocketClosed(a))
         /\ NoBackoff(a, SocketClosed(a))
  <1> DEFINE b == [a EXCEPT !.ws = FALSE]
             c == IF b.init THEN b ELSE ClearPending(b)
             timers == c.timers + 1
             e == [c EXCEPT !.timers = timers]
  <1>1. a \in Requestors /\ K(a) /\ ConnInv(a)
    BY DEF Good, K
  <1>2. /\ b \in Requestors /\ b.msg = a.msg /\ b.queue = a.queue /\ b.notes = a.notes
        /\ b.log = a.log /\ b.timed = a.timed /\ b.listener = a.listener /\ ~b.ws
        /\ b.connecting = a.connecting /\ b.dials = a.dials /\ b.crashed = a.crashed
        /\ b.init = a.init
    BY <1>1 DEF Requestors
  <1>3. SocketClosed(a) = IF a.connections < MaxReconnects /\ ~a.closed THEN e ELSE b
    BY <1>2 DEF SocketClosed
  <1> HIDE DEF b
  <1>4. Good(b) /\ Keeps(a, b) /\ Others(a, b) /\ NoBackoff(a, b)
    BY <1>1, <1>2, OnlyConn DEF Good, ConnInv, Others, NoBackoff
  <1>5. Mild(b, c) /\ Others(b, c)
    BY <1>4, ClearMild, MildItself DEF Good, Others
  <1> HIDE DEF c
  <1>6. c \in Requestors /\ K(c) /\ timers \in Nat
    <2>1. c \in Requestors /\ K(c)
      BY <1>5 DEF Mild, K
    <2>2. c.timers \in Nat
      BY <2>1 DEF Requestors
    <2> QED
      BY <2>1, <2>2
  <1> HIDE DEF timers
  <1>7. /\ e \in Requestors /\ SameConn(c, e) /\ e.msg = c.msg /\ e.queue = c.queue
        /\ e.notes = c.notes /\ e.log = c.log /\ e.timed = c.timed
    BY <1>6 DEF Requestors, SameConn
  <1> HIDE DEF e
  <1>8. Mild(c, e) /\ Others(c, e)
    BY <1>6, <1>7, UnseenMild
  <1>9. Mild(b, e) /\ Others(b, e)
    BY <1>5, <1>8, MildTrans
  <1>10. Good(e) /\ Keeps(a, e) /\ Others(a, e) /\ SameConn(b, e)
    BY <1>4, <1>9, MildGood, KeepsTrans DEF Mild, Others
  <1>11. SameConn(b, b)
    BY DEF SameConn
  <1>12. NoBackoff(a, e)
    BY <1>4, <1>9 DEF Mild, NoBackoff
  <1> QED
    BY <1>3, <1>4, <1>10, <1>11, <1>12 DEF b

(* _onOpen, when nobody dials any more.                                     *)
LEMMA OpenedGood ==
  ASSUME NEW a, Good(a), a.dials = 0, \A m \in Msgs : a.msg[m] # "backoff"
  PROVE  Good(Opened(a)) /\ Keeps(a, Opened(a))
  <1> DEFINE count == a.connections + 1
             b == [a EXCEPT !.ws = TRUE, !.connecting = FALSE, !.listener = "none",
                            !.connections = count]
             c == IF a.connections > 0 THEN Reconnect(b) ELSE b
  <1>1. a \in Requestors /\ K(a) /\ ConnInv(a) /\ ListenerInv(a)
    BY DEF Good, K
  <1>c. count \in Nat
    <2>1. a.connections \in Nat
      BY <1>1 DEF Requestors
    <2> QED
      BY <2>1
  <1>3. Opened(a) = IF a.listener = "none" THEN b
                    ELSE IF a.listener = "timer" \/ c.spinning THEN c
                    ELSE Proceed(c, a.listener)
    BY DEF Opened
  <1> HIDE DEF count
  <1>2. /\ b \in Requestors /\ b.msg = a.msg /\ b.queue = a.queue /\ b.notes = a.notes
        /\ b.log = a.log /\ b.timed = a.timed /\ b.listener = "none"
        /\ b.dials = a.dials /\ b.crashed = a.crashed
    BY <1>1, <1>c DEF Requestors
  <1> HIDE DEF b
  <1>4. Good(b) /\ Keeps(a, b)
    <2>1. "none" \notin Msgs
      BY WsAssumption
    <2>2. K(b) /\ Keeps(a, b)
      BY <1>1, <1>2, <2>1, OnlyConn
    <2> QED
      BY <1>1, <1>2, <2>2 DEF Good, ConnInv
  <1>5. Mild(b, c) /\ Others(b, c)
    BY <1>4, ReconnectMild, MildItself DEF Good, Others
  <1> HIDE DEF c
  <1>6. Good(c) /\ Keeps(a, c)
    BY <1>4, <1>5, MildGood, KeepsTrans
  <1>7. CASE a.listener \in Msgs
    <2>1. a.msg[a.listener] = "dialing"
      BY <1>1, <1>7 DEF ListenerInv
    <2>2. c.msg[a.listener] = "dialing" /\ c.listener = "none"
      BY <1>2, <1>5, <1>7, <2>1 DEF Others, Mild, SameConn
    <2>3. a.listener # "none"
      BY <1>7, WsAssumption
    <2>4. Loose(c, a.listener)
      BY <1>7, <2>2, <2>3 DEF Loose
    <2>5. Mild(c, Proceed(c, a.listener))
      BY <1>6, <2>4, ProceedMild DEF Good
    <2>6. Good(Proceed(c, a.listener)) /\ Keeps(a, Proceed(c, a.listener))
      BY <1>6, <2>5, MildGood, KeepsTrans
    <2> QED
      BY <1>3, <1>4, <1>6, <2>6
  <1>8. CASE a.listener \notin Msgs
    <2>1. a.listener \in {"timer", "none"}
      BY <1>1, <1>8 DEF Requestors
    <2> QED
      BY <1>3, <1>4, <1>6, <2>1
  <1> QED
    BY <1>7, <1>8

(* 'not-ready': the message that dials will dial again, which is only for   *)
(* one whose connection was not refused.                                    *)
LEMMA RefusedGood ==
  ASSUME NEW a, Good(a), a.dials = 0, \A m \in Msgs : a.msg[m] # "backoff",
         NEW failure, failure \in RetryOn => a.connecting /\ ~a.ws
  PROVE  Good(Refused(a, failure)) /\ Keeps(a, Refused(a, failure))
  <1> DEFINE m == a.listener
             b == [a EXCEPT !.listener = "none"]
             c == [b EXCEPT !.connecting = FALSE]
             tries == [a.retry EXCEPT ![m] = a.retry[m] + 1]
             delayed == [a.msg EXCEPT ![m] = "backoff"]
             again == [b EXCEPT !.msg = delayed, !.retry = tries]
             failed == [b EXCEPT !.msg[m] = "failed", !.connecting = FALSE]
  <1>1. a \in Requestors /\ K(a) /\ ConnInv(a) /\ ListenerInv(a)
    BY DEF Good, K
  <1>2. "none" \notin Msgs /\ "timer" \notin Msgs
    BY WsAssumption
  <1>3. Refused(a, failure) = IF m = "none" THEN b ELSE IF m = "timer" THEN c
                              ELSE IF a.retry[m] < MaxReconnects /\ failure \in RetryOn
                              THEN again ELSE failed
    BY <1>1 DEF Refused, Requestors
  <1>4. Good(b) /\ Keeps(a, b)
    <2>1. /\ b \in Requestors /\ b.msg = a.msg /\ b.queue = a.queue /\ b.notes = a.notes
          /\ b.log = a.log /\ b.timed = a.timed /\ b.listener = "none"
          /\ b.dials = a.dials /\ b.crashed = a.crashed
      BY <1>1 DEF Requestors
    <2> HIDE DEF b
    <2> QED
      BY <1>1, <1>2, <2>1, OnlyConn DEF Good, ConnInv
  <1>5. Good(c) /\ Keeps(a, c)
    <2>1. /\ c \in Requestors /\ c.msg = a.msg /\ c.queue = a.queue /\ c.notes = a.notes
          /\ c.log = a.log /\ c.timed = a.timed /\ c.listener = "none"
          /\ c.dials = a.dials /\ c.crashed = a.crashed
      BY <1>1 DEF Requestors
    <2> HIDE DEF c
    <2> QED
      BY <1>1, <1>2, <2>1, OnlyConn DEF Good, ConnInv
  <1>6. CASE m \in Msgs
    <2>1. /\ a.msg[m] = "dialing" /\ a.msg \in [Msgs -> Final \cup Progress]
          /\ a.retry \in [Msgs -> Nat] /\ MsgInv(a)
      BY <1>1, <1>6 DEF ListenerInv, Requestors, K
    <2>2. m \notin a.timed
      BY <2>1 DEF MsgInv
    <2>3. ASSUME failure \in RetryOn
          PROVE  Good(again) /\ Keeps(a, again)
      <3>0. tries \in [Msgs -> Nat] /\ delayed \in [Msgs -> Final \cup Progress]
        BY <1>6, <2>1 DEF Progress
      <3> HIDE DEF tries
      <3>1. again \in Requestors
        BY <1>1, <3>0 DEF Requestors
      <3>2. /\ again.msg = [a.msg EXCEPT ![m] = "backoff"] /\ again.queue = a.queue
            /\ again.notes = a.notes /\ again.log = a.log /\ again.timed = a.timed \ {m}
            /\ again.listener = "none" /\ again.dials = a.dials /\ again.ws = a.ws
            /\ again.connecting = a.connecting /\ again.crashed = a.crashed
        BY <1>1, <2>2 DEF Requestors
      <3> HIDE DEF again, m
      <3>3. K(again) /\ Keeps(a, again)
        <4>1. /\ a.msg[m] # "queued" /\ a.msg[m] \notin Final /\ a.msg[m] \in Unsent
              /\ "backoff" \in Final \cup {"backoff", "dialing"} /\ again.listener \notin Msgs
          BY <1>2, <2>1, <3>2 DEF Final, Unsent
        <4> QED
          BY <1>1, <1>6, <3>1, <3>2, <4>1, SetMsg
      <3>4. ConnInv(again)
        BY <1>1, <1>6, <2>1, <2>3, <3>2 DEF ConnInv
      <3> QED
        BY <3>3, <3>4 DEF Good
    <2>4. Good(failed) /\ Keeps(a, failed)
      <3>1. failed \in Requestors
        BY <1>1, <1>6, <2>1 DEF Requestors, Final
      <3>2. /\ failed.msg = [a.msg EXCEPT ![m] = "failed"] /\ failed.queue = a.queue
            /\ failed.notes = a.notes /\ failed.log = a.log /\ failed.timed = a.timed \ {m}
            /\ failed.listener = "none" /\ failed.dials = a.dials
            /\ failed.crashed = a.crashed
        BY <1>1, <2>2 DEF Requestors
      <3> HIDE DEF failed, m
      <3>3. K(failed) /\ Keeps(a, failed)
        <4>1. /\ a.msg[m] # "queued" /\ a.msg[m] \notin Final /\ a.msg[m] \in Unsent
              /\ "failed" \in Final \cup {"backoff", "dialing"} /\ failed.listener \notin Msgs
          BY <1>2, <2>1, <3>2 DEF Final, Unsent
        <4> QED
          BY <1>1, <1>6, <3>1, <3>2, <4>1, SetMsg
      <3>4. ConnInv(failed)
        BY <1>1, <1>6, <2>1, <3>2 DEF ConnInv
      <3> QED
        BY <3>3, <3>4 DEF Good
    <2> QED
      BY <1>3, <1>4, <1>5, <2>3, <2>4
  <1>7. CASE m \notin Msgs
    <2>1. m \in {"timer", "none"}
      BY <1>1, <1>7 DEF Requestors
    <2> QED
      BY <1>3, <1>4, <1>5, <2>1
  <1> QED
    BY <1>6, <1>7

(* request(): sent, queued behind the message that dials, or dialing.       *)
LEMMA RequestedGood ==
  ASSUME NEW a, Good(a), NEW m \in Msgs, a.msg[m] \in {"idle", "immediate"}
  PROVE  Good(Requested(a, m)) /\ Keeps(a, Requested(a, m))
  <1> DEFINE b == [a EXCEPT !.msg[m] = "discarded"]
             count == a.dials + 1
             c == [a EXCEPT !.connecting = TRUE, !.msg[m] = "dialing", !.dials = count,
                            !.listener = m]
  <1>1. a \in Requestors /\ K(a) /\ ConnInv(a) /\ a.msg \in [Msgs -> Final \cup Progress]
    BY QueueTypes DEF Good, K
  <1>2. Requested(a, m) = IF a.closed THEN b ELSE IF a.ws THEN Proceed(a, m)
                          ELSE IF a.connecting THEN Queued(a, m) ELSE c
    BY <1>1 DEF Requested, Dialed, Requestors
  <1>3. Loose(a, m) /\ m \notin a.timed /\ a.msg[m] # "queued" /\ a.msg[m] \notin Final /\ a.msg[m] \in Unsent
    BY <1>1 DEF Loose, K, ListenerInv, MsgInv, Final, Unsent
  <1>4. Good(Proceed(a, m)) /\ Keeps(a, Proceed(a, m))
    BY <1>1, <1>3, ProceedMild, MildGood
  <1>5. Good(Queued(a, m)) /\ Keeps(a, Queued(a, m))
    BY <1>1, <1>3, QueuedMild, MildGood
  <1>6. Good(b) /\ Keeps(a, b)
    <2>1. /\ b \in Requestors /\ b.msg = [a.msg EXCEPT ![m] = "discarded"] /\ b.log = a.log
          /\ b.queue = a.queue /\ b.notes = a.notes /\ b.timed = a.timed \ {m}
          /\ b.listener = a.listener /\ b.dials = a.dials /\ b.ws = a.ws
          /\ b.connecting = a.connecting /\ b.crashed = a.crashed
      BY <1>1, <1>3 DEF Requestors, Final
    <2> HIDE DEF b
    <2>2. /\ "discarded" \in Final \cup {"backoff", "dialing"}
          /\ "discarded" \in Final \/ a.msg[m] \in Unsent
          /\ b.listener \in Msgs => b.msg[b.listener] = "dialing"
      BY <1>1, <1>3, <2>1 DEF Final, K, ListenerInv, Loose
    <2>3. K(b) /\ Keeps(a, b)
      BY <1>1, <1>3, <2>1, <2>2, SetMsg
    <2>4. ConnInv(b)
      BY <1>1, <2>1 DEF ConnInv
    <2> QED
      BY <2>3, <2>4 DEF Good
  <1>7. ASSUME ~a.ws, ~a.connecting
        PROVE  Good(c) /\ Keeps(a, c)
    <2>1. a.dials = 0 /\ count = 1 /\ \A n \in Msgs : a.msg[n] # "backoff"
      BY <1>1, <1>7 DEF ConnInv
    <2> HIDE DEF count
    <2>2. /\ c \in Requestors /\ c.msg = [a.msg EXCEPT ![m] = "dialing"] /\ c.log = a.log
          /\ c.queue = a.queue /\ c.notes = a.notes /\ c.timed = a.timed \ {m}
          /\ c.listener = m /\ c.dials = count /\ c.ws = a.ws
          /\ c.connecting = TRUE /\ c.crashed = a.crashed
      <3>1. count \in Nat
        BY <2>1
      <3> QED
        BY <1>1, <1>3, <3>1 DEF Requestors, Progress
    <2> HIDE DEF c
    <2>3. /\ "dialing" \in Final \cup {"backoff", "dialing"}
          /\ c.msg[m] = "dialing" /\ c.listener = m
      BY <1>1, <2>2
    <2>4. K(c) /\ Keeps(a, c)
      BY <1>1, <1>3, <2>2, <2>3, SetMsg
    <2>5. ConnInv(c)
      BY <1>1, <1>7, <2>1, <2>2 DEF ConnInv
    <2> QED
      BY <2>4, <2>5 DEF Good
  <1> QED
    BY <1>2, <1>4, <1>5, <1>6, <1>7

------------------------------------------------------------------------------
(* The steps.                                                               *)

(* close(): the end of the session.                                         *)
LEMMA CloseGood ==
  ASSUME Good(r), Close
  PROVE  Good(r') /\ Keeps(r, r')
  <1> DEFINE b == [r EXCEPT !.closed = TRUE, !.ws = FALSE]
  <1>1. r \in Requestors /\ K(r) /\ ConnInv(r)
    BY DEF Good, K
  <1>2. /\ b \in Requestors /\ b.msg = r.msg /\ b.queue = r.queue /\ b.notes = r.notes
        /\ b.log = r.log /\ b.timed = r.timed /\ b.listener = r.listener /\ ~b.ws
        /\ b.connecting = r.connecting /\ b.dials = r.dials /\ b.crashed = r.crashed
    BY <1>1 DEF Requestors
  <1>3. r' = ClearPending(b)
    BY DEF Close
  <1> HIDE DEF b
  <1>4. Good(b) /\ Keeps(r, b)
    BY <1>1, <1>2, OnlyConn DEF Good, ConnInv
  <1>5. Mild(b, ClearPending(b))
    BY <1>4, ClearMild DEF Good
  <1> QED
    BY <1>3, <1>4, <1>5, MildGood, KeepsTrans

(* The application closes with code 1000.                                   *)
LEMMA FarEndClosesGood ==
  ASSUME Good(r), FarEndCloses
  PROVE  Good(r') /\ Keeps(r, r')
  <1>1. r \in Requestors /\ K(r) /\ ConnInv(r)
    BY DEF Good, K
  <1>2. /\ r' \in Requestors /\ r'.msg = r.msg /\ r'.queue = r.queue /\ r'.notes = r.notes
        /\ r'.log = r.log /\ r'.timed = r.timed /\ r'.listener = r.listener /\ ~r'.ws
        /\ r'.connecting = r.connecting /\ r'.dials = r.dials /\ r'.crashed = r.crashed
    BY <1>1 DEF FarEndCloses, Requestors
  <1> QED
    BY <1>1, <1>2, OnlyConn DEF Good, ConnInv

(* The next turn of the connect loop.                                       *)
LEMMA BackoffEndsGood ==
  ASSUME Good(r), NEW m \in Msgs, BackoffEnds(m)
  PROVE  Good(r') /\ Keeps(r, r')
  <1> DEFINE count == r.dials + 1
  <1>1. /\ r \in Requestors /\ K(r) /\ ConnInv(r) /\ r.msg[m] = "backoff"
        /\ r.msg \in [Msgs -> Final \cup Progress]
    BY QueueTypes DEF Good, K, BackoffEnds
  <1>2. r' = [r EXCEPT !.ws = FALSE, !.msg[m] = "dialing", !.dials = count, !.listener = m]
    BY <1>1 DEF BackoffEnds, Dialed, Requestors
  <1>3. /\ r.connecting /\ ~r.ws /\ r.dials = 0 /\ count = 1
        /\ \A n \in Msgs : r.msg[n] = "backoff" => n = m
    BY <1>1 DEF ConnInv
  <1>4. count \in Nat
    BY <1>3
  <1> HIDE DEF count
  <1>5. m \notin r.timed /\ r.msg[m] # "queued" /\ r.msg[m] \notin Final /\ r.msg[m] \in Unsent
    BY <1>1 DEF K, MsgInv, Final, Unsent
  <1>6. /\ r' \in Requestors /\ r'.msg = [r.msg EXCEPT ![m] = "dialing"] /\ r'.log = r.log
        /\ r'.queue = r.queue /\ r'.notes = r.notes /\ r'.timed = r.timed \ {m}
        /\ r'.listener = m /\ r'.dials = count /\ ~r'.ws
        /\ r'.connecting = r.connecting /\ r'.crashed = r.crashed
    BY <1>1, <1>2, <1>4, <1>5 DEF Requestors, Progress
  <1>7. "dialing" \in Final \cup {"backoff", "dialing"} /\ r'.msg[m] = "dialing"
    BY <1>1, <1>6
  <1>8. K(r') /\ Keeps(r, r')
    BY <1>1, <1>5, <1>6, <1>7, SetMsg
  <1>9. ConnInv(r')
    BY <1>1, <1>3, <1>6 DEF ConnInv
  <1> QED
    BY <1>8, <1>9 DEF Good

(* The timer that _onClose set dials, unless a dial is under way.           *)
LEMMA ReconnectTimerGood ==
  ASSUME Good(r), ReconnectTimer
  PROVE  Good(r') /\ Keeps(r, r')
  <1> DEFINE left == r.timers - 1
             count == r.dials + 1
             b == [r EXCEPT !.timers = left]
             c == [r EXCEPT !.timers = left, !.connecting = TRUE, !.dials = count,
                            !.listener = "timer"]
  <1>1. r \in Requestors /\ K(r) /\ ConnInv(r) /\ r.timers > 0 /\ r.timers \in Nat
    BY DEF Good, K, ReconnectTimer, Requestors
  <1>2. left \in Nat /\ count \in Nat
    BY <1>1 DEF ConnInv
  <1>3. r' = IF r.ws \/ r.connecting THEN b ELSE c
    BY <1>1 DEF ReconnectTimer, Dialed, Requestors
  <1>4. count = r.dials + 1
    OBVIOUS
  <1> HIDE DEF left, count
  <1>5. CASE r' = b
    <2>1. /\ b \in Requestors /\ SameConn(r, b) /\ b.msg = r.msg /\ b.queue = r.queue
          /\ b.notes = r.notes /\ b.log = r.log /\ b.timed = r.timed
      BY <1>1, <1>2 DEF Requestors, SameConn
    <2> HIDE DEF b
    <2>2. Mild(r, b)
      BY <1>1, <2>1, UnseenMild
    <2> QED
      BY <1>5, <2>2, MildGood
  <1>6. CASE r' = c /\ ~r.ws /\ ~r.connecting
    <2>1. /\ c \in Requestors /\ c.msg = r.msg /\ c.queue = r.queue /\ c.notes = r.notes
          /\ c.log = r.log /\ c.timed = r.timed /\ c.listener = "timer" /\ c.ws = r.ws
          /\ c.connecting /\ c.dials = count /\ c.crashed = r.crashed
      BY <1>1, <1>2 DEF Requestors
    <2> HIDE DEF c
    <2>2. K(c) /\ Keeps(r, c)
      BY <1>1, <2>1, OnlyConn, WsAssumption
    <2>3. count = 1 /\ \A n \in Msgs : r.msg[n] # "backoff"
      BY <1>1, <1>4, <1>6 DEF ConnInv
    <2>4. ConnInv(c)
      BY <1>1, <1>6, <2>1, <2>3 DEF ConnInv
    <2> QED
      BY <1>6, <2>2, <2>4 DEF Good
  <1> QED
    BY <1>3, <1>5, <1>6

(* An ack timer fires for a message that is still in flight.                *)
LEMMA AckTimeoutGood ==
  ASSUME Good(r), AckTimeout
  PROVE  Good(r') /\ Keeps(r, r')
  <1>1. r \in Requestors /\ K(r) /\ ConnInv(r) /\ r.msg \in [Msgs -> Final \cup Progress]
    BY QueueTypes DEF Good, K
  <1>2. ASSUME NEW m \in r.timed,
               r' = ReconnectRejected([r EXCEPT !.msg[m] = "failed", !.timed = @ \ {m}])
        PROVE  Good(r') /\ Keeps(r, r')
    <2> DEFINE b == [r EXCEPT !.msg[m] = "failed", !.timed = @ \ {m}]
    <2>1. m \in Msgs /\ r.msg[m] = "inflight"
      BY <1>1 DEF Requestors, K, MsgInv
    <2>2. /\ b \in Requestors /\ b.msg = [r.msg EXCEPT ![m] = "failed"] /\ b.log = r.log
          /\ b.queue = r.queue /\ b.notes = r.notes /\ b.timed = r.timed \ {m}
          /\ b.listener = r.listener /\ b.dials = r.dials /\ b.ws = r.ws
          /\ b.connecting = r.connecting /\ b.crashed = r.crashed
      BY <1>1, <2>1 DEF Requestors, Final
    <2> HIDE DEF b
    <2>3. /\ "failed" \in Final \cup {"backoff", "dialing"} /\ "failed" \in Final
          /\ r.msg[m] # "queued" /\ r.msg[m] \notin Final
          /\ b.listener \in Msgs => b.msg[b.listener] = "dialing"
      BY <1>1, <2>1, <2>2 DEF Final, K, ListenerInv
    <2>4. K(b) /\ Keeps(r, b)
      BY <1>1, <2>1, <2>2, <2>3, SetMsg
    <2>5. Good(b)
      BY <1>1, <2>1, <2>2, <2>4 DEF ConnInv, Good
    <2>6. Mild(b, ReconnectRejected(b))
      BY <2>4, RejectedMild
    <2> QED
      BY <1>2, <2>4, <2>5, <2>6, MildGood, KeepsTrans DEF b
  <1>3. ASSUME r' = ReconnectRejected([r EXCEPT !.rcFlight = FALSE])
        PROVE  Good(r') /\ Keeps(r, r')
    <2> DEFINE b == [r EXCEPT !.rcFlight = FALSE]
    <2>1. /\ b \in Requestors /\ SameConn(r, b) /\ b.msg = r.msg /\ b.queue = r.queue
          /\ b.notes = r.notes /\ b.log = r.log /\ b.timed = r.timed
      BY <1>1 DEF Requestors, SameConn
    <2> HIDE DEF b
    <2>2. Mild(r, b)
      BY <1>1, <2>1, UnseenMild
    <2>3. Mild(b, ReconnectRejected(b))
      BY <2>2, RejectedMild DEF Mild
    <2> QED
      BY <1>3, <2>2, <2>3, MildGood, KeepsTrans DEF b
  <1> QED
    BY <1>2, <1>3 DEF AckTimeout

(* The end of the one handshake: nobody dials any more.                     *)
LEMMA HandshakeEnds ==
  ASSUME NEW a, Good(a), a.dials > 0
  PROVE  LET b == [a EXCEPT !.dials = @ - 1]
         IN  /\ Good(b) /\ Keeps(a, b) /\ b.dials = 0 /\ b.connecting /\ ~b.ws
             /\ \A m \in Msgs : b.msg[m] # "backoff"
  <1> DEFINE left == a.dials - 1
             b == [a EXCEPT !.dials = left]
  <1>1. a \in Requestors /\ K(a) /\ ConnInv(a)
    BY DEF Good, K
  <1>2. left = 0 /\ a.connecting /\ ~a.ws /\ \A m \in Msgs : a.msg[m] # "backoff"
    BY <1>1 DEF ConnInv
  <1>3. left \in Nat
    BY <1>2
  <1> HIDE DEF left
  <1>4. /\ b \in Requestors /\ b.msg = a.msg /\ b.queue = a.queue /\ b.notes = a.notes
        /\ b.log = a.log /\ b.timed = a.timed /\ b.listener = a.listener /\ b.ws = a.ws
        /\ b.connecting = a.connecting /\ b.dials = left /\ b.crashed = a.crashed
    BY <1>1, <1>3 DEF Requestors
  <1> HIDE DEF b
  <1>5. K(b) /\ Keeps(a, b)
    BY <1>1, <1>4, OnlyConn
  <1>6. ConnInv(b)
    BY <1>1, <1>2, <1>4 DEF ConnInv
  <1>7. Good(b) /\ Keeps(a, b) /\ b.dials = 0 /\ b.connecting /\ ~b.ws
        /\ \A m \in Msgs : b.msg[m] # "backoff"
    BY <1>2, <1>4, <1>5, <1>6 DEF Good
  <1> QED
    BY <1>7 DEF b, left

(* The only handshake opens the socket.                                     *)
LEMMA HandshakeOpensGood ==
  ASSUME Good(r), HandshakeOpens
  PROVE  Good(r') /\ Keeps(r, r')
  <1> DEFINE a == [r EXCEPT !.dials = @ - 1]
  <1>1. /\ Good(a) /\ Keeps(r, a) /\ a.dials = 0
        /\ \A m \in Msgs : a.msg[m] # "backoff"
    BY HandshakeEnds DEF HandshakeOpens
  <1>2. ~r.ws
    BY DEF Good, ConnInv, HandshakeOpens
  <1>3. r' = Opened(a)
    BY <1>2 DEF HandshakeOpens
  <1> HIDE DEF a
  <1> QED
    BY <1>1, <1>3, OpenedGood, KeepsTrans

(* The only handshake is rejected or fails; its message may dial again.     *)
LEMMA HandshakeFailsGood ==
  ASSUME Good(r), "rejected" \notin RetryOn, HandshakeFails
  PROVE  Good(r') /\ Keeps(r, r')
  <1> DEFINE a == [r EXCEPT !.dials = @ - 1]
             b == [a EXCEPT !.connecting = FALSE]
             e == [a EXCEPT !.ws = FALSE]
             c == IF r.connections > 0 THEN SocketClosed(a) ELSE e
  <1>1. /\ Good(a) /\ Keeps(r, a) /\ a.dials = 0 /\ a.connecting /\ ~a.ws
        /\ \A m \in Msgs : a.msg[m] # "backoff"
    BY HandshakeEnds DEF HandshakeFails
  <1>2. ~r.ws /\ r.connecting
    BY DEF Good, ConnInv, HandshakeFails
  <1>3. \/ r' = Refused(b, "rejected")
        \/ r' = Refused(c, "network")
    BY <1>2 DEF HandshakeFails
  <1> HIDE DEF a
  <1>4. a \in Requestors /\ K(a) /\ ConnInv(a)
    BY <1>1 DEF Good, K
  <1>5. /\ Good(b) /\ Keeps(a, b) /\ b.dials = 0
        /\ \A m \in Msgs : b.msg[m] # "backoff"
    <2>1. /\ b \in Requestors /\ b.msg = a.msg /\ b.queue = a.queue /\ b.notes = a.notes
          /\ b.log = a.log /\ b.timed = a.timed /\ b.listener = a.listener
          /\ b.dials = a.dials /\ b.crashed = a.crashed
      BY <1>4 DEF Requestors
    <2> HIDE DEF b
    <2> QED
      BY <1>1, <1>4, <2>1, OnlyConn DEF Good, ConnInv
  <1>6. Good(Refused(b, "rejected")) /\ Keeps(a, Refused(b, "rejected"))
    BY <1>5, RefusedGood, KeepsTrans
  <1>7. e = a
    BY <1>1, <1>4 DEF Requestors
  <1>8. /\ Good(c) /\ Keeps(a, c) /\ c.dials = 0 /\ c.connecting /\ ~c.ws
        /\ \A m \in Msgs : c.msg[m] # "backoff"
    <2>1. CASE c = e
      BY <1>1, <1>7, <2>1 DEF Keeps
    <2>2. CASE c = SocketClosed(a)
      <3>1. Good(c) /\ Keeps(a, c) /\ SameConn(e, c) /\ NoBackoff(a, c)
        BY <1>1, <2>2, SocketClosedGood
      <3>2. c.dials = 0 /\ c.connecting /\ ~c.ws
        BY <1>1, <1>7, <3>1 DEF SameConn
      <3>3. \A m \in Msgs : c.msg[m] # "backoff"
        BY <1>1, <3>1 DEF NoBackoff
      <3> QED
        BY <3>1, <3>2, <3>3
    <2> QED
      BY <2>1, <2>2
  <1> HIDE DEF c
  <1>9. Good(Refused(c, "network")) /\ Keeps(a, Refused(c, "network"))
    BY <1>8, RefusedGood, KeepsTrans
  <1> QED
    BY <1>1, <1>3, <1>6, <1>9, KeepsTrans

(* The connection is lost.                                                  *)
LEMMA DropGood ==
  ASSUME Good(r), Drop
  PROVE  Good(r') /\ Keeps(r, r')
  BY SocketClosedGood DEF Drop

(* An ack, also to a message that was given up.                             *)
LEMMA AckGood ==
  ASSUME Good(r), NEW m \in Msgs, Ack(m)
  PROVE  Good(r') /\ Keeps(r, r')
  <1>1. r \in Requestors /\ K(r) /\ ConnInv(r) /\ r.msg \in [Msgs -> Final \cup Progress]
    BY QueueTypes DEF Good, K
  <1>2. CASE r' = [r EXCEPT !.init = FALSE]
    <2>1. /\ r' \in Requestors /\ SameConn(r, r') /\ r'.msg = r.msg /\ r'.queue = r.queue
          /\ r'.notes = r.notes /\ r'.log = r.log /\ r'.timed = r.timed
      BY <1>1, <1>2 DEF Requestors, SameConn
    <2> QED
      BY <1>1, <2>1, UnseenMild, MildGood
  <1>3. CASE /\ r.msg[m] = "inflight"
             /\ r' = ReconnectResolved([r EXCEPT !.msg[m] = "acked", !.init = FALSE,
                                                 !.timed = @ \ {m}])
    <2> DEFINE b == [r EXCEPT !.msg[m] = "acked", !.init = FALSE, !.timed = @ \ {m}]
    <2>1. /\ b \in Requestors /\ b.msg = [r.msg EXCEPT ![m] = "acked"] /\ b.log = r.log
          /\ b.queue = r.queue /\ b.notes = r.notes /\ b.timed = r.timed \ {m}
          /\ b.listener = r.listener /\ b.dials = r.dials /\ b.ws = r.ws
          /\ b.connecting = r.connecting /\ b.crashed = r.crashed
      BY <1>1 DEF Requestors, Final
    <2> HIDE DEF b
    <2>2. /\ "acked" \in Final \cup {"backoff", "dialing"} /\ "acked" \in Final
          /\ r.msg[m] # "queued" /\ r.msg[m] \notin Final
          /\ b.listener \in Msgs => b.msg[b.listener] = "dialing"
      BY <1>1, <1>3, <2>1 DEF Final, K, ListenerInv
    <2>3. K(b) /\ Keeps(r, b)
      BY <1>1, <2>1, <2>2, SetMsg
    <2>4. Good(b)
      BY <1>1, <2>1, <2>3 DEF ConnInv, Good
    <2>5. Mild(b, ReconnectResolved(b))
      BY <2>3, ResolvedMild
    <2> QED
      BY <1>3, <2>3, <2>4, <2>5, MildGood, KeepsTrans DEF b
  <1> QED
    BY <1>2, <1>3 DEF Ack

(* The ack to session:reconnect sends what is queued.                       *)
LEMMA AckReconnectGood ==
  ASSUME Good(r), AckReconnect
  PROVE  Good(r') /\ Keeps(r, r')
  <1> DEFINE b == [r EXCEPT !.rcFlight = FALSE, !.init = FALSE]
  <1>1. r \in Requestors /\ K(r)
    BY DEF Good, K
  <1>2. /\ b \in Requestors /\ SameConn(r, b) /\ b.msg = r.msg /\ b.queue = r.queue
        /\ b.notes = r.notes /\ b.log = r.log /\ b.timed = r.timed
    BY <1>1 DEF Requestors, SameConn
  <1>3. r' = ReconnectResolved(b)
    BY DEF AckReconnect
  <1> HIDE DEF b
  <1>4. Mild(r, b) /\ K(b)
    BY <1>1, <1>2, UnseenMild DEF Mild
  <1> QED
    BY <1>3, <1>4, ResolvedMild, MildGood, KeepsTrans

(* Every action keeps the invariant and settles no message twice.           *)
LEMMA StepGood ==
  ASSUME Good(r), "rejected" \notin RetryOn, Next
  PROVE  Good(r') /\ Keeps(r, r')
  <1>1. ASSUME NEW m \in Msgs, Request(m) \/ Immediate(m)
        PROVE  Good(r') /\ Keeps(r, r')
    BY <1>1, RequestedGood DEF Request, Immediate
  <1> QED
    BY <1>1, BackoffEndsGood, AckGood, CloseGood, ReconnectTimerGood, AckTimeoutGood,
       HandshakeOpensGood, HandshakeFailsGood, DropGood, FarEndClosesGood, AckReconnectGood
       DEF Next

(***************************************************************************)
(* The inductive invariant holds in every reachable state, whatever the    *)
(* network, the far end and the session do.                                *)
(***************************************************************************)
THEOREM Invariance ==
  ASSUME "rejected" \notin RetryOn
  PROVE  Spec => []Good(r)
  <1>1. Init => Good(r)
    <2> SUFFICES ASSUME Init PROVE Good(r)
      OBVIOUS
    <2> DEFINE none == <<>>
    <2>1. none \in Seq(Msgs) /\ DOMAIN none = {}
      OBVIOUS
    <2>2. ToSet(none) = {} /\ NoRepeat(none)
      BY <2>1, NothingIn
    <2>3. /\ r.queue = none /\ r.log = none /\ r.notes = {} /\ r.timed = {}
          /\ r.listener = "none" /\ r.msg = [m \in Msgs |-> "idle"] /\ r.dials = 0
          /\ r.crashed = FALSE
      BY DEF Init
    <2>4. r \in Requestors
      BY DEF Init, Requestors, Progress
    <2> HIDE DEF none
    <2>5. MsgInv(r) /\ ListenerInv(r) /\ ConnInv(r)
      BY <2>2, <2>3, WsAssumption DEF MsgInv, ListenerInv, ConnInv
    <2> QED
      BY <2>4, <2>5 DEF Good, K
  <1>2. Good(r) /\ [Next]_r => Good(r)'
    <2> SUFFICES ASSUME Good(r), [Next]_r PROVE Good(r')
      OBVIOUS
    <2>1. CASE Next
      BY <2>1, StepGood
    <2>2. CASE UNCHANGED r
      BY <2>2
    <2> QED
      BY <2>1, <2>2
  <1> QED
    BY <1>1, <1>2, PTL DEF Spec

(***************************************************************************)
(* A handshake never ends while the requestor has a socket: the assertions *)
(* of _onOpen and _onUnexpectedResponse hold.                              *)
(***************************************************************************)
THEOREM OneSocketCorrect ==
  ASSUME "rejected" \notin RetryOn
  PROVE  Spec => []OneSocket
  <1>1. Good(r) => OneSocket
    BY DEF Good, ConnInv, OneSocket
  <1> QED
    BY <1>1, Invariance, PTL

(***************************************************************************)
(* However often the socket drops and whatever is queued meanwhile, no     *)
(* message is sent twice.                                                  *)
(***************************************************************************)
THEOREM SentOnceCorrect ==
  ASSUME "rejected" \notin RetryOn
  PROVE  Spec => []SentOnce
  <1>1. Good(r) => SentOnce
    BY DEF Good, K, MsgInv, NoRepeat, SentOnce
  <1> QED
    BY <1>1, Invariance, PTL

(***************************************************************************)
(* Acks, timeouts, drops and the end of the session settle every request   *)
(* at most once.                                                           *)
(***************************************************************************)
THEOREM SettlesOnceCorrect ==
  ASSUME "rejected" \notin RetryOn
  PROVE  Spec => SettlesOnce
  <1>1. Good(r) /\ [Next]_r => [\A m \in Msgs : r.msg[m] \in Final => r'.msg[m] = r.msg[m]]_r
    BY StepGood DEF Keeps
  <1> QED
    BY <1>1, Invariance, PTL DEF Spec, SettlesOnce

------------------------------------------------------------------------------
(* The streaming buffer.                                                    *)

(* Sets of numbers have a least and, if bounded, a greatest element.        *)
LEMMA MinIs ==
  ASSUME NEW S \in SUBSET Nat, S # {}
  PROVE  Min(S) \in S /\ \A y \in S : Min(S) <= y
<1> DEFINE R == {ss \in Nat \X Nat : ss[1] < ss[2]}
<1>1. IsWellFoundedOn(R, Nat)
  BY NatLessThanWellFounded DEF OpToRel
<1>2. \A x, y \in Nat : <<y, x>> \in R <=> y < x
  OBVIOUS
<1> HIDE DEF R
<1>3. PICK x \in S : \A y \in S : ~(<<y, x>> \in R)
  BY <1>1, WFMin
<1>4. ASSUME NEW y \in S PROVE x <= y
  <2>1. x \in Nat /\ y \in Nat /\ <<y, x>> \notin R
    BY <1>3
  <2> QED BY <1>2, <2>1
<1> QED BY <1>4 DEF Min

LEMMA MaxIs ==
  ASSUME NEW n \in Nat, NEW S \in SUBSET (0..n), S # {}
  PROVE  Max(S) \in S /\ \A y \in S : y <= Max(S)
<1> DEFINE T == {k \in 0..n : n - k \in S}
<1>1. T \in SUBSET Nat /\ T # {}
  <2>1. PICK s \in S : TRUE
    OBVIOUS
  <2>2. n - s \in T
    BY <2>1
  <2> QED BY <2>2
<1>2. Min(T) \in T /\ \A y \in T : Min(T) <= y
  BY <1>1, MinIs
<1>3. n - Min(T) \in S /\ \A y \in S : y <= n - Min(T)
  <2>1. Min(T) \in 0..n /\ n - Min(T) \in S
    BY <1>2
  <2>2. ASSUME NEW y \in S PROVE y <= n - Min(T)
    <3>1. n - y \in T
      OBVIOUS
    <3> QED BY <1>2, <2>1, <3>1
  <2> QED BY <2>1, <2>2
<1> QED BY <1>3 DEF Max

------------------------------------------------------------------------------
(* Where the first marker is.                                               *)
LEMMA MarkerFromIs ==
  ASSUME NEW q \in Seq(Items), NEW from \in Nat \ {0}
  PROVE  LET i == MarkerFrom(q, from) IN
         /\ i \in {0} \cup from..Len(q)
         /\ i = 0 => \A k \in from..Len(q) : IsText(q[k])
         /\ i # 0 => IsFlush(q[i]) /\ \A k \in from..(i - 1) : IsText(q[k])
<1> DEFINE I == {i \in from..Len(q) : IsFlush(q[i])}
<1>1. MarkerFrom(q, from) = IF I = {} THEN 0 ELSE Min(I)
  BY DEF MarkerFrom
<1>2. \A i \in I : i \in Nat
  OBVIOUS
<1> HIDE DEF I
<1>3. I # {} => Min(I) \in I /\ \A y \in I : Min(I) <= y
  BY <1>2, MinIs
<1>4. \A k \in from..Len(q) : IsText(q[k]) <=> k \notin I
  BY DEF I, IsFlush, IsText
<1>5. CASE I = {}
  BY <1>1, <1>4, <1>5
<1>6. CASE I # {}
  <2> DEFINE i == Min(I)
  <2>1. i \in I /\ MarkerFrom(q, from) = i /\ \A y \in I : i <= y
    BY <1>1, <1>3, <1>6
  <2> HIDE DEF i
  <2>2. i \in from..Len(q) /\ IsFlush(q[i])
    BY <2>1 DEF I
  <2>3. \A k \in from..(i - 1) : IsText(q[k])
    BY <1>4, <2>1, <2>2
  <2> QED BY <2>1, <2>2, <2>3
<1> QED BY <1>5, <1>6

LEMMA Boundaries ==
  ASSUME NEW t \in Seq(Items)
  PROVE  SentenceBoundary(t) \in 0..Len(t) /\ WordBoundary(t) \in 0..Len(t)
<1> DEFINE S == {0} \cup {i \in DOMAIN t : t[i].type = "stop" /\
                            (i < Len(t) => t[i + 1].type = "space")}
           W == {0} \cup {i \in 1..(Len(t) - 1) :
                            t[i].type # "space" /\ t[i + 1].type = "space"}
<1>1. S \in SUBSET (0..Len(t)) /\ W \in SUBSET (0..Len(t)) /\ S # {} /\ W # {}
      /\ Len(t) \in Nat
  OBVIOUS
<1>2. Max(S) \in S /\ Max(W) \in W
  BY <1>1, MaxIs
<1> QED BY <1>1, <1>2 DEF SentenceBoundary, WordBoundary

------------------------------------------------------------------------------
(* The numbers in a queue: pieces come in order and without gaps up to the  *)
(* last one accepted; markers keep apart, and bear the number of the piece  *)
(* before them.                                                             *)
Mono(q) == \A i, j \in 1..Len(q) : i < j =>
  q[i].id <= q[j].id /\ (IsText(q[j]) => q[i].id < q[j].id)
Dense(q) == \A i, j \in 1..Len(q) :
  i < j /\ (\A k \in (i + 1)..j : IsText(q[k])) => q[j].id = q[i].id + (j - i)
Apart(q) == \A i \in 1..(Len(q) - 1) :
  IsFlush(q[i + 1]) => IsText(q[i]) /\ q[i + 1].id = q[i].id
Lay(q, len, p) ==
  /\ q = <<>> => len = 0
  /\ q # <<>> => /\ q[1].id = (p - len) + (IF IsText(q[1]) THEN 1 ELSE 0)
                 /\ q[Len(q)].id = p
QInv(q, len, p) ==
  /\ q \in Seq(Items) /\ len \in Nat /\ p \in Nat /\ len <= p
  /\ Mono(q) /\ Dense(q) /\ Apart(q) /\ Lay(q, len, p)

LEMMA ItemIs ==
  ASSUME NEW q \in Seq(Items), NEW i \in 1..Len(q)
  PROVE  q[i].id \in Nat /\ (IsText(q[i]) <=> ~IsFlush(q[i]))
<1>1. q[i] \in Items
  OBVIOUS
<1> QED BY <1>1 DEF Items, IsText, IsFlush

(* The first n items go, of which c are text.                               *)
LEMMA Dropping ==
  ASSUME NEW q, NEW len, NEW p, QInv(q, len, p), NEW n \in 1..Len(q), NEW c \in Nat,
         q[n].id = (p - len) + c
  PROVE  LET w == SubSeq(q, n + 1, Len(q)) IN
         /\ QInv(w, len - c, p) /\ Len(w) = Len(q) - n
         /\ \A k \in 1..Len(w) : n + k \in 1..Len(q) /\ w[k] = q[n + k]
<1> DEFINE w == SubSeq(q, n + 1, Len(q))
<1>1. q \in Seq(Items) /\ len \in Nat /\ p \in Nat /\ len <= p
      /\ Mono(q) /\ Dense(q) /\ Apart(q) /\ Lay(q, len, p)
      /\ Len(q) \in Nat
  BY DEF QInv
<1>2. w \in Seq(Items) /\ Len(w) = Len(q) - n
      /\ \A k \in 1..Len(w) : n + k \in 1..Len(q) /\ w[k] = q[n + k]
  BY <1>1
<1> HIDE DEF w
<1>3. \A i \in 1..Len(q) : q[i].id \in Nat /\ (IsText(q[i]) <=> ~IsFlush(q[i]))
  BY <1>1, ItemIs
<1>4. q[Len(q)].id = p /\ q[n].id <= q[Len(q)].id
  <2>1. q # <<>> /\ q[Len(q)].id = p
    BY <1>1 DEF Lay
  <2>2. n = Len(q) \/ n < Len(q)
    BY <1>1
  <2> QED BY <1>1, <1>3, <2>1, <2>2 DEF Mono
<1>5. len - c \in Nat /\ len - c <= p
  BY <1>1, <1>4
<1>6. Mono(w)
  <2> SUFFICES ASSUME NEW i \in 1..Len(w), NEW j \in 1..Len(w), i < j
               PROVE  w[i].id <= w[j].id /\ (IsText(w[j]) => w[i].id < w[j].id)
    BY DEF Mono
  <2>1. n + i \in 1..Len(q) /\ n + j \in 1..Len(q) /\ n + i < n + j
        /\ w[i] = q[n + i] /\ w[j] = q[n + j]
    BY <1>1, <1>2
  <2> QED BY <1>1, <2>1 DEF Mono
<1>7. Dense(w)
  <2> SUFFICES ASSUME NEW i \in 1..Len(w), NEW j \in 1..Len(w), i < j,
                      \A k \in (i + 1)..j : IsText(w[k])
               PROVE  w[j].id = w[i].id + (j - i)
    BY DEF Dense
  <2>1. n + i \in 1..Len(q) /\ n + j \in 1..Len(q) /\ n + i < n + j
        /\ w[i] = q[n + i] /\ w[j] = q[n + j]
    BY <1>1, <1>2
  <2>2. \A k \in (n + i + 1)..(n + j) : IsText(q[k])
    <3> SUFFICES ASSUME NEW k \in (n + i + 1)..(n + j) PROVE IsText(q[k])
      OBVIOUS
    <3>1. k - n \in (i + 1)..j /\ k - n \in 1..Len(w) /\ n + (k - n) = k
      OBVIOUS
    <3> QED BY <1>2, <3>1
  <2>3. q[n + j].id = q[n + i].id + ((n + j) - (n + i))
    BY <1>1, <2>1, <2>2 DEF Dense
  <2> QED BY <1>3, <2>1, <2>3
<1>8. Apart(w)
  <2> SUFFICES ASSUME NEW i \in 1..(Len(w) - 1), IsFlush(w[i + 1])
               PROVE  IsText(w[i]) /\ w[i + 1].id = w[i].id
    BY DEF Apart
  <2>1. i \in 1..Len(w) /\ i + 1 \in 1..Len(w) /\ n + (i + 1) = (n + i) + 1
        /\ n + i \in 1..(Len(q) - 1)
    <3>1. Len(q) \in Nat /\ n \in Nat /\ Len(w) = Len(q) - n
      BY <1>1, <1>2
    <3>2. i \in Nat /\ 1 <= i /\ i <= (Len(q) - n) - 1
      BY <3>1
    <3> QED BY <3>1, <3>2
  <2>2. w[i] = q[n + i] /\ w[i + 1] = q[n + (i + 1)]
    BY <1>2, <2>1
  <2> QED BY <1>1, <2>1, <2>2 DEF Apart
<1>9. Lay(w, len - c, p)
  <2>1. CASE n = Len(q)
    <3>1. w = <<>> /\ len - c = 0
      BY <1>1, <1>2, <1>4, <2>1
    <3> QED BY <3>1 DEF Lay
  <2>2. CASE n # Len(q)
    <3>1. w # <<>> /\ w[1] = q[n + 1] /\ w[Len(w)] = q[Len(q)]
          /\ n + 1 \in 1..Len(q) /\ n \in 1..(Len(q) - 1)
      BY <1>1, <1>2, <2>2
    <3>2. q[n + 1].id = q[n].id + (IF IsText(q[n + 1]) THEN 1 ELSE 0)
      <4>1. CASE IsText(q[n + 1])
        <5>1. \A k \in (n + 1)..(n + 1) : IsText(q[k])
          BY <4>1
        <5>3. n \in 1..Len(q) /\ n + 1 \in 1..Len(q) /\ n < n + 1 /\ Dense(q)
          BY <1>1, <3>1
        <5>2. q[n + 1].id = q[n].id + ((n + 1) - n)
          BY <5>1, <5>3 DEF Dense
        <5> QED BY <1>3, <3>1, <4>1, <5>2
      <4>2. CASE ~IsText(q[n + 1])
        <5>1. IsFlush(q[n + 1]) /\ n \in 1..(Len(q) - 1) /\ Apart(q)
          BY <1>1, <1>3, <3>1, <4>2
        <5>2. q[n + 1].id = q[n].id
          BY <5>1 DEF Apart
        <5> QED BY <1>3, <4>2, <5>2
      <4> QED BY <4>1, <4>2
    <3> QED BY <1>1, <1>3, <1>4, <3>1, <3>2 DEF Lay
  <2> QED BY <2>1, <2>2
<1> QED
  BY <1>1, <1>2, <1>5, <1>6, <1>7, <1>8, <1>9 DEF QInv, w

(* Text is added, numbered on.                                              *)
Numbered(new, p) == \A k \in 1..Len(new) : IsText(new[k]) /\ new[k].id = p + k
Joins(q, len, p, new, w) ==
  QInv(q, len, p) /\ new \in Seq(Items) /\ Numbered(new, p) /\ w = q \o new

LEMMA Adding ==
  ASSUME NEW q, NEW len, NEW p, NEW new, NEW w, Joins(q, len, p, new, w)
  PROVE  /\ QInv(w, len + Len(new), p + Len(new))
         /\ Len(w) = Len(q) + Len(new)
         /\ \A k \in 1..Len(q) : w[k] = q[k]
         /\ \A k \in 1..Len(new) : w[Len(q) + k] = new[k]
<1> DEFINE l == Len(q)
           m == Len(new)
<1>1. q \in Seq(Items) /\ len \in Nat /\ p \in Nat /\ len <= p
      /\ Mono(q) /\ Dense(q) /\ Apart(q) /\ Lay(q, len, p)
      /\ l \in Nat /\ m \in Nat /\ new \in Seq(Items) /\ Numbered(new, p)
  BY DEF QInv, Joins
<1>2. w \in Seq(Items) /\ Len(w) = l + m
      /\ (\A k \in 1..l : w[k] = q[k])
      /\ \A k \in 1..m : w[l + k] = new[k]
  BY <1>1 DEF Joins
<1>3. \A i \in 1..l : q[i].id \in Nat /\ (IsText(q[i]) <=> ~IsFlush(q[i]))
  BY <1>1, ItemIs
<1>4. \A i \in 1..l : q[i].id <= p
  <2> SUFFICES ASSUME NEW i \in 1..l PROVE q[i].id <= p
    OBVIOUS
  <2>1. q # <<>> /\ q[l].id = p /\ l \in 1..l /\ (i = l \/ i < l)
    BY <1>1 DEF Lay
  <2> QED BY <1>1, <1>3, <2>1 DEF Mono
<1> HIDE DEF l, m
<1>5. \A i \in 1..(l + m) : i > l => /\ i - l \in 1..m /\ w[i] = new[i - l]
                                     /\ IsText(w[i]) /\ w[i].id = p + (i - l)
  <2> SUFFICES ASSUME NEW i \in 1..(l + m), i > l
               PROVE  /\ i - l \in 1..m /\ w[i] = new[i - l]
                      /\ IsText(w[i]) /\ w[i].id = p + (i - l)
    OBVIOUS
  <2>1. i - l \in 1..m /\ l + (i - l) = i
    BY <1>1
  <2>2. w[i] = new[i - l]
    BY <1>2, <2>1
  <2>3. IsText(new[i - l]) /\ new[i - l].id = p + (i - l)
    BY <1>1, <2>1 DEF m, Numbered
  <2> QED BY <2>1, <2>2, <2>3
<1>6. \A i \in 1..(l + m) : i <= l => i \in 1..l /\ w[i] = q[i]
  BY <1>1, <1>2
<1>7. Mono(w)
  <2> SUFFICES ASSUME NEW i \in 1..(l + m), NEW j \in 1..(l + m), i < j
               PROVE  w[i].id <= w[j].id /\ (IsText(w[j]) => w[i].id < w[j].id)
    BY <1>2 DEF Mono
  <2>1. CASE j <= l
    <3>1. i \in 1..l /\ j \in 1..l /\ w[i] = q[i] /\ w[j] = q[j]
      BY <1>1, <1>6, <2>1
    <3> QED BY <1>1, <3>1 DEF Mono, l
  <2>2. CASE j > l /\ i <= l
    <3>1. w[j].id = p + (j - l) /\ w[i].id <= p /\ w[i].id \in Nat
      BY <1>1, <1>3, <1>4, <1>5, <1>6, <2>2
    <3> QED BY <1>1, <2>2, <3>1
  <2>3. CASE i > l
    <3>1. w[j].id = p + (j - l) /\ w[i].id = p + (i - l)
      BY <1>1, <1>5, <2>3
    <3> QED BY <1>1, <2>3, <3>1
  <2> QED BY <1>1, <2>1, <2>2, <2>3
<1>8. Dense(w)
  <2> SUFFICES ASSUME NEW i \in 1..(l + m), NEW j \in 1..(l + m), i < j,
                      \A k \in (i + 1)..j : IsText(w[k])
               PROVE  w[j].id = w[i].id + (j - i)
    BY <1>2 DEF Dense
  <2>1. CASE j <= l
    <3>1. i \in 1..l /\ j \in 1..l /\ w[i] = q[i] /\ w[j] = q[j]
      BY <1>1, <1>6, <2>1
    <3>2. \A k \in (i + 1)..j : IsText(q[k])
      <4> SUFFICES ASSUME NEW k \in (i + 1)..j PROVE IsText(q[k])
        OBVIOUS
      <4>1. k \in 1..(l + m) /\ k <= l
        BY <1>1, <2>1
      <4> QED BY <1>6, <4>1
    <3> QED BY <1>1, <3>1, <3>2 DEF Dense, l
  <2>2. CASE j > l /\ i <= l
    <3>1. w[j].id = p + (j - l) /\ i \in 1..l /\ w[i] = q[i] /\ q[i].id \in Nat
      BY <1>1, <1>3, <1>5, <1>6, <2>2
    <3>2. q # <<>> /\ q[l].id = p /\ l \in 1..l
      BY <1>1, <3>1 DEF Lay, l
    <3>3. q[l].id = q[i].id + (l - i)
      <4>1. CASE i = l
        BY <1>1, <3>1, <4>1
      <4>2. CASE i < l
        <5>1. \A k \in (i + 1)..l : IsText(q[k])
          <6> SUFFICES ASSUME NEW k \in (i + 1)..l PROVE IsText(q[k])
            OBVIOUS
          <6>1. k \in 1..(l + m) /\ k <= l /\ k \in (i + 1)..j
            BY <1>1, <2>2
          <6> QED BY <1>6, <6>1
        <5> QED BY <1>1, <3>1, <3>2, <4>2, <5>1 DEF Dense, l
      <4> QED BY <1>1, <2>2, <4>1, <4>2
    <3>4. l \in Nat /\ p \in Nat /\ i \in Nat /\ j \in Nat
      BY <1>1
    <3>5. p = w[i].id + (l - i) /\ w[i].id \in Nat
      BY <3>1, <3>2, <3>3
    <3> QED BY <3>1, <3>4, <3>5
  <2>3. CASE i > l
    <3>1. w[j].id = p + (j - l) /\ w[i].id = p + (i - l)
      BY <1>1, <1>5, <2>3
    <3> QED BY <1>1, <3>1
  <2> QED BY <1>1, <2>1, <2>2, <2>3
<1>9. Apart(w)
  <2> SUFFICES ASSUME NEW i \in 1..(Len(w) - 1), IsFlush(w[i + 1])
               PROVE  IsText(w[i]) /\ w[i + 1].id = w[i].id
    BY DEF Apart
  <2>1. i + 1 \in 1..(l + m) /\ i \in 1..(l + m)
    BY <1>1, <1>2
  <2>2. ~(i + 1 > l)
    <3>1. ~IsText(w[i + 1])
      BY DEF IsText, IsFlush
    <3> QED BY <1>5, <2>1, <3>1
  <2>3. i \in 1..(l - 1) /\ w[i] = q[i] /\ w[i + 1] = q[i + 1]
    <3>1. l \in Nat /\ i \in Nat /\ i >= 1
      BY <1>1, <2>1
    <3>2. i + 1 <= l /\ i <= l /\ i \in 1..(l - 1)
      BY <2>2, <3>1
    <3>3. w[i] = q[i]
      BY <1>6, <2>1, <3>2
    <3>4. w[i + 1] = q[i + 1]
      BY <1>6, <2>1, <3>2
    <3> QED BY <3>2, <3>3, <3>4
  <2>4. IsFlush(q[i + 1]) => IsText(q[i]) /\ q[i + 1].id = q[i].id
    BY <1>1, <2>3 DEF Apart, l
  <2> QED BY <2>3, <2>4
<1>10. Lay(w, len + m, p + m)
  <2>1. CASE m = 0
    <3>1. Len(w) = l /\ (l # 0 => w[1] = q[1] /\ w[l] = q[l])
          /\ (w = <<>> <=> l = 0) /\ (q = <<>> <=> l = 0)
      BY <1>1, <1>2, <1>6, <2>1 DEF l
    <3> QED BY <1>1, <2>1, <3>1 DEF Lay, l
  <2>2. CASE m # 0
    <3>1. l + m \in 1..(l + m) /\ l + m > l /\ w # <<>> /\ 1 \in 1..(l + m)
      BY <1>1, <1>2, <2>2
    <3>2. w[l + m].id = p + m
      BY <1>1, <1>5, <3>1
    <3>3. w[1].id = ((p + m) - (len + m)) + (IF IsText(w[1]) THEN 1 ELSE 0)
      <4>1. CASE l = 0
        <5>1. len = 0 /\ IsText(w[1]) /\ w[1].id = p + 1
          BY <1>1, <1>5, <3>1, <4>1 DEF Lay, l
        <5> QED BY <1>1, <5>1
      <4>2. CASE l # 0
        <5>1. q # <<>> /\ w[1] = q[1] /\ (p + m) - (len + m) = p - len
          BY <1>1, <1>6, <3>1, <4>2 DEF l
        <5> QED BY <1>1, <5>1 DEF Lay
      <4> QED BY <4>1, <4>2
    <3> QED BY <1>2, <3>1, <3>2, <3>3 DEF Lay
  <2> QED BY <2>1, <2>2
<1>11. len + m \in Nat /\ p + m \in Nat /\ len + m <= p + m
  BY <1>1
<1> QED
  BY <1>1, <1>2, <1>7, <1>8, <1>9, <1>10, <1>11 DEF QInv, l, m

(* A marker is added behind text, or to an empty queue.                     *)
LEMMA Marking ==
  ASSUME NEW q, NEW len, NEW p, QInv(q, len, p),
         q # <<>> => IsText(q[Len(q)]), NEW f \in Items, IsFlush(f), f.id = p
  PROVE  LET w == Append(q, f) IN
         /\ QInv(w, len, p) /\ Len(w) = Len(q) + 1 /\ w[Len(w)] = f
         /\ \A k \in 1..Len(q) : w[k] = q[k]
<1> DEFINE w == Append(q, f)
           l == Len(q)
<1>1. q \in Seq(Items) /\ len \in Nat /\ p \in Nat /\ len <= p
      /\ Mono(q) /\ Dense(q) /\ Apart(q) /\ Lay(q, len, p)
      /\ l \in Nat
  BY DEF QInv
<1>2. w \in Seq(Items) /\ Len(w) = l + 1 /\ w[l + 1] = f
      /\ \A k \in 1..l : w[k] = q[k]
  BY <1>1
<1> HIDE DEF w
<1>3. \A i \in 1..l : q[i].id \in Nat /\ (IsText(q[i]) <=> ~IsFlush(q[i]))
  BY <1>1, ItemIs
<1>4. \A i \in 1..l : q[i].id <= p
  <2> SUFFICES ASSUME NEW i \in 1..l PROVE q[i].id <= p
    OBVIOUS
  <2>1. q # <<>> /\ q[l].id = p /\ l \in 1..l /\ (i = l \/ i < l)
    BY <1>1 DEF Lay
  <2> QED BY <1>1, <1>3, <2>1 DEF Mono
<1>5. (q = <<>> <=> l = 0) /\ (l # 0 => IsText(q[l]) /\ q[l].id = p)
  BY <1>1 DEF Lay
<1>6. ~IsText(f)
  BY DEF IsText, IsFlush
<1> HIDE DEF l
<1>7. \A i \in 1..(l + 1) : i = l + 1 \/ i \in 1..l
  BY <1>1
<1>8. Mono(w)
  <2> SUFFICES ASSUME NEW i \in 1..(l + 1), NEW j \in 1..(l + 1), i < j
               PROVE  w[i].id <= w[j].id /\ (IsText(w[j]) => w[i].id < w[j].id)
    BY <1>2 DEF Mono
  <2>1. i \in 1..l
    BY <1>1
  <2>2. CASE j = l + 1
    BY <1>2, <1>4, <1>6, <2>1, <2>2
  <2>3. CASE j \in 1..l
    BY <1>1, <1>2, <2>1, <2>3 DEF Mono, l
  <2> QED BY <1>7, <2>2, <2>3
<1>9. Dense(w)
  <2> SUFFICES ASSUME NEW i \in 1..(l + 1), NEW j \in 1..(l + 1), i < j,
                      \A k \in (i + 1)..j : IsText(w[k])
               PROVE  w[j].id = w[i].id + (j - i)
    BY <1>2 DEF Dense
  <2>1. i \in 1..l /\ IsText(w[j])
    BY <1>1
  <2>2. j \in 1..l
    BY <1>2, <1>6, <1>7, <2>1
  <2>3. \A k \in (i + 1)..j : IsText(q[k])
    <3> SUFFICES ASSUME NEW k \in (i + 1)..j PROVE IsText(q[k])
      OBVIOUS
    <3>1. k \in 1..l
      BY <1>1, <2>1, <2>2
    <3> QED BY <1>2, <3>1
  <2> QED BY <1>1, <1>2, <2>1, <2>2, <2>3 DEF Dense, l
<1>10. Apart(w)
  <2> SUFFICES ASSUME NEW i \in 1..l, IsFlush(w[i + 1])
               PROVE  IsText(w[i]) /\ w[i + 1].id = w[i].id
    BY <1>1, <1>2 DEF Apart
  <2>1. CASE i = l
    BY <1>1, <1>2, <1>5, <2>1
  <2>2. CASE i # l
    <3>1. i \in 1..(l - 1) /\ i + 1 \in 1..l
      BY <1>1, <2>2
    <3> QED BY <1>1, <1>2, <3>1 DEF Apart, l
  <2> QED BY <2>1, <2>2
<1>11. Lay(w, len, p)
  <2>1. w # <<>> /\ w[Len(w)].id = p
    BY <1>1, <1>2
  <2>2. CASE l = 0
    BY <1>1, <1>2, <1>5, <1>6, <2>1, <2>2 DEF Lay
  <2>3. CASE l # 0
    <3>1. w[1] = q[1] /\ q # <<>>
      BY <1>1, <1>2, <1>5, <2>3
    <3> QED BY <1>1, <2>1, <3>1 DEF Lay
  <2> QED BY <2>2, <2>3
<1> QED
  BY <1>1, <1>2, <1>8, <1>9, <1>10, <1>11 DEF QInv, l, w

LEMMA NumbersAreBounded ==
  ASSUME NEW q, NEW len, NEW p, QInv(q, len, p)
  PROVE  \A i \in 1..Len(q) : q[i].id \in Nat /\ q[i].id <= p
<1>1. q \in Seq(Items) /\ Mono(q) /\ Lay(q, len, p) /\ Len(q) \in Nat /\ p \in Nat
  BY DEF QInv
<1> SUFFICES ASSUME NEW i \in 1..Len(q) PROVE q[i].id \in Nat /\ q[i].id <= p
  OBVIOUS
<1>2. q # <<>> /\ q[Len(q)].id = p /\ q[i].id \in Nat
  BY <1>1, ItemIs DEF Lay
<1>3. i = Len(q) \/ (i < Len(q) /\ Len(q) \in 1..Len(q))
  BY <1>1
<1> QED BY <1>1, <1>2, <1>3 DEF Mono

(* A queue that begins with text is not empty by its length.                *)
LEMMA TextHasLength ==
  ASSUME NEW q, NEW len, NEW p, QInv(q, len, p), q # <<>>, IsText(q[1])
  PROVE  len > 0
<1>1. q[1].id = (p - len) + 1 /\ len \in Nat /\ p \in Nat
  BY DEF QInv, Lay
<1>2. 1 \in 1..Len(q)
  BY DEF QInv
<1>3. q[1].id <= p
  BY <1>2, NumbersAreBounded
<1> QED BY <1>1, <1>3

(* The text and the marker that phase 1 takes from the queue.               *)
LEMMA TextBeforeIs ==
  ASSUME NEW q, NEW len, NEW p, QInv(q, len, p), MarkerFrom(q, 2) # 0
  PROVE  LET i == MarkerFrom(q, 2)
             t == TextBefore(q, i)
         IN  /\ i \in 1..Len(q) /\ IsFlush(q[i])
             /\ t \in Seq(Items) /\ Len(t) \in Nat /\ t # <<>>
             /\ \E f \in 1..Len(q) : IsText(q[f]) /\ Head(t) = q[f]
             /\ Last(t).id = q[i].id
             /\ q[i].id = (p - len) + Len(t)
<1> DEFINE i == MarkerFrom(q, 2)
           t == TextBefore(q, i)
<1>1. q \in Seq(Items) /\ len \in Nat /\ p \in Nat /\ Len(q) \in Nat
      /\ Dense(q) /\ Apart(q) /\ Lay(q, len, p)
  BY DEF QInv
<1>2. i \in 2..Len(q) /\ IsFlush(q[i]) /\ \A k \in 2..(i - 1) : IsText(q[k])
  BY <1>1, MarkerFromIs
<1>3. t = SubSeq(q, IF IsFlush(q[1]) THEN 2 ELSE 1, i - 1)
  BY DEF TextBefore
<1> HIDE DEF i, t
<1>4. \A k \in 1..Len(q) : q[k].id \in Nat /\ (IsText(q[k]) <=> ~IsFlush(q[k]))
  BY <1>1, ItemIs
<1>5. i - 1 \in 1..Len(q) /\ i \in 1..Len(q) /\ 1 \in 1..Len(q) /\ i \in Nat
  BY <1>1, <1>2
<1>6. IsText(q[i - 1]) /\ q[i].id = q[i - 1].id
  <2>1. i - 1 \in 1..(Len(q) - 1) /\ (i - 1) + 1 = i
    BY <1>1, <1>2
  <2> QED BY <1>1, <1>2, <2>1 DEF Apart
<1>7. q[i - 1].id = q[1].id + (i - 2)
  <2>1. CASE i = 2
    BY <1>4, <1>5, <2>1
  <2>2. CASE i # 2
    <3>1. \A k \in (1 + 1)..(i - 1) : IsText(q[k])
      BY <1>2
    <3>2. 1 < i - 1 /\ (i - 1) - 1 = i - 2
      BY <1>2, <1>5, <2>2
    <3>3. q[i - 1].id = q[1].id + ((i - 1) - 1)
      BY <1>1, <1>5, <3>1, <3>2 DEF Dense
    <3> QED BY <3>2, <3>3
  <2> QED BY <2>1, <2>2
<1>8. q[1].id = (p - len) + (IF IsText(q[1]) THEN 1 ELSE 0)
  BY <1>1, <1>5 DEF Lay
<1>9. CASE IsFlush(q[1])
  <2>1. i # 2
    BY <1>4, <1>5, <1>6, <1>9
  <2>2. t = SubSeq(q, 2, i - 1)
    BY <1>3, <1>9
  <2>3. 2 \in 1..Len(q) /\ i - 1 >= 2 /\ IsText(q[2])
    BY <1>2, <1>5, <2>1
  <2>4. t \in Seq(Items) /\ Len(t) = i - 2 /\ t[1] = q[2] /\ t[Len(t)] = q[i - 1]
    BY <1>1, <1>5, <2>2, <2>3
  <2>5. Head(t) = q[2] /\ Last(t) = q[i - 1] /\ t # <<>> /\ Len(t) \in Nat
    BY <1>5, <2>3, <2>4 DEF Last
  <2>6. q[i].id = (p - len) + Len(t)
    BY <1>1, <1>4, <1>5, <1>6, <1>7, <1>8, <1>9, <2>4
  <2> QED BY <1>2, <1>5, <1>6, <2>3, <2>4, <2>5, <2>6 DEF i, t
<1>10. CASE ~IsFlush(q[1])
  <2>1. t = SubSeq(q, 1, i - 1) /\ IsText(q[1])
    BY <1>3, <1>4, <1>5, <1>10
  <2>2. t \in Seq(Items) /\ Len(t) = i - 1 /\ t[1] = q[1] /\ t[Len(t)] = q[i - 1]
    BY <1>1, <1>5, <2>1
  <2>3. Head(t) = q[1] /\ Last(t) = q[i - 1] /\ t # <<>> /\ Len(t) \in Nat
    BY <1>5, <2>2 DEF Last
  <2>4. q[i].id = (p - len) + Len(t)
    BY <1>1, <1>4, <1>5, <1>6, <1>7, <1>8, <2>1, <2>2
  <2> QED BY <1>2, <1>5, <1>6, <2>1, <2>2, <2>3, <2>4 DEF i, t
<1> QED BY <1>9, <1>10

(* The text at the head of a queue, of which phase 2 sends a part.          *)
Ahead(q) == LET m == MarkerFrom(q, 1) IN IF m = 0 THEN q ELSE SubSeq(q, 1, m - 1)

LEMMA AheadIs ==
  ASSUME NEW q, NEW len, NEW p, QInv(q, len, p), q # <<>> => IsText(q[1])
  PROVE  /\ Ahead(q) \in Seq(Items) /\ Len(Ahead(q)) \in 0..Len(q)
         /\ Ahead(q) = <<>> => q = <<>>
         /\ \A k \in 1..Len(Ahead(q)) :
              Ahead(q)[k] = q[k] /\ IsText(q[k]) /\ q[k].id = (p - len) + k
<1> DEFINE m == MarkerFrom(q, 1)
           t == Ahead(q)
<1>1. q \in Seq(Items) /\ len \in Nat /\ p \in Nat /\ Len(q) \in Nat
      /\ Dense(q) /\ Lay(q, len, p)
  BY DEF QInv
<1>2. /\ m \in {0} \cup 1..Len(q)
      /\ m = 0 => \A k \in 1..Len(q) : IsText(q[k])
      /\ m # 0 => IsFlush(q[m]) /\ \A k \in 1..(m - 1) : IsText(q[k])
  BY <1>1, MarkerFromIs
<1>3. t = IF m = 0 THEN q ELSE SubSeq(q, 1, m - 1)
  BY DEF Ahead
<1> HIDE DEF m, t
<1>4. \A k \in 1..Len(q) : q[k].id \in Nat /\ (IsText(q[k]) <=> ~IsFlush(q[k]))
  BY <1>1, ItemIs
<1>5. m # 1
  <2> SUFFICES ASSUME m = 1 PROVE FALSE
    OBVIOUS
  <2>1. 1 \in 1..Len(q) /\ q # <<>> /\ IsFlush(q[1])
    BY <1>1, <1>2
  <2> QED BY <1>4, <2>1
<1>6. /\ t \in Seq(Items) /\ Len(t) \in 0..Len(q) /\ (t = <<>> => q = <<>>)
      /\ \A k \in 1..Len(t) : t[k] = q[k] /\ IsText(q[k])
  <2>1. CASE m = 0
    BY <1>1, <1>2, <1>3, <2>1
  <2>2. CASE m # 0
    <3>1. t = SubSeq(q, 1, m - 1) /\ m \in 1..Len(q) /\ m - 1 \in 1..Len(q)
      BY <1>1, <1>2, <1>3, <1>5, <2>2
    <3>2. t \in Seq(Items) /\ Len(t) = m - 1 /\ \A k \in 1..(m - 1) : t[k] = q[k]
      BY <1>1, <3>1
    <3>3. m - 1 \in Nat /\ m - 1 # 0 /\ Len(t) \in 0..Len(q)
      BY <1>1, <3>1, <3>2
    <3>4. t # <<>>
      BY <3>2, <3>3
    <3>5. \A k \in 1..Len(t) : t[k] = q[k] /\ IsText(q[k])
      BY <1>2, <2>2, <3>2
    <3> QED BY <3>2, <3>3, <3>4, <3>5
  <2> QED BY <2>1, <2>2
<1>7. ASSUME NEW k \in 1..Len(t) PROVE q[k].id = (p - len) + k
  <2>1. k \in 1..Len(q) /\ 1 \in 1..Len(t) /\ 1 \in 1..Len(q) /\ q # <<>>
    BY <1>1, <1>6
  <2>2. q[1].id = (p - len) + 1
    BY <1>1, <1>6, <2>1 DEF Lay
  <2>3. CASE k = 1
    BY <2>2, <2>3
  <2>4. CASE k # 1
    <3>1. \A l \in (1 + 1)..k : IsText(q[l])
      BY <1>6
    <3>5. 1 < k
      BY <1>1, <2>1, <2>4
    <3>2. q[k].id = q[1].id + (k - 1)
      BY <1>1, <2>1, <3>1, <3>5 DEF Dense
    <3>3. p \in Nat /\ len \in Nat /\ k \in Nat
      BY <1>1, <2>1
    <3>4. q[k].id = ((p - len) + 1) + (k - 1)
      BY <2>2, <3>2
    <3> QED BY <3>3, <3>4
  <2> QED BY <2>3, <2>4
<1> QED BY <1>6, <1>7 DEF t

------------------------------------------------------------------------------
(* The buffer.                                                              *)

(* All text up to the number n has left the queue.                          *)
Passed(n, q, p) == n <= p /\ \A k \in 1..Len(q) : IsText(q[k]) => n < q[k].id

(* What was sent comes before the text that was sent later, or is queued,   *)
(* and so does the text before a marker whose flush is due after a reply.   *)
SentInv(b, p) ==
  /\ \A i \in 1..Len(b.sent) : Passed(b.sent[i].upTo, b.queue, p)
  /\ \A i, j \in 1..Len(b.sent) :
       i < j /\ b.sent[j].cmd = "send" => b.sent[i].upTo < b.sent[j].from
  /\ \A i \in 1..Len(b.awaiting) :
       b.awaiting[i].at = "text" => Passed(b.awaiting[i].marker, b.queue, p)

BInv(b, p) == b \in Buffers /\ QInv(b.queue, b.len, p) /\ SentInv(b, p)

(* Something looks at what is queued again: the timer, if text is in front, *)
(* or a suspended call of _feedQueue().                                     *)
Held(b) ==
  b.queue # <<>> => \/ b.timer /\ IsText(b.queue[1])
                    \/ \E i \in 1..Len(b.awaiting) : b.awaiting[i].at # "connect"

TtsInv ==
  /\ TtsTypeOK /\ BInv(buf, pieces)
  /\ Streaming => Held(buf)
  /\ says = 0 => /\ buf.status = "notconnected" /\ buf.awaiting = <<>>
                 /\ ~open /\ ~dialing

Commands == [cmd : {"send", "flush"}, from : Nat, upTo : Nat]

LEMMA BufferIs ==
  ASSUME NEW b \in Buffers
  PROVE  /\ b.queue \in Seq(Items) /\ b.len \in Nat /\ b.full \in BOOLEAN
         /\ b.timer \in BOOLEAN /\ b.recent \in BOOLEAN
         /\ b.awaiting \in Seq(Calls) /\ b.sent \in Seq(Commands)
         /\ b.status \in {"notconnected", "connecting", "connected", "failed"}
BY DEF Buffers, Commands

(* The empty queue.                                                         *)
LEMMA NothingQueued ==
  ASSUME NEW p \in Nat
  PROVE  QInv(<<>>, 0, p)
<1>1. <<>> \in Seq(Items) /\ Len(<<>>) = 0
  OBVIOUS
<1>2. Mono(<<>>) /\ Dense(<<>>) /\ Apart(<<>>) /\ Lay(<<>>, 0, p)
  BY <1>1 DEF Mono, Dense, Apart, Lay
<1> QED BY <1>1, <1>2 DEF QInv

(* What is in s is in t as well; the calls in s are those in t or need not  *)
(* flush before they passed all text; a command is about text in q.         *)
From(s, t) == \A k \in 1..Len(s) : \E l \in 1..Len(t) : s[k] = t[l]
MayWait(call, q, p) == call.at = "text" => Passed(call.marker, q, p)
CallsFrom(s, t, q, p) ==
  \A i \in 1..Len(s) : MayWait(s[i], q, p) \/ \E j \in 1..Len(t) : s[i] = t[j]
About(e, q) ==
  e.cmd = "send" => \E l \in 1..Len(q) : IsText(q[l]) /\ e.from = q[l].id

LEMMA EmptiedBuffer ==
  ASSUME NEW b \in Buffers
  PROVE  LET c == Emptied(b) IN
         /\ c \in Buffers /\ c.sent = b.sent /\ c.awaiting = b.awaiting
         /\ c.queue = <<>> /\ c.len = 0 /\ c.status = b.status
<1> DEFINE none == <<>>
<1>1. none \in Seq(Items) /\ 0 \in Nat
  OBVIOUS
<1>2. Emptied(b) = [b EXCEPT !.queue = none, !.len = 0]
  BY DEF Emptied
<1> HIDE DEF none
<1>3. /\ Emptied(b) \in Buffers /\ Emptied(b).sent = b.sent
      /\ Emptied(b).awaiting = b.awaiting
      /\ Emptied(b).queue = none /\ Emptied(b).len = 0 /\ Emptied(b).status = b.status
  BY <1>1, <1>2 DEF Buffers
<1> QED BY <1>3 DEF none

(* A command and a call that waits for its reply.                           *)
LEMMA CommandedBuffer ==
  ASSUME NEW b \in Buffers, NEW e \in Commands, NEW call \in Calls
  PROVE  LET c == [b EXCEPT !.sent = Append(@, e), !.awaiting = Append(@, call)] IN
         /\ c \in Buffers /\ c.sent = Append(b.sent, e)
         /\ c.awaiting = Append(b.awaiting, call)
         /\ c.queue = b.queue /\ c.len = b.len /\ c.status = b.status
<1> DEFINE s == Append(b.sent, e)
           a == Append(b.awaiting, call)
           c == [b EXCEPT !.sent = s, !.awaiting = a]
<1>1. b.sent \in Seq(Commands) /\ b.awaiting \in Seq(Calls)
  BY BufferIs
<1>2. s \in Seq(Commands) /\ a \in Seq(Calls)
  BY <1>1
<1> HIDE DEF s, a
<1>3. /\ c \in Buffers /\ c.sent = s /\ c.awaiting = a
      /\ c.queue = b.queue /\ c.len = b.len /\ c.status = b.status
  BY <1>2 DEF Buffers, Commands
<1> QED BY <1>3 DEF s, a

(* No command is sent: calls may go on, the queue may be emptied.           *)
LEMMA NothingSent ==
  ASSUME NEW b, NEW p, BInv(b, p), NEW c \in Buffers, c.sent = b.sent,
         From(c.awaiting, b.awaiting),
         \/ c.queue = b.queue /\ c.len = b.len
         \/ c.queue = <<>> /\ c.len = 0
  PROVE  BInv(c, p)
<1>1. QInv(b.queue, b.len, p) /\ p \in Nat
  BY DEF BInv, QInv
<1>2. QInv(c.queue, c.len, p)
  BY <1>1, NothingQueued
<1>3. \A n : Passed(n, b.queue, p) => Passed(n, c.queue, p)
  BY DEF Passed
<1>4. SentInv(c, p)
  BY <1>3 DEF BInv, SentInv, From
<1> QED BY <1>2, <1>4 DEF BInv

(* The command e is sent.                                                   *)
LEMMA OneSent ==
  ASSUME NEW b, NEW p, BInv(b, p), NEW c \in Buffers, QInv(c.queue, c.len, p),
         NEW e \in Commands, c.sent = Append(b.sent, e), Passed(e.upTo, c.queue, p),
         From(c.queue, b.queue), About(e, b.queue),
         CallsFrom(c.awaiting, b.awaiting, c.queue, p)
  PROVE  BInv(c, p)
<1>1. b.sent \in Seq(Commands) /\ Len(b.sent) \in Nat /\ SentInv(b, p)
  BY BufferIs DEF BInv
<1>2. /\ Len(c.sent) = Len(b.sent) + 1 /\ c.sent[Len(b.sent) + 1] = e
      /\ \A i \in 1..Len(b.sent) : c.sent[i] = b.sent[i]
  BY <1>1
<1>3. \A n : Passed(n, b.queue, p) => Passed(n, c.queue, p)
  BY DEF Passed, From
<1>4. \A i \in 1..Len(c.sent) : i = Len(b.sent) + 1 \/ i \in 1..Len(b.sent)
  BY <1>1, <1>2
<1>5. \A i \in 1..Len(c.sent) : Passed(c.sent[i].upTo, c.queue, p)
  BY <1>1, <1>2, <1>3, <1>4 DEF SentInv
<1>6. \A i \in 1..Len(c.awaiting) :
        c.awaiting[i].at = "text" => Passed(c.awaiting[i].marker, c.queue, p)
  BY <1>1, <1>3 DEF SentInv, CallsFrom, MayWait
<1>7. ASSUME NEW i \in 1..Len(c.sent), NEW j \in 1..Len(c.sent),
             i < j, c.sent[j].cmd = "send"
      PROVE  c.sent[i].upTo < c.sent[j].from
  <2>1. i \in 1..Len(b.sent)
    BY <1>1, <1>2, <1>7
  <2>2. CASE j \in 1..Len(b.sent)
    BY <1>1, <1>2, <1>7, <2>1, <2>2 DEF SentInv
  <2>3. CASE j = Len(b.sent) + 1
    <3>1. Passed(b.sent[i].upTo, b.queue, p)
      BY <1>1, <2>1 DEF SentInv
    <3>2. PICK l \in 1..Len(b.queue) : IsText(b.queue[l]) /\ e.from = b.queue[l].id
      BY <1>2, <1>7, <2>3 DEF About
    <3> QED BY <1>2, <2>1, <2>3, <3>1, <3>2 DEF Passed
  <2> QED BY <1>4, <2>2, <2>3
<1>8. SentInv(c, p)
  BY <1>5, <1>6, <1>7 DEF SentInv
<1> QED BY <1>8 DEF BInv

------------------------------------------------------------------------------
(* What the methods do: each keeps the invariant of the buffer, leaves the  *)
(* status alone, and forgets nothing that is queued.                        *)
Kept(b, c, p) ==
  /\ BInv(c, p) /\ c.status = b.status
  /\ ep => Held(c)

LEMMA SetTimerIs ==
  ASSUME NEW b, NEW p, BInv(b, p)
  PROVE  LET c == SetTimerIfNeeded(b) IN
         /\ BInv(c, p) /\ c.status = b.status
         /\ c.queue = b.queue /\ c.awaiting = b.awaiting
         /\ b.queue # <<>> /\ IsText(b.queue[1]) => Held(c)
<1> DEFINE c == SetTimerIfNeeded(b)
<1>1. b \in Buffers /\ b.timer \in BOOLEAN /\ b.recent \in BOOLEAN /\ b.len \in Nat
  BY BufferIs DEF BInv
<1>2. c = IF b.len > 0 /\ ~b.timer THEN [b EXCEPT !.timer = TRUE, !.recent = FALSE]
          ELSE b
  BY DEF SetTimerIfNeeded
<1> HIDE DEF c
<1>3. /\ c \in Buffers /\ c.sent = b.sent /\ c.awaiting = b.awaiting
      /\ c.queue = b.queue /\ c.len = b.len /\ c.status = b.status
      /\ b.len > 0 => c.timer
  BY <1>1, <1>2 DEF Buffers
<1>4. BInv(c, p)
  BY <1>3, NothingSent DEF From
<1>5. b.queue # <<>> /\ IsText(b.queue[1]) => Held(c)
  BY <1>3, TextHasLength DEF BInv, Held
<1> QED BY <1>3, <1>4, <1>5 DEF c

LEMMA EmptiedIs ==
  ASSUME NEW b, NEW p, BInv(b, p)
  PROVE  /\ BInv(Emptied(b), p) /\ Emptied(b).status = b.status
         /\ Emptied(b).queue = <<>> /\ Emptied(b).awaiting = b.awaiting
<1> DEFINE c == Emptied(b)
<1>1. c \in Buffers /\ c.sent = b.sent /\ c.awaiting = b.awaiting
      /\ c.queue = <<>> /\ c.len = 0 /\ c.status = b.status
  BY EmptiedBuffer DEF BInv
<1> HIDE DEF c
<1>2. BInv(c, p)
  BY <1>1, NothingSent DEF From
<1> QED BY <1>1, <1>2 DEF c

LEMMA TimerRemoved ==
  ASSUME NEW b, NEW p, BInv(b, p)
  PROVE  LET c == RemoveTimer(b) IN
         BInv(c, p) /\ c.status = b.status /\ c.queue = b.queue /\ c.awaiting = b.awaiting
<1> DEFINE c == RemoveTimer(b)
<1>1. c \in Buffers /\ c.sent = b.sent /\ c.awaiting = b.awaiting
      /\ c.queue = b.queue /\ c.len = b.len /\ c.status = b.status
  BY DEF BInv, RemoveTimer, Buffers
<1> HIDE DEF c
<1>2. BInv(c, p)
  BY <1>1, NothingSent DEF From
<1> QED BY <1>1, <1>2 DEF c

LEMMA ResumedIs ==
  ASSUME NEW b, NEW p, BInv(b, p)
  PROVE  LET c == Resumed(b) IN
         BInv(c, p) /\ c.status = b.status /\ c.queue = b.queue /\ c.awaiting = b.awaiting
<1> DEFINE c == Resumed(b)
<1>1. c \in Buffers /\ c.sent = b.sent /\ c.awaiting = b.awaiting
      /\ c.queue = b.queue /\ c.len = b.len /\ c.status = b.status
  BY DEF BInv, Resumed, Buffers
<1> HIDE DEF c
<1>2. BInv(c, p)
  BY <1>1, NothingSent DEF From
<1> QED BY <1>1, <1>2 DEF c

(* A call that waits is added at the end of those that wait.                *)
LEMMA OneMoreCall ==
  ASSUME NEW s \in Seq(Calls), NEW e \in Calls
  PROVE  LET w == Append(s, e) IN
         /\ w \in Seq(Calls) /\ Len(w) = Len(s) + 1 /\ w[Len(w)] = e
         /\ Len(w) \in 1..Len(w)
         /\ \A i \in 1..Len(w) : w[i] = e \/ \E j \in 1..Len(s) : w[i] = s[j]
OBVIOUS

(* Text that was taken from a queue is sent.                                *)
LEMMA SendIs ==
  ASSUME NEW b, NEW p, BInv(b, p), NEW c \in Buffers, QInv(c.queue, c.len, p),
         c.sent = b.sent, c.awaiting = b.awaiting, c.status = b.status,
         NEW text \in Seq(Items), text # <<>>, NEW call \in Calls,
         \E l \in 1..Len(b.queue) : IsText(b.queue[l]) /\ Head(text) = b.queue[l],
         From(c.queue, b.queue),
         Passed(Last(text).id, c.queue, p),
         MayWait(call, c.queue, p), call.at # "connect"
  PROVE  Kept(b, Send(c, text, call), p)
<1> DEFINE e == [cmd |-> "send", from |-> Head(text).id, upTo |-> Last(text).id]
           d == Send(c, text, call)
<1>1. Head(text) \in Items /\ Last(text) \in Items
  BY DEF Last
<1>2. e \in Commands /\ e.cmd = "send" /\ e.from = Head(text).id /\ e.upTo = Last(text).id
  BY <1>1 DEF Commands, Items
<1>3. d = [c EXCEPT !.sent = Append(@, e), !.awaiting = Append(@, call)]
  BY DEF Send
<1> HIDE DEF e, d
<1>4. b.sent \in Seq(Commands) /\ b.awaiting \in Seq(Calls)
  BY BufferIs DEF BInv
<1>5. /\ d \in Buffers /\ d.sent = Append(c.sent, e)
      /\ d.awaiting = Append(c.awaiting, call)
      /\ d.queue = c.queue /\ d.len = c.len /\ d.status = c.status
  BY <1>2, <1>3, CommandedBuffer
<1>6. /\ Len(d.awaiting) \in 1..Len(d.awaiting) /\ d.awaiting[Len(d.awaiting)] = call
      /\ \A i \in 1..Len(d.awaiting) :
           d.awaiting[i] = call \/ \E j \in 1..Len(b.awaiting) : d.awaiting[i] = b.awaiting[j]
  BY <1>4, <1>5, OneMoreCall
<1>7. About(e, b.queue) /\ CallsFrom(d.awaiting, b.awaiting, d.queue, p)
      /\ From(d.queue, b.queue) /\ Passed(e.upTo, d.queue, p)
      /\ QInv(d.queue, d.len, p) /\ d.sent = Append(b.sent, e)
  BY <1>2, <1>5, <1>6 DEF About, CallsFrom
<1>8. BInv(d, p)
  BY <1>2, <1>5, <1>7, OneSent
<1>9. Held(d)
  BY <1>6 DEF Held
<1> QED BY <1>5, <1>8, <1>9 DEF Kept, d

(* _doFlush() for a marker that has left the queue.                         *)
LEMMA DoFlushIs ==
  ASSUME NEW b, NEW p, BInv(b, p), NEW c \in Buffers, QInv(c.queue, c.len, p),
         c.sent = b.sent, c.status = b.status,
         From(c.awaiting, b.awaiting), From(c.queue, b.queue),
         NEW at \in {"flush", "front"}, NEW n \in Nat, NEW timeout \in BOOLEAN,
         Passed(n, c.queue, p)
  PROVE  Kept(b, DoFlush(c, at, n, timeout), p)
<1> DEFINE e == [cmd |-> "flush", from |-> n, upTo |-> n]
           call == [at |-> at, marker |-> n, timeout |-> timeout]
           d == DoFlush(c, at, n, timeout)
<1>1. e \in Commands /\ e.cmd = "flush" /\ e.upTo = n
  BY DEF Commands
<1>2. call \in Calls /\ call.at # "text" /\ call.at # "connect"
  BY DEF Calls
<1>3. c.sent \in Seq(Commands) /\ c.awaiting \in Seq(Calls)
  BY BufferIs
<1>4. CASE ep
  <2>1. d = [c EXCEPT !.sent = Append(@, e), !.awaiting = Append(@, call)]
    BY <1>4 DEF DoFlush, Flushed
  <2> HIDE DEF e, call, d
  <2>2. /\ d \in Buffers /\ d.sent = Append(c.sent, e)
        /\ d.awaiting = Append(c.awaiting, call)
        /\ d.queue = c.queue /\ d.len = c.len /\ d.status = c.status
    BY <1>1, <1>2, <2>1, CommandedBuffer
  <2>3. /\ Len(d.awaiting) \in 1..Len(d.awaiting) /\ d.awaiting[Len(d.awaiting)] = call
        /\ \A i \in 1..Len(d.awaiting) :
             d.awaiting[i] = call \/ \E j \in 1..Len(c.awaiting) : d.awaiting[i] = c.awaiting[j]
    BY <1>2, <1>3, <2>2, OneMoreCall
  <2>6. CallsFrom(d.awaiting, b.awaiting, d.queue, p)
    BY <1>2, <2>3 DEF CallsFrom, From, MayWait
  <2>7. About(e, b.queue) /\ From(d.queue, b.queue) /\ Passed(e.upTo, d.queue, p)
        /\ QInv(d.queue, d.len, p) /\ d.sent = Append(b.sent, e)
    BY <1>1, <2>2 DEF About
  <2>4. BInv(d, p)
    BY <1>1, <2>2, <2>6, <2>7, OneSent
  <2>5. Held(d)
    BY <1>2, <2>3 DEF Held
  <2> QED BY <2>2, <2>4, <2>5 DEF Kept, d
<1>5. CASE ~ep
  <2>1. d = Emptied(c)
    BY <1>5 DEF DoFlush
  <2> HIDE DEF d
  <2>2. /\ d \in Buffers /\ d.sent = b.sent /\ d.awaiting = c.awaiting
        /\ d.queue = <<>> /\ d.len = 0 /\ d.status = b.status
    BY <2>1, EmptiedBuffer
  <2>3. BInv(d, p)
    BY <2>2, NothingSent
  <2> QED BY <1>5, <2>2, <2>3 DEF Kept, d
<1> QED BY <1>4, <1>5

(* The queue without its first n items.                                     *)
Drops(b, d, n, c) ==
  d = [b EXCEPT !.queue = SubSeq(b.queue, n + 1, Len(b.queue)), !.len = b.len - c]

LEMMA DroppedBuffer ==
  ASSUME NEW b, NEW p, BInv(b, p), NEW n \in 1..Len(b.queue), NEW c \in Nat,
         NEW d, Drops(b, d, n, c), b.queue[n].id = (p - b.len) + c
  PROVE  /\ d \in Buffers /\ QInv(d.queue, d.len, p) /\ From(d.queue, b.queue)
         /\ Passed(b.queue[n].id, d.queue, p)
         /\ d.sent = b.sent /\ d.awaiting = b.awaiting /\ d.status = b.status
<1> DEFINE q == SubSeq(b.queue, n + 1, Len(b.queue))
           l == b.len - c
<1>1. b \in Buffers /\ QInv(b.queue, b.len, p) /\ b.queue \in Seq(Items)
  BY BufferIs DEF BInv
<1>2. /\ QInv(q, l, p) /\ Len(q) = Len(b.queue) - n
      /\ \A k \in 1..Len(q) : n + k \in 1..Len(b.queue) /\ q[k] = b.queue[n + k]
  BY <1>1, Dropping
<1>7. d = [b EXCEPT !.queue = q, !.len = l]
  BY DEF Drops
<1> HIDE DEF q, l
<1>3. q \in Seq(Items) /\ l \in Nat
  BY <1>2 DEF QInv
<1>4. /\ d \in Buffers /\ d.sent = b.sent /\ d.awaiting = b.awaiting
      /\ d.status = b.status /\ d.queue = q /\ d.len = l
  BY <1>1, <1>3, <1>7 DEF Buffers
<1>5. From(q, b.queue)
  BY <1>2 DEF From
<1>6. Passed(b.queue[n].id, q, p)
  <2>1. b.queue[n].id <= p
    BY <1>1, NumbersAreBounded
  <2>2. ASSUME NEW k \in 1..Len(q), IsText(q[k]) PROVE b.queue[n].id < q[k].id
    <3>1. n + k \in 1..Len(b.queue) /\ q[k] = b.queue[n + k] /\ n < n + k
      BY <1>1, <1>2
    <3> QED BY <1>1, <2>2, <3>1 DEF QInv, Mono
  <2> QED BY <2>1, <2>2 DEF Passed
<1> QED BY <1>2, <1>4, <1>5, <1>6

LEMMA FirstOnes ==
  ASSUME NEW t \in Seq(Items), NEW n \in 1..Len(t)
  PROVE  LET f == SubSeq(t, 1, n) IN
         f \in Seq(Items) /\ Len(f) = n /\ f[1] = t[1] /\ f[n] = t[n]
OBVIOUS

LEMMA Phase2Is ==
  ASSUME NEW b, NEW p, BInv(b, p), NEW timeout \in BOOLEAN,
         b.queue # <<>> => IsText(b.queue[1])
  PROVE  Kept(b, Phase2(b, timeout), p)
<1> DEFINE text == Ahead(b.queue)
           n == IF SentenceBoundary(text) = 0 /\ timeout THEN WordBoundary(text)
                ELSE SentenceBoundary(text)
           c == Consumed(b, n)
           call == [at |-> "chunk", marker |-> 0, timeout |-> timeout]
           first == SubSeq(text, 1, n)
<1>1. Phase2(b, timeout) =
        IF text = <<>> THEN RemoveTimer(b)
        ELSE IF n = 0 THEN SetTimerIfNeeded(b)
        ELSE IF ep THEN Send(c, first, call)
        ELSE Resumed(c)
  BY DEF Phase2, Ahead
<1>2. QInv(b.queue, b.len, p) /\ b.queue \in Seq(Items) /\ Len(b.queue) \in Nat
      /\ p \in Nat /\ b.len \in Nat
  BY DEF BInv, QInv
<1>3. /\ text \in Seq(Items) /\ Len(text) \in 0..Len(b.queue)
      /\ text = <<>> => b.queue = <<>>
      /\ \A k \in 1..Len(text) : text[k] = b.queue[k] /\ IsText(b.queue[k])
                                 /\ b.queue[k].id = (p - b.len) + k
  BY <1>2, AheadIs
<1>4. n \in 0..Len(text)
  BY <1>3, Boundaries
<1>5. call \in Calls /\ MayWait(call, <<>>, p) /\ call.at = "chunk"
  BY DEF Calls, MayWait
<1>6. Drops(b, c, n, n)
  BY DEF Consumed, Drops
<1> HIDE DEF text, n, c, call, first
<1>7. CASE text = <<>>
  <2>1. Phase2(b, timeout) = RemoveTimer(b)
    BY <1>1, <1>7
  <2>2. b.queue = <<>>
    BY <1>3, <1>7
  <2> QED BY <2>1, <2>2, TimerRemoved DEF Kept, Held
<1>8. CASE text # <<>> /\ n = 0
  <2>1. Phase2(b, timeout) = SetTimerIfNeeded(b)
    BY <1>1, <1>8
  <2>2. b.queue # <<>>
    BY <1>3, <1>8
  <2> QED BY <2>1, <2>2, SetTimerIs DEF Kept
<1>9. CASE text # <<>> /\ n # 0
  <2>1. n \in 1..Len(text) /\ n \in 1..Len(b.queue) /\ n \in Nat /\ 1 \in 1..Len(text)
        /\ 1 \in 1..Len(b.queue)
    BY <1>2, <1>3, <1>4, <1>9
  <2>2. text[n] = b.queue[n] /\ text[1] = b.queue[1] /\ IsText(b.queue[1])
        /\ b.queue[n].id = (p - b.len) + n
    BY <1>3, <2>1
  <2>3. /\ c \in Buffers /\ QInv(c.queue, c.len, p) /\ From(c.queue, b.queue)
        /\ Passed(b.queue[n].id, c.queue, p)
        /\ c.sent = b.sent /\ c.awaiting = b.awaiting /\ c.status = b.status
    BY <1>6, <2>1, <2>2, DroppedBuffer
  <2>4. CASE ep
    <3>1. first \in Seq(Items) /\ Len(first) = n /\ first[1] = text[1] /\ first[n] = text[n]
      BY <1>3, <2>1, FirstOnes DEF first
    <3>2. first # <<>> /\ Head(first) = b.queue[1] /\ Last(first) = b.queue[n]
      BY <2>1, <2>2, <3>1 DEF Last
    <3>3. Phase2(b, timeout) = Send(c, first, call)
      BY <1>1, <1>9, <2>4
    <3>4. MayWait(call, c.queue, p) /\ call.at # "connect"
      BY <1>5 DEF MayWait
    <3>5. \E l \in 1..Len(b.queue) : IsText(b.queue[l]) /\ Head(first) = b.queue[l]
      BY <2>1, <2>2, <3>2
    <3>6. Passed(Last(first).id, c.queue, p)
      BY <2>3, <3>2
    <3> QED BY <1>5, <2>3, <3>1, <3>2, <3>3, <3>4, <3>5, <3>6, SendIs
  <2>5. CASE ~ep
    <3>1. Phase2(b, timeout) = Resumed(c)
      BY <1>1, <1>9, <2>5
    <3>2. BInv(c, p)
      <4>1. \A m : Passed(m, b.queue, p) => Passed(m, c.queue, p)
        BY <2>3 DEF Passed, From
      <4>2. SentInv(c, p)
        BY <2>3, <4>1 DEF BInv, SentInv
      <4> QED BY <2>3, <4>2 DEF BInv
    <3> QED BY <2>3, <2>5, <3>1, <3>2, ResumedIs DEF Kept
  <2> QED BY <2>4, <2>5
<1> QED BY <1>7, <1>8, <1>9

LEMMA FrontFlushIs ==
  ASSUME NEW b, NEW p, BInv(b, p), NEW timeout \in BOOLEAN
  PROVE  Kept(b, FrontFlush(b, timeout), p)
<1>1. QInv(b.queue, b.len, p) /\ b.queue \in Seq(Items) /\ Len(b.queue) \in Nat
      /\ p \in Nat /\ b.len \in Nat /\ Lay(b.queue, b.len, p) /\ b \in Buffers
  BY DEF BInv, QInv
<1>2. CASE b.queue # <<>> /\ IsFlush(b.queue[1])
  <2> DEFINE n == b.queue[1].id
             c == [b EXCEPT !.queue = Tail(@)]
  <2>1. FrontFlush(b, timeout) = DoFlush(c, "front", n, timeout)
    BY <1>2 DEF FrontFlush
  <2>2. 1 \in 1..Len(b.queue) /\ Tail(b.queue) = SubSeq(b.queue, 1 + 1, Len(b.queue))
        /\ b.len = b.len - 0 /\ Tail(b.queue) \in Seq(Items)
    BY <1>1, <1>2
  <2>3. n = (p - b.len) + 0 /\ n \in Nat
    <3>1. ~IsText(b.queue[1]) /\ n \in Nat
      BY <1>1, <1>2, <2>2, ItemIs
    <3> QED BY <1>1, <1>2, <3>1 DEF Lay
  <2>4. Drops(b, c, 1, 0)
    <3>1. c = [b EXCEPT !.queue = Tail(b.queue), !.len = b.len]
      BY <1>1 DEF Buffers
    <3> QED BY <2>2, <3>1 DEF Drops
  <2>5. /\ c \in Buffers /\ QInv(c.queue, c.len, p) /\ From(c.queue, b.queue)
        /\ Passed(n, c.queue, p)
        /\ c.sent = b.sent /\ c.awaiting = b.awaiting /\ c.status = b.status
    <3> HIDE DEF c
    <3> QED BY <2>2, <2>3, <2>4, DroppedBuffer
  <2> HIDE DEF c, n
  <2>6. From(c.awaiting, b.awaiting)
    BY <2>5 DEF From
  <2> QED BY <2>1, <2>3, <2>5, <2>6, DoFlushIs
<1>3. CASE ~(b.queue # <<>> /\ IsFlush(b.queue[1]))
  <2>1. FrontFlush(b, timeout) = Phase2(b, timeout)
    BY <1>3 DEF FrontFlush
  <2>2. b.queue # <<>> => IsText(b.queue[1])
    BY <1>3 DEF IsText, IsFlush
  <2> QED BY <2>1, <2>2, Phase2Is
<1> QED BY <1>2, <1>3

LEMMA PhasesIs ==
  ASSUME NEW b, NEW p, BInv(b, p), NEW timeout \in BOOLEAN
  PROVE  Kept(b, Phases(b, timeout), p)
<1> DEFINE i == MarkerFrom(b.queue, 2)
           text == TextBefore(b.queue, i)
           c == [b EXCEPT !.queue = SubSeq(@, i + 1, Len(@)), !.len = @ - Len(text)]
           call == [at |-> "text", marker |-> b.queue[i].id, timeout |-> timeout]
<1>1. Phases(b, timeout) =
        IF i = 0 THEN FrontFlush(b, timeout)
        ELSE IF ep THEN Send(c, text, call)
        ELSE Emptied(b)
  BY DEF Phases
<1>2. QInv(b.queue, b.len, p) /\ b \in Buffers /\ b.queue \in Seq(Items)
  BY DEF BInv, QInv
<1>3. i # 0 =>
        /\ i \in 1..Len(b.queue) /\ IsFlush(b.queue[i])
        /\ text \in Seq(Items) /\ Len(text) \in Nat /\ text # <<>>
        /\ \E f \in 1..Len(b.queue) : IsText(b.queue[f]) /\ Head(text) = b.queue[f]
        /\ Last(text).id = b.queue[i].id
        /\ b.queue[i].id = (p - b.len) + Len(text)
  BY <1>2, TextBeforeIs
<1>4. Drops(b, c, i, Len(text))
  BY DEF Drops
<1>5. call.at = "text" /\ call.marker = b.queue[i].id
  OBVIOUS
<1>6. b.queue[i].id \in Nat => call \in Calls
  BY DEF Calls
<1> HIDE DEF i, text, c, call
<1>7. CASE i = 0
  BY <1>1, <1>7, FrontFlushIs
<1>8. CASE i # 0 /\ ep
  <2>1. /\ c \in Buffers /\ QInv(c.queue, c.len, p) /\ From(c.queue, b.queue)
        /\ Passed(b.queue[i].id, c.queue, p)
        /\ c.sent = b.sent /\ c.awaiting = b.awaiting /\ c.status = b.status
    BY <1>3, <1>4, <1>8, DroppedBuffer
  <2>2. call \in Calls
    BY <1>2, <1>3, <1>6, <1>8, ItemIs
  <2>3. MayWait(call, c.queue, p) /\ call.at # "connect" /\ Passed(Last(text).id, c.queue, p)
    BY <1>3, <1>5, <1>8, <2>1 DEF MayWait
  <2>4. Phases(b, timeout) = Send(c, text, call)
    BY <1>1, <1>8
  <2> QED BY <1>3, <1>8, <2>1, <2>2, <2>3, <2>4, SendIs
<1>9. CASE i # 0 /\ ~ep
  BY <1>1, <1>9, EmptiedIs DEF Kept
<1> QED BY <1>7, <1>8, <1>9

LEMMA FeedQueueIs ==
  ASSUME NEW b, NEW p, BInv(b, p), NEW timeout \in BOOLEAN
  PROVE  LET c == FeedQueue(b, timeout) IN
         /\ BInv(c, p) /\ c.status = b.status
         /\ open /\ ep /\ b.status = "connected" => Held(c)
         /\ ~open => c = b
BY PhasesIs DEF FeedQueue, Kept

------------------------------------------------------------------------------
(* The steps.                                                               *)

LEMMA StartIsSound ==
  ASSUME TtsInit
  PROVE  TtsInv
<1>1. <<>> \in Seq(Items) /\ <<>> \in Seq(Calls) /\ <<>> \in Seq(Commands)
      /\ Len(<<>>) = 0
  OBVIOUS
<1>2. buf \in Buffers /\ TtsTypeOK
  BY <1>1 DEF TtsInit, TtsTypeOK, Buffers, Commands
<1>3. buf.queue = <<>> /\ buf.len = 0 /\ buf.sent = <<>> /\ buf.awaiting = <<>>
      /\ buf.status = "notconnected" /\ pieces = 0 /\ ~open /\ ~dialing
  BY DEF TtsInit
<1>4. QInv(buf.queue, buf.len, pieces)
  BY <1>3, NothingQueued
<1>5. SentInv(buf, pieces)
  BY <1>1, <1>3 DEF SentInv
<1> QED BY <1>2, <1>3, <1>4, <1>5 DEF TtsInv, BInv, Streaming

(* The status changes, and nothing is sent.                                 *)
LEMMA StatusIs ==
  ASSUME NEW b, NEW p, BInv(b, p),
         NEW s \in {"notconnected", "connecting", "connected", "failed"}
  PROVE  LET c == [b EXCEPT !.status = s] IN
         /\ BInv(c, p) /\ c.status = s
         /\ c.queue = b.queue /\ c.awaiting = b.awaiting
<1> DEFINE c == [b EXCEPT !.status = s]
<1>1. c \in Buffers /\ c.sent = b.sent /\ c.awaiting = b.awaiting
      /\ c.queue = b.queue /\ c.len = b.len /\ c.status = s
  BY DEF BInv, Buffers
<1> HIDE DEF c
<1>2. BInv(c, p)
  BY <1>1, NothingSent DEF From
<1> QED BY <1>1, <1>2 DEF c

(* The reply to a command: its call goes on.                                *)
LEMMA AnsweredIs ==
  ASSUME NEW b, NEW p, BInv(b, p), b.awaiting # <<>>
  PROVE  LET c == [b EXCEPT !.awaiting = Tail(@)] IN
         /\ BInv(c, p) /\ c.status = b.status /\ c.queue = b.queue /\ c.sent = b.sent
         /\ c.timer = b.timer
         /\ c.awaiting = Tail(b.awaiting) /\ From(c.awaiting, b.awaiting)
         /\ Head(b.awaiting) = b.awaiting[1] /\ Head(b.awaiting) \in Calls
         /\ 1 \in 1..Len(b.awaiting)
         /\ \A i \in 1..Len(b.awaiting) :
              i # 1 => i - 1 \in 1..Len(c.awaiting) /\ c.awaiting[i - 1] = b.awaiting[i]
<1> DEFINE t == Tail(b.awaiting)
           c == [b EXCEPT !.awaiting = t]
<1>1. b \in Buffers /\ b.awaiting \in Seq(Calls)
  BY BufferIs DEF BInv
<1>2. /\ t \in Seq(Calls) /\ Len(t) = Len(b.awaiting) - 1 /\ Len(b.awaiting) \in Nat \ {0}
      /\ \A k \in 1..Len(t) : t[k] = b.awaiting[k + 1] /\ k + 1 \in 1..Len(b.awaiting)
      /\ Head(b.awaiting) = b.awaiting[1] /\ Head(b.awaiting) \in Calls
  BY <1>1
<1> HIDE DEF t
<1>3. c \in Buffers /\ c.sent = b.sent /\ c.awaiting = t /\ c.timer = b.timer
      /\ c.queue = b.queue /\ c.len = b.len /\ c.status = b.status
  BY <1>1, <1>2 DEF Buffers
<1> HIDE DEF c
<1>4. From(c.awaiting, b.awaiting)
  BY <1>2, <1>3 DEF From
<1>5. BInv(c, p)
  BY <1>3, <1>4, NothingSent
<1>6. ASSUME NEW i \in 1..Len(b.awaiting), i # 1
      PROVE  i - 1 \in 1..Len(c.awaiting) /\ c.awaiting[i - 1] = b.awaiting[i]
  <2>1. i - 1 \in 1..Len(t) /\ (i - 1) + 1 = i
    BY <1>2, <1>6
  <2> QED BY <1>2, <1>3, <2>1
<1>7. 1 \in 1..Len(b.awaiting)
  BY <1>2
<1> QED BY <1>2, <1>3, <1>4, <1>5, <1>6, <1>7 DEF c, t

LEMMA SayStartsStep ==
  ASSUME TtsInv, SayStarts
  PROVE  TtsInv'
<1>1. buf.status = "notconnected" \/ buf' = buf
  BY DEF SayStarts
<1>2. /\ BInv(buf, pieces) /\ TtsTypeOK /\ says \in Nat /\ says' = says + 1
      /\ pieces' = pieces /\ open' = TRUE /\ ep' = ep /\ flushes' = flushes
  BY DEF SayStarts, TtsInv, TtsTypeOK
<1>3. CASE buf' = buf /\ dialing' = dialing /\ buf.status # "notconnected"
  <2>1. says # 0
    BY <1>3 DEF TtsInv
  <2>2. ~Streaming'
    BY <1>2, <2>1 DEF Streaming
  <2>3. says' # 0
    BY <1>2
  <2>4. TtsTypeOK'
    BY <1>2, <1>3 DEF TtsTypeOK
  <2>5. BInv(buf', pieces')
    BY <1>2, <1>3
  <2> QED BY <2>2, <2>3, <2>4, <2>5 DEF TtsInv
<1>4. CASE buf.status = "notconnected" /\ ep
  <2> DEFINE call == [at |-> "connect", marker |-> 0, timeout |-> FALSE]
             a == Append(buf.awaiting, call)
  <2>1. buf' = [buf EXCEPT !.status = "connecting", !.awaiting = a] /\ dialing' = TRUE
    BY <1>4 DEF SayStarts
  <2>2. call \in Calls /\ call.at = "connect"
    BY DEF Calls
  <2>3. buf \in Buffers /\ buf.awaiting \in Seq(Calls)
    BY <1>2, BufferIs DEF BInv
  <2> HIDE DEF call
  <2>4. a \in Seq(Calls) /\ \A i \in 1..Len(a) :
          a[i] = call \/ \E j \in 1..Len(buf.awaiting) : a[i] = buf.awaiting[j]
    BY <2>2, <2>3, OneMoreCall
  <2> HIDE DEF a
  <2>5. /\ buf' \in Buffers /\ buf'.awaiting = a /\ buf'.status = "connecting"
        /\ buf'.queue = buf.queue /\ buf'.len = buf.len /\ buf'.sent = buf.sent
    BY <2>1, <2>3, <2>4 DEF Buffers
  <2>6. SentInv(buf', pieces)
    BY <1>2, <2>2, <2>4, <2>5 DEF BInv, SentInv
  <2>7. BInv(buf', pieces')
    BY <1>2, <2>5, <2>6 DEF BInv
  <2>8. ~Streaming' /\ says' # 0
    BY <1>2, <2>5 DEF Streaming
  <2>9. TtsTypeOK'
    BY <1>2, <2>1, <2>5 DEF TtsTypeOK
  <2> QED BY <2>7, <2>8, <2>9 DEF TtsInv
<1>5. CASE buf.status = "notconnected" /\ ~ep
  <2>1. buf' = [buf EXCEPT !.status = "failed"] /\ dialing' = dialing
    BY <1>5 DEF SayStarts
  <2>2. BInv(buf', pieces') /\ buf'.status = "failed"
    BY <1>2, <2>1, StatusIs
  <2>3. ~Streaming' /\ says' # 0
    BY <1>2, <2>2 DEF Streaming
  <2>4. TtsTypeOK'
    BY <1>2, <2>1, <2>2 DEF TtsTypeOK, BInv
  <2> QED BY <2>2, <2>3, <2>4 DEF TtsInv
<1> QED BY <1>3, <1>4, <1>5 DEF SayStarts

LEMMA SayEndsStep ==
  ASSUME TtsInv, SayDone \/ SayKilled
  PROVE  TtsInv'
<1>1. /\ BInv(buf, pieces) /\ TtsTypeOK /\ says' = says /\ says # 0
      /\ pieces' = pieces /\ open' = FALSE /\ ep' = ep /\ flushes' = flushes
  BY DEF SayDone, SayKilled, TtsInv
<1>2. ~Streaming'
  BY <1>1 DEF Streaming
<1>3. CASE buf' = buf /\ dialing' = dialing
  <2>1. TtsTypeOK'
    BY <1>1, <1>3 DEF TtsTypeOK
  <2>2. BInv(buf', pieces')
    BY <1>1, <1>3
  <2> QED BY <1>1, <1>2, <2>1, <2>2 DEF TtsInv
<1>4. CASE /\ buf' = RemoveTimer(Emptied([buf EXCEPT !.status = "notconnected"]))
           /\ dialing' = FALSE
  <2>1. BInv([buf EXCEPT !.status = "notconnected"], pieces)
    BY <1>1, StatusIs
  <2>2. BInv(Emptied([buf EXCEPT !.status = "notconnected"]), pieces)
    BY <2>1, EmptiedIs
  <2>3. BInv(buf', pieces')
    BY <1>1, <1>4, <2>2, TimerRemoved
  <2>4. TtsTypeOK'
    BY <1>1, <1>4, <2>3 DEF TtsTypeOK, BInv
  <2> QED BY <1>1, <1>2, <2>3, <2>4 DEF TtsInv
<1> QED BY <1>3, <1>4 DEF SayDone, SayKilled

LEMMA BufferTokensStep ==
  ASSUME TtsInv, NEW text \in Texts, BufferTokens(text)
  PROVE  TtsInv'
<1> DEFINE new == [i \in DOMAIN text |-> [type |-> text[i], id |-> pieces + i]]
           b == [buf EXCEPT !.queue = @ \o new, !.len = @ + Len(text), !.recent = TRUE]
<1>1. /\ BInv(buf, pieces) /\ TtsTypeOK /\ says' = says
      /\ open' = open /\ ep' = ep /\ flushes' = flushes /\ dialing' = dialing
  BY DEF BufferTokens, TtsInv
<1>2. CASE buf' = [buf EXCEPT !.full = TRUE] /\ pieces' = pieces
  <2>1. /\ buf' \in Buffers /\ buf'.sent = buf.sent /\ buf'.awaiting = buf.awaiting
        /\ buf'.queue = buf.queue /\ buf'.len = buf.len /\ buf'.status = buf.status
        /\ buf'.timer = buf.timer
    BY <1>1, <1>2 DEF BInv, Buffers
  <2>2. From(buf'.awaiting, buf.awaiting)
    BY <2>1 DEF From
  <2>3. BInv(buf', pieces')
    BY <1>1, <1>2, <2>1, <2>2, NothingSent
  <2>4. Streaming' => Held(buf')
    BY <1>1, <2>1 DEF TtsInv, Streaming, Held
  <2>5. TtsTypeOK'
    BY <1>1, <1>2, <2>1 DEF TtsTypeOK
  <2> QED BY <1>1, <2>1, <2>3, <2>4, <2>5 DEF TtsInv
<1>3. CASE buf' = FeedQueue(b, FALSE) /\ pieces' = pieces + Len(text)
  <2>1. /\ text \in Seq(Kinds) /\ Len(text) \in Nat /\ pieces \in Nat
        /\ DOMAIN text = 1..Len(text) /\ \A k \in 1..Len(text) : text[k] \in Kinds
    BY <1>1, TtsAssumption DEF TtsTypeOK
  <2>2. /\ new \in Seq(Items) /\ Len(new) = Len(text)
        /\ \A k \in 1..Len(new) : IsText(new[k]) /\ new[k].id = pieces + k
    BY <2>1 DEF Items, Kinds, IsText
  <2>3. QInv(buf.queue, buf.len, pieces) /\ buf \in Buffers
    BY <1>1 DEF BInv
  <2> HIDE DEF new
  <2> DEFINE q == buf.queue \o new
             l == buf.len + Len(text)
             p == pieces + Len(text)
  <2>4. /\ QInv(q, l, p)
        /\ Len(q) = Len(buf.queue) + Len(new)
        /\ \A k \in 1..Len(buf.queue) : q[k] = buf.queue[k]
        /\ \A k \in 1..Len(new) : q[Len(buf.queue) + k] = new[k]
    <3>1. Joins(buf.queue, buf.len, pieces, new, q)
      BY <2>2, <2>3 DEF Joins, Numbered
    <3> HIDE DEF q
    <3>2. /\ QInv(q, buf.len + Len(new), pieces + Len(new))
          /\ Len(q) = Len(buf.queue) + Len(new)
          /\ \A k \in 1..Len(buf.queue) : q[k] = buf.queue[k]
          /\ \A k \in 1..Len(new) : q[Len(buf.queue) + k] = new[k]
      <4>1. QInv(q, buf.len + Len(new), pieces + Len(new))
        BY <3>1, Adding
      <4>2. Len(q) = Len(buf.queue) + Len(new)
        BY <3>1, Adding
      <4>3. \A k \in 1..Len(buf.queue) : q[k] = buf.queue[k]
        BY <3>1, Adding
      <4>4. \A k \in 1..Len(new) : q[Len(buf.queue) + k] = new[k]
        BY <3>1, Adding
      <4> QED BY <4>1, <4>2, <4>3, <4>4
    <3> QED BY <2>2, <3>2
  <2>5. q \in Seq(Items) /\ l \in Nat /\ p \in Nat
    BY <2>4 DEF QInv
  <2>6. b = [buf EXCEPT !.queue = q, !.len = l, !.recent = TRUE]
    OBVIOUS
  <2>7. \A n : Passed(n, buf.queue, pieces) /\ n \in Nat => Passed(n, q, p)
    <3> SUFFICES ASSUME NEW n \in Nat, Passed(n, buf.queue, pieces)
                 PROVE  Passed(n, q, p)
      OBVIOUS
    <3>1. n <= pieces /\ n <= p
      BY <2>1 DEF Passed
    <3>2. ASSUME NEW k \in 1..Len(q), IsText(q[k]) PROVE n < q[k].id
      <4>1. buf.queue \in Seq(Items) /\ Len(buf.queue) \in Nat /\ Len(new) \in Nat
        BY <2>2, <2>3 DEF QInv
      <4>2. CASE k <= Len(buf.queue)
        <5>1. k \in 1..Len(buf.queue) /\ q[k] = buf.queue[k]
          BY <2>4, <4>1, <4>2
        <5> QED BY <3>2, <5>1 DEF Passed
      <4>3. CASE k > Len(buf.queue)
        <5>1. k - Len(buf.queue) \in 1..Len(new) /\ Len(buf.queue) + (k - Len(buf.queue)) = k
          BY <2>4, <4>1, <4>3
        <5> DEFINE d == k - Len(buf.queue)
        <5>2. q[k].id = pieces + d
          BY <2>2, <2>4, <5>1
        <5>3. d \in Nat /\ d > 0 /\ n \in Nat /\ pieces \in Nat
          BY <2>1, <5>1
        <5> HIDE DEF d, q
        <5> QED BY <3>1, <5>2, <5>3
      <4> QED BY <4>1, <4>2, <4>3
    <3> QED BY <3>1, <3>2 DEF Passed
  <2> HIDE DEF q, l, p
  <2>8. /\ b \in Buffers /\ b.sent = buf.sent /\ b.awaiting = buf.awaiting
        /\ b.queue = q /\ b.len = l /\ b.status = buf.status
    BY <2>3, <2>5, <2>6 DEF Buffers
  <2>9. SentInv(b, p)
    <3>1. SentInv(buf, pieces) /\ buf.sent \in Seq(Commands) /\ buf.awaiting \in Seq(Calls)
      BY <1>1, <2>3, BufferIs DEF BInv
    <3>2. ASSUME NEW i \in 1..Len(buf.sent) PROVE buf.sent[i].upTo \in Nat
      <4>1. buf.sent[i] \in Commands
        BY <3>1
      <4> QED BY <4>1 DEF Commands
    <3>3. ASSUME NEW i \in 1..Len(buf.awaiting) PROVE buf.awaiting[i].marker \in Nat
      <4>1. buf.awaiting[i] \in Calls
        BY <3>1
      <4> QED BY <4>1 DEF Calls
    <3> HIDE DEF b
    <3> QED BY <2>7, <2>8, <3>1, <3>2, <3>3 DEF SentInv
  <2>10. BInv(b, p) /\ p = pieces'
    BY <1>3, <2>4, <2>8, <2>9 DEF BInv, q, l, p
  <2> HIDE DEF b
  <2>11. /\ BInv(buf', pieces') /\ buf'.status = buf.status
         /\ open /\ ep /\ buf.status = "connected" => Held(buf')
         /\ ~open => buf'.awaiting = buf.awaiting
    BY <1>3, <2>8, <2>10, FeedQueueIs
  <2>12. Streaming' => Held(buf')
    BY <1>1, <2>11 DEF Streaming
  <2>13. TtsTypeOK'
    BY <1>1, <2>5, <2>10, <2>11 DEF TtsTypeOK, BInv
  <2> QED BY <1>1, <2>11, <2>12, <2>13 DEF TtsInv
<1> QED BY <1>2, <1>3 DEF BufferTokens

LEMMA FlushStep ==
  ASSUME TtsInv, Flush
  PROVE  TtsInv'
<1> DEFINE marker == [type |-> "flush", id |-> pieces]
           e == [cmd |-> "flush", from |-> pieces, upTo |-> pieces]
<1>1. /\ BInv(buf, pieces) /\ TtsTypeOK /\ says' = says /\ pieces' = pieces
      /\ open' = open /\ ep' = ep /\ dialing' = dialing /\ flushes' = flushes + 1
      /\ says # 0 /\ pieces \in Nat
  BY DEF Flush, TtsInv, TtsTypeOK
<1>2. buf \in Buffers /\ QInv(buf.queue, buf.len, pieces) /\ buf.queue \in Seq(Items)
      /\ buf.sent \in Seq(Commands) /\ SentInv(buf, pieces)
  BY <1>1, BufferIs DEF BInv
<1>3. CASE /\ buf' = [buf EXCEPT !.queue = Append(@, marker)]
           /\ buf.status = "connected" => buf.queue # <<>>
           /\ ~(buf.queue # <<>> /\ IsFlush(Last(buf.queue)))
  <2> DEFINE q == Append(buf.queue, marker)
  <2>1. marker \in Items /\ IsFlush(marker) /\ marker.id = pieces
    BY <1>1 DEF Items, IsFlush
  <2>2. buf.queue # <<>> => IsText(buf.queue[Len(buf.queue)])
    BY <1>3 DEF Last, IsText, IsFlush
  <2> HIDE DEF marker
  <2>3. /\ QInv(q, buf.len, pieces) /\ Len(q) = Len(buf.queue) + 1 /\ q[Len(q)] = marker
        /\ \A k \in 1..Len(buf.queue) : q[k] = buf.queue[k]
    BY <1>2, <2>1, <2>2, Marking
  <2>4. q \in Seq(Items) /\ Len(buf.queue) \in Nat /\ buf' = [buf EXCEPT !.queue = q]
    BY <1>2, <1>3, <2>3 DEF QInv
  <2> HIDE DEF q
  <2>5. /\ buf' \in Buffers /\ buf'.sent = buf.sent /\ buf'.awaiting = buf.awaiting
        /\ buf'.queue = q /\ buf'.len = buf.len /\ buf'.status = buf.status
        /\ buf'.timer = buf.timer
    BY <1>2, <2>4 DEF Buffers
  <2>6. \A n : Passed(n, buf.queue, pieces) => Passed(n, q, pieces)
    <3>1. \A k \in 1..Len(q) : IsText(q[k]) => k \in 1..Len(buf.queue)
      <4> SUFFICES ASSUME NEW k \in 1..Len(q), IsText(q[k])
                   PROVE  k \in 1..Len(buf.queue)
        OBVIOUS
      <4>1. k # Len(q)
        BY <2>1, <2>3 DEF IsText, IsFlush
      <4> QED BY <2>3, <2>4, <4>1
    <3> QED BY <2>3, <3>1 DEF Passed
  <2>7. SentInv(buf', pieces)
    BY <1>2, <2>5, <2>6 DEF SentInv
  <2>8. BInv(buf', pieces')
    BY <1>1, <2>3, <2>5, <2>7 DEF BInv
  <2>9. Streaming' => Held(buf')
    <3> SUFFICES ASSUME Streaming' PROVE Held(buf')
      OBVIOUS
    <3>1. Streaming /\ buf.queue # <<>>
      BY <1>1, <1>3, <2>5 DEF Streaming
    <3>2. q[1] = buf.queue[1]
      BY <1>2, <2>3, <3>1
    <3> QED BY <2>5, <3>1, <3>2 DEF TtsInv, Held
  <2>10. TtsTypeOK'
    BY <1>1, <2>5 DEF TtsTypeOK
  <2> QED BY <1>1, <2>8, <2>9, <2>10 DEF TtsInv
<1>4. CASE buf' = Flushed(buf, pieces) /\ buf.queue = <<>>
  <2> DEFINE s == Append(buf.sent, e)
  <2>1. e \in Commands /\ e.cmd = "flush" /\ e.upTo = pieces
    BY <1>1 DEF Commands
  <2>2. buf' = [buf EXCEPT !.sent = s]
    BY <1>4 DEF Flushed
  <2> HIDE DEF e
  <2>3. s \in Seq(Commands)
    BY <1>2, <2>1
  <2>4. s = Append(buf.sent, e)
    OBVIOUS
  <2> HIDE DEF s
  <2>5. /\ buf' \in Buffers /\ buf'.sent = s /\ buf'.awaiting = buf.awaiting
        /\ buf'.queue = buf.queue /\ buf'.len = buf.len /\ buf'.status = buf.status
    BY <1>2, <2>2, <2>3 DEF Buffers, Commands
  <2>6. Passed(e.upTo, buf'.queue, pieces)
    BY <1>1, <1>4, <2>1, <2>5 DEF Passed
  <2>7. From(buf'.queue, buf.queue) /\ About(e, buf.queue)
        /\ CallsFrom(buf'.awaiting, buf.awaiting, buf'.queue, pieces)
    BY <2>1, <2>5 DEF From, About, CallsFrom
  <2>8. BInv(buf', pieces')
    BY <1>1, <1>2, <2>1, <2>4, <2>5, <2>6, <2>7, OneSent
  <2>9. Held(buf') /\ TtsTypeOK'
    BY <1>1, <1>4, <2>5 DEF Held, TtsTypeOK
  <2> QED BY <1>1, <2>8, <2>9 DEF TtsInv
<1> QED BY <1>3, <1>4 DEF Flush

LEMMA ClearStep ==
  ASSUME TtsInv, Clear \/ EndpointGone
  PROVE  TtsInv'
<1>1. /\ BInv(buf, pieces) /\ TtsTypeOK /\ says' = says /\ pieces' = pieces
      /\ open' = open /\ dialing' = dialing /\ flushes' = flushes
      /\ ep' = ep \/ ep' = FALSE
  BY DEF Clear, EndpointGone, TtsInv
<1>2. CASE buf' = buf /\ ep' = FALSE
  <2>1. BInv(buf', pieces') /\ ~Streaming' /\ TtsTypeOK'
    BY <1>1, <1>2 DEF Streaming, TtsTypeOK
  <2> QED BY <1>1, <1>2, <2>1 DEF TtsInv
<1>3. CASE /\ buf.status = "connected" /\ ep' = ep /\ ~ep
           /\ buf' = RemoveTimer(buf)
  <2>1. BInv(buf', pieces') /\ says # 0
    BY <1>1, <1>3, TimerRemoved DEF TtsInv
  <2>2. ~Streaming' /\ TtsTypeOK'
    BY <1>1, <1>3, <2>1 DEF Streaming, TtsTypeOK, BInv
  <2> QED BY <1>1, <2>1, <2>2 DEF TtsInv
<1>4. CASE /\ buf.status = "connected" /\ ep' = ep
           /\ buf' = [RemoveTimer(Emptied(buf)) EXCEPT !.full = FALSE]
  <2> DEFINE b == RemoveTimer(Emptied(buf))
  <2>1. BInv(Emptied(buf), pieces) /\ Emptied(buf).queue = <<>>
    BY <1>1, EmptiedIs
  <2>2. BInv(b, pieces) /\ b.queue = <<>>
    BY <2>1, TimerRemoved
  <2>3. buf' = [b EXCEPT !.full = FALSE]
    BY <1>4
  <2> HIDE DEF b
  <2>4. /\ buf' \in Buffers /\ buf'.sent = b.sent /\ buf'.awaiting = b.awaiting
        /\ buf'.queue = b.queue /\ buf'.len = b.len
    BY <2>2, <2>3 DEF BInv, Buffers
  <2>5. From(buf'.awaiting, b.awaiting)
    BY <2>4 DEF From
  <2>6. BInv(buf', pieces') /\ says # 0
    BY <1>1, <1>4, <2>2, <2>4, <2>5, NothingSent DEF TtsInv
  <2>7. Held(buf') /\ TtsTypeOK'
    BY <1>1, <1>4, <2>2, <2>4 DEF Held, TtsTypeOK
  <2> QED BY <1>1, <2>6, <2>7 DEF TtsInv
<1>5. CASE EndpointGone
  BY <1>2, <1>5 DEF EndpointGone
<1>6. CASE Clear
  BY <1>3, <1>4, <1>6 DEF Clear
<1> QED BY <1>5, <1>6

LEMMA ReplyStep ==
  ASSUME TtsInv, Reply
  PROVE  TtsInv'
<1> DEFINE call == Head(buf.awaiting)
           b == [buf EXCEPT !.awaiting = Tail(@)]
<1>1. /\ BInv(buf, pieces) /\ TtsTypeOK /\ says' = says /\ pieces' = pieces
      /\ open' = open /\ ep' = ep /\ flushes' = flushes
      /\ buf.awaiting # <<>> /\ says # 0
      /\ dialing' = dialing \/ dialing' = FALSE
  BY DEF Reply, TtsInv
<1>2. /\ BInv(b, pieces) /\ b.status = buf.status /\ b.queue = buf.queue /\ b.sent = buf.sent
      /\ b.timer = buf.timer
      /\ b.awaiting = Tail(buf.awaiting) /\ From(b.awaiting, buf.awaiting)
      /\ call = buf.awaiting[1] /\ call \in Calls /\ 1 \in 1..Len(buf.awaiting)
      /\ \A i \in 1..Len(buf.awaiting) :
           i # 1 => i - 1 \in 1..Len(b.awaiting) /\ b.awaiting[i - 1] = buf.awaiting[i]
  BY <1>1, AnsweredIs
<1>3. \/ call.at = "connect" /\ (buf' = b \/ buf' = [b EXCEPT !.status = "failed"])
      \/ call.at = "text" /\ buf' = DoFlush(b, "flush", call.marker, call.timeout)
      \/ call.at = "flush" /\ buf' = Phases(b, call.timeout)
      \/ call.at = "front" /\ buf' = FrontFlush(b, call.timeout)
      \/ call.at = "chunk" /\ buf' = FeedQueue(Resumed(b), FALSE)
  BY DEF Reply
<1> HIDE DEF call, b
<1>4. call.timeout \in BOOLEAN /\ call.marker \in Nat
  BY <1>2 DEF Calls
<1>5. BInv(buf', pieces) /\ (Streaming' => Held(buf'))
  <2>1. CASE call.at = "connect" /\ buf' = b
    <3>1. Streaming /\ Held(buf) => Held(b)
      BY <1>2, <2>1 DEF Held
    <3>2. Streaming' => Streaming
      BY <1>1, <1>2, <2>1 DEF Streaming
    <3> QED BY <1>2, <2>1, <3>1, <3>2 DEF TtsInv
  <2>2. CASE buf' = [b EXCEPT !.status = "failed"]
    BY <1>2, <2>2, StatusIs DEF Streaming
  <2>3. CASE call.at = "text" /\ buf' = DoFlush(b, "flush", call.marker, call.timeout)
    <3>1. Passed(call.marker, b.queue, pieces)
      BY <1>1, <1>2, <2>3 DEF BInv, SentInv
    <3>2. From(b.queue, b.queue) /\ From(b.awaiting, b.awaiting)
          /\ b \in Buffers /\ QInv(b.queue, b.len, pieces)
      BY <1>2 DEF From, BInv
    <3>3. Kept(b, buf', pieces)
      BY <1>2, <1>4, <2>3, <3>1, <3>2, DoFlushIs
    <3> QED BY <1>1, <3>3 DEF Kept, Streaming
  <2>4. CASE buf' = Phases(b, call.timeout)
    BY <1>1, <1>2, <1>4, <2>4, PhasesIs DEF Kept, Streaming
  <2>5. CASE buf' = FrontFlush(b, call.timeout)
    BY <1>1, <1>2, <1>4, <2>5, FrontFlushIs DEF Kept, Streaming
  <2>6. CASE buf' = FeedQueue(Resumed(b), FALSE)
    <3>1. BInv(Resumed(b), pieces)
      BY <1>2, ResumedIs
    <3>2. /\ BInv(buf', pieces) /\ buf'.status = Resumed(b).status
          /\ open /\ ep /\ Resumed(b).status = "connected" => Held(buf')
      BY <2>6, <3>1, FeedQueueIs
    <3> QED BY <1>1, <3>2 DEF Streaming
  <2> QED BY <1>3, <2>1, <2>2, <2>3, <2>4, <2>5, <2>6
<1>6. TtsTypeOK'
  BY <1>1, <1>5 DEF TtsTypeOK, BInv
<1> QED BY <1>1, <1>5, <1>6 DEF TtsInv

LEMMA ConnectStep ==
  ASSUME TtsInv, OnConnect \/ OnConnectFailure
  PROVE  TtsInv'
<1>1. /\ BInv(buf, pieces) /\ TtsTypeOK /\ says' = says /\ pieces' = pieces
      /\ open' = open /\ ep' = ep /\ flushes' = flushes /\ says # 0
      /\ dialing' = FALSE
  BY DEF OnConnect, OnConnectFailure, TtsInv
<1>2. BInv(buf', pieces) /\ (Streaming' => Held(buf'))
  <2>1. CASE buf' = FeedQueue([buf EXCEPT !.status = "connected"], FALSE)
    <3> DEFINE b == [buf EXCEPT !.status = "connected"]
    <3>1. BInv(b, pieces) /\ b.status = "connected"
      BY <1>1, StatusIs
    <3> HIDE DEF b
    <3>2. BInv(buf', pieces) /\ (open /\ ep => Held(buf'))
      BY <2>1, <3>1, FeedQueueIs DEF b
    <3> QED BY <1>1, <3>2 DEF Streaming
  <2>2. CASE buf' = Emptied([buf EXCEPT !.status = "failed"])
    <3>1. BInv([buf EXCEPT !.status = "failed"], pieces)
      BY <1>1, StatusIs
    <3>2. BInv(buf', pieces) /\ buf'.queue = <<>>
      BY <2>2, <3>1, EmptiedIs
    <3> QED BY <3>2 DEF Held
  <2> QED BY <2>1, <2>2 DEF OnConnect, OnConnectFailure
<1>3. TtsTypeOK'
  BY <1>1, <1>2 DEF TtsTypeOK, BInv
<1> QED BY <1>1, <1>2, <1>3 DEF TtsInv

LEMMA TimeoutStep ==
  ASSUME TtsInv, OnTimeout
  PROVE  TtsInv'
<1> DEFINE b == [buf EXCEPT !.timer = FALSE]
           w == [b EXCEPT !.recent = FALSE]
<1>1. /\ BInv(buf, pieces) /\ TtsTypeOK /\ says' = says /\ pieces' = pieces
      /\ open' = open /\ ep' = ep /\ flushes' = flushes /\ dialing' = dialing
      /\ buf' = IF b.recent THEN SetTimerIfNeeded(w) ELSE FeedQueue(b, TRUE)
  BY DEF OnTimeout, TtsInv
<1>2. /\ b \in Buffers /\ b.sent = buf.sent /\ b.awaiting = buf.awaiting
      /\ b.queue = buf.queue /\ b.len = buf.len /\ b.status = buf.status
  BY <1>1 DEF BInv, Buffers
<1>3. /\ w \in Buffers /\ w.sent = buf.sent /\ w.awaiting = buf.awaiting
      /\ w.queue = buf.queue /\ w.len = buf.len /\ w.status = buf.status
  BY <1>1 DEF BInv, Buffers
<1> HIDE DEF b, w
<1>4. BInv(b, pieces) /\ BInv(w, pieces)
  BY <1>1, <1>2, <1>3, NothingSent DEF From
<1>5. CASE buf' = SetTimerIfNeeded(w)
  <2>1. /\ BInv(buf', pieces) /\ buf'.status = buf.status
        /\ buf'.queue = buf.queue /\ buf'.awaiting = buf.awaiting
        /\ buf.queue # <<>> /\ IsText(buf.queue[1]) => Held(buf')
    BY <1>3, <1>4, <1>5, SetTimerIs
  <2>2. Streaming' => Held(buf')
    <3> SUFFICES ASSUME Streaming' PROVE Held(buf')
      OBVIOUS
    <3>1. Held(buf)
      BY <1>1, <2>1 DEF TtsInv, Streaming
    <3> QED BY <2>1, <3>1 DEF Held
  <2>3. TtsTypeOK'
    BY <1>1, <2>1 DEF TtsTypeOK, BInv
  <2> QED BY <1>1, <2>1, <2>2, <2>3 DEF TtsInv
<1>6. CASE buf' = FeedQueue(b, TRUE)
  <2>1. /\ BInv(buf', pieces) /\ buf'.status = buf.status
        /\ open /\ ep /\ buf.status = "connected" => Held(buf')
        /\ ~open => buf'.awaiting = buf.awaiting
    BY <1>2, <1>4, <1>6, FeedQueueIs
  <2>2. Streaming' => Held(buf')
    BY <1>1, <2>1 DEF Streaming
  <2>3. TtsTypeOK'
    BY <1>1, <2>1 DEF TtsTypeOK, BInv
  <2> QED BY <1>1, <2>1, <2>2, <2>3 DEF TtsInv
<1> QED BY <1>1, <1>5, <1>6

LEMMA TtsNextInv ==
  ASSUME TtsInv, [TtsNext]_vars
  PROVE  TtsInv'
<1>1. CASE UNCHANGED vars
  <2>1. buf' = buf /\ open' = open /\ ep' = ep /\ dialing' = dialing
        /\ pieces' = pieces /\ flushes' = flushes /\ says' = says
    BY <1>1 DEF vars
  <2> QED BY <2>1 DEF TtsInv, TtsTypeOK, Streaming
<1>2. CASE SayStarts \/ SayDone \/ SayKilled
  BY <1>2, SayStartsStep, SayEndsStep
<1>3. ASSUME NEW text \in Texts, BufferTokens(text) PROVE TtsInv'
  BY <1>3, BufferTokensStep
<1>4. CASE Flush
  BY <1>4, FlushStep
<1>5. CASE Clear \/ EndpointGone
  BY <1>5, ClearStep
<1>6. CASE Reply
  BY <1>6, ReplyStep
<1>7. CASE OnConnect \/ OnConnectFailure
  BY <1>7, ConnectStep
<1>8. CASE OnTimeout
  BY <1>8, TimeoutStep
<1> QED BY <1>1, <1>2, <1>3, <1>4, <1>5, <1>6, <1>7, <1>8 DEF TtsNext

(* The invariant of the buffer holds whatever overlaps.                     *)
LEMMA TtsInvariance == TtsSpec => []TtsInv
<1>1. TtsInit => TtsInv
  BY StartIsSound
<1>2. TtsInv /\ [TtsNext]_vars => TtsInv'
  BY TtsNextInv
<1> QED BY <1>1, <1>2, PTL DEF TtsSpec

(* Text is sent once and in the order in which it was buffered, whatever    *)
(* activations of _feedQueue() overlap.                                     *)
THEOREM SentInOrderCorrect == TtsSpec => []SentInOrder
<1>1. TtsInv => SentInOrder
  <2> SUFFICES ASSUME TtsInv PROVE SentInOrder
    OBVIOUS
  <2>1. buf.sent \in Seq(Commands) /\ buf.queue \in Seq(Items) /\ SentInv(buf, pieces)
    BY BufferIs DEF TtsInv, BInv
  <2>2. DOMAIN buf.sent = 1..Len(buf.sent) /\ DOMAIN buf.queue = 1..Len(buf.queue)
    BY <2>1
  <2> QED BY <2>1, <2>2 DEF SentInOrder, SentInv, Passed
<1> QED BY <1>1, TtsInvariance, PTL

(* A flush never overtakes the text before it, nor does such text stay.     *)
THEOREM FlushAfterTextCorrect == TtsSpec => []FlushAfterText
<1>1. TtsInv => FlushAfterText
  <2> SUFFICES ASSUME TtsInv PROVE FlushAfterText
    OBVIOUS
  <2>1. buf.sent \in Seq(Commands) /\ buf.queue \in Seq(Items) /\ SentInv(buf, pieces)
    BY BufferIs DEF TtsInv, BInv
  <2>2. DOMAIN buf.sent = 1..Len(buf.sent) /\ DOMAIN buf.queue = 1..Len(buf.queue)
    BY <2>1
  <2>3. \A i \in 1..Len(buf.sent) : buf.sent[i].upTo \in Nat /\ buf.sent[i].from \in Nat
    <3> SUFFICES ASSUME NEW i \in 1..Len(buf.sent)
                 PROVE  buf.sent[i].upTo \in Nat /\ buf.sent[i].from \in Nat
      OBVIOUS
    <3>1. buf.sent[i] \in Commands
      BY <2>1
    <3> QED BY <3>1 DEF Commands
  <2>4. \A k \in 1..Len(buf.queue) : buf.queue[k].id \in Nat
    BY <2>1, ItemIs
  <2> QED BY <2>1, <2>2, <2>3, <2>4 DEF FlushAfterText, SentInv, Passed
<1> QED BY <1>1, TtsInvariance, PTL

(* During the first say of an open stream nothing that is queued is         *)
(* forgotten.                                                               *)
THEOREM HeldTextHasTimerCorrect == TtsSpec => []HeldTextHasTimer
<1>1. TtsInv => HeldTextHasTimer
  <2> SUFFICES ASSUME TtsInv PROVE HeldTextHasTimer
    OBVIOUS
  <2>1. buf.awaiting = <<>> => ~\E i \in 1..Len(buf.awaiting) : TRUE
    OBVIOUS
  <2> QED BY <2>1 DEF TtsInv, HeldTextHasTimer, Held
<1> QED BY <1>1, TtsInvariance, PTL
==============================================================================
