----------------------------- MODULE WsRequestor -----------------------------
(***************************************************************************)
(* lib/utils/ws-requestor.js: requests to a websocket application over one *)
(* socket that is opened on demand, re-opened when it drops, and           *)
(* introduced with session:reconnect before anything else is sent on it.   *)
(*                                                                         *)
(* The requestor is one object; request() suspends while it connects, so   *)
(* several requests, the reconnect timer and the events of old and new     *)
(* sockets interleave on its fields.  A handler is a function from one     *)
(* state of the object to the next, up to and including the continuations  *)
(* it resolves.  The callback of ws.send() is taken to run with the send.  *)
(***************************************************************************)
EXTENDS Naturals, SequencesExt

CONSTANTS
  Hooks,          \* requests that want an ack, besides session:new
  Notes,          \* notifications, which want none
  MaxReconnects,  \* maxReconnects
  RetryOn,        \* the retry policy: subset of Failures
  MaxConnections  \* bound on the sockets opened

New == "session:new"
Failures == {"network", "rejected"}
Msgs == {New} \cup Hooks \cup Notes

ASSUME WsAssumption ==
  /\ New \notin Hooks \cup Notes /\ Hooks \cap Notes = {}
  /\ {"timer", "none"} \cap Msgs = {}
  /\ MaxReconnects \in Nat /\ MaxConnections \in Nat
  /\ RetryOn \subseteq Failures

VARIABLE r   \* the requestor, see Requestors

(* What has become of a message.  "immediate": a queued notification handed *)
(* to setImmediate.  "abandoned": dropped without settling its promise.     *)
Final == {"sent", "acked", "failed", "discarded", "abandoned"}
Progress == {"idle", "dialing", "backoff", "queued", "immediate", "inflight"}

(* ws       - this.ws is set            connecting - connectInProgress      *)
(* listener - whose _connect() gets 'ready' or 'not-ready'                  *)
(* dials    - handshakes in progress    closed - closedGracefully           *)
(* queue    - queuedMsg: the requests in it, in order; notes - the          *)
(*            notifications in it, each of which will have a turn           *)
(* init     - _initMsgId: session:new is not acked yet                      *)
(* timed    - messages in flight with an ack timer                          *)
(* rc       - _reconnectPromise is set  waiter - a callback awaits it       *)
(* rcFlight - session:reconnect is in flight, with a timer                  *)
(* timers   - reconnect timers pending                                      *)
(* crashed  - an assertion failed in an event handler                       *)
(* spinning - a loop that never ends                                        *)
(* log      - history: the messages sent, in order                          *)
Requestors ==
  [ws : BOOLEAN, connecting : BOOLEAN, connections : Nat,
   listener : Msgs \cup {"timer", "none"}, dials : Nat, closed : BOOLEAN,
   msg : [Msgs -> Final \cup Progress], retry : [Msgs -> Nat],
   queue : Seq(Msgs), notes : SUBSET Msgs, init : BOOLEAN, timed : SUBSET Msgs, rc : BOOLEAN,
   waiter : BOOLEAN, rcFlight : BOOLEAN, timers : Nat, crashed : BOOLEAN,
   spinning : BOOLEAN, log : Seq(Msgs)]

TypeOK == r \in Requestors

Init ==
  r = [ws |-> FALSE, connecting |-> FALSE, connections |-> 0,
       listener |-> "none", dials |-> 0, closed |-> FALSE,
       msg |-> [m \in Msgs |-> "idle"], retry |-> [m \in Msgs |-> 0],
       queue |-> <<>>, notes |-> {}, init |-> FALSE, timed |-> {},
       rc |-> FALSE, waiter |-> FALSE, rcFlight |-> FALSE, timers |-> 0,
       crashed |-> FALSE, spinning |-> FALSE, log |-> <<>>]

------------------------------------------------------------------------------
(* Sending.                                                                 *)

WantsAck(m) == m \notin Notes

Queued(a, m) ==
  [a EXCEPT !.msg[m] = "queued",
            !.queue = IF WantsAck(m) THEN Append(@, m) ELSE @,
            !.notes = IF WantsAck(m) THEN @ ELSE @ \cup {m}]

(* The frames of some messages are handed to the socket.                    *)
Transmitted(a, ms) ==
  LET acks == {m \in ToSet(ms) : WantsAck(m)}
  IN  [a EXCEPT !.log = @ \o ms,
                !.msg = [m \in Msgs |-> IF m \in acks THEN "inflight"
                                        ELSE IF m \in ToSet(ms) THEN "sent" ELSE @[m]],
                !.timed = @ \cup acks,
                !.init = @ \/ New \in acks]

(* sendQueuedMsgs: requests first, notifications in a later turn.  While    *)
(* the reconnect promise is set a request queues itself again behind the    *)
(* loop that sends it.                                                      *)
SendQueued(a) ==
  LET b == [a EXCEPT !.queue = <<>>, !.notes = {},
                     !.msg = [m \in Msgs |-> IF m \in a.notes THEN "immediate" ELSE @[m]]]
  IN  IF a.queue # <<>> /\ a.rc THEN [a EXCEPT !.spinning = TRUE]
      ELSE IF a.closed
      THEN [b EXCEPT !.msg = [m \in Msgs |-> IF m \in ToSet(a.queue) THEN "discarded"
                                             ELSE @[m]]]
      ELSE Transmitted(b, a.queue)

(* The part of request() after the connection is there.                     *)
Proceed(a, m) ==
  IF a.rc THEN Queued(a, m) ELSE SendQueued(Transmitted(a, <<m>>))

(* _connect(): the handlers of an earlier call are removed.                 *)
Dialed(a, who) == [a EXCEPT !.dials = @ + 1, !.listener = who]

(* Mutant: the message that opens the connection is queued as well.         *)
RequestedAndQueued(a, m) ==
  IF a.closed THEN [a EXCEPT !.msg[m] = "discarded"]
  ELSE IF a.ws THEN Proceed(a, m)
  ELSE IF a.connecting THEN Queued(a, m)
  ELSE Dialed([Queued(a, m) EXCEPT !.connecting = TRUE], m)

Requested(a, m) ==
  IF a.closed THEN [a EXCEPT !.msg[m] = "discarded"]
  ELSE IF a.ws THEN Proceed(a, m)
  ELSE IF a.connecting THEN Queued(a, m)
  ELSE Dialed([a EXCEPT !.connecting = TRUE, !.msg[m] = "dialing"], m)

(* session:reconnect.  In place of an unacked session:new it takes over     *)
(* that message's entry, but not its timer, and is sent as a notification.  *)
Reconnect(a) ==
  IF a.closed THEN a
  ELSE IF a.init
  THEN SendQueued([a EXCEPT !.rc = TRUE, !.waiter = FALSE, !.timed = @ \ {New}])
  ELSE [a EXCEPT !.rc = TRUE, !.waiter = TRUE, !.rcFlight = TRUE]

(* Settling _reconnectPromise: the callback that awaits it clears it and    *)
(* sends, or rejects, what is queued.                                       *)
ReconnectResolved(a) ==
  IF a.rc /\ a.waiter
  THEN SendQueued([a EXCEPT !.rc = FALSE, !.waiter = FALSE])
  ELSE a

ReconnectRejected(a) ==
  IF a.rc /\ a.waiter
  THEN [a EXCEPT !.rc = FALSE, !.waiter = FALSE, !.queue = <<>>, !.notes = {},
                 !.msg = [m \in Msgs |-> IF m \in ToSet(a.queue) THEN "failed"
                                         ELSE IF m \in a.notes THEN "discarded"
                                         ELSE @[m]]]
  ELSE a

------------------------------------------------------------------------------
(* Sockets.                                                                 *)

InFlight(a) == {m \in Msgs : a.msg[m] = "inflight"}

(* _clearPendingMessages: nobody is told while session:new is not acked.    *)
ClearPending(a) ==
  LET b == [a EXCEPT !.timed = {}, !.rcFlight = FALSE,
              !.msg = [m \in Msgs |-> IF m \notin InFlight(a) THEN @[m]
                                      ELSE IF a.init THEN "abandoned" ELSE "failed"]]
  IN  IF ~a.init /\ (a.rcFlight \/ InFlight(a) # {}) THEN ReconnectRejected(b) ELSE b

(* _onSocketClosed and the rest of _onClose.                                *)
SocketClosed(a) ==
  LET b == [a EXCEPT !.ws = FALSE]
  IN  IF a.connections < MaxReconnects /\ ~a.closed
      THEN [(IF a.init THEN b ELSE ClearPending(b)) EXCEPT !.timers = @ + 1]
      ELSE b

(* The socket that the listener asked for is open.                          *)
Opened(a) ==
  LET b == [a EXCEPT !.ws = TRUE, !.connecting = FALSE, !.listener = "none",
                     !.connections = @ + 1]
      c == IF a.connections > 0 THEN Reconnect(b) ELSE b
  IN  IF a.listener = "none" THEN b
      ELSE IF a.listener = "timer" \/ c.spinning THEN c
      ELSE Proceed(c, a.listener)

(* 'not-ready' reaches the listener: retry, or give up.  What was queued    *)
(* behind it stays queued.                                                  *)
Refused(a, failure) ==
  LET m == a.listener
      b == [a EXCEPT !.listener = "none"]
  IN  IF m = "none" THEN b
      ELSE IF m = "timer" THEN [b EXCEPT !.connecting = FALSE]
      ELSE IF a.retry[m] < MaxReconnects /\ failure \in RetryOn
      THEN [b EXCEPT !.msg[m] = "backoff", !.retry[m] = @ + 1]
      ELSE [b EXCEPT !.msg[m] = "failed", !.connecting = FALSE]

------------------------------------------------------------------------------
(* The session.                                                             *)

Alive == ~r.crashed /\ ~r.spinning

Request(m) ==
  /\ Alive /\ r.msg[m] = "idle"
  /\ m \in Hooks => r.msg[New] # "idle"
  /\ r' = Requested(r, m)

(* close(), at the end of the session.                                      *)
Close ==
  /\ Alive
  /\ r' = ClearPending([r EXCEPT !.closed = TRUE, !.ws = FALSE])

(* setImmediate                                                             *)
Immediate(m) ==
  /\ Alive /\ r.msg[m] = "immediate"
  /\ r' = Requested(r, m)

(* The next turn of the connect loop, which first drops a socket that was   *)
(* opened meanwhile.                                                        *)
BackoffEnds(m) ==
  /\ Alive /\ r.msg[m] = "backoff"
  /\ r' = Dialed([r EXCEPT !.ws = FALSE, !.msg[m] = "dialing"], m)

(* Mutant: the reconnect timer does not look at connectInProgress.          *)
ReconnectTimerBlind ==
  /\ Alive /\ r.timers > 0
  /\ LET a == [r EXCEPT !.timers = @ - 1]
     IN  r' = IF r.ws THEN a ELSE Dialed([a EXCEPT !.connecting = TRUE], "timer")

(* _scheduleReconnect's timer.                                              *)
ReconnectTimer ==
  /\ Alive /\ r.timers > 0
  /\ LET a == [r EXCEPT !.timers = @ - 1]
     IN  r' = IF r.ws \/ r.connecting THEN a
              ELSE Dialed([a EXCEPT !.connecting = TRUE], "timer")

(* The ack timer.                                                           *)
AckTimeout ==
  /\ Alive
  /\ \/ \E m \in r.timed :
          r' = ReconnectRejected([r EXCEPT !.msg[m] = "failed", !.timed = @ \ {m}])
     \/ /\ r.rcFlight
        /\ r' = ReconnectRejected([r EXCEPT !.rcFlight = FALSE])

------------------------------------------------------------------------------
(* The network and the far end.                                             *)

(* 'open'; a second socket fails the assertion.                             *)
HandshakeOpens ==
  /\ Alive /\ r.dials > 0 /\ r.connections < MaxConnections
  /\ LET a == [r EXCEPT !.dials = @ - 1]
     IN  r' = IF r.ws THEN [a EXCEPT !.crashed = TRUE] ELSE Opened(a)

(* 'unexpected-response', or 'error' and then 'close'.  An error is not     *)
(* reported when a connection was made before and connectInProgress is not  *)
(* set.                                                                     *)
HandshakeFails ==
  /\ Alive /\ r.dials > 0
  /\ LET a == [r EXCEPT !.dials = @ - 1]
         c == IF r.connections > 0 THEN SocketClosed(a) ELSE [a EXCEPT !.ws = FALSE]
     IN \/ r' = IF r.ws THEN [a EXCEPT !.crashed = TRUE]
                ELSE Refused([a EXCEPT !.connecting = FALSE], "rejected")
        \/ r' = IF r.connecting \/ r.connections = 0 THEN Refused(c, "network") ELSE c

Drop ==
  /\ Alive /\ r.ws
  /\ r' = SocketClosed(r)

(* The far end closes with code 1000.                                       *)
FarEndCloses ==
  /\ Alive /\ r.ws
  /\ r' = [r EXCEPT !.closed = TRUE, !.ws = FALSE]

(* Mutant: a message that timed out is still looked up.                     *)
AckAfterTimeout(m) ==
  /\ Alive /\ r.ws
  /\ r.msg[m] \in {"inflight", "failed"} /\ m \in ToSet(r.log)
  /\ r' = ReconnectResolved([r EXCEPT !.msg[m] = "acked", !.init = FALSE,
                               !.timed = @ \ {m}])

(* Any ack, even to a message given up, clears _initMsgId.                  *)
Ack(m) ==
  /\ Alive /\ r.ws
  /\ \/ /\ r.msg[m] = "inflight"
        /\ r' = ReconnectResolved([r EXCEPT !.msg[m] = "acked", !.init = FALSE,
                                     !.timed = @ \ {m}])
     \/ /\ r.msg[m] = "failed" /\ m \in ToSet(r.log)
        /\ r' = [r EXCEPT !.init = FALSE]

AckReconnect ==
  /\ Alive /\ r.ws /\ r.rcFlight
  /\ r' = ReconnectResolved([r EXCEPT !.rcFlight = FALSE, !.init = FALSE])

------------------------------------------------------------------------------
Next ==
  \/ \E m \in Msgs : Request(m) \/ Immediate(m) \/ BackoffEnds(m) \/ Ack(m)
  \/ Close \/ ReconnectTimer \/ AckTimeout
  \/ HandshakeOpens \/ HandshakeFails \/ Drop \/ FarEndCloses \/ AckReconnect

Spec == Init /\ [][Next]_r

------------------------------------------------------------------------------
(* Properties.                                                              *)

(* However often the socket drops, no message is sent twice.                *)
SentOnce == \A i, j \in DOMAIN r.log : r.log[i] = r.log[j] => i = j

(* A request settles once: an ack, a timeout, a drop and a close compete    *)
(* for it and the first one wins.                                           *)
SettlesOnce ==
  [][\A m \in Msgs : r.msg[m] \in Final => r'.msg[m] = r.msg[m]]_r

(* The assertion of _onOpen and _onUnexpectedResponse: a handshake never    *)
(* ends while the requestor has a socket.                                   *)
OneSocket == ~r.crashed
==============================================================================
