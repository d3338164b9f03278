-------------------------- MODULE TtsStreamingBuffer --------------------------
(***************************************************************************)
(* lib/utils/tts-streaming-buffer.js: text tokens on their way from the    *)
(* application to the streaming text-to-speech module of FreeSWITCH.       *)
(*                                                                         *)
(* _feedQueue() is a coroutine without a lock: every bufferTokens(), every *)
(* connection and every timeout starts another activation of it, and they  *)
(* interleave at the replies of the media server, which come in the order  *)
(* of the commands.  Between two replies an activation runs to completion; *)
(* that run is a function from one state of the buffer to the next.        *)
(*                                                                         *)
(* Text is a sequence of pieces, which bufferedLength counts.  The code    *)
(* works on the concatenated text, so where one text item of the queue ends *)
(* and the next begins makes no difference: the queue holds pieces.         *)
(***************************************************************************)
EXTENDS Naturals, FiniteSets, SequencesExt

CONSTANTS
  Texts,         \* texts the application sends: sequences of Kinds
  HighWater,     \* HIGH_WATER_BUFFER_SIZE
  LowWater,      \* LOW_WATER_BUFFER_SIZE
  MayClose,      \* BOOLEAN: streaming say verbs end
  EpMayGo,       \* BOOLEAN: the session may lose its endpoint
  MaxPieces,     \* bound on the pieces buffered
  MaxFlushes,    \* bound on the flush requests
  MaxSays        \* bound on the say verbs

(* A word, a word that ends a sentence, white space.                        *)
Kinds == {"word", "stop", "space"}

ASSUME TtsAssumption ==
  /\ Texts \subseteq Seq(Kinds) \ {<<>>}
  /\ HighWater \in Nat /\ LowWater \in Nat /\ LowWater < HighWater
  /\ MayClose \in BOOLEAN /\ EpMayGo \in BOOLEAN
  /\ MaxPieces \in Nat /\ MaxFlushes \in Nat /\ MaxSays \in Nat

VARIABLES
  buf,      \* the buffer, see Buffers
  open,     \* cs.isTtsStreamOpen: a streaming say verb is executing
  ep,       \* cs.ep is set
  dialing,  \* FreeSWITCH connects to the vendor and will report the outcome
  pieces,   \* pieces accepted so far; each is numbered when it is accepted
  flushes,  \* flush requests so far, for MaxFlushes
  says      \* say verbs so far, for MaxSays

vars == <<buf, open, ep, dialing, pieces, flushes, says>>

(* A queued item is a piece of text or a flush marker.  Pieces are numbered *)
(* as they come; the number of a marker is that of the last piece before it.*)
Items == [type : Kinds \cup {"flush"}, id : Nat]

(* A suspended call: the reply it waits for, the number of the marker it    *)
(* works on, and whether a timeout started it.                              *)
Calls == [at : {"connect", "text", "flush", "front", "chunk"}, marker : Nat,
          timeout : BOOLEAN]

(* awaiting - the suspended calls in the order of their commands            *)
(* recent   - text was accepted after the timer was set                     *)
(* sent     - history: the commands sent, with the pieces they are about    *)
Buffers ==
  [status : {"notconnected", "connecting", "connected", "failed"},
   queue : Seq(Items), len : Nat, full : BOOLEAN, timer : BOOLEAN,
   recent : BOOLEAN, awaiting : Seq(Calls),
   sent : Seq([cmd : {"send", "flush"}, from : Nat, upTo : Nat])]

TtsTypeOK ==
  /\ buf \in Buffers
  /\ open \in BOOLEAN /\ ep \in BOOLEAN /\ dialing \in BOOLEAN
  /\ pieces \in Nat /\ flushes \in Nat /\ says \in Nat

TtsInit ==
  /\ buf = [status |-> "notconnected", queue |-> <<>>, len |-> 0,
            full |-> FALSE, timer |-> FALSE, recent |-> FALSE,
            awaiting |-> <<>>, sent |-> <<>>]
  /\ open = FALSE /\ ep = TRUE /\ dialing = FALSE
  /\ pieces = 0 /\ flushes = 0 /\ says = 0

------------------------------------------------------------------------------
(* What the methods do up to their next await.                              *)

IsFlush(item) == item.type = "flush"
IsText(item) == item.type # "flush"

(* Where the first marker is from a place on, 0 for none.                   *)
MarkerFrom(q, from) ==
  LET markers == {i \in from..Len(q) : IsFlush(q[i])}
  IN  IF markers = {} THEN 0 ELSE Min(markers)

(* The text before the next marker, at i; there may be another in front.    *)
TextBefore(q, i) == SubSeq(q, IF IsFlush(q[1]) THEN 2 ELSE 1, i - 1)

(* Mutant: text without a sentence end is left for the next tokens.         *)
NeverTimed(b) == b

SetTimerIfNeeded(b) ==
  IF b.len > 0 /\ ~b.timer THEN [b EXCEPT !.timer = TRUE, !.recent = FALSE]
  ELSE b

RemoveTimer(b) == [b EXCEPT !.timer = FALSE]

Emptied(b) == [b EXCEPT !.queue = <<>>, !.len = 0]

(* Suspend on the reply to a command.                                       *)
Send(b, text, call) ==
  [b EXCEPT !.sent = Append(@, [cmd |-> "send", from |-> Head(text).id,
                                upTo |-> Last(text).id]),
            !.awaiting = Append(@, call)]

Flushed(b, n) ==
  [b EXCEPT !.sent = Append(@, [cmd |-> "flush", from |-> n, upTo |-> n])]

(* await _doFlush(): without an endpoint it throws, and the queue is        *)
(* dropped.                                                                 *)
DoFlush(b, at, n, timeout) ==
  IF ep THEN [Flushed(b, n) EXCEPT
                !.awaiting = Append(@, [at |-> at, marker |-> n, timeout |-> timeout])]
  ELSE Emptied(b)

(* Sentence ends are recognised by what follows them, words by the space    *)
(* before the next one.  The result is a number of pieces, 0 for none.      *)
SentenceBoundary(t) ==
  Max({0} \cup {i \in DOMAIN t :
                  t[i].type = "stop" /\ (i < Len(t) => t[i + 1].type = "space")})

WordBoundary(t) ==
  Max({0} \cup {i \in 1..(Len(t) - 1) :
                  t[i].type # "space" /\ t[i + 1].type = "space"})

(* Mutant, off by one: the last piece that was sent stays.                  *)
LastPieceKept(b, n) ==
  [b EXCEPT !.queue = SubSeq(@, n, Len(@)), !.len = @ - n + 1]

(* The queue without the first n pieces, which are text.                    *)
Consumed(b, n) ==
  [b EXCEPT !.queue = SubSeq(@, n + 1, Len(@)), !.len = @ - n]

(* Mutant: the low water mark itself does not count.                        *)
ResumedBelow(b) == [b EXCEPT !.full = @ /\ b.len >= LowWater]

(* The condition at the end of phase 2 under which 'resume' is emitted.     *)
Resumed(b) == [b EXCEPT !.full = @ /\ b.len > LowWater]

(* Phase 2: send the sentences (after a timeout: the words) at the head of  *)
(* the queue.  HIGH_WATER is below MAX_CHUNK_SIZE, so all text may go in    *)
(* one chunk.  A send without an endpoint fails within the same turn.       *)
Phase2(b, timeout) ==
  LET marker == MarkerFrom(b.queue, 1)
      text == IF marker = 0 THEN b.queue ELSE SubSeq(b.queue, 1, marker - 1)
      n == IF SentenceBoundary(text) = 0 /\ timeout THEN WordBoundary(text)
           ELSE SentenceBoundary(text)
      c == Consumed(b, n)
  IN  IF text = <<>> THEN RemoveTimer(b)
      ELSE IF n = 0 THEN SetTimerIfNeeded(b)
      ELSE IF ep THEN Send(c, SubSeq(text, 1, n),
                           [at |-> "chunk", marker |-> 0, timeout |-> timeout])
      ELSE Resumed(c)

(* A marker at the very front.                                              *)
FrontFlush(b, timeout) ==
  IF b.queue # <<>> /\ IsFlush(b.queue[1])
  THEN DoFlush([b EXCEPT !.queue = Tail(@)], "front", b.queue[1].id, timeout)
  ELSE Phase2(b, timeout)

(* Phase 1: a marker behind text.  The text and the marker leave the queue, *)
(* then the text is sent; the flush follows the reply.                      *)
Phases(b, timeout) ==
  LET i == MarkerFrom(b.queue, 2)
      text == TextBefore(b.queue, i)
      c == [b EXCEPT !.queue = SubSeq(@, i + 1, Len(@)), !.len = @ - Len(text)]
  IN  IF i = 0 THEN FrontFlush(b, timeout)
      ELSE IF ep THEN Send(c, text, [at |-> "text", marker |-> b.queue[i].id,
                                     timeout |-> timeout])
      ELSE Emptied(b)

FeedQueue(b, timeout) ==
  IF ~open \/ ~ep \/ b.status # "connected" THEN b ELSE Phases(b, timeout)

------------------------------------------------------------------------------
(* The session and the application.                                         *)

(* A streaming say verb starts: start(), which rejects unless the stream is *)
(* not connected; nobody looks at the result.                               *)
SayStarts ==
  /\ ~open /\ says < MaxSays
  /\ open' = TRUE /\ says' = says + 1
  /\ IF buf.status # "notconnected" THEN UNCHANGED <<buf, dialing>>
     ELSE IF ep
     THEN /\ buf' = [buf EXCEPT !.status = "connecting",
                       !.awaiting = Append(@, [at |-> "connect", marker |-> 0,
                                               timeout |-> FALSE])]
          /\ dialing' = TRUE
     ELSE /\ buf' = [buf EXCEPT !.status = "failed"]
          /\ UNCHANGED dialing
  /\ UNCHANGED <<ep, pieces, flushes>>

(* The say verb ends by itself: the stream stays connected for the next.    *)
SayDone ==
  /\ MayClose /\ open
  /\ open' = FALSE
  /\ UNCHANGED <<buf, ep, dialing, pieces, flushes, says>>

(* The say verb is killed: stop().                                          *)
SayKilled ==
  /\ MayClose /\ open
  /\ open' = FALSE
  /\ IF ep
     THEN /\ buf' = RemoveTimer(Emptied([buf EXCEPT !.status = "notconnected"]))
          /\ dialing' = FALSE
     ELSE UNCHANGED <<buf, dialing>>
  /\ UNCHANGED <<ep, pieces, flushes, says>>

(* bufferTokens(); a failed stream refuses the text and leading white space *)
(* is dropped, neither with an effect.                                      *)
BufferTokens(text) ==
  LET new == [i \in DOMAIN text |-> [type |-> text[i], id |-> pieces + i]] IN
  /\ buf.status # "failed"
  /\ ~(buf.len = 0 /\ ToSet(text) = {"space"})
  /\ pieces + Len(text) <= MaxPieces
  /\ IF buf.len + Len(text) > HighWater
     THEN /\ buf' = [buf EXCEPT !.full = TRUE]
          /\ UNCHANGED pieces
     ELSE /\ buf' = FeedQueue([buf EXCEPT !.queue = @ \o new,
                                 !.len = @ + Len(text), !.recent = TRUE], FALSE)
          /\ pieces' = pieces + Len(text)
  /\ UNCHANGED <<open, ep, dialing, flushes, says>>

(* Mutant: flush() does not look for queued text.                           *)
FlushAtOnce ==
  /\ flushes < MaxFlushes /\ flushes' = flushes + 1
  /\ buf.status = "connected" /\ ep
  /\ buf' = Flushed(buf, pieces)
  /\ UNCHANGED <<open, ep, dialing, pieces, says>>

(* flush(): a marker after the text that is queued, or, when the stream is  *)
(* connected and there is none, the command itself, which is not awaited.   *)
Flush ==
  LET marker == [type |-> "flush", id |-> pieces]
      last   == buf.queue # <<>> /\ IsFlush(Last(buf.queue))
  IN
  /\ flushes < MaxFlushes /\ flushes' = flushes + 1
  /\ \/ /\ \/ buf.status = "connecting"
           \/ buf.status = "connected" /\ buf.queue # <<>>
        /\ ~last
        /\ buf' = [buf EXCEPT !.queue = Append(@, marker)]
     \/ /\ buf.status = "connected" /\ buf.queue = <<>> /\ ep
        /\ buf' = Flushed(buf, pieces)
  /\ UNCHANGED <<open, ep, dialing, pieces, says>>

(* clear(): by command, or because the caller interrupts.  Without an       *)
(* endpoint it throws after it cancelled the timer.                         *)
Clear ==
  /\ buf.status = "connected"
  /\ buf' = IF ep THEN [RemoveTimer(Emptied(buf)) EXCEPT !.full = FALSE]
            ELSE RemoveTimer(buf)
  /\ UNCHANGED <<open, ep, dialing, pieces, flushes, says>>

EndpointGone ==
  /\ EpMayGo /\ ep
  /\ ep' = FALSE
  /\ UNCHANGED <<buf, open, dialing, pieces, flushes, says>>

------------------------------------------------------------------------------
(* The media server and the timer.                                          *)

(* The oldest command is answered and its call goes on.  Only an error of   *)
(* 'connect' makes a difference: others are logged.                         *)
Reply ==
  /\ buf.awaiting # <<>>
  /\ LET call == Head(buf.awaiting)
         b    == [buf EXCEPT !.awaiting = Tail(@)]
     IN \/ /\ call.at = "connect"
           /\ \/ buf' = b /\ UNCHANGED dialing
              \/ buf' = [b EXCEPT !.status = "failed"] /\ dialing' = FALSE
        \/ /\ call.at = "text"
           /\ buf' = DoFlush(b, "flush", call.marker, call.timeout)
           /\ UNCHANGED dialing
        \/ /\ call.at = "flush"
           /\ buf' = Phases(b, call.timeout)
           /\ UNCHANGED dialing
        \/ /\ call.at = "front"
           /\ buf' = FrontFlush(b, call.timeout)
           /\ UNCHANGED dialing
        \/ /\ call.at = "chunk"
           /\ buf' = FeedQueue(Resumed(b), FALSE)
           /\ UNCHANGED dialing
  /\ UNCHANGED <<open, ep, pieces, flushes, says>>

OnConnect ==
  /\ dialing
  /\ dialing' = FALSE
  /\ buf' = FeedQueue([buf EXCEPT !.status = "connected"], FALSE)
  /\ UNCHANGED <<open, ep, pieces, flushes, says>>

OnConnectFailure ==
  /\ dialing
  /\ dialing' = FALSE
  /\ buf' = Emptied([buf EXCEPT !.status = "failed"])
  /\ UNCHANGED <<open, ep, pieces, flushes, says>>

(* Mutant: a postponed timeout is not set again.                            *)
OnTimeoutOnce ==
  /\ buf.timer
  /\ LET b == [buf EXCEPT !.timer = FALSE]
     IN  buf' = IF b.recent THEN b ELSE FeedQueue(b, TRUE)
  /\ UNCHANGED <<open, ep, dialing, pieces, flushes, says>>

(* _onTimeout: wait once more when text came since the timer was set.       *)
OnTimeout ==
  /\ buf.timer
  /\ LET b == [buf EXCEPT !.timer = FALSE]
     IN  buf' = IF b.recent THEN SetTimerIfNeeded([b EXCEPT !.recent = FALSE])
                ELSE FeedQueue(b, TRUE)
  /\ UNCHANGED <<open, ep, dialing, pieces, flushes, says>>

------------------------------------------------------------------------------
TtsNext ==
  \/ SayStarts \/ SayDone \/ SayKilled
  \/ \E text \in Texts : BufferTokens(text)
  \/ Flush \/ Clear \/ EndpointGone
  \/ Reply \/ OnConnect \/ OnConnectFailure \/ OnTimeout

TtsSpec == TtsInit /\ [][TtsNext]_vars

(* Commands are answered, connections are reported, timers fire.            *)
FairSpec ==
  /\ TtsSpec
  /\ WF_vars(Reply) /\ WF_vars(OnConnect \/ OnConnectFailure)
  /\ WF_vars(OnTimeout)

------------------------------------------------------------------------------
(* Properties.                                                              *)

HasMarker == \E i \in DOMAIN buf.queue : IsFlush(buf.queue[i])

(* Text is sent once and in the order in which it was buffered, and it      *)
(* never waits behind text that was sent.                                   *)
SentInOrder ==
  /\ \A i, j \in DOMAIN buf.sent :
       i < j /\ buf.sent[i].cmd = "send" /\ buf.sent[j].cmd = "send"
         => buf.sent[i].upTo < buf.sent[j].from
  /\ \A i \in DOMAIN buf.sent, k \in DOMAIN buf.queue :
       buf.sent[i].cmd = "send" /\ IsText(buf.queue[k])
         => buf.sent[i].upTo < buf.queue[k].id

(* "all text preceding it will be sent before the flush is issued": no text *)
(* that was buffered before a flush request is sent, or still queued, after *)
(* its flush command.                                                       *)
FlushAfterText ==
  \A i \in DOMAIN buf.sent : buf.sent[i].cmd = "flush" =>
    /\ \A j \in DOMAIN buf.sent : i < j /\ buf.sent[j].cmd = "send"
         => buf.sent[j].from > buf.sent[i].upTo
    /\ \A k \in DOMAIN buf.queue :
         IsText(buf.queue[k]) => buf.queue[k].id > buf.sent[i].upTo

(* What a second say verb finds queued on the connected stream is known to  *)
(* be left there, as its start() rejects.                                   *)
Streaming == buf.status = "connected" /\ open /\ ep /\ says <= 1

(* Text or a marker held back by a connected stream is not forgotten: an    *)
(* activation that waits for a reply or the timer will look at it again.    *)
HeldTextHasTimer ==
  (Streaming /\ buf.queue # <<>>) => buf.timer \/ buf.awaiting # <<>>

(* A queued flush marker is acted upon while the stream stays open.         *)
MarkerIsFlushed ==
  (Streaming /\ HasMarker) ~> (~Streaming \/ ~HasMarker)

(* "buffer is no longer full - resuming": an application that was paused is *)
(* resumed once the text has drained below the low water mark.  (Text that  *)
(* drains through a flush marker is not followed by a resume, hence the     *)
(* condition that no flush is requested.)                                   *)
Drained == buf.full /\ buf.len <= LowWater /\ flushes = 0
ResumedWhenDrained ==
  (Streaming /\ Drained) ~> (~Streaming \/ ~Drained)
==============================================================================
