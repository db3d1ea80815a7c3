----------------------------- MODULE DataChannel -----------------------------
(***************************************************************************)
(* src/lib/webrtc/datachannel.ts: DataChannelClass, which cuts messages     *)
(* into chunks and passes them to the browser's data channel, waiting (by   *)
(* polling) whenever the browser has too much of them buffered.             *)
(*                                                                          *)
(* toPeerDataQueue_ has only next-handlers, so all that counts of its       *)
(* handler is whether it is there.  sendNext_ installs it and, when chunks  *)
(* wait, is entered again from handleSendDataToPeer_ with each of them:     *)
(* `sending' holds from the first of these calls to the last, and nothing   *)
(* but the browser does anything in between.  A chunk counts as one byte.   *)
(***************************************************************************)
EXTENDS Naturals, Sequences, FiniteSets

CONSTANTS
  Kind,        \* the kinds of message sent: a subset of {"str", "buffer"}
  Limit,       \* PC_QUEUE_LIMIT, in chunks
  MaxChunks,   \* bound: chunks of a message
  MaxWaiting   \* bound: chunks in the queue and the browser when a message is sent

VARIABLES
  rtc,        \* the browser's data channel: connecting, open, closing, closed
  browser,    \* the chunks it has buffered
  opening,    \* its event onopen is on the way
  isOpen_,
  queue,      \* toPeerDataQueue_: the chunks waiting
  handler,    \* toPeerDataQueue_ has a next-handler
  sending,    \* a call of sendNext_ is in progress
  chunking,   \* chunks of a message that send() has still to queue
  toPeerDataBytes_,
  lastBrowserBufferedAmount_,
  overflow_,
  poll,       \* waitForOverflowToClear_: no, asked (for bufferedAmount), timer
  draining_,
  closer,     \* close(): no, overflow (it waits for the listener), asked, timer,
              \* drained
  asked       \* bufferedAmount when it was asked for: the answer is no larger

vars == <<rtc, browser, opening, isOpen_, queue, handler, sending, chunking,
          toPeerDataBytes_, lastBrowserBufferedAmount_, overflow_, poll, draining_,
          closer, asked>>

Chunk == {"str", "buffer"}
Buffers(s) == Cardinality({i \in DOMAIN s : s[i] = "buffer"})

TypeOK ==
  /\ rtc \in {"connecting", "open", "closing", "closed"}
  /\ browser \in Seq(Chunk)
  /\ opening \in BOOLEAN
  /\ isOpen_ \in BOOLEAN
  /\ queue \in Seq(Chunk)
  /\ handler \in BOOLEAN
  /\ sending \in BOOLEAN
  /\ chunking \in 0..MaxChunks
  /\ toPeerDataBytes_ \in Nat
  /\ lastBrowserBufferedAmount_ \in Nat
  /\ overflow_ \in BOOLEAN
  /\ poll \in {"no", "asked", "timer"}
  /\ draining_ \in BOOLEAN
  /\ closer \in {"no", "overflow", "asked", "timer", "drained"}
  /\ asked \in [{"poll", "closer"} -> Nat]

Init ==
  /\ \/ rtc = "connecting" /\ opening = FALSE
     \/ rtc = "open" /\ opening = TRUE
  /\ browser = <<>>
  /\ isOpen_ = FALSE
  /\ queue = <<>>
  /\ handler = FALSE
  /\ sending = FALSE
  /\ chunking = 0
  /\ toPeerDataBytes_ = 0
  /\ lastBrowserBufferedAmount_ = 0
  /\ overflow_ = FALSE
  /\ poll = "no"
  /\ draining_ = FALSE
  /\ closer = "no"
  /\ asked = [p \in {"poll", "closer"} |-> 0]

(* The event loop is free for the next event. *)
Free == ~sending /\ chunking = 0

canSendMore_ == isOpen_ /\ lastBrowserBufferedAmount_ <= Limit

-----------------------------------------------------------------------------
(* onceOpened: the first call of sendNext_. *)
Opened ==
  /\ Free
  /\ opening
  /\ opening' = FALSE
  /\ isOpen_' = TRUE
  /\ sending' = TRUE
  /\ UNCHANGED <<rtc, browser, queue, handler, chunking, toPeerDataBytes_,
                 lastBrowserBufferedAmount_, overflow_, poll, draining_, closer,
                 asked>>

(* handleSendDataToPeer_: what a channel that is closing is given is lost.  *)
Pass(c) ==
  /\ browser' = IF rtc = "open" THEN Append(browser, c) ELSE browser
  /\ lastBrowserBufferedAmount_' =
       lastBrowserBufferedAmount_ + (IF c = "buffer" THEN 1 ELSE 0)
  /\ sending' = TRUE

(* Mutant: the handler is set for good, not for the next chunk. *)
Put_keepsHandler(c) ==
  IF handler
  THEN /\ Pass(c)
       /\ handler' = TRUE
       /\ UNCHANGED <<queue, toPeerDataBytes_>>
  ELSE /\ queue' = Append(queue, c)
       /\ toPeerDataBytes_' = toPeerDataBytes_ + (IF c = "buffer" THEN 1 ELSE 0)
       /\ UNCHANGED <<browser, lastBrowserBufferedAmount_, sending, handler>>

(* toPeerDataQueue_.handle(c): with a handler the chunk is passed on,       *)
(* otherwise it waits.                                                      *)
Put(c) ==
  IF handler
  THEN /\ Pass(c)
       /\ handler' = FALSE
       /\ UNCHANGED <<queue, toPeerDataBytes_>>
  ELSE /\ queue' = Append(queue, c)
       /\ toPeerDataBytes_' = toPeerDataBytes_ + (IF c = "buffer" THEN 1 ELSE 0)
       /\ UNCHANGED <<browser, lastBrowserBufferedAmount_, sending, handler>>

(* send(): a string is one chunk, a buffer may be several. *)
Send(kind, n) ==
  /\ Free
  /\ ~draining_
  /\ Len(queue) + Len(browser) + n <= MaxWaiting
  /\ kind = "str" => n = 1
  /\ chunking' = n - 1
  /\ Put(kind)
  /\ UNCHANGED <<rtc, opening, isOpen_, overflow_, poll, draining_, closer,
                 asked>>

(* chunkBufferOntoQueue_ goes on with the next chunk. *)
NextChunk ==
  /\ ~sending
  /\ chunking > 0
  /\ chunking' = chunking - 1
  /\ Put("buffer")
  /\ UNCHANGED <<rtc, opening, isOpen_, overflow_, poll, draining_, closer,
                 asked>>

(* The listener close() has set hears of the end of an overflow. *)
setOverflow_(overflow) ==
  /\ overflow_' = overflow
  /\ IF closer = "overflow" /\ overflow_ /\ ~overflow
     THEN /\ closer' = "asked"
          /\ asked' = [asked EXCEPT !["closer"] = Len(browser)]
     ELSE UNCHANGED <<closer, asked>>

(* sendNext_ when the browser has enough: it waits for that to clear. *)
StartPolling ==
  /\ sending
  /\ ~canSendMore_
  /\ sending' = FALSE
  /\ poll' = "asked"
  /\ overflow_' = TRUE
  /\ asked' = [asked EXCEPT !["poll"] = Len(browser)]
  /\ UNCHANGED <<rtc, browser, opening, isOpen_, queue, handler, chunking,
                 toPeerDataBytes_, lastBrowserBufferedAmount_, draining_, closer>>

(* sendNext_ when nothing waits: the handler stays for the next chunk. *)
InstallHandler ==
  /\ sending
  /\ canSendMore_
  /\ queue = <<>>
  /\ setOverflow_(FALSE)
  /\ handler' = TRUE
  /\ sending' = FALSE
  /\ UNCHANGED <<rtc, browser, opening, isOpen_, queue, chunking,
                 toPeerDataBytes_, lastBrowserBufferedAmount_, poll, draining_>>

(* sendNext_ when a chunk waits: the handler gets it at once. *)
SendQueued ==
  /\ sending
  /\ canSendMore_
  /\ queue # <<>>
  /\ queue' = Tail(queue)
  /\ toPeerDataBytes_' = toPeerDataBytes_ - (IF Head(queue) = "buffer" THEN 1 ELSE 0)
  /\ Pass(Head(queue))
  /\ UNCHANGED <<rtc, opening, isOpen_, handler, chunking, overflow_, poll,
                 draining_, closer, asked>>

(* Mutant: the browser is asked only once. *)
PollAnswered_once ==
  /\ Free
  /\ poll = "asked"
  /\ \E amount \in Len(browser)..asked["poll"] :
       /\ lastBrowserBufferedAmount_' = amount
       /\ IF isOpen_ /\ amount <= Limit
          THEN sending' = TRUE /\ poll' = "no"
          ELSE sending' = FALSE /\ poll' = "no"
  /\ UNCHANGED <<rtc, browser, opening, isOpen_, queue, handler, chunking,
                 toPeerDataBytes_, overflow_, draining_, closer, asked>>

(* bufferedAmount arrives: it is that of some moment since it was asked for. *)
PollAnswered ==
  /\ Free
  /\ poll = "asked"
  /\ \E amount \in Len(browser)..asked["poll"] :
       /\ lastBrowserBufferedAmount_' = amount
       /\ IF isOpen_ /\ amount <= Limit
          THEN sending' = TRUE /\ poll' = "no"
          ELSE sending' = FALSE /\ poll' = IF isOpen_ THEN "timer" ELSE "no"
  /\ UNCHANGED <<rtc, browser, opening, isOpen_, queue, handler, chunking,
                 toPeerDataBytes_, overflow_, draining_, closer, asked>>

PollAgain ==
  /\ Free
  /\ poll = "timer"
  /\ poll' = "asked"
  /\ asked' = [asked EXCEPT !["poll"] = Len(browser)]
  /\ UNCHANGED <<rtc, browser, opening, isOpen_, queue, handler, sending,
                 chunking, toPeerDataBytes_, lastBrowserBufferedAmount_,
                 overflow_, draining_, closer>>

-----------------------------------------------------------------------------
(* Mutant: close() does not wait for the queue. *)
Close_atOnce ==
  /\ Free
  /\ draining_' = TRUE
  /\ IF FALSE
     THEN closer' = (IF draining_ THEN closer ELSE "overflow") /\ UNCHANGED asked
     ELSE IF draining_ => closer = "overflow"
          THEN closer' = "asked" /\ asked' = [asked EXCEPT !["closer"] = Len(browser)]
          ELSE UNCHANGED <<closer, asked>>
  /\ UNCHANGED <<rtc, browser, opening, isOpen_, queue, handler, sending,
                 chunking, toPeerDataBytes_, lastBrowserBufferedAmount_,
                 overflow_, poll>>

(* close().  With bytes in the queue it sets the listener, which throws when *)
(* it was called before; without, it asks at once how much the browser has. *)
Close ==
  /\ Free
  /\ draining_' = TRUE
  /\ IF toPeerDataBytes_ > 0
     THEN closer' = (IF draining_ THEN closer ELSE "overflow") /\ UNCHANGED asked
     ELSE IF draining_ => closer = "overflow"
          THEN closer' = "asked" /\ asked' = [asked EXCEPT !["closer"] = Len(browser)]
          ELSE UNCHANGED <<closer, asked>>
  /\ UNCHANGED <<rtc, browser, opening, isOpen_, queue, handler, sending,
                 chunking, toPeerDataBytes_, lastBrowserBufferedAmount_,
                 overflow_, poll>>

(* The loop of waitForBrowserToDrain_, and then onceDrained_. *)
DrainAnswered ==
  /\ Free
  /\ closer = "asked"
  /\ \E amount \in Len(browser)..asked["closer"] :
       closer' = IF amount = 0 THEN "drained" ELSE IF isOpen_ THEN "timer" ELSE "no"
  /\ UNCHANGED <<rtc, browser, opening, isOpen_, queue, handler, sending,
                 chunking, toPeerDataBytes_, lastBrowserBufferedAmount_,
                 overflow_, poll, draining_, asked>>

DrainAgain ==
  /\ Free
  /\ closer = "timer"
  /\ closer' = "asked"
  /\ asked' = [asked EXCEPT !["closer"] = Len(browser)]
  /\ UNCHANGED <<rtc, browser, opening, isOpen_, queue, handler, sending,
                 chunking, toPeerDataBytes_, lastBrowserBufferedAmount_,
                 overflow_, poll, draining_>>

Drained ==
  /\ Free
  /\ closer = "drained"
  /\ closer' = "no"
  /\ rtc' = IF rtc = "closed" THEN rtc ELSE "closing"
  /\ UNCHANGED <<browser, opening, isOpen_, queue, handler, sending, chunking,
                 toPeerDataBytes_, lastBrowserBufferedAmount_, overflow_, poll,
                 draining_, asked>>

(* onceClosed: the browser's channel is closed, by this side or the other. *)
Closed ==
  /\ Free
  /\ rtc = "closed" /\ isOpen_
  /\ isOpen_' = FALSE
  /\ UNCHANGED <<rtc, browser, opening, queue, handler, sending, chunking,
                 toPeerDataBytes_, lastBrowserBufferedAmount_, overflow_, poll,
                 draining_, closer, asked>>

-----------------------------------------------------------------------------
(* The browser: external. *)
RtcOpens ==
  /\ rtc = "connecting"
  /\ rtc' = "open"
  /\ opening' = TRUE
  /\ UNCHANGED <<browser, isOpen_, queue, handler, sending, chunking,
                 toPeerDataBytes_, lastBrowserBufferedAmount_, overflow_, poll,
                 draining_, closer, asked>>

RtcDelivers ==
  /\ rtc \in {"open", "closing"}
  /\ browser # <<>>
  /\ browser' = Tail(browser)
  /\ UNCHANGED <<rtc, opening, isOpen_, queue, handler, sending, chunking,
                 toPeerDataBytes_, lastBrowserBufferedAmount_, overflow_, poll,
                 draining_, closer, asked>>

RtcClosed ==
  /\ rtc' = "closed"
  /\ UNCHANGED <<browser, opening, isOpen_, queue, handler, sending, chunking,
                 toPeerDataBytes_, lastBrowserBufferedAmount_, overflow_, poll,
                 draining_, closer, asked>>

RtcCloses == rtc = "closing" /\ RtcClosed
PeerCloses == rtc \in {"connecting", "open"} /\ RtcClosed

(* What the program does of itself. *)
Internal ==
  \/ Opened \/ NextChunk \/ StartPolling \/ InstallHandler \/ SendQueued
  \/ PollAnswered \/ PollAgain \/ DrainAnswered \/ DrainAgain \/ Drained \/ Closed

Next ==
  \/ Internal
  \/ \E kind \in Kind, n \in 1..MaxChunks : Send(kind, n)
  \/ Close
  \/ RtcOpens \/ RtcDelivers \/ RtcCloses \/ PeerCloses

Spec == Init /\ [][Next]_vars

(* Each callback of the event loop runs in the end, the browser delivers    *)
(* what it has buffered and closes a channel it was told to.  The channel   *)
(* need not open, and nobody need send or close.                            *)
Fairness ==
  /\ WF_vars(Opened) /\ WF_vars(NextChunk) /\ WF_vars(StartPolling)
  /\ WF_vars(InstallHandler) /\ WF_vars(SendQueued) /\ WF_vars(PollAnswered)
  /\ WF_vars(PollAgain) /\ WF_vars(DrainAnswered) /\ WF_vars(DrainAgain)
  /\ WF_vars(Drained) /\ WF_vars(Closed) /\ WF_vars(RtcDelivers) /\ WF_vars(RtcCloses)

FairSpec == Spec /\ Fairness

-----------------------------------------------------------------------------
(* "Last packet handler should not still be present": whenever the program  *)
(* waits with an open channel, either a handler is there for the next chunk *)
(* or it polls, never both (sendNext_ would find a handler) and never       *)
(* neither (nothing would be sent any more).                                *)
OneWaits ==
  Free /\ isOpen_ =>
    (handler <=> poll = "no") /\ (handler => queue = <<>>)

(* The queue of an open channel waits only in overflow, with which the      *)
(* users of the channel stop reading from their sockets.                    *)
WaitsInOverflow == Free /\ isOpen_ /\ queue # <<>> => overflow_

(* lastBrowserBufferedAmount_ "is an upper bound on bufferedAmount ...      *)
(* (However, these updates do not account for string messages.)", so the    *)
(* browser never has more than one chunk of buffers above the limit.        *)
BrowserBounded ==
  /\ Buffers(browser) <= lastBrowserBufferedAmount_
  /\ Buffers(browser) <= Limit + 1

(* Whatever is sent while polls are answered late: exactly one of handler   *)
(* and poll waits, what waits does so in overflow, and the browser's buffer *)
(* is bounded.                                                              *)
QueueTended == TypeOK /\ OneWaits /\ WaitsInOverflow /\ BrowserBounded

(* close(): "Closes this data channel once all outgoing messages have been  *)
(* sent": no buffer waits, in the queue or in the browser, when the         *)
(* browser's channel is told to close.                                      *)
BuffersSentFirst ==
  [][rtc # "closing" /\ rtc' = "closing" => Buffers(queue) = 0 /\ Buffers(browser) = 0]_vars

(* Chunks that wait are taken up again, unless the channel is lost: the     *)
(* polling never dies.                                                      *)
SendingResumes == isOpen_ /\ queue # <<>> ~> sending \/ rtc = "closed"

(* A close() that waits for an overflow to clear, or for the browser to     *)
(* drain, closes the channel.                                               *)
WaitingCloses ==
  (closer = "overflow" /\ overflow_) \/ closer \in {"asked", "timer", "drained"}
    ~> rtc = "closed"

(* The channel lives: neither the polling for the queue nor that of a close *)
(* dies.                                                                    *)
PollingGoesOn == SendingResumes /\ WaitingCloses

(* Of every message, strings included, BuffersSentFirst is false: strings   *)
(* are not counted in what close() waits for (datachannel.ts:92, 352).      *)
SentBeforeClosing ==
  [][rtc # "closing" /\ rtc' = "closing" => queue = <<>> /\ browser = <<>>]_vars
=============================================================================
