------------------------------ MODULE MCDataPool ------------------------------
(* The pool and the data channels under it for TLC.  part says which: the pool *)
(* with two channels and few sessions, one of its channels with more sessions  *)
(* and with data, or the sending through one data channel.  The variables of   *)
(* the others stay as they are at first.                                       *)
EXTENDS DataPool

CONSTANTS Kind, Limit, MaxChunks, MaxWaiting

ASSUME ChannelAssumption ==
  /\ Kind \subseteq {"str", "buffer"}
  /\ Limit \in Nat
  /\ MaxChunks \in Nat \ {0}
  /\ MaxWaiting \in Nat

VARIABLES
  part,
  rtc, browser, opening, isOpen_, queue, handler, sending, chunking, toPeerDataBytes_,
  lastBrowserBufferedAmount_, overflow_, poll, draining_, closer, asked

One == INSTANCE DataPool WITH MaxSessions <- 3, MaxData <- 2
Wire == INSTANCE DataChannel

wire == <<rtc, browser, opening, isOpen_, queue, handler, sending, chunking,
          toPeerDataBytes_, lastBrowserBufferedAmount_, overflow_, poll, draining_,
          closer, asked>>
allVars == <<part, vars, wire>>

MCInit ==
  /\ Init /\ Wire!Init
  /\ \/ part \in {"pool", "channel"} /\ ~opening
     \/ part = "wire"

MCNext ==
  /\ \/ part = "pool" /\ Next /\ UNCHANGED wire
     \/ part = "channel" /\ One!Next /\ nextChannelId_' <= 1 /\ UNCHANGED wire
     \/ part = "wire" /\ Wire!Next /\ UNCHANGED vars
  /\ UNCHANGED part

(* No fair step of a part can be taken from where it stays in the others. *)
MCSpec == MCInit /\ [][MCNext]_allVars /\ Fairness /\ Wire!Fairness

(* Whatever is sent while polls are answered late: exactly one of handler and  *)
(* poll waits, what waits does so in overflow, and the browser's buffer is     *)
(* bounded (datachannel.ts).                                                   *)
QueueTended == Wire!QueueTended

(* No buffer waits, in the queue or in the browser, when close() closes the    *)
(* browser's channel (datachannel.ts).                                         *)
BuffersSentFirst == Wire!BuffersSentFirst

(* Neither the polling for the queue nor that of a close dies                  *)
(* (datachannel.ts).                                                           *)
PollingGoesOn == Wire!PollingGoesOn
===============================================================================
