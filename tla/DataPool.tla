------------------------------ MODULE DataPool ------------------------------
(***************************************************************************)
(* src/lib/pool/pool.ts: the local pool of one peer and the remote pool of  *)
(* the other, for the data channels the first peer opens.  (The channels    *)
(* the other peer opens are a second, independent instance.)                *)
(*                                                                          *)
(* A channel has two ends, each with its PoolChannel.  A session of a       *)
(* channel is the time between an OPEN and the CLOSEs of both ends; the     *)
(* ends number their sessions (in the model only) and every message carries *)
(* the number its sender had, so that it can be told which session it is    *)
(* from.  `inbox' holds the messages on their way to an end and those       *)
(* queued in its dc_.dataFromPeerQueue while nobody handles it: both wait,  *)
(* in one order, for onDataFromPeer_.                                       *)
(***************************************************************************)
EXTENDS Naturals, Sequences, FiniteSets

CONSTANTS
  MaxChannels,  \* bound: ids 1..MaxChannels are used for data channels
  MaxSessions,  \* bound: sessions of one channel
  MaxData,      \* bound: messages waiting at an end when one more is sent
  MaxFailures   \* bound: data channels that are refused or fail

ASSUME DataPoolAssumption ==
  /\ MaxChannels \in Nat
  /\ MaxSessions \in Nat
  /\ MaxData \in Nat
  /\ MaxFailures \in Nat

Chan == 1..MaxChannels
Local(c) == <<"local", c>>
Remote(c) == <<"remote", c>>
End == {"local", "remote"} \X Chan
Peer(e) == IF e[1] = "local" THEN Remote(e[2]) ELSE Local(e[2])

Message == [type: {"OPEN", "CLOSE", "data"}, session: Nat]

VARIABLES
  nextChannelId_, \* LocalPool: the last id given to a data channel
  pool_,          \* LocalPool: channels to be opened again, next one first
  link,           \* per end, the data channel: none, opening, open, closed
  state_,         \* per end, PoolChannel.state_ ("none" before there is one)
  inbox,          \* per end, messages not yet seen by onDataFromPeer_
  handling,       \* per end: dc_.dataFromPeerQueue is handled
  unread,         \* per end, dataFromPeerQueue: data its user has not handled
  drain,          \* per end, the answer to a CLOSE: no, waiting, acked
  closing,        \* per end: onceClosed is fulfilled, its callback still to run
  session,        \* per end, the number of sessions opened (model only)
  failures        \* the number of data channels that failed (model only)

vars == <<nextChannelId_, pool_, link, state_, inbox, handling, unread, drain,
          closing, session, failures>>

TypeOK ==
  /\ nextChannelId_ \in 0..MaxChannels
  /\ pool_ \in Seq(Chan)
  /\ link \in [End -> {"none", "opening", "open", "closed"}]
  /\ state_ \in [End -> {"none", "OPEN", "CLOSING", "CLOSED", "PERMANENTLY_CLOSED"}]
  /\ inbox \in [End -> Seq(Message)]
  /\ handling \in [End -> BOOLEAN]
  /\ unread \in [End -> Seq(Nat)]
  /\ drain \in [End -> {"no", "waiting", "acked"}]
  /\ closing \in [End -> BOOLEAN]
  /\ session \in [End -> Nat]
  /\ failures \in Nat

Init ==
  /\ nextChannelId_ = 0
  /\ pool_ = <<>>
  /\ link = [e \in End |-> "none"]
  /\ state_ = [e \in End |-> "none"]
  /\ inbox = [e \in End |-> <<>>]
  /\ handling = [e \in End |-> FALSE]
  /\ unread = [e \in End |-> <<>>]
  /\ drain = [e \in End |-> "no"]
  /\ closing = [e \in End |-> FALSE]
  /\ session = [e \in End |-> 0]
  /\ failures = 0

(* The inboxes after end e has passed a message to its open data channel. *)
Passed(e, type, n) ==
  IF link[Peer(e)] = "closed" THEN inbox
  ELSE [inbox EXCEPT ![Peer(e)] = Append(@, [type |-> type, session |-> n])]

(* The same when the data channel may have closed already. *)
Sent(e, type, n) == IF link[e] = "open" THEN Passed(e, type, n) ELSE inbox

-----------------------------------------------------------------------------
(* LocalPool *)

(* open() of PoolChannel: OPEN is sent and the channel is open at once,     *)
(* whatever state_ is but OPEN; the remote end does not acknowledge.        *)
Open(c) ==
  /\ state_[Local(c)] # "OPEN"
  /\ session[Local(c)] < MaxSessions
  /\ session' = [session EXCEPT ![Local(c)] = @ + 1]
  /\ state_' = [state_ EXCEPT ![Local(c)] = "OPEN"]

(* openDataChannel with a channel in the pool. *)
Reuse ==
  /\ pool_ # <<>>
  /\ pool_' = Tail(pool_)
  /\ LET c == Head(pool_) IN
       /\ Open(c)
       /\ inbox' = Sent(Local(c), "OPEN", session[Local(c)] + 1)
  /\ UNCHANGED <<nextChannelId_, link, handling, unread, drain, closing, failures>>

(* openDataChannel with an empty pool: openNewChannel_ asks for a data      *)
(* channel with the next id.  (An id in use is refused, and the request has *)
(* changed nothing.)                                                        *)
OpenNew ==
  /\ pool_ = <<>>
  /\ nextChannelId_ < MaxChannels
  /\ nextChannelId_' = nextChannelId_ + 1
  /\ link[Local(nextChannelId_')] = "none"
  /\ link' = [link EXCEPT ![Local(nextChannelId_')] = "opening"]
  /\ UNCHANGED <<pool_, state_, inbox, handling, unread, drain, closing, session, failures>>

(* The data channel is refused after all: the last id is taken back. *)
OpenNewFails(c) ==
  /\ failures < MaxFailures
  /\ link[Local(c)] = "opening"
  /\ link[Remote(c)] = "none"
  /\ link' = [link EXCEPT ![Local(c)] = "none"]
  /\ nextChannelId_' = nextChannelId_ - 1
  /\ failures' = failures + 1
  /\ UNCHANGED <<pool_, state_, inbox, handling, unread, drain, closing, session>>

(* The new data channel is open: it gets its PoolChannel, whose constructor *)
(* resets it, and is opened.                                                *)
NewOpened(c) ==
  /\ link[Local(c)] = "opening"
  /\ link' = [link EXCEPT ![Local(c)] = "open"]
  /\ handling' = [handling EXCEPT ![Local(c)] = TRUE]
  /\ Open(c)
  /\ inbox' = Passed(Local(c), "OPEN", 1)
  /\ UNCHANGED <<nextChannelId_, pool_, unread, drain, closing, failures>>

-----------------------------------------------------------------------------
(* RemotePool *)

(* onNewChannel_: the peer's channel is open here too and gets its          *)
(* PoolChannel, with the messages that came before it still queued.         *)
PeerOpened(c) ==
  /\ link[Local(c)] \in {"opening", "open"}
  /\ link[Remote(c)] = "none"
  /\ link' = [link EXCEPT ![Remote(c)] = "open"]
  /\ state_' = [state_ EXCEPT ![Remote(c)] = "CLOSED"]
  /\ handling' = [handling EXCEPT ![Remote(c)] = TRUE]
  /\ UNCHANGED <<nextChannelId_, pool_, inbox, unread, drain, closing, session, failures>>

-----------------------------------------------------------------------------
(* PoolChannel *)

(* send() by the user of an open channel. *)
Send(e) ==
  /\ state_[e] = "OPEN"
  /\ link[e] = "open"
  /\ Len(inbox[Peer(e)]) + Len(unread[Peer(e)]) < MaxData
  /\ inbox' = Passed(e, "data", session[e])
  /\ UNCHANGED <<nextChannelId_, pool_, link, state_, handling, unread, drain, closing,
                 session, failures>>

(* close() by the user; in any other state it is ignored. *)
Close(e) ==
  /\ state_[e] = "OPEN"
  /\ state_' = [state_ EXCEPT ![e] = "CLOSING"]
  /\ inbox' = Sent(e, "CLOSE", session[e])
  /\ UNCHANGED <<nextChannelId_, pool_, link, handling, unread, drain, closing, session,
                 failures>>

(* onDataFromPeer_ takes the next message. *)
Receives(e, type) ==
  /\ handling[e]
  /\ inbox[e] # <<>>
  /\ Head(inbox[e]).type = type
  /\ inbox' = [inbox EXCEPT ![e] = Tail(@)]

ReceiveData(e) ==
  /\ Receives(e, "data")
  /\ unread' = [unread EXCEPT ![e] = Append(@, Head(inbox[e]).session)]
  /\ UNCHANGED <<nextChannelId_, pool_, link, state_, handling, drain, closing, session,
                 failures>>

(* OPEN opens the channel.  (When the channel is closing the code waits for *)
(* onceClosed, and it ignores an OPEN when the channel is gone;             *)
(* ControlInOrder: neither happens.)                                        *)
ReceiveOpen(e) ==
  /\ Receives(e, "OPEN")
  /\ state_' = [state_ EXCEPT ![e] = "OPEN"]
  /\ session' = [session EXCEPT ![e] = @ + 1]
  /\ UNCHANGED <<nextChannelId_, pool_, link, handling, unread, drain, closing, failures>>

(* CLOSE stops the handling of messages until the channel is reset.  When   *)
(* this end has not closed the channel it drains its data and answers;      *)
(* when it has, both ends are done.  (ControlInOrder: the channel is not    *)
(* closed already, when the code ignores the message.)                      *)
ReceiveClose(e) ==
  /\ Receives(e, "CLOSE")
  /\ handling' = [handling EXCEPT ![e] = FALSE]
  /\ \/ /\ state_[e] = "OPEN"
        /\ state_' = [state_ EXCEPT ![e] = "CLOSING"]
        /\ drain' = [drain EXCEPT ![e] = "waiting"]
        /\ UNCHANGED closing
     \/ /\ state_[e] = "CLOSING"
        /\ state_' = [state_ EXCEPT ![e] = "CLOSED"]
        /\ closing' = [closing EXCEPT ![e] = TRUE]
        /\ UNCHANGED drain
  /\ UNCHANGED <<nextChannelId_, pool_, link, unread, session, failures>>

(* The user handles a message: dataFromPeerQueue. *)
HandleData(e) ==
  /\ unread[e] # <<>>
  /\ unread' = [unread EXCEPT ![e] = Tail(@)]
  /\ UNCHANGED <<nextChannelId_, pool_, link, state_, inbox, handling, drain, closing,
                 session, failures>>

(* Mutant: the close is not acknowledged. *)
SendAck_silent(e) ==
  /\ drain[e] = "waiting"
  /\ unread[e] = <<>>
  /\ drain' = [drain EXCEPT ![e] = "acked"]
  /\ UNCHANGED <<nextChannelId_, pool_, link, state_, inbox, handling, unread, closing,
                 session, failures>>

(* lastDataFromPeerHandled_ is fulfilled: the close is acknowledged. *)
SendAck(e) ==
  /\ drain[e] = "waiting"
  /\ unread[e] = <<>>
  /\ drain' = [drain EXCEPT ![e] = "acked"]
  /\ inbox' = Sent(e, "CLOSE", session[e])
  /\ UNCHANGED <<nextChannelId_, pool_, link, state_, handling, unread, closing, session,
                 failures>>

(* The acknowledgement has been passed to the browser. *)
AckSent(e) ==
  /\ drain[e] = "acked"
  /\ drain' = [drain EXCEPT ![e] = "no"]
  /\ IF state_[e] = "PERMANENTLY_CLOSED"
     THEN UNCHANGED <<state_, closing>>
     ELSE /\ state_' = [state_ EXCEPT ![e] = "CLOSED"]
          /\ closing' = [closing EXCEPT ![e] = TRUE]
  /\ UNCHANGED <<nextChannelId_, pool_, link, inbox, handling, unread, session, failures>>

(* Mutant: a channel that could not be reset is returned to the pool. *)
OnClosed_unchecked(e) ==
  /\ closing[e]
  /\ closing' = [closing EXCEPT ![e] = FALSE]
  /\ IF state_[e] = "CLOSED"
     THEN /\ handling' = [handling EXCEPT ![e] = TRUE]
          /\ unread' = [unread EXCEPT ![e] = <<>>]
     ELSE UNCHANGED <<handling, unread>>
  /\ pool_' = IF e[1] = "local" THEN Append(pool_, e[2]) ELSE pool_
  /\ UNCHANGED <<nextChannelId_, link, state_, inbox, drain, session, failures>>

(* Mutant: the old dataFromPeerQueue serves the next session too. *)
OnClosed_keepsQueue(e) ==
  /\ closing[e]
  /\ closing' = [closing EXCEPT ![e] = FALSE]
  /\ IF state_[e] = "CLOSED"
     THEN /\ handling' = [handling EXCEPT ![e] = TRUE]
          /\ pool_' = IF e[1] = "local" THEN Append(pool_, e[2]) ELSE pool_
     ELSE UNCHANGED <<handling, pool_>>
  /\ UNCHANGED <<nextChannelId_, link, state_, inbox, unread, drain, session, failures>>

(* The callback of onceClosed: reset(), which fails unless the channel is   *)
(* CLOSED; the local pool takes the channel back, the remote one listens    *)
(* for the next OPEN.                                                       *)
OnClosed(e) ==
  /\ closing[e]
  /\ closing' = [closing EXCEPT ![e] = FALSE]
  /\ IF state_[e] = "CLOSED"
     THEN /\ handling' = [handling EXCEPT ![e] = TRUE]
          /\ unread' = [unread EXCEPT ![e] = <<>>]
          /\ pool_' = IF e[1] = "local" THEN Append(pool_, e[2]) ELSE pool_
     ELSE UNCHANGED <<handling, unread, pool_>>
  /\ UNCHANGED <<nextChannelId_, link, state_, inbox, drain, session, failures>>

-----------------------------------------------------------------------------
(* The data channel of end e closes.  What is still on its way is lost, and *)
(* what is queued is never handled again, as reset() fails from now on.     *)
LinkClosed(e) ==
  /\ link[e] \in {"opening", "open"}
  /\ link' = [link EXCEPT ![e] = "closed"]
  /\ inbox' = [inbox EXCEPT ![e] = <<>>]
  /\ IF link[e] = "open"
     THEN /\ state_' = [state_ EXCEPT ![e] = "PERMANENTLY_CLOSED"]
          /\ closing' = [closing EXCEPT ![e] = TRUE]
     ELSE UNCHANGED <<state_, closing>>
  /\ UNCHANGED <<nextChannelId_, pool_, handling, unread, drain, session>>

LinkFails(e) ==
  /\ failures < MaxFailures
  /\ link[Peer(e)] # "closed"
  /\ LinkClosed(e)
  /\ failures' = failures + 1

LinkFollows(e) ==
  /\ link[Peer(e)] = "closed"
  /\ LinkClosed(e)
  /\ UNCHANGED failures

(* What an end does of itself: everything but the calls of its user. *)
EndStep(e) ==
  \/ ReceiveData(e) \/ ReceiveOpen(e) \/ ReceiveClose(e)
  \/ SendAck(e) \/ AckSent(e) \/ OnClosed(e) \/ LinkFollows(e)

Next ==
  \/ Reuse \/ OpenNew
  \/ \E c \in Chan : NewOpened(c) \/ OpenNewFails(c) \/ PeerOpened(c)
  \/ \E e \in End : EndStep(e) \/ Send(e) \/ Close(e) \/ HandleData(e) \/ LinkFails(e)

Spec == Init /\ [][Next]_vars

(* The event loop of each end runs on, data channels open or fail, and      *)
(* users handle the data they are given.  Nothing obliges a user to open,   *)
(* to send or to close.                                                     *)
Fairness ==
  /\ \A e \in End : WF_vars(EndStep(e)) /\ WF_vars(HandleData(e))
  /\ \A c \in Chan : WF_vars(NewOpened(c)) /\ WF_vars(PeerOpened(c))

FairSpec == Spec /\ Fairness

-----------------------------------------------------------------------------
InPool(c) == \E i \in 1..Len(pool_) : pool_[i] = c
Alive(c) == link[Local(c)] # "closed" /\ link[Remote(c)] # "closed"

(* "Stop handling messages immediately, so that a pending OPEN is not       *)
(* processed until after a call to reset()": no end ever meets an OPEN      *)
(* while it is open or closing ("should be queued!", "redundant open"), nor *)
(* a CLOSE when it is closed ("redundant close").                           *)
ControlInOrder ==
  \A e \in End :
    handling[e] /\ inbox[e] # <<>> =>
      CASE Head(inbox[e]).type = "OPEN"  -> state_[e] = "CLOSED"
        [] Head(inbox[e]).type = "CLOSE" -> state_[e] \in {"OPEN", "CLOSING"}
        [] OTHER                         -> state_[e] \in {"OPEN", "CLOSING"}

(* A channel that is used again is as good as new: what an end is given, it *)
(* is given in the session in which its peer sent it.                       *)
NoCrossTalk ==
  \A e \in End :
    /\ \A i \in 1..Len(unread[e]) : unread[e][i] = session[e]
    /\ handling[e] /\ inbox[e] # <<>> =>
         Head(inbox[e]).session =
           session[e] + (IF Head(inbox[e]).type = "OPEN" THEN 1 ELSE 0)

(* LocalPool.pool_: a channel in the pool is there once, nobody uses it,    *)
(* and no close of it is under way.                                         *)
PoolIsFree ==
  /\ \A i, j \in 1..Len(pool_) : pool_[i] = pool_[j] => i = j
  /\ \A i \in 1..Len(pool_) :
       LET e == Local(pool_[i]) IN
         /\ state_[e] \in {"CLOSED", "PERMANENTLY_CLOSED"}
         /\ drain[e] = "no"
         /\ state_[e] = "CLOSED" => handling[e] /\ unread[e] = <<>> /\ ~closing[e]

(* The pool "makes new channels as needed when the pool runs dry": the next *)
(* id is not that of another channel.                                       *)
NextIdIsFree ==
  nextChannelId_ < MaxChannels => link[Local(nextChannelId_ + 1)] = "none"

(* A channel in the pool has been closed by both ends: the remote end has   *)
(* seen every session, or has but to see the CLOSE of the last one.         *)
EndsAgree ==
  \A c \in Chan : Alive(c) =>
    /\ session[Local(c)] - 1 <= session[Remote(c)]
    /\ session[Remote(c)] <= session[Local(c)]
    /\ state_[Local(c)] = "CLOSED" => session[Remote(c)] = session[Local(c)]
                                      /\ state_[Remote(c)] # "OPEN"

(* Simultaneous closes, lost channels and late data leave the sessions of a *)
(* channel in step and apart, in both directions.                           *)
SessionsKept == TypeOK /\ ControlInOrder /\ NoCrossTalk /\ EndsAgree

(* A channel its user or the peer has closed returns to the pool, and the   *)
(* remote end listens again, unless the data channel is lost.               *)
ClosedIsReturned ==
  \A c \in Chan :
    /\ state_[Local(c)] = "CLOSING" ~> InPool(c) \/ ~Alive(c)
    /\ state_[Remote(c)] = "CLOSING" ~>
         (state_[Remote(c)] = "CLOSED" /\ handling[Remote(c)]) \/ ~Alive(c)

-----------------------------------------------------------------------------
(* The inductive invariant behind the safety properties.  The sessions of a *)
(* channel are counted in phases: 2k-1 while session k is open, 2k once it  *)
(* is closed.  PhaseSent is the phase an end has told its peer, PhaseSeen   *)
(* the one it knows of its peer.  An OPEN or CLOSE is the step to the next  *)
(* phase, data stay in the phase they were sent in.                         *)
GotClose(e) ==
  state_[e] \in {"none", "CLOSED"} \/ (state_[e] = "CLOSING" /\ drain[e] # "no")
SentClose(e) ==
  state_[e] \in {"none", "CLOSED"} \/ (state_[e] = "CLOSING" /\ drain[e] # "waiting")

PhaseSeen(e) == IF GotClose(e) THEN 2 * session[e] ELSE 2 * session[e] - 1
PhaseSent(e) == IF SentClose(e) THEN 2 * session[e] ELSE 2 * session[e] - 1
PhaseOf(m) == IF m.type = "CLOSE" THEN 2 * m.session ELSE 2 * m.session - 1

(* The messages q lead on from phase n, message by message, ... *)
Leads(q, n) ==
  /\ \A i \in 1..Len(q) :
       PhaseOf(q[i]) = (IF i = 1 THEN n ELSE PhaseOf(q[i - 1]))
                         + (IF q[i].type = "data" THEN 0 ELSE 1)
  /\ \A i, j \in 1..Len(q) : i <= j => PhaseOf(q[i]) <= PhaseOf(q[j])

(* ... to this phase. *)
LeadsTo(q, n) == IF q = <<>> THEN n ELSE PhaseOf(q[Len(q)])

(* The messages under way lead on from what the end has seen; only the      *)
(* local end sends OPEN.                                                    *)
StreamInv(e) ==
  /\ IF link[e] = "closed" THEN inbox[e] = <<>> ELSE Leads(inbox[e], PhaseSeen(e))
  /\ e[1] = "local" => \A i \in 1..Len(inbox[e]) : inbox[e][i].type # "OPEN"

(* They lead to what the peer has sent.  The remote end opens a session on  *)
(* an OPEN only, the local end on its own: it may be one phase ahead.       *)
FlowInv(e) ==
  link[e] # "closed" /\ link[Peer(e)] # "closed" =>
    \/ LeadsTo(inbox[e], PhaseSeen(e)) = PhaseSent(Peer(e))
    \/ /\ e[1] = "local" /\ inbox[e] = <<>> /\ ~GotClose(e)
       /\ PhaseSeen(e) = PhaseSent(Peer(e)) + 1

(* When an end handles messages, and what a closed channel has left over. *)
EndInv(e) ==
  /\ link[e] = "open" =>
       /\ state_[e] = "OPEN" => handling[e] /\ drain[e] = "no" /\ ~closing[e]
       /\ state_[e] = "CLOSING" => (handling[e] <=> drain[e] = "no") /\ ~closing[e]
       /\ state_[e] = "CLOSED" => (handling[e] <=> ~closing[e]) /\ drain[e] = "no"
       /\ state_[e] \notin {"none", "PERMANENTLY_CLOSED"}
  /\ link[e] = "closed" =>
       /\ state_[e] # "CLOSED"
       /\ drain[e] # "no" => state_[e] = "PERMANENTLY_CLOSED"
  /\ link[e] \in {"none", "opening"} =>
       /\ state_[e] = "none" /\ session[e] = 0 /\ ~handling[e] /\ unread[e] = <<>>
       /\ drain[e] = "no" /\ ~closing[e]
  /\ link[e] = "open" /\ state_[e] \in {"OPEN", "CLOSING"} => session[e] > 0
  /\ \A i \in 1..Len(unread[e]) : unread[e][i] = session[e]
  /\ state_[e] = "CLOSED" /\ handling[e] => unread[e] = <<>>

(* An end whose channel is in the pool. *)
Idle(e) ==
  /\ state_[e] \in {"CLOSED", "PERMANENTLY_CLOSED"}
  /\ handling[e] /\ drain[e] = "no" /\ unread[e] = <<>>
  /\ state_[e] = "CLOSED" => ~closing[e]

PoolInv ==
  /\ \A i, j \in 1..Len(pool_) : pool_[i] = pool_[j] => i = j
  /\ \A i \in 1..Len(pool_) : Idle(Local(pool_[i]))

(* nextChannelId_ counts the channels (but is not the last id: NextIdIsFree). *)
InUse == {c \in Chan : link[Local(c)] # "none"}
IdInv == nextChannelId_ = Cardinality(InUse)

IndInv ==
  /\ TypeOK
  /\ \A e \in End : StreamInv(e) /\ FlowInv(e) /\ EndInv(e)
  /\ PoolInv
  /\ IdInv
=============================================================================
