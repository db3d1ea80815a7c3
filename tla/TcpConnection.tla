--------------------------- MODULE TcpConnection ---------------------------
(***************************************************************************)
(* src/lib/net/tcp.ts, class Connection, with src/lib/net/counter.ts: one   *)
(* TCP connection over a socket of freedom, whose provider is destroyed     *)
(* when the socket has disconnected and all calls of it are answered.       *)
(*                                                                          *)
(* `calls' are the calls of the socket that the counter wraps and that are  *)
(* not answered yet; `notices' the onDisconnect events on their way.  An    *)
(* answer and what its promises do at once are one action, the promises in  *)
(* the order of their chains.  pause() and resume() only pass the call on,  *)
(* and data may still arrive before a pause takes effect: they are left     *)
(* out.  The state ERROR is that of a constructor called with neither or    *)
(* both arguments, which no caller does.                                    *)
(***************************************************************************)
EXTENDS Integers, Sequences, FiniteSets

CONSTANTS
  Kind,      \* how the connection is made: "endpoint", "existingSocketId"
  MayThrow,  \* the destructor may throw
  MaxSends,  \* bound: calls of send() and receiveNext()
  MaxData    \* bound: packets that arrive

ASSUME TcpConnectionAssumption ==
  /\ Kind \subseteq {"endpoint", "existingSocketId"}
  /\ MayThrow \in BOOLEAN
  /\ MaxSends \in Nat
  /\ MaxData \in Nat

VARIABLES
  state_,         \* CONNECTING, CONNECTED, CLOSING, CLOSED
  onceConnected,
  onceClosed,     \* pending, or the SocketCloseKind
  counter_,       \* calls of the socket to be answered, less one if it is discarded
  destroyed,      \* calls of the destructor (model only)
  reason,         \* the kind of close that fulfills onceClosed once destroyed, or none
  calls,          \* the wrapped calls of the socket in progress
  toSocket,       \* length of dataToSocketQueue
  writing,        \* it has a handler
  fromSocket,     \* length of dataFromSocketQueue
  hearing,        \* onData is heard
  receive,        \* the last receiveNext(): no, waiting, got, aborted
  socket,         \* the socket: connecting, open, gone
  notices,        \* its onDisconnect events on their way
  arrived,        \* packets that have arrived (model only)
  asked           \* calls of send() and receiveNext() (model only)

vars == <<state_, onceConnected, onceClosed, counter_, destroyed, reason, calls, toSocket,
          writing, fromSocket, hearing, receive, socket, notices, arrived, asked>>
counting == <<counter_, destroyed, reason, calls>>
promises == <<onceConnected, onceClosed>>
sending == <<toSocket, writing>>
receiving == <<fromSocket, hearing, receive>>
external == <<socket, notices>>
bounds == <<arrived, asked>>

SocketCloseKind == {"NEVER_CONNECTED", "WE_CLOSED_IT", "REMOTELY_CLOSED", "UNKOWN"}
Call == {"connect", "getInfo", "close"}

TypeOK ==
  /\ state_ \in {"CONNECTING", "CONNECTED", "CLOSING", "CLOSED"}
  /\ onceConnected \in {"pending", "fulfilled", "rejected"}
  /\ onceClosed \in SocketCloseKind \cup {"pending"}
  /\ counter_ \in Int
  /\ destroyed \in Nat
  /\ reason \in SocketCloseKind \cup {"none"}
  /\ calls \in SUBSET Call
  /\ toSocket \in Nat
  /\ writing \in BOOLEAN
  /\ fromSocket \in Nat
  /\ hearing \in BOOLEAN
  /\ receive \in {"no", "waiting", "got", "aborted"}
  /\ socket \in {"connecting", "open", "gone"}
  /\ notices \in Seq(SocketCloseKind)
  /\ arrived \in 0..MaxData
  /\ asked \in 0..MaxSends

(* The constructor: connect() to an endpoint, getInfo() of a socket that is *)
(* there.                                                                   *)
Init ==
  /\ \E kind \in Kind :
       IF kind = "endpoint"
       THEN state_ = "CONNECTING" /\ calls = {"connect"} /\ socket = "connecting"
       ELSE state_ = "CONNECTED" /\ calls = {"getInfo"} /\ socket = "open"
  /\ onceConnected = "pending"
  /\ onceClosed = "pending"
  /\ counter_ = 1
  /\ destroyed = 0
  /\ reason = "none"
  /\ toSocket = 0
  /\ writing = FALSE
  /\ fromSocket = 0
  /\ hearing = TRUE
  /\ receive = "no"
  /\ notices = <<>>
  /\ arrived = 0
  /\ asked = 0
-----------------------------------------------------------------------------
(* Counter *)

(* after_: the provider is destroyed when the counter falls below zero, and *)
(* onceClosed is fulfilled for the reason the disconnection had, unless the *)
(* destructor throws.  A call that failed then may do it itself.            *)
After(why, failure) ==
  /\ counter_' = counter_ - 1
  /\ IF counter_ - 1 < 0
     THEN /\ destroyed' = destroyed + 1
          /\ \E thrown \in {FALSE, MayThrow} :
               onceClosed' =
                 IF onceClosed # "pending" THEN onceClosed
                 ELSE IF why # "none" /\ ~thrown THEN why ELSE failure
     ELSE /\ onceClosed' = IF onceClosed = "pending" THEN failure ELSE onceClosed
          /\ UNCHANGED destroyed

(* A receiver hears of it when onceClosed is fulfilled: no data wait while  *)
(* it does.                                                                 *)
AbortReceive ==
  receive' = IF receive = "waiting" /\ onceClosed' # "pending" /\ fromSocket = 0
             THEN "aborted" ELSE receive
-----------------------------------------------------------------------------
(* Connecting *)

(* connect() has succeeded; pause(), and getInfo() in the same wrapped call. *)
Connected ==
  /\ "connect" \in calls
  /\ socket = "open"
  /\ calls' = (calls \ {"connect"}) \cup {"getInfo"}
  /\ UNCHANGED <<state_, promises, counter_, destroyed, reason, sending, receiving, external,
                 bounds>>

(* Mutant: a connection that is closing becomes connected. *)
GotInfo_overwrites ==
  /\ "getInfo" \in calls
  /\ calls' = calls \ {"getInfo"}
  /\ After(reason, "pending")
  /\ onceConnected' = "fulfilled"
  /\ state_' = "CONNECTED"
  /\ writing' = TRUE
  /\ toSocket' = 0
  /\ AbortReceive
  /\ UNCHANGED <<reason, fromSocket, hearing, external, bounds>>

(* onceConnected is fulfilled: what waits is written. *)
GotInfo ==
  /\ "getInfo" \in calls
  /\ calls' = calls \ {"getInfo"}
  /\ After(reason, "pending")
  /\ onceConnected' = "fulfilled"
  /\ state_' = IF state_ = "CONNECTING" THEN "CONNECTED" ELSE state_
  /\ writing' = TRUE
  /\ toSocket' = 0
  /\ AbortReceive
  /\ UNCHANGED <<reason, fromSocket, hearing, external, bounds>>

(* onceConnected is rejected, with onceClosed fulfilled as NEVER_CONNECTED. *)
ConnectFails(call) ==
  /\ call \in calls
  /\ socket = "gone"
  /\ calls' = calls \ {call}
  /\ After(reason, "NEVER_CONNECTED")
  /\ onceConnected' = "rejected"
  /\ AbortReceive
  /\ UNCHANGED <<state_, reason, sending, fromSocket, hearing, external, bounds>>
-----------------------------------------------------------------------------
(* Sending and receiving *)

send ==
  /\ asked < MaxSends
  /\ asked' = asked + 1
  /\ toSocket' = IF writing THEN toSocket ELSE toSocket + 1
  /\ UNCHANGED <<state_, promises, counting, writing, receiving, external, arrived>>

(* The next packet is taken, waited for, or not to come. *)
receiveNext ==
  /\ asked < MaxSends
  /\ asked' = asked + 1
  /\ IF fromSocket > 0
     THEN receive' = "got" /\ fromSocket' = fromSocket - 1
     ELSE /\ receive' = IF onceClosed = "pending" THEN "waiting" ELSE "aborted"
          /\ UNCHANGED fromSocket
  /\ UNCHANGED <<state_, promises, counting, sending, hearing, external, arrived>>

(* A packet goes to the receiver that waits, or into the queue. *)
onData_ ==
  /\ hearing
  /\ socket = "open"
  /\ arrived < MaxData
  /\ arrived' = arrived + 1
  /\ IF receive = "waiting"
     THEN receive' = "got" /\ UNCHANGED fromSocket
     ELSE fromSocket' = fromSocket + 1 /\ UNCHANGED receive
  /\ UNCHANGED <<state_, promises, counting, sending, hearing, external, asked>>
-----------------------------------------------------------------------------
(* Closing *)

(* Mutant: an event after the close is handled once more. *)
onDisconnectHandler_repeats ==
  /\ notices # <<>>
  /\ notices' = Tail(notices)
  /\ state_' = "CLOSED"
  /\ reason' = Head(notices)
  /\ After(Head(notices), "pending")
  /\ writing' = FALSE
  /\ toSocket' = 0
  /\ AbortReceive
  /\ UNCHANGED <<onceConnected, calls, fromSocket, hearing, socket, bounds>>

onDisconnectHandler_ ==
  /\ notices # <<>>
  /\ notices' = Tail(notices)
  /\ state_ # "CLOSED"
  /\ state_' = "CLOSED"
  /\ reason' = Head(notices)
  /\ After(Head(notices), "pending")
  /\ writing' = FALSE
  /\ toSocket' = 0
  /\ AbortReceive
  /\ UNCHANGED <<onceConnected, calls, fromSocket, hearing, socket, bounds>>

(* "Got onDisconnect in closed state" *)
DisconnectedTwice ==
  /\ notices # <<>>
  /\ state_ = "CLOSED"
  /\ notices' = Tail(notices)
  /\ UNCHANGED <<state_, promises, counting, sending, receiving, socket, bounds>>

(* close(): the socket is told to close, and receivers hear nothing more.   *)
(* A socket that is gone may tell so again.                                 *)
close ==
  /\ state_ \in {"CONNECTING", "CONNECTED"}
  /\ state_' = "CLOSING"
  /\ hearing' = FALSE
  /\ fromSocket' = 0
  /\ receive' = IF receive = "waiting" THEN "aborted" ELSE receive
  /\ counter_' = counter_ + 1
  /\ calls' = calls \cup {"close"}
  /\ socket' = "gone"
  /\ \/ notices' = Append(notices, "WE_CLOSED_IT")
     \/ socket # "open" /\ UNCHANGED notices
  /\ UNCHANGED <<promises, destroyed, reason, sending, bounds>>

(* Mutant: the answer of close() is not counted. *)
CloseAnswered_uncounted ==
  /\ "close" \in calls
  /\ calls' = calls \ {"close"}
  /\ UNCHANGED <<counter_, destroyed, onceClosed>>
  /\ AbortReceive
  /\ UNCHANGED <<state_, onceConnected, reason, sending, fromSocket, hearing, external, bounds>>

CloseAnswered ==
  /\ "close" \in calls
  /\ calls' = calls \ {"close"}
  /\ After(reason, "pending")
  /\ AbortReceive
  /\ UNCHANGED <<state_, onceConnected, reason, sending, fromSocket, hearing, external, bounds>>
-----------------------------------------------------------------------------
(* The socket: external. *)
SocketConnects ==
  /\ socket = "connecting"
  /\ socket' = "open"
  /\ UNCHANGED <<state_, promises, counting, sending, receiving, notices, bounds>>

(* It cannot connect, and may or may not say that it is disconnected. *)
SocketRefused ==
  /\ socket = "connecting"
  /\ socket' = "gone"
  /\ notices' \in {notices, Append(notices, "UNKOWN")}
  /\ UNCHANGED <<state_, promises, counting, sending, receiving, bounds>>

SocketDisconnects ==
  /\ socket = "open"
  /\ socket' = "gone"
  /\ \E kind \in {"REMOTELY_CLOSED", "UNKOWN"} : notices' = Append(notices, kind)
  /\ UNCHANGED <<state_, promises, counting, sending, receiving, bounds>>

Answer ==
  \/ Connected \/ GotInfo \/ CloseAnswered
  \/ ConnectFails("connect") \/ ConnectFails("getInfo")
Disconnect == onDisconnectHandler_ \/ DisconnectedTwice

Next ==
  \/ Answer \/ Disconnect
  \/ send \/ receiveNext \/ onData_ \/ close
  \/ SocketConnects \/ SocketRefused \/ SocketDisconnects

Spec == Init /\ [][Next]_vars

(* Calls are answered and events delivered; a socket that connects succeeds *)
(* or fails in the end.                                                     *)
Fairness ==
  WF_vars(Answer) /\ WF_vars(Disconnect) /\ WF_vars(SocketConnects \/ SocketRefused)

FairSpec == Spec /\ Fairness
-----------------------------------------------------------------------------
(* Counter: "safely destroying freedomjs providers, which may emit          *)
(* disconnect notifications before all outstanding calls have resolved":    *)
(* the provider is destroyed once, with no call of it in progress, and only *)
(* after its socket has disconnected.                                       *)
DestroyedIdle ==
  destroyed # 0 => destroyed = 1 /\ calls = {} /\ state_ = "CLOSED"

(* "Once we are connected, we start sending data to the underlying socket": *)
(* nothing waits in an open connection.                                     *)
ConnectedSends ==
  onceConnected = "fulfilled" /\ state_ # "CLOSED" => writing /\ toSocket = 0

(* Both, and the types, with calls of the socket unanswered in any order.    *)
SocketTended == TypeOK /\ DestroyedIdle /\ ConnectedSends

(* "CLOSED // Cannot change state": late answers bring no connection back. *)
Rank == [s \in {"CONNECTING", "CONNECTED", "CLOSING", "CLOSED"} |->
           CASE s = "CONNECTING" -> 0 [] s = "CONNECTED" -> 1 [] s = "CLOSING" -> 2
             [] s = "CLOSED" -> 3]
NeverBack == [][Rank[state_] <= Rank[state_']]_vars

(* Whoever waits for a connection that closes, for its end or for data,     *)
(* hears of it.                                                             *)
ClosedIsTold ==
  state_ \in {"CLOSING", "CLOSED"} ~> onceClosed # "pending" /\ receive # "waiting"
=============================================================================
