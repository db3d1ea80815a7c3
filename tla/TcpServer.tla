-------------------------------- MODULE TcpServer -------------------------------
(* A listening socket and the connections it accepted (lib/net/tcp.ts, class   *)
(* Server, with lib/net/counter.ts).  The socket of freedom is external: it    *)
(* answers later, its calls in their order, and tells of connections and of    *)
(* its end by events, none of a connection after it answered its close.        *)
EXTENDS Integers, FiniteSets

CONSTANTS
  Conn,             \* the connections clients make
  maxConnections_

VARIABLES
  socket,           \* "new", "listening", "gone"
  calls,            \* the wrapped calls of the socket not yet answered
  counter_, destroyed,
  notice,           \* an onDisconnect on its way, and whether it says SUCCESS
  disconnected,     \* what the handled onDisconnect said
  onceListening_, onceShutdown_,
  connections_,
  queued,           \* connectionsQueue
  stop,             \* of shutdown(): not called, stopping to listen, closing all, done
  closing           \* the connections closeAll waits for

vars == <<socket, calls, counter_, destroyed, notice, disconnected, onceListening_,
          onceShutdown_, connections_, queued, stop, closing>>

TypeOK ==
  /\ socket \in {"new", "listening", "gone"}
  /\ calls \subseteq {"listen", "close"}
  /\ counter_ \in -1..2 /\ destroyed \in 0..1
  /\ {notice, disconnected} \subseteq {"none", "SUCCESS", "other"}
  /\ onceListening_ \in {"unset", "pending", "fulfilled", "rejected"}
  /\ onceShutdown_ \in {"pending", "NEVER_CONNECTED", "WE_CLOSED_IT", "UNKOWN"}
  /\ {connections_, queued, closing} \subseteq SUBSET Conn
  /\ stop \in {"no", "stopping", "closing", "done"}

Init ==
  /\ socket = "new" /\ calls = {} /\ counter_ = 0 /\ destroyed = 0
  /\ notice = "none" /\ disconnected = "none"
  /\ onceListening_ = "unset" /\ onceShutdown_ = "pending"
  /\ connections_ = {} /\ queued = {}
  /\ stop = "no" /\ closing = {}

(* Counter.wrap: the call counts before it is made. *)
Call(c) == calls' = calls \cup {c} /\ counter_' = counter_ + 1

(* Counter.after_: the socket is destroyed below zero, and the end the         *)
(* disconnection named is told.                                                *)
After(told) ==
  /\ counter_' = counter_ - 1
  /\ destroyed' = destroyed + (IF counter_ = 0 THEN 1 ELSE 0)
  /\ onceShutdown_' =
       IF counter_ = 0 /\ onceShutdown_ = "pending"
       THEN IF told = "SUCCESS" THEN "WE_CLOSED_IT" ELSE "UNKOWN"
       ELSE onceShutdown_

listen ==
  /\ onceListening_ = "unset" /\ socket = "new" /\ stop = "no"
  /\ Call("listen") /\ onceListening_' = "pending"
  /\ UNCHANGED <<socket, destroyed, notice, disconnected, onceShutdown_, connections_, queued,
                 stop, closing>>

(* listen and getInfo are answered; a refusal also ends the server at once,    *)
(* though its socket is not destroyed.                                         *)
Listened ==
  /\ "listen" \in calls
  /\ calls' = calls \ {"listen"}
  /\ counter_' = counter_ - 1 /\ destroyed' = destroyed + (IF counter_ = 0 THEN 1 ELSE 0)
  /\ \/ /\ socket = "new" /\ socket' = "listening"
        /\ onceListening_' = "fulfilled"
        /\ UNCHANGED onceShutdown_
     \/ /\ onceListening_' = "rejected"
        /\ onceShutdown_' = IF onceShutdown_ # "pending" THEN onceShutdown_
                            ELSE IF counter_ = 0 THEN "UNKOWN" ELSE "NEVER_CONNECTED"
        /\ UNCHANGED socket
  /\ UNCHANGED <<notice, disconnected, connections_, queued, stop, closing>>

(* onConnectionHandler_: refused at the limit, else kept and queued. *)
onConnectionHandler_(c) ==
  /\ socket = "listening" /\ c \notin queued
  /\ IF Cardinality(connections_) >= maxConnections_
     THEN UNCHANGED <<connections_, queued>>
     ELSE connections_' = connections_ \cup {c} /\ queued' = queued \cup {c}
  /\ UNCHANGED <<socket, calls, counter_, destroyed, notice, disconnected, onceListening_,
                 onceShutdown_, stop, closing>>

(* A connection is closed, by its client or by closeAll: it is forgotten, and  *)
(* closeAll waits for one less.                                                *)
Discard(c) ==
  /\ c \in connections_
  /\ connections_' = connections_ \ {c} /\ closing' = closing \ {c}
  /\ UNCHANGED <<socket, calls, counter_, destroyed, notice, disconnected, onceListening_,
                 onceShutdown_, queued, stop>>

(* Mutant: all connections are closed while the socket still listens. *)
stopListening_after ==
  /\ stop = "no" /\ destroyed = 0 /\ onceListening_ # "unset"
  /\ Call("close") /\ stop' = "closing" /\ closing' = connections_
  /\ UNCHANGED <<socket, destroyed, notice, disconnected, onceListening_, onceShutdown_,
                 connections_, queued>>

(* shutdown: stopListening, and closeAll once it has.  What a socket that was  *)
(* destroyed answers is not known: a shutdown after that is left out.          *)
stopListening ==
  /\ stop = "no" /\ destroyed = 0 /\ onceListening_ # "unset"
  /\ Call("close") /\ stop' = "stopping"
  /\ UNCHANGED <<socket, destroyed, notice, disconnected, onceListening_, onceShutdown_,
                 connections_, queued, closing>>

(* The socket is closed: it answers, and tells of its end. *)
Closed ==
  /\ "close" \in calls /\ "listen" \notin calls
  /\ calls' = calls \ {"close"} /\ After(disconnected)
  /\ IF socket = "listening" THEN socket' = "gone" /\ notice' = "SUCCESS"
     ELSE UNCHANGED <<socket, notice>>
  /\ stop' = "closing" /\ closing' = connections_
  /\ UNCHANGED <<disconnected, onceListening_, connections_, queued>>

closeAll ==
  /\ stop = "closing" /\ closing = {}
  /\ stop' = "done"
  /\ UNCHANGED <<socket, calls, counter_, destroyed, notice, disconnected, onceListening_,
                 onceShutdown_, connections_, queued, closing>>

(* The socket ends by itself. *)
Breaks ==
  /\ socket = "listening"
  /\ socket' = "gone" /\ notice' = "other"
  /\ UNCHANGED <<calls, counter_, destroyed, disconnected, onceListening_, onceShutdown_,
                 connections_, queued, stop, closing>>

(* onDisconnectHandler_: the socket counts one less, for good. *)
onDisconnectHandler_ ==
  /\ notice # "none"
  /\ notice' = "none" /\ disconnected' = notice /\ After(notice)
  /\ UNCHANGED <<socket, calls, onceListening_, connections_, queued, stop, closing>>

Next ==
  \/ listen \/ Listened \/ stopListening \/ Closed \/ closeAll \/ Breaks
  \/ onDisconnectHandler_
  \/ \E c \in Conn : onConnectionHandler_(c) \/ Discard(c)

Spec == Init /\ [][Next]_vars

(* Shutting down is complete: once shutdown() has fulfilled, no connection is  *)
(* left, whatever came while the socket was being closed; and a socket that    *)
(* has ended, with all its calls answered, was destroyed once and its end was  *)
(* told (tcp.ts:107-130, 198-224; counter.ts:19-55).                           *)
ShutDown ==
  /\ stop = "done" => connections_ = {}
  /\ (socket = "gone" /\ notice = "none" /\ calls = {})
       => destroyed = 1 /\ onceShutdown_ # "pending"
==================================================================================
