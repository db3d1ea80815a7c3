------------------------ MODULE TcpConnectionProofs ------------------------
(***************************************************************************)
(* Proofs about TcpConnection, for any number of packets and calls, both    *)
(* ways of making the connection, and destructors that throw or do not.     *)
(*                                                                          *)
(* The counter is what the class says it is: the number of calls of the     *)
(* socket that are not answered, less one once the socket has disconnected. *)
(* It falls below zero with the last answer or the disconnection, whichever *)
(* comes last, and nothing is counted after that.                           *)
(***************************************************************************)
EXTENDS MCTcpConnection, FiniteSetTheorems, TLAPS

Discarded == IF state_ = "CLOSED" THEN 1 ELSE 0

(* close() is called once, and connect() and getInfo() one after the other. *)
CallsInTurn ==
  /\ "close" \in calls => state_ \in {"CLOSING", "CLOSED"}
  /\ ~("connect" \in calls /\ "getInfo" \in calls)

CounterCounts ==
  /\ counter_ = Cardinality(calls) - Discarded
  /\ destroyed = IF counter_ < 0 THEN 1 ELSE 0

CounterInv == TypeOK /\ CallsInTurn /\ CounterCounts

LEMMA CallFinite == IsFiniteSet(Call)
<1>1. IsFiniteSet({"connect"})
  BY FS_Singleton
<1>2. IsFiniteSet({"connect"} \cup {"getInfo"})
  BY <1>1, FS_AddElement
<1>3. IsFiniteSet(({"connect"} \cup {"getInfo"}) \cup {"close"})
  BY <1>2, FS_AddElement
<1>4. Call = ({"connect"} \cup {"getInfo"}) \cup {"close"}
  BY DEF Call
<1> QED
  BY <1>3, <1>4

(* What an answer and a new call do to the number of calls in progress. *)
LEMMA CallCount ==
  ASSUME NEW C \in SUBSET Call
  PROVE  /\ Cardinality(C) \in Nat
         /\ Cardinality(C) = 0 <=> C = {}
         /\ \A c \in C : Cardinality(C \ {c}) = Cardinality(C) - 1
         /\ \A c \in Call \ C : Cardinality(C \cup {c}) = Cardinality(C) + 1
<1>1. IsFiniteSet(C)
  BY CallFinite, FS_Subset
<1>2. \A c \in C : Cardinality(C \ {c}) = Cardinality(C) - 1
  BY <1>1, FS_RemoveElement
<1>3. \A c \in Call \ C : Cardinality(C \cup {c}) = Cardinality(C) + 1
  BY <1>1, FS_AddElement
<1>4. Cardinality(C) \in Nat
  BY <1>1, FS_CardinalityType
<1>5. Cardinality(C) = 0 <=> C = {}
  BY <1>1, FS_EmptySet
<1> QED
  BY <1>2, <1>3, <1>4, <1>5
-----------------------------------------------------------------------------
LEMMA TypeInit == Init => TypeOK
<1> SUFFICES ASSUME Init PROVE TypeOK
  OBVIOUS
<1>1. /\ state_ \in {"CONNECTING", "CONNECTED"}
      /\ calls \in SUBSET Call
      /\ socket \in {"connecting", "open"}
  BY DEF Init, Call
<1>2. /\ counter_ \in Int
      /\ destroyed \in Nat
      /\ toSocket \in Nat
      /\ fromSocket \in Nat
      /\ arrived \in 0..MaxData
      /\ asked \in 0..MaxSends
  BY TcpConnectionAssumption DEF Init
<1>3. notices \in Seq(SocketCloseKind)
  BY DEF Init
<1> QED
  BY <1>1, <1>2, <1>3 DEF Init, TypeOK

(* The counter and the receiver, for every answer and every disconnection. *)
LEMMA AfterType ==
  ASSUME TypeOK, NEW why \in SocketCloseKind \cup {"none"},
         NEW failure \in SocketCloseKind \cup {"pending"}, After(why, failure)
  PROVE  /\ counter_' \in Int
         /\ destroyed' \in Nat
         /\ onceClosed' \in SocketCloseKind \cup {"pending"}
<1>1. counter_' \in Int /\ destroyed' \in Nat
  BY DEF TypeOK, After
<1>2. onceClosed' \in SocketCloseKind \cup {"pending"}
  BY DEF TypeOK, After
<1> QED
  BY <1>1, <1>2

LEMMA TypeNext ==
  ASSUME TypeOK, [Next]_vars
  PROVE  TypeOK'
<1> USE TcpConnectionAssumption
<1>1. CASE Connected
  BY <1>1 DEF TypeOK, Connected, Call, promises, sending, receiving, external, bounds
<1>2. CASE GotInfo
  <2>1. /\ counter_' \in Int
        /\ destroyed' \in Nat
        /\ onceClosed' \in SocketCloseKind \cup {"pending"}
    BY <1>2, AfterType DEF GotInfo, TypeOK
  <2> QED
    BY <1>2, <2>1 DEF TypeOK, GotInfo, AbortReceive, Call, external, bounds
<1>3. ASSUME NEW call \in {"connect", "getInfo"}, ConnectFails(call)
      PROVE  TypeOK'
  <2>1. /\ counter_' \in Int
        /\ destroyed' \in Nat
        /\ onceClosed' \in SocketCloseKind \cup {"pending"}
    BY <1>3, AfterType DEF ConnectFails, TypeOK, SocketCloseKind
  <2> QED
    BY <1>3, <2>1 DEF TypeOK, ConnectFails, AbortReceive, Call, sending, external, bounds
<1>4. CASE CloseAnswered
  <2>1. /\ counter_' \in Int
        /\ destroyed' \in Nat
        /\ onceClosed' \in SocketCloseKind \cup {"pending"}
    BY <1>4, AfterType DEF CloseAnswered, TypeOK
  <2> QED
    BY <1>4, <2>1 DEF TypeOK, CloseAnswered, AbortReceive, Call, sending, external, bounds
<1>5. CASE onDisconnectHandler_
  <2>1. /\ Head(notices) \in SocketCloseKind
        /\ Tail(notices) \in Seq(SocketCloseKind)
    BY <1>5 DEF TypeOK, onDisconnectHandler_
  <2>2. /\ counter_' \in Int
        /\ destroyed' \in Nat
        /\ onceClosed' \in SocketCloseKind \cup {"pending"}
    BY <1>5, <2>1, AfterType DEF onDisconnectHandler_
  <2> QED
    BY <1>5, <2>1, <2>2 DEF TypeOK, onDisconnectHandler_, AbortReceive, bounds
<1>6. CASE DisconnectedTwice
  BY <1>6 DEF TypeOK, DisconnectedTwice, promises, counting, sending, receiving, bounds
<1>7. CASE send
  BY <1>7 DEF TypeOK, send, promises, counting, receiving, external
<1>8. CASE receiveNext
  BY <1>8 DEF TypeOK, receiveNext, promises, counting, sending, external
<1>9. CASE onData_
  BY <1>9 DEF TypeOK, onData_, promises, counting, sending, external
<1>10. CASE close
  <2>1. notices' \in Seq(SocketCloseKind)
    BY <1>10 DEF TypeOK, close, SocketCloseKind
  <2>2. calls' \in SUBSET Call /\ counter_' \in Int
    BY <1>10 DEF TypeOK, close, Call
  <2> QED
    BY <1>10, <2>1, <2>2 DEF TypeOK, close, promises, sending, bounds
<1>11. CASE SocketConnects
  BY <1>11 DEF TypeOK, SocketConnects, promises, counting, sending, receiving, bounds
<1>12. CASE SocketRefused
  <2>1. notices' \in Seq(SocketCloseKind)
    BY <1>12 DEF TypeOK, SocketRefused, SocketCloseKind
  <2> QED
    BY <1>12, <2>1 DEF TypeOK, SocketRefused, promises, counting, sending, receiving, bounds
<1>13. CASE SocketDisconnects
  <2>1. notices' \in Seq(SocketCloseKind)
    BY <1>13 DEF TypeOK, SocketDisconnects, SocketCloseKind
  <2> QED
    BY <1>13, <2>1 DEF TypeOK, SocketDisconnects, promises, counting, sending, receiving, bounds
<1>14. CASE UNCHANGED vars
  BY <1>14 DEF TypeOK, vars
<1> QED
  BY <1>1, <1>2, <1>3, <1>4, <1>5, <1>6, <1>7, <1>8, <1>9, <1>10, <1>11, <1>12, <1>13, <1>14
     DEF Next, Answer, Disconnect
-----------------------------------------------------------------------------
LEMMA CounterInit == Init => CounterInv
<1> SUFFICES ASSUME Init PROVE CallsInTurn /\ CounterCounts
  BY TypeInit DEF CounterInv
<1>1. \E call \in {"connect", "getInfo"} : calls = {call}
  BY DEF Init
<1>2. Cardinality(calls) = 1
  BY <1>1, FS_Singleton
<1> QED
  BY <1>1, <1>2 DEF Init, CallsInTurn, CounterCounts, Discarded

(* An answer takes one off the counter and off the calls.  It destroys the  *)
(* provider only as the last one after the disconnection.                   *)
LEMMA AnswerCounted ==
  ASSUME CounterInv, NEW call \in calls, NEW why, NEW failure, After(why, failure),
         calls' = calls \ {call}, Discarded' = Discarded
  PROVE  CounterCounts'
<1>1. Cardinality(calls') = Cardinality(calls) - 1
  BY CallCount DEF CounterInv, TypeOK
<1>2. Cardinality(calls) \in Nat \ {0} /\ Discarded \in {0, 1}
  BY CallCount DEF CounterInv, TypeOK, Discarded
<1>3. counter_' = Cardinality(calls') - Discarded'
  BY <1>1, <1>2 DEF CounterInv, CounterCounts, After
<1>4. destroyed = 0
  BY <1>2 DEF CounterInv, CounterCounts
<1>5. destroyed' = IF counter_' < 0 THEN 1 ELSE 0
  BY <1>4 DEF After
<1> QED
  BY <1>3, <1>5 DEF CounterCounts

LEMMA CounterNext ==
  ASSUME CounterInv, [Next]_vars
  PROVE  CounterInv'
<1>0. TypeOK'
  BY TypeNext DEF CounterInv
<1> SUFFICES CallsInTurn' /\ CounterCounts'
  BY <1>0 DEF CounterInv
<1>1. CASE Connected
  <2>1. "connect" \in calls /\ "getInfo" \notin calls
    BY <1>1 DEF Connected, CounterInv, CallsInTurn
  <2>2. /\ calls \ {"connect"} \in SUBSET Call
        /\ "getInfo" \in Call \ (calls \ {"connect"})
    BY <2>1 DEF CounterInv, TypeOK, Call
  <2>3. Cardinality(calls') = Cardinality(calls)
    <3>1. Cardinality(calls \ {"connect"}) = Cardinality(calls) - 1
      BY <2>1, CallCount DEF CounterInv, TypeOK
    <3>2. Cardinality((calls \ {"connect"}) \cup {"getInfo"})
            = Cardinality(calls \ {"connect"}) + 1
      BY <2>2, CallCount
    <3>3. Cardinality(calls) \in Nat
      BY CallCount DEF CounterInv, TypeOK
    <3> QED
      BY <1>1, <3>1, <3>2, <3>3 DEF Connected
  <2> QED
    BY <1>1, <2>1, <2>3 DEF Connected, CounterInv, CallsInTurn, CounterCounts, Discarded
<1>2. CASE GotInfo
  <2>1. CallsInTurn'
    BY <1>2 DEF GotInfo, CounterInv, CallsInTurn
  <2>2. Discarded' = Discarded
    BY <1>2 DEF GotInfo, Discarded
  <2> QED
    BY <1>2, <2>1, <2>2, AnswerCounted DEF GotInfo
<1>3. ASSUME NEW call \in {"connect", "getInfo"}, ConnectFails(call)
      PROVE  CallsInTurn' /\ CounterCounts'
  <2>1. CallsInTurn'
    BY <1>3 DEF ConnectFails, CounterInv, CallsInTurn
  <2>2. Discarded' = Discarded
    BY <1>3 DEF ConnectFails, Discarded
  <2> QED
    BY <1>3, <2>1, <2>2, AnswerCounted DEF ConnectFails
<1>4. CASE CloseAnswered
  <2>1. CallsInTurn'
    BY <1>4 DEF CloseAnswered, CounterInv, CallsInTurn
  <2>2. Discarded' = Discarded
    BY <1>4 DEF CloseAnswered, Discarded
  <2> QED
    BY <1>4, <2>1, <2>2, AnswerCounted DEF CloseAnswered
<1>5. CASE onDisconnectHandler_
  <2>1. CallsInTurn'
    BY <1>5 DEF onDisconnectHandler_, CounterInv, CallsInTurn
  <2>2. Discarded = 0 /\ Discarded' = 1
    BY <1>5 DEF onDisconnectHandler_, Discarded
  <2>3. Cardinality(calls) \in Nat
    BY CallCount DEF CounterInv, TypeOK
  <2>4. counter_ = Cardinality(calls) /\ destroyed = 0
    BY <2>2, <2>3 DEF CounterInv, CounterCounts
  <2>5. counter_' = counter_ - 1 /\ calls' = calls
    BY <1>5 DEF onDisconnectHandler_, After
  <2>6. destroyed' = IF counter_' < 0 THEN 1 ELSE 0
    BY <1>5, <2>4 DEF onDisconnectHandler_, After
  <2> QED
    BY <2>1, <2>2, <2>3, <2>4, <2>5, <2>6 DEF CounterCounts
<1>6. CASE close
  <2>1. "close" \in Call \ calls
    BY <1>6 DEF close, CounterInv, CallsInTurn, Call
  <2>2. Cardinality(calls') = Cardinality(calls) + 1
    BY <1>6, <2>1, CallCount DEF close, CounterInv, TypeOK
  <2>3. Cardinality(calls) \in Nat
    BY CallCount DEF CounterInv, TypeOK
  <2>4. Discarded = 0 /\ Discarded' = 0
    BY <1>6 DEF close, Discarded
  <2>5. counter_' = counter_ + 1 /\ destroyed' = destroyed
    BY <1>6 DEF close
  <2>6. CallsInTurn'
    BY <1>6 DEF close, CounterInv, CallsInTurn
  <2> QED
    BY <2>2, <2>3, <2>4, <2>5, <2>6 DEF CounterInv, CounterCounts
<1>7. CASE UNCHANGED <<state_, counting>>
  BY <1>7 DEF counting, CounterInv, CallsInTurn, CounterCounts, Discarded
<1>8. DisconnectedTwice \/ send \/ receiveNext \/ onData_ \/ SocketConnects \/ SocketRefused
        \/ SocketDisconnects \/ UNCHANGED vars => UNCHANGED <<state_, counting>>
  BY DEF DisconnectedTwice, send, receiveNext, onData_, SocketConnects, SocketRefused,
         SocketDisconnects, vars, counting
<1> QED
  BY <1>1, <1>2, <1>3, <1>4, <1>5, <1>6, <1>7, <1>8 DEF Next, Answer, Disconnect
-----------------------------------------------------------------------------
THEOREM CounterInvariant == Spec => []CounterInv
<1>1. CounterInv /\ [Next]_vars => CounterInv'
  BY CounterNext
<1> QED
  BY CounterInit, <1>1, PTL DEF Spec

(* The type invariant of TcpConnection. *)
THEOREM TypeCorrect == Spec => []TypeOK
<1>1. CounterInv => TypeOK
  BY DEF CounterInv
<1> QED
  BY CounterInvariant, <1>1, PTL

(* The provider of the socket is destroyed at most once, when no call of it *)
(* is in progress and it has disconnected: what Counter promises in         *)
(* counter.ts.                                                              *)
THEOREM DestroyedOnceIdle == Spec => []DestroyedIdle
<1>1. CounterInv => DestroyedIdle
  <2> SUFFICES ASSUME CounterInv, destroyed # 0
               PROVE  destroyed = 1 /\ calls = {} /\ state_ = "CLOSED"
    BY DEF DestroyedIdle
  <2>1. counter_ < 0 /\ destroyed = 1
    BY DEF CounterInv, CounterCounts
  <2>2. Cardinality(calls) \in Nat /\ (Cardinality(calls) = 0 <=> calls = {})
    BY CallCount DEF CounterInv, TypeOK
  <2> QED
    BY <2>1, <2>2 DEF CounterInv, CounterCounts, Discarded
<1> QED
  BY CounterInvariant, <1>1, PTL

(* Nothing that was sent waits in an open connection (tcp.ts, the handler   *)
(* of dataToSocketQueue).                                                   *)
THEOREM NothingWaits == Spec => []ConnectedSends
<1>1. Init => ConnectedSends
  BY DEF Init, ConnectedSends
<1>2. ConnectedSends /\ [Next]_vars => ConnectedSends'
  <2> SUFFICES ASSUME ConnectedSends, [Next]_vars PROVE ConnectedSends'
    OBVIOUS
  <2>1. CASE GotInfo
    BY <2>1 DEF GotInfo, ConnectedSends
  <2>2. ASSUME NEW call, ConnectFails(call) PROVE ConnectedSends'
    BY <2>2 DEF ConnectFails, ConnectedSends
  <2>3. CASE onDisconnectHandler_
    BY <2>3 DEF onDisconnectHandler_, ConnectedSends
  <2>4. CASE send
    BY <2>4 DEF send, ConnectedSends, promises
  <2>5. CASE close
    BY <2>5 DEF close, ConnectedSends, promises, sending
  <2>6. CASE UNCHANGED <<state_, onceConnected, sending>>
    BY <2>6 DEF ConnectedSends, sending
  <2>7. Connected \/ CloseAnswered \/ DisconnectedTwice \/ receiveNext \/ onData_ \/ SocketConnects
          \/ SocketRefused \/ SocketDisconnects \/ UNCHANGED vars
          => UNCHANGED <<state_, onceConnected, sending>>
    BY DEF Connected, CloseAnswered, DisconnectedTwice, receiveNext, onData_, SocketConnects,
           SocketRefused, SocketDisconnects, vars, promises, sending
  <2> QED
    BY <2>1, <2>2, <2>3, <2>4, <2>5, <2>6, <2>7 DEF Next, Answer, Disconnect
<1> QED
  BY <1>1, <1>2, PTL DEF Spec

(* No late answer brings a connection back to an earlier state, and nothing *)
(* changes one that is closed (tcp.ts, State).                              *)
THEOREM NeverGoesBack == Spec => NeverBack
<1>1. TypeOK /\ [Next]_vars => [Rank[state_] <= Rank[state_']]_vars
  <2> SUFFICES ASSUME TypeOK, Next PROVE Rank[state_] <= Rank[state_']
    OBVIOUS
  <2>1. /\ Rank["CONNECTING"] = 0
        /\ Rank["CONNECTED"] = 1
        /\ Rank["CLOSING"] = 2
        /\ Rank["CLOSED"] = 3
    BY DEF Rank
  <2>2. \/ state_' = state_
        \/ state_ = "CONNECTING" /\ state_' = "CONNECTED"
        \/ state_ \in {"CONNECTING", "CONNECTED"} /\ state_' = "CLOSING"
        \/ state_' = "CLOSED"
    BY DEF Next, Answer, Disconnect, Connected, GotInfo, ConnectFails, CloseAnswered,
           onDisconnectHandler_, DisconnectedTwice, send, receiveNext, onData_, close,
           SocketConnects, SocketRefused, SocketDisconnects
  <2> QED
    BY <2>1, <2>2 DEF TypeOK
<1> QED
  BY TypeCorrect, <1>1, PTL DEF Spec, NeverBack

(* Whatever order calls, answers and the disconnection come in, the socket  *)
(* is destroyed once and idle and nothing waits in an open connection.      *)
THEOREM SocketKept == Spec => []SocketTended
BY TypeCorrect, DestroyedOnceIdle, NothingWaits, PTL DEF SocketTended
-----------------------------------------------------------------------------
(***************************************************************************)
(* The connections of rtc-to-net's sessions, for any number of sessions and *)
(* outages of the proxy.  A session has replied exactly when it has come to *)
(* the end of its way, and replying takes it there, so there is no second   *)
(* reply; whatever ends it otherwise than with SUCCEEDED also stops it.     *)
(***************************************************************************)
Ended == {"ready", "rejected"}

ReproxyType ==
  /\ enabled \in Enabled /\ allowNonUnicast \in AllowNonUnicast
  /\ endpoint \in [Session -> Proxied!Endpoint]
  /\ step \in [Session -> Proxied!Step]
  /\ incoming \in [Session -> Seq(Proxied!Chunk)]
  /\ replies \in [Session -> Seq(Proxied!Reply)]
  /\ lost \in [Session -> BOOLEAN] /\ stopping \in [Session -> BOOLEAN]
  /\ up \in BOOLEAN /\ outages \in 0..MaxOutages /\ updates \in Nat
  /\ reproxyError \in BOOLEAN /\ intervals \in Nat /\ checking \in Nat

(* The proxy has sent at most one chunk, to a session that waits for it. *)
Awaited ==
  \A s \in Session : /\ Len(incoming[s]) <= 1
                     /\ incoming[s] # <<>> => step[s] \in {"auth", "userpass", "request"}

ReproxyInv == ReproxyType /\ Awaited /\ Proxied!OneReply

LEMMA ReproxyTyped == ReproxyType => Proxied!TypeOK
<1> SUFFICES ASSUME ReproxyType PROVE Proxied!TypeOK
  OBVIOUS
<1>1. ASSUME NEW s \in Session
      PROVE  /\ \A i \in DOMAIN incoming[s] : incoming[s][i] \in Proxied!Chunk
             /\ \A i \in DOMAIN replies[s] : replies[s][i] \in Proxied!Reply
  <2>1. incoming[s] \in Seq(Proxied!Chunk) /\ replies[s] \in Seq(Proxied!Reply)
    BY DEF ReproxyType
  <2> QED
    BY <2>1
<1>2. ASSUME NEW s \in Session
      PROVE  endpoint[s] \in Proxied!Endpoint /\ step[s] \in Proxied!Step
             /\ {lost[s], stopping[s]} \subseteq BOOLEAN
  BY DEF ReproxyType
<1> QED
  BY <1>1, <1>2 DEF ReproxyType, Proxied!TypeOK

LEMMA ReproxyInit == Proxied!Init => ReproxyInv
<1> SUFFICES ASSUME Proxied!Init PROVE ReproxyInv
  OBVIOUS
<1>1. ReproxyType
  <2>1. <<>> \in Seq(Proxied!Chunk) /\ <<>> \in Seq(Proxied!Reply)
    OBVIOUS
  <2>2. 0 \in 0..MaxOutages /\ 0 \in Nat
    BY ReproxyAssumption
  <2>3. "start" \in Proxied!Step /\ "none" \in Proxied!Endpoint
    BY DEF Proxied!Step, Proxied!Endpoint
  <2>4. /\ endpoint \in [Session -> Proxied!Endpoint] /\ step \in [Session -> Proxied!Step]
        /\ incoming \in [Session -> Seq(Proxied!Chunk)]
        /\ replies \in [Session -> Seq(Proxied!Reply)]
        /\ lost \in [Session -> BOOLEAN] /\ stopping \in [Session -> BOOLEAN]
    BY <2>1, <2>3 DEF Proxied!Init
  <2> QED
    BY <2>2, <2>4 DEF Proxied!Init, ReproxyType
<1>2. Proxied!OneReply
  BY DEF Proxied!Init, Proxied!OneReply
<1>3. Awaited
  BY DEF Proxied!Init, Awaited
<1> QED
  BY <1>1, <1>2, <1>3 DEF ReproxyInv

(* A session that has not come to its end replies, and so ends. *)
LEMMA Replied ==
  ASSUME ReproxyInv, NEW s \in Session, step[s] \notin Ended,
         NEW reply \in Proxied!Reply, NEW to \in Ended, Proxied!replyToPeer_(s, reply, to)
  PROVE  /\ step' \in [Session -> Proxied!Step]
         /\ replies' \in [Session -> Seq(Proxied!Reply)]
         /\ stopping' \in [Session -> BOOLEAN]
         /\ Proxied!OneReply'
<1>1. step' \in [Session -> Proxied!Step] /\ stopping' \in [Session -> BOOLEAN]
  BY DEF ReproxyInv, ReproxyType, Proxied!replyToPeer_, Ended, Proxied!Step
<1>2. /\ replies[s] \in Seq(Proxied!Reply) /\ Len(replies[s]) = 0
      /\ step[s] \notin {"ready", "rejected"}
  BY DEF ReproxyInv, ReproxyType, Proxied!OneReply, Ended
<1>3. /\ Append(replies[s], reply) \in Seq(Proxied!Reply)
      /\ Len(Append(replies[s], reply)) = 1
  BY <1>2
<1>4. replies' \in [Session -> Seq(Proxied!Reply)]
      /\ replies'[s] = Append(replies[s], reply)
      /\ \A t \in Session \ {s} : replies'[t] = replies[t]
  BY <1>3 DEF ReproxyInv, ReproxyType, Proxied!replyToPeer_
<1>5. step'[s] = to /\ \A t \in Session \ {s} : step'[t] = step[t]
  BY DEF ReproxyInv, ReproxyType, Proxied!replyToPeer_
<1>6. /\ to = "rejected" => stopping'[s] = TRUE
      /\ \A t \in Session \ {s} : stopping'[t] = stopping[t]
  BY DEF ReproxyInv, ReproxyType, Proxied!replyToPeer_
<1>7. ASSUME NEW t \in Session
      PROVE  /\ Len(replies'[t]) = IF step'[t] \in {"ready", "rejected"} THEN 1 ELSE 0
             /\ step'[t] \in {"rejected", "unanswered"} => stopping'[t]
  <2>1. CASE t = s
    BY <2>1, <1>3, <1>4, <1>5, <1>6 DEF Ended
  <2>2. CASE t # s
    BY <2>2, <1>4, <1>5, <1>6 DEF ReproxyInv, Proxied!OneReply
  <2> QED
    BY <2>1, <2>2
<1> QED
  BY <1>1, <1>4, <1>7 DEF Proxied!OneReply

(* A session goes on, or is stopped, without a reply. *)
LEMMA GoneOn ==
  ASSUME ReproxyInv, NEW s \in Session, step[s] \notin Ended,
         NEW to \in Proxied!Step \ Ended, step' = [step EXCEPT ![s] = to],
         UNCHANGED replies,
         \/ to # "unanswered" /\ UNCHANGED stopping
         \/ stopping' = [stopping EXCEPT ![s] = TRUE]
  PROVE  /\ step' \in [Session -> Proxied!Step] /\ stopping' \in [Session -> BOOLEAN]
         /\ Proxied!OneReply'
<1>1. /\ step' \in [Session -> Proxied!Step] /\ step'[s] = to
      /\ \A t \in Session \ {s} : step'[t] = step[t]
  BY DEF ReproxyInv, ReproxyType
<1>2. ASSUME NEW t \in Session
      PROVE  /\ Len(replies'[t]) = IF step'[t] \in {"ready", "rejected"} THEN 1 ELSE 0
             /\ step'[t] \in {"rejected", "unanswered"} => stopping'[t]
  BY <1>1 DEF ReproxyInv, ReproxyType, Proxied!OneReply, Ended
<1>3. stopping' \in [Session -> BOOLEAN]
  BY DEF ReproxyInv, ReproxyType
<1> QED
  BY <1>1, <1>2, <1>3 DEF Proxied!OneReply

LEMMA LastChunk ==
  ASSUME NEW S, NEW q \in Seq(S), q # <<>>, Len(q) <= 1
  PROVE  Tail(q) = <<>>
OBVIOUS

(* Nothing is on its way to a session that does not wait for the proxy. *)
LEMMA NothingSent ==
  ASSUME ReproxyInv, NEW s \in Session, incoming[s] = <<>>, UNCHANGED incoming,
         \A t \in Session \ {s} : step'[t] = step[t]
  PROVE  Awaited'
BY DEF ReproxyInv, Awaited

LEMMA ReproxyNext == ReproxyInv /\ [Proxied!Next]_proxied => ReproxyInv'
<1> SUFFICES ASSUME ReproxyInv, [Proxied!Next]_proxied PROVE ReproxyInv'
  OBVIOUS
<1> USE DEF Proxied!config, Proxied!proxy, Proxied!bar
<1>0. ReproxyType /\ Awaited /\ Proxied!OneReply
  BY DEF ReproxyInv
<1>1. ASSUME NEW s \in Session, Proxied!ReceiveEndpoint(s) PROVE ReproxyInv'
  <2>1. step[s] \notin Ended
    BY <1>1 DEF Proxied!ReceiveEndpoint, Ended
  <2>2. PICK e \in Proxied!Endpoint :
          /\ endpoint' = [endpoint EXCEPT ![s] = e]
          /\ \/ Proxied!replyToPeer_(s, "UNSUPPORTED_COMMAND", "rejected")
             \/ Proxied!replyToPeer_(s, "NOT_ALLOWED", "rejected")
             \/ step' = [step EXCEPT ![s] = "dialing"] /\ UNCHANGED <<replies, stopping>>
    BY <1>1 DEF Proxied!ReceiveEndpoint
  <2>3. UNCHANGED <<enabled, allowNonUnicast, incoming, lost, up, outages, updates,
                    reproxyError, intervals, checking>>
    BY <1>1 DEF Proxied!ReceiveEndpoint
  <2>4. endpoint' \in [Session -> Proxied!Endpoint]
    BY <2>2, <1>0 DEF ReproxyType
  <2>5. /\ step' \in [Session -> Proxied!Step] /\ Proxied!OneReply'
        /\ replies' \in [Session -> Seq(Proxied!Reply)] /\ stopping' \in [Session -> BOOLEAN]
    <3>1. CASE Proxied!replyToPeer_(s, "UNSUPPORTED_COMMAND", "rejected")
      BY <2>1, <3>1, Replied DEF Ended, Proxied!Reply
    <3>2. CASE Proxied!replyToPeer_(s, "NOT_ALLOWED", "rejected")
      BY <2>1, <3>2, Replied DEF Ended, Proxied!Reply
    <3>3. CASE step' = [step EXCEPT ![s] = "dialing"] /\ UNCHANGED <<replies, stopping>>
      <4>1. "dialing" \in Proxied!Step \ Ended
        BY DEF Ended, Proxied!Step
      <4> QED
        BY <2>1, <3>3, <4>1, <1>0, GoneOn DEF ReproxyType
    <3> QED
      BY <2>2, <3>1, <3>2, <3>3
  <2>6. incoming[s] = <<>>
    BY <1>1, <1>0 DEF Proxied!ReceiveEndpoint, Awaited
  <2>7. \A t \in Session \ {s} : step'[t] = step[t]
    BY <2>2, <1>0 DEF Proxied!replyToPeer_, ReproxyType
  <2>8. Awaited'
    BY <2>3, <2>6, <2>7, NothingSent
  <2> QED
    BY <2>3, <2>4, <2>5, <2>8, <1>0 DEF ReproxyInv, ReproxyType
<1>2. ASSUME NEW s \in Session, Proxied!ConnectFails(s) PROVE ReproxyInv'
  <2>1. step[s] \notin Ended
    BY <1>2 DEF Proxied!ConnectFails, Ended
  <2>2. PICK code \in DOMAIN Proxied!getReplyFromError_ :
          Proxied!replyToPeer_(s, Proxied!getReplyFromError_[code], "rejected")
    BY <1>2 DEF Proxied!ConnectFails
  <2>3. Proxied!getReplyFromError_[code] \in Proxied!Reply
    BY <2>2 DEF Proxied!getReplyFromError_, Proxied!Reply
  <2>4. /\ step' \in [Session -> Proxied!Step] /\ Proxied!OneReply'
        /\ replies' \in [Session -> Seq(Proxied!Reply)] /\ stopping' \in [Session -> BOOLEAN]
    BY <2>1, <2>2, <2>3, Replied DEF Ended
  <2>5. updates' \in Nat
    BY <1>2, <1>0 DEF Proxied!ConnectFails, ReproxyType
  <2>6. UNCHANGED <<enabled, allowNonUnicast, endpoint, incoming, lost, up, outages,
                    reproxyError, intervals, checking>>
    BY <1>2 DEF Proxied!ConnectFails
  <2>7. incoming[s] = <<>>
    BY <1>2, <1>0 DEF Proxied!ConnectFails, Awaited
  <2>8. \A t \in Session \ {s} : step'[t] = step[t]
    BY <2>2, <1>0 DEF Proxied!replyToPeer_, ReproxyType
  <2>9. Awaited'
    BY <2>6, <2>7, <2>8, NothingSent
  <2> QED
    BY <2>4, <2>5, <2>6, <2>9, <1>0 DEF ReproxyInv, ReproxyType
<1>3. ASSUME NEW s \in Session, Proxied!Connects(s) PROVE ReproxyInv'
  <2>1. step[s] \notin Ended
    BY <1>3 DEF Proxied!Connects, Ended
  <2>2. \/ step' = [step EXCEPT ![s] = "auth"] /\ UNCHANGED <<replies, stopping>>
        \/ \E reply \in {"SUCCEEDED", "FAILURE"} : Proxied!replyToPeer_(s, reply, "ready")
        \/ /\ step' = [step EXCEPT ![s] = "unanswered"]
           /\ stopping' = [stopping EXCEPT ![s] = TRUE] /\ UNCHANGED replies
    BY <1>3 DEF Proxied!Connects
  <2>3. /\ step' \in [Session -> Proxied!Step] /\ Proxied!OneReply'
        /\ replies' \in [Session -> Seq(Proxied!Reply)] /\ stopping' \in [Session -> BOOLEAN]
    <3>1. CASE step' = [step EXCEPT ![s] = "auth"] /\ UNCHANGED <<replies, stopping>>
      <4>1. "auth" \in Proxied!Step \ Ended
        BY DEF Ended, Proxied!Step
      <4> QED
        BY <2>1, <3>1, <4>1, <1>0, GoneOn DEF ReproxyType
    <3>2. ASSUME NEW reply \in {"SUCCEEDED", "FAILURE"},
                 Proxied!replyToPeer_(s, reply, "ready")
          PROVE  /\ step' \in [Session -> Proxied!Step] /\ Proxied!OneReply'
                 /\ replies' \in [Session -> Seq(Proxied!Reply)]
                 /\ stopping' \in [Session -> BOOLEAN]
      <4>1. reply \in Proxied!Reply /\ "ready" \in Ended
        BY DEF Ended, Proxied!Reply
      <4> QED
        BY <2>1, <3>2, <4>1, Replied
    <3>3. CASE /\ step' = [step EXCEPT ![s] = "unanswered"]
               /\ stopping' = [stopping EXCEPT ![s] = TRUE] /\ UNCHANGED replies
      <4>1. "unanswered" \in Proxied!Step \ Ended
        BY DEF Ended, Proxied!Step
      <4> QED
        BY <2>1, <3>3, <4>1, <1>0, GoneOn DEF ReproxyType
    <3> QED
      BY <2>2, <3>1, <3>2, <3>3
  <2>4. UNCHANGED <<enabled, allowNonUnicast, endpoint, incoming, lost, up, outages, updates,
                    reproxyError, intervals, checking>>
    BY <1>3 DEF Proxied!Connects
  <2>5. incoming[s] = <<>>
    BY <1>3, <1>0 DEF Proxied!Connects, Awaited
  <2>6. \A t \in Session \ {s} : step'[t] = step[t]
    BY <2>2, <1>0 DEF Proxied!replyToPeer_, ReproxyType
  <2>7. Awaited'
    BY <2>4, <2>5, <2>6, NothingSent
  <2> QED
    BY <2>3, <2>4, <2>7, <1>0 DEF ReproxyInv, ReproxyType
<1>4. ASSUME NEW s \in Session, Proxied!ProxyAnswers(s) PROVE ReproxyInv'
  <2>1. PICK what \in {"NOAUTH", "USERPASS", "denied", "welcome", "SUCCEEDED", "FAILURE", "piece"},
             data \in BOOLEAN :
          incoming' = [incoming EXCEPT ![s] = <<[what |-> what, data |-> data]>>]
    BY <1>4 DEF Proxied!ProxyAnswers
  <2>2. [what |-> what, data |-> data] \in Proxied!Chunk
    BY DEF Proxied!Chunk
  <2>3. <<[what |-> what, data |-> data]>> \in Seq(Proxied!Chunk)
    BY <2>2
  <2>4. incoming' \in [Session -> Seq(Proxied!Chunk)]
    BY <2>1, <2>3, <1>0 DEF ReproxyType
  <2>5. UNCHANGED <<enabled, allowNonUnicast, endpoint, step, replies, lost, stopping, up,
                    outages, updates, reproxyError, intervals, checking>>
    BY <1>4 DEF Proxied!ProxyAnswers
  <2>6. /\ incoming'[s] = <<[what |-> what, data |-> data]>>
        /\ \A t \in Session \ {s} : incoming'[t] = incoming[t]
        /\ step[s] \in {"auth", "userpass", "request"}
    BY <1>4, <2>1, <1>0 DEF Proxied!ProxyAnswers, ReproxyType
  <2>7. Len(incoming'[s]) <= 1
    BY <2>6
  <2>8. Awaited'
    <3>1. ASSUME NEW t \in Session
          PROVE  /\ Len(incoming'[t]) <= 1
                 /\ incoming'[t] # <<>> => step'[t] \in {"auth", "userpass", "request"}
      <4>1. CASE t = s
        BY <4>1, <2>5, <2>6, <2>7, Zenon
      <4>2. CASE t # s
        BY <4>2, <2>5, <2>6, <1>0, Zenon DEF Awaited
      <4> QED
        BY <4>1, <4>2
    <3> QED
      BY <3>1 DEF Awaited
  <2> QED
    BY <2>4, <2>5, <2>8, <1>0 DEF ReproxyInv, ReproxyType, Proxied!OneReply
<1>5. ASSUME NEW s \in Session, Proxied!connectWithSocksAuth_(s) PROVE ReproxyInv'
  <2> DEFINE head == Head(incoming[s])
             what == head.what
  <2>1. incoming[s] \in Seq(Proxied!Chunk) /\ incoming[s] # <<>>
    BY <1>5, <1>0 DEF Proxied!connectWithSocksAuth_, ReproxyType
  <2>2. head \in Proxied!Chunk /\ Tail(incoming[s]) \in Seq(Proxied!Chunk)
    BY <2>1
  <2>3. what \in {"NOAUTH", "USERPASS", "denied", "welcome", "SUCCEEDED", "FAILURE", "piece"}
        /\ head.data \in BOOLEAN
    BY <2>2 DEF Proxied!Chunk
  <2> HIDE DEF head
  <2>4. incoming' \in [Session -> Seq(Proxied!Chunk)] /\ lost' \in [Session -> BOOLEAN]
    BY <1>5, <2>2, <2>3, <1>0 DEF Proxied!connectWithSocksAuth_, ReproxyType, head
  <2>5. UNCHANGED <<enabled, allowNonUnicast, endpoint, up, outages, reproxyError, intervals,
                    checking>>
    BY <1>5 DEF Proxied!connectWithSocksAuth_
  <2>6. step[s] \notin Ended
    BY <1>5, <1>0 DEF Proxied!connectWithSocksAuth_, Awaited, Ended
  <2>7. \/ \E to \in {"userpass", "request"} :
             step' = [step EXCEPT ![s] = to] /\ UNCHANGED <<replies, stopping, updates>>
        \/ what \in Proxied!Reply /\ Proxied!replyToPeer_(s, what, "ready") /\ UNCHANGED updates
        \/ Proxied!replyToPeer_(s, "FAILURE", "rejected") /\ updates' = updates + 1
    BY <1>5 DEF Proxied!connectWithSocksAuth_, head
  <2>8. /\ step' \in [Session -> Proxied!Step] /\ Proxied!OneReply' /\ updates' \in Nat
        /\ replies' \in [Session -> Seq(Proxied!Reply)] /\ stopping' \in [Session -> BOOLEAN]
    <3> HIDE DEF what
    <3>1. ASSUME NEW to \in {"userpass", "request"}, step' = [step EXCEPT ![s] = to],
                 UNCHANGED <<replies, stopping, updates>>
          PROVE  /\ step' \in [Session -> Proxied!Step] /\ Proxied!OneReply' /\ updates' \in Nat
                 /\ replies' \in [Session -> Seq(Proxied!Reply)]
                 /\ stopping' \in [Session -> BOOLEAN]
      <4>1. to \in Proxied!Step \ Ended
        BY DEF Ended, Proxied!Step
      <4> QED
        BY <2>6, <3>1, <4>1, <1>0, GoneOn DEF ReproxyType
    <3>2. CASE what \in Proxied!Reply /\ Proxied!replyToPeer_(s, what, "ready") /\ UNCHANGED updates
      BY <2>6, <3>2, <1>0, Replied DEF Ended, ReproxyType
    <3>3. CASE Proxied!replyToPeer_(s, "FAILURE", "rejected") /\ updates' = updates + 1
      BY <2>6, <3>3, <1>0, Replied DEF Ended, ReproxyType, Proxied!Reply
    <3> QED
      BY <2>7, <3>1, <3>2, <3>3
  <2>9. \A t \in Session \ {s} : step'[t] = step[t] /\ incoming'[t] = incoming[t]
    <3>1. incoming' = [incoming EXCEPT ![s] = Tail(@)]
      BY <1>5 DEF Proxied!connectWithSocksAuth_
    <3>2. \E to : step' = [step EXCEPT ![s] = to]
      BY <2>7 DEF Proxied!replyToPeer_
    <3> QED
      BY <3>1, <3>2, <1>0 DEF ReproxyType
  <2>10. Tail(incoming[s]) = <<>>
    BY <2>1, <1>0, LastChunk DEF Awaited
  <2>11. incoming'[s] = <<>>
    <3>1. incoming' = [incoming EXCEPT ![s] = Tail(@)]
      BY <1>5 DEF Proxied!connectWithSocksAuth_
    <3> QED
      BY <3>1, <2>10, <1>0 DEF ReproxyType
  <2>12. Awaited'
    BY <2>9, <2>11, <1>0 DEF Awaited
  <2> QED
    BY <2>4, <2>5, <2>8, <2>12, <1>0 DEF ReproxyInv, ReproxyType
<1>6. ASSUME NEW s \in Session, Proxied!ProxyHangsUp(s) PROVE ReproxyInv'
  <2>1. step[s] \notin Ended
    BY <1>6 DEF Proxied!ProxyHangsUp, Ended
  <2>2. /\ step' \in [Session -> Proxied!Step] /\ Proxied!OneReply'
        /\ replies' \in [Session -> Seq(Proxied!Reply)] /\ stopping' \in [Session -> BOOLEAN]
    BY <1>6, <2>1, Replied DEF Proxied!ProxyHangsUp, Ended, Proxied!Reply
  <2>3. updates' \in Nat /\ UNCHANGED <<enabled, allowNonUnicast, endpoint, incoming, lost, up,
                                        outages, reproxyError, intervals, checking>>
    BY <1>6, <1>0 DEF Proxied!ProxyHangsUp, ReproxyType
  <2>4. incoming[s] = <<>> /\ \A t \in Session \ {s} : step'[t] = step[t]
    BY <1>6, <1>0 DEF Proxied!ProxyHangsUp, Proxied!replyToPeer_, ReproxyType
  <2>5. Awaited'
    BY <2>3, <2>4, NothingSent
  <2> QED
    BY <2>2, <2>3, <2>5, <1>0 DEF ReproxyInv, ReproxyType
<1>7. CASE \/ Proxied!ProxyGoes \/ Proxied!ProxyComes \/ Proxied!ReproxyError
           \/ Proxied!Interval \/ Proxied!Checked
  <2>1. UNCHANGED <<enabled, allowNonUnicast, endpoint, step, incoming, replies, lost, stopping>>
    BY <1>7 DEF Proxied!ProxyGoes, Proxied!ProxyComes, Proxied!ReproxyError, Proxied!Interval,
                Proxied!Checked, Proxied!session
  <2>2. /\ up' \in BOOLEAN /\ outages' \in 0..MaxOutages /\ updates' \in Nat
        /\ reproxyError' \in BOOLEAN /\ intervals' \in Nat /\ checking' \in Nat
    <3> USE <1>0, ReproxyAssumption DEF ReproxyType
    <3>1. CASE Proxied!ProxyGoes
      <4>1. up' = FALSE /\ outages' = outages + 1 /\ outages < MaxOutages
        BY <3>1 DEF Proxied!ProxyGoes
      <4>2. outages' \in 0..MaxOutages
        BY <4>1
      <4> QED
        BY <3>1, <4>1, <4>2 DEF Proxied!ProxyGoes
    <3>2. CASE Proxied!ProxyComes
      BY <3>2 DEF Proxied!ProxyComes
    <3>3. CASE Proxied!ReproxyError
      BY <3>3 DEF Proxied!ReproxyError
    <3>4. CASE Proxied!Interval
      BY <3>4 DEF Proxied!Interval
    <3>5. CASE Proxied!Checked
      BY <3>5 DEF Proxied!Checked
    <3> QED
      BY <1>7, <3>1, <3>2, <3>3, <3>4, <3>5
  <2> QED
    BY <2>1, <2>2, <1>0 DEF ReproxyInv, ReproxyType, Awaited, Proxied!OneReply
<1>8. CASE UNCHANGED proxied
  BY <1>8, <1>0 DEF proxied, ReproxyInv, ReproxyType, Awaited, Proxied!OneReply
<1> QED
  BY <1>1, <1>2, <1>3, <1>4, <1>5, <1>6, <1>7, <1>8 DEF Proxied!Next

(* Whichever step of connecting fails, directly or through the proxy, the   *)
(* peer is answered once, unless the socket did not tell whom it connected  *)
(* to, when it is not answered at all; a session that will not be linked is *)
(* stopped in every case (rtc-to-net.ts, onceStarted_, replyToPeer_ and     *)
(* getReplyFromInfo_).                                                      *)
THEOREM AnsweredOnce == MCSpec => []OneReply
<1>1. MCInit => ReproxyInv
  BY ReproxyInit DEF MCInit
<1>2. ReproxyInv /\ [MCNext]_allVars => ReproxyInv'
  <2>1. [MCNext]_allVars => [Proxied!Next]_proxied
    BY DEF MCNext, allVars
  <2> QED
    BY <2>1, ReproxyNext
<1>3. ReproxyInv => OneReply
  BY ReproxyTyped DEF ReproxyInv, OneReply
<1> QED
  BY <1>1, <1>2, <1>3, PTL DEF MCSpec
====
