----------------------------- MODULE EdgesProofs -----------------------------
(* Proofs about the modules of the network and of the user interface, for any  *)
(* values of their constants.  Each part has a section: its variables under    *)
(* their own names, the invariant that is inductive, why each step keeps it,   *)
(* and the theorem.                                                            *)
EXTENDS MCEdges, Integers, FiniteSetTheorems, SequenceTheorems, WellFoundedInduction, TLAPS

(* Any set of natural numbers has a least one: its least initial segment is    *)
(* minimal among subsets of a finite set.                                      *)
LEMMA Least ==
  ASSUME NEW T, T \subseteq Nat, T # {}
  PROVE  \E n \in T : \A m \in T : n <= m
<1>1. PICK top \in T : TRUE
  OBVIOUS
<1> DEFINE S == 0..top
           F == {0..n : n \in T \cap S}
<1>2. IsWellFoundedOn(StrictSubsetOrdering(S), FiniteSubsetsOf(S))
  BY FS_StrictSubsetOrderingWellFounded
<1>3. F \subseteq FiniteSubsetsOf(S) /\ F # {}
  <2>1. \A n \in T \cap S : 0..n \subseteq S /\ IsFiniteSet(0..n)
    BY <1>1, FS_Interval
  <2>2. top \in T \cap S
    BY <1>1
  <2> QED
    BY <2>1, <2>2 DEF FiniteSubsetsOf
<1>4. PICK x \in F : \A y \in F : <<y, x>> \notin StrictSubsetOrdering(S)
  <2> HIDE DEF F, S
  <2> QED
    BY <1>2, <1>3, WFMin
<1>5. PICK n \in T \cap S : x = 0..n
  OBVIOUS
<1>6. ASSUME NEW m \in T, m < n PROVE FALSE
  <2>1. m \in S /\ 0..m \subseteq 0..n /\ 0..m # 0..n /\ 0..n \subseteq S
    BY <1>5, <1>6
  <2>2. <<0..m, 0..n>> \in StrictSubsetOrdering(S)
    BY <2>1 DEF StrictSubsetOrdering
  <2> QED
    BY <1>4, <1>5, <2>1, <2>2
<1> QED
  BY <1>5, <1>6

-----------------------------------------------------------------------------
(* TcpServer.  The counter counts the calls under way, and the socket while it *)
(* has not told of its end; it is destroyed when the counter falls below zero. *)
(* No connection comes once shutdown() waits for those there are.              *)
socket == v1
calls == v2
counter_ == v3
destroyed == v4
notice == v5
disconnected == v6
onceListening_ == v7
onceShutdown_ == v8
connections_ == v9
stop == v11
closing == v12
USE DEF socket, calls, counter_, destroyed, notice, disconnected, onceListening_, onceShutdown_,
        connections_, stop, closing

CallsCounted ==
  /\ counter_ = (IF "listen" \in calls THEN 1 ELSE 0) + (IF "close" \in calls THEN 1 ELSE 0)
                  - (IF disconnected = "none" THEN 0 ELSE 1)
  /\ destroyed = IF counter_ < 0 THEN 1 ELSE 0
  /\ counter_ < 0 => onceShutdown_ # "pending"

ListensOnce ==
  /\ onceListening_ = "unset" => socket = "new" /\ calls = {} /\ stop = "no"
  /\ "listen" \in calls => socket = "new" /\ stop \in {"no", "stopping"}

EndIsTold ==
  /\ socket = "gone" <=> notice # "none" \/ disconnected # "none"
  /\ notice = "none" \/ disconnected = "none"

NoneComesLater ==
  /\ "close" \in calls <=> stop = "stopping"
  /\ stop \in {"closing", "done"} =>
       socket # "listening" /\ "listen" \notin calls /\ connections_ \subseteq closing
  /\ stop = "done" => closing = {}

ServerInv == Server!TypeOK /\ CallsCounted /\ ListensOnce /\ EndIsTold /\ NoneComesLater

LEMMA ServerInit == Server!Init => ServerInv
BY DEF Server!Init, ServerInv, Server!TypeOK, CallsCounted, ListensOnce, EndIsTold, NoneComesLater

LEMMA ServerStep == ServerInv /\ [Server!Next]_(Server!vars) => ServerInv'
<1> SUFFICES ASSUME ServerInv, [Server!Next]_(Server!vars) PROVE ServerInv'
  OBVIOUS
<1> USE DEF ServerInv, Server!TypeOK, CallsCounted, ListensOnce, EndIsTold, NoneComesLater
<1>1. CASE Server!listen
  BY <1>1 DEF Server!listen, Server!Call
<1>2. CASE Server!Listened
  BY <1>2 DEF Server!Listened
<1>3. CASE Server!stopListening
  BY <1>3 DEF Server!stopListening, Server!Call
<1>4. CASE Server!Closed
  <2>1. calls' = {} /\ counter_ \in 0..1 /\ destroyed = 0
    BY <1>4 DEF Server!Closed
  <2>2. CASE disconnected = "none"
    BY <1>4, <2>1, <2>2 DEF Server!Closed, Server!After
  <2>3. CASE disconnected # "none"
    BY <1>4, <2>1, <2>3 DEF Server!Closed, Server!After
  <2> QED
    BY <2>2, <2>3
<1>5. CASE Server!closeAll
  BY <1>5 DEF Server!closeAll
<1>6. CASE Server!Breaks
  BY <1>6 DEF Server!Breaks
<1>7. CASE Server!onDisconnectHandler_
  BY <1>7 DEF Server!onDisconnectHandler_, Server!After
<1>8. ASSUME NEW c \in Conn, Server!onConnectionHandler_(c) PROVE ServerInv'
  BY <1>8 DEF Server!onConnectionHandler_
<1>9. ASSUME NEW c \in Conn, Server!Discard(c) PROVE ServerInv'
  BY <1>9 DEF Server!Discard
<1>10. CASE UNCHANGED Server!vars
  BY <1>10 DEF Server!vars
<1> QED
  BY <1>1, <1>2, <1>3, <1>4, <1>5, <1>6, <1>7, <1>8, <1>9, <1>10 DEF Server!Next

(* Once shutdown() has fulfilled no connection is left, and a socket that has  *)
(* ended was destroyed once, its end told (tcp.ts, counter.ts).                *)
THEOREM ShutdownCompletes == Spec => []ShutDown
<1> DEFINE Inv == part = "server" => ServerInv
<1>1. Init => Inv
  BY ServerInit DEF Init
<1>2. Inv /\ [Next]_vars => Inv'
  BY ServerStep DEF Next, vars, Server!vars
<1>3. Inv => ShutDown
  BY DEF ShutDown, Server!ShutDown, ServerInv, Server!TypeOK, CallsCounted, EndIsTold,
     NoneComesLater
<1> QED
  BY <1>1, <1>2, <1>3, PTL DEF Spec
HIDE DEF socket, calls, counter_, destroyed, notice, disconnected, onceListening_, onceShutdown_,
         connections_, stop, closing
-----------------------------------------------------------------------------
(* Aqm.  A packet is marked to be dropped only when an interval begins, by the *)
(* answer to one sent after the deadline of all before, and the mark goes with *)
(* the packet.                                                                 *)
now == v1
dropLevel_ == v2
dropNext_ == v3
deadline_ == v4
sent_ == v5
minDelay_ == v6
traceCounter_ == v7
traced == v8
inInterval == v9
until == v10
began == v11
USE DEF now, dropLevel_, dropNext_, deadline_, sent_, minDelay_, traceCounter_, traced, inInterval,
        until, began

MarkedOnce == dropNext_ => until < began

Clocked ==
  /\ now >= 1 /\ \A t \in traced : t <= now
  /\ traceCounter_ <= Tracing

AqmInv == Queue!TypeOK /\ MarkedOnce /\ Clocked

(* The length of an interval is a number of ticks up to BaseInterval. *)
LEMMA IntervalType == \A level \in Nat : Queue!Interval(level) \in 0..BaseInterval
<1> SUFFICES ASSUME NEW level \in Nat PROVE Queue!Interval(level) \in 0..BaseInterval
  OBVIOUS
<1> DEFINE D == {d \in 0..BaseInterval : d * d * level <= BaseInterval * BaseInterval}
           T == {BaseInterval - d : d \in D}
<1>1. BaseInterval \in Nat
  BY QueueAssumption
<1>2. 0 \in D
  <2>1. 0 * 0 * level = 0
    OBVIOUS
  <2>2. BaseInterval * BaseInterval \in Nat
    BY <1>1
  <2> QED
    BY <1>1, <2>1, <2>2
<1>3. D \subseteq 0..BaseInterval
  OBVIOUS
<1>4. Queue!Interval(level) = CHOOSE x \in D : \A y \in D : x >= y
  BY DEF Queue!Interval, Queue!Max
<1> HIDE DEF D
<1>5. T \subseteq Nat /\ T # {}
  BY <1>1, <1>2, <1>3
<1>6. PICK n \in T : \A m \in T : n <= m
  <2> HIDE DEF T
  <2> QED
    BY <1>5, Least
<1>7. PICK x \in D : n = BaseInterval - x
  OBVIOUS
<1>8. \A y \in D : x >= y
  BY <1>1, <1>3, <1>6, <1>7
<1> QED
  BY <1>3, <1>4, <1>7, <1>8

(* The shorter of the shortest delay and a new one. *)
LEMMA MinDelayType ==
  ASSUME NEW x \in 0..MaxTime + 1, NEW y \in 0..MaxTime + 1
  PROVE  Queue!Min({x, y}) \in 0..MaxTime + 1
BY QueueAssumption DEF Queue!Min

LEMMA QueueConstants ==
  /\ BaseInterval \in Nat /\ MaxSends \in Nat
  /\ Tracing \in Nat /\ Tracing >= 1
  /\ MaxTime \in Nat /\ MaxTime >= 1
  /\ MaxLevel \in Nat /\ MaxLevel >= 1
BY QueueAssumption

LEMMA TraceBound == \A n \in 0..Tracing : n \in 0..(2 * Tracing) /\ n <= Tracing
BY QueueConstants

LEMMA AqmInit == Queue!Init => AqmInv
<1> SUFFICES ASSUME Queue!Init PROVE AqmInv
  OBVIOUS
<1> USE QueueConstants DEF Queue!Init
<1>0. dropNext_ \in BOOLEAN
  BY Zenon
<1>1. now \in 0..MaxTime /\ dropLevel_ \in 1..MaxLevel
  OBVIOUS
<1>2. deadline_ \in 0..(MaxTime + BaseInterval) /\ sent_ \in 0..MaxSends
  OBVIOUS
<1>3. minDelay_ \in 0..Queue!Infinity /\ traceCounter_ \in 0..(2 * Tracing)
  BY DEF Queue!Infinity
<1>4. traced \subseteq 1..MaxTime /\ inInterval \in 0..sent_ /\ until \in 0..deadline_ /\ began \in 0..now
  OBVIOUS
<1>5. MarkedOnce /\ Clocked
  BY DEF MarkedOnce, Clocked
<1> QED
  BY <1>0, <1>1, <1>2, <1>3, <1>4, <1>5, Zenon DEF AqmInv, Queue!TypeOK

LEMMA AqmStep == AqmInv /\ [Queue!Next]_(Queue!vars) => AqmInv'
<1> SUFFICES ASSUME AqmInv, [Queue!Next]_(Queue!vars) PROVE AqmInv'
  OBVIOUS
<1> USE QueueConstants DEF AqmInv, Queue!TypeOK, Queue!Infinity, MarkedOnce, Clocked
<1>1. CASE Queue!send
  <2>1. /\ sent_' = sent_ + 1 /\ sent_ < MaxSends /\ inInterval' = inInterval + 1
        /\ UNCHANGED <<now, dropLevel_, deadline_, minDelay_, began>>
    BY <1>1 DEF Queue!send
  <2>2. sent_' \in 0..MaxSends /\ inInterval' \in 0..sent_'
    BY <2>1
  <2>3. CASE dropNext_
    <3>1. /\ until' = deadline_ /\ dropNext_' = FALSE
          /\ UNCHANGED <<traceCounter_, traced>>
      BY <1>1, <2>3 DEF Queue!send
    <3>2. until' \in 0..deadline_' /\ MarkedOnce'
      BY <2>1, <3>1
    <3> QED
      BY <2>1, <2>2, <3>1, <3>2
  <2>4. CASE ~dropNext_
    <3>1. UNCHANGED <<dropNext_, until>>
      BY <1>1, <2>4 DEF Queue!send
    <3>2. \/ traced' = traced \cup {now} /\ traceCounter_' = traceCounter_ - Tracing + 1
             /\ traceCounter_ >= Tracing
          \/ traced' = traced /\ traceCounter_' = traceCounter_ + 1 /\ traceCounter_ < Tracing
      BY <1>1, <2>4 DEF Queue!send
    <3>3. until' \in 0..deadline_' /\ MarkedOnce'
      BY <2>1, <2>4, <3>1
    <3>4. traceCounter_' \in 0..(2 * Tracing) /\ traceCounter_' <= Tracing
      <4>1. traceCounter_ \in 0..Tracing
        OBVIOUS
      <4>2. traceCounter_' \in 0..Tracing
        BY <3>2, <4>1
      <4> QED
        BY <4>2, TraceBound
    <3>5. traced' \subseteq 1..MaxTime /\ \A t \in traced' : t <= now'
      <4>1. now \in 1..MaxTime /\ traced \subseteq 1..MaxTime /\ \A t \in traced : t <= now
        OBVIOUS
      <4>2. now' = now /\ traced' \subseteq traced \cup {now}
        BY <2>1, <3>2
      <4> HIDE DEF AqmInv
      <4> QED
        BY <4>1, <4>2
    <3> QED
      BY <2>1, <2>2, <3>1, <3>3, <3>4, <3>5
  <2> QED
    BY <2>3, <2>4
<1>2. CASE Queue!Tick
  BY <1>2 DEF Queue!Tick
<1>3. ASSUME NEW t \in traced, Queue!Left(t) PROVE AqmInv'
  <2> DEFINE minDelay == Queue!Min({minDelay_, now - t})
  <2>1. minDelay \in 0..MaxTime + 1
    <3>1. now - t \in 0..MaxTime + 1
      OBVIOUS
    <3> QED
      BY <3>1, MinDelayType
  <2> HIDE DEF minDelay
  <2>2. CASE t > deadline_
    <3>1. /\ Queue!endOfInterval_(minDelay) /\ began' = t /\ traced' = traced \ {t}
          /\ UNCHANGED <<now, sent_, until>>
      BY <1>3, <2>2 DEF Queue!Left, minDelay
    <3>2. dropLevel_' \in 1..MaxLevel
      BY <3>1 DEF Queue!endOfInterval_
    <3>3. Queue!Interval(dropLevel_') \in 0..BaseInterval
      BY <3>2, IntervalType
    <3>4. deadline_' \in 0..(MaxTime + BaseInterval) /\ deadline_' >= now
      BY <3>1, <3>3 DEF Queue!endOfInterval_
    <3>5. /\ dropNext_' \in BOOLEAN /\ minDelay_' = MaxTime + 1 /\ traceCounter_' = Tracing
          /\ inInterval' = 0
      BY <3>1 DEF Queue!endOfInterval_
    <3>6. t \in 1..now /\ until <= deadline_ /\ deadline_ < t
      BY <2>2
    <3>7. until' \in 0..deadline_' /\ until' < began' /\ began' \in 0..now'
      BY <3>1, <3>4, <3>6
    <3> QED
      BY <3>1, <3>2, <3>4, <3>5, <3>7
  <2>3. CASE ~(t > deadline_)
    <3>1. /\ minDelay_' = minDelay /\ traced' = traced \ {t}
          /\ UNCHANGED <<dropLevel_, dropNext_, traceCounter_, deadline_, inInterval, until,
                         began, now, sent_>>
      BY <1>3, <2>3 DEF Queue!Left, minDelay
    <3> QED
      BY <2>1, <3>1
  <2> QED
    BY <2>2, <2>3
<1>4. ASSUME NEW t \in traced, Queue!Failed(t) PROVE AqmInv'
  BY <1>4 DEF Queue!Failed
<1>5. CASE UNCHANGED Queue!vars
  BY <1>5 DEF Queue!vars
<1> QED
  BY <1>1, <1>2, <1>3, <1>4, <1>5 DEF Queue!Next

(* Between two dropped packets the whole interval of the first goes by, and    *)
(* the second is marked on account of a packet sent after it, however late or  *)
(* out of order the traced ones are answered (aqm.ts:158-176, 184-213).        *)
THEOREM OneDrop == Spec => []OneDropAnInterval
<1> DEFINE Inv == part = "aqm" => AqmInv
<1>1. Init => Inv
  BY AqmInit DEF Init
<1>2. Inv /\ [Next]_vars => Inv'
  BY AqmStep DEF Next, vars, Queue!vars
<1>3. Inv => OneDropAnInterval
  BY DEF OneDropAnInterval, Queue!OneDropAnInterval, AqmInv, MarkedOnce
<1> QED
  BY <1>1, <1>2, <1>3, PTL DEF Spec
HIDE DEF now, dropLevel_, dropNext_, deadline_, sent_, minDelay_, traceCounter_, traced, inInterval,
         until, began
-----------------------------------------------------------------------------
(* Channels.  An entry of the table has the label of its channel, for a label  *)
(* is given to a channel once, so the end of a channel takes out no entry that *)
(* is its own under another label.                                             *)
stage == v1
label == v2
ours == v3
shut == v4
channels_ == v5
maxChannels_ == v6
sdps == v7
control == v8
state_ == v9
USE DEF stage, label, ours, shut, channels_, maxChannels_, sdps, control, state_

Labelled ==
  /\ \A c \in Channel : stage[c] = "none" <=> label[c] = None
  /\ \A l \in Table!Labels : channels_[l] # None => label[channels_[l]] = l

ChannelsInv == Table!TypeOK /\ Labelled /\ Table!TableIsTrue

LEMMA ChannelsInit == Table!Init => ChannelsInv
BY TableAssumption DEF Table!Init, ChannelsInv, Table!TypeOK, Labelled, Table!TableIsTrue

LEMMA ChannelsStep == ChannelsInv /\ [Table!Next]_(Table!vars) => ChannelsInv'
<1> SUFFICES ASSUME ChannelsInv, [Table!Next]_(Table!vars) PROVE ChannelsInv'
  OBVIOUS
<1>0. None \notin Channel /\ None \notin Table!Labels
  BY TableAssumption DEF Table!Labels
<1> USE DEF ChannelsInv, Table!TypeOK, Labelled, Table!TableIsTrue
<1>1. ASSUME NEW c \in Channel, NEW l \in Table!Labels, NEW byUs \in BOOLEAN,
             NEW at \in {"creating", "wrapping"}, Table!Starts(c, l, byUs, at)
      PROVE  ChannelsInv'
  <2>1. Table!TypeOK'
    BY <1>1 DEF Table!Starts, Table!signalling
  <2>2. \A d \in Channel : d # c => stage'[d] = stage[d] /\ label'[d] = label[d]
    BY <1>1 DEF Table!Starts
  <2>3. stage[c] = "none" /\ stage'[c] = at /\ label[c] = None /\ label'[c] = l /\ channels_' = channels_
    BY <1>1 DEF Table!Starts
  <2>4. Labelled'
    BY <1>0, <1>1, <2>2, <2>3
  <2>5. Table!TableIsTrue'
    BY <1>0, <1>1, <2>2, <2>3
  <2> QED
    BY <2>1, <2>4, <2>5
<1>2. ASSUME NEW c \in Channel, NEW l \in Table!Labels,
             (Table!openDataChannel(c, l) \/ Table!onPeerStartedDataChannel_(c, l)
                \/ Table!negotiateConnection(c))
      PROVE  ChannelsInv'
  BY <1>1, <1>2 DEF Table!openDataChannel, Table!onPeerStartedDataChannel_,
     Table!negotiateConnection, Table!Labels
<1>3. ASSUME NEW c \in Channel, Table!Created(c) PROVE ChannelsInv'
  BY <1>3 DEF Table!Created, Table!signalling
<1>4. ASSUME NEW c \in Channel, Table!addRtcDataChannel_(c) PROVE ChannelsInv'
  <2>1. label[c] \in Table!Labels /\ stage[c] = "wrapping"
    BY <1>0, <1>4 DEF Table!addRtcDataChannel_
  <2>2. Table!TypeOK'
    BY <1>4, <2>1 DEF Table!addRtcDataChannel_, Table!signalling, Table!registerControlChannel_
  <2>3. /\ stage'[c] = "listed" /\ \A d \in Channel : d # c => stage'[d] = stage[d]
        /\ channels_'[label[c]] = c
        /\ \A l \in Table!Labels : l # label[c] => channels_'[l] = channels_[l]
        /\ label' = label
    BY <1>4, <2>1 DEF Table!addRtcDataChannel_
  <2>4. Labelled'
    BY <1>0, <2>1, <2>3
  <2>5. Table!TableIsTrue'
    BY <1>0, <2>1, <2>3
  <2> QED
    BY <2>2, <2>4, <2>5
<1>5. CASE Table!ControlOpens
  BY <1>5 DEF Table!ControlOpens, Table!signalling
<1>6. ASSUME NEW c \in Channel, Table!Closes(c) PROVE ChannelsInv'
  BY <1>6 DEF Table!Closes, Table!signalling
<1>7. ASSUME NEW c \in Channel, Table!OnceClosed(c) PROVE ChannelsInv'
  <2>1. label[c] \in Table!Labels /\ stage[c] = "listed"
    BY <1>0, <1>7 DEF Table!OnceClosed
  <2>2. Table!TypeOK'
    BY <1>7, <2>1 DEF Table!OnceClosed, Table!signalling
  <2>3. /\ stage'[c] = "unlisted" /\ \A d \in Channel : d # c => stage'[d] = stage[d]
        /\ channels_'[label[c]] = None
        /\ \A l \in Table!Labels : l # label[c] => channels_'[l] = channels_[l]
        /\ label' = label
    BY <1>7, <2>1 DEF Table!OnceClosed
  <2>4. Labelled'
    BY <1>0, <2>1, <2>3
  <2>5. Table!TableIsTrue'
    BY <1>0, <2>1, <2>3
  <2> QED
    BY <2>2, <2>4, <2>5
<1>8. ASSUME NEW max \in Maxima, Table!updateMaxChannels_(max) PROVE ChannelsInv'
  BY <1>8 DEF Table!updateMaxChannels_
<1>9. CASE Table!close
  BY <1>9 DEF Table!close, Table!signalling
<1>10. CASE UNCHANGED Table!vars
  BY <1>10 DEF Table!vars, Table!signalling
<1> QED
  BY <1>2, <1>3, <1>4, <1>5, <1>6, <1>7, <1>8, <1>9, <1>10 DEF Table!Next, Table!Labels

(* The table lists no channel whose close was handled and every other, unless  *)
(* two share a label (peerconnection.ts).                                      *)
THEOREM TableStaysTrue == Spec => []TableIsTrue
<1> DEFINE Inv == part = "channels" => ChannelsInv
<1>1. Init => Inv
  BY ChannelsInit DEF Init
<1>2. Inv /\ [Next]_vars => Inv'
  BY ChannelsStep DEF Next, vars, Table!vars, Table!signalling
<1>3. Inv => TableIsTrue
  BY DEF TableIsTrue, ChannelsInv
<1> QED
  BY <1>1, <1>2, <1>3, PTL DEF Spec
HIDE DEF stage, label, ours, shut, channels_, maxChannels_, sdps, control, state_
-----------------------------------------------------------------------------
(* Logging.  What a listener was told last is the lowest level of its tag: it  *)
(* is told whenever that changes.  The messages recorded and those under way   *)
(* are no more than were logged.                                               *)
default_ == v1
filters_ == v2
logBuffer == v3
recorded == v4
enabled == v5
listeners == v6
minLevel == v7
events == v8
calls_ == v9
changes == v10
logs == v11
USE DEF default_, filters_, logBuffer, recorded, enabled, listeners, minLevel, events, calls_,
        changes, logs

LogLevel == 0..3
TellType ==
  /\ default_ \in [Destination -> LogLevel]
  /\ filters_ \in [Destination -> [Tag -> LogLevel \cup {None}]]
  /\ enabled \in BOOLEAN /\ listeners \subseteq Client
  /\ minLevel \in [Client -> LogLevel] /\ events \in [Client -> Seq(LogLevel)]
  /\ changes \in 0..MaxChanges

(* The messages under way to the provider. *)
UnderWay == {p \in Client \X (Nat \ {0}) : p[2] <= Len(calls_[p[1]])}

CallType ==
  /\ calls_ \in [Client -> Seq(LogLevel)]
  /\ logBuffer \in Seq(Nat) /\ Len(logBuffer) <= MAX_BUFFERED_LOG + 1
  /\ recorded \in Nat /\ logs \in 0..MaxLogs
  /\ IsFiniteSet(UnderWay) /\ recorded + Cardinality(UnderWay) <= logs

LogsInv == TellType /\ CallType /\ Logs!LevelIsTold

LEMMA Tags == TagOf \in [Client -> Tag]
BY LogsAssumption DEF TagOf

(* The lowest level a tag is kept at is a level. *)
LEMMA LowestLevel ==
  ASSUME NEW default \in [Destination -> LogLevel],
         NEW filters \in [Destination -> [Tag -> LogLevel \cup {None}]], NEW t \in Tag
  PROVE  Logs!getMinLevel(default, filters, t) \in LogLevel
<1> DEFINE level(d) == Logs!getLevelForTag(default, filters, d, t)
           Is(m) == /\ \A d \in Destination : m <= level(d)
                    /\ m = 3 \/ \E d \in Destination : m = level(d)
<1>1. \A d \in Destination : level(d) \in LogLevel
  BY DEF Logs!getLevelForTag
<1> HIDE DEF level
<1>2. \E m \in LogLevel : Is(m)
  <2>1. CASE \E d \in Destination : level(d) = 0
    BY <1>1, <2>1 DEF LogLevel
  <2>2. CASE ~(\E d \in Destination : level(d) = 0) /\ \E d \in Destination : level(d) = 1
    BY <1>1, <2>2 DEF LogLevel
  <2>3. CASE ~(\E d \in Destination : level(d) \in 0..1) /\ \E d \in Destination : level(d) = 2
    BY <1>1, <2>3 DEF LogLevel
  <2>4. CASE ~(\E d \in Destination : level(d) \in 0..2)
    BY <1>1, <2>4 DEF LogLevel
  <2> QED
    BY <1>1, <2>1, <2>2, <2>3, <2>4 DEF LogLevel
<1>3. Logs!getMinLevel(default, filters, t) = CHOOSE m \in LogLevel : Is(m)
  BY DEF Logs!getMinLevel, level, Logs!Level, LogLevel
<1> HIDE DEF Is
<1> QED
  BY <1>2, <1>3

(* Cutting a tenth off keeps the buffer to one above its size. *)
LEMMA PushBounded ==
  ASSUME NEW b \in Seq(Nat), Len(b) <= MAX_BUFFERED_LOG + 1, NEW m \in Nat
  PROVE  Logs!Push(b, m) \in Seq(Nat) /\ Len(Logs!Push(b, m)) <= MAX_BUFFERED_LOG + 1
<1> DEFINE kept == IF Len(b) > MAX_BUFFERED_LOG THEN SubSeq(b, 1 + Trimmed, Len(b)) ELSE b
<1>0. MAX_BUFFERED_LOG \in Nat /\ Trimmed \in Nat /\ Trimmed >= 1
  BY LogsAssumption
<1>1. kept \in Seq(Nat) /\ Len(kept) <= MAX_BUFFERED_LOG
  <2>1. CASE Len(b) > MAX_BUFFERED_LOG
    <3>1. \A k \in 1 + Trimmed .. Len(b) : b[k] \in Nat
      BY <1>0
    <3>2. /\ SubSeq(b, 1 + Trimmed, Len(b)) \in Seq(Nat)
          /\ Len(SubSeq(b, 1 + Trimmed, Len(b)))
               = IF 1 + Trimmed <= Len(b) THEN Len(b) - (1 + Trimmed) + 1 ELSE 0
      BY <1>0, <3>1, SubSeqProperties
    <3> QED
      BY <1>0, <2>1, <3>2
  <2>2. CASE ~(Len(b) > MAX_BUFFERED_LOG)
    BY <1>0, <2>2
  <2> QED
    BY <2>1, <2>2
<1>2. Logs!Push(b, m) = Append(kept, m)
  BY DEF Logs!Push
<1> HIDE DEF kept
<1> QED
  BY <1>0, <1>1, <1>2

LEMMA LogsInit == Logs!Init => LogsInv
<1> SUFFICES ASSUME Logs!Init PROVE LogsInv
  OBVIOUS
<1>1. TellType
  BY LogsAssumption DEF Logs!Init, TellType, LogLevel
<1>2. UnderWay = {}
  BY DEF Logs!Init, UnderWay
<1>3. IsFiniteSet(UnderWay) /\ Cardinality(UnderWay) = 0
  BY <1>2, FS_EmptySet
<1>4. CallType
  <2> HIDE DEF UnderWay
  <2> QED
    BY <1>3, LogsAssumption DEF Logs!Init, CallType
<1> QED
  BY <1>1, <1>4 DEF LogsInv, Logs!LevelIsTold, Logs!Init

LEMMA FiltersStep ==
  ASSUME LogsInv, NEW default \in [Destination -> LogLevel],
         NEW filters \in [Destination -> [Tag -> LogLevel \cup {None}]],
         Logs!doFilterChanges_(default, filters)
  PROVE  LogsInv'
<1> DEFINE lowest(c) == Logs!getMinLevel(default, filters, TagOf[c])
           before(c) == Logs!getMinLevel(default_, filters_, TagOf[c])
<1>1. \A c \in Client : lowest(c) \in LogLevel /\ before(c) \in LogLevel
  BY Tags, LowestLevel DEF LogsInv, TellType
<1>2. /\ changes < MaxChanges /\ changes' = changes + 1 /\ default_' = default
      /\ filters_' = filters
      /\ events' = [c \in Client |-> IF c \in listeners /\ lowest(c) # before(c)
                                     THEN Append(events[c], lowest(c)) ELSE events[c]]
      /\ UNCHANGED <<logBuffer, recorded, enabled, listeners, minLevel, calls_, logs>>
  BY DEF Logs!doFilterChanges_, Logs!buffering
<1>3. \A c \in listeners : Logs!getMinLevel(default_, filters_, TagOf[c])' = lowest(c)
  BY <1>2 DEF Logs!getMinLevel, Logs!getLevelForTag
<1>4. \A c \in listeners :
        (IF events[c] = <<>> THEN minLevel[c] ELSE events[c][Len(events[c])]) = before(c)
  BY DEF LogsInv, Logs!LevelIsTold
<1> HIDE DEF lowest, before
<1>5. TellType'
  BY <1>1, <1>2, LogsAssumption DEF LogsInv, TellType
<1>6. CallType'
  BY <1>2 DEF LogsInv, CallType, UnderWay
<1>7. \A c \in listeners :
        (IF events'[c] = <<>> THEN minLevel[c] ELSE events'[c][Len(events'[c])]) = lowest(c)
  <2> SUFFICES ASSUME NEW c \in listeners
               PROVE  (IF events'[c] = <<>> THEN minLevel[c] ELSE events'[c][Len(events'[c])])
                        = lowest(c)
    OBVIOUS
  <2>1. c \in Client /\ events[c] \in Seq(LogLevel)
    BY DEF LogsInv, TellType
  <2>2. CASE lowest(c) # before(c)
    <3>1. events'[c] = Append(events[c], lowest(c))
      BY <1>2, <2>1, <2>2
    <3> QED
      BY <1>1, <2>1, <3>1
  <2>3. CASE lowest(c) = before(c)
    BY <1>2, <1>4, <2>1, <2>3
  <2> QED
    BY <2>2, <2>3
<1>8. Logs!LevelIsTold'
  BY <1>2, <1>3, <1>7 DEF Logs!LevelIsTold
<1> QED
  BY <1>5, <1>6, <1>8 DEF LogsInv

(* A step that leaves what tells the listeners alone. *)
LEMMA ToldStill ==
  ASSUME LogsInv, UNCHANGED <<default_, filters_, listeners, minLevel, events>>
  PROVE  Logs!LevelIsTold'
BY DEF LogsInv, Logs!LevelIsTold, Logs!getMinLevel, Logs!getLevelForTag

LEMMA ListensStep == ASSUME LogsInv, NEW c \in Client, Logs!Listens(c) PROVE LogsInv'
<1> DEFINE lowest(k) == Logs!getMinLevel(default_, filters_, TagOf[k])
<1>1. /\ c \notin listeners /\ listeners' = listeners \cup {c}
      /\ events' = [events EXCEPT ![c] = Append(events[c], lowest(c))]
      /\ UNCHANGED <<default_, filters_, logBuffer, recorded, enabled, minLevel, calls_, changes,
                     logs>>
  BY DEF Logs!Listens, Logs!filtering, Logs!buffering
<1>2. lowest(c) \in LogLevel
  BY Tags, LowestLevel DEF LogsInv, TellType
<1>3. \A k \in Client : Logs!getMinLevel(default_, filters_, TagOf[k])' = lowest(k)
  BY <1>1 DEF Logs!getMinLevel, Logs!getLevelForTag
<1>4. \A k \in listeners :
        (IF events[k] = <<>> THEN minLevel[k] ELSE events[k][Len(events[k])]) = lowest(k)
  BY DEF LogsInv, Logs!LevelIsTold
<1> HIDE DEF lowest
<1>5. events \in [Client -> Seq(LogLevel)] /\ listeners \subseteq Client
  BY DEF LogsInv, TellType
<1>6. events'[c] # <<>> /\ events'[c][Len(events'[c])] = lowest(c) /\ events'[c] \in Seq(LogLevel)
  BY <1>1, <1>2, <1>5
<1>7. \A k \in Client : k # c => events'[k] = events[k]
  BY <1>1, <1>5
<1>8. TellType'
  BY <1>1, <1>2, <1>5, <1>6 DEF LogsInv, TellType
<1>9. CallType'
  BY <1>1 DEF LogsInv, CallType, UnderWay
<1>10. Logs!LevelIsTold'
  BY <1>1, <1>3, <1>4, <1>5, <1>6, <1>7 DEF Logs!LevelIsTold
<1> QED
  BY <1>8, <1>9, <1>10 DEF LogsInv

(* The last element of a tail, or the head that was the last. *)
LEMMA LastOfTail ==
  ASSUME NEW S, NEW s \in Seq(S), s # <<>>
  PROVE  (IF Tail(s) = <<>> THEN Head(s) ELSE Tail(s)[Len(Tail(s))]) = s[Len(s)]
<1>1. /\ Tail(s) \in Seq(S) /\ Len(Tail(s)) = Len(s) - 1 /\ Len(s) \in Nat
      /\ \A k \in 1 .. Len(Tail(s)) : Tail(s)[k] = s[k + 1]
      /\ Head(s) = s[1]
  OBVIOUS
<1> DEFINE t == Tail(s)
<1>2. t = <<>> => Len(t) = 0
  BY EmptySeq
<1>3. t # <<>> => Len(t) \in Nat \ {0}
  BY <1>1, EmptySeq
<1> HIDE DEF t
<1> QED
  BY <1>1, <1>2, <1>3 DEF t

LEMMA setMinLevelStep == ASSUME LogsInv, NEW c \in Client, Logs!setMinLevel_(c) PROVE LogsInv'
<1> DEFINE lowest(k) == Logs!getMinLevel(default_, filters_, TagOf[k])
<1>1. /\ events[c] # <<>> /\ minLevel' = [minLevel EXCEPT ![c] = Head(events[c])]
      /\ events' = [events EXCEPT ![c] = Tail(events[c])]
      /\ UNCHANGED <<default_, filters_, logBuffer, recorded, enabled, listeners, calls_, changes,
                     logs>>
  BY DEF Logs!setMinLevel_, Logs!filtering, Logs!buffering
<1>3. \A k \in Client : Logs!getMinLevel(default_, filters_, TagOf[k])' = lowest(k)
  BY <1>1 DEF Logs!getMinLevel, Logs!getLevelForTag
<1>4. \A k \in listeners :
        (IF events[k] = <<>> THEN minLevel[k] ELSE events[k][Len(events[k])]) = lowest(k)
  BY DEF LogsInv, Logs!LevelIsTold
<1> HIDE DEF lowest
<1>5. /\ events \in [Client -> Seq(LogLevel)] /\ listeners \subseteq Client
      /\ minLevel \in [Client -> LogLevel]
  BY DEF LogsInv, TellType
<1>6. /\ Head(events[c]) \in LogLevel /\ Tail(events[c]) \in Seq(LogLevel)
      /\ Len(Tail(events[c])) = Len(events[c]) - 1
      /\ \A i \in 1 .. Len(Tail(events[c])) : Tail(events[c])[i] = events[c][i + 1]
      /\ Len(events[c]) \in Nat /\ Head(events[c]) = events[c][1]
  BY <1>1, <1>5
<1>7. \A k \in Client : k # c => events'[k] = events[k] /\ minLevel'[k] = minLevel[k]
  BY <1>1, <1>5
<1>8. TellType'
  BY <1>1, <1>5, <1>6 DEF LogsInv, TellType
<1>9. CallType'
  BY <1>1 DEF LogsInv, CallType, UnderWay
<1>10. minLevel'[c] = Head(events[c]) /\ events'[c] = Tail(events[c])
  BY <1>1, <1>5
<1>11. (IF events'[c] = <<>> THEN minLevel'[c] ELSE events'[c][Len(events'[c])])
         = events[c][Len(events[c])]
  BY <1>1, <1>5, <1>10, LastOfTail
<1>12. Logs!LevelIsTold'
  BY <1>1, <1>3, <1>4, <1>5, <1>7, <1>11 DEF Logs!LevelIsTold
<1> QED
  BY <1>8, <1>9, <1>12 DEF LogsInv

(* A message is sent to the provider: one more is under way. *)
LEMMA LogStep ==
  ASSUME LogsInv, NEW c \in Client, NEW l \in Used, Logs!log_(c, l) PROVE LogsInv'
<1>1. /\ logs < MaxLogs /\ logs' = logs + 1
      /\ calls_' = calls_ \/ calls_' = [calls_ EXCEPT ![c] = Append(calls_[c], l)]
      /\ UNCHANGED <<default_, filters_, logBuffer, recorded, enabled, listeners, minLevel, events,
                     changes>>
  BY DEF Logs!log_, Logs!filtering, Logs!buffering
<1>2. TellType' /\ Logs!LevelIsTold'
  BY <1>1, ToldStill DEF LogsInv, TellType
<1>3. l \in LogLevel /\ MaxLogs \in Nat
  BY LogsAssumption DEF LogLevel
<1>4. CallType'
  <2>0. calls_ \in [Client -> Seq(LogLevel)] /\ IsFiniteSet(UnderWay)
        /\ recorded \in Nat /\ logs \in 0..MaxLogs /\ recorded + Cardinality(UnderWay) <= logs
    BY DEF LogsInv, CallType
  <2>1. Cardinality(UnderWay) \in Nat
    BY <2>0, FS_CardinalityType
  <2>2. CASE calls_' = calls_
    <3>1. UnderWay' = UnderWay
      BY <2>2 DEF UnderWay
    <3> HIDE DEF UnderWay
    <3> QED
      BY <1>1, <1>3, <2>0, <2>1, <2>2, <3>1 DEF LogsInv, CallType
  <2>3. CASE calls_' = [calls_ EXCEPT ![c] = Append(calls_[c], l)]
    <3>1. /\ calls_'[c] \in Seq(LogLevel) /\ Len(calls_'[c]) = Len(calls_[c]) + 1
          /\ Len(calls_[c]) \in Nat
      BY <1>3, <2>0, <2>3
    <3>2. \A k \in Client : k # c => calls_'[k] = calls_[k]
      BY <2>0, <2>3
    <3>3. UnderWay' = UnderWay \cup {<<c, Len(calls_[c]) + 1>>}
      <4>1. ASSUME NEW p \in Client \X (Nat \ {0})
            PROVE  p \in UnderWay' <=> p \in UnderWay \cup {<<c, Len(calls_[c]) + 1>>}
        <5>1. CASE p[1] = c
          BY <3>1, <5>1 DEF UnderWay
        <5>2. CASE p[1] # c
          BY <3>2, <5>2 DEF UnderWay
        <5> QED
          BY <5>1, <5>2
      <4>2. <<c, Len(calls_[c]) + 1>> \in Client \X (Nat \ {0})
        BY <3>1
      <4>3. UnderWay \subseteq Client \X (Nat \ {0}) /\ UnderWay' \subseteq Client \X (Nat \ {0})
        BY DEF UnderWay
      <4> QED
        BY <4>1, <4>2, <4>3
    <3>4. IsFiniteSet(UnderWay') /\ Cardinality(UnderWay') <= Cardinality(UnderWay) + 1
      <4> DEFINE p == <<c, Len(calls_[c]) + 1>>
      <4> HIDE DEF UnderWay, p
      <4>1. /\ IsFiniteSet(UnderWay \cup {p})
            /\ Cardinality(UnderWay \cup {p})
                 = IF p \in UnderWay THEN Cardinality(UnderWay) ELSE Cardinality(UnderWay) + 1
        BY <2>0, FS_AddElement
      <4>2. UnderWay' = UnderWay \cup {p}
        BY <3>3 DEF p
      <4> QED
        BY <2>1, <4>1, <4>2
    <3>5. Cardinality(UnderWay') \in Nat
      BY <3>4, FS_CardinalityType
    <3>6. calls_' \in [Client -> Seq(LogLevel)]
      BY <2>0, <2>3, <3>1
    <3> HIDE DEF UnderWay
    <3> QED
      BY <1>1, <1>3, <2>0, <2>1, <3>4, <3>5, <3>6 DEF LogsInv, CallType
  <2> QED
    BY <1>1, <2>2, <2>3
<1> QED
  BY <1>2, <1>4 DEF LogsInv

(* The provider takes a message: it may be recorded, and is no longer under way. *)
LEMMA LoggedStep == ASSUME LogsInv, NEW c \in Client, Logs!Logged(c) PROVE LogsInv'
<1>1. /\ calls_[c] # <<>> /\ calls_' = [calls_ EXCEPT ![c] = Tail(calls_[c])]
      /\ \/ recorded' = recorded + 1 /\ logBuffer' = Logs!Push(logBuffer, recorded + 1)
         \/ UNCHANGED <<recorded, logBuffer>>
      /\ UNCHANGED <<default_, filters_, enabled, listeners, minLevel, events, changes, logs>>
  BY DEF Logs!Logged, Logs!filtering, Logs!buffering
<1>2. TellType' /\ Logs!LevelIsTold'
  BY <1>1, ToldStill DEF LogsInv, TellType
<1>3. /\ calls_ \in [Client -> Seq(LogLevel)] /\ IsFiniteSet(UnderWay)
      /\ recorded \in Nat /\ logs \in 0..MaxLogs /\ recorded + Cardinality(UnderWay) <= logs
      /\ logBuffer \in Seq(Nat) /\ Len(logBuffer) <= MAX_BUFFERED_LOG + 1
  BY DEF LogsInv, CallType
<1>4. Cardinality(UnderWay) \in Nat
  BY <1>3, FS_CardinalityType
<1>5. /\ Tail(calls_[c]) \in Seq(LogLevel) /\ Len(Tail(calls_[c])) = Len(calls_[c]) - 1
      /\ Len(calls_[c]) \in Nat \ {0}
  BY <1>1, <1>3
<1>6. calls_' \in [Client -> Seq(LogLevel)] /\ calls_'[c] = Tail(calls_[c])
      /\ \A k \in Client : k # c => calls_'[k] = calls_[k]
  BY <1>1, <1>3, <1>5
<1>7. UnderWay' = UnderWay \ {<<c, Len(calls_[c])>>}
  <2>1. ASSUME NEW p \in Client \X (Nat \ {0})
        PROVE  p \in UnderWay' <=> p \in UnderWay \ {<<c, Len(calls_[c])>>}
    <3>1. CASE p[1] = c
      BY <1>5, <1>6, <3>1 DEF UnderWay
    <3>2. CASE p[1] # c
      BY <1>6, <3>2 DEF UnderWay
    <3> QED
      BY <3>1, <3>2
  <2>2. UnderWay \subseteq Client \X (Nat \ {0}) /\ UnderWay' \subseteq Client \X (Nat \ {0})
    BY DEF UnderWay
  <2> QED
    BY <2>1, <2>2
<1>8. <<c, Len(calls_[c])>> \in UnderWay
  BY <1>5 DEF UnderWay
<1> HIDE DEF UnderWay
<1>9. IsFiniteSet(UnderWay') /\ Cardinality(UnderWay') = Cardinality(UnderWay) - 1
  BY <1>3, <1>4, <1>7, <1>8, FS_RemoveElement
<1>10. logBuffer' \in Seq(Nat) /\ Len(logBuffer') <= MAX_BUFFERED_LOG + 1
  <2>1. recorded + 1 \in Nat
    BY <1>3
  <2>2. /\ Logs!Push(logBuffer, recorded + 1) \in Seq(Nat)
        /\ Len(Logs!Push(logBuffer, recorded + 1)) <= MAX_BUFFERED_LOG + 1
    BY <1>3, <2>1, PushBounded
  <2> QED
    BY <1>1, <1>3, <2>2
<1>11. recorded' \in Nat /\ recorded' + Cardinality(UnderWay') <= logs
  BY <1>1, <1>3, <1>4, <1>9
<1>12. CallType'
  BY <1>1, <1>3, <1>6, <1>9, <1>10, <1>11 DEF CallType
<1> QED
  BY <1>2, <1>12 DEF LogsInv

LEMMA LogsStep == LogsInv /\ [Logs!Next]_(Logs!vars) => LogsInv'
<1> SUFFICES ASSUME LogsInv, [Logs!Next]_(Logs!vars) PROVE LogsInv'
  OBVIOUS
<1>0. /\ default_ \in [Destination -> LogLevel]
      /\ filters_ \in [Destination -> [Tag -> LogLevel \cup {None}]] /\ Used \subseteq LogLevel
  BY LogsAssumption DEF LogsInv, TellType, LogLevel
<1>1. ASSUME NEW d \in Destination, NEW l \in Used, Logs!setDefaultFilter(d, l) PROVE LogsInv'
  <2>1. [default_ EXCEPT ![d] = l] \in [Destination -> LogLevel]
    BY <1>0
  <2> QED
    BY <1>0, <1>1, <2>1, FiltersStep DEF Logs!setDefaultFilter
<1>2. ASSUME NEW d \in Destination, NEW t \in Tag, NEW l \in Used \cup {None},
             Logs!setFilter(d, t, l)
      PROVE  LogsInv'
  <2>1. [filters_ EXCEPT ![d][t] = l] \in [Destination -> [Tag -> LogLevel \cup {None}]]
    BY <1>0
  <2> QED
    BY <1>0, <1>2, <2>1, FiltersStep DEF Logs!setFilter
<1>3. ASSUME NEW d \in Destination, NEW filters \in [Tag -> Used \cup {None}],
             Logs!setFilters(d, filters)
      PROVE  LogsInv'
  <2>1. [filters_ EXCEPT ![d] = filters] \in [Destination -> [Tag -> LogLevel \cup {None}]]
    BY <1>0
  <2> QED
    BY <1>0, <1>3, <2>1, FiltersStep DEF Logs!setFilters
<1>4. ASSUME NEW c \in Client,
             Logs!Listens(c) \/ Logs!setMinLevel_(c) \/ Logs!Logged(c)
               \/ \E l \in Used : Logs!log_(c, l)
      PROVE  LogsInv'
  BY <1>4, ListensStep, setMinLevelStep, LoggedStep, LogStep
<1>5. CASE Logs!clearLogs
  <2>1. /\ logBuffer' = <<>>
        /\ UNCHANGED <<default_, filters_, recorded, enabled, listeners, minLevel, events, calls_,
                       changes, logs>>
    BY <1>5 DEF Logs!clearLogs, Logs!filtering
  <2>2. Logs!LevelIsTold'
    BY <2>1, ToldStill
  <2>3. CallType'
    BY <2>1, LogsAssumption DEF LogsInv, CallType, UnderWay
  <2> QED
    BY <2>1, <2>2, <2>3 DEF LogsInv, TellType
<1>6. ASSUME NEW on \in BOOLEAN, Logs!enable(on) PROVE LogsInv'
  <2>1. /\ enabled' = on
        /\ UNCHANGED <<default_, filters_, logBuffer, recorded, listeners, minLevel, events,
                       calls_, changes, logs>>
    BY <1>6 DEF Logs!enable, Logs!filtering, Logs!buffering
  <2>2. Logs!LevelIsTold'
    BY <2>1, ToldStill
  <2>3. CallType'
    BY <2>1 DEF LogsInv, CallType, UnderWay
  <2> QED
    BY <2>1, <2>2, <2>3 DEF LogsInv, TellType
<1>7. CASE UNCHANGED Logs!vars
  <2>1. UNCHANGED <<default_, filters_, logBuffer, recorded, enabled, listeners, minLevel, events,
                    calls_, changes, logs>>
    BY <1>7 DEF Logs!vars
  <2>2. Logs!LevelIsTold'
    BY <2>1, ToldStill
  <2>3. CallType'
    BY <2>1 DEF LogsInv, CallType, UnderWay
  <2> QED
    BY <2>1, <2>2, <2>3 DEF LogsInv, TellType
<1> QED
  BY <1>1, <1>2, <1>3, <1>4, <1>5, <1>6, <1>7 DEF Logs!Next

(* Whatever filters change, and when, the level a listener was told last is    *)
(* the lowest its tag is kept at (loggingprovider.ts, logging.ts).             *)
THEOREM LevelsAreTold == Spec => []LevelIsTold
<1> DEFINE Inv == part = "logging" => LogsInv
<1>1. Init => Inv
  BY LogsInit DEF Init
<1>2. Inv /\ [Next]_vars => Inv'
  BY LogsStep DEF Next, vars, Logs!vars
<1>3. Inv => LevelIsTold
  <2> SUFFICES ASSUME LogsInv PROVE Logs!TypeOK /\ Logs!LevelIsTold
    BY DEF LevelIsTold
  <2>1. Cardinality(UnderWay) \in Nat
    BY FS_CardinalityType DEF LogsInv, CallType
  <2>2. recorded \in 0..MaxLogs
    BY <2>1, LogsAssumption DEF LogsInv, CallType
  <2>3. Logs!TypeOK
    BY <2>2 DEF LogsInv, CallType, TellType, Logs!TypeOK, Logs!Level, LogLevel
  <2> QED
    BY <2>3 DEF LogsInv
<1> QED
  BY <1>1, <1>2, <1>3, PTL DEF Spec
HIDE DEF default_, filters_, logBuffer, recorded, enabled, listeners, minLevel, events, calls_,
         changes, logs
-----------------------------------------------------------------------------
(* Ui.  Of the core the user interface is modelled with, what Remote shows of  *)
(* it, and nothing else.                                                       *)
getting == v1

CoreType == getting \in [Instance -> Front!GettingState]

LEMMA CoreStepRefines ==
  ASSUME CoreType, [Front!Next]_(Front!vars), NEW i \in Instance
  PROVE  CoreType' /\ [Front!Getting(i)!Next]_(v1[i])
<1> USE DEF CoreType, Front!GettingState, Front!Getting!Next, Front!Getting!Try,
        Front!Getting!Succeed, Front!Getting!Break, Front!Getting!Retry, Front!Getting!End, getting
<1> DEFINE Goal == CoreType' /\ [Front!Getting(i)!Next]_(v1[i])
<1>1. CASE UNCHANGED getting
  BY <1>1
<1>2. CASE Front!ReadStart
  BY <1>2 DEF Front!ReadStart, Front!coreVars
<1>3. CASE Front!ReadStop
  BY <1>3 DEF Front!ReadStop, Front!Changes, Front!coreVars
<1>4. ASSUME NEW k \in Instance, Front!CoreStep(k) PROVE Goal
  BY <1>4 DEF Front!CoreStep, Front!Changes
<1>5. CASE Front!Disconnect
  BY <1>5 DEF Front!Disconnect
<1>6. CASE UNCHANGED Front!vars
  BY <1>1, <1>6 DEF Front!vars, Front!coreVars
<1>7. CASE \/ Front!SettingRead \/ Front!restartProxying \/ Front!revertProxySettings
           \/ Front!proxyDisconnected \/ Front!ReadUpdate \/ Front!ReadAnswer
           \/ Front!ReadFullState \/ Front!ReadGetFullState \/ Front!Connect
  BY <1>1, <1>7 DEF Front!SettingRead, Front!restartProxying, Front!revertProxySettings,
     Front!proxyDisconnected, Front!ReadUpdate, Front!ReadAnswer, Front!ReadFullState,
     Front!ReadGetFullState, Front!Connect, Front!coreVars
<1>8. ASSUME NEW k \in Instance, Front!StartGetting(k) \/ Front!StopGetting(k) PROVE Goal
  BY <1>1, <1>8 DEF Front!StartGetting, Front!StopGetting, Front!coreVars
<1> QED
  BY <1>2, <1>3, <1>4, <1>5, <1>6, <1>7, <1>8 DEF Front!Next

(* The core that the user interface is modelled with keeps what is promised    *)
(* of getting access (ui.ts reads nothing else of it).                         *)
THEOREM CoreIsAccess ==
  ASSUME NEW i \in Instance
  PROVE  Spec /\ part = "ui" => Front!Getting(i)!Spec
<1> DEFINE Inv == part = "ui" /\ CoreType
<1>1. Init /\ part = "ui" => Inv /\ Front!Getting(i)!Init
  BY DEF Init, Front!Init, CoreType, Front!GettingState, Front!Getting!Init, getting
<1>2. Inv /\ [Next]_vars => Inv' /\ [Front!Getting(i)!Next]_(v1[i])
  BY CoreStepRefines DEF Next, vars, Front!vars, Front!coreVars, Front!linkVars
<1> QED
  BY <1>1, <1>2, PTL DEF Spec, Front!Getting!Spec
-----------------------------------------------------------------------------
(* Bridge.  The kind of the sharer's connection is that of the getter, who has *)
(* one before there are signals; what is under way names that kind only.       *)
version == v1
provider_ == v2
first_ == v3
handled == v4
ended == v5
signalForPeer == v6
USE DEF version, provider_, first_, handled, ended, signalForPeer

KindOf == {provider_["getter"]} \ {"none"}

OneKind ==
  /\ \A s \in Bridges!Side : \A k \in 1..Len(signalForPeer[s]) :
       signalForPeer[s][k].signals \subseteq KindOf
  /\ provider_["getter"] = "none" => \A s \in Bridges!Side : signalForPeer[s] = <<>>
  /\ provider_["sharer"] \in KindOf \cup {"none"}

BridgeInv == Bridges!TypeOK /\ OneKind

LEMMA BridgeInit == Bridges!Init => BridgeInv
<1> SUFFICES ASSUME Bridges!Init PROVE BridgeInv
  OBVIOUS
<1>1. Bridges!TypeOK
  BY DEF Bridges!Init, Bridges!TypeOK, Bridges!Side
<1>2. OneKind
  BY DEF Bridges!Init, OneKind, Bridges!Side
<1> QED
  BY <1>1, <1>2 DEF BridgeInv

LEMMA BridgeStep == BridgeInv /\ [Bridges!Next]_(Bridges!vars) => BridgeInv'
<1> SUFFICES ASSUME BridgeInv, [Bridges!Next]_(Bridges!vars) PROVE BridgeInv'
  OBVIOUS
<1> USE DEF BridgeInv, Bridges!TypeOK, Bridges!Side, Bridges!Peer, Bridges!ProviderType
<1>1. CASE Bridges!negotiateConnection
  <2>1. provider_' = [provider_ EXCEPT !["getter"] = Bridges!PreferredProviderType]
        /\ Bridges!PreferredProviderType \in Bridges!ProviderType
    BY <1>1 DEF Bridges!negotiateConnection, Bridges!PreferredProviderType
  <2>2. Bridges!TypeOK'
    BY <1>1, <2>1 DEF Bridges!negotiateConnection
  <2>3. OneKind'
    BY <1>1, <2>1 DEF Bridges!negotiateConnection, OneKind, KindOf
  <2> QED
    BY <2>2, <2>3
<1>2. ASSUME NEW s \in Bridges!Side, Bridges!Signal(s) PROVE BridgeInv'
  <2> DEFINE m == [signals |-> {provider_[s]}, first |-> first_[s], errorOnLastMessage |-> FALSE]
  <2>1. m \in Bridges!Message /\ m.signals \subseteq KindOf
    BY <1>2 DEF Bridges!Signal, Bridges!Message, OneKind, KindOf
  <2>2. signalForPeer' = [signalForPeer EXCEPT ![Bridges!Peer(s)] = Append(@, m)]
    BY <1>2 DEF Bridges!Signal, Bridges!Send
  <2>3. /\ provider_[s] # "none" /\ first_' = [first_ EXCEPT ![s] = FALSE]
        /\ UNCHANGED <<version, provider_, handled, ended>>
    BY <1>2 DEF Bridges!Signal
  <2> HIDE DEF m
  <2>4. Bridges!TypeOK'
    BY <2>1, <2>2, <2>3
  <2>5. provider_["getter"] # "none"
    BY <2>3 DEF OneKind, KindOf
  <2>6. \A q \in Bridges!Side : \A k \in 1..Len(signalForPeer'[q]) :
          signalForPeer'[q][k].signals \subseteq KindOf
    BY <2>1, <2>2 DEF OneKind
  <2> QED
    BY <2>3, <2>4, <2>5, <2>6 DEF OneKind, KindOf
<1>3. ASSUME NEW s \in Bridges!Side, Bridges!handleSignalMessage(s) PROVE BridgeInv'
  <2> DEFINE m == Head(signalForPeer[s])
             type == IF provider_[s] = "none" /\ m.signals # {}
                     THEN Bridges!pickBestProviderType(m.signals) ELSE provider_[s]
             rest == [signalForPeer EXCEPT ![s] = Tail(@)]
             error == [signals |-> {}, first |-> FALSE, errorOnLastMessage |-> TRUE]
  <2>1. /\ provider_' = [provider_ EXCEPT ![s] = type]
        /\ \/ handled' = [handled EXCEPT ![s] = TRUE] /\ signalForPeer' = rest
           \/ /\ UNCHANGED handled
              /\ signalForPeer' = [rest EXCEPT ![Bridges!Peer(s)] = Append(@, error)]
        /\ signalForPeer[s] # <<>> /\ UNCHANGED <<version, first_, ended>>
    BY <1>3 DEF Bridges!handleSignalMessage
  <2>2. m \in Bridges!Message /\ m.signals \subseteq KindOf /\ provider_["getter"] # "none"
    <3>1. signalForPeer[s] \in Seq(Bridges!Message) /\ signalForPeer[s] # <<>>
      BY <2>1
    <3>2. m = signalForPeer[s][1] /\ 1 \in 1..Len(signalForPeer[s]) /\ m \in Bridges!Message
      BY <3>1
    <3>3. m.signals \subseteq KindOf
      BY <3>2 DEF OneKind
    <3> QED
      BY <2>1, <3>2, <3>3 DEF OneKind
  <2>3. type \in KindOf \cup {"none"} /\ (s = "getter" => type = provider_["getter"])
        /\ type \in Bridges!ProviderType \cup {"none"}
    BY <2>2 DEF Bridges!pickBestProviderType, KindOf, OneKind, Bridges!Message
  <2>4. rest \in [Bridges!Side -> Seq(Bridges!Message)]
        /\ \A q \in Bridges!Side : \A k \in 1..Len(rest[q]) : rest[q][k].signals \subseteq KindOf
    BY <2>1 DEF OneKind
  <2>5. error \in Bridges!Message /\ error.signals \subseteq KindOf
    BY DEF Bridges!Message
  <2> HIDE DEF m, type, rest, error
  <2>6. /\ signalForPeer' \in [Bridges!Side -> Seq(Bridges!Message)]
        /\ \A q \in Bridges!Side : \A k \in 1..Len(signalForPeer'[q]) :
             signalForPeer'[q][k].signals \subseteq KindOf
    <3>1. CASE signalForPeer' = rest
      BY <2>4, <3>1
    <3>2. CASE signalForPeer' = [rest EXCEPT ![Bridges!Peer(s)] = Append(@, error)]
      <4>1. Bridges!Peer(s) \in Bridges!Side
        OBVIOUS
      <4>2. \A q \in Bridges!Side : Append(rest[q], error) \in Seq(Bridges!Message)
              /\ \A k \in 1..Len(Append(rest[q], error)) :
                   Append(rest[q], error)[k].signals \subseteq KindOf
        <5> SUFFICES ASSUME NEW q \in Bridges!Side, NEW w, w = rest[q]
                     PROVE  /\ Append(w, error) \in Seq(Bridges!Message)
                            /\ \A k \in 1..Len(Append(w, error)) :
                                 Append(w, error)[k].signals \subseteq KindOf
          OBVIOUS
        <5>1. w \in Seq(Bridges!Message) /\ \A k \in 1..Len(w) : w[k].signals \subseteq KindOf
          BY <2>4
        <5>2. /\ Append(w, error) \in Seq(Bridges!Message) /\ Len(Append(w, error)) = Len(w) + 1
              /\ Append(w, error)[Len(w) + 1] = error
              /\ \A k \in 1..Len(w) : Append(w, error)[k] = w[k]
          BY <2>5, <5>1
        <5> HIDE DEF Bridges!Message, Bridges!TypeOK, BridgeInv
        <5> QED
          BY <2>5, <5>1, <5>2
      <4>3. \A q \in Bridges!Side : signalForPeer'[q] =
              IF q = Bridges!Peer(s) THEN Append(rest[q], error) ELSE rest[q]
        BY <2>4, <3>2, <4>1
      <4>4. signalForPeer' \in [Bridges!Side -> Seq(Bridges!Message)]
        BY <2>4, <3>2, <4>1, <4>2
      <4> QED
        BY <2>4, <4>2, <4>3, <4>4
    <3> QED
      BY <2>1, <3>1, <3>2
  <2>7. provider_'["getter"] = provider_["getter"] /\ provider_'["sharer"] \in KindOf \cup {"none"}
        /\ provider_' \in [Bridges!Side -> Bridges!ProviderType \cup {"none"}]
    BY <2>1, <2>3 DEF OneKind
  <2>8. handled' \in [Bridges!Side -> BOOLEAN]
    BY <2>1
  <2>9. Bridges!TypeOK'
    BY <2>1, <2>6, <2>7, <2>8
  <2> QED
    BY <2>2, <2>6, <2>7, <2>9 DEF OneKind, KindOf
<1>4. CASE Bridges!Connected
  <2>1. ended' \in [Bridges!Side -> [connected : {"pending", "yes", "no"}, closed : BOOLEAN]]
    BY <1>4 DEF Bridges!Connected
  <2> QED
    BY <1>4, <2>1 DEF Bridges!Connected, OneKind, KindOf
<1>5. ASSUME NEW s \in Bridges!Side, Bridges!close(s) PROVE BridgeInv'
  <2>1. ended' \in [Bridges!Side -> [connected : {"pending", "yes", "no"}, closed : BOOLEAN]]
    BY <1>5 DEF Bridges!close
  <2> QED
    BY <1>5, <2>1 DEF Bridges!close, OneKind, KindOf
<1>6. ASSUME NEW s \in Bridges!Side, Bridges!Lose(s) PROVE BridgeInv'
  <2>1. signalForPeer' = [signalForPeer EXCEPT ![s] = Tail(@)] /\ signalForPeer[s] # <<>>
        /\ UNCHANGED <<version, provider_, first_, handled, ended>>
    BY <1>6 DEF Bridges!Lose
  <2>2. /\ signalForPeer' \in [Bridges!Side -> Seq(Bridges!Message)]
        /\ \A q \in Bridges!Side : \A k \in 1..Len(signalForPeer'[q]) :
             signalForPeer'[q][k].signals \subseteq KindOf
    BY <2>1 DEF OneKind
  <2>3. provider_["getter"] # "none"
    BY <2>1 DEF OneKind
  <2> QED
    BY <2>1, <2>2, <2>3 DEF OneKind, KindOf
<1>7. CASE UNCHANGED Bridges!vars
  BY <1>7 DEF Bridges!vars, OneKind, KindOf
<1> QED
  BY <1>1, <1>2, <1>3, <1>4, <1>5, <1>6, <1>7 DEF Bridges!Next

LEMMA BridgesAgree == BridgeInv => Bridges!TypeOK /\ Bridges!SameProvider
BY DEF BridgeInv, OneKind, KindOf, Bridges!SameProvider
HIDE DEF version, provider_, first_, handled, ended, signalForPeer
-----------------------------------------------------------------------------
(* Pipe.  A port is bound once by an interface, so that there are no more      *)
(* indices than ports.  A mirror is asked for as soon as its remote endpoint   *)
(* and its index are known, and waits from then on until it is announced.      *)
publicSockets_ == v1
lastInterface_ == v2
maxSocketsPerInterface_ == v3
browserEndpoints_ == v4
signaled == v5
sockets == v6
mirrors == v7
announced == v8
failures == v9
USE DEF publicSockets_, lastInterface_, maxSocketsPerInterface_, browserEndpoints_, signaled,
        sockets, mirrors, announced, failures

PortsOnce ==
  \A i \in Interface :
    /\ Len(publicSockets_[i]) <= maxSocketsPerInterface_
    /\ \A j, k \in 1..Len(publicSockets_[i]) : publicSockets_[i][j] = publicSockets_[i][k] => j = k

Offered(r, k) ==
  \/ <<r, k>> \in mirrors
  \/ sockets[<<r, k>>] = "failed"
  \/ sockets[<<r, k>>] = "bound" /\ \E j \in Interface : <<r, k, j>> \in announced

MirrorsMade ==
  /\ signaled # {} => lastInterface_ \in Interface
  /\ mirrors \subseteq signaled \X (1..maxSocketsPerInterface_)
  /\ \A m \in mirrors : sockets[m] # "none"
  /\ \A r \in signaled, k \in 1..maxSocketsPerInterface_ : Offered(r, k)

PipeInv == Pipes!TypeOK /\ PortsOnce /\ MirrorsMade

LEMMA SocketBound ==
  /\ Pipes!MaxSockets \in Nat
  /\ \A q \in Seq(Port) :
       (\A j, k \in 1..Len(q) : q[j] = q[k] => j = k) => Len(q) <= Pipes!MaxSockets
<1>1. \A S : Pipes!Cardinality(S) = Cardinality(S)
  BY Zenon DEF Pipes!Cardinality, Cardinality
<1>2. Pipes!MaxSockets = Cardinality(Port)
  BY <1>1 DEF Pipes!MaxSockets
<1>3. IsFiniteSet(Port) /\ Cardinality(Port) \in Nat
  BY PipeAssumption, FS_CardinalityType
<1>4. ASSUME NEW q \in Seq(Port), \A j, k \in 1..Len(q) : q[j] = q[k] => j = k,
             Cardinality(Port) < Len(q)
      PROVE  FALSE
  <2>1. Len(q) \in Nat /\ IsFiniteSet(1..Len(q)) /\ Cardinality(1..Len(q)) = Len(q)
    <3>1. Len(q) \in Nat
      OBVIOUS
    <3>2. IsFiniteSet(1..Len(q)) /\ Cardinality(1..Len(q)) = IF 1 > Len(q) THEN 0 ELSE Len(q) - 1 + 1
      BY <3>1, FS_Interval
    <3> QED
      BY <3>1, <3>2
  <2>2. q \in [1..Len(q) -> Port]
    OBVIOUS
  <2>3. \E j, k \in 1..Len(q) : j # k /\ q[j] = q[k]
    BY <1>3, <1>4, <2>1, <2>2, FS_PigeonHole
  <2> QED
    BY <1>4, <2>3
<1>5. \A q \in Seq(Port) : Len(q) \in Nat
  OBVIOUS
<1> QED
  BY <1>2, <1>3, <1>4, <1>5

(* An interface added to the name of a mirror. *)
LEMMA Joined == \A a, b, c : <<a, b>> \o <<c>> = <<a, b, c>>
<1> SUFFICES ASSUME NEW a, NEW b, NEW c PROVE <<a, b>> \o <<c>> = <<a, b, c>>
  OBVIOUS
<1> DEFINE S == {a, b, c}
           s == <<a, b>>
           t == <<c>>
           u == <<a, b, c>>
<1>1. s \in Seq(S) /\ t \in Seq(S) /\ u \in Seq(S)
  OBVIOUS
<1>2. /\ Len(s) = 2 /\ Len(t) = 1 /\ Len(u) = 3
      /\ s[1] = a /\ s[2] = b /\ t[1] = c /\ u[1] = a /\ u[2] = b /\ u[3] = c
  OBVIOUS
<1> HIDE DEF S, s, t, u
<1>3. /\ s \o t \in Seq(S) /\ Len(s \o t) = Len(s) + Len(t)
      /\ \A i \in 1..Len(s) + Len(t) :
           (s \o t)[i] = IF i <= Len(s) THEN s[i] ELSE t[i - Len(s)]
  BY <1>1, ConcatProperties
<1>4. Len(s \o t) = Len(u) /\ \A i \in 1..Len(s \o t) : (s \o t)[i] = u[i]
  BY <1>2, <1>3
<1>5. s \o t = u
  BY <1>1, <1>3, <1>4, SeqEqual
<1> QED
  BY <1>5 DEF s, t, u

LEMMA PipeInit == Pipes!Init => PipeInv
<1> SUFFICES ASSUME Pipes!Init PROVE PipeInv
  OBVIOUS
<1>1. failures \in 0..MaxFailures /\ maxSocketsPerInterface_ \in 0..Pipes!MaxSockets
  BY SocketBound, PipeAssumption DEF Pipes!Init
<1>2. Pipes!TypeOK
  BY <1>1 DEF Pipes!Init, Pipes!TypeOK, Pipes!Absent
<1> QED
  BY <1>2 DEF Pipes!Init, PipeInv, PortsOnce, MirrorsMade

(* A mirror that was made stays, and the mirrors asked for are there. *)
LEMMA MirrorsStay ==
  ASSUME Pipes!TypeOK, NEW ms \in SUBSET (Remote \X Pipes!Index)
  PROVE  /\ Pipes!Made(ms) \in [Remote \X Pipes!Index -> {"none", "binding", "bound", "failed"}]
         /\ \A m \in Remote \X Pipes!Index :
              /\ sockets[m] # "none" => Pipes!Made(ms)[m] = sockets[m]
              /\ m \in ms => Pipes!Made(ms)[m] # "none"
BY DEF Pipes!TypeOK, Pipes!Made, Pipes!Absent

(* The mirrors asked for with more endpoints or a greater index. *)
LEMMA MirrorsMore ==
  ASSUME PipeInv, NEW ms \in SUBSET (Remote \X Pipes!Index), Pipes!Emit(ms),
         NEW R \in SUBSET Remote, NEW n \in 0..Pipes!MaxSockets,
         signaled' = R, maxSocketsPerInterface_' = n, UNCHANGED announced,
         R # {} => lastInterface_' \in Interface,
         mirrors \cup ms \subseteq R \X (1..n),
         \A r \in R, k \in 1..n :
           (r \in signaled /\ k \in 1..maxSocketsPerInterface_) \/ <<r, k>> \in ms
  PROVE  /\ MirrorsMade' /\ mirrors' \subseteq Remote \X Pipes!Index
         /\ sockets' \in [Remote \X Pipes!Index -> {"none", "binding", "bound", "failed"}]
<1>1. sockets' = Pipes!Made(ms) /\ mirrors' = mirrors \cup ms
  BY DEF Pipes!Emit
<1>2. /\ mirrors \subseteq Remote \X Pipes!Index
      /\ \A r \in R, k \in 1..n : <<r, k>> \in Remote \X Pipes!Index
  BY SocketBound DEF PipeInv, Pipes!TypeOK, Pipes!Index
<1>3. /\ sockets' \in [Remote \X Pipes!Index -> {"none", "binding", "bound", "failed"}]
      /\ \A m \in Remote \X Pipes!Index :
           /\ sockets[m] # "none" => sockets'[m] = sockets[m]
           /\ m \in ms => sockets'[m] # "none"
  BY <1>1, MirrorsStay DEF PipeInv
<1>4. \A m \in mirrors' : sockets'[m] # "none"
  BY <1>1, <1>2, <1>3 DEF PipeInv, MirrorsMade
<1>5. ASSUME NEW r \in R, NEW k \in 1..n PROVE Offered(r, k)'
  <2>1. CASE <<r, k>> \in ms
    BY <1>1, <2>1 DEF Offered
  <2>2. CASE r \in signaled /\ k \in 1..maxSocketsPerInterface_
    <3>1. Offered(r, k)
      BY <2>2 DEF PipeInv, MirrorsMade
    <3> QED
      BY <1>1, <1>2, <1>3, <3>1 DEF Offered
  <2> QED
    BY <2>1, <2>2
<1> QED
  BY <1>1, <1>2, <1>3, <1>4, <1>5 DEF MirrorsMade

LEMMA PipeStep == PipeInv /\ [Pipes!Next]_(Pipes!vars) => PipeInv'
<1> SUFFICES ASSUME PipeInv, [Pipes!Next]_(Pipes!vars) PROVE PipeInv'
  OBVIOUS
<1>0. /\ Pipes!MaxSockets \in Nat /\ maxSocketsPerInterface_ \in 0..Pipes!MaxSockets
      /\ Pipes!Index = 1..Pipes!MaxSockets /\ signaled \subseteq Remote
  BY SocketBound DEF PipeInv, Pipes!TypeOK, Pipes!Index
<1>1. ASSUME NEW i \in Interface, NEW p \in Port, Pipes!bindLocal(i, p) PROVE PipeInv'
  <2>1. /\ lastInterface_' = i
        /\ UNCHANGED <<browserEndpoints_, signaled, announced, failures>>
    BY <1>1 DEF Pipes!bindLocal
  <2>2. CASE \E k \in DOMAIN publicSockets_[i] : publicSockets_[i][k] = p
    <3>1. UNCHANGED <<publicSockets_, maxSocketsPerInterface_, sockets, mirrors>>
      BY <1>1, <2>2 DEF Pipes!bindLocal
    <3> QED
      BY <2>1, <3>1 DEF PipeInv, Pipes!TypeOK, PortsOnce, MirrorsMade, Offered
  <2>3. CASE ~ \E k \in DOMAIN publicSockets_[i] : publicSockets_[i][k] = p
    <3> DEFINE q == publicSockets_[i]
               more == Append(q, p)
    <3>1. publicSockets_' = [publicSockets_ EXCEPT ![i] = more]
      BY <1>1, <2>3 DEF Pipes!bindLocal
    <3>2. /\ q \in Seq(Port) /\ Len(q) <= maxSocketsPerInterface_
          /\ \A j, k \in 1..Len(q) : q[j] = q[k] => j = k
          /\ \A k \in 1..Len(q) : q[k] # p
      BY <2>3 DEF PipeInv, Pipes!TypeOK, PortsOnce
    <3>3. /\ more \in Seq(Port) /\ Len(more) = Len(q) + 1
          /\ \A j, k \in 1..Len(more) : more[j] = more[k] => j = k
      BY <3>2
    <3>4. Len(more) <= Pipes!MaxSockets
      BY <3>3, SocketBound
    <3> HIDE DEF more, q
    <3>5. publicSockets_' \in [Interface -> Seq(Port)]
          /\ \A h \in Interface : publicSockets_'[h] = IF h = i THEN more ELSE publicSockets_[h]
      BY <3>1, <3>3 DEF PipeInv, Pipes!TypeOK
    <3>6. CASE Len(q) = maxSocketsPerInterface_
      <4> DEFINE n == maxSocketsPerInterface_ + 1
                 ms == signaled \X {n}
      <4>1. maxSocketsPerInterface_' = n /\ Pipes!Emit(ms)
        BY <1>1, <2>3, <3>6 DEF Pipes!bindLocal, q
      <4>2. n \in 0..Pipes!MaxSockets /\ ms \subseteq Remote \X Pipes!Index
        BY <1>0, <3>3, <3>4, <3>6
      <4>3. mirrors \cup ms \subseteq signaled \X (1..n)
        BY <1>0 DEF PipeInv, MirrorsMade
      <4>4. \A r \in signaled, k \in 1..n :
              (r \in signaled /\ k \in 1..maxSocketsPerInterface_) \/ <<r, k>> \in ms
        BY <1>0
      <4> HIDE DEF ms
      <4>5. /\ MirrorsMade' /\ mirrors' \subseteq Remote \X Pipes!Index
            /\ sockets' \in [Remote \X Pipes!Index -> {"none", "binding", "bound", "failed"}]
        BY <1>0, <2>1, <4>1, <4>2, <4>3, <4>4, MirrorsMore
      <4>6. PortsOnce'
        <5>1. ASSUME NEW h \in Interface
              PROVE  /\ Len(publicSockets_'[h]) <= n
                     /\ \A j, k \in 1..Len(publicSockets_'[h]) :
                          publicSockets_'[h][j] = publicSockets_'[h][k] => j = k
          <6>1. Len(publicSockets_[h]) \in Nat
            BY DEF PipeInv, Pipes!TypeOK
          <6> QED
            BY <1>0, <3>3, <3>5, <3>6, <6>1 DEF PipeInv, PortsOnce
        <5> QED
          BY <4>1, <5>1 DEF PortsOnce
      <4>7. Pipes!TypeOK'
        BY <2>1, <3>5, <4>1, <4>2, <4>5 DEF PipeInv, Pipes!TypeOK, Pipes!Absent
      <4> QED
        BY <4>5, <4>6, <4>7 DEF PipeInv
    <3>7. CASE Len(q) # maxSocketsPerInterface_
      <4>1. UNCHANGED <<maxSocketsPerInterface_, sockets, mirrors>>
        BY <1>1, <2>3, <3>7 DEF Pipes!bindLocal, q
      <4>2. Len(more) <= maxSocketsPerInterface_
        BY <1>0, <3>2, <3>3, <3>7
      <4>3. PortsOnce'
        BY <3>3, <3>5, <4>1, <4>2 DEF PipeInv, PortsOnce
      <4> QED
        BY <2>1, <3>5, <4>1, <4>3 DEF PipeInv, Pipes!TypeOK, MirrorsMade, Offered
    <3> QED
      BY <3>6, <3>7
  <2> QED
    BY <2>2, <2>3
<1>2. ASSUME NEW r \in Remote, Pipes!bindRemote(r) PROVE PipeInv'
  <2> DEFINE R == signaled \cup {r}
             n == maxSocketsPerInterface_
             ms == {r} \X (1..n)
  <2>1. /\ lastInterface_ # "none" /\ signaled' = R /\ Pipes!Emit(ms)
        /\ UNCHANGED <<publicSockets_, lastInterface_, maxSocketsPerInterface_,
                       browserEndpoints_, announced, failures>>
    BY <1>2 DEF Pipes!bindRemote, Pipes!Absent
  <2>2. lastInterface_ \in Interface
    BY <2>1 DEF PipeInv, Pipes!TypeOK, Pipes!Absent
  <2>3. ms \subseteq Remote \X Pipes!Index /\ R \subseteq Remote
    BY <1>0
  <2>4. mirrors \cup ms \subseteq R \X (1..n)
    BY DEF PipeInv, MirrorsMade
  <2>5. \A s \in R, k \in 1..n : (s \in signaled /\ k \in 1..n) \/ <<s, k>> \in ms
    OBVIOUS
  <2> HIDE DEF ms, R
  <2>6. /\ MirrorsMade' /\ mirrors' \subseteq Remote \X Pipes!Index
        /\ sockets' \in [Remote \X Pipes!Index -> {"none", "binding", "bound", "failed"}]
    BY <1>0, <2>1, <2>2, <2>3, <2>4, <2>5, MirrorsMore
  <2> QED
    BY <2>1, <2>3, <2>6 DEF PipeInv, Pipes!TypeOK, Pipes!Absent, PortsOnce
<1>3. ASSUME NEW i \in Interface, NEW k \in Pipes!Index, NEW r \in Remote,
             Pipes!onIncomingData_(i, k, r)
      PROVE  PipeInv'
  <2>1. /\ sockets' = Pipes!Made({<<r, k>>})
        /\ UNCHANGED <<publicSockets_, lastInterface_, maxSocketsPerInterface_,
                       browserEndpoints_, signaled, mirrors, announced, failures>>
    BY <1>3 DEF Pipes!onIncomingData_
  <2>2. {<<r, k>>} \in SUBSET (Remote \X Pipes!Index)
    OBVIOUS
  <2>3. /\ sockets' \in [Remote \X Pipes!Index -> {"none", "binding", "bound", "failed"}]
        /\ \A m \in Remote \X Pipes!Index : sockets[m] # "none" => sockets'[m] = sockets[m]
    BY <2>1, <2>2, MirrorsStay DEF PipeInv
  <2>4. MirrorsMade'
    <3>1. \A m \in mirrors : m \in Remote \X Pipes!Index
      BY DEF PipeInv, Pipes!TypeOK
    <3>2. \A s \in signaled, h \in 1..maxSocketsPerInterface_ : <<s, h>> \in Remote \X Pipes!Index
      BY <1>0
    <3> QED
      BY <2>1, <2>3, <3>1, <3>2 DEF PipeInv, MirrorsMade, Offered
  <2> QED
    BY <2>1, <2>3, <2>4 DEF PipeInv, Pipes!TypeOK, Pipes!Absent, PortsOnce
<1>4. ASSUME NEW m \in Remote \X Pipes!Index, Pipes!MirrorBinds(m) PROVE PipeInv'
  <2>1. /\ sockets[m] = "binding"
        /\ \E s \in {"bound", "failed"} : sockets' = [sockets EXCEPT ![m] = s]
        /\ UNCHANGED <<publicSockets_, lastInterface_, maxSocketsPerInterface_,
                       browserEndpoints_, signaled, mirrors, announced>>
    BY <1>4 DEF Pipes!MirrorBinds
  <2>2. failures' \in 0..MaxFailures
    BY <1>4, PipeAssumption DEF Pipes!MirrorBinds, PipeInv, Pipes!TypeOK
  <2>3. /\ sockets' \in [Remote \X Pipes!Index -> {"none", "binding", "bound", "failed"}]
        /\ \A x \in Remote \X Pipes!Index :
             IF x = m THEN sockets'[x] # "none" ELSE sockets'[x] = sockets[x]
    BY <2>1 DEF PipeInv, Pipes!TypeOK, Pipes!Absent
  <2>4. MirrorsMade'
    <3>1. \A x \in mirrors : x \in Remote \X Pipes!Index
      BY DEF PipeInv, Pipes!TypeOK
    <3>2. \A s \in signaled, h \in 1..maxSocketsPerInterface_ : <<s, h>> \in Remote \X Pipes!Index
      BY <1>0
    <3>3. ASSUME NEW s \in signaled, NEW h \in 1..maxSocketsPerInterface_ PROVE Offered(s, h)'
      BY <2>1, <2>3, <3>2 DEF PipeInv, MirrorsMade, Offered
    <3> QED
      BY <2>1, <2>3, <3>1, <3>3 DEF PipeInv, MirrorsMade
  <2> QED
    BY <2>1, <2>2, <2>3, <2>4 DEF PipeInv, Pipes!TypeOK, Pipes!Absent, PortsOnce
<1>5. ASSUME NEW m \in Remote \X Pipes!Index, Pipes!emitMirror_(m) PROVE PipeInv'
  <2>1. /\ m \in mirrors /\ sockets[m] \in {"bound", "failed"} /\ mirrors' = mirrors \ {m}
        /\ announced' = IF sockets[m] = "bound" THEN announced \cup {m \o <<lastInterface_>>}
                        ELSE announced
        /\ UNCHANGED <<publicSockets_, lastInterface_, maxSocketsPerInterface_,
                       browserEndpoints_, signaled, sockets, failures>>
    BY <1>5 DEF Pipes!emitMirror_
  <2>2. lastInterface_ \in Interface
    BY <2>1 DEF PipeInv, MirrorsMade
  <2>3. m \o <<lastInterface_>> = <<m[1], m[2], lastInterface_>>
    <3>1. PICK a \in Remote, b \in Pipes!Index : m = <<a, b>>
      OBVIOUS
    <3> QED
      BY <3>1, Joined
  <2>4. announced' = IF sockets[m] = "bound"
                     THEN announced \cup {<<m[1], m[2], lastInterface_>>} ELSE announced
    BY <2>1, <2>3
  <2>5. announced' \subseteq Remote \X Pipes!Index \X Interface
    BY <2>2, <2>4 DEF PipeInv, Pipes!TypeOK
  <2>6. ASSUME NEW s \in signaled, NEW h \in 1..maxSocketsPerInterface_ PROVE Offered(s, h)'
    <3>1. CASE m = <<s, h>>
      BY <2>1, <2>2, <2>4, <3>1 DEF Offered
    <3>2. CASE m # <<s, h>>
      <4>1. Offered(s, h)
        BY DEF PipeInv, MirrorsMade
      <4> QED
        BY <2>1, <2>4, <3>2, <4>1 DEF Offered
    <3> QED
      BY <3>1, <3>2
  <2>7. MirrorsMade'
    BY <2>1, <2>6 DEF PipeInv, MirrorsMade
  <2> QED
    BY <2>1, <2>5, <2>7 DEF PipeInv, Pipes!TypeOK, PortsOnce
<1>6. ASSUME NEW i \in Interface, Pipes!addBrowserEndpoint(i) PROVE PipeInv'
  BY <1>6 DEF Pipes!addBrowserEndpoint, PipeInv, Pipes!TypeOK, PortsOnce, MirrorsMade, Offered
<1>7. CASE UNCHANGED Pipes!vars
  BY <1>7 DEF Pipes!vars, PipeInv, Pipes!TypeOK, Pipes!Absent, PortsOnce, MirrorsMade, Offered
<1> QED
  BY <1>1, <1>2, <1>3, <1>4, <1>5, <1>6, <1>7 DEF Pipes!Next

LEMMA PipesOffer == PipeInv => Pipes!TypeOK /\ Pipes!MirrorsOffered
<1> SUFFICES ASSUME PipeInv, NEW r \in signaled, NEW i \in Interface,
                    NEW k \in DOMAIN publicSockets_[i]
             PROVE  Offered(r, k)
  BY DEF PipeInv, Pipes!MirrorsOffered, Offered
<1>1. k \in 1..Len(publicSockets_[i]) /\ Len(publicSockets_[i]) \in Nat
  BY DEF PipeInv, Pipes!TypeOK
<1>2. Len(publicSockets_[i]) <= maxSocketsPerInterface_ /\ maxSocketsPerInterface_ \in Nat
  BY SocketBound DEF PipeInv, PortsOnce, Pipes!TypeOK
<1> QED
  BY <1>1, <1>2 DEF PipeInv, MirrorsMade
HIDE DEF publicSockets_, lastInterface_, maxSocketsPerInterface_, browserEndpoints_, signaled,
         sockets, mirrors, announced, failures
-----------------------------------------------------------------------------
(* Churn.  What a peer found or described is never lost: it is still to be     *)
(* told, under way, waiting for the pipe or at the pipe, until it is heard.    *)
(* It is dropped only by a pipe that has nothing bound.                        *)
probe == v1
candidates == v2
candidateQueue_ == v3
described == v4
config == v5
pipe_ == v6
bound == v7
onceHavePipe_ == v8
binding == v9
remoteCandidates_ == v10
heard == v11
signals == v12
closed == v13
USE DEF probe, candidates, candidateQueue_, described, config, pipe_, bound, onceHavePipe_,
        binding, remoteCandidates_, heard, signals, closed

Has(q, m) == \E k \in 1..Len(q) : q[k] = m

OnItsWay(p, m) == Has(signals[p], m) \/ Has(onceHavePipe_[p], m) \/ m \in heard[p]

CandidateKept(p, c) ==
  LET o == Churns!Other(p) IN
  \/ Has(candidateQueue_[p], c) \/ OnItsWay(o, c) \/ c \in binding[o]
  \/ pipe_[o] \in {"have", "failed"} /\ bound[o] = {}

NothingLost ==
  \A p \in Churns!Peer :
    /\ described[p] => candidateQueue_[p] = <<>> /\ OnItsWay(Churns!Other(p), "description")
    /\ \A c \in candidates[p] : CandidateKept(p, c)

PipesBound ==
  \A p \in Churns!Peer :
    /\ pipe_[p] # "none" => probe[p] = "closed"
    /\ pipe_[p] = "have" => bound[p] = candidates[p]

RemoteKnown ==
  \A p \in Churns!Peer :
    /\ binding[p] \subseteq remoteCandidates_[p]
    /\ \A k \in 1..Len(onceHavePipe_[p]) :
         onceHavePipe_[p][k] \in {"description"} \cup remoteCandidates_[p]

ChurnInv == Churns!TypeOK /\ NothingLost /\ PipesBound /\ RemoteKnown

LEMMA ConcatHas ==
  ASSUME NEW S, NEW s \in Seq(S), NEW t \in Seq(S)
  PROVE  s \o t \in Seq(S) /\ \A m : Has(s, m) \/ Has(t, m) => Has(s \o t, m)
<1>1. /\ s \o t \in Seq(S) /\ Len(s \o t) = Len(s) + Len(t) /\ Len(s) \in Nat /\ Len(t) \in Nat
      /\ \A i \in 1..Len(s) + Len(t) : (s \o t)[i] = IF i <= Len(s) THEN s[i] ELSE t[i - Len(s)]
  BY ConcatProperties
<1> DEFINE u == s \o t
<1> HIDE DEF u
<1>2. ASSUME NEW k \in 1..Len(s) PROVE u[k] = s[k] /\ k \in 1..Len(u)
  BY <1>1 DEF u
<1>3. ASSUME NEW k \in 1..Len(t) PROVE u[k + Len(s)] = t[k] /\ k + Len(s) \in 1..Len(u)
  BY <1>1 DEF u
<1>4. \A m : Has(s, m) \/ Has(t, m) => Has(u, m)
  BY <1>2, <1>3 DEF Has
<1> QED
  BY <1>1, <1>4 DEF u

LEMMA AppendHas ==
  ASSUME NEW S, NEW s \in Seq(S), NEW e \in S
  PROVE  /\ Append(s, e) \in Seq(S) /\ Has(Append(s, e), e)
         /\ \A m : Has(s, m) => Has(Append(s, e), m)
         /\ \A k \in 1..Len(Append(s, e)) :
              \/ Append(s, e)[k] = e
              \/ k \in 1..Len(s) /\ Append(s, e)[k] = s[k]
<1>1. /\ Append(s, e) \in Seq(S) /\ Len(Append(s, e)) = Len(s) + 1 /\ Len(s) \in Nat
      /\ \A k \in 1..Len(s) : Append(s, e)[k] = s[k]
      /\ Append(s, e)[Len(s) + 1] = e
  BY AppendProperties
<1> DEFINE u == Append(s, e)
<1> HIDE DEF u
<1>2. /\ u \in Seq(S) /\ Len(u) = Len(s) + 1 /\ Len(s) \in Nat
      /\ \A k \in 1..Len(s) : u[k] = s[k] /\ k \in 1..Len(u)
      /\ u[Len(s) + 1] = e /\ Len(s) + 1 \in 1..Len(u)
  BY <1>1 DEF u
<1>3. Has(u, e) /\ \A m : Has(s, m) => Has(u, m)
  BY <1>2 DEF Has
<1>4. ASSUME NEW k \in 1..Len(u) PROVE u[k] = e \/ (k \in 1..Len(s) /\ u[k] = s[k])
  <2>1. CASE k = Len(s) + 1
    BY <1>2, <2>1
  <2>2. CASE k # Len(s) + 1
    <3>1. k \in 1..Len(s)
      BY <1>2, <2>2
    <3> QED
      BY <1>2, <3>1
  <2> QED
    BY <2>1, <2>2
<1>5. /\ u \in Seq(S) /\ Has(u, e) /\ \A m : Has(s, m) => Has(u, m)
      /\ \A k \in 1..Len(u) : u[k] = e \/ (k \in 1..Len(s) /\ u[k] = s[k])
  BY <1>2, <1>3, <1>4
<1> QED
  BY Zenon, <1>5 DEF u

LEMMA TailHas ==
  ASSUME NEW S, NEW s \in Seq(S), s # <<>>
  PROVE  /\ Head(s) \in S /\ Tail(s) \in Seq(S)
         /\ \A m : Has(s, m) => m = Head(s) \/ Has(Tail(s), m)
         /\ \A k \in 1..Len(Tail(s)) : k + 1 \in 1..Len(s) /\ Tail(s)[k] = s[k + 1]
         /\ 1 \in 1..Len(s) /\ Head(s) = s[1]
<1> DEFINE u == Tail(s)
<1>1. /\ Head(s) = s[1] /\ Head(s) \in S /\ u \in Seq(S) /\ Len(u) = Len(s) - 1 /\ Len(s) \in Nat \ {0}
      /\ \A k \in 1..Len(u) : u[k] = s[k + 1]
  BY HeadTailProperties
<1> HIDE DEF u
<1>2. \A k \in 1..Len(u) : k + 1 \in 1..Len(s)
  BY <1>1
<1>3. ASSUME NEW k \in 1..Len(s) PROVE s[k] = Head(s) \/ (k - 1 \in 1..Len(u) /\ u[k - 1] = s[k])
  <2>1. CASE k = 1
    BY <1>1, <2>1
  <2>2. CASE k # 1
    <3>1. k - 1 \in 1..Len(u) /\ (k - 1) + 1 = k
      BY <1>1, <2>2
    <3> QED
      BY <1>1, <3>1
  <2> QED
    BY <2>1, <2>2
<1>4. \A m : Has(s, m) => m = Head(s) \/ Has(u, m)
  BY <1>3 DEF Has
<1> QED
  BY <1>1, <1>2, <1>4 DEF u

LEMMA EmptyHas == \A m : ~ Has(<<>>, m)
BY DEF Has

LEMMA ChurnInit == Churns!Init => ChurnInv
<1> SUFFICES ASSUME Churns!Init PROVE ChurnInv
  OBVIOUS
<1> USE DEF Churns!Init, Churns!Peer
<1>1. config \in [Churns!Peer -> BOOLEAN]
  BY Zenon
<1>2. signals \in [Churns!Peer -> Seq(Churns!Message)]
  BY DEF Churns!Message
<1>3. Churns!TypeOK
  BY <1>1, <1>2 DEF Churns!TypeOK
<1> QED
  BY <1>3 DEF ChurnInv, NothingLost, PipesBound, RemoteKnown

LEMMA ChurnTypes ==
  ASSUME ChurnInv, NEW p \in Churns!Peer
  PROVE  /\ Churns!Other(p) \in Churns!Peer /\ Churns!Other(p) # p
         /\ Churns!Other(Churns!Other(p)) = p
         /\ signals[p] \in Seq(Churns!Message) /\ onceHavePipe_[p] \in Seq(Churns!Message)
         /\ candidateQueue_[p] \in Seq(Candidate)
         /\ \A q \in Churns!Peer : q = p \/ q = Churns!Other(p)
BY DEF ChurnInv, Churns!TypeOK, Churns!Peer, Churns!Other

(* The steps that disturb only probes, pipes and who is closed. *)
LEMMA PipeSteps ==
  ASSUME ChurnInv, NEW p \in Churns!Peer,
         \/ Churns!ProbingComplete(p) \/ Churns!ProbeCloses(p) \/ Churns!configurePipe_(p)
         \/ Churns!close(p)
  PROVE  ChurnInv'
<1> USE DEF Churns!ProbingComplete, Churns!ProbeCloses, Churns!configurePipe_, Churns!close
<1>1. UNCHANGED <<candidates, candidateQueue_, described, config, bound, onceHavePipe_, binding,
                  remoteCandidates_, heard, signals>>
  OBVIOUS
<1>2. /\ probe' \in [Churns!Peer -> {"gathering", "ended", "closing", "closed"}]
      /\ closed' \in [Churns!Peer -> BOOLEAN]
  BY DEF ChurnInv, Churns!TypeOK
<1>3. pipe_' \in [Churns!Peer -> {"none", "made", "have", "failed"}]
  BY DEF ChurnInv, Churns!TypeOK
<1>4. Churns!TypeOK'
  BY <1>1, <1>2, <1>3 DEF ChurnInv, Churns!TypeOK
<1>5. \A q \in Churns!Peer :
        /\ pipe_'[q] = "have" => pipe_[q] = "have"
        /\ pipe_[q] \in {"have", "failed"} => pipe_'[q] \in {"have", "failed"}
        /\ pipe_'[q] # "none" => probe'[q] = "closed"
  BY DEF ChurnInv, Churns!TypeOK, PipesBound
<1>6. PipesBound' /\ RemoteKnown'
  BY <1>1, <1>5 DEF ChurnInv, PipesBound, RemoteKnown
<1>7. ASSUME NEW q \in Churns!Peer, NEW c \in candidates[q] PROVE CandidateKept(q, c)'
  BY <1>1, <1>5, <1>7, ChurnTypes DEF ChurnInv, NothingLost, CandidateKept, OnItsWay
<1>8. NothingLost'
  BY <1>1, <1>7 DEF ChurnInv, NothingLost, OnItsWay
<1> QED
  BY <1>4, <1>6, <1>8 DEF ChurnInv

(* A message of p: what was under way still is. *)
LEMMA Told ==
  ASSUME ChurnInv, NEW p \in Churns!Peer, NEW ms \in Seq(Churns!Message), Churns!Tell(p, ms)
  PROVE  /\ signals' \in [Churns!Peer -> Seq(Churns!Message)]
         /\ \A q \in Churns!Peer : \A m : Has(signals[q], m) => Has(signals'[q], m)
         /\ \A m : Has(ms, m) => Has(signals'[Churns!Other(p)], m)
<1> DEFINE o == Churns!Other(p)
<1>1. o \in Churns!Peer /\ signals[o] \in Seq(Churns!Message)
  BY ChurnTypes
<1>2. signals' = [signals EXCEPT ![o] = signals[o] \o ms]
  BY DEF Churns!Tell
<1>3. /\ signals[o] \o ms \in Seq(Churns!Message)
      /\ \A m : Has(signals[o], m) \/ Has(ms, m) => Has(signals[o] \o ms, m)
  BY <1>1, ConcatHas
<1> DEFINE u == signals[o] \o ms
<1> HIDE DEF u, o
<1>4. signals' = [signals EXCEPT ![o] = u]
  BY <1>2 DEF u
<1>5. u \in Seq(Churns!Message) /\ \A m : Has(signals[o], m) \/ Has(ms, m) => Has(u, m)
  BY <1>3 DEF u
<1>6. /\ signals' \in [Churns!Peer -> Seq(Churns!Message)]
      /\ signals'[o] = u /\ \A q \in Churns!Peer : q # o => signals'[q] = signals[q]
  BY <1>1, <1>4, <1>5 DEF ChurnInv, Churns!TypeOK
<1> QED
  BY <1>5, <1>6 DEF o

LEMMA FoundStep ==
  ASSUME ChurnInv, NEW p \in Churns!Peer, NEW c \in Candidate, Churns!Found(p, c)
  PROVE  ChurnInv'
<1>1. /\ candidates' = [candidates EXCEPT ![p] = @ \cup {c}] /\ probe[p] # "closed"
      /\ UNCHANGED <<probe, described, config, pipe_, bound, onceHavePipe_, binding,
                     remoteCandidates_, heard, closed>>
  BY DEF Churns!Found
<1>2. pipe_[p] = "none"
  BY <1>1 DEF ChurnInv, PipesBound
<1>3. /\ signals' \in [Churns!Peer -> Seq(Churns!Message)]
      /\ candidateQueue_' \in [Churns!Peer -> Seq(Candidate)]
      /\ \A q \in Churns!Peer : \A m : Has(signals[q], m) => Has(signals'[q], m)
      /\ \A q \in Churns!Peer : \A m : Has(candidateQueue_[q], m) => Has(candidateQueue_'[q], m)
      /\ Has(signals'[Churns!Other(p)], c) \/ Has(candidateQueue_'[p], c)
      /\ \A q \in Churns!Peer : described[q] => candidateQueue_'[q] = candidateQueue_[q]
  <2>1. CASE described[p]
    <3>1. Churns!Tell(p, <<c>>) /\ candidateQueue_' = candidateQueue_
      BY <2>1 DEF Churns!Found
    <3>2. <<c>> \in Seq(Churns!Message) /\ Has(<<c>>, c)
      BY DEF Churns!Message, Has
    <3> QED
      BY <3>1, <3>2, Told DEF ChurnInv, Churns!TypeOK
  <2>2. CASE ~described[p]
    <3> DEFINE w == Append(candidateQueue_[p], c)
    <3>1. candidateQueue_' = [candidateQueue_ EXCEPT ![p] = w] /\ signals' = signals
      BY <2>2 DEF Churns!Found
    <3>2. w \in Seq(Candidate) /\ Has(w, c) /\ \A m : Has(candidateQueue_[p], m) => Has(w, m)
      BY ChurnTypes, AppendHas
    <3> HIDE DEF w
    <3>3. /\ candidateQueue_' \in [Churns!Peer -> Seq(Candidate)] /\ candidateQueue_'[p] = w
          /\ \A q \in Churns!Peer : q # p => candidateQueue_'[q] = candidateQueue_[q]
      BY <3>1, <3>2 DEF ChurnInv, Churns!TypeOK
    <3> QED
      BY <2>2, <3>1, <3>2, <3>3 DEF ChurnInv, Churns!TypeOK
  <2> QED
    BY <2>1, <2>2
<1>4. /\ candidates' \in [Churns!Peer -> SUBSET Candidate]
      /\ \A q \in Churns!Peer : candidates'[q] = IF q = p THEN candidates[q] \cup {c} ELSE candidates[q]
  BY <1>1 DEF ChurnInv, Churns!TypeOK
<1>5. Churns!TypeOK'
  BY <1>1, <1>3, <1>4 DEF ChurnInv, Churns!TypeOK
<1>6. PipesBound' /\ RemoteKnown'
  BY <1>1, <1>2, <1>4 DEF ChurnInv, PipesBound, RemoteKnown
<1>7. ASSUME NEW q \in Churns!Peer, NEW d \in candidates'[q] PROVE CandidateKept(q, d)'
  <2>1. CASE q = p /\ d = c
    BY <1>3, <2>1 DEF CandidateKept, OnItsWay
  <2>2. CASE d \in candidates[q]
    <3>1. CandidateKept(q, d) /\ Churns!Other(q) \in Churns!Peer
      BY <2>2, ChurnTypes DEF ChurnInv, NothingLost
    <3> QED
      BY <1>1, <1>3, <3>1 DEF CandidateKept, OnItsWay
  <2> QED
    BY <1>4, <1>7, <2>1, <2>2
<1>8. \A q \in Churns!Peer :
        described'[q] => candidateQueue_'[q] = <<>> /\ OnItsWay(Churns!Other(q), "description")'
  BY <1>1, <1>3, ChurnTypes DEF ChurnInv, NothingLost, OnItsWay
<1> QED
  BY <1>5, <1>6, <1>7, <1>8 DEF ChurnInv, NothingLost

LEMMA ProbeCandidatesStep ==
  ASSUME ChurnInv, NEW p \in Churns!Peer, Churns!processProbeCandidates_(p)
  PROVE  ChurnInv'
<1>1. /\ pipe_[p] = "made" /\ bound' = [bound EXCEPT ![p] = candidates[p]]
      /\ \E s \in {"have", "failed"} : pipe_' = [pipe_ EXCEPT ![p] = s]
      /\ UNCHANGED <<probe, candidates, candidateQueue_, described, config, onceHavePipe_, binding,
                     remoteCandidates_, heard, closed>>
  BY DEF Churns!processProbeCandidates_
<1>2. signals' = signals \/ \E best \in candidates[p] : Churns!Tell(p, <<best>>)
  BY DEF Churns!processProbeCandidates_
<1>3. /\ signals' \in [Churns!Peer -> Seq(Churns!Message)]
      /\ \A q \in Churns!Peer : \A m : Has(signals[q], m) => Has(signals'[q], m)
  <2>1. CASE signals' = signals
    BY <2>1 DEF ChurnInv, Churns!TypeOK
  <2>2. ASSUME NEW best \in candidates[p], Churns!Tell(p, <<best>>)
        PROVE  /\ signals' \in [Churns!Peer -> Seq(Churns!Message)]
               /\ \A q \in Churns!Peer : \A m : Has(signals[q], m) => Has(signals'[q], m)
    <3>1. <<best>> \in Seq(Churns!Message)
      BY DEF ChurnInv, Churns!TypeOK, Churns!Message
    <3> QED
      BY <2>2, <3>1, Told
  <2> QED
    BY <1>2, <2>1, <2>2
<1>4. /\ bound' \in [Churns!Peer -> SUBSET Candidate]
      /\ pipe_' \in [Churns!Peer -> {"none", "made", "have", "failed"}]
      /\ bound'[p] = candidates[p] /\ pipe_'[p] \in {"have", "failed"}
      /\ \A q \in Churns!Peer : q # p => bound'[q] = bound[q] /\ pipe_'[q] = pipe_[q]
  BY <1>1 DEF ChurnInv, Churns!TypeOK
<1>5. Churns!TypeOK'
  BY <1>1, <1>3, <1>4 DEF ChurnInv, Churns!TypeOK
<1>6. PipesBound' /\ RemoteKnown'
  BY <1>1, <1>4 DEF ChurnInv, PipesBound, RemoteKnown
<1>7. ASSUME NEW q \in Churns!Peer, NEW d \in candidates[q] PROVE CandidateKept(q, d)'
  <2>1. CandidateKept(q, d) /\ Churns!Other(q) \in Churns!Peer
    BY ChurnTypes DEF ChurnInv, NothingLost
  <2> QED
    BY <1>1, <1>3, <1>4, <2>1 DEF CandidateKept, OnItsWay
<1>8. \A q \in Churns!Peer :
        described'[q] => candidateQueue_'[q] = <<>> /\ OnItsWay(Churns!Other(q), "description")'
  BY <1>1, <1>3, ChurnTypes DEF ChurnInv, NothingLost, OnItsWay
<1> QED
  BY <1>1, <1>5, <1>6, <1>7, <1>8 DEF ChurnInv, NothingLost

LEMMA DescribesStep ==
  ASSUME ChurnInv, NEW p \in Churns!Peer, Churns!Describes(p)
  PROVE  ChurnInv'
<1> DEFINE w == candidateQueue_[p]
           ms == <<"description">> \o w
<1>1. /\ described' = [described EXCEPT ![p] = TRUE] /\ Churns!Tell(p, ms)
      /\ candidateQueue_' = [candidateQueue_ EXCEPT ![p] = <<>>]
      /\ UNCHANGED <<probe, candidates, config, pipe_, bound, onceHavePipe_, binding,
                     remoteCandidates_, heard, closed>>
  BY DEF Churns!Describes
<1>2. ms \in Seq(Churns!Message) /\ Has(ms, "description") /\ \A m : Has(w, m) => Has(ms, m)
  <2>1. w \in Seq(Candidate)
    BY ChurnTypes
  <2>2. w \in Seq(Churns!Message)
    BY <2>1 DEF Churns!Message
  <2>3. <<"description">> \in Seq(Churns!Message) /\ Has(<<"description">>, "description")
    BY DEF Churns!Message, Has
  <2> QED
    BY <2>2, <2>3, ConcatHas
<1> HIDE DEF ms
<1>3. /\ signals' \in [Churns!Peer -> Seq(Churns!Message)]
      /\ \A q \in Churns!Peer : \A m : Has(signals[q], m) => Has(signals'[q], m)
      /\ \A m : Has(ms, m) => Has(signals'[Churns!Other(p)], m)
  BY <1>1, <1>2, Told
<1>4. /\ candidateQueue_' \in [Churns!Peer -> Seq(Candidate)]
      /\ described' \in [Churns!Peer -> BOOLEAN]
      /\ candidateQueue_'[p] = <<>>
      /\ \A q \in Churns!Peer : q # p =>
           candidateQueue_'[q] = candidateQueue_[q] /\ described'[q] = described[q]
  BY <1>1 DEF ChurnInv, Churns!TypeOK
<1>5. Churns!TypeOK'
  BY <1>1, <1>3, <1>4 DEF ChurnInv, Churns!TypeOK
<1>6. PipesBound' /\ RemoteKnown'
  BY <1>1 DEF ChurnInv, PipesBound, RemoteKnown
<1>7. ASSUME NEW q \in Churns!Peer, NEW d \in candidates[q] PROVE CandidateKept(q, d)'
  <2>1. CandidateKept(q, d) /\ Churns!Other(q) \in Churns!Peer
    BY ChurnTypes DEF ChurnInv, NothingLost
  <2>2. Has(candidateQueue_[q], d) => Has(candidateQueue_'[q], d) \/ Has(signals'[Churns!Other(q)], d)
    BY <1>2, <1>3, <1>4
  <2> QED
    BY <1>1, <1>3, <2>1, <2>2 DEF CandidateKept, OnItsWay
<1>8. ASSUME NEW q \in Churns!Peer, described'[q]
      PROVE  candidateQueue_'[q] = <<>> /\ OnItsWay(Churns!Other(q), "description")'
  <2>1. CASE q = p
    BY <1>2, <1>3, <1>4, <2>1 DEF OnItsWay
  <2>2. CASE q # p
    BY <1>1, <1>3, <1>4, <1>8, <2>2, ChurnTypes DEF ChurnInv, NothingLost, OnItsWay
  <2> QED
    BY <2>1, <2>2
<1> QED
  BY <1>1, <1>5, <1>6, <1>7, <1>8 DEF ChurnInv, NothingLost

LEMMA SignalStep ==
  ASSUME ChurnInv, NEW p \in Churns!Peer, Churns!handleSignalMessage(p)
  PROVE  ChurnInv'
<1> DEFINE m == Head(signals[p])
           known == IF m \in Candidate THEN remoteCandidates_[p] \cup {m} ELSE remoteCandidates_[p]
           todo == IF m = "transformer" THEN onceHavePipe_[p] ELSE Append(onceHavePipe_[p], m)
           rest == Tail(signals[p])
<1>1. /\ signals[p] # <<>> /\ config' = [config EXCEPT ![p] = @ \/ m = "transformer"]
      /\ remoteCandidates_' = [remoteCandidates_ EXCEPT ![p] = known]
      /\ onceHavePipe_' = [onceHavePipe_ EXCEPT ![p] = todo]
      /\ signals' = [signals EXCEPT ![p] = rest]
      /\ UNCHANGED <<probe, candidates, candidateQueue_, described, pipe_, bound, binding, heard,
                     closed>>
  BY DEF Churns!handleSignalMessage
<1>2. /\ m \in Churns!Message /\ rest \in Seq(Churns!Message)
      /\ \A x : Has(signals[p], x) => x = m \/ Has(rest, x)
  BY <1>1, ChurnTypes, TailHas
<1>3. /\ todo \in Seq(Churns!Message) /\ (m # "transformer" => Has(todo, m))
      /\ \A x : Has(onceHavePipe_[p], x) => Has(todo, x)
      /\ \A k \in 1..Len(todo) : todo[k] \in {"description"} \cup known
  <2>1. \A k \in 1..Len(onceHavePipe_[p]) : onceHavePipe_[p][k] \in {"description"} \cup known
    BY DEF ChurnInv, RemoteKnown
  <2>2. CASE m = "transformer"
    BY <2>1, <2>2, ChurnTypes
  <2>3. CASE m # "transformer"
    <3> DEFINE w == onceHavePipe_[p]
    <3>1. todo = Append(w, m) /\ m \in {"description"} \cup known
      BY <1>2, <2>3 DEF Churns!Message
    <3>2. w \in Seq(Churns!Message)
      BY ChurnTypes
    <3>3. /\ Append(w, m) \in Seq(Churns!Message) /\ Has(Append(w, m), m)
          /\ \A x : Has(w, x) => Has(Append(w, m), x)
          /\ \A k \in 1..Len(Append(w, m)) :
               \/ Append(w, m)[k] = m
               \/ k \in 1..Len(w) /\ Append(w, m)[k] = w[k]
      BY <1>2, <3>2, AppendHas
    <3> HIDE DEF m, known, todo
    <3> QED
      BY <2>1, <3>1, <3>3
  <2> QED
    BY <2>2, <2>3
<1>4. known \in SUBSET Candidate /\ remoteCandidates_[p] \subseteq known
  BY DEF ChurnInv, Churns!TypeOK
<1>5. config' \in [Churns!Peer -> BOOLEAN]
  BY <1>1, Zenon DEF ChurnInv, Churns!TypeOK
<1> HIDE DEF m, known, todo, rest
<1>6. /\ signals' \in [Churns!Peer -> Seq(Churns!Message)] /\ signals'[p] = rest
      /\ onceHavePipe_' \in [Churns!Peer -> Seq(Churns!Message)] /\ onceHavePipe_'[p] = todo
      /\ remoteCandidates_' \in [Churns!Peer -> SUBSET Candidate] /\ remoteCandidates_'[p] = known
      /\ \A q \in Churns!Peer : q # p =>
           /\ signals'[q] = signals[q] /\ onceHavePipe_'[q] = onceHavePipe_[q]
           /\ remoteCandidates_'[q] = remoteCandidates_[q]
  BY <1>1, <1>2, <1>3, <1>4 DEF ChurnInv, Churns!TypeOK
<1>7. Churns!TypeOK'
  BY <1>1, <1>5, <1>6 DEF ChurnInv, Churns!TypeOK
<1>8. PipesBound'
  BY <1>1 DEF ChurnInv, PipesBound
<1>9. ASSUME NEW q \in Churns!Peer
      PROVE  /\ binding'[q] \subseteq remoteCandidates_'[q]
             /\ \A k \in 1..Len(onceHavePipe_'[q]) :
                  onceHavePipe_'[q][k] \in {"description"} \cup remoteCandidates_'[q]
  BY <1>1, <1>3, <1>4, <1>6 DEF ChurnInv, RemoteKnown
<1>10. ASSUME NEW q \in Churns!Peer, NEW x, x # "transformer", OnItsWay(q, x)
       PROVE  OnItsWay(q, x)'
  BY <1>1, <1>2, <1>3, <1>6, <1>10 DEF OnItsWay
<1>11. ASSUME NEW q \in Churns!Peer, NEW d \in candidates[q] PROVE CandidateKept(q, d)'
  <2>1. CandidateKept(q, d) /\ Churns!Other(q) \in Churns!Peer
    BY ChurnTypes DEF ChurnInv, NothingLost
  <2>2. d # "transformer"
    BY ChurnAssumption DEF ChurnInv, Churns!TypeOK
  <2> QED
    BY <1>1, <1>10, <2>1, <2>2 DEF CandidateKept
<1>12. \A q \in Churns!Peer :
         described'[q] => candidateQueue_'[q] = <<>> /\ OnItsWay(Churns!Other(q), "description")'
  BY <1>1, <1>10, ChurnTypes DEF ChurnInv, NothingLost
<1>13. NothingLost' /\ RemoteKnown'
  BY <1>1, <1>9, <1>11, <1>12 DEF NothingLost, RemoteKnown
<1> QED
  BY <1>7, <1>8, <1>13 DEF ChurnInv

LEMMA HavePipeStep ==
  ASSUME ChurnInv, NEW p \in Churns!Peer, Churns!HavePipe(p)
  PROVE  ChurnInv'
<1> DEFINE m == Head(onceHavePipe_[p])
           rest == Tail(onceHavePipe_[p])
<1>1. /\ pipe_[p] = "have" /\ onceHavePipe_[p] # <<>>
      /\ onceHavePipe_' = [onceHavePipe_ EXCEPT ![p] = rest]
      /\ UNCHANGED <<probe, candidates, candidateQueue_, described, config, pipe_, bound,
                     remoteCandidates_, signals, closed>>
  BY DEF Churns!HavePipe
<1>2. IF m = "description"
      THEN heard' = [heard EXCEPT ![p] = @ \cup {m}] /\ binding' = binding
      ELSE /\ binding' = [binding EXCEPT ![p] = IF bound[p] = {} THEN @ ELSE @ \cup {m}]
           /\ heard' = heard
  BY DEF Churns!HavePipe
<1>3. /\ rest \in Seq(Churns!Message)
      /\ \A x : Has(onceHavePipe_[p], x) => x = m \/ Has(rest, x)
      /\ \A k \in 1..Len(rest) : k + 1 \in 1..Len(onceHavePipe_[p]) /\ rest[k] = onceHavePipe_[p][k + 1]
      /\ 1 \in 1..Len(onceHavePipe_[p]) /\ m = onceHavePipe_[p][1]
  BY <1>1, ChurnTypes, TailHas
<1>4. /\ m \in {"description"} \cup remoteCandidates_[p]
      /\ \A k \in 1..Len(rest) : rest[k] \in {"description"} \cup remoteCandidates_[p]
  BY <1>3 DEF ChurnInv, RemoteKnown
<1>5. m # "description" => m \in Candidate
  BY <1>4 DEF ChurnInv, Churns!TypeOK
<1> HIDE DEF m, rest
<1>6. /\ onceHavePipe_' \in [Churns!Peer -> Seq(Churns!Message)] /\ onceHavePipe_'[p] = rest
      /\ \A q \in Churns!Peer : q # p => onceHavePipe_'[q] = onceHavePipe_[q]
  BY <1>1, <1>3 DEF ChurnInv, Churns!TypeOK
<1>7. /\ heard' \in [Churns!Peer -> SUBSET Churns!Message]
      /\ binding' \in [Churns!Peer -> SUBSET Candidate]
      /\ \A q \in Churns!Peer : heard[q] \subseteq heard'[q] /\ binding[q] \subseteq binding'[q]
      /\ \A q \in Churns!Peer : binding'[q] \subseteq remoteCandidates_[q]
      /\ m \in heard'[p] \/ m \in binding'[p] \/ (bound[p] = {} /\ m # "description")
      /\ m = "description" => m \in heard'[p]
  <2>1. CASE m = "description"
    <3>1. heard' = [heard EXCEPT ![p] = heard[p] \cup {m}] /\ binding' = binding
      BY <1>2, <2>1
    <3>2. m \in Churns!Message /\ heard \in [Churns!Peer -> SUBSET Churns!Message]
      BY <2>1 DEF ChurnInv, Churns!TypeOK, Churns!Message
    <3>3. /\ heard' \in [Churns!Peer -> SUBSET Churns!Message] /\ m \in heard'[p]
          /\ \A q \in Churns!Peer : heard[q] \subseteq heard'[q]
      BY <3>1, <3>2
    <3> QED
      BY <2>1, <3>1, <3>3 DEF ChurnInv, Churns!TypeOK, RemoteKnown
  <2>2. CASE m # "description"
    <3> DEFINE b == IF bound[p] = {} THEN binding[p] ELSE binding[p] \cup {m}
    <3>1. heard' = heard /\ binding' = [binding EXCEPT ![p] = b]
      BY <1>2, <2>2
    <3>2. /\ binding \in [Churns!Peer -> SUBSET Candidate]
          /\ heard \in [Churns!Peer -> SUBSET Churns!Message]
          /\ remoteCandidates_[p] \subseteq Candidate
          /\ \A q \in Churns!Peer : binding[q] \subseteq remoteCandidates_[q]
      BY DEF ChurnInv, Churns!TypeOK, RemoteKnown
    <3>3. /\ binding[p] \subseteq b /\ b \subseteq remoteCandidates_[p]
          /\ m \in b \/ bound[p] = {}
      BY <1>4, <2>2, <3>2
    <3> HIDE DEF b
    <3>4. /\ binding' \in [Churns!Peer -> SUBSET Candidate] /\ binding'[p] = b
          /\ \A q \in Churns!Peer : q # p => binding'[q] = binding[q]
      BY <3>1, <3>2, <3>3
    <3> QED
      BY <2>2, <3>1, <3>2, <3>3, <3>4
  <2> QED
    BY <2>1, <2>2
<1>8. Churns!TypeOK'
  BY <1>1, <1>6, <1>7 DEF ChurnInv, Churns!TypeOK
<1>9. PipesBound'
  BY <1>1 DEF ChurnInv, PipesBound
<1>10. ASSUME NEW q \in Churns!Peer
       PROVE  /\ binding'[q] \subseteq remoteCandidates_'[q]
              /\ \A k \in 1..Len(onceHavePipe_'[q]) :
                   onceHavePipe_'[q][k] \in {"description"} \cup remoteCandidates_'[q]
  BY <1>1, <1>4, <1>6, <1>7 DEF ChurnInv, RemoteKnown
<1>11. ASSUME NEW q \in Churns!Peer, NEW x, OnItsWay(q, x)
       PROVE  \/ OnItsWay(q, x)' \/ x \in binding'[q]
              \/ pipe_[q] = "have" /\ bound[q] = {} /\ x # "description"
  BY <1>1, <1>3, <1>6, <1>7, <1>11 DEF OnItsWay
<1>12. ASSUME NEW q \in Churns!Peer, NEW d \in candidates[q] PROVE CandidateKept(q, d)'
  <2>1. CandidateKept(q, d) /\ Churns!Other(q) \in Churns!Peer
    BY ChurnTypes DEF ChurnInv, NothingLost
  <2> QED
    BY <1>1, <1>7, <1>11, <2>1 DEF CandidateKept
<1>13. ASSUME NEW q \in Churns!Peer, described'[q]
       PROVE  candidateQueue_'[q] = <<>> /\ OnItsWay(Churns!Other(q), "description")'
  <2> DEFINE o == Churns!Other(q)
  <2>1. o \in Churns!Peer /\ candidateQueue_[q] = <<>> /\ OnItsWay(o, "description")
    BY <1>1, <1>13, ChurnTypes DEF ChurnInv, NothingLost
  <2>2. "description" \notin binding'[o]
    BY <1>7, <2>1, ChurnAssumption
  <2> QED
    BY <1>1, <1>11, <2>1, <2>2
<1>14. NothingLost' /\ RemoteKnown'
  BY <1>1, <1>10, <1>12, <1>13 DEF NothingLost, RemoteKnown
<1> QED
  BY <1>8, <1>9, <1>14 DEF ChurnInv

LEMMA MappingStep ==
  ASSUME ChurnInv, NEW p \in Churns!Peer, NEW c \in Candidate, Churns!onMappingAdded_(p, c)
  PROVE  ChurnInv'
<1>1. /\ c \in binding[p] /\ binding' = [binding EXCEPT ![p] = @ \ {c}]
      /\ heard' = [heard EXCEPT ![p] = @ \cup {c}]
      /\ UNCHANGED <<probe, candidates, candidateQueue_, described, config, pipe_, bound,
                     onceHavePipe_, remoteCandidates_, signals, closed>>
  BY DEF Churns!onMappingAdded_, ChurnInv, RemoteKnown
<1>2. /\ binding' \in [Churns!Peer -> SUBSET Candidate]
      /\ heard' \in [Churns!Peer -> SUBSET Churns!Message]
      /\ \A q \in Churns!Peer : binding'[q] \subseteq binding[q] /\ heard[q] \subseteq heard'[q]
      /\ \A q \in Churns!Peer : binding[q] \subseteq binding'[q] \cup heard'[q]
  BY <1>1 DEF ChurnInv, Churns!TypeOK, Churns!Message
<1>3. Churns!TypeOK'
  BY <1>1, <1>2 DEF ChurnInv, Churns!TypeOK
<1>4. PipesBound' /\ RemoteKnown'
  BY <1>1, <1>2 DEF ChurnInv, PipesBound, RemoteKnown
<1>5. ASSUME NEW q \in Churns!Peer, NEW d \in candidates[q] PROVE CandidateKept(q, d)'
  <2>1. CandidateKept(q, d) /\ Churns!Other(q) \in Churns!Peer
    BY ChurnTypes DEF ChurnInv, NothingLost
  <2> QED
    BY <1>1, <1>2, <2>1 DEF CandidateKept, OnItsWay
<1>6. \A q \in Churns!Peer :
        described'[q] => candidateQueue_'[q] = <<>> /\ OnItsWay(Churns!Other(q), "description")'
  BY <1>1, <1>2, ChurnTypes DEF ChurnInv, NothingLost, OnItsWay
<1> QED
  BY <1>1, <1>3, <1>4, <1>5, <1>6 DEF ChurnInv, NothingLost

LEMMA ChurnStep == ChurnInv /\ [Churns!Next]_(Churns!vars) => ChurnInv'
<1> SUFFICES ASSUME ChurnInv, [Churns!Next]_(Churns!vars) PROVE ChurnInv'
  OBVIOUS
<1>1. ASSUME NEW p \in Churns!Peer, Churns!Step(p) PROVE ChurnInv'
  BY <1>1, PipeSteps, ProbeCandidatesStep, DescribesStep, SignalStep, HavePipeStep, MappingStep
     DEF Churns!Step
<1>2. ASSUME NEW p \in Churns!Peer, Churns!close(p) PROVE ChurnInv'
  BY <1>2, PipeSteps
<1>3. ASSUME NEW p \in Churns!Peer, NEW c \in Candidate, Churns!Found(p, c) PROVE ChurnInv'
  BY <1>3, FoundStep
<1>4. CASE UNCHANGED Churns!vars
  BY <1>4 DEF Churns!vars, ChurnInv, Churns!TypeOK, NothingLost, CandidateKept, OnItsWay,
              PipesBound, RemoteKnown
<1> QED
  BY <1>1, <1>2, <1>3, <1>4 DEF Churns!Next

LEMMA ChurnsEstablish == ChurnInv => Churns!TypeOK /\ Churns!Established
<1> SUFFICES ASSUME ChurnInv, Churns!Quiet,
                    \A p \in Churns!Peer : ~closed[p] /\ pipe_[p] = "have"
             PROVE  \A p \in Churns!Peer :
                      /\ bound[p] = candidates[p] /\ "description" \in heard[p]
                      /\ bound[p] # {} => candidates[Churns!Other(p)] \subseteq heard[p]
  BY DEF ChurnInv, Churns!Established
<1>1. \A p \in Churns!Peer :
        /\ signals[p] = <<>> /\ onceHavePipe_[p] = <<>> /\ binding[p] = {}
        /\ described[p] \/ (p = "answerer" /\ "description" \notin heard[p])
  BY DEF Churns!Quiet
<1>2. \A p \in Churns!Peer : \A m : OnItsWay(p, m) => m \in heard[p]
  BY <1>1, EmptyHas DEF OnItsWay
<1>3. described["offerer"] /\ "description" \in heard["answerer"]
  BY <1>1, <1>2 DEF ChurnInv, NothingLost, Churns!Peer, Churns!Other
<1>4. \A p \in Churns!Peer : described[p]
  BY <1>1, <1>3 DEF Churns!Peer
<1>5. "description" \in heard["offerer"]
  BY <1>2, <1>4 DEF ChurnInv, NothingLost, Churns!Peer, Churns!Other
<1>6. ASSUME NEW p \in Churns!Peer, bound[p] # {}, NEW c \in candidates[Churns!Other(p)]
      PROVE  c \in heard[p]
  <2>1. Churns!Other(p) \in Churns!Peer /\ Churns!Other(Churns!Other(p)) = p
    BY ChurnTypes
  <2>2. CandidateKept(Churns!Other(p), c) /\ candidateQueue_[Churns!Other(p)] = <<>>
    BY <1>4, <1>6, <2>1 DEF ChurnInv, NothingLost
  <2> QED
    BY <1>1, <1>2, <1>6, <2>1, <2>2, EmptyHas DEF CandidateKept
<1> QED
  BY <1>3, <1>5, <1>6 DEF ChurnInv, PipesBound, Churns!Peer
HIDE DEF probe, candidates, candidateQueue_, described, config, pipe_, bound, onceHavePipe_,
         binding, remoteCandidates_, heard, signals, closed
-----------------------------------------------------------------------------
(* However the two sides' signals interleave, are lost or come with an error,  *)
(* both come to one kind of connection; once all is heard, an obfuscated one   *)
(* has bound every candidate of its own and been told of every one of the      *)
(* other, and for each of them every port has its mirror, announced or refused *)
(* (bridge.ts, churn.ts, churn-pipe.ts).                                       *)
THEOREM PathsAgree == Spec => []PathAgrees
<1> DEFINE Inv == /\ part = "bridge" => BridgeInv
                  /\ part = "churn" => ChurnInv
                  /\ part = "pipe" => PipeInv
<1>1. Init => Inv
  BY BridgeInit, ChurnInit, PipeInit DEF Init
<1>2. Inv /\ [Next]_vars => Inv'
  <2> SUFFICES ASSUME Inv, [Next]_vars PROVE Inv'
    OBVIOUS
  <2>1. part' = part
    BY DEF Next, vars
  <2>2. ASSUME part = "bridge" PROVE BridgeInv'
    <3>1. [Bridges!Next]_(Bridges!vars)
      BY <2>2 DEF Next, vars, Bridges!vars
    <3> QED
      BY <2>2, <3>1, BridgeStep
  <2>3. ASSUME part = "churn" PROVE ChurnInv'
    <3>1. [Churns!Next]_(Churns!vars)
      BY <2>3 DEF Next, vars, Churns!vars
    <3> QED
      BY <2>3, <3>1, ChurnStep
  <2>4. ASSUME part = "pipe" PROVE PipeInv'
    <3>1. [Pipes!Next]_(Pipes!vars)
      BY <2>4 DEF Next, vars, Pipes!vars
    <3> QED
      BY <2>4, <3>1, PipeStep
  <2> QED
    BY <2>1, <2>2, <2>3, <2>4
<1>3. Inv => PathAgrees
  BY BridgesAgree, ChurnsEstablish, PipesOffer DEF PathAgrees
<1> QED
  BY <1>1, <1>2, <1>3, PTL DEF Spec
-----------------------------------------------------------------------------
(* Dialogs.  A promise is kept under the number its question was asked with    *)
(* until one of the questions of that number is settled; what is on its way to *)
(* the panel or shown there bears its number; and a yes that is on its way to  *)
(* the background was clicked for a question of that number.                   *)
clock == v1
panels == v2
askedAs == v3
promisesMap_ == v4
settled == v5
toPanel == v6
toBackground == v7
connected == v8
dialogClickFn == v9
dialog == v10
overlay == v11
opening == v12
queuing == v13
held == v14
clicked == v15
USE DEF clock, panels, askedAs, promisesMap_, settled, toPanel, toBackground, connected,
        dialogClickFn, dialog, overlay, opening, queuing, held, clicked

OneSettled(n) == \E r \in Question : askedAs[r] = n /\ settled[r] # None
AnswerSent(n) == \E k \in 1..Len(toBackground) : toBackground[k][1] = n
Meant(n) == \E r \in clicked : askedAs[r] = n

PromisesNumbered ==
  /\ \A n \in 1..Latest : promisesMap_[n] \in Question => askedAs[promisesMap_[n]] = n
  /\ \A q \in Question :
       askedAs[q] \in 1..Latest => promisesMap_[askedAs[q]] \in Question \/ OneSettled(askedAs[q])

QuestionsNumbered ==
  /\ toPanel \in Seq(Question \X (1..Latest))
  /\ \A k \in 1..Len(toPanel) : askedAs[toPanel[k][1]] = toPanel[k][2]
  /\ dialogClickFn # None =>
       /\ dialog \in Question /\ askedAs[dialog] \in 0..Latest
       /\ dialogClickFn = <<dialog, askedAs[dialog]>>

AnswersMeant ==
  /\ toBackground \in Seq((1..Latest) \X {"fulfilled", "rejected"})
  /\ \A k \in 1..Len(toBackground) :
       toBackground[k][2] = "fulfilled" => Meant(toBackground[k][1])

FulfilledMeant ==
  \A q \in Question : settled[q] = "fulfilled" =>
    q \in clicked \/ (askedAs[q] \in 1..Latest /\ Meant(askedAs[q]))

(* One of the questions under q's number is answered, will be, or is shown. *)
Cared(q) ==
  \/ settled[q] # None \/ (dialogClickFn # None /\ dialog = q)
  \/ /\ askedAs[q] \in 1..Latest
     /\ \/ OneSettled(askedAs[q]) \/ AnswerSent(askedAs[q])
        \/ dialogClickFn # None /\ askedAs[dialog] = askedAs[q]

HeldCared == \A q \in held : askedAs[q] \in 0..Latest /\ Cared(q)

DialogsInv ==
  /\ Panel!TypeOK /\ held \subseteq Question
  /\ PromisesNumbered /\ QuestionsNumbered /\ AnswersMeant /\ FulfilledMeant /\ HeldCared

LEMMA DialogsMeant == DialogsInv => Panel!TypeOK /\ Panel!DialogsAnswered
<1> SUFFICES ASSUME DialogsInv PROVE Panel!DialogsAnswered
  BY DEF DialogsInv
<1>1. ASSUME NEW q \in Question, settled[q] = "fulfilled"
      PROVE  Panel!Numbered(q) \cap clicked # {}
  <2>1. CASE q \in clicked
    BY <2>1 DEF Panel!Numbered
  <2>2. CASE askedAs[q] \in 1..Latest /\ Meant(askedAs[q])
    <3>1. PICK r \in clicked : askedAs[r] = askedAs[q]
      BY <2>2 DEF Meant
    <3>2. r \in Question /\ askedAs[q] # 0
      BY <2>2, <3>1, DialogsAssumption DEF DialogsInv, Panel!TypeOK
    <3> QED
      BY <3>1, <3>2 DEF Panel!Numbered
  <2> QED
    BY <1>1, <2>1, <2>2 DEF DialogsInv, FulfilledMeant
<1>2. ASSUME NEW q \in held
      PROVE  \E r \in Panel!Numbered(q) :
               \/ settled[r] # None \/ Panel!UnderWay(r)
               \/ dialogClickFn # None /\ dialogClickFn[1] = r /\ dialog = r
  <2>1. q \in Question /\ askedAs[q] \in 0..Latest /\ Cared(q)
    BY DEF DialogsInv, HeldCared
  <2>2. q \in Panel!Numbered(q) /\ (dialogClickFn # None => dialog \in Question /\ dialogClickFn[1] = dialog)
    BY <2>1 DEF Panel!Numbered, DialogsInv, QuestionsNumbered
  <2>3. CASE settled[q] # None \/ (dialogClickFn # None /\ dialog = q)
    BY <2>2, <2>3
  <2>4. CASE askedAs[q] \in 1..Latest
    <3>1. askedAs[q] # 0
      BY <2>4, DialogsAssumption
    <3>2. \A r \in Question : askedAs[r] = askedAs[q] => r \in Panel!Numbered(q)
      BY <3>1 DEF Panel!Numbered
    <3>3. CASE OneSettled(askedAs[q])
      BY <3>2, <3>3 DEF OneSettled
    <3>4. CASE AnswerSent(askedAs[q]) /\ ~OneSettled(askedAs[q])
      <4>1. promisesMap_[askedAs[q]] \in Question
        BY <2>1, <2>4, <3>4 DEF DialogsInv, PromisesNumbered
      <4>2. PICK r \in Question : r = promisesMap_[askedAs[q]]
        BY <4>1
      <4>3. askedAs[r] = askedAs[q]
        BY <2>4, <4>2 DEF DialogsInv, PromisesNumbered
      <4>4. PICK k \in 1..Len(toBackground) : toBackground[k][1] = askedAs[q]
        BY <3>4 DEF AnswerSent
      <4>5. k \in DOMAIN toBackground
        BY <4>4 DEF DialogsInv, AnswersMeant
      <4>6. Panel!UnderWay(r)
        BY <4>2, <4>4, <4>5 DEF Panel!UnderWay
      <4> QED
        BY <3>2, <4>3, <4>6
    <3>5. CASE dialogClickFn # None /\ askedAs[dialog] = askedAs[q]
      BY <2>2, <3>2, <3>5
    <3> QED
      BY <2>1, <2>3, <3>3, <3>4, <3>5 DEF Cared
  <2> QED
    BY <2>1, <2>3, <2>4 DEF Cared
<1> QED
  BY <1>1, <1>2 DEF Panel!DialogsAnswered

LEMMA DialogsInit == Panel!Init => DialogsInv
<1> SUFFICES ASSUME Panel!Init PROVE DialogsInv
  OBVIOUS
<1> USE DialogsAssumption DEF Panel!Init
<1>1. /\ clock \in 1..Latest /\ panels \in 0..MaxPanels
      /\ promisesMap_ \in [1..Latest -> Question \cup {None}]
      /\ askedAs \in [Question -> 0..Latest \cup {None}]
      /\ settled \in [Question -> {"fulfilled", "rejected", None}]
  OBVIOUS
<1>2. PromisesNumbered /\ QuestionsNumbered /\ AnswersMeant /\ FulfilledMeant /\ HeldCared
  BY DEF PromisesNumbered, QuestionsNumbered, AnswersMeant, FulfilledMeant, HeldCared
<1> QED
  BY <1>1, <1>2 DEF DialogsInv, Panel!TypeOK

(* What was settled or clicked under a number stays so, *)
LEMMA NumbersStay ==
  ASSUME DialogsInv, \A r \in Question : askedAs[r] # None => askedAs'[r] = askedAs[r],
         NEW n, n \in 1..Latest
  PROVE  /\ (\A r \in Question : settled[r] # None => settled'[r] # None) =>
              (OneSettled(n) => OneSettled(n)')
         /\ clicked \subseteq clicked' => (Meant(n) => Meant(n)')
<1>1. n # None
  BY DialogsAssumption
<1>2. ASSUME \A r \in Question : settled[r] # None => settled'[r] # None, OneSettled(n)
      PROVE  OneSettled(n)'
  BY <1>1, <1>2 DEF OneSettled
<1>3. ASSUME clicked \subseteq clicked', Meant(n) PROVE Meant(n)'
  BY <1>1, <1>3 DEF Meant, DialogsInv, Panel!TypeOK
<1> QED
  BY <1>2, <1>3

(* and a question the panel holds stays cared for, when the one that is shown  *)
(* is answered before another takes its place.                                 *)
LEMMA CareStays ==
  ASSUME DialogsInv, \A r \in Question : askedAs[r] # None => askedAs'[r] = askedAs[r],
         \A r \in Question : settled[r] # None => settled'[r] # None,
         \A n \in 1..Latest : AnswerSent(n) => AnswerSent(n)' \/ OneSettled(n)',
         \/ dialogClickFn = None
         \/ UNCHANGED <<dialogClickFn, dialog>>
         \/ askedAs[dialog] = 0 /\ settled'[dialog] # None
         \/ \E n \in 1..Latest : n = askedAs[dialog] /\ AnswerSent(n)'
  PROVE  \A q \in held : askedAs'[q] \in 0..Latest /\ Cared(q)'
<1> SUFFICES ASSUME NEW q \in held PROVE askedAs'[q] \in 0..Latest /\ Cared(q)'
  OBVIOUS
<1>1. q \in Question /\ askedAs[q] \in 0..Latest /\ Cared(q)
  BY DEF DialogsInv, HeldCared
<1>2. askedAs[q] # None /\ askedAs'[q] = askedAs[q]
  BY <1>1, DialogsAssumption
<1>3. dialogClickFn # None => /\ dialog \in Question /\ askedAs[dialog] \in 0..Latest
                              /\ askedAs'[dialog] = askedAs[dialog]
  <2>1. dialogClickFn # None => dialog \in Question /\ askedAs[dialog] \in 0..Latest
    BY DEF DialogsInv, QuestionsNumbered
  <2> QED
    BY <2>1, DialogsAssumption
<1>4. CASE settled[q] # None
  BY <1>1, <1>2, <1>4 DEF Cared
<1>5. CASE dialogClickFn # None /\ dialog = q
  <2>1. settled'[q] # None \/ (dialogClickFn' # None /\ dialog' = q)
          \/ (\E n \in 1..Latest : n = askedAs[dialog] /\ AnswerSent(n)')
    BY <1>5
  <2>2. CASE \E n \in 1..Latest : n = askedAs[dialog] /\ AnswerSent(n)'
    <3>1. askedAs'[q] \in 1..Latest /\ \E n \in 1..Latest : n = askedAs'[q] /\ AnswerSent(n)'
      BY <1>2, <1>5, <2>2
    <3> QED
      BY <1>2, <3>1 DEF Cared, AnswerSent
  <2> QED
    BY <1>1, <1>2, <2>1, <2>2 DEF Cared
<1>6. CASE askedAs[q] \in 1..Latest
  <2>1. CASE OneSettled(askedAs[q])
    <3>1. OneSettled(askedAs[q])'
      BY <1>2, <1>6, <2>1, NumbersStay DEF OneSettled
    <3> QED
      BY <1>2, <1>6, <3>1 DEF Cared
  <2>2. CASE AnswerSent(askedAs[q])
    <3>1. AnswerSent(askedAs[q])' \/ OneSettled(askedAs[q])'
      BY <1>2, <1>6, <2>2 DEF AnswerSent, OneSettled
    <3> QED
      BY <1>2, <1>6, <3>1 DEF Cared
  <2>3. CASE dialogClickFn # None /\ askedAs[dialog] = askedAs[q]
    <3>1. askedAs[dialog] # 0
      BY <1>6, <2>3, DialogsAssumption
    <3>2. CASE UNCHANGED <<dialogClickFn, dialog>>
      <4>1. dialogClickFn' # None /\ askedAs'[dialog'] = askedAs'[q]
        BY <1>2, <1>3, <2>3, <3>2
      <4> QED
        BY <1>1, <1>2, <1>6, <4>1 DEF Cared
    <3>3. CASE \E n \in 1..Latest : n = askedAs[dialog] /\ AnswerSent(n)'
      <4>1. \E n \in 1..Latest : n = askedAs'[q] /\ AnswerSent(n)'
        BY <1>2, <2>3, <3>3
      <4> QED
        BY <1>1, <1>2, <1>6, <4>1 DEF Cared, AnswerSent
    <3> QED
      BY <2>3, <3>1, <3>2, <3>3
  <2> QED
    BY <1>1, <1>4, <1>5, <2>1, <2>2, <2>3 DEF Cared
<1> QED
  BY <1>1, <1>4, <1>5, <1>6 DEF Cared

(* An answer: the question that was to be answered is settled, or its answer   *)
(* is under way.                                                               *)
LEMMA Answered ==
  ASSUME DialogsInv, dialogClickFn # None, NEW how \in {"fulfilled", "rejected"},
         Panel!Answer(dialogClickFn, how),
         clicked' = IF how = "fulfilled" THEN clicked \cup {dialog} ELSE clicked,
         \A r \in Question : askedAs[r] # None => askedAs'[r] = askedAs[r]
  PROVE  /\ settled' \in [Question -> {"fulfilled", "rejected", None}]
         /\ \A q \in Question : settled[q] # None => settled'[q] = settled[q]
         /\ clicked' \subseteq Question /\ AnswersMeant' /\ FulfilledMeant'
         /\ \A n \in 1..Latest : AnswerSent(n) => AnswerSent(n)'
         /\ \/ askedAs[dialog] = 0 /\ settled'[dialog] # None
            \/ \E n \in 1..Latest : n = askedAs[dialog] /\ AnswerSent(n)'
<1>1. /\ dialog \in Question /\ askedAs[dialog] \in 0..Latest
      /\ dialogClickFn[1] = dialog /\ dialogClickFn[2] = askedAs[dialog]
  BY DEF DialogsInv, QuestionsNumbered
<1> DEFINE id == askedAs[dialog]
<1>2. id # None /\ askedAs'[dialog] = id
  BY <1>1, DialogsAssumption
<1>3. clicked' \subseteq Question /\ clicked \subseteq clicked' /\ (how = "fulfilled" => dialog \in clicked')
  BY <1>1 DEF DialogsInv, Panel!TypeOK
<1>4. \A n \in 1..Latest : Meant(n) => Meant(n)'
  BY <1>3, NumbersStay
<1>5. \A q \in Question : q \in clicked \/ (askedAs[q] \in 1..Latest /\ Meant(askedAs[q])) =>
        q \in clicked' \/ (askedAs'[q] \in 1..Latest /\ Meant(askedAs[q])')
  <2> SUFFICES ASSUME NEW q \in Question, askedAs[q] \in 1..Latest, Meant(askedAs[q])
               PROVE  askedAs'[q] \in 1..Latest /\ Meant(askedAs[q])'
    BY <1>3
  <2>1. askedAs'[q] = askedAs[q]
    BY DialogsAssumption
  <2> QED
    BY <1>4, <2>1 DEF Meant
<1>6. CASE id = 0
  <2>1. settled' = [settled EXCEPT ![dialog] = IF settled[dialog] = None THEN how ELSE settled[dialog]]
        /\ toBackground' = toBackground
    BY <1>1, <1>6 DEF Panel!Answer, Panel!Settle
  <2>2. /\ settled' \in [Question -> {"fulfilled", "rejected", None}] /\ settled'[dialog] # None
        /\ \A q \in Question : settled[q] # None => settled'[q] = settled[q]
        /\ \A q \in Question : settled'[q] = settled[q] \/ (q = dialog /\ settled'[q] = how)
    BY <1>1, <2>1, DialogsAssumption DEF DialogsInv, Panel!TypeOK
  <2>3. AnswersMeant'
    BY <1>4, <2>1 DEF DialogsInv, AnswersMeant, Meant
  <2>4. FulfilledMeant'
    BY <1>3, <1>5, <2>2 DEF DialogsInv, FulfilledMeant, Meant
  <2>5. \A n \in 1..Latest : AnswerSent(n) => AnswerSent(n)'
    BY <2>1 DEF AnswerSent
  <2> QED
    BY <1>3, <1>6, <2>2, <2>3, <2>4, <2>5
<1>7. CASE id # 0
  <2> DEFINE e == <<id, how>>
             w == Append(toBackground, e)
  <2>1. toBackground' = w /\ settled' = settled
    BY <1>1, <1>7 DEF Panel!Answer
  <2>2. id \in 1..Latest /\ e \in (1..Latest) \X {"fulfilled", "rejected"}
        /\ e[1] = id /\ e[2] = how
    BY <1>1, <1>7, DialogsAssumption
  <2>3. toBackground \in Seq((1..Latest) \X {"fulfilled", "rejected"})
    BY DEF DialogsInv, AnswersMeant
  <2> HIDE DEF e
  <2>4. /\ w \in Seq((1..Latest) \X {"fulfilled", "rejected"}) /\ Len(w) = Len(toBackground) + 1
        /\ w[Len(w)] = e /\ Len(toBackground) \in Nat
        /\ \A k \in 1..Len(toBackground) : w[k] = toBackground[k]
    BY <2>2, <2>3, AppendProperties
  <2> HIDE DEF w
  <2>6. ASSUME NEW k \in 1..Len(w), w[k][2] = "fulfilled"
        PROVE  \E r \in clicked' : askedAs'[r] = w[k][1]
    <3>1. CASE k \in 1..Len(toBackground)
      <4>1. Meant(toBackground[k][1]) /\ toBackground[k][1] \in 1..Latest
        BY <2>3, <2>4, <2>6, <3>1 DEF DialogsInv, AnswersMeant
      <4>2. PICK r \in clicked : askedAs[r] = toBackground[k][1]
        BY <4>1 DEF Meant
      <4>3. r \in Question /\ askedAs[r] # None
        BY <4>1, <4>2, DialogsAssumption DEF DialogsInv, Panel!TypeOK
      <4>4. r \in clicked' /\ askedAs'[r] = w[k][1]
        BY <1>3, <2>4, <3>1, <4>2, <4>3
      <4> QED
        BY <4>4
    <3>2. CASE k = Len(w)
      <4>1. dialog \in clicked' /\ askedAs'[dialog] = w[k][1]
        BY <1>2, <1>3, <2>2, <2>4, <2>6, <3>2
      <4> QED
        BY <4>1
    <3> QED
      BY <2>4, <3>1, <3>2
  <2>7. AnswersMeant'
    BY <2>1, <2>4, <2>6 DEF AnswersMeant, Meant
  <2>8. ASSUME NEW n \in 1..Latest, AnswerSent(n) PROVE AnswerSent(n)'
    <3>1. PICK k \in 1..Len(toBackground) : toBackground[k][1] = n
      BY <2>8 DEF AnswerSent
    <3>2. k \in 1..Len(w) /\ w[k][1] = n
      BY <2>4, <3>1
    <3> QED
      BY <2>1, <3>2 DEF AnswerSent
  <2>9. \E n \in 1..Latest : n = id /\ AnswerSent(n)'
    <3>1. PICK n \in 1..Latest : n = id
      BY <2>2
    <3>2. Len(w) \in 1..Len(w) /\ w[Len(w)][1] = n
      BY <2>2, <2>4, <3>1
    <3>3. AnswerSent(n)'
      BY <2>1, <3>2 DEF AnswerSent
    <3> QED
      BY <3>1, <3>3
  <2>10. FulfilledMeant'
    BY <1>5, <2>1 DEF DialogsInv, FulfilledMeant, Meant
  <2> QED
    BY <1>3, <2>1, <2>2, <2>7, <2>8, <2>9, <2>10 DEF DialogsInv, Panel!TypeOK
<1> QED
  BY <1>6, <1>7

(* A question comes to the panel. *)
LEMMA OpenDialogStep ==
  ASSUME DialogsInv, NEW q \in Question, NEW id \in 0..Latest, Panel!openDialog(q, id),
         UNCHANGED <<clock, panels, promisesMap_, connected, clicked>>,
         askedAs' \in [Question -> 0..Latest \cup {None}],
         \A r \in Question : askedAs[r] # None => askedAs'[r] = askedAs[r],
         \A r \in Question : askedAs'[r] = askedAs[r] \/ askedAs'[r] = 0,
         askedAs'[q] = id,
         toPanel' \in Seq(Question \X (1..Latest)),
         \A k \in 1..Len(toPanel') : askedAs'[toPanel'[k][1]] = toPanel'[k][2]
  PROVE  DialogsInv'
<1>1. /\ dialogClickFn' = <<q, id>> /\ dialog' = q /\ held' = held \cup {q}
      /\ overlay' = overlay
  BY DEF Panel!openDialog
<1>2. /\ settled' \in [Question -> {"fulfilled", "rejected", None}]
      /\ \A r \in Question : settled[r] # None => settled'[r] = settled[r]
      /\ AnswersMeant' /\ FulfilledMeant'
      /\ \A n \in 1..Latest : AnswerSent(n) => AnswerSent(n)'
      /\ \/ dialogClickFn = None
         \/ askedAs[dialog] = 0 /\ settled'[dialog] # None
         \/ \E n \in 1..Latest : n = askedAs[dialog] /\ AnswerSent(n)'
  <2>1. CASE dialogClickFn = None
    <3>1. UNCHANGED <<settled, toBackground, clicked>>
      BY <2>1 DEF Panel!openDialog
    <3>2. \A n \in 1..Latest : Meant(n) => Meant(n)'
      BY <3>1, NumbersStay
    <3>3. toBackground \in Seq((1..Latest) \X {"fulfilled", "rejected"})
          /\ \A k \in 1..Len(toBackground) : toBackground[k][1] \in 1..Latest
      BY DEF DialogsInv, AnswersMeant
    <3>4. AnswersMeant'
      BY <3>1, <3>2, <3>3 DEF DialogsInv, AnswersMeant, Meant
    <3>5. ASSUME NEW r \in Question, settled'[r] = "fulfilled"
          PROVE  r \in clicked' \/ (askedAs'[r] \in 1..Latest /\ Meant(askedAs[r])')
      <4>1. r \in clicked \/ (askedAs[r] \in 1..Latest /\ Meant(askedAs[r]))
        BY <3>1, <3>5 DEF DialogsInv, FulfilledMeant
      <4>2. CASE askedAs[r] \in 1..Latest /\ Meant(askedAs[r])
        <5>1. askedAs'[r] = askedAs[r]
          BY <4>2, DialogsAssumption
        <5> QED
          BY <3>2, <4>2, <5>1 DEF Meant
      <4> QED
        BY <3>1, <4>1, <4>2
    <3>6. FulfilledMeant'
      BY <3>5 DEF FulfilledMeant, Meant
    <3> QED
      BY <2>1, <3>1, <3>4, <3>6 DEF DialogsInv, Panel!TypeOK, AnswerSent
  <2>2. CASE dialogClickFn # None
    <3>1. Panel!Answer(dialogClickFn, "rejected")
      BY <2>2 DEF Panel!openDialog
    <3> QED
      BY <2>2, <3>1, Answered
  <2> QED
    BY <2>1, <2>2
<1>3. Panel!TypeOK' /\ held' \subseteq Question
  BY <1>1, <1>2 DEF DialogsInv, Panel!TypeOK
<1>4. PromisesNumbered'
  <2>1. ASSUME NEW n \in 1..Latest, promisesMap_'[n] \in Question
        PROVE  askedAs'[promisesMap_'[n]] = n
    BY <2>1, DialogsAssumption DEF DialogsInv, PromisesNumbered
  <2>2. ASSUME NEW r \in Question, askedAs'[r] \in 1..Latest
        PROVE  promisesMap_'[askedAs'[r]] \in Question \/ OneSettled(askedAs[r])'
    <3>1. askedAs'[r] = askedAs[r]
      BY <2>2, DialogsAssumption
    <3>2. OneSettled(askedAs[r]) => OneSettled(askedAs[r])'
      BY <1>2, <2>2, <3>1, NumbersStay DEF OneSettled
    <3> QED
      BY <2>2, <3>1, <3>2 DEF DialogsInv, PromisesNumbered
  <2> QED
    BY <2>1, <2>2 DEF PromisesNumbered, OneSettled
<1>5. QuestionsNumbered'
  BY <1>1 DEF QuestionsNumbered
<1>6. \A r \in held : askedAs'[r] \in 0..Latest /\ Cared(r)'
  <2>1. \A r \in Question : settled[r] # None => settled'[r] # None
    BY <1>2
  <2> QED
    BY <1>2, <2>1, CareStays
<1>7. askedAs'[q] \in 0..Latest /\ Cared(q)'
  BY <1>1, DialogsAssumption DEF Cared
<1>8. HeldCared'
  BY <1>1, <1>6, <1>7 DEF HeldCared, Cared
<1> QED
  BY <1>2, <1>3, <1>4, <1>5, <1>8 DEF DialogsInv

LEMMA DoInPanelStep == ASSUME DialogsInv, NEW q \in Question, Panel!doInPanel_(q) PROVE DialogsInv'
<1>1. /\ askedAs[q] = None /\ askedAs' = [askedAs EXCEPT ![q] = clock]
      /\ promisesMap_' = [promisesMap_ EXCEPT ![clock] = q]
      /\ UNCHANGED <<panels, settled, toBackground, connected, Panel!panelVars, clicked>>
  BY DEF Panel!doInPanel_
<1>2. clock' \in 1..Latest /\ clock \in 1..Latest /\ clock # None
  BY DialogsAssumption DEF Panel!doInPanel_, DialogsInv, Panel!TypeOK
<1>3. /\ promisesMap_' \in [1..Latest -> Question \cup {None}] /\ promisesMap_'[clock] = q
      /\ \A id \in 1..Latest : id # clock => promisesMap_'[id] = promisesMap_[id]
  BY <1>1, <1>2 DEF DialogsInv, Panel!TypeOK
<1>4. /\ askedAs' \in [Question -> 0..Latest \cup {None}] /\ askedAs'[q] = clock
      /\ \A r \in Question : r # q => askedAs'[r] = askedAs[r]
      /\ \A r \in Question : askedAs[r] # None => askedAs'[r] = askedAs[r]
  BY <1>1, <1>2, DialogsAssumption DEF DialogsInv, Panel!TypeOK
<1>5. Panel!TypeOK' /\ held' \subseteq Question
  BY <1>1, <1>2, <1>3, <1>4 DEF DialogsInv, Panel!TypeOK, Panel!panelVars
<1>6. \A n \in 1..Latest : (OneSettled(n) => OneSettled(n)') /\ (Meant(n) => Meant(n)')
  BY <1>1, <1>4, NumbersStay
<1>7. PromisesNumbered'
  <2>1. ASSUME NEW n \in 1..Latest, promisesMap_'[n] \in Question
        PROVE  askedAs'[promisesMap_'[n]] = n
    <3>1. CASE n = clock
      BY <1>3, <1>4, <3>1
    <3>2. CASE n # clock
      <4>1. promisesMap_'[n] = promisesMap_[n] /\ askedAs[promisesMap_[n]] = n /\ n # None
        BY <1>3, <2>1, <3>2, DialogsAssumption DEF DialogsInv, PromisesNumbered
      <4> QED
        BY <1>4, <2>1, <4>1
    <3> QED
      BY <3>1, <3>2
  <2>2. ASSUME NEW r \in Question, askedAs'[r] \in 1..Latest
        PROVE  promisesMap_'[askedAs'[r]] \in Question \/ OneSettled(askedAs[r])'
    <3>1. CASE askedAs'[r] = clock
      BY <1>3, <3>1
    <3>2. CASE askedAs'[r] # clock
      <4>1. askedAs'[r] = askedAs[r] /\ promisesMap_'[askedAs'[r]] = promisesMap_[askedAs[r]]
        BY <1>3, <1>4, <2>2, <3>2
      <4>2. promisesMap_[askedAs[r]] \in Question \/ OneSettled(askedAs[r])
        BY <2>2, <4>1 DEF DialogsInv, PromisesNumbered
      <4> QED
        BY <1>6, <2>2, <4>1, <4>2 DEF OneSettled
    <3> QED
      BY <3>1, <3>2
  <2> QED
    BY <2>1, <2>2 DEF PromisesNumbered, OneSettled
<1>8. /\ toPanel' \in Seq(Question \X (1..Latest))
      /\ \A k \in 1..Len(toPanel') : askedAs'[toPanel'[k][1]] = toPanel'[k][2]
  <2> DEFINE e == <<q, clock>>
             w == Append(toPanel, e)
  <2>1. toPanel \in Seq(Question \X (1..Latest)) /\ e \in Question \X (1..Latest)
        /\ e[1] = q /\ e[2] = clock
    BY <1>2 DEF DialogsInv, QuestionsNumbered
  <2> HIDE DEF e
  <2>2. /\ w \in Seq(Question \X (1..Latest)) /\ Len(w) = Len(toPanel) + 1 /\ w[Len(w)] = e
        /\ Len(toPanel) \in Nat /\ \A k \in 1..Len(toPanel) : w[k] = toPanel[k]
    BY <2>1, AppendProperties
  <2>3. toPanel' = w \/ toPanel' = toPanel
    BY DEF Panel!doInPanel_, e
  <2> HIDE DEF w
  <2>4. ASSUME NEW k \in 1..Len(toPanel) PROVE askedAs'[toPanel[k][1]] = toPanel[k][2]
    <3>1. toPanel[k] \in Question \X (1..Latest) /\ askedAs[toPanel[k][1]] = toPanel[k][2]
      BY <2>1 DEF DialogsInv, QuestionsNumbered
    <3>2. toPanel[k][1] \in Question /\ toPanel[k][2] \in 1..Latest /\ toPanel[k][2] # None
      BY <3>1, DialogsAssumption
    <3> QED
      BY <1>4, <3>1, <3>2
  <2>5. \A k \in 1..Len(toPanel') : toPanel'[k] = e \/ (k \in 1..Len(toPanel) /\ toPanel'[k] = toPanel[k])
    BY <2>2, <2>3
  <2> QED
    BY <1>4, <2>1, <2>2, <2>3, <2>4, <2>5
<1>9. QuestionsNumbered'
  <2>1. ASSUME dialogClickFn # None PROVE dialog \in Question /\ askedAs'[dialog] = askedAs[dialog]
    BY <1>4, <2>1, DialogsAssumption DEF DialogsInv, QuestionsNumbered
  <2> QED
    BY <1>1, <1>8, <2>1 DEF DialogsInv, QuestionsNumbered, Panel!panelVars
<1>10. AnswersMeant'
  <2>1. \A k \in 1..Len(toBackground) : toBackground[k][1] \in 1..Latest
    BY DEF DialogsInv, AnswersMeant
  <2> QED
    BY <1>1, <1>6, <2>1 DEF DialogsInv, AnswersMeant, Meant
<1>11. ASSUME NEW r \in Question, settled'[r] = "fulfilled"
       PROVE  r \in clicked' \/ (askedAs'[r] \in 1..Latest /\ Meant(askedAs[r])')
  <2>1. r \in clicked \/ (askedAs[r] \in 1..Latest /\ Meant(askedAs[r]))
    BY <1>1, <1>11 DEF DialogsInv, FulfilledMeant
  <2>2. CASE askedAs[r] \in 1..Latest /\ Meant(askedAs[r])
    <3>1. askedAs'[r] = askedAs[r]
      BY <1>4, <2>2, DialogsAssumption
    <3> QED
      BY <1>6, <2>2, <3>1 DEF Meant
  <2> QED
    BY <1>1, <2>1, <2>2
<1>12. FulfilledMeant'
  BY <1>11 DEF FulfilledMeant, Meant
<1>13. HeldCared'
  <2>1. \A n \in 1..Latest : AnswerSent(n) => AnswerSent(n)'
    BY <1>1 DEF AnswerSent
  <2>2. UNCHANGED <<dialogClickFn, dialog, held>> /\ \A r \in Question : settled[r] # None => settled'[r] # None
    BY <1>1 DEF Panel!panelVars
  <2>3. \A r \in held : askedAs'[r] \in 0..Latest /\ Cared(r)'
    BY <1>4, <2>1, <2>2, CareStays
  <2> QED
    BY <2>2, <2>3 DEF HeldCared, Cared
<1> QED
  BY <1>5, <1>7, <1>9, <1>10, <1>12, <1>13 DEF DialogsInv

LEMMA ResponseStep == ASSUME DialogsInv, Panel!handlePromiseResponse_ PROVE DialogsInv'
<1> DEFINE id == Head(toBackground)[1]
           how == Head(toBackground)[2]
           q == promisesMap_[id]
<1>1. /\ toBackground # <<>> /\ toBackground' = Tail(toBackground)
      /\ UNCHANGED <<clock, panels, askedAs, toPanel, connected, Panel!panelVars, clicked>>
  BY DEF Panel!handlePromiseResponse_
<1>2. /\ id \in 1..Latest /\ how \in {"fulfilled", "rejected"} /\ q \in Question \cup {None}
      /\ how = "fulfilled" => Meant(id)
      /\ toBackground' \in Seq((1..Latest) \X {"fulfilled", "rejected"})
      /\ \A k \in 1..Len(toBackground') :
           k + 1 \in 1..Len(toBackground) /\ toBackground'[k] = toBackground[k + 1]
      /\ \A k \in 1..Len(toBackground) : toBackground[k][1] # id =>
           k - 1 \in 1..Len(toBackground') /\ toBackground'[k - 1] = toBackground[k]
  <2>1. toBackground \in Seq((1..Latest) \X {"fulfilled", "rejected"})
    BY DEF DialogsInv, AnswersMeant
  <2> DEFINE t == Tail(toBackground)
  <2>2. /\ Head(toBackground) = toBackground[1] /\ Len(toBackground) \in Nat \ {0}
        /\ t \in Seq((1..Latest) \X {"fulfilled", "rejected"}) /\ Len(t) = Len(toBackground) - 1
        /\ \A k \in 1..Len(t) : t[k] = toBackground[k + 1]
    BY <1>1, <2>1, HeadTailProperties
  <2>3. \A k \in 1..Len(toBackground) : toBackground[k] \in (1..Latest) \X {"fulfilled", "rejected"}
    BY <2>1
  <2>4. toBackground[1][1] = id /\ toBackground[1][2] = how /\ 1 \in 1..Len(toBackground)
    BY <2>2
  <2>5. toBackground' = t
    BY <1>1
  <2> HIDE DEF t, id, how
  <2>6. \A k \in 1..Len(t) : k + 1 \in 1..Len(toBackground)
    BY <2>2
  <2>7. \A k \in 1..Len(toBackground) : toBackground[k][1] # id => k # 1
    BY <2>4
  <2>8. \A k \in 1..Len(toBackground) : k # 1 => k - 1 \in 1..Len(t) /\ t[k - 1] = toBackground[k]
    <3> SUFFICES ASSUME NEW k \in 1..Len(toBackground), k # 1
                 PROVE  k - 1 \in 1..Len(t) /\ t[k - 1] = toBackground[k]
      OBVIOUS
    <3>1. k - 1 \in 1..Len(t) /\ (k - 1) + 1 = k
      BY <2>2
    <3> QED
      BY <2>2, <3>1
  <2>9. id \in 1..Latest /\ how \in {"fulfilled", "rejected"}
    BY <2>3, <2>4
  <2>10. q \in Question \cup {None} /\ (how = "fulfilled" => Meant(id))
    <3>1. q \in Question \cup {None}
      BY <2>9 DEF DialogsInv, Panel!TypeOK
    <3>2. toBackground[1][2] = "fulfilled" => Meant(toBackground[1][1])
      BY <2>4 DEF DialogsInv, AnswersMeant
    <3> QED
      BY <2>4, <3>1, <3>2
  <2> QED
    BY <2>2, <2>5, <2>6, <2>7, <2>8, <2>9, <2>10
<1>3. IF q = None THEN UNCHANGED <<promisesMap_, settled>>
      ELSE /\ settled' = [settled EXCEPT ![q] = IF @ = None THEN how ELSE @]
           /\ promisesMap_' = [promisesMap_ EXCEPT ![id] = None]
  BY DEF Panel!handlePromiseResponse_, Panel!Settle
<1> HIDE DEF id, how
<1>4. /\ promisesMap_' \in [1..Latest -> Question \cup {None}]
      /\ \A n \in 1..Latest : n # id => promisesMap_'[n] = promisesMap_[n]
      /\ promisesMap_'[id] = None
      /\ settled' \in [Question -> {"fulfilled", "rejected", None}]
      /\ \A r \in Question : settled[r] # None => settled'[r] = settled[r]
      /\ q \in Question => settled'[q] # None
      /\ \A r \in Question : settled'[r] = settled[r] \/ (r = q /\ settled'[r] = how)
  <2>1. CASE q = None
    BY <1>2, <1>3, <2>1, DialogsAssumption DEF DialogsInv, Panel!TypeOK
  <2>2. CASE q # None
    <3>1. /\ promisesMap_ \in [1..Latest -> Question \cup {None}]
          /\ settled \in [Question -> {"fulfilled", "rejected", None}]
      BY DEF DialogsInv, Panel!TypeOK
    <3> DEFINE p == q
    <3>2. p \in Question /\ p # None
      BY <1>2, <2>2
    <3>3. /\ settled' = [settled EXCEPT ![p] = IF settled[p] = None THEN how ELSE settled[p]]
          /\ promisesMap_' = [promisesMap_ EXCEPT ![id] = None]
      BY <1>3, <2>2
    <3> HIDE DEF p, q
    <3>4. /\ settled' \in [Question -> {"fulfilled", "rejected", None}]
          /\ \A r \in Question : settled[r] # None => settled'[r] = settled[r]
          /\ settled'[p] # None
          /\ \A r \in Question : settled'[r] = settled[r] \/ (r = p /\ settled'[r] = how)
      BY <1>2, <3>1, <3>2, <3>3, DialogsAssumption
    <3>5. /\ promisesMap_' \in [1..Latest -> Question \cup {None}]
          /\ \A n \in 1..Latest : n # id => promisesMap_'[n] = promisesMap_[n]
          /\ promisesMap_'[id] = None
      BY <1>2, <3>1, <3>3
    <3> QED
      BY <3>4, <3>5 DEF p
  <2> QED
    BY <2>1, <2>2
<1>5. Panel!TypeOK' /\ held' \subseteq Question
  BY <1>1, <1>2, <1>4 DEF DialogsInv, Panel!TypeOK, Panel!panelVars
<1>6. q \in Question => askedAs[q] = id
  BY <1>2 DEF DialogsInv, PromisesNumbered
<1>7. \A n \in 1..Latest : OneSettled(n) => OneSettled(n)'
  BY <1>1, <1>4, NumbersStay
(* Once a promise under the number is taken, one of its questions is settled. *)
<1>8. ASSUME NEW r \in Question, NEW n \in 1..Latest, askedAs[r] = n, n = id
      PROVE  OneSettled(n)'
  <2>1. q \in Question \/ OneSettled(n)
    BY <1>2, <1>8 DEF DialogsInv, PromisesNumbered
  <2>2. CASE q \in Question
    <3>1. PICK p \in Question : p = q
      BY <2>2
    <3>2. askedAs'[p] = n /\ settled'[p] # None
      BY <1>1, <1>4, <1>6, <1>8, <3>1
    <3> QED
      BY <3>2 DEF OneSettled
  <2> QED
    BY <1>7, <2>1, <2>2
<1>9. PromisesNumbered'
  <2>1. ASSUME NEW n \in 1..Latest, promisesMap_'[n] \in Question
        PROVE  askedAs'[promisesMap_'[n]] = n
    BY <1>1, <1>4, <2>1, DialogsAssumption DEF DialogsInv, PromisesNumbered
  <2>2. ASSUME NEW r \in Question, askedAs[r] \in 1..Latest, NEW n, n = askedAs[r]
        PROVE  promisesMap_'[n] \in Question \/ OneSettled(n)'
    <3>1. CASE n = id
      BY <1>8, <2>2, <3>1, DialogsAssumption
    <3>2. CASE n # id
      BY <1>4, <1>7, <2>2, <3>2 DEF DialogsInv, PromisesNumbered
    <3> QED
      BY <3>1, <3>2
  <2> QED
    BY <1>1, <2>1, <2>2 DEF PromisesNumbered, OneSettled
<1>10. QuestionsNumbered'
  BY <1>1 DEF DialogsInv, QuestionsNumbered, Panel!panelVars
<1>11. AnswersMeant'
  BY <1>1, <1>2 DEF DialogsInv, AnswersMeant, Meant
<1>12. FulfilledMeant'
  <2>1. ASSUME NEW r \in Question, settled'[r] = "fulfilled"
        PROVE  r \in clicked \/ (askedAs[r] \in 1..Latest /\ Meant(askedAs[r]))
    <3>1. CASE settled'[r] = settled[r]
      BY <2>1, <3>1 DEF DialogsInv, FulfilledMeant
    <3>2. CASE r = q /\ settled'[r] = how
      BY <1>2, <1>6, <2>1, <3>2
    <3> QED
      BY <1>4, <3>1, <3>2
  <2> QED
    BY <1>1, <2>1 DEF FulfilledMeant, Meant
<1>13. HeldCared'
  <2>1. ASSUME NEW r \in held PROVE askedAs'[r] \in 0..Latest /\ Cared(r)'
    <3>1. r \in Question /\ askedAs[r] \in 0..Latest /\ Cared(r)
      BY DEF DialogsInv, HeldCared
    <3>2. /\ UNCHANGED <<dialogClickFn, dialog, askedAs>>
          /\ settled[r] # None => settled'[r] # None
      BY <1>1, <1>4, <3>1 DEF Panel!panelVars
    <3>3. ASSUME NEW n \in 1..Latest, n = askedAs[r], AnswerSent(n)
          PROVE  AnswerSent(n)' \/ OneSettled(n)'
      <4>1. PICK k \in 1..Len(toBackground) : toBackground[k][1] = n
        BY <3>3 DEF AnswerSent
      <4>2. CASE n = id
        BY <1>8, <3>1, <3>3, <4>2
      <4>3. CASE n # id
        <5>1. k - 1 \in 1..Len(toBackground') /\ toBackground'[k - 1] = toBackground[k]
          BY <1>2, <4>1, <4>3
        <5> QED
          BY <4>1, <5>1 DEF AnswerSent
      <4> QED
        BY <4>2, <4>3
    <3>4. ASSUME NEW n \in 1..Latest, n = askedAs[r], OneSettled(n) \/ AnswerSent(n)
          PROVE  OneSettled(n)' \/ AnswerSent(n)'
      BY <1>7, <3>3, <3>4
    <3> QED
      BY <3>1, <3>2, <3>4 DEF Cared, OneSettled, AnswerSent
  <2> QED
    BY <1>1, <2>1 DEF HeldCared, Cared, Panel!panelVars
<1> QED
  BY <1>5, <1>9, <1>10, <1>11, <1>12, <1>13 DEF DialogsInv

LEMMA MessageStep == ASSUME DialogsInv, Panel!handleMessage_ PROVE DialogsInv'
<1> DEFINE q == Head(toPanel)[1]
           id == Head(toPanel)[2]
<1>1. /\ toPanel # <<>> /\ toPanel' = Tail(toPanel) /\ Panel!openDialog(q, id)
      /\ UNCHANGED <<clock, panels, askedAs, promisesMap_, connected, clicked>>
  BY DEF Panel!handleMessage_
<1>2. toPanel \in Seq(Question \X (1..Latest))
  BY DEF DialogsInv, QuestionsNumbered
<1> DEFINE t == Tail(toPanel)
<1>3. /\ Head(toPanel) = toPanel[1] /\ 1 \in 1..Len(toPanel)
      /\ Head(toPanel) \in Question \X (1..Latest)
      /\ t \in Seq(Question \X (1..Latest))
      /\ \A k \in 1..Len(t) : k + 1 \in 1..Len(toPanel) /\ t[k] = toPanel[k + 1]
  <2>1. /\ Head(toPanel) = toPanel[1] /\ Head(toPanel) \in Question \X (1..Latest)
        /\ t \in Seq(Question \X (1..Latest)) /\ Len(t) = Len(toPanel) - 1
        /\ Len(toPanel) \in Nat \ {0}
        /\ \A k \in 1..Len(t) : t[k] = toPanel[k + 1]
    BY <1>1, <1>2, HeadTailProperties
  <2> HIDE DEF t
  <2> QED
    BY <2>1
<1>4. q \in Question /\ id \in 1..Latest /\ askedAs[q] = id
  <2>1. askedAs[toPanel[1][1]] = toPanel[1][2]
    BY <1>3 DEF DialogsInv, QuestionsNumbered
  <2> QED
    BY <1>3, <2>1
<1>5. \A k \in 1..Len(t) : askedAs[t[k][1]] = t[k][2]
  BY <1>3 DEF DialogsInv, QuestionsNumbered
<1> HIDE DEF q, id, t
<1>6. toPanel' = t
  BY <1>1 DEF t
<1>7. \A k \in 1..Len(toPanel') : askedAs'[toPanel'[k][1]] = toPanel'[k][2]
  BY <1>1, <1>5, <1>6
<1>8. askedAs' \in [Question -> 0..Latest \cup {None}] /\ askedAs'[q] = id /\ id \in 0..Latest
  BY <1>1, <1>4, DialogsAssumption DEF DialogsInv, Panel!TypeOK
<1> QED
  BY <1>1, <1>3, <1>4, <1>6, <1>7, <1>8, OpenDialogStep

LEMMA PanelAsksStep == ASSUME DialogsInv, NEW q \in Question, Panel!PanelAsks(q) PROVE DialogsInv'
<1>1. /\ askedAs[q] = None /\ askedAs' = [askedAs EXCEPT ![q] = 0] /\ Panel!openDialog(q, 0)
      /\ UNCHANGED <<clock, panels, promisesMap_, toPanel, connected, clicked>>
  BY DEF Panel!PanelAsks
<1>2. /\ askedAs' \in [Question -> 0..Latest \cup {None}] /\ askedAs'[q] = 0 /\ 0 \in 0..Latest
      /\ \A r \in Question : askedAs[r] # None => askedAs'[r] = askedAs[r]
      /\ \A r \in Question : askedAs'[r] = askedAs[r] \/ askedAs'[r] = 0
  BY <1>1, DialogsAssumption DEF DialogsInv, Panel!TypeOK
<1>3. /\ toPanel' \in Seq(Question \X (1..Latest))
      /\ \A k \in 1..Len(toPanel') : askedAs'[toPanel'[k][1]] = toPanel'[k][2]
  <2>1. toPanel' = toPanel /\ toPanel \in Seq(Question \X (1..Latest))
    BY <1>1 DEF DialogsInv, QuestionsNumbered
  <2>2. ASSUME NEW k \in 1..Len(toPanel) PROVE askedAs'[toPanel[k][1]] = toPanel[k][2]
    <3>1. toPanel[k] \in Question \X (1..Latest) /\ askedAs[toPanel[k][1]] = toPanel[k][2]
      BY <2>1 DEF DialogsInv, QuestionsNumbered
    <3>2. toPanel[k][1] \in Question /\ toPanel[k][2] # None
      BY <3>1, DialogsAssumption
    <3> QED
      BY <1>2, <3>1, <3>2
  <2> QED
    BY <2>1, <2>2
<1> QED
  BY <1>1, <1>2, <1>3, OpenDialogStep

LEMMA ClickStep ==
  ASSUME DialogsInv, NEW how \in {"fulfilled", "rejected"}, Panel!dialogButtonClick(how)
  PROVE  DialogsInv'
<1>1. /\ dialogClickFn # None /\ Panel!Answer(dialogClickFn, how) /\ dialogClickFn' = None
      /\ overlay' = "closing"
      /\ clicked' = IF how = "fulfilled" THEN clicked \cup {dialog} ELSE clicked
      /\ UNCHANGED <<clock, panels, askedAs, promisesMap_, toPanel, connected, dialog, held>>
  BY DEF Panel!dialogButtonClick
<1>2. /\ settled' \in [Question -> {"fulfilled", "rejected", None}]
      /\ \A q \in Question : settled[q] # None => settled'[q] = settled[q]
      /\ clicked' \subseteq Question /\ AnswersMeant' /\ FulfilledMeant'
      /\ \A n \in 1..Latest : AnswerSent(n) => AnswerSent(n)'
      /\ \/ askedAs[dialog] = 0 /\ settled'[dialog] # None
         \/ \E n \in 1..Latest : n = askedAs[dialog] /\ AnswerSent(n)'
  BY <1>1, Answered
<1>3. Panel!TypeOK' /\ held' \subseteq Question
  BY <1>1, <1>2 DEF DialogsInv, Panel!TypeOK
<1>4. \A r \in Question : settled[r] # None => settled'[r] # None
  BY <1>2
<1>5. PromisesNumbered'
  <2>1. \A n \in 1..Latest : OneSettled(n) => OneSettled(n)'
    BY <1>1, <1>4, NumbersStay
  <2> QED
    BY <1>1, <2>1 DEF DialogsInv, PromisesNumbered, OneSettled
<1>6. QuestionsNumbered'
  BY <1>1 DEF DialogsInv, QuestionsNumbered
<1>7. HeldCared'
  <2>1. \A q \in held : askedAs'[q] \in 0..Latest /\ Cared(q)'
    BY <1>1, <1>2, <1>4, CareStays
  <2> QED
    BY <1>1, <2>1 DEF HeldCared, Cared
<1> QED
  BY <1>2, <1>3, <1>5, <1>6, <1>7 DEF DialogsInv

(* The steps of the dialog itself, and of the popup. *)
LEMMA OverlayStep ==
  ASSUME DialogsInv,
         \/ Panel!OpenLater \/ Panel!closeDialog \/ Panel!reusableDialogClosed \/ Panel!PanelOpens
         \/ UNCHANGED Panel!vars
  PROVE  DialogsInv'
<1>1. UNCHANGED <<clock, askedAs, promisesMap_, settled, toPanel, toBackground, dialogClickFn,
                  dialog, held, clicked>>
  BY DEF Panel!OpenLater, Panel!closeDialog, Panel!reusableDialogClosed, Panel!PanelOpens,
         Panel!panelVars, Panel!vars
<1>2. overlay' \in {"open", "closing", "closed"}
  BY DEF DialogsInv, Panel!TypeOK, Panel!OpenLater, Panel!closeDialog,
         Panel!reusableDialogClosed, Panel!PanelOpens, Panel!panelVars, Panel!vars
<1>3. panels' \in 0..MaxPanels
  BY DialogsAssumption
     DEF DialogsInv, Panel!TypeOK, Panel!OpenLater, Panel!closeDialog,
         Panel!reusableDialogClosed, Panel!PanelOpens, Panel!panelVars, Panel!vars
<1>4. connected' \in BOOLEAN
  BY Zenon DEF DialogsInv, Panel!TypeOK, Panel!OpenLater, Panel!closeDialog,
               Panel!reusableDialogClosed, Panel!PanelOpens, Panel!panelVars, Panel!vars
<1>5. Panel!TypeOK'
  BY <1>1, <1>2, <1>3, <1>4 DEF DialogsInv, Panel!TypeOK
<1>6. PromisesNumbered' /\ QuestionsNumbered' /\ AnswersMeant' /\ FulfilledMeant' /\ HeldCared'
  BY <1>1 DEF DialogsInv, PromisesNumbered, QuestionsNumbered, AnswersMeant, FulfilledMeant,
              HeldCared, Cared, OneSettled, AnswerSent, Meant
<1> QED
  BY <1>1, <1>5, <1>6 DEF DialogsInv

LEMMA PanelClosesStep == ASSUME DialogsInv, Panel!PanelCloses PROVE DialogsInv'
<1>1. /\ toPanel' = <<>> /\ dialogClickFn' = None /\ dialog' = None /\ overlay' = "closed"
      /\ connected' = FALSE /\ held' = {}
      /\ UNCHANGED <<clock, panels, askedAs, promisesMap_, settled, toBackground, clicked>>
  BY DEF Panel!PanelCloses
<1>2. Panel!TypeOK' /\ held' \subseteq Question
  BY <1>1 DEF DialogsInv, Panel!TypeOK
<1>3. PromisesNumbered' /\ AnswersMeant' /\ FulfilledMeant'
  BY <1>1 DEF DialogsInv, PromisesNumbered, AnswersMeant, FulfilledMeant, OneSettled, Meant
<1>4. QuestionsNumbered' /\ HeldCared'
  BY <1>1 DEF QuestionsNumbered, HeldCared
<1> QED
  BY <1>2, <1>3, <1>4 DEF DialogsInv

LEMMA DialogsStep == DialogsInv /\ [Panel!Next]_(Panel!vars) => DialogsInv'
BY DoInPanelStep, ResponseStep, MessageStep, PanelAsksStep, ClickStep, OverlayStep,
   PanelClosesStep DEF Panel!Next
HIDE DEF clock, panels, askedAs, promisesMap_, settled, toPanel, toBackground, connected,
         dialogClickFn, dialog, overlay, opening, queuing, held, clicked
-----------------------------------------------------------------------------
(* Invites.  An invitation on the social network is past the question only if  *)
(* the user agreed, and so are the tokens, kept or stored; whatever takes a    *)
(* network for one that is logged in had it logged in, at least then.          *)
reached == v1
question == v2
agreed == v3
told == v4
logins == v5
removals == v6
networks == v7
left == v8
modelNet == v9
toUi == v10
valid == v11
contact == v12
grants == v13
offered == v14
contactDisk == v15
instance == v16
token == v17
tokenDisk == v18
tokensSent == v19
USE DEF reached, question, agreed, told, logins, removals, networks, left, modelNet, toUi, valid,
        contact, grants, offered, contactDisk, instance, token, tokenDisk, tokensSent

Known == networks \cup left

PastQuestion(i) ==
  reached[i] \in {"login", "granted", "returned", "sent", "provider", "accepted", "lost"}

Consented == \A i \in Invite \ CloudInvite : PastQuestion(i) => i \in agreed

TokensMeant ==
  /\ {token} \cup tokensSent \subseteq agreed \cup {None}
  /\ tokenDisk = <<>> \/ \E t \in agreed \cup {None} : tokenDisk = <<t>>

WasLoggedIn ==
  /\ modelNet \subseteq Known
  /\ \A i \in Invite : /\ reached[i] \in {"granted", "returned", "sent"} => Links!On(i) \in Known
                       /\ reached[i] = "lost" => Links!On(i) \in left

ToldOfNetworks ==
  /\ toUi \in Seq(Links!Network \cup Invite)
  /\ \A k \in 1..Len(toUi) :
       IF toUi[k] \in Links!Network THEN toUi[k] \in Known
       ELSE Links!On(toUi[k]) \in Known /\ toUi[k] \in agreed \cup CloudInvite

InvitesInv == Links!TypeOK /\ Consented /\ TokensMeant /\ WasLoggedIn /\ ToldOfNetworks

LEMMA InvitesInit == Links!Init => InvitesInv
<1> SUFFICES ASSUME Links!Init PROVE InvitesInv
  OBVIOUS
<1> USE DEF Links!Init
<1>1. Links!TypeOK
  BY DEF Links!TypeOK, Links!Stage
<1>2. Consented /\ TokensMeant /\ WasLoggedIn /\ ToldOfNetworks
  BY DEF Consented, PastQuestion, TokensMeant, WasLoggedIn, ToldOfNetworks
<1> QED
  BY <1>1, <1>2 DEF InvitesInv

(* A step of the invitations that leaves the networks and the tokens alone:    *)
(* it is enough that no invitation gets past the question, or to a network,    *)
(* but as it may.                                                              *)
LEMMA StageStep ==
  ASSUME InvitesInv, reached' \in [Invite -> Links!Stage], question' \in Invite \cup {None},
         agreed \subseteq agreed', agreed' \subseteq Invite, told' \subseteq Invite,
         modelNet' \subseteq Known,
         UNCHANGED <<networks, left, contact, instance, token, tokenDisk, tokensSent>>,
         \A i \in Invite \ CloudInvite : PastQuestion(i)' => PastQuestion(i) \/ i \in agreed',
         \A i \in Invite : reached'[i] \in {"granted", "returned", "sent"} =>
           reached[i] \in {"granted", "returned", "sent"} \/ Links!On(i) \in Known,
         \A i \in Invite : reached'[i] = "lost" => reached[i] = "lost" \/ Links!On(i) \in left,
         ToldOfNetworks'
  PROVE  InvitesInv'
<1>1. modelNet' \subseteq Links!Network
  BY DEF InvitesInv, Links!TypeOK, Known
<1>2. Links!TypeOK'
  BY <1>1 DEF InvitesInv, Links!TypeOK
<1>3. Consented'
  BY DEF InvitesInv, Consented
<1>4. TokensMeant'
  BY DEF InvitesInv, TokensMeant
<1>5. WasLoggedIn'
  BY DEF InvitesInv, WasLoggedIn, Known, Links!On
<1> QED
  BY <1>2, <1>3, <1>4, <1>5 DEF InvitesInv

(* What was told still holds when more is agreed to, or logged in once. *)
LEMMA NewsStill ==
  ASSUME InvitesInv, toUi' = toUi, agreed \subseteq agreed', Known \subseteq Known'
  PROVE  ToldOfNetworks'
BY DEF InvitesInv, ToldOfNetworks, Links!On

LEMMA NewsMore ==
  ASSUME InvitesInv, NEW e \in Links!Network \cup Invite, toUi' = Append(toUi, e),
         agreed' = agreed, Known \subseteq Known',
         IF e \in Links!Network THEN e \in Known'
         ELSE Links!On(e) \in Known' /\ e \in agreed \cup CloudInvite
  PROVE  ToldOfNetworks'
<1> DEFINE w == Append(toUi, e)
<1>1. toUi \in Seq(Links!Network \cup Invite)
  BY DEF InvitesInv, ToldOfNetworks
<1>2. /\ w \in Seq(Links!Network \cup Invite) /\ Len(w) = Len(toUi) + 1 /\ w[Len(w)] = e
      /\ Len(toUi) \in Nat /\ \A k \in 1..Len(toUi) : w[k] = toUi[k]
  BY <1>1, AppendProperties
<1> HIDE DEF w
<1>3. toUi' = w
  BY DEF w
<1>4. \A k \in 1..Len(w) : w[k] = e \/ (k \in 1..Len(toUi) /\ w[k] = toUi[k])
  BY <1>2
<1> QED
  BY <1>2, <1>3, <1>4 DEF InvitesInv, ToldOfNetworks, Links!On

(* The questions. *)
LEMMA QuestionSteps ==
  ASSUME InvitesInv, NEW i \in Invite, Links!Unreadable(i) \/ Links!handleInvite(i)
  PROVE  InvitesInv'
<1>1. UNCHANGED <<agreed, networks, left, modelNet, toUi, contact, instance, token, tokenDisk,
                  tokensSent>>
  BY DEF Links!Unreadable, Links!handleInvite, Links!netVars, Links!contactVars
<1>2. /\ reached' \in [Invite -> Links!Stage] /\ question' \in Invite \cup {None}
      /\ told' \subseteq Invite
  BY DEF Links!Unreadable, Links!handleInvite, Links!Ask, InvitesInv, Links!TypeOK, Links!Stage
<1>3. \A j \in Invite :
        \/ reached'[j] = reached[j] \/ reached'[j] \in {"question", "refused", "failed"}
        \/ reached'[j] = "login" /\ j \in CloudInvite
        \/ reached'[j] = "sent" /\ j \in CloudInvite /\ Links!On(j) \in modelNet
  BY DEF Links!Unreadable, Links!handleInvite, Links!Ask, Links!On, InvitesInv, Links!TypeOK
<1>4. ToldOfNetworks'
  BY <1>1, NewsStill DEF Known
<1>5. modelNet' \subseteq Known
  BY <1>1 DEF InvitesInv, WasLoggedIn
<1>6. \A j \in Invite \ CloudInvite : PastQuestion(j)' => PastQuestion(j) \/ j \in agreed'
  BY <1>3 DEF PastQuestion
<1>7. \A j \in Invite : reached'[j] \in {"granted", "returned", "sent"} =>
        reached[j] \in {"granted", "returned", "sent"} \/ Links!On(j) \in Known
  BY <1>1, <1>3, <1>5
<1>8. \A j \in Invite : reached'[j] = "lost" => reached[j] = "lost" \/ Links!On(j) \in left
  BY <1>3
<1>9. agreed \subseteq agreed' /\ agreed' \subseteq Invite
  BY <1>1 DEF InvitesInv, Links!TypeOK
<1> QED
  BY <1>1, <1>2, <1>4, <1>5, <1>6, <1>7, <1>8, <1>9, StageStep

LEMMA AnswerStep == ASSUME InvitesInv, NEW yes \in BOOLEAN, Links!Answer(yes) PROVE InvitesInv'
<1> DEFINE to == IF ~yes THEN "refused" ELSE IF Links!On(question) \in modelNet THEN "sent" ELSE "login"
<1>1. /\ question # None /\ question' = None /\ reached' = [reached EXCEPT ![question] = to]
      /\ agreed' = IF yes THEN agreed \cup {question} ELSE agreed
      /\ UNCHANGED <<told, networks, left, modelNet, toUi, contact, instance, token, tokenDisk,
                     tokensSent>>
  BY DEF Links!Answer, Links!netVars, Links!contactVars
<1>2. question \in Invite
  BY <1>1 DEF InvitesInv, Links!TypeOK
<1>3. to \in Links!Stage /\ (to # "refused" => yes) /\ to \in {"refused", "sent", "login"}
      /\ (to = "sent" => Links!On(question) \in Known)
  BY DEF Links!Stage, InvitesInv, WasLoggedIn
<1>4. agreed \subseteq agreed' /\ agreed' \subseteq Invite /\ (to # "refused" => question \in agreed')
  BY <1>1, <1>2, <1>3 DEF InvitesInv, Links!TypeOK
<1> HIDE DEF to
<1>5. /\ reached' \in [Invite -> Links!Stage] /\ reached'[question] = to
      /\ \A j \in Invite : j # question => reached'[j] = reached[j]
  BY <1>1, <1>2, <1>3 DEF InvitesInv, Links!TypeOK
<1>6. ToldOfNetworks'
  BY <1>1, <1>4, NewsStill DEF Known
<1>7. modelNet' \subseteq Known
  BY <1>1 DEF InvitesInv, WasLoggedIn
<1>8. \A j \in Invite \ CloudInvite : PastQuestion(j)' => PastQuestion(j) \/ j \in agreed'
  BY <1>3, <1>4, <1>5 DEF PastQuestion
<1>9. told' \subseteq Invite /\ question' \in Invite \cup {None}
  BY <1>1 DEF InvitesInv, Links!TypeOK
<1>10. \A j \in Invite : reached'[j] \in {"granted", "returned", "sent"} =>
         reached[j] \in {"granted", "returned", "sent"} \/ Links!On(j) \in Known
  BY <1>3, <1>5
<1>11. \A j \in Invite : reached'[j] = "lost" => reached[j] = "lost" \/ Links!On(j) \in left
  BY <1>3, <1>5
<1> QED
  BY <1>1, <1>4, <1>5, <1>6, <1>7, <1>8, <1>9, <1>10, <1>11, StageStep

(* The steps of one invitation after that. *)
LEMMA OneInviteSteps ==
  ASSUME InvitesInv, NEW i \in Invite,
         \/ Links!LoginDone(i) \/ Links!acceptInvitation(i) \/ Links!ProviderRefuses(i)
  PROVE  InvitesInv'
<1>1. UNCHANGED <<question, agreed, told, networks, left, modelNet, contact, instance, token,
                  tokenDisk, tokensSent>>
  BY DEF Links!LoginDone, Links!acceptInvitation, Links!ProviderRefuses, Links!netVars,
         Links!contactVars
<1>2. \E to \in {"returned", "lost", "failed", "provider"} :
        /\ reached' = [reached EXCEPT ![i] = to]
        /\ to = "returned" => reached[i] = "granted" /\ toUi' = Append(toUi, i)
        /\ to # "returned" => reached[i] \in {"sent", "provider"} /\ toUi' = toUi
        /\ to = "lost" => reached[i] = "sent" /\ Links!On(i) \notin networks
  BY DEF Links!LoginDone, Links!acceptInvitation, Links!ProviderRefuses, Links!netVars
<1>3. PICK to \in {"returned", "lost", "failed", "provider"} :
        /\ reached' = [reached EXCEPT ![i] = to]
        /\ to = "returned" => reached[i] = "granted" /\ toUi' = Append(toUi, i)
        /\ to # "returned" => reached[i] \in {"sent", "provider"} /\ toUi' = toUi
        /\ to = "lost" => reached[i] = "sent" /\ Links!On(i) \notin networks
  BY <1>2
<1>4. /\ reached' \in [Invite -> Links!Stage] /\ reached'[i] = to
      /\ \A j \in Invite : j # i => reached'[j] = reached[j]
  BY <1>3 DEF InvitesInv, Links!TypeOK, Links!Stage
<1>5. /\ reached[i] \in {"granted", "sent"} => Links!On(i) \in Known
      /\ reached[i] \in {"granted", "sent", "provider"} /\ i \notin CloudInvite => i \in agreed
  BY DEF InvitesInv, WasLoggedIn, Consented, PastQuestion
<1>6. ToldOfNetworks'
  <2>1. CASE to = "returned"
    <3>1. i \notin Links!Network
      BY InvitesAssumption DEF Links!Network
    <3> QED
      BY <1>1, <1>3, <1>5, <2>1, <3>1, NewsMore DEF Known
  <2>2. CASE to # "returned"
    BY <1>1, <1>3, <2>2, NewsStill DEF Known
  <2> QED
    BY <2>1, <2>2
<1>7. modelNet' \subseteq Known /\ agreed' \subseteq Invite /\ told' \subseteq Invite
      /\ question' \in Invite \cup {None}
  BY <1>1 DEF InvitesInv, WasLoggedIn, Links!TypeOK
<1>8. \A j \in Invite \ CloudInvite : PastQuestion(j)' => PastQuestion(j) \/ j \in agreed'
  BY <1>1, <1>3, <1>4, <1>5 DEF PastQuestion
<1>9. \A j \in Invite : reached'[j] \in {"granted", "returned", "sent"} =>
        reached[j] \in {"granted", "returned", "sent"} \/ Links!On(j) \in Known
  BY <1>3, <1>4, <1>5
<1>10. \A j \in Invite : reached'[j] = "lost" => reached[j] = "lost" \/ Links!On(j) \in left
  BY <1>3, <1>4, <1>5 DEF Known
<1> QED
  BY <1>1, <1>4, <1>6, <1>7, <1>8, <1>9, <1>10, StageStep

LEMMA LoggedInStep ==
  ASSUME InvitesInv, NEW n \in Links!Network, Links!LoggedIn(n)
  PROVE  InvitesInv'
<1>1. /\ networks' = networks \cup {n} /\ toUi' = Append(toUi, n)
      /\ reached' = [i \in Invite |-> IF i \in Links!LoginWaits(n) THEN "granted" ELSE reached[i]]
      /\ UNCHANGED <<question, agreed, told, left, modelNet, contact, instance, token, tokenDisk,
                     tokensSent>>
  BY DEF Links!LoggedIn, Links!contactVars
<1>2. Known \subseteq Known' /\ n \in Known'
  BY <1>1 DEF Known
<1>3. ToldOfNetworks'
  BY <1>1, <1>2, NewsMore
<1>4. /\ reached' \in [Invite -> Links!Stage]
      /\ \A i \in Invite :
           \/ reached'[i] = reached[i]
           \/ reached'[i] = "granted" /\ reached[i] = "login" /\ Links!On(i) = n
  BY <1>1 DEF InvitesInv, Links!TypeOK, Links!Stage, Links!LoginWaits
<1>5. Links!TypeOK'
  BY <1>1, <1>4 DEF InvitesInv, Links!TypeOK
<1>6. Consented'
  BY <1>1, <1>4 DEF InvitesInv, Consented, PastQuestion
<1>7. TokensMeant'
  BY <1>1 DEF InvitesInv, TokensMeant
<1>8. ASSUME NEW i \in Invite
      PROVE  /\ reached'[i] \in {"granted", "returned", "sent"} => Links!On(i) \in Known'
             /\ reached'[i] = "lost" => Links!On(i) \in left'
  BY <1>1, <1>2, <1>4 DEF InvitesInv, WasLoggedIn
<1>9. WasLoggedIn'
  BY <1>1, <1>2, <1>8 DEF InvitesInv, WasLoggedIn, Links!On
<1> QED
  BY <1>3, <1>5, <1>6, <1>7, <1>9 DEF InvitesInv

LEMMA LoginFailsStep ==
  ASSUME InvitesInv, NEW n \in Links!Network, Links!LoginFails(n)
  PROVE  InvitesInv'
<1>1. /\ told' = told \cup Links!LoginWaits(n)
      /\ reached' = [i \in Invite |-> IF i \in Links!LoginWaits(n) THEN "failed" ELSE reached[i]]
      /\ UNCHANGED <<question, agreed, networks, left, modelNet, toUi, contact, instance, token,
                     tokenDisk, tokensSent>>
  BY DEF Links!LoginFails, Links!netVars, Links!contactVars
<1>2. /\ reached' \in [Invite -> Links!Stage] /\ told' \subseteq Invite
      /\ \A i \in Invite : reached'[i] \in {reached[i], "failed"}
  BY <1>1 DEF InvitesInv, Links!TypeOK, Links!Stage, Links!LoginWaits
<1>3. ToldOfNetworks'
  BY <1>1, NewsStill DEF Known
<1>4. /\ modelNet' \subseteq Known /\ agreed' \subseteq Invite /\ agreed \subseteq agreed'
      /\ question' \in Invite \cup {None}
  BY <1>1 DEF InvitesInv, WasLoggedIn, Links!TypeOK
<1>5. \A j \in Invite \ CloudInvite : PastQuestion(j)' => PastQuestion(j) \/ j \in agreed'
  BY <1>2 DEF PastQuestion
<1> QED
  BY <1>1, <1>2, <1>3, <1>4, <1>5, StageStep

LEMMA SyncStep == ASSUME InvitesInv, Links!syncNetwork_ PROVE InvitesInv'
<1> DEFINE e == Head(toUi)
           t == Tail(toUi)
<1>1. /\ toUi # <<>> /\ toUi' = t
      /\ IF e \in Links!Network THEN modelNet' = modelNet \cup {e} /\ UNCHANGED reached
         ELSE reached' = [reached EXCEPT ![e] = "sent"] /\ UNCHANGED modelNet
      /\ UNCHANGED <<question, agreed, told, networks, left, contact, instance, token, tokenDisk,
                     tokensSent>>
  BY DEF Links!syncNetwork_, Links!contactVars
<1>2. /\ toUi[1] = e /\ e \in Links!Network \cup Invite /\ 1 \in 1..Len(toUi)
      /\ t \in Seq(Links!Network \cup Invite)
      /\ \A k \in 1..Len(t) : k + 1 \in 1..Len(toUi) /\ t[k] = toUi[k + 1]
  <2>1. toUi \in Seq(Links!Network \cup Invite)
    BY DEF InvitesInv, ToldOfNetworks
  <2>2. /\ Head(toUi) = toUi[1] /\ Head(toUi) \in Links!Network \cup Invite
        /\ t \in Seq(Links!Network \cup Invite) /\ Len(t) = Len(toUi) - 1
        /\ Len(toUi) \in Nat \ {0} /\ \A k \in 1..Len(t) : t[k] = toUi[k + 1]
    BY <1>1, <2>1, HeadTailProperties
  <2> HIDE DEF t
  <2> QED
    BY <2>2
<1>3. IF e \in Links!Network THEN e \in Known
      ELSE e \in Invite /\ Links!On(e) \in Known /\ e \in agreed \cup CloudInvite
  BY <1>2 DEF InvitesInv, ToldOfNetworks
<1> HIDE DEF e, t
<1>4. ToldOfNetworks'
  BY <1>1, <1>2 DEF InvitesInv, ToldOfNetworks, Known, Links!On
<1>5. /\ reached' \in [Invite -> Links!Stage] /\ modelNet' \subseteq Known
      /\ \A j \in Invite : reached'[j] = reached[j]
                           \/ (j = e /\ e \notin Links!Network /\ reached'[j] = "sent")
  <2>1. CASE e \in Links!Network
    BY <1>1, <1>3, <2>1 DEF InvitesInv, WasLoggedIn, Links!TypeOK
  <2>2. CASE e \notin Links!Network
    BY <1>1, <1>3, <2>2 DEF InvitesInv, WasLoggedIn, Links!TypeOK, Links!Stage
  <2> QED
    BY <2>1, <2>2
<1>6. agreed' \subseteq Invite /\ agreed \subseteq agreed' /\ told' \subseteq Invite
      /\ question' \in Invite \cup {None}
  BY <1>1 DEF InvitesInv, Links!TypeOK
<1>7. \A j \in Invite \ CloudInvite : PastQuestion(j)' => PastQuestion(j) \/ j \in agreed'
  BY <1>1, <1>3, <1>5 DEF PastQuestion
<1>8. \A j \in Invite : reached'[j] \in {"granted", "returned", "sent"} =>
        reached[j] \in {"granted", "returned", "sent"} \/ Links!On(j) \in Known
  BY <1>3, <1>5
<1>9. \A j \in Invite : reached'[j] = "lost" => reached[j] = "lost" \/ Links!On(j) \in left
  BY <1>5
<1> QED
  BY <1>1, <1>4, <1>5, <1>6, <1>7, <1>8, <1>9, StageStep

LEMMA NetworkSteps ==
  ASSUME InvitesInv,
         Links!removeNetwork \/ Links!updateInitialState \/ Links!updateOrgPolicy
  PROVE  InvitesInv'
<1>1. UNCHANGED <<reached, question, agreed, told, toUi, contact, instance, token, tokenDisk,
                  tokensSent>>
  BY DEF Links!removeNetwork, Links!updateInitialState, Links!updateOrgPolicy, Links!uiVars,
         Links!contactVars
<1>2. /\ Known' = Known /\ left \subseteq left' /\ modelNet' \subseteq modelNet \cup Known
      /\ networks' \subseteq Links!Network /\ left' \subseteq Links!Network
  BY DEF Links!removeNetwork, Links!updateInitialState, Links!updateOrgPolicy, Known,
         InvitesInv, Links!TypeOK, Links!Network
<1>3. Links!TypeOK'
  BY <1>1, <1>2 DEF InvitesInv, Links!TypeOK, Known
<1>4. Consented' /\ TokensMeant'
  BY <1>1 DEF InvitesInv, Consented, PastQuestion, TokensMeant
<1>5. WasLoggedIn'
  BY <1>1, <1>2 DEF InvitesInv, WasLoggedIn, Links!On
<1>6. ToldOfNetworks'
  BY <1>1, <1>2, NewsStill
<1> QED
  BY <1>3, <1>4, <1>5, <1>6 DEF InvitesInv

(* The contact and its token. *)
LEMMA AcceptsStep ==
  ASSUME InvitesInv, NEW i \in Invite, Links!ProviderAccepts(i)
  PROVE  InvitesInv'
<1>1. /\ reached[i] = "provider" /\ reached' = [reached EXCEPT ![i] = "accepted"]
      /\ UNCHANGED <<question, agreed, told, networks, left, modelNet, toUi>>
  BY DEF Links!ProviderAccepts, Links!netVars
<1>2. \/ UNCHANGED <<contact, instance, token, tokenDisk, tokensSent>>
      \/ /\ i \notin CloudInvite /\ contact' \in {contact, "loading"}
         /\ instance' \in {instance, "loading"} /\ token' = i /\ tokensSent' = tokensSent
         /\ tokenDisk' \in {<<i>>, tokenDisk}
  BY DEF Links!ProviderAccepts, Links!contactVars, Links!On
<1>3. i \notin CloudInvite => i \in agreed
  BY <1>1 DEF InvitesInv, Consented, PastQuestion
<1>4. /\ reached' \in [Invite -> Links!Stage] /\ reached'[i] = "accepted"
      /\ \A j \in Invite : j # i => reached'[j] = reached[j]
  BY <1>1 DEF InvitesInv, Links!TypeOK, Links!Stage
<1>5. Links!TypeOK'
  BY <1>1, <1>2, <1>4 DEF InvitesInv, Links!TypeOK
<1>6. Consented'
  BY <1>1, <1>3, <1>4 DEF InvitesInv, Consented, PastQuestion
<1>7. TokensMeant'
  BY <1>1, <1>2, <1>3 DEF InvitesInv, TokensMeant
<1>8. WasLoggedIn'
  BY <1>1, <1>4 DEF InvitesInv, WasLoggedIn, Links!On, Known
<1>9. ToldOfNetworks'
  BY <1>1, NewsStill DEF Known
<1> QED
  BY <1>5, <1>6, <1>7, <1>8, <1>9 DEF InvitesInv

LEMMA ContactSteps ==
  ASSUME InvitesInv,
         \/ Links!inviteGitHubUser \/ Links!ContactLoaded \/ Links!InstanceLoaded
         \/ Links!SendToken \/ Links!removeContact
  PROVE  InvitesInv'
<1>1. UNCHANGED <<reached, question, agreed, told, networks, left, modelNet, toUi>>
  BY DEF Links!inviteGitHubUser, Links!ContactLoaded, Links!InstanceLoaded, Links!SendToken,
         Links!removeContact, Links!uiVars, Links!netVars
<1>2. {contact', instance'} \subseteq {contact, instance, "absent", "loading", "loaded"}
  BY DEF Links!inviteGitHubUser, Links!ContactLoaded, Links!InstanceLoaded, Links!SendToken,
         Links!removeContact
<1>3. agreed \subseteq Invite
  BY DEF InvitesInv, Links!TypeOK
<1>4. TokensMeant'
  <2>1. CASE Links!inviteGitHubUser \/ Links!ContactLoaded \/ Links!removeContact
    BY <1>1, <2>1
       DEF InvitesInv, TokensMeant, Links!inviteGitHubUser, Links!ContactLoaded,
           Links!removeContact
  <2>2. CASE Links!InstanceLoaded
    <3>1. token \in agreed \cup {None} /\ tokensSent \subseteq agreed \cup {None}
      BY DEF InvitesInv, TokensMeant
    <3>2. tokenDisk # <<>> => tokenDisk[1] \in agreed \cup {None}
      BY DEF InvitesInv, TokensMeant
    <3>3. /\ token' = IF tokenDisk = <<>> THEN token ELSE tokenDisk[1]
          /\ tokenDisk' = <<token'>> /\ tokensSent' = tokensSent
      BY <2>2 DEF Links!InstanceLoaded
    <3> QED
      BY <1>1, <3>1, <3>2, <3>3 DEF TokensMeant
  <2>3. CASE Links!SendToken
    BY <1>1, <2>3 DEF InvitesInv, TokensMeant, Links!SendToken
  <2> QED
    BY <2>1, <2>2, <2>3
<1>5. tokensSent' \subseteq Invite
  <2>1. tokensSent' \in {tokensSent, tokensSent \cup {token}} /\ (tokensSent' # tokensSent => token # None)
    BY DEF Links!inviteGitHubUser, Links!ContactLoaded, Links!InstanceLoaded, Links!SendToken,
           Links!removeContact
  <2> QED
    BY <2>1 DEF InvitesInv, Links!TypeOK
<1>6. token' \in Invite \cup {None}
  BY <1>1, <1>3, <1>4 DEF TokensMeant
<1>7. Links!TypeOK'
  BY <1>1, <1>2, <1>5, <1>6 DEF InvitesInv, Links!TypeOK
<1>8. Consented' /\ WasLoggedIn'
  BY <1>1 DEF InvitesInv, Consented, PastQuestion, WasLoggedIn, Known, Links!On
<1>9. ToldOfNetworks'
  BY <1>1, NewsStill DEF Known
<1> QED
  BY <1>4, <1>7, <1>8, <1>9 DEF InvitesInv

LEMMA InvitesStep == InvitesInv /\ [Links!Next]_(Links!vars) => InvitesInv'
<1> SUFFICES ASSUME InvitesInv, [Links!Next]_(Links!vars) PROVE InvitesInv'
  OBVIOUS
<1>1. CASE Links!Next
  BY <1>1, AnswerStep, LoggedInStep, LoginFailsStep, SyncStep, NetworkSteps, QuestionSteps,
     OneInviteSteps, AcceptsStep, ContactSteps DEF Links!Next
<1>2. CASE UNCHANGED Links!vars
  <2>1. UNCHANGED <<reached, question, agreed, told, networks, left, modelNet, toUi, contact,
                    instance, token, tokenDisk, tokensSent>>
    BY <1>2 DEF Links!vars, Links!uiVars, Links!netVars, Links!contactVars
  <2>2. Links!TypeOK' /\ Consented' /\ TokensMeant' /\ WasLoggedIn'
    BY <2>1 DEF InvitesInv, Links!TypeOK, Consented, PastQuestion, TokensMeant, WasLoggedIn, Known,
                Links!On
  <2>3. ToldOfNetworks'
    BY <2>1, NewsStill DEF Known
  <2> QED
    BY <2>2, <2>3 DEF InvitesInv
<1> QED
  BY <1>1, <1>2

LEMMA InvitesMeant == InvitesInv => Links!InvitesAreMeant
<1> SUFFICES ASSUME InvitesInv PROVE Links!InvitesAreMeant
  OBVIOUS
<1>1. None \notin Invite
  BY InvitesAssumption
<1> QED
  BY <1>1 DEF InvitesInv, Links!InvitesAreMeant, Consented, PastQuestion, TokensMeant, WasLoggedIn
HIDE DEF reached, question, agreed, told, logins, removals, networks, left, modelNet, toUi, valid,
         contact, grants, offered, contactDisk, instance, token, tokenDisk, tokensSent
-----------------------------------------------------------------------------
(* However the questions to the panel, its own, its answers, and its closing   *)
(* cross, however many are asked in one millisecond, and logins, logouts and   *)
(* invitations too: a question is answered yes only if the user clicked so     *)
(* while a question of its number was shown, no number of a question that was  *)
(* asked is forgotten, and an invitation is accepted, and its token sent, only *)
(* if the user agreed (state.ts, root.ts, background_ui.ts, ui.ts,             *)
(* uproxy_core.ts).                                                            *)
THEOREM UsersAgree == Spec => []UserAgreed
<1> DEFINE Inv == /\ part = "dialogs" => DialogsInv
                  /\ part = "invites" => InvitesInv
<1>1. Init => Inv
  BY DialogsInit, InvitesInit DEF Init
<1>2. Inv /\ [Next]_vars => Inv'
  <2> SUFFICES ASSUME Inv, [Next]_vars PROVE Inv'
    OBVIOUS
  <2>1. part' = part
    BY DEF Next, vars
  <2>2. ASSUME part = "dialogs" PROVE DialogsInv'
    <3>1. [Panel!Next]_(Panel!vars)
      BY <2>2 DEF Next, vars, Panel!vars, Panel!panelVars
    <3> QED
      BY <2>2, <3>1, DialogsStep
  <2>3. ASSUME part = "invites" PROVE InvitesInv'
    <3>1. [Links!Next]_(Links!vars)
      BY <2>3 DEF Next, vars, Links!vars, Links!uiVars, Links!netVars, Links!contactVars
    <3> QED
      BY <2>3, <3>1, InvitesStep
  <2> QED
    BY <2>1, <2>2, <2>3
<1>3. Inv => UserAgreed
  BY DialogsMeant, InvitesMeant DEF UserAgreed, InvitesInv
<1> QED
  BY <1>1, <1>2, <1>3, PTL DEF Spec

-----------------------------------------------------------------------------
(* Ui.  Of each instance the last of what is under way to the interface says   *)
(* how it is in the core; and when nothing under way is about it, what the     *)
(* interface has of it is so: the port to the core keeps the order.  That ends *)
(* when the port is lost, and holds again from the full state that is asked    *)
(* for when it is back.                                                        *)
access == v1
starting == v2
ui == v3
shown == v4
proxy == v5
joined == v6
queue_ == v7
toCore == v8
updates == v9
lost == v10

(* What an update says of an instance: a start that is fulfilled says that it  *)
(* gives access.                                                               *)
Claims(m, i, s) ==
  \/ m.type = "user" /\ m.of = i /\ m.state = s
  \/ m.type = "fulfilled" /\ m.of = i /\ s = "GETTING_ACCESS"
  \/ m.type = "fullState" /\ i \in m.roster /\ m.states[i] = s
About(m, i) ==
  \/ m.type \in {"user", "fulfilled"} /\ m.of = i
  \/ m.type = "fullState" /\ i \in m.roster

(* A start that is fulfilled says nothing of the dialogs.                      *)
Full(m, i) ==
  \/ m.type = "user" /\ m.of = i
  \/ m.type = "fullState" /\ i \in m.roster

(* The fields of the interface, as far as they are about i, and its state s.   *)
DialogsFit(u, i, s) ==
  /\ u.disconnected = i => s \in {"FAILED", "RETRYING"}
  /\ u.trying = i => s \in {"TRYING_TO_GET_ACCESS", "RETRYING"}
AccessFits(u, i, s) == u.gettingFrom = i => s \in {"GETTING_ACCESS", "TRYING_TO_GET_ACCESS"}
Fits(u, i, s) == DialogsFit(u, i, s) /\ AccessFits(u, i, s)

Follows(box, u, i, s) ==
  /\ \A k \in 1..Len(box) :
       /\ About(box[k], i) => Claims(box[k], i, s) \/ \E n \in (k + 1)..Len(box) : About(box[n], i)
       /\ Full(box[k], i) => Claims(box[k], i, s) \/ \E n \in (k + 1)..Len(box) : Full(box[n], i)
  /\ (\A k \in 1..Len(box) : ~About(box[k], i)) => AccessFits(u, i, s)
  /\ (\A k \in 1..Len(box) : ~Full(box[k], i)) => DialogsFit(u, i, s)

Asked == \E k \in 1..Len(toCore) : toCore[k].type = "getFullState"

Followed ==
  lost # "core" /\ joined /\ ~Asked => \A i \in Instance : Follows(updates, ui, i, access[i])

UiInv == Front!TypeOK /\ Followed

(* syncUser, one user after the other: what a fold over a finite set computes. *)
(* The recursive function it is defined by exists, for the subsets of n        *)
(* elements at most and so for all.                                            *)
AnyOf(S) == CHOOSE i \in S : TRUE
SyncsEach(g, w, D, states) ==
  g = [S \in D |-> IF S = {} THEN w
                   ELSE Front!syncUser(g[S \ {AnyOf(S)}], AnyOf(S), states[AnyOf(S)])]

LEMMA SyncAllDef ==
  ASSUME NEW w, NEW S, NEW states
  PROVE  Front!SyncAll(w, S, states) = (CHOOSE g : SyncsEach(g, w, SUBSET S, states))[S]
BY DEF Front!SyncAll, Front!FoldSet, Front!MapThenFoldSet, SyncsEach, AnyOf

LEMMA OneFewer ==
  ASSUME NEW S, IsFiniteSet(S), NEW T \in SUBSET S, T # {}
  PROVE  /\ IsFiniteSet(T) /\ AnyOf(T) \in T /\ T \ {AnyOf(T)} \in SUBSET S
         /\ Cardinality(T) \in Nat \ {0} /\ Cardinality(T \ {AnyOf(T)}) = Cardinality(T) - 1
<1>1. IsFiniteSet(T)
  BY FS_Subset
<1>2. AnyOf(T) \in T
  BY DEF AnyOf
<1>3. Cardinality(T) \in Nat /\ Cardinality(T) # 0
  BY <1>1, FS_CardinalityType, FS_EmptySet
<1>4. Cardinality(T \ {AnyOf(T)}) = Cardinality(T) - 1
  BY <1>1, <1>2, FS_RemoveElement
<1> QED
  BY <1>1, <1>2, <1>3, <1>4

LEMMA SyncsExist ==
  ASSUME NEW S, IsFiniteSet(S), NEW w, NEW states
  PROVE  \E g : SyncsEach(g, w, SUBSET S, states)
<1> DEFINE D(n) == {T \in SUBSET S : Cardinality(T) <= n}
           Bad == {n \in Nat : ~\E g : SyncsEach(g, w, D(n), states)}
<1>1. Bad = {}
  <2> SUFFICES ASSUME Bad # {} PROVE FALSE
    OBVIOUS
  <2>1. PICK m \in Bad : \A n \in Bad : m <= n
    <3> HIDE DEF Bad
    <3>1. Bad \subseteq Nat
      BY DEF Bad
    <3> QED
      BY <3>1, Least
  <2>2. CASE m = 0
    <3>1. ASSUME NEW T \in D(0) PROVE T = {}
      <4>1. IsFiniteSet(T) /\ Cardinality(T) <= 0
        BY <3>1, FS_Subset
      <4> QED
        BY <4>1, FS_CardinalityType, FS_EmptySet
    <3>2. SyncsEach([T \in D(0) |-> w], w, D(0), states)
      <4> DEFINE E == D(0)
      <4>1. \A T \in E : T = {}
        BY <3>1
      <4> HIDE DEF E
      <4>2. SyncsEach([T \in E |-> w], w, E, states)
        BY <4>1 DEF SyncsEach
      <4> QED
        BY <4>2 DEF E
    <3> QED
      BY <2>1, <2>2, <3>2
  <2>3. CASE m # 0
    <3>1. m - 1 \in Nat /\ m - 1 \notin Bad
      <4>1. m \in Nat
        BY <2>1
      <4> HIDE DEF Bad
      <4> QED
        BY <2>1, <2>3, <4>1
    <3>2. PICK h : SyncsEach(h, w, D(m - 1), states)
      BY <3>1
    <3> DEFINE E == D(m - 1)
               G == D(m)
               g == [T \in G |-> IF T = {} THEN w
                      ELSE Front!syncUser(h[T \ {AnyOf(T)}], AnyOf(T), states[AnyOf(T)])]
    <3>3. E \subseteq G
      <4>1. \A T \in SUBSET S : Cardinality(T) \in Nat
        BY FS_Subset, FS_CardinalityType
      <4> QED
        BY <2>1, <4>1
    <3>4. \A T \in G : T # {} => T \ {AnyOf(T)} \in E
      BY <2>1, <2>3, OneFewer
    <3>5. SyncsEach(h, w, E, states)
      BY <3>2
    <3> HIDE DEF E, G
    <3>6. \A U \in E : g[U] = h[U]
      BY <3>3, <3>5 DEF SyncsEach
    <3>7. g = [T \in G |-> IF T = {} THEN w
                 ELSE Front!syncUser(g[T \ {AnyOf(T)}], AnyOf(T), states[AnyOf(T)])]
      <4>1. \A T \in G : T # {} => g[T \ {AnyOf(T)}] = h[T \ {AnyOf(T)}]
        BY <3>4, <3>6
      <4> QED
        BY <4>1
    <3>8. SyncsEach(g, w, G, states)
      BY <3>7 DEF SyncsEach
    <3> QED
      BY <2>1, <3>8 DEF G
  <2> QED
    BY <2>2, <2>3
<1>2. Cardinality(S) \in Nat
  BY FS_CardinalityType
<1>3. PICK g : SyncsEach(g, w, D(Cardinality(S)), states)
  BY <1>1, <1>2
<1>4. D(Cardinality(S)) = SUBSET S
  <2>1. \A T \in SUBSET S : Cardinality(T) <= Cardinality(S)
    BY FS_Subset
  <2> QED
    BY <2>1
<1> QED
  BY <1>3, <1>4

(* What handling the users of T one after the other, from w, comes to. *)
UiFields == [gettingFrom : Instance \cup {None}, trying : Instance \cup {None},
             disconnected : Instance \cup {None}, mode : {"NONE", "IN_APP"}]
ProxyFields == [running : BOOLEAN, setting : Instance \cup {None}, reading : Seq(Instance)]
Worlds == [ui : UiFields, proxy : ProxyFields, out : Seq(Front!Command)]
Keeps(u, u2, i) ==
  /\ u2.disconnected = i => u.disconnected = i
  /\ u2.trying = i => u.trying = i
  /\ u2.gettingFrom = i => u.gettingFrom = i
Synced(w, x, T, states) ==
  /\ x \in Worlds /\ x.out = w.out
  /\ \A i \in T : Fits(x.ui, i, states[i])
  /\ \A i \in Instance \ T : Keeps(w.ui, x.ui, i)

(* One user: its own fields fit, and those of others are not set. *)
LEMMA SyncUser ==
  ASSUME NEW w \in Worlds, NEW i \in Instance, NEW s \in Front!GettingState, NEW x,
         x = Front!syncUser(w, i, s)
  PROVE  /\ x \in Worlds /\ x.out = w.out
         /\ Fits(x.ui, i, s)
         /\ \A j \in Instance \ {i} : Keeps(w.ui, x.ui, j)
<1> USE UiAssumption
<1>1. w.ui \in UiFields /\ w.proxy \in ProxyFields /\ w.out \in Seq(Front!Command)
  BY DEF Worlds
<1>2. PICK a : a = Front!syncGettingState_(w, i, s)
  OBVIOUS
<1>3. PICK b : b = Front!syncTryingToGetState_(a, i, s)
  OBVIOUS
<1>4. x = Front!syncDisconnectedState_(b, i, s)
  BY <1>2, <1>3 DEF Front!syncUser
<1>5. /\ a \in Worlds /\ a.out = w.out
      /\ a.ui.trying = w.ui.trying /\ a.ui.disconnected = w.ui.disconnected
      /\ a.ui.gettingFrom = i => s \in {"GETTING_ACCESS", "TRYING_TO_GET_ACCESS"}
      /\ \A j \in Instance \ {i} : a.ui.gettingFrom = j => w.ui.gettingFrom = j
  <2>1. CASE s = "GETTING_ACCESS"
    <3>1. PICK y : y = [w EXCEPT !.ui.gettingFrom = i]
      OBVIOUS
    <3>2. /\ y \in Worlds /\ y.out = w.out /\ y.ui.gettingFrom = i
          /\ y.ui.trying = w.ui.trying /\ y.ui.disconnected = w.ui.disconnected
      BY <3>1 DEF Worlds, UiFields
    <3>3. PICK p : p = Front!startUsingProxy(y.proxy, i)
      OBVIOUS
    <3>4. p \in ProxyFields
      <4>1. PICK q : q = y.proxy
        OBVIOUS
      <4>2. q \in ProxyFields
        BY <3>2, <4>1 DEF Worlds
      <4>3. \/ p = [q EXCEPT !.running = TRUE, !.reading = Append(q.reading, i)]
            \/ p = [q EXCEPT !.running = TRUE, !.setting = i]
        BY <3>3, <4>1 DEF Front!startUsingProxy
      <4>4. Append(q.reading, i) \in Seq(Instance)
        BY <4>2 DEF ProxyFields
      <4> QED
        BY <4>2, <4>3, <4>4 DEF ProxyFields
    <3>5. a = y \/ a = [y EXCEPT !.proxy = p]
      BY <1>2, <2>1, <3>1, <3>3 DEF Front!syncGettingState_, Front!startGettingInUiAndConfig
    <3>6. a \in Worlds /\ a.ui = y.ui /\ a.out = y.out
      BY <3>2, <3>4, <3>5 DEF Worlds
    <3> QED
      BY <2>1, <3>2, <3>6
  <2>2. CASE s # "GETTING_ACCESS" /\ w.ui.gettingFrom = i /\ s # "TRYING_TO_GET_ACCESS"
    <3>1. PICK y : y = [w EXCEPT !.ui.gettingFrom = None]
      OBVIOUS
    <3>2. /\ y \in Worlds /\ y.out = w.out /\ y.ui.gettingFrom = None
          /\ y.ui.trying = w.ui.trying /\ y.ui.disconnected = w.ui.disconnected
      BY <3>1 DEF Worlds, UiFields
    <3>3. PICK p : p = Front!stopUsingProxyInBrowser(y.proxy)
      OBVIOUS
    <3>4. p \in ProxyFields
      BY <3>2, <3>3 DEF Front!stopUsingProxyInBrowser, Worlds, ProxyFields
    <3>5. a = y \/ a = [y EXCEPT !.proxy = p]
      BY <1>2, <2>2, <3>1, <3>3 DEF Front!syncGettingState_, Front!stoppedGetting
    <3>6. a \in Worlds /\ a.ui = y.ui /\ a.out = y.out
      BY <3>2, <3>4, <3>5 DEF Worlds
    <3> QED
      BY <3>2, <3>6
  <2>3. CASE s # "GETTING_ACCESS" /\ ~(w.ui.gettingFrom = i /\ s # "TRYING_TO_GET_ACCESS")
    <3>1. a = w
      BY <1>2, <2>3 DEF Front!syncGettingState_
    <3> QED
      BY <2>3, <3>1
  <2> QED
    BY <2>1, <2>2, <2>3
<1>6. /\ b \in Worlds /\ b.out = a.out /\ b.ui.gettingFrom = a.ui.gettingFrom
      /\ b.ui.disconnected = a.ui.disconnected
      /\ b.ui.trying = i => s \in {"TRYING_TO_GET_ACCESS", "RETRYING"}
      /\ \A j \in Instance \ {i} : b.ui.trying = j => a.ui.trying = j
  <2>1. \/ s \in {"TRYING_TO_GET_ACCESS", "RETRYING"} /\ b = [a EXCEPT !.ui.trying = i]
        \/ a.ui.trying = i /\ b = [a EXCEPT !.ui.trying = None]
        \/ a.ui.trying # i /\ b = a
    BY <1>3 DEF Front!syncTryingToGetState_
  <2>2. CASE b = a /\ a.ui.trying # i
    BY <1>5, <2>2
  <2>3. CASE b = [a EXCEPT !.ui.trying = i] /\ s \in {"TRYING_TO_GET_ACCESS", "RETRYING"}
    BY <1>5, <2>3 DEF Worlds, UiFields
  <2>4. CASE b = [a EXCEPT !.ui.trying = None]
    BY <1>5, <2>4 DEF Worlds, UiFields
  <2> QED
    BY <2>1, <2>2, <2>3, <2>4
<1>7. /\ x \in Worlds /\ x.out = b.out /\ x.ui.gettingFrom = b.ui.gettingFrom
      /\ x.ui.trying = b.ui.trying
      /\ x.ui.disconnected = i => s \in {"FAILED", "RETRYING"}
      /\ \A j \in Instance \ {i} : x.ui.disconnected = j => b.ui.disconnected = j
  <2>1. \/ s \in {"FAILED", "RETRYING"} /\ x = [b EXCEPT !.ui.disconnected = i]
        \/ b.ui.disconnected = i /\ x = [b EXCEPT !.ui.disconnected = None]
        \/ b.ui.disconnected # i /\ x = b
    BY <1>4 DEF Front!syncDisconnectedState_
  <2>a. b \in Worlds
    BY <1>6
  <2>2. CASE x = b /\ b.ui.disconnected # i
    BY <2>2, <2>a
  <2>3. CASE x = [b EXCEPT !.ui.disconnected = i] /\ s \in {"FAILED", "RETRYING"}
    <3>1. PICK u : u = [b.ui EXCEPT !.disconnected = i]
      OBVIOUS
    <3>2. b.ui \in UiFields
      BY <2>a DEF Worlds
    <3>3. /\ u \in UiFields /\ u.disconnected = i
          /\ u.gettingFrom = b.ui.gettingFrom /\ u.trying = b.ui.trying
      BY <3>1, <3>2 DEF UiFields
    <3>4. x = [b EXCEPT !.ui = u]
      BY <2>3, <3>1
    <3>5. x \in Worlds /\ x.ui = u /\ x.out = b.out
      BY <2>a, <3>3, <3>4 DEF Worlds
    <3> QED
      BY <2>3, <3>3, <3>5
  <2>4. CASE x = [b EXCEPT !.ui.disconnected = None]
    <3>1. PICK u : u = [b.ui EXCEPT !.disconnected = None]
      OBVIOUS
    <3>2. b.ui \in UiFields
      BY <2>a DEF Worlds
    <3>3. /\ u \in UiFields /\ u.disconnected = None
          /\ u.gettingFrom = b.ui.gettingFrom /\ u.trying = b.ui.trying
      BY <3>1, <3>2 DEF UiFields
    <3>4. x = [b EXCEPT !.ui = u]
      BY <2>4, <3>1
    <3>5. x \in Worlds /\ x.ui = u /\ x.out = b.out
      BY <2>a, <3>3, <3>4 DEF Worlds
    <3> QED
      BY <2>4, <3>3, <3>5
  <2> QED
    BY <2>1, <2>2, <2>3, <2>4
<1> QED
  BY <1>5, <1>6, <1>7 DEF Fits, DialogsFit, AccessFits, Keeps

LEMMA SyncAll ==
  ASSUME NEW w \in Worlds, NEW S \in SUBSET Instance, NEW states \in [Instance -> Front!GettingState],
         NEW x, x = Front!SyncAll(w, S, states)
  PROVE  Synced(w, x, S, states)
<1>0. IsFiniteSet(S)
  BY UiAssumption, FS_Subset
<1>1. PICK g : SyncsEach(g, w, SUBSET S, states) /\ x = g[S]
  BY <1>0, SyncAllDef, SyncsExist
<1> DEFINE Bad == {n \in Nat : \E T \in SUBSET S : Cardinality(T) = n /\ ~Synced(w, g[T], T, states)}
<1>2. Bad = {}
  <2> SUFFICES ASSUME Bad # {} PROVE FALSE
    OBVIOUS
  <2>1. PICK m \in Bad : \A n \in Bad : m <= n
    <3>1. Bad \subseteq Nat
      OBVIOUS
    <3> HIDE DEF Bad
    <3> QED
      BY <3>1, Least
  <2>2. PICK T \in SUBSET S : Cardinality(T) = m /\ ~Synced(w, g[T], T, states)
    BY <2>1
  <2>3. T # {}
    <3>1. g[{}] = w
      BY <1>1 DEF SyncsEach
    <3> QED
      BY <2>2, <3>1 DEF Synced, Keeps
  <2> DEFINE i == AnyOf(T)
             R == T \ {i}
  <2>4. i \in T /\ R \in SUBSET S /\ Cardinality(T) \in Nat \ {0} /\ Cardinality(R) = Cardinality(T) - 1
    BY <1>0, <2>3, OneFewer
  <2>5. Synced(w, g[R], R, states)
    <3>1. m - 1 \in Nat /\ m - 1 \notin Bad
      <4>1. m \in Nat \ {0} /\ Cardinality(R) = m - 1
        BY <2>2, <2>4
      <4> HIDE DEF Bad
      <4> QED
        BY <2>1, <4>1
    <3> HIDE DEF R, i
    <3> QED
      BY <2>2, <2>4, <3>1
  <2>6. g[T] = Front!syncUser(g[R], i, states[i])
    BY <1>1, <2>2, <2>3 DEF SyncsEach
  <2>7. i \in Instance /\ states[i] \in Front!GettingState /\ T = R \cup {i} /\ i \notin R
    BY <2>2, <2>4
  <2> HIDE DEF i, R
  <2>8. PICK y, z : y = g[R] /\ z = g[T]
    OBVIOUS
  <2>9. /\ z \in Worlds /\ z.out = y.out /\ Fits(z.ui, i, states[i])
        /\ \A j \in Instance \ {i} : Keeps(y.ui, z.ui, j)
    <3>1. PICK s : s = states[i]
      OBVIOUS
    <3>2. y \in Worlds /\ s \in Front!GettingState /\ z = Front!syncUser(y, i, s) /\ i \in Instance
      BY <2>5, <2>6, <2>7, <2>8, <3>1 DEF Synced
    <3>3. /\ z \in Worlds /\ z.out = y.out /\ Fits(z.ui, i, s)
          /\ \A j \in Instance \ {i} : Keeps(y.ui, z.ui, j)
      BY <3>2, SyncUser
    <3> QED
      BY <3>1, <3>3
  <2>10. Synced(w, z, T, states)
    BY <2>2, <2>5, <2>7, <2>8, <2>9 DEF Synced, Keeps, Fits, DialogsFit, AccessFits
  <2> QED
    BY <2>2, <2>8, <2>10
<1>3. Cardinality(S) \in Nat
  BY <1>0, FS_CardinalityType
<1> QED
  BY <1>1, <1>2, <1>3

(* What an answer or the update of another leaves alone stays; what is told of *)
(* an instance goes for whatever was said before; and what is read of it goes  *)
(* for what the interface has.                                                 *)
LEMMA Appended ==
  ASSUME NEW B \in Seq(Front!Update), NEW C \in Seq(Front!Update), NEW u, NEW i, NEW s,
         Follows(B, u, i, s), \A k \in 1..Len(C) : ~About(C[k], i)
  PROVE  Follows(B \o C, u, i, s)
<1>1. Len(B \o C) = Len(B) + Len(C) /\ Len(B) \in Nat /\ Len(C) \in Nat
  OBVIOUS
<1>2. \A k \in 1..Len(B) : (B \o C)[k] = B[k]
  OBVIOUS
<1>3. \A k \in 1..Len(B \o C) : k \notin 1..Len(B) => (B \o C)[k] = C[k - Len(B)] /\ k - Len(B) \in 1..Len(C)
  BY <1>1
<1>4. \A m : Full(m, i) => About(m, i)
  BY DEF Full, About
<1> DEFINE D == B \o C
<1>5. \A k \in 1..Len(D) : About(D[k], i) => k \in 1..Len(B) /\ D[k] = B[k]
  BY <1>2, <1>3
<1>6. \A k \in 1..Len(B) : k \in 1..Len(D) /\ D[k] = B[k]
  BY <1>1, <1>2
<1>7. Len(D) \in Nat /\ Len(D) >= Len(B)
  BY <1>1
<1> HIDE DEF D
<1>8. ASSUME NEW k \in 1..Len(D)
      PROVE  /\ About(D[k], i) => Claims(D[k], i, s) \/ \E n \in (k + 1)..Len(D) : About(D[n], i)
             /\ Full(D[k], i) => Claims(D[k], i, s) \/ \E n \in (k + 1)..Len(D) : Full(D[n], i)
  <2>1. \A n \in (k + 1)..Len(B) : n \in (k + 1)..Len(D) /\ n \in 1..Len(B)
    BY <1>1, <1>7, <1>8
  <2>2. ASSUME About(D[k], i)
        PROVE  k \in 1..Len(B) /\ D[k] = B[k] /\ About(B[k], i)
    BY <1>5, <1>8, <2>2
  <2>3. About(D[k], i) => Claims(D[k], i, s) \/ \E n \in (k + 1)..Len(D) : About(D[n], i)
    <3> SUFFICES ASSUME About(D[k], i), ~Claims(D[k], i, s)
                 PROVE  \E n \in (k + 1)..Len(D) : About(D[n], i)
      OBVIOUS
    <3>1. PICK n \in (k + 1)..Len(B) : About(B[n], i)
      BY <2>2 DEF Follows
    <3> QED
      BY <1>6, <2>1, <3>1
  <2>4. Full(D[k], i) => Claims(D[k], i, s) \/ \E n \in (k + 1)..Len(D) : Full(D[n], i)
    <3> SUFFICES ASSUME Full(D[k], i), ~Claims(D[k], i, s)
                 PROVE  \E n \in (k + 1)..Len(D) : Full(D[n], i)
      OBVIOUS
    <3>1. PICK n \in (k + 1)..Len(B) : Full(B[n], i)
      BY <1>4, <2>2 DEF Follows
    <3> QED
      BY <1>6, <2>1, <3>1
  <2> QED
    BY <2>3, <2>4
<1>9. (\A k \in 1..Len(D) : ~About(D[k], i)) => AccessFits(u, i, s)
  BY <1>6 DEF Follows
<1>10. (\A k \in 1..Len(D) : ~Full(D[k], i)) => DialogsFit(u, i, s)
  BY <1>6 DEF Follows
<1>11. Follows(D, u, i, s)
  BY <1>8, <1>9, <1>10 DEF Follows
<1> QED
  BY <1>11 DEF D

LEMMA ToldOf ==
  ASSUME NEW B \in Seq(Front!Update), NEW C \in Seq(Front!Update), NEW u, NEW i, NEW s,
         C # <<>>, Full(C[1], i), \A k \in 1..Len(C) : About(C[k], i) => Claims(C[k], i, s)
  PROVE  Follows(B \o C, u, i, s)
<1>1. Len(B \o C) = Len(B) + Len(C) /\ Len(B) \in Nat /\ Len(C) \in Nat
  OBVIOUS
<1>2. Len(C) # 0
  OBVIOUS
<1>3. \A k \in 1..Len(B \o C) : k \notin 1..Len(B) => (B \o C)[k] = C[k - Len(B)] /\ k - Len(B) \in 1..Len(C)
  BY <1>1
<1>4. \A m : Full(m, i) => About(m, i)
  BY DEF Full, About
<1> DEFINE D == B \o C
           f == Len(B) + 1
<1>5. f \in 1..Len(D) /\ D[f] = C[1]
  <2>1. f \in 1..Len(D) /\ f \notin 1..Len(B) /\ f - Len(B) = 1
    BY <1>1, <1>2
  <2> QED
    BY <1>3, <2>1
<1>6. \A k \in 1..Len(D) : k \notin 1..Len(B) => (About(D[k], i) => Claims(D[k], i, s))
  BY <1>3
<1>7. \A k \in 1..Len(B) : f \in (k + 1)..Len(D)
  BY <1>1, <1>5
<1> HIDE DEF D, f
<1>8. Follows(D, u, i, s)
  BY <1>4, <1>5, <1>6, <1>7 DEF Follows
<1> QED
  BY <1>8 DEF D

LEMMA ReadOf ==
  ASSUME NEW B \in Seq(Front!Update), B # <<>>, NEW u, NEW u2, NEW i, NEW s,
         Follows(B, u, i, s),
         \/ Full(Head(B), i) /\ (Claims(Head(B), i, s) => Fits(u2, i, s))
         \/ /\ ~Full(Head(B), i)
            /\ u2.disconnected = i => u.disconnected = i
            /\ u2.trying = i => u.trying = i
            /\ IF About(Head(B), i) THEN Claims(Head(B), i, s) => AccessFits(u2, i, s)
                                    ELSE u2.gettingFrom = i => u.gettingFrom = i
  PROVE  Follows(Tail(B), u2, i, s)
<1> DEFINE D == Tail(B)
<1>1. Len(B) \in Nat /\ Len(B) >= 1 /\ Len(D) = Len(B) - 1 /\ Head(B) = B[1]
  <2>1. Len(B) # 0
    OBVIOUS
  <2> QED
    BY <2>1
<1>2. \A k \in 1..Len(D) : k + 1 \in 1..Len(B) /\ D[k] = B[k + 1]
  BY <1>1
<1>3. \A k \in 1..Len(B) : k # 1 => k - 1 \in 1..Len(D) /\ D[k - 1] = B[k]
  <2> SUFFICES ASSUME NEW k \in 1..Len(B), k # 1 PROVE k - 1 \in 1..Len(D) /\ D[k - 1] = B[k]
    OBVIOUS
  <2>1. k - 1 \in 1..Len(D) /\ (k - 1) + 1 = k
    BY <1>1
  <2> QED
    BY <1>2, <2>1
<1>4. \A m : Full(m, i) => About(m, i)
  BY DEF Full, About
<1>4a. 1 \in 1..Len(B)
  BY <1>1
<1>4b. \A k \in 1..Len(D) : \A n \in ((k + 1) + 1)..Len(B) :
         n \in 1..Len(B) /\ n # 1 /\ n - 1 \in (k + 1)..Len(D)
  BY <1>1
<1>4c. \A n \in 2..Len(B) : n \in 1..Len(B) /\ n # 1
  OBVIOUS
<1> HIDE DEF D
<1>5. ASSUME NEW k \in 1..Len(D)
      PROVE  /\ About(D[k], i) => Claims(D[k], i, s) \/ \E n \in (k + 1)..Len(D) : About(D[n], i)
             /\ Full(D[k], i) => Claims(D[k], i, s) \/ \E n \in (k + 1)..Len(D) : Full(D[n], i)
  <2>1. k + 1 \in 1..Len(B) /\ D[k] = B[k + 1]
    BY <1>2
  <2>2. ASSUME About(D[k], i), ~Claims(D[k], i, s)
        PROVE  \E n \in (k + 1)..Len(D) : About(D[n], i)
    <3>1. PICK n \in ((k + 1) + 1)..Len(B) : About(B[n], i)
      BY <2>1, <2>2 DEF Follows
    <3> QED
      BY <1>3, <1>4b, <3>1
  <2>3. ASSUME Full(D[k], i), ~Claims(D[k], i, s)
        PROVE  \E n \in (k + 1)..Len(D) : Full(D[n], i)
    <3>1. PICK n \in ((k + 1) + 1)..Len(B) : Full(B[n], i)
      BY <2>1, <2>3 DEF Follows
    <3> QED
      BY <1>3, <1>4b, <3>1
  <2> QED
    BY <2>2, <2>3
<1>6. ASSUME \A k \in 1..Len(D) : ~About(D[k], i)
      PROVE  AccessFits(u2, i, s)
  <2>1. \A n \in (1 + 1)..Len(B) : ~About(B[n], i)
    BY <1>3, <1>4c, <1>6
  <2>2. CASE About(Head(B), i)
    <3>1. Claims(Head(B), i, s)
      BY <1>1, <1>4a, <2>1, <2>2 DEF Follows
    <3> QED
      BY <1>4, <2>2, <3>1 DEF Fits
  <2>3. CASE ~About(Head(B), i)
    <3>1. \A k \in 1..Len(B) : ~About(B[k], i)
      BY <1>1, <1>3, <1>6, <2>3
    <3>2. AccessFits(u, i, s)
      BY <3>1 DEF Follows
    <3> QED
      BY <1>4, <2>3, <3>2 DEF AccessFits
  <2> QED
    BY <2>2, <2>3
<1>7. ASSUME \A k \in 1..Len(D) : ~Full(D[k], i)
      PROVE  DialogsFit(u2, i, s)
  <2>1. \A n \in (1 + 1)..Len(B) : ~Full(B[n], i)
    BY <1>3, <1>4c, <1>7
  <2>2. CASE Full(Head(B), i)
    <3>1. Claims(Head(B), i, s)
      BY <1>1, <1>4a, <2>1, <2>2 DEF Follows
    <3> QED
      BY <2>2, <3>1 DEF Fits
  <2>3. CASE ~Full(Head(B), i)
    <3>1. \A k \in 1..Len(B) : ~Full(B[k], i)
      BY <1>1, <1>3, <1>7, <2>3
    <3>2. DialogsFit(u, i, s)
      BY <3>1 DEF Follows
    <3> QED
      BY <2>3, <3>2 DEF DialogsFit
  <2> QED
    BY <2>2, <2>3
<1>8. Follows(D, u2, i, s)
  BY <1>5, <1>6, <1>7 DEF Follows
<1> QED
  BY <1>8 DEF D

(* A step of the interface that reads nothing: the dialogs stay as they are,   *)
(* and a question that is under way stays under way.                           *)
LEMMA SendsAreWorlds ==
  ASSUME NEW w \in Worlds, NEW i \in Instance, NEW mode \in {"NONE", "IN_APP"}, NEW x,
         x = Front!Sends(w, Front!Start(i, mode)) \/ x = Front!Sends(w, Front!Stop(i))
  PROVE  x \in Worlds /\ x.ui = w.ui
<1>1. PICK c : (c = Front!Start(i, mode) \/ c = Front!Stop(i)) /\ x = Front!Sends(w, c)
  OBVIOUS
<1>2. c \in Front!Command
  BY <1>1 DEF Front!Start, Front!Stop, Front!Command, Front!AccessMode
<1>3. Append(w.out, c) \in Seq(Front!Command)
  BY <1>2 DEF Worlds
<1>4. PICK o : o = Append(w.out, c)
  OBVIOUS
<1>5. x = [w EXCEPT !.out = o] /\ o \in Seq(Front!Command)
  BY <1>1, <1>3, <1>4 DEF Front!Sends
<1> QED
  BY <1>5 DEF Worlds

LEMMA NowIsAWorld ==
  ASSUME Front!TypeOK
  PROVE  Front!Now \in Worlds /\ Front!Now.ui = ui /\ Front!Now.proxy = proxy /\ Front!Now.out = <<>>
BY DEF Front!TypeOK, Front!Now, Worlds, UiFields, ProxyFields, Front!AccessMode, ui, proxy

LEMMA DoneSends ==
  ASSUME Front!TypeOK, NEW w \in Worlds, Front!Done(w)
  PROVE  /\ ui' = w.ui /\ ui' \in UiFields /\ proxy' \in ProxyFields
         /\ queue_' \in Seq(Front!Command) /\ toCore' \in Seq(Front!Command)
         /\ Asked => Asked'
         /\ w.out = <<>> => toCore' = toCore
<1>1. ui' = w.ui /\ ui' \in UiFields /\ proxy' \in ProxyFields
  BY DEF Front!Done, Worlds, ui, proxy
<1>2. w.out \in Seq(Front!Command) /\ queue_ \in Seq(Front!Command) /\ toCore \in Seq(Front!Command)
  BY DEF Worlds, Front!TypeOK, queue_, toCore
<1>3. \/ toCore' = toCore \o w.out /\ queue_' = queue_
      \/ toCore' = toCore /\ queue_' = queue_ \o w.out
  BY DEF Front!Done, queue_, toCore
<1>4. queue_' \in Seq(Front!Command) /\ toCore' \in Seq(Front!Command)
  <2>1. \A C : \A a, b \in Seq(C) : a \o b \in Seq(C)
    OBVIOUS
  <2>2. toCore \o w.out \in Seq(Front!Command) /\ queue_ \o w.out \in Seq(Front!Command)
    BY <1>2, <2>1
  <2> QED
    BY <1>2, <1>3, <2>2
<1>5. Asked => Asked'
  <2>1. CASE toCore' = toCore
    BY <2>1 DEF Asked
  <2>2. CASE toCore' = toCore \o w.out
    <3> SUFFICES ASSUME NEW k \in 1..Len(toCore), toCore[k].type = "getFullState"
                 PROVE  Asked'
      BY DEF Asked
    <3>1. k \in 1..Len(toCore \o w.out) /\ (toCore \o w.out)[k] = toCore[k]
      BY <1>2
    <3>2. k \in 1..Len(toCore') /\ toCore'[k].type = "getFullState"
      BY <2>2, <3>1
    <3> QED
      BY <3>2 DEF Asked
  <2> QED
    BY <1>3, <2>1, <2>2
<1>6. w.out = <<>> => toCore' = toCore
  BY <1>2, <1>3
<1> QED
  BY <1>1, <1>4, <1>5, <1>6

LEMMA SentOnly ==
  ASSUME UiInv, NEW w \in Worlds, w.ui = ui, Front!Done(w),
         UNCHANGED <<access, starting, shown, joined, lost, updates>>
  PROVE  UiInv'
<1>1. /\ ui' = ui /\ ui' \in UiFields /\ proxy' \in ProxyFields
      /\ queue_' \in Seq(Front!Command) /\ toCore' \in Seq(Front!Command)
      /\ Asked => Asked'
  BY DoneSends DEF UiInv
<1>2. Front!TypeOK'
  BY <1>1 DEF UiInv, Front!TypeOK, UiFields, ProxyFields, Front!AccessMode,
     access, starting, ui, shown, proxy, joined, queue_, toCore, updates, lost
<1>3. Followed'
  BY <1>1 DEF UiInv, Followed
<1> QED
  BY <1>2, <1>3 DEF UiInv

LEMMA UiStarts ==
  ASSUME UiInv, NEW i \in Instance, Front!StartGetting(i)
  PROVE  UiInv'
<1>1. PICK n : n = Front!Now
  OBVIOUS
<1>2. n \in Worlds /\ n.ui = ui
  BY <1>1, NowIsAWorld DEF UiInv
<1>3. PICK x : x = IF n.ui.trying # None THEN Front!Sends(n, Front!Stop(n.ui.trying)) ELSE n
  OBVIOUS
<1>4. x \in Worlds /\ x.ui = ui
  <2>1. n.ui.trying # None => n.ui.trying \in Instance
    BY <1>2 DEF Worlds, UiFields
  <2> QED
    BY <1>2, <1>3, <2>1, SendsAreWorlds
<1>5. PICK z : z = Front!Sends(x, Front!Start(i, "IN_APP"))
  OBVIOUS
<1>6. z \in Worlds /\ z.ui = ui
  BY <1>4, <1>5, SendsAreWorlds
<1>7. Front!startGettingFromInstance(Front!Now, i, "IN_APP") = z
  BY <1>1, <1>3, <1>5 DEF Front!startGettingFromInstance
<1>8. Front!Done(z)
  BY <1>7 DEF Front!StartGetting, Front!Done
<1>9. UNCHANGED <<access, starting, shown, joined, lost, updates>>
  BY DEF Front!StartGetting, Front!coreVars, access, starting, shown, joined, lost, updates
<1> QED
  BY <1>6, <1>8, <1>9, SentOnly

LEMMA StopUsing ==
  ASSUME NEW n \in Worlds, NEW z, z = Front!stopUsingProxy(n)
  PROVE  z \in Worlds /\ z.ui = n.ui
<1>1. PICK p : p = Front!stopUsingProxyInBrowser(n.proxy)
  OBVIOUS
<1>2. p \in ProxyFields
  BY <1>1 DEF Front!stopUsingProxyInBrowser, Worlds, ProxyFields
<1>3. PICK x : x = [n EXCEPT !.proxy = p]
  OBVIOUS
<1>4. x \in Worlds /\ x.ui = n.ui
  BY <1>2, <1>3 DEF Worlds
<1>5. \/ x.ui.trying # None /\ z = Front!Sends(x, Front!Stop(x.ui.trying))
      \/ x.ui.disconnected # None /\ z = Front!Sends(x, Front!Stop(x.ui.disconnected))
      \/ z = x
  BY <1>1, <1>3 DEF Front!stopUsingProxy, Front!stopGettingFromInstance
<1>6. /\ x.ui.trying # None => x.ui.trying \in Instance
      /\ x.ui.disconnected # None => x.ui.disconnected \in Instance
  BY <1>4 DEF Worlds, UiFields
<1> QED
  BY <1>4, <1>5, <1>6, SendsAreWorlds

LEMMA UiStops ==
  ASSUME UiInv, NEW i \in Instance, Front!StopGetting(i)
  PROVE  UiInv'
<1>1. PICK n : n = Front!Now
  OBVIOUS
<1>2. n \in Worlds /\ n.ui = ui
  BY <1>1, NowIsAWorld DEF UiInv
<1>3. PICK x : x = Front!stopUsingProxy(n)
  OBVIOUS
<1>4. x \in Worlds /\ x.ui = ui
  BY <1>2, <1>3, StopUsing
<1>5. PICK z : z = Front!Sends(x, Front!Stop(i))
  OBVIOUS
<1>6. z \in Worlds /\ z.ui = ui
  BY <1>4, <1>5, SendsAreWorlds
<1>7. Front!stopGettingFromInstance(Front!stopUsingProxy(Front!Now), i) = z
  BY <1>1, <1>3, <1>5 DEF Front!stopGettingFromInstance
<1>8. Front!Done(z)
  BY <1>7 DEF Front!StopGetting, Front!Done
<1>9. UNCHANGED <<access, starting, shown, joined, lost, updates>>
  BY DEF Front!StopGetting, Front!coreVars, access, starting, shown, joined, lost, updates
<1> QED
  BY <1>6, <1>8, <1>9, SentOnly

LEMMA UiRestarts ==
  ASSUME UiInv, Front!restartProxying
  PROVE  UiInv'
<1>1. PICK n : n = Front!Now
  OBVIOUS
<1>2. n \in Worlds /\ n.ui = ui
  BY <1>1, NowIsAWorld DEF UiInv
<1>3. PICK i, mode : i = ui.disconnected /\ mode = ui.mode
  OBVIOUS
<1>4. i \in Instance /\ mode \in {"NONE", "IN_APP"} /\ n.ui.trying = None
  BY <1>2, <1>3 DEF Front!restartProxying, Worlds, UiFields, ui
<1>5. PICK z : z = Front!Sends(n, Front!Start(i, mode))
  OBVIOUS
<1>6. z \in Worlds /\ z.ui = ui
  BY <1>2, <1>4, <1>5, SendsAreWorlds
<1>7. Front!startGettingFromInstance(Front!Now, ui.disconnected, ui.mode) = z
  BY <1>1, <1>3, <1>4, <1>5 DEF Front!startGettingFromInstance
<1>8. Front!Done(z)
  BY <1>7 DEF Front!restartProxying, Front!Done, ui
<1>9. UNCHANGED <<access, starting, shown, joined, lost, updates>>
  BY DEF Front!restartProxying, Front!coreVars, access, starting, shown, joined, lost, updates
<1> QED
  BY <1>6, <1>8, <1>9, SentOnly

LEMMA UiReverts ==
  ASSUME UiInv, Front!revertProxySettings
  PROVE  UiInv'
<1>1. PICK n : n = Front!Now
  OBVIOUS
<1>2. n \in Worlds /\ n.ui = ui
  BY <1>1, NowIsAWorld DEF UiInv
<1>3. PICK z : z = Front!stopUsingProxy(n)
  OBVIOUS
<1>4. z \in Worlds /\ z.ui = ui
  BY <1>2, <1>3, StopUsing
<1>5. Front!Done(z)
  BY <1>1, <1>3 DEF Front!revertProxySettings, Front!Done
<1>6. UNCHANGED <<access, starting, shown, joined, lost, updates>>
  BY DEF Front!revertProxySettings, Front!coreVars, access, starting, shown, joined, lost, updates
<1> QED
  BY <1>4, <1>5, <1>6, SentOnly

LEMMA UiLosesProxy ==
  ASSUME UiInv, Front!proxyDisconnected
  PROVE  UiInv'
<1>1. PICK n : n = Front!Now
  OBVIOUS
<1>2. n \in Worlds /\ n.ui = ui
  BY <1>1, NowIsAWorld DEF UiInv
<1>3. PICK q : q = n.proxy
  OBVIOUS
<1>4. PICK p : p = [q EXCEPT !.setting = None]
  OBVIOUS
<1>5. p \in ProxyFields
  BY <1>2, <1>3, <1>4 DEF Worlds, ProxyFields
<1>6. PICK x : x = [n EXCEPT !.proxy = p]
  OBVIOUS
<1>7. x \in Worlds /\ x.ui = ui
  BY <1>2, <1>5, <1>6 DEF Worlds
<1>8. PICK i : i = ui.gettingFrom
  OBVIOUS
<1>9. i \in Instance
  BY <1>2, <1>8 DEF Front!proxyDisconnected, Worlds, UiFields, ui
<1>10. PICK z : z = Front!Sends(x, Front!Stop(i))
  OBVIOUS
<1>11. z \in Worlds /\ z.ui = ui
  BY <1>7, <1>9, <1>10, SendsAreWorlds
<1>12. [Front!Now EXCEPT !.proxy.setting = None] = x
  BY <1>1, <1>2, <1>3, <1>4, <1>6 DEF Worlds
<1>13. Front!stopGettingFromInstance([Front!Now EXCEPT !.proxy.setting = None], ui.gettingFrom) = z
  BY <1>8, <1>10, <1>12 DEF Front!stopGettingFromInstance
<1>14. Front!Done(z)
  BY <1>13 DEF Front!proxyDisconnected, Front!Done, ui
<1>15. UNCHANGED <<access, starting, shown, joined, lost, updates>>
  BY DEF Front!proxyDisconnected, Front!coreVars, access, starting, shown, joined, lost, updates
<1> QED
  BY <1>11, <1>14, <1>15, SentOnly

LEMMA UiSettingRead ==
  ASSUME UiInv, Front!SettingRead
  PROVE  UiInv'
<1>1. PICK p : p = proxy
  OBVIOUS
<1>2. p \in ProxyFields /\ p.reading # <<>>
  BY <1>1 DEF UiInv, Front!TypeOK, ProxyFields, Front!SettingRead, proxy
<1>3. Head(p.reading) \in Instance /\ Tail(p.reading) \in Seq(Instance)
  BY <1>2 DEF ProxyFields
<1>4. proxy' = [p EXCEPT !.setting = Head(p.reading), !.reading = Tail(p.reading)]
  BY <1>1 DEF Front!SettingRead, proxy
<1>5. proxy' \in ProxyFields
  BY <1>2, <1>3, <1>4 DEF ProxyFields
<1>6. UNCHANGED <<access, starting, ui, shown, joined, queue_, lost, toCore, updates>>
  BY DEF Front!SettingRead, Front!coreVars, Front!linkVars,
     access, starting, ui, shown, joined, queue_, lost, toCore, updates
<1>7. Front!TypeOK'
  BY <1>5, <1>6 DEF UiInv, Front!TypeOK, ProxyFields, Front!AccessMode,
     access, starting, ui, shown, proxy, joined, queue_, toCore, updates, lost
<1>8. Asked' <=> Asked
  BY <1>6 DEF Asked
<1>9. Followed'
  BY <1>6, <1>8 DEF UiInv, Followed
<1> QED
  BY <1>7, <1>9 DEF UiInv

(* What reading an update must see to. *)
Heeds(m, u, u2, i, s) ==
  \/ Full(m, i) /\ (Claims(m, i, s) => Fits(u2, i, s))
  \/ /\ ~Full(m, i)
     /\ u2.disconnected = i => u.disconnected = i
     /\ u2.trying = i => u.trying = i
     /\ IF About(m, i) THEN Claims(m, i, s) => AccessFits(u2, i, s)
                       ELSE u2.gettingFrom = i => u.gettingFrom = i

LEMMA ReadOnly ==
  ASSUME UiInv, NEW w \in Worlds, Front!Done(w), updates # <<>>, updates' = Tail(updates),
         UNCHANGED <<access, starting, joined, lost>>, shown' \in [Instance -> Front!GettingState],
         \A i \in Instance : \A s \in Front!GettingState : Heeds(Head(updates), ui, w.ui, i, s)
  PROVE  UiInv'
<1>1. /\ ui' = w.ui /\ ui' \in UiFields /\ proxy' \in ProxyFields
      /\ queue_' \in Seq(Front!Command) /\ toCore' \in Seq(Front!Command)
      /\ Asked => Asked'
  BY DoneSends DEF UiInv
<1>2. updates \in Seq(Front!Update) /\ access \in [Instance -> Front!GettingState]
  BY DEF UiInv, Front!TypeOK, updates, access
<1>3. updates' \in Seq(Front!Update)
  BY <1>2
<1>4. Front!TypeOK'
  BY <1>1, <1>3 DEF UiInv, Front!TypeOK, UiFields, ProxyFields, Front!AccessMode,
     access, starting, ui, shown, proxy, joined, queue_, toCore, updates, lost
<1>5. Followed'
  <2> SUFFICES ASSUME lost # "core", joined, ~Asked, NEW i \in Instance
               PROVE  Follows(updates', ui', i, access'[i])
    BY <1>1 DEF Followed
  <2>1. Follows(updates, ui, i, access[i])
    BY DEF UiInv, Followed
  <2>2. PICK B, u, u2, s : B = updates /\ u = ui /\ u2 = w.ui /\ s = access[i]
    OBVIOUS
  <2>3. B \in Seq(Front!Update) /\ B # <<>> /\ s \in Front!GettingState /\ Follows(B, u, i, s)
    BY <1>2, <2>1, <2>2
  <2>4. Heeds(Head(B), u, u2, i, s)
    BY <2>2, <2>3
  <2>5. Follows(Tail(B), u2, i, s)
    BY <2>3, <2>4, ReadOf DEF Heeds
  <2> QED
    BY <1>1, <2>2, <2>5
<1> QED
  BY <1>4, <1>5 DEF UiInv

LEMMA UpdateTypes ==
  ASSUME NEW m \in Front!Update
  PROVE  /\ m.type = "user" => m.of \in Instance /\ m.state \in Front!GettingState
         /\ m.type \in {"fulfilled", "rejected"} => m.of \in Instance /\ m.mode \in {"NONE", "IN_APP"}
         /\ m.type = "fullState" => /\ m.roster \in SUBSET Instance
                                    /\ m.states \in [Instance -> Front!GettingState]
         /\ m.type \in {"user", "fulfilled", "rejected", "fullState"}
BY DEF Front!Update, Front!AccessMode

LEMMA UiReadsUpdate ==
  ASSUME UiInv, Front!ReadUpdate
  PROVE  UiInv'
<1>1. PICK n, m : n = Front!Now /\ m = Head(updates)
  OBVIOUS
<1>2. n \in Worlds /\ n.ui = ui
  BY <1>1, NowIsAWorld DEF UiInv
<1>3. updates # <<>> /\ updates' = Tail(updates) /\ m.type = "user" /\ m \in Front!Update
  BY <1>1 DEF Front!ReadUpdate, updates, UiInv, Front!TypeOK
<1>4. PICK j, t : j = m.of /\ t = m.state
  OBVIOUS
<1>5. j \in Instance /\ t \in Front!GettingState
  BY <1>3, <1>4, UpdateTypes
<1>6. PICK z : z = Front!syncUser(n, j, t)
  OBVIOUS
<1>7. /\ z \in Worlds /\ Fits(z.ui, j, t)
      /\ \A i \in Instance \ {j} : Keeps(ui, z.ui, i)
  BY <1>2, <1>5, <1>6, SyncUser
<1>8. Front!Done(z)
  <2>1. Front!syncUser(Front!Now, Head(updates).of, Head(updates).state) = z
    BY <1>1, <1>4, <1>6
  <2> QED
    BY <2>1 DEF Front!ReadUpdate, Front!Done, updates
<1>9. /\ UNCHANGED <<access, starting, joined, lost>>
      /\ shown' \in [Instance -> Front!GettingState]
  <2>1. shown' = [shown EXCEPT ![j] = t]
    BY <1>1, <1>4 DEF Front!ReadUpdate, updates, shown
  <2>2. shown \in [Instance -> Front!GettingState]
    BY DEF UiInv, Front!TypeOK, shown
  <2>3. shown' \in [Instance -> Front!GettingState]
    BY <1>5, <2>1, <2>2
  <2>4. UNCHANGED <<access, starting, joined, lost>>
    BY DEF Front!ReadUpdate, Front!coreVars, access, starting, joined, lost
  <2> QED
    BY <2>3, <2>4
<1>10. ASSUME NEW i \in Instance, NEW s \in Front!GettingState
       PROVE  Heeds(m, ui, z.ui, i, s)
  <2>1. CASE i = j
    <3>1. Full(m, i) /\ (Claims(m, i, s) => s = t)
      BY <1>3, <1>4, <2>1 DEF Full, Claims
    <3> QED
      BY <1>7, <2>1, <3>1 DEF Heeds
  <2>2. CASE i # j
    <3>1. ~Full(m, i) /\ ~About(m, i)
      BY <1>3, <1>4, <2>2 DEF Full, About
    <3> QED
      BY <1>7, <2>2, <3>1 DEF Heeds, Keeps
  <2> QED
    BY <2>1, <2>2
<1> QED
  BY <1>1, <1>3, <1>7, <1>8, <1>9, <1>10, ReadOnly

LEMMA FulfilledWorld ==
  ASSUME NEW n \in Worlds, NEW j \in Instance, NEW mode \in {"NONE", "IN_APP"}, NEW z,
         z = Front!Fulfilled(n, j, mode)
  PROVE  /\ z \in Worlds /\ z.ui.gettingFrom = j
         /\ z.ui.trying = n.ui.trying /\ z.ui.disconnected = n.ui.disconnected
<1>1. PICK x : x = IF n.ui.gettingFrom \notin {None, j}
                     THEN Front!Sends(n, Front!Stop(n.ui.gettingFrom)) ELSE n
  OBVIOUS
<1>2. x \in Worlds /\ x.ui = n.ui
  <2>1. n.ui.gettingFrom # None => n.ui.gettingFrom \in Instance
    BY DEF Worlds, UiFields
  <2> QED
    BY <1>1, <2>1, SendsAreWorlds
<1>3. PICK u : u = [x.ui EXCEPT !.mode = mode]
  OBVIOUS
<1>4. u \in UiFields /\ u.trying = n.ui.trying /\ u.disconnected = n.ui.disconnected
  BY <1>2, <1>3 DEF Worlds, UiFields
<1>5. PICK a : a = [x EXCEPT !.ui = u]
  OBVIOUS
<1>6. a \in Worlds /\ a.ui = u /\ a.proxy = x.proxy /\ a.out = x.out
  BY <1>2, <1>4, <1>5 DEF Worlds
<1>7. [x EXCEPT !.ui.mode = mode] = a
  BY <1>2, <1>3, <1>5 DEF Worlds
<1>8. z = Front!startGettingInUiAndConfig(a, j, mode)
  BY <1>1, <1>7 DEF Front!Fulfilled
<1>9. PICK v : v = [u EXCEPT !.gettingFrom = j]
  OBVIOUS
<1>10. v \in UiFields /\ v.gettingFrom = j /\ v.trying = u.trying /\ v.disconnected = u.disconnected
  BY <1>4, <1>9 DEF UiFields
<1>11. PICK y : y = [a EXCEPT !.ui = v]
  OBVIOUS
<1>12. y \in Worlds /\ y.ui = v /\ y.proxy = x.proxy /\ y.out = x.out
  BY <1>6, <1>10, <1>11 DEF Worlds
<1>13. [a EXCEPT !.ui.gettingFrom = j] = y
  BY <1>6, <1>9, <1>11 DEF Worlds
<1>14. PICK p, q : q = y.proxy /\ p = Front!startUsingProxy(q, j)
  OBVIOUS
<1>15. p \in ProxyFields
  <2>1. q \in ProxyFields
    BY <1>12, <1>14 DEF Worlds
  <2>2. Append(q.reading, j) \in Seq(Instance)
    BY <2>1 DEF ProxyFields
  <2>3. \/ p = [q EXCEPT !.running = TRUE, !.reading = Append(q.reading, j)]
        \/ p = [q EXCEPT !.running = TRUE, !.setting = j]
    BY <1>14 DEF Front!startUsingProxy
  <2> QED
    BY <2>1, <2>2, <2>3 DEF ProxyFields
<1>16. z = y \/ z = [y EXCEPT !.proxy = p]
  BY <1>8, <1>13, <1>14 DEF Front!startGettingInUiAndConfig
<1>17. z \in Worlds /\ z.ui = v
  BY <1>12, <1>15, <1>16 DEF Worlds
<1> QED
  BY <1>4, <1>10, <1>17

LEMMA UiReadsAnswer ==
  ASSUME UiInv, Front!ReadAnswer
  PROVE  UiInv'
<1>1. PICK n, m : n = Front!Now /\ m = Head(updates)
  OBVIOUS
<1>2. n \in Worlds /\ n.ui = ui
  BY <1>1, NowIsAWorld DEF UiInv
<1>3. /\ updates # <<>> /\ updates' = Tail(updates)
      /\ m.type \in {"fulfilled", "rejected"} /\ m \in Front!Update
  BY <1>1 DEF Front!ReadAnswer, updates, UiInv, Front!TypeOK
<1>4. PICK j, mode : j = m.of /\ mode = m.mode
  OBVIOUS
<1>5. j \in Instance /\ mode \in {"NONE", "IN_APP"}
  BY <1>3, <1>4, UpdateTypes
<1>6. PICK z : z = IF m.type = "fulfilled" THEN Front!Fulfilled(n, j, mode) ELSE n
  OBVIOUS
<1>7. /\ z \in Worlds
      /\ z.ui.trying = ui.trying /\ z.ui.disconnected = ui.disconnected
      /\ IF m.type = "fulfilled" THEN z.ui.gettingFrom = j ELSE z.ui = ui
  BY <1>2, <1>5, <1>6, FulfilledWorld
<1>8. Front!Done(z)
  <2>1. (IF Head(updates).type = "fulfilled"
          THEN Front!Fulfilled(Front!Now, Head(updates).of, Head(updates).mode) ELSE Front!Now) = z
    BY <1>1, <1>4, <1>6
  <2> QED
    BY <2>1 DEF Front!ReadAnswer, Front!Done, updates
<1>9. /\ UNCHANGED <<access, starting, joined, lost>>
      /\ shown' \in [Instance -> Front!GettingState]
  BY DEF Front!ReadAnswer, Front!coreVars, UiInv, Front!TypeOK, access, starting, joined, lost, shown
<1>10. ASSUME NEW i \in Instance, NEW s \in Front!GettingState
       PROVE  Heeds(m, ui, z.ui, i, s)
  <2>1. ~Full(m, i)
    BY <1>3 DEF Full
  <2>2. CASE About(m, i)
    <3>1. Claims(m, i, s) => s = "GETTING_ACCESS"
      BY <1>3 DEF Claims
    <3> QED
      BY <1>7, <2>1, <2>2, <3>1 DEF Heeds, AccessFits
  <2>3. CASE ~About(m, i)
    <3>1. m.type = "fulfilled" => i # j
      BY <1>4, <2>3 DEF About
    <3> QED
      BY <1>7, <2>1, <2>3, <3>1 DEF Heeds
  <2> QED
    BY <2>2, <2>3
<1> QED
  BY <1>1, <1>3, <1>7, <1>8, <1>9, <1>10, ReadOnly

LEMMA UiReadsFullState ==
  ASSUME UiInv, Front!ReadFullState
  PROVE  UiInv'
<1>1. PICK n, m : n = Front!Now /\ m = Head(updates)
  OBVIOUS
<1>2. n \in Worlds /\ n.ui = ui
  BY <1>1, NowIsAWorld DEF UiInv
<1>3. /\ updates # <<>> /\ updates' = Tail(updates)
      /\ m.type = "fullState" /\ m \in Front!Update
  BY <1>1 DEF Front!ReadFullState, updates, UiInv, Front!TypeOK
<1>4. PICK R, states : R = m.roster /\ states = m.states
  OBVIOUS
<1>5. R \in SUBSET Instance /\ states \in [Instance -> Front!GettingState]
  BY <1>3, <1>4, UpdateTypes
<1>6. PICK z : z = Front!SyncAll(n, R, states)
  OBVIOUS
<1>7. Synced(n, z, R, states)
  BY <1>2, <1>5, <1>6, SyncAll
<1>8. Front!Done(z)
  <2>1. Front!SyncAll(Front!Now, Head(updates).roster, Head(updates).states) = z
    BY <1>1, <1>4, <1>6
  <2> QED
    BY <2>1 DEF Front!ReadFullState, Front!Done, updates
<1>9. /\ UNCHANGED <<access, starting, joined, lost>>
      /\ shown' \in [Instance -> Front!GettingState]
  <2>1. shown' = [i \in Instance |-> IF i \in R THEN states[i] ELSE "NONE"]
    BY <1>1, <1>4 DEF Front!ReadFullState, updates, shown
  <2> QED
    BY <1>5, <2>1 DEF Front!ReadFullState, Front!coreVars, UiInv, Front!GettingState,
       access, starting, joined, lost, shown
<1>10. ASSUME NEW i \in Instance, NEW s \in Front!GettingState
       PROVE  Heeds(m, ui, z.ui, i, s)
  <2>1. CASE i \in R
    <3>1. Full(m, i) /\ (Claims(m, i, s) => s = states[i])
      BY <1>3, <1>4, <2>1 DEF Full, Claims
    <3>2. Fits(z.ui, i, states[i])
      BY <1>7, <2>1 DEF Synced
    <3> QED
      BY <3>1, <3>2 DEF Heeds
  <2>2. CASE i \notin R
    <3>1. ~Full(m, i) /\ ~About(m, i)
      BY <1>3, <1>4, <2>2 DEF Full, About
    <3> QED
      BY <1>2, <1>7, <2>2, <3>1 DEF Heeds, Synced, Keeps
  <2> QED
    BY <2>1, <2>2
<1>11. z \in Worlds
  BY <1>7 DEF Synced
<1> QED
  BY <1>1, <1>3, <1>8, <1>9, <1>10, <1>11, ReadOnly

(* What the core says: of each instance it says nothing and leaves it, or it   *)
(* says how it is now.                                                         *)
LEMMA CoreSays ==
  ASSUME UiInv, NEW C \in Seq(Front!Update), updates' = updates \o C,
         UNCHANGED <<ui, shown, proxy, joined, queue_, lost>>, toCore' \in Seq(Front!Command),
         access' \in [Instance -> Front!GettingState],
         starting' \in [Instance -> {"NONE", "IN_APP"} \cup {None}],
         \A i \in Instance : lost # "core" =>
           \/ /\ Asked => Asked'
              /\ access'[i] = access[i]
              /\ \A k \in 1..Len(C) : ~About(C[k], i)
           \/ /\ C # <<>> /\ Full(C[1], i)
              /\ \A k \in 1..Len(C) : About(C[k], i) => Claims(C[k], i, access'[i])
  PROVE  UiInv'
<1>1. updates \in Seq(Front!Update)
  BY DEF UiInv, Front!TypeOK, updates
<1>2. PICK B : B = updates
  OBVIOUS
<1>3. B \in Seq(Front!Update) /\ updates' = B \o C /\ updates' \in Seq(Front!Update)
  <2>1. \A S : \A a, b \in Seq(S) : a \o b \in Seq(S)
    OBVIOUS
  <2> QED
    BY <1>1, <1>2, <2>1
<1>4. Front!TypeOK'
  BY <1>3 DEF UiInv, Front!TypeOK, Front!AccessMode,
     access, starting, ui, shown, proxy, joined, queue_, toCore, updates, lost
<1>5. Followed'
  <2> SUFFICES ASSUME lost # "core", joined, ~Asked', NEW i \in Instance
               PROVE  Follows(updates', ui', i, access'[i])
    BY DEF Followed
  <2>1. PICK u, s, t : u = ui /\ s = access[i] /\ t = access'[i]
    OBVIOUS
  <2>2. ASSUME Asked => Asked', access'[i] = access[i], \A k \in 1..Len(C) : ~About(C[k], i)
        PROVE  Follows(updates', ui', i, access'[i])
    <3>1. Follows(B, u, i, s)
      BY <1>2, <2>1, <2>2 DEF UiInv, Followed
    <3>2. Follows(B \o C, u, i, s)
      BY <1>3, <2>2, <3>1, Appended
    <3> QED
      BY <1>3, <2>1, <2>2, <3>2
  <2>3. ASSUME C # <<>>, Full(C[1], i), \A k \in 1..Len(C) : About(C[k], i) => Claims(C[k], i, t)
        PROVE  Follows(updates', ui', i, access'[i])
    <3>1. Follows(B \o C, u, i, t)
      BY <1>3, <2>3, ToldOf
    <3> QED
      BY <1>3, <2>1, <3>1
  <2> QED
    BY <2>1, <2>2, <2>3
<1> QED
  BY <1>4, <1>5 DEF UiInv

(* Reading a command that is not the question leaves the question there.       *)
LEMMA ReadsOn ==
  ASSUME UiInv, toCore # <<>>, toCore' = Tail(toCore)
  PROVE  /\ toCore' \in Seq(Front!Command) /\ Head(toCore) \in Front!Command
         /\ Head(toCore).type # "getFullState" => (Asked => Asked')
<1>1. PICK B : B = toCore
  OBVIOUS
<1>2. B \in Seq(Front!Command) /\ B # <<>>
  BY <1>1 DEF UiInv, Front!TypeOK, toCore
<1>3. Tail(B) \in Seq(Front!Command) /\ Head(B) \in Front!Command
  BY <1>2
<1>4. ASSUME Head(B).type # "getFullState", Asked
      PROVE  Asked'
  <2>1. PICK k \in 1..Len(B) : B[k].type = "getFullState"
    BY <1>1, <1>4 DEF Asked
  <2>2. k # 1
    BY <1>2, <1>4, <2>1
  <2>3. k - 1 \in 1..Len(Tail(B)) /\ Tail(B)[k - 1] = B[k]
    <3>1. Len(B) \in Nat /\ Len(Tail(B)) = Len(B) - 1
      BY <1>2
    <3>2. k - 1 \in 1..Len(Tail(B)) /\ (k - 1) + 1 = k
      BY <2>1, <2>2, <3>1
    <3> QED
      BY <1>2, <3>2
  <2>4. toCore' = Tail(B)
    BY <1>1
  <2> QED
    BY <2>1, <2>3, <2>4 DEF Asked
<1> QED
  BY <1>1, <1>3, <1>4

LEMMA CommandTypes ==
  ASSUME NEW c \in Front!Command, c.type \in {"start", "stop"}
  PROVE  c.of \in Instance /\ c.mode \in {"NONE", "IN_APP"}
BY DEF Front!Command, Front!AccessMode

LEMMA UserIsUpdate ==
  ASSUME NEW i \in Instance, NEW s \in Front!GettingState, NEW m, m = Front!User(i, s)
  PROVE  /\ m \in Front!Update
         /\ Full(m, i) /\ Claims(m, i, s)
         /\ \A j \in Instance \ {i} : ~About(m, j)
BY DEF Front!User, Front!Update, Full, Claims, About

LEMMA OneSaid ==
  ASSUME NEW m \in Front!Update
  PROVE  /\ <<m>> \in Seq(Front!Update) /\ <<m>> # <<>>
         /\ <<m>>[1] = m /\ \A k \in 1..Len(<<m>>) : <<m>>[k] = m
OBVIOUS

LEMMA Joining ==
  ASSUME NEW S, NEW a \in Seq(S), NEW b \in Seq(S)
  PROVE  /\ Len(a \o b) = Len(a) + Len(b) /\ a \o b \in Seq(S)
         /\ \A k \in 1..(Len(a) + Len(b)) : (a \o b)[k] = IF k <= Len(a) THEN a[k] ELSE b[k - Len(a)]
OBVIOUS

LEMMA TwoSaid ==
  ASSUME NEW m \in Front!Update, NEW n \in Front!Update
  PROVE  /\ <<m>> \o <<n>> \in Seq(Front!Update) /\ <<m>> \o <<n>> # <<>>
         /\ (<<m>> \o <<n>>)[1] = m
         /\ \A k \in 1..Len(<<m>> \o <<n>>) : (<<m>> \o <<n>>)[k] \in {m, n}
<1>1. PICK a, b : a = <<m>> /\ b = <<n>>
  OBVIOUS
<1>2. /\ a \in Seq(Front!Update) /\ b \in Seq(Front!Update)
      /\ Len(a) = 1 /\ Len(b) = 1 /\ a[1] = m /\ b[1] = n
  BY <1>1
<1>3. Len(a \o b) = Len(a) + Len(b) /\ a \o b \in Seq(Front!Update)
  BY <1>2, Joining
<1>4. \A k \in 1..(Len(a) + Len(b)) : (a \o b)[k] = IF k <= Len(a) THEN a[k] ELSE b[k - Len(a)]
  BY <1>2, Joining
<1>5. (a \o b)[1] = m /\ (a \o b)[2] = n /\ Len(a \o b) = 2
  BY <1>2, <1>3, <1>4
<1>6. a \o b # <<>>
  BY <1>5
<1>7. \A k \in 1..Len(a \o b) : (a \o b)[k] \in {m, n}
  <2>1. \A k \in 1..2 : k = 1 \/ k = 2
    OBVIOUS
  <2> QED
    BY <1>5, <2>1
<1> QED
  BY <1>1, <1>3, <1>5, <1>6, <1>7

(* A change of one instance, with the answer that goes with it. *)
LEMMA ChangeIsSaid ==
  ASSUME UiInv, NEW i \in Instance, NEW s \in Front!GettingState, NEW A,
         \/ A = <<>>
         \/ \E t \in {"fulfilled", "rejected"}, mode \in {"NONE", "IN_APP"} :
              /\ A = <<[type |-> t, of |-> i, mode |-> mode]>>
              /\ t = "fulfilled" => s = "GETTING_ACCESS",
         updates' = updates \o (<<Front!User(i, s)>> \o A),
         UNCHANGED <<ui, shown, proxy, joined, queue_, lost>>, toCore' \in Seq(Front!Command),
         Asked => Asked',
         access' = [access EXCEPT ![i] = s],
         starting' \in [Instance -> {"NONE", "IN_APP"} \cup {None}]
  PROVE  UiInv'
<1>1. PICK m : m = Front!User(i, s)
  OBVIOUS
<1>2. /\ m \in Front!Update /\ Full(m, i) /\ Claims(m, i, s)
      /\ \A j \in Instance \ {i} : ~About(m, j)
  BY <1>1, UserIsUpdate
<1>3. PICK C : C = <<m>> \o A
  OBVIOUS
<1>4. /\ C \in Seq(Front!Update) /\ C # <<>> /\ C[1] = m
      /\ \A k \in 1..Len(C) : /\ About(C[k], i) => Claims(C[k], i, s)
                              /\ \A j \in Instance \ {i} : ~About(C[k], j)
  <2>1. CASE A = <<>>
    <3>1. C = <<m>>
      BY <1>2, <1>3, <2>1
    <3> QED
      BY <1>2, <3>1, OneSaid
  <2>2. CASE A # <<>>
    <3>1. PICK t \in {"fulfilled", "rejected"}, mode \in {"NONE", "IN_APP"} :
             /\ A = <<[type |-> t, of |-> i, mode |-> mode]>>
             /\ t = "fulfilled" => s = "GETTING_ACCESS"
      BY <2>2
    <3>2. PICK a : a = [type |-> t, of |-> i, mode |-> mode]
      OBVIOUS
    <3>3. /\ a \in Front!Update /\ (About(a, i) => Claims(a, i, s))
          /\ \A j \in Instance \ {i} : ~About(a, j)
      BY <3>1, <3>2 DEF Front!Update, Front!AccessMode, About, Claims
    <3>4. C = <<m>> \o <<a>>
      BY <1>3, <3>1, <3>2
    <3> QED
      BY <1>2, <3>3, <3>4, TwoSaid
  <2> QED
    BY <2>1, <2>2
<1>5. access \in [Instance -> Front!GettingState]
  BY DEF UiInv, Front!TypeOK, access
<1>6. /\ access' \in [Instance -> Front!GettingState] /\ access'[i] = s
      /\ \A j \in Instance \ {i} : access'[j] = access[j]
  BY <1>5
<1>7. updates' = updates \o C
  BY <1>1, <1>3
<1>8. ASSUME NEW j \in Instance
      PROVE  \/ /\ Asked => Asked'
                /\ access'[j] = access[j]
                /\ \A k \in 1..Len(C) : ~About(C[k], j)
             \/ /\ C # <<>> /\ Full(C[1], j)
                /\ \A k \in 1..Len(C) : About(C[k], j) => Claims(C[k], j, access'[j])
  <2>1. CASE j = i
    BY <1>2, <1>4, <1>6, <2>1
  <2>2. CASE j # i
    BY <1>4, <1>6, <2>2
  <2> QED
    BY <2>1, <2>2
<1> QED
  BY <1>4, <1>6, <1>7, <1>8, CoreSays

LEMMA UiReadStart ==
  ASSUME UiInv, Front!ReadStart
  PROVE  UiInv'
<1>1. PICK c : c = Head(toCore)
  OBVIOUS
<1>2. toCore # <<>> /\ toCore' = Tail(toCore) /\ c.type = "start"
  BY <1>1 DEF Front!ReadStart, toCore
<1>3. toCore' \in Seq(Front!Command) /\ c \in Front!Command /\ (Asked => Asked')
  BY <1>1, <1>2, ReadsOn
<1>4. PICK j, mode : j = c.of /\ mode = c.mode
  OBVIOUS
<1>5. j \in Instance /\ mode \in {"NONE", "IN_APP"}
  BY <1>2, <1>3, <1>4, CommandTypes
<1>6. UNCHANGED <<ui, shown, proxy, joined, queue_, lost>>
  BY DEF Front!ReadStart, Front!linkVars, ui, shown, proxy, joined, queue_, lost
<1>7. /\ access \in [Instance -> Front!GettingState]
      /\ starting \in [Instance -> {"NONE", "IN_APP"} \cup {None}]
  BY DEF UiInv, Front!TypeOK, Front!AccessMode, access, starting
<1>8. CASE access[j] \in {"NONE", "FAILED"} /\ starting[j] = None
  <2>1. PICK s : s = IF access[j] = "NONE" THEN "TRYING_TO_GET_ACCESS" ELSE "RETRYING"
    OBVIOUS
  <2>2. s \in Front!GettingState
    BY <2>1 DEF Front!GettingState
  <2>3. /\ access' = [access EXCEPT ![j] = s]
        /\ starting' = [starting EXCEPT ![j] = mode]
        /\ updates' = updates \o <<Front!User(j, s)>>
    BY <1>1, <1>4, <1>8, <2>1 DEF Front!ReadStart, Front!Tells, toCore, access, starting, updates
  <2>4. starting' \in [Instance -> {"NONE", "IN_APP"} \cup {None}]
    BY <1>5, <1>7, <2>3
  <2>5. <<Front!User(j, s)>> = <<Front!User(j, s)>> \o <<>>
    OBVIOUS
  <2>6. PICK A : A = <<>>
    OBVIOUS
  <2>7. updates' = updates \o (<<Front!User(j, s)>> \o A)
    BY <2>3, <2>5, <2>6
  <2> QED
    BY <1>3, <1>5, <1>6, <2>2, <2>3, <2>4, <2>6, <2>7, ChangeIsSaid
<1>9. CASE ~(access[j] \in {"NONE", "FAILED"} /\ starting[j] = None)
  <2>1. PICK m : m = [type |-> "rejected", of |-> j, mode |-> mode]
    OBVIOUS
  <2>2. m \in Front!Update /\ \A i \in Instance : ~About(m, i)
    BY <1>5, <2>1 DEF Front!Update, Front!AccessMode, About
  <2>3. UNCHANGED <<access, starting>> /\ updates' = updates \o <<m>>
    BY <1>1, <1>4, <1>9, <2>1 DEF Front!ReadStart, Front!Tells, Front!coreVars, toCore, access, starting, updates
  <2>4. PICK C : C = <<m>>
    OBVIOUS
  <2>5. /\ C \in Seq(Front!Update) /\ updates' = updates \o C
        /\ \A i \in Instance : \A k \in 1..Len(C) : ~About(C[k], i)
    BY <2>2, <2>3, <2>4, OneSaid
  <2> QED
    BY <1>3, <1>6, <1>7, <2>3, <2>5, CoreSays
<1> QED
  BY <1>8, <1>9

LEMMA UiReadStop ==
  ASSUME UiInv, Front!ReadStop
  PROVE  UiInv'
<1>1. PICK c : c = Head(toCore)
  OBVIOUS
<1>2. toCore # <<>> /\ toCore' = Tail(toCore) /\ c.type = "stop"
  BY <1>1 DEF Front!ReadStop, toCore
<1>3. toCore' \in Seq(Front!Command) /\ c \in Front!Command /\ (Asked => Asked')
  BY <1>1, <1>2, ReadsOn
<1>4. PICK j : j = c.of
  OBVIOUS
<1>5. j \in Instance
  BY <1>2, <1>3, <1>4, CommandTypes
<1>6. UNCHANGED <<ui, shown, proxy, joined, queue_, lost>>
  BY DEF Front!ReadStop, Front!linkVars, ui, shown, proxy, joined, queue_, lost
<1>7. /\ access \in [Instance -> Front!GettingState]
      /\ starting \in [Instance -> {"NONE", "IN_APP"} \cup {None}]
  BY DEF UiInv, Front!TypeOK, Front!AccessMode, access, starting
<1>8. CASE access[j] = "NONE"
  <2>1. UNCHANGED <<access, starting, updates>>
    BY <1>1, <1>4, <1>8 DEF Front!ReadStop, Front!coreVars, toCore, access, starting, updates
  <2>2. PICK C : C = <<>>
    OBVIOUS
  <2>3. C \in Seq(Front!Update) /\ Len(C) = 0 /\ updates' = updates \o C
    <3>1. updates \in Seq(Front!Update)
      BY DEF UiInv, Front!TypeOK, updates
    <3>2. updates \o <<>> = updates
      BY <3>1
    <3>3. <<>> \in Seq(Front!Update) /\ Len(<<>>) = 0
      OBVIOUS
    <3> QED
      BY <2>1, <2>2, <3>2, <3>3
  <2>4. \A i \in Instance : \A k \in 1..Len(C) : ~About(C[k], i)
    BY <2>3
  <2> QED
    BY <1>3, <1>6, <1>7, <2>1, <2>3, <2>4, CoreSays
<1>9. CASE access[j] # "NONE"
  <2>1. /\ access' = [access EXCEPT ![j] = "NONE"] /\ starting' = starting
        /\ updates' = updates \o (<<Front!User(j, "NONE")>> \o <<>>)
    BY <1>1, <1>4, <1>9 DEF Front!ReadStop, Front!Changes, Front!Tells, toCore, access, starting, updates
  <2>2. PICK s, A : s = "NONE" /\ A = <<>>
    OBVIOUS
  <2>3. s \in Front!GettingState
    BY <2>2 DEF Front!GettingState
  <2> QED
    BY <1>3, <1>5, <1>6, <1>7, <2>1, <2>2, <2>3, ChangeIsSaid
<1> QED
  BY <1>8, <1>9

LEMMA UiReadGetFullState ==
  ASSUME UiInv, Front!ReadGetFullState
  PROVE  UiInv'
<1>1. toCore # <<>> /\ toCore' = Tail(toCore)
  BY DEF Front!ReadGetFullState, toCore
<1>2. toCore' \in Seq(Front!Command)
  BY <1>1, ReadsOn
<1>3. UNCHANGED <<access, starting, ui, shown, proxy, joined, queue_, lost>>
  BY DEF Front!ReadGetFullState, Front!coreVars, Front!linkVars, access, starting,
     ui, shown, proxy, joined, queue_, lost
<1>4. /\ access \in [Instance -> Front!GettingState]
      /\ starting \in [Instance -> {"NONE", "IN_APP"} \cup {None}]
  BY DEF UiInv, Front!TypeOK, Front!AccessMode, access, starting
<1>5. PICK r \in {{}, Instance} :
        /\ r = {} => lost = "core"  /\ \A i \in Instance : access[i] = "NONE"
        /\ updates' = updates \o <<[type |-> "fullState", states |-> access, roster |-> r]>>
  BY DEF Front!ReadGetFullState, Front!Tells, lost, updates, access
<1>6. PICK st : st = access
  OBVIOUS
<1>7. PICK m : m = [type |-> "fullState", states |-> st, roster |-> r]
  OBVIOUS
<1>8. m \in Front!Update
  BY <1>4, <1>5, <1>6, <1>7 DEF Front!Update
<1>9. PICK C : C = <<m>>
  OBVIOUS
<1>10. C \in Seq(Front!Update) /\ C # <<>> /\ C[1] = m /\ \A k \in 1..Len(C) : C[k] = m
  BY <1>8, <1>9, OneSaid
<1>11. updates' = updates \o C
  BY <1>5, <1>6, <1>7, <1>9
<1>12. ASSUME NEW i \in Instance, lost # "core"
       PROVE  Full(m, i) /\ Claims(m, i, access'[i])
  <2>1. r = Instance
    BY <1>5, <1>12
  <2> QED
    BY <1>3, <1>6, <1>7, <1>12, <2>1 DEF Full, Claims
<1> QED
  BY <1>2, <1>3, <1>4, <1>10, <1>11, <1>12, CoreSays

LEMMA UiCoreStep ==
  ASSUME UiInv, NEW i \in Instance, Front!CoreStep(i)
  PROVE  UiInv'
<1>1. UNCHANGED <<ui, shown, proxy, joined, queue_, lost, toCore>>
  BY DEF Front!CoreStep, Front!linkVars, ui, shown, proxy, joined, queue_, lost, toCore
<1>2. toCore' \in Seq(Front!Command) /\ (Asked => Asked')
  BY <1>1 DEF UiInv, Front!TypeOK, toCore, Asked
<1>3. starting \in [Instance -> {"NONE", "IN_APP"} \cup {None}]
  BY DEF UiInv, Front!TypeOK, Front!AccessMode, starting
<1>4. PICK s, A :
        /\ s \in Front!GettingState
        /\ A = <<>> \/ (A = Front!Answer(i, "fulfilled") /\ s = "GETTING_ACCESS") \/ A = Front!Answer(i, "rejected")
        /\ access' = [access EXCEPT ![i] = s]
        /\ updates' = updates \o (<<Front!User(i, s)>> \o A)
        /\ starting' = IF A = <<>> THEN starting ELSE [starting EXCEPT ![i] = None]
  <2>1. \E s \in Front!GettingState, A \in {<<>>, Front!Answer(i, "fulfilled"), Front!Answer(i, "rejected")} :
          /\ A = Front!Answer(i, "fulfilled") /\ A # <<>> /\ A # Front!Answer(i, "rejected") => s = "GETTING_ACCESS"
          /\ Front!Changes(i, s, A)
    BY DEF Front!CoreStep, Front!GettingState
  <2> QED
    BY <2>1 DEF Front!Changes, Front!Tells, access, updates, starting
<1>5. starting' \in [Instance -> {"NONE", "IN_APP"} \cup {None}]
  BY <1>3, <1>4
<1>6. \/ A = <<>>
      \/ \E t \in {"fulfilled", "rejected"}, mode \in {"NONE", "IN_APP"} :
           /\ A = <<[type |-> t, of |-> i, mode |-> mode]>>
           /\ t = "fulfilled" => s = "GETTING_ACCESS"
  <2>1. starting[i] = None \/ starting[i] \in {"NONE", "IN_APP"}
    BY <1>3
  <2> QED
    BY <1>4, <2>1 DEF Front!Answer, starting
<1> QED
  BY <1>1, <1>2, <1>4, <1>5, <1>6, ChangeIsSaid

LEMMA UiDisconnects ==
  ASSUME UiInv, Front!Disconnect
  PROVE  UiInv'
<1>1. PICK n : n = Front!Now
  OBVIOUS
<1>2. n \in Worlds /\ n.ui = ui /\ n.proxy = proxy
  BY <1>1, NowIsAWorld DEF UiInv
<1>3. PICK z : z = IF ui.gettingFrom # None THEN Front!stoppedGetting(n, None, TRUE) ELSE n
  OBVIOUS
<1>4. ui' = z.ui /\ proxy' = z.proxy
  BY <1>1, <1>3 DEF Front!Disconnect, ui, proxy
<1>5. z.ui \in UiFields /\ z.proxy \in ProxyFields
  <2>1. z = n \/ z = [n EXCEPT !.ui.gettingFrom = None]
    BY <1>3 DEF Front!stoppedGetting
  <2>2. n.ui \in UiFields /\ n.proxy \in ProxyFields
    BY <1>2 DEF Worlds
  <2>3. CASE z = [n EXCEPT !.ui.gettingFrom = None]
    <3>1. PICK u : u = [n.ui EXCEPT !.gettingFrom = None]
      OBVIOUS
    <3>2. u \in UiFields
      BY <2>2, <3>1 DEF UiFields
    <3>3. z = [n EXCEPT !.ui = u]
      BY <2>3, <3>1
    <3> QED
      BY <1>2, <2>2, <3>2, <3>3 DEF Worlds
  <2> QED
    BY <2>1, <2>2, <2>3
<1>6. /\ joined' = FALSE /\ lost' \in {"port", "core"} /\ toCore' = <<>> /\ updates' = <<>>
      /\ access' = access \/ access' = [i \in Instance |-> "NONE"]
      /\ starting' = [i \in Instance |-> None] /\ UNCHANGED <<queue_, shown>>
  BY DEF Front!Disconnect, joined, lost, toCore, updates, access, starting, queue_, shown
<1>7. /\ access' \in [Instance -> Front!GettingState]
      /\ starting' \in [Instance -> {"NONE", "IN_APP"} \cup {None}]
  BY <1>6 DEF UiInv, Front!TypeOK, Front!GettingState, access
<1>8. toCore' \in Seq(Front!Command) /\ updates' \in Seq(Front!Update)
  BY <1>6
<1>9. ui' \in UiFields /\ proxy' \in ProxyFields
  BY <1>4, <1>5
<1>10. Front!TypeOK'
  BY <1>6, <1>7, <1>8, <1>9 DEF UiInv, Front!TypeOK, Front!AccessMode, UiFields, ProxyFields,
     access, starting, ui, shown, proxy, joined, queue_, toCore, updates, lost
<1>11. Followed'
  BY <1>6 DEF Followed
<1> QED
  BY <1>10, <1>11 DEF UiInv

LEMMA UiConnects ==
  ASSUME UiInv, Front!Connect
  PROVE  UiInv'
<1>1. PICK Q, c : Q = queue_ /\ c = [type |-> "getFullState"]
  OBVIOUS
<1>2. Q \in Seq(Front!Command) /\ c \in Front!Command
  BY <1>1 DEF UiInv, Front!TypeOK, queue_, Front!Command
<1>3. /\ toCore' = Append(Q, c) /\ queue_' = <<>> /\ joined' = TRUE
      /\ UNCHANGED <<access, starting, ui, shown, proxy, lost, updates>>
  BY <1>1 DEF Front!Connect, Front!coreVars, toCore, queue_, joined, access, starting, ui, shown, proxy, lost, updates
<1>4. toCore' \in Seq(Front!Command) /\ queue_' \in Seq(Front!Command)
  BY <1>2, <1>3
<1>5. Front!TypeOK'
  BY <1>3, <1>4 DEF UiInv, Front!TypeOK,
     access, starting, ui, shown, proxy, joined, queue_, toCore, updates, lost
<1>6. Asked'
  <2>1. Len(Q) + 1 \in 1..Len(Append(Q, c)) /\ Append(Q, c)[Len(Q) + 1] = c
    BY <1>2
  <2> QED
    BY <1>1, <1>3, <2>1 DEF Asked
<1>7. Followed'
  BY <1>6 DEF Followed
<1> QED
  BY <1>5, <1>7 DEF UiInv

LEMMA UiInvInit ==
  ASSUME Front!Init
  PROVE  UiInv
<1>1. /\ access = [i \in Instance |-> "NONE"] /\ starting = [i \in Instance |-> None]
      /\ ui = [gettingFrom |-> None, trying |-> None, disconnected |-> None, mode |-> "NONE"]
      /\ shown = [i \in Instance |-> "NONE"]
      /\ proxy = [running |-> FALSE, setting |-> None, reading |-> <<>>]
      /\ joined = TRUE /\ queue_ = <<>> /\ toCore = <<>> /\ updates = <<>>
      /\ lost = "no"
  BY DEF Front!Init, access, starting, ui, shown, proxy, joined, queue_, toCore, updates, lost
<1>2. <<>> \in Seq(Front!Command) /\ <<>> \in Seq(Front!Update) /\ <<>> \in Seq(Instance) /\ Len(<<>>) = 0
  OBVIOUS
<1>3. Front!TypeOK
  BY <1>1, <1>2 DEF Front!TypeOK, Front!GettingState, Front!AccessMode,
     access, starting, ui, shown, proxy, joined, queue_, toCore, updates, lost
<1>4. ASSUME NEW i \in Instance
      PROVE  Follows(updates, ui, i, access[i])
  <2>1. ui.disconnected # i /\ ui.trying # i /\ ui.gettingFrom # i
    BY <1>1, UiAssumption
  <2> QED
    BY <1>1, <1>2, <2>1 DEF Follows, AccessFits, DialogsFit
<1>5. Followed
  BY <1>4 DEF Followed
<1> QED
  BY <1>3, <1>5 DEF UiInv

LEMMA UiStep ==
  ASSUME UiInv, [Front!Next]_(Front!vars)
  PROVE  UiInv'
<1>1. CASE UNCHANGED Front!vars
  <2>1. UNCHANGED <<access, starting, ui, shown, proxy, joined, queue_, lost, toCore, updates>>
    BY <1>1 DEF Front!vars, Front!coreVars, Front!linkVars, access, starting, ui, shown, proxy, joined,
       queue_, toCore, updates, lost
  <2>2. Asked' <=> Asked
    BY <2>1 DEF Asked
  <2>3. Followed'
    BY <2>1, <2>2 DEF UiInv, Followed
  <2>4. Front!TypeOK'
    BY <2>1 DEF UiInv, Front!TypeOK, access, starting, ui, shown, proxy, joined,
       queue_, toCore, updates, lost
  <2> QED
    BY <2>3, <2>4 DEF UiInv
<1>2. CASE Front!Next
  BY <1>2, UiSettingRead, UiStarts, UiStops, UiCoreStep, UiRestarts, UiReverts, UiLosesProxy,
     UiReadsUpdate, UiReadsAnswer, UiReadsFullState, UiReadStart, UiReadStop, UiReadGetFullState,
     UiDisconnects, UiConnects DEF Front!Next
<1> QED
  BY <1>1, <1>2

LEMMA UiIsShown ==
  ASSUME UiInv
  PROVE  Front!TypeOK /\ Front!ShowsWhatIs
<1> SUFFICES ASSUME Front!Quiet, lost # "core"
             PROVE  /\ ui.disconnected # None => access[ui.disconnected] \in {"FAILED", "RETRYING"}
                    /\ ui.trying # None => access[ui.trying] \in {"TRYING_TO_GET_ACCESS", "RETRYING"}
                    /\ ui.gettingFrom # None => access[ui.gettingFrom] \in {"GETTING_ACCESS", "TRYING_TO_GET_ACCESS"}
  BY DEF Front!ShowsWhatIs, UiInv, lost, ui, access
<1>1. joined /\ toCore = <<>> /\ updates = <<>>
  BY DEF Front!Quiet, joined, toCore, updates
<1>2. Len(<<>>) = 0
  OBVIOUS
<1>3. ~Asked
  BY <1>1, <1>2 DEF Asked
<1>4. \A i \in Instance : Follows(<<>>, ui, i, access[i])
  BY <1>1, <1>3 DEF UiInv, Followed
<1>5. \A i \in Instance : DialogsFit(ui, i, access[i]) /\ AccessFits(ui, i, access[i])
  BY <1>2, <1>4 DEF Follows
<1>6. /\ ui.disconnected # None => ui.disconnected \in Instance
      /\ ui.trying # None => ui.trying \in Instance
      /\ ui.gettingFrom # None => ui.gettingFrom \in Instance
  BY DEF UiInv, Front!TypeOK, ui
<1> QED
  BY <1>5, <1>6 DEF DialogsFit, AccessFits

(* ShowsWhatIs, for every number of instances and whatever is under way.       *)
THEOREM DialogsAreTrue == Spec => []ShowsWhatIs
<1> DEFINE I == part = "ui" => UiInv
<1>1. Init => I
  BY UiInvInit DEF Init
<1>2. I /\ [Next]_vars => I'
  <2> SUFFICES ASSUME I, [Next]_vars, part' = "ui" PROVE UiInv'
    OBVIOUS
  <2>1. part = "ui" /\ [Front!Next]_(Front!vars)
    BY DEF Next, vars, Front!vars, Front!coreVars, Front!linkVars
  <2> QED
    BY <2>1, UiStep
<1>3. I => ShowsWhatIs
  BY UiIsShown DEF ShowsWhatIs
<1> QED
  BY <1>1, <1>2, <1>3, PTL DEF Spec
==============================================================================
