------------------------------- MODULE MCEdges -------------------------------
(* The smaller modules about the two edges of the program: the network, from   *)
(* the bridge to the logging of it, and the user interface.                    *)
(* They are checked in one run: each behaviour is one of one of them, and part *)
(* says of which.  They do not share state, so they share the variables: what  *)
(* v1 stands for in a part is said where its module is instantiated.           *)
EXTENDS Naturals, FiniteSets

CONSTANTS
  None,
  Client, c1,                                         \* Logging
  MaxSignals,                                         \* Bridge
  Interface, Port, Remote, MaxFailures,               \* Pipe
  Channel, Label, Control, LabelsOnce, Maxima, MaxSdp,                    \* Channels
  TargetDelay, BaseInterval, Tracing,                                     \* Aqm
  MaxTime, MaxSends, MaxTraced, MaxLevel,
  Tag, t1, t2, Destination, Buffered, MAX_BUFFERED_LOG, Trimmed,          \* Logging
  Used, MaxChanges, MaxLogs,
  Conn, maxConnections_,                              \* TcpServer
  Candidate, SkipPublicEndpoint, MaxCloses,           \* Churn
  Question, Later, Latest, MaxPanels,                 \* Dialogs
  Instance, MaxToUi, MaxToCore, Slow, Hasty,          \* Ui
  Invite, CloudInvite, MaxLogins, MaxRemovals         \* Invites

ASSUME TableAssumption ==
  /\ None \notin Channel /\ None \notin Label \cup {Control}
  /\ Maxima \subseteq Nat
ASSUME QueueAssumption ==
  /\ {BaseInterval, MaxSends} \subseteq Nat
  /\ {Tracing, MaxTime, MaxLevel} \subseteq Nat \ {0}
ASSUME PipeAssumption == IsFiniteSet(Port) /\ MaxFailures \in Nat
ASSUME ChurnAssumption ==
  SkipPublicEndpoint \in BOOLEAN /\ Candidate \cap {"transformer", "description"} = {}
ASSUME DialogsAssumption ==
  /\ None \notin Question /\ None \notin Question \X Nat
  /\ None \notin Nat \cup {"fulfilled", "rejected"}
  /\ Later \subseteq Nat /\ Latest \in Nat \ {0} /\ MaxPanels \in Nat
ASSUME UiAssumption == IsFiniteSet(Instance) /\ None \notin Instance
ASSUME InvitesAssumption ==
  None \notin Invite /\ Invite \cap {"Cloud", "social"} = {}
ASSUME LogsAssumption ==
  /\ {t1, t2} \subseteq Tag /\ Used \subseteq 0..3 /\ None \notin 0..3
  /\ {MAX_BUFFERED_LOG, MaxChanges, MaxLogs} \subseteq Nat /\ Trimmed \in Nat \ {0}

VARIABLES part, v1, v2, v3, v4, v5, v6, v7, v8, v9, v10, v11, v12, v13, v14, v15, v16, v17, v18,
  v19

(* The tags of the modules that log. *)
TagOf == [c \in Client |-> IF c = c1 THEN t1 ELSE t2]

Bridges == INSTANCE Bridge WITH version <- v1, provider_ <- v2, first_ <- v3, handled <- v4,
  ended <- v5, signalForPeer <- v6
Pipes == INSTANCE Pipe WITH publicSockets_ <- v1, lastInterface_ <- v2, maxSocketsPerInterface_
  <- v3, browserEndpoints_ <- v4, signaled <- v5, sockets <- v6, waiting <- v7, announced <- v8,
  failures <- v9
Table == INSTANCE Channels WITH stage <- v1, label <- v2, ours <- v3, shut <- v4, channels_ <-
  v5, maxChannels_ <- v6, sdps <- v7, control <- v8, state_ <- v9
Queue == INSTANCE Aqm WITH now <- v1, dropLevel_ <- v2, dropNext_ <- v3, deadline_ <- v4, sent_
  <- v5, minDelay_ <- v6, traceCounter_ <- v7, traced <- v8, inInterval <- v9, until <- v10,
  began <- v11
Logs == INSTANCE Logging WITH default_ <- v1, filters_ <- v2, logBuffer <- v3, recorded <- v4,
  enabled <- v5, listeners <- v6, minLevel <- v7, events <- v8, calls <- v9, changes <- v10,
  logs <- v11, ClientTag <- TagOf
Server == INSTANCE TcpServer WITH socket <- v1, calls <- v2, counter_ <- v3, destroyed <- v4,
  notice <- v5, disconnected <- v6, onceListening_ <- v7, onceShutdown_ <- v8, connections_ <-
  v9, queued <- v10, stop <- v11, closing <- v12
Churns == INSTANCE Churn WITH probe <- v1, candidates <- v2, candidateQueue_ <- v3, described <-
  v4, config <- v5, pipe_ <- v6, bound <- v7, onceHavePipe_ <- v8, binding <- v9,
  remoteCandidates_ <- v10, heard <- v11, signals <- v12, closed <- v13
Panel == INSTANCE Dialogs WITH now <- v1, panels <- v2, asked <- v3, promisesMap_ <- v4, result
  <- v5, toPanel <- v6, toBackground <- v7, connected <- v8, dialogClickFn <- v9, dialog <- v10,
  overlay <- v11, opening <- v12, waiting <- v13, held <- v14, clicked <- v15, MaxTime <- Latest
Front == INSTANCE Ui WITH getting <- v1, starting <- v2, ui <- v3, shown <- v4, proxy <- v5,
  connected <- v6, queue_ <- v7, toCore <- v8, toUi <- v9, lost <- v10
Links == INSTANCE Invites WITH stage <- v1, asked <- v2, agreed <- v3, told <- v4, logins <- v5,
  removals <- v6, networks <- v7, left <- v8, modelNet <- v9, toUi <- v10, valid <- v11, contact
  <- v12, grants <- v13, offered <- v14, contactDisk <- v15, instance <- v16, token <- v17,
  tokenDisk <- v18, sent <- v19

(* The variables a part does not have. *)
Idle16 == v16 = 0 /\ v17 = 0 /\ v18 = 0 /\ v19 = 0
Idle14 == v14 = 0 /\ v15 = 0 /\ Idle16
Idle13 == v13 = 0 /\ Idle14
Idle12 == v12 = 0 /\ Idle13
Idle11 == v11 = 0 /\ Idle12
Idle10 == v10 = 0 /\ Idle11
Idle7 == v7 = 0 /\ v8 = 0 /\ v9 = 0 /\ Idle10
Rest16 == <<v16, v17, v18, v19>>
Rest14 == <<v14, v15, Rest16>>
Rest13 == <<v13, Rest14>>
Rest12 == <<v12, Rest13>>
Rest11 == <<v11, Rest12>>
Rest10 == <<v10, Rest11>>
Rest7 == <<v7, v8, v9, Rest10>>

Init ==
  \/ part = "bridge" /\ Bridges!Init /\ Idle7
  \/ part = "pipe" /\ Pipes!Init /\ Idle10
  \/ part = "channels" /\ Table!Init /\ Idle10
  \/ part = "aqm" /\ Queue!Init /\ Idle12
  \/ part = "logging" /\ Logs!Init /\ Idle12
  \/ part = "server" /\ Server!Init /\ Idle13
  \/ part = "churn" /\ Churns!Init /\ Idle14
  \/ part = "dialogs" /\ Panel!Init /\ Idle16
  \/ part = "ui" /\ Front!Init /\ Idle11
  \/ part = "invites" /\ Links!Init

Next ==
  \/ part = "bridge" /\ Bridges!Next /\ UNCHANGED <<part, Rest7>>
  \/ part = "pipe" /\ Pipes!Next /\ UNCHANGED <<part, Rest10>>
  \/ part = "channels" /\ Table!Next /\ UNCHANGED <<part, Rest10>>
  \/ part = "aqm" /\ Queue!Next /\ UNCHANGED <<part, Rest12>>
  \/ part = "logging" /\ Logs!Next /\ UNCHANGED <<part, Rest12>>
  \/ part = "server" /\ Server!Next /\ UNCHANGED <<part, Rest13>>
  \/ part = "churn" /\ Churns!Next /\ UNCHANGED <<part, Rest14>>
  \/ part = "dialogs" /\ Panel!Next /\ UNCHANGED <<part, Rest16>>
  \/ part = "ui" /\ Front!Next /\ UNCHANGED <<part, Rest11>>
  \/ part = "invites" /\ Links!Next /\ UNCHANGED part

vars == <<part, v1, v2, v3, v4, v5, v6, v7, v8, v9, v10, v11, v12, v13, v14, v15, v16, v17, v18,
  v19>>

Spec == Init /\ [][Next]_vars

(* Each property holds of the part it is about, with the type invariant of its *)
(* module; what it means is said there.                                        *)

(* Bridge, Churn, Pipe: both sides come to one kind of connection, and an      *)
(* obfuscated one has all the candidates, ports and mirrors its data need      *)
(* (bridge.ts, churn.ts, churn-pipe.ts).                                       *)
PathAgrees ==
  /\ part = "bridge" => Bridges!TypeOK /\ Bridges!SameProvider
  /\ part = "churn" => Churns!TypeOK /\ Churns!Established
  /\ part = "pipe" => Pipes!TypeOK /\ Pipes!MirrorsOffered

(* TcpServer: shutting down is complete (tcp.ts, counter.ts).                  *)
ShutDown == part = "server" => Server!TypeOK /\ Server!ShutDown

(* Aqm: at most one packet of an interval is dropped, and the next one not on  *)
(* account of a packet sent before that interval was over (aqm.ts).            *)
OneDropAnInterval == part = "aqm" => Queue!TypeOK /\ Queue!OneDropAnInterval

(* Channels: the table of data channels is true (peerconnection.ts).           *)
TableIsTrue == part = "channels" => Table!TypeOK /\ Table!TableIsTrue

(* Logging: the level a module was told is the one that is wanted              *)
(* (loggingprovider.ts, logging.ts).                                           *)
LevelIsTold == part = "logging" => Logs!TypeOK /\ Logs!LevelIsTold

(* Dialogs, Invites: what is taken for the user's consent is what the user     *)
(* said to the question that was shown, or to another of the same millisecond  *)
(* (background_ui.ts, state.ts, ui.ts).                                        *)
UserAgreed ==
  /\ part = "dialogs" => Panel!TypeOK /\ Panel!DialogsAnswered
  /\ part = "invites" => Links!TypeOK /\ Links!InvitesAreMeant

(* Ui: with nothing under way the interface asks about a lost connection, or   *)
(* shows one as tried or as got, only while the core has it so, whatever       *)
(* commands and updates crossed and whenever the port to the core was lost     *)
(* (ui.ts, core_connector.ts).                                                 *)
ShowsWhatIs == part = "ui" => Front!TypeOK /\ Front!ShowsWhatIs
==============================================================================
