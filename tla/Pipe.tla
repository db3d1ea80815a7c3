---------------------------------- MODULE Pipe ----------------------------------
(* The churn pipe (lib/churn-pipe/churn-pipe.ts): public sockets on each local *)
(* interface, and for each remote endpoint one mirror socket per public socket *)
(* of an interface, so that a packet leaves from the socket its mirror names.  *)
(* All interfaces are of one family; binding a socket is answered later.       *)
EXTENDS Naturals, Sequences, FiniteSets

CONSTANTS
  Interface, Port, Remote,
  MaxFailures   \* bound: binds of mirrors that fail

VARIABLES
  publicSockets_,           \* of each interface, the port of each socket
  lastInterface_,           \* the interface last bound
  maxSocketsPerInterface_,
  browserEndpoints_,        \* the interfaces with an endpoint of the browser
  signaled,                 \* the remote endpoints bindRemote was given
  sockets,                  \* mirrorSockets_, by remote endpoint and index
  waiting,                  \* getMirrorSocketAndEmit_ calls not yet answered
  announced,                \* the mirrors of which mappingAdded told
  failures

vars == <<publicSockets_, lastInterface_, maxSocketsPerInterface_, browserEndpoints_,
          signaled, sockets, waiting, announced, failures>>

MaxSockets == Cardinality(Port)
Index == 1..MaxSockets
Absent == "none"

TypeOK ==
  /\ publicSockets_ \in [Interface -> Seq(Port)]
  /\ lastInterface_ \in Interface \cup {Absent}
  /\ maxSocketsPerInterface_ \in 0..MaxSockets
  /\ browserEndpoints_ \subseteq Interface /\ signaled \subseteq Remote
  /\ sockets \in [Remote \X Index -> {Absent, "binding", "bound", "failed"}]
  /\ waiting \subseteq Remote \X Index
  /\ announced \subseteq Remote \X Index \X Interface
  /\ failures \in 0..MaxFailures

Init ==
  /\ publicSockets_ = [i \in Interface |-> <<>>] /\ lastInterface_ = Absent
  /\ maxSocketsPerInterface_ = 0
  /\ browserEndpoints_ = {} /\ signaled = {}
  /\ sockets = [m \in Remote \X Index |-> Absent] /\ waiting = {}
  /\ announced = {} /\ failures = 0

(* getMirrorSocket_: a mirror is made on its first use, and kept. *)
Made(ms) == [m \in Remote \X Index |-> IF m \in ms /\ sockets[m] = Absent THEN "binding" ELSE sockets[m]]

(* getMirrorSocketAndEmit_ for a set of mirrors. *)
Emit(ms) == sockets' = Made(ms) /\ waiting' = waiting \cup ms

(* bindLocal, addPublicSocket_ and increaseReplication_: a port is bound once  *)
(* (and retried until it is), and the first interface to have one more socket  *)
(* than any had gives every signalled remote endpoint one more mirror.         *)
bindLocal(i, p) ==
  /\ lastInterface_' = i
  /\ IF \E k \in DOMAIN publicSockets_[i] : publicSockets_[i][k] = p
     THEN UNCHANGED <<publicSockets_, maxSocketsPerInterface_, sockets, waiting>>
     ELSE /\ publicSockets_' = [publicSockets_ EXCEPT ![i] = Append(@, p)]
          /\ IF Len(publicSockets_[i]) = maxSocketsPerInterface_
             THEN /\ maxSocketsPerInterface_' = maxSocketsPerInterface_ + 1
                  /\ Emit(signaled \X {maxSocketsPerInterface_ + 1})
             ELSE UNCHANGED <<maxSocketsPerInterface_, sockets, waiting>>
  /\ UNCHANGED <<browserEndpoints_, signaled, announced, failures>>

addBrowserEndpoint(i) ==
  /\ browserEndpoints_' = browserEndpoints_ \cup {i}
  /\ UNCHANGED <<publicSockets_, lastInterface_, maxSocketsPerInterface_, signaled, sockets,
                 waiting, announced, failures>>

(* bindRemote and ensureRemoteEndpoint_: refused while there is no interface. *)
bindRemote(r) ==
  /\ lastInterface_ # Absent
  /\ signaled' = signaled \cup {r}
  /\ Emit({r} \X (1..maxSocketsPerInterface_))
  /\ UNCHANGED <<publicSockets_, lastInterface_, maxSocketsPerInterface_, browserEndpoints_,
                 announced, failures>>

(* onIncomingData_: a packet for a public socket goes to the browser's         *)
(* endpoint on that interface, from a mirror of its sender, made if need be    *)
(* and not announced.                                                          *)
onIncomingData_(i, k, r) ==
  /\ k \in DOMAIN publicSockets_[i] /\ i \in browserEndpoints_
  /\ sockets' = Made({<<r, k>>})
  /\ UNCHANGED <<publicSockets_, lastInterface_, maxSocketsPerInterface_, browserEndpoints_,
                 signaled, waiting, announced, failures>>

MirrorBinds(m) ==
  /\ sockets[m] = "binding"
  /\ \/ /\ sockets' = [sockets EXCEPT ![m] = "bound"]
        /\ UNCHANGED failures
     \/ /\ failures < MaxFailures
        /\ failures' = failures + 1
        /\ sockets' = [sockets EXCEPT ![m] = "failed"]
  /\ UNCHANGED <<publicSockets_, lastInterface_, maxSocketsPerInterface_, browserEndpoints_,
                 signaled, waiting, announced>>

(* emitMirror_ and endpointFromInfo_: the mirror is announced under the        *)
(* interface last bound by then.  One that could not be bound never is.        *)
emitMirror_(m) ==
  /\ m \in waiting /\ sockets[m] \in {"bound", "failed"}
  /\ waiting' = waiting \ {m}
  /\ announced' = IF sockets[m] = "bound" THEN announced \cup {m \o <<lastInterface_>>}
                  ELSE announced
  /\ UNCHANGED <<publicSockets_, lastInterface_, maxSocketsPerInterface_, browserEndpoints_,
                 signaled, sockets, failures>>

Next ==
  \/ \E i \in Interface : addBrowserEndpoint(i) \/ \E p \in Port : bindLocal(i, p)
  \/ \E r \in Remote : bindRemote(r)
  \/ \E i \in Interface, k \in Index, r \in Remote : onIncomingData_(i, k, r)
  \/ \E m \in Remote \X Index : MirrorBinds(m) \/ emitMirror_(m)

Spec == Init /\ [][Next]_vars

(* Every way out is offered to the browser: for each public socket of each     *)
(* interface and each remote endpoint that was signalled, in whatever order    *)
(* sockets and endpoints came and whoever sent before being signalled, there   *)
(* is a mirror of that index, and once it is bound and told of, nothing else   *)
(* is missing (churn-pipe.ts:218-250, 279-382).                                *)
MirrorsOffered ==
  \A r \in signaled, i \in Interface :
    \A k \in DOMAIN publicSockets_[i] :
      \/ <<r, k>> \in waiting
      \/ sockets[<<r, k>>] = "failed"
      \/ sockets[<<r, k>>] = "bound" /\ \E j \in Interface : <<r, k, j>> \in announced

(* A mirror that was announced can be used from every interface: not so, an    *)
(* interface with fewer sockets has none of that index and drops the packet    *)
(* (churn-pipe.ts:358-365).                                                    *)
EveryInterfaceSends ==
  \A a \in announced, i \in browserEndpoints_ : a[2] \in DOMAIN publicSockets_[i]
==================================================================================
