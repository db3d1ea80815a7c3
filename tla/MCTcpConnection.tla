---------------------------- MODULE MCTcpConnection ----------------------------
(* A tcp connection by itself, the connections of rtc-to-net's sessions made   *)
(* through a SOCKS proxy, or a peer connection of which one peer negotiates    *)
(* and the other may close: part says which.  The variables of the others stay *)
(* as they are at first.                                                       *)
EXTENDS TcpConnection

CONSTANTS Session, Enabled, AllowNonUnicast, MaxOutages, a, b

ASSUME ReproxyAssumption == MaxOutages \in Nat

VARIABLES
  part,
  enabled, allowNonUnicast, endpoint, step, incoming, replies, lost, stopping, up, outages,
  updates, reproxyError, intervals, checking,
  negotiation, connected, closed, onceHaveRemoteDescription_, jobs, held, added, net, described,
  signaling, local, remote, found, control, events, beating, renegotiated

Proxied == INSTANCE Reproxy
Peers == INSTANCE PeerConnection WITH state_ <- negotiation, onceConnected <- connected,
  onceClosed <- closed, Peer <- {a, b}, Hash <- [p \in {a, b} |-> IF p = a THEN 1 ELSE 2],
  Initiators <- {a}, MaxCandidates <- 0, MaxRenegotiations <- 1, MayClose <- {b}, MayFail <- FALSE

proxied == <<enabled, allowNonUnicast, endpoint, step, incoming, replies, lost, stopping, up,
             outages, updates, reproxyError, intervals, checking>>
peers == <<negotiation, connected, closed, onceHaveRemoteDescription_, jobs, held, added, net,
           described, signaling, local, remote, found, control, events, beating, renegotiated>>
allVars == <<part, vars, proxied, peers>>

MCInit ==
  /\ Init /\ Proxied!Init /\ Peers!Init
  /\ \/ part = "connection" /\ enabled /\ up
     \/ part = "reproxy" /\ state_ = "CONNECTED"
     \/ part = "peers" /\ enabled /\ up /\ state_ = "CONNECTED"

MCNext ==
  /\ \/ part = "connection" /\ Next /\ UNCHANGED <<proxied, peers>>
     \/ part = "reproxy" /\ Proxied!Next /\ UNCHANGED <<vars, peers>>
     \/ part = "peers" /\ Peers!Next /\ UNCHANGED <<vars, proxied>>
  /\ UNCHANGED part

(* The fairness of the three modules, each of its part. *)
MCSpec ==
  /\ MCInit /\ [][MCNext]_allVars
  /\ WF_allVars(part = "connection" /\ Answer /\ UNCHANGED <<part, proxied, peers>>)
  /\ WF_allVars(part = "connection" /\ Disconnect /\ UNCHANGED <<part, proxied, peers>>)
  /\ WF_allVars(part = "connection" /\ (SocketConnects \/ SocketRefused)
                  /\ UNCHANGED <<part, proxied, peers>>)
  /\ \A p \in {a, b} :
       /\ WF_allVars(part = "peers" /\ Peers!Step(p) /\ UNCHANGED <<part, vars, proxied>>)
       /\ WF_allVars(part = "peers" /\ Peers!Connects(p) /\ UNCHANGED <<part, vars, proxied>>)
       /\ WF_allVars(part = "peers" /\ Peers!HeartbeatTimeout(p)
                       /\ UNCHANGED <<part, vars, proxied>>)
  /\ WF_allVars(part = "reproxy" /\ Proxied!ReproxyError /\ UNCHANGED <<part, vars, peers>>)
  /\ WF_allVars(part = "reproxy" /\ Proxied!Interval /\ UNCHANGED <<part, vars, peers>>)
  /\ WF_allVars(part = "reproxy" /\ Proxied!Checked /\ UNCHANGED <<part, vars, peers>>)

(* Whichever step of connecting fails, directly or through the proxy, the peer *)
(* is answered once, unless the socket did not tell whom it connected to, when *)
(* it is not answered; in both cases the session stops (rtc-to-net.ts).        *)
OneReply == Proxied!TypeOK /\ Proxied!OneReply

(* Once the proxy stays up and the errors stop, the error bar of the user      *)
(* interface goes: some interval polls whenever it is shown (ui.ts).           *)
ErrorIsLifted == Proxied!ErrorIsLifted

(* A peer that is connected when the other closes closes too, if only after    *)
(* it has missed enough heartbeats (peerconnection.ts).                        *)
CloseIsNoticed == Peers!CloseIsNoticed

(* A negotiation ends, with another asked for in its midst too: both peers are *)
(* connected, or one of them has closed (peerconnection.ts).                   *)
NegotiationEnds == Peers!Connected
===============================================================================
