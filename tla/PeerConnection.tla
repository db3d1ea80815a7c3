--------------------------- MODULE PeerConnection ---------------------------
(***************************************************************************)
(* src/lib/webrtc/peerconnection.ts: two PeerConnectionClass objects that   *)
(* connect by exchanging signals (offer, answer, ICE candidates) and keep   *)
(* the connection up with a control channel.                                *)
(*                                                                          *)
(* Every call of the browser's peer connection answers later: `jobs' holds  *)
(* the calls a peer waits for, each named for what is done with its answer. *)
(* onSignallingStateChange_ matters only when the browser has closed: state_ *)
(* is never WAITING when a description is set, and a peer that is CLOSED is *)
(* closed again without effect.                                             *)
(***************************************************************************)
EXTENDS Naturals, Sequences

CONSTANTS
  Peer,            \* the two peers
  Hash,            \* djb2 of the offer of each
  Initiators,      \* the peers that may call negotiateConnection
  MaxCandidates,   \* bound: ICE candidates a peer finds
  MaxRenegotiations, \* bound: unasked-for events onnegotiationneeded
  MayClose,        \* the peers whose users may call close()
  MayFail          \* the network between the peers may fail

ASSUME PeerConnectionAssumption ==
  /\ \E x, y \in Peer : x # y /\ Peer = {x, y}
  /\ Hash \in [Peer -> Nat]
  /\ Initiators \subseteq Peer
  /\ MaxCandidates \in Nat
  /\ MaxRenegotiations \in Nat
  /\ MayClose \subseteq Peer
  /\ MayFail \in BOOLEAN

VARIABLES
  state_,       \* WAITING, CONNECTING, CONNECTED, CLOSED
  onceConnected,
  onceClosed,   \* it is fulfilled
  onceHaveRemoteDescription_, \* it is fulfilled
  jobs,         \* the calls of the browser that are to be answered
  held,         \* candidates of the peer that wait for the remote description
  added,        \* candidates passed to the browser
  net,          \* the signals on their way to each peer
  described,    \* it has been sent the description of its peer
  signaling,    \* the browser's signalingState
  local,        \* the browser has a local description
  remote,       \* the browser has a remote description
  found,        \* candidates the browser has found
  control,      \* the browser's control channel: none, connecting, open, closed
  events,       \* the browser's events on their way: open, close, closed
  beating,      \* the heartbeat has been initiated and has not timed out
  renegotiated  \* number of renegotiations (model only)

vars == <<state_, onceConnected, onceClosed, onceHaveRemoteDescription_, jobs, held, added,
          net, described, signaling, local, remote, found, control, events, beating,
          renegotiated>>
program == <<state_, onceConnected, onceClosed, onceHaveRemoteDescription_, held, added,
             beating>>
browser == <<signaling, local, remote, found, control, events, renegotiated>>
promises == <<onceConnected, onceClosed, onceHaveRemoteDescription_>>
channel == <<control, events, beating, renegotiated>>
candidates == <<held, added, found>>
descriptions == <<signaling, local, remote>>
network == <<net, described>>

Other(p) == CHOOSE q \in Peer : q # p

State == {"WAITING", "CONNECTING", "CONNECTED", "CLOSED"}
Job == {"negotiate", "createOffer", "breakTie", "takeOffer", "createAnswer",
        "setAnswer", "takeAnswer", "close"}
Signal == {"OFFER", "ANSWER", "CANDIDATE"}

TypeOK ==
  /\ state_ \in [Peer -> State]
  /\ onceConnected \in [Peer -> {"pending", "fulfilled", "rejected"}]
  /\ onceClosed \in [Peer -> BOOLEAN]
  /\ onceHaveRemoteDescription_ \in [Peer -> BOOLEAN]
  /\ jobs \in [Peer -> SUBSET Job]
  /\ held \in [Peer -> Nat]
  /\ added \in [Peer -> Nat]
  /\ net \in [Peer -> Seq(Signal)]
  /\ described \in [Peer -> BOOLEAN]
  /\ signaling \in [Peer -> {"stable", "have-local-offer", "have-remote-offer", "closed"}]
  /\ local \in [Peer -> BOOLEAN]
  /\ remote \in [Peer -> BOOLEAN]
  /\ found \in [Peer -> 0..MaxCandidates]
  /\ control \in [Peer -> {"none", "connecting", "open", "closed"}]
  /\ events \in [Peer -> SUBSET {"open", "close", "closed"}]
  /\ beating \in [Peer -> BOOLEAN]
  /\ renegotiated \in 0..MaxRenegotiations

Init ==
  /\ state_ = [p \in Peer |-> "WAITING"]
  /\ onceConnected = [p \in Peer |-> "pending"]
  /\ onceClosed = [p \in Peer |-> FALSE]
  /\ onceHaveRemoteDescription_ = [p \in Peer |-> FALSE]
  /\ jobs = [p \in Peer |-> {}]
  /\ held = [p \in Peer |-> 0]
  /\ added = [p \in Peer |-> 0]
  /\ net = [p \in Peer |-> <<>>]
  /\ described = [p \in Peer |-> FALSE]
  /\ signaling = [p \in Peer |-> "stable"]
  /\ local = [p \in Peer |-> FALSE]
  /\ remote = [p \in Peer |-> FALSE]
  /\ found = [p \in Peer |-> 0]
  /\ control = [p \in Peer |-> "none"]
  /\ events = [p \in Peer |-> {}]
  /\ beating = [p \in Peer |-> FALSE]
  /\ renegotiated = 0

(* The answer to job j of peer p is there, and job k is begun. *)
Does(p, j) == j \in jobs[p] /\ jobs' = [jobs EXCEPT ![p] = @ \ {j}]
DoesThen(p, j, k) == j \in jobs[p] /\ jobs' = [jobs EXCEPT ![p] = (@ \ {j}) \cup {k}]

(* emitSignalForPeer_ *)
Emit(p, signal) == net' = [net EXCEPT ![Other(p)] = Append(@, signal)]

(* Mutant: it rejects onceConnected in the wrong state. *)
Shut_keepsWaiting(p) ==
  /\ state_' = [state_ EXCEPT ![p] = "CLOSED"]
  /\ onceConnected' = [onceConnected EXCEPT ![p] =
       IF state_[p] = "CONNECTED" /\ @ = "pending" THEN "rejected" ELSE @]
  /\ onceClosed' = [onceClosed EXCEPT ![p] = TRUE]

(* The effect of close() and closeWithError_ on the program. *)
Shut(p) ==
  /\ state_' = [state_ EXCEPT ![p] = "CLOSED"]
  /\ onceConnected' = [onceConnected EXCEPT ![p] =
       IF state_[p] = "CONNECTING" /\ @ = "pending" THEN "rejected" ELSE @]
  /\ onceClosed' = [onceClosed EXCEPT ![p] = TRUE]

(* Job j of peer p has failed: closeWithError_. *)
Fails(p, j) == DoesThen(p, j, "close") /\ Shut(p)
-----------------------------------------------------------------------------
(* Initiating a connection. *)

(* negotiateConnection: the control channel makes the browser fire          *)
(* onnegotiationneeded.                                                     *)
negotiateConnection(p) ==
  /\ p \in Initiators
  /\ state_[p] = "WAITING"
  /\ control[p] = "none"
  /\ control' = [control EXCEPT ![p] = "connecting"]
  /\ jobs' = [jobs EXCEPT ![p] = @ \cup {"negotiate"}]
  /\ UNCHANGED <<program, network, descriptions, found, events, renegotiated>>

(* The browser fires onnegotiationneeded unasked. *)
Renegotiate(p) ==
  /\ control[p] = "open"
  /\ renegotiated < MaxRenegotiations
  /\ renegotiated' = renegotiated + 1
  /\ jobs' = [jobs EXCEPT ![p] = @ \cup {"negotiate"}]
  /\ UNCHANGED <<program, network, descriptions, found, control, events>>

onNegotiationNeeded_(p) ==
  /\ IF state_[p] \in {"WAITING", "CONNECTED"}
     THEN /\ DoesThen(p, "negotiate", "createOffer")
          /\ state_' = [state_ EXCEPT ![p] = "CONNECTING"]
     ELSE /\ Does(p, "negotiate")
          /\ UNCHANGED state_
  /\ UNCHANGED <<promises, network, descriptions, candidates, channel>>

(* The offer is sent, then setLocalDescription called at once (whatever     *)
(* mungeLocalDescription waits for is there): nobody hears of its failure.  *)
OfferCreated(p) ==
  /\ signaling[p] # "closed"
  /\ Does(p, "createOffer")
  /\ Emit(p, "OFFER")
  /\ IF signaling[p] = "stable"
     THEN /\ signaling' = [signaling EXCEPT ![p] = "have-local-offer"]
          /\ local' = [local EXCEPT ![p] = TRUE]
     ELSE UNCHANGED <<signaling, local>>
  /\ UNCHANGED <<state_, promises, described, remote, candidates, channel>>

OfferNotCreated(p) ==
  /\ signaling[p] = "closed"
  /\ Fails(p, "createOffer")
  /\ UNCHANGED <<onceHaveRemoteDescription_, network, descriptions, candidates, channel>>
-----------------------------------------------------------------------------
(* handleSignalMessage *)

Takes(p, signal) ==
  /\ net[p] # <<>>
  /\ Head(net[p]) = signal
  /\ net' = [net EXCEPT ![p] = Tail(@)]

ReceiveOffer(p) ==
  /\ Takes(p, "OFFER")
  /\ described' = [described EXCEPT ![p] = TRUE]
  /\ jobs' = [jobs EXCEPT ![p] = @ \cup {"breakTie"}]
  /\ UNCHANGED <<program, browser>>

(* breakOfferTie_: this side has offered too, and with a higher hash. *)
LosesTie(p) == signaling[p] = "have-local-offer" /\ Hash[Other(p)] < Hash[p]

TieBroken(p) ==
  /\ ~LosesTie(p)
  /\ DoesThen(p, "breakTie", "takeOffer")
  /\ state_' = [state_ EXCEPT ![p] = "CONNECTING"]
  /\ UNCHANGED <<promises, network, descriptions, candidates, channel>>

(* The end of handleOfferSignalMessage_, with or without an error. *)
HaveRemoteDescription(p) ==
  onceHaveRemoteDescription_' = [onceHaveRemoteDescription_ EXCEPT ![p] = TRUE]

OfferFails(p, j) ==
  /\ Fails(p, j)
  /\ HaveRemoteDescription(p)
  /\ UNCHANGED <<network, descriptions, candidates, channel>>

TieNotBroken(p) == LosesTie(p) /\ OfferFails(p, "breakTie")

(* setRemoteDescription; with an offer of its own the browser refuses. *)
OfferTaken(p) ==
  /\ signaling[p] = "stable"
  /\ DoesThen(p, "takeOffer", "createAnswer")
  /\ signaling' = [signaling EXCEPT ![p] = "have-remote-offer"]
  /\ remote' = [remote EXCEPT ![p] = TRUE]
  /\ UNCHANGED <<state_, promises, network, local, candidates, channel>>

OfferNotTaken(p) == signaling[p] # "stable" /\ OfferFails(p, "takeOffer")

(* Mutant: the answer is not sent. *)
AnswerCreated_silent(p) ==
  /\ signaling[p] # "closed"
  /\ DoesThen(p, "createAnswer", "setAnswer")
  /\ UNCHANGED net
  /\ UNCHANGED <<state_, promises, described, descriptions, candidates, channel>>

AnswerCreated(p) ==
  /\ signaling[p] # "closed"
  /\ DoesThen(p, "createAnswer", "setAnswer")
  /\ Emit(p, "ANSWER")
  /\ UNCHANGED <<state_, promises, described, descriptions, candidates, channel>>

AnswerNotCreated(p) == signaling[p] = "closed" /\ OfferFails(p, "createAnswer")

AnswerSet(p) ==
  /\ signaling[p] = "have-remote-offer"
  /\ Does(p, "setAnswer")
  /\ signaling' = [signaling EXCEPT ![p] = "stable"]
  /\ local' = [local EXCEPT ![p] = TRUE]
  /\ HaveRemoteDescription(p)
  /\ UNCHANGED <<state_, onceConnected, onceClosed, network, remote, candidates, channel>>

AnswerNotSet(p) == signaling[p] # "have-remote-offer" /\ OfferFails(p, "setAnswer")

ReceiveAnswer(p) ==
  /\ Takes(p, "ANSWER")
  /\ described' = [described EXCEPT ![p] = TRUE]
  /\ jobs' = [jobs EXCEPT ![p] = @ \cup {"takeAnswer"}]
  /\ UNCHANGED <<program, browser>>

AnswerTaken(p) ==
  /\ signaling[p] = "have-local-offer"
  /\ Does(p, "takeAnswer")
  /\ signaling' = [signaling EXCEPT ![p] = "stable"]
  /\ remote' = [remote EXCEPT ![p] = TRUE]
  /\ HaveRemoteDescription(p)
  /\ UNCHANGED <<state_, onceConnected, onceClosed, network, local, candidates, channel>>

AnswerNotTaken(p) ==
  /\ signaling[p] # "have-local-offer"
  /\ OfferFails(p, "takeAnswer")

ReceiveCandidate(p) ==
  /\ Takes(p, "CANDIDATE")
  /\ held' = [held EXCEPT ![p] = @ + 1]
  /\ UNCHANGED <<state_, promises, jobs, added, described, browser, beating>>

(* Mutant: candidates do not wait for the remote description. *)
AddCandidate_atOnce(p) ==
  /\ held[p] > 0
  /\ held' = [held EXCEPT ![p] = @ - 1]
  /\ added' = [added EXCEPT ![p] = @ + 1]
  /\ UNCHANGED <<state_, promises, jobs, network, browser, beating>>

(* addIceCandidate, once the remote description is there. *)
AddCandidate(p) ==
  /\ onceHaveRemoteDescription_[p]
  /\ held[p] > 0
  /\ held' = [held EXCEPT ![p] = @ - 1]
  /\ added' = [added EXCEPT ![p] = @ + 1]
  /\ UNCHANGED <<state_, promises, jobs, network, browser, beating>>

(* onIceCandidate_: gathering begins with the local description. *)
onIceCandidate_(p) ==
  /\ local[p]
  /\ signaling[p] # "closed"
  /\ found[p] < MaxCandidates
  /\ found' = [found EXCEPT ![p] = @ + 1]
  /\ Emit(p, "CANDIDATE")
  /\ UNCHANGED <<program, jobs, described, descriptions, control, events, renegotiated>>
-----------------------------------------------------------------------------
(* The control channel *)

(* registerControlChannel_ when the channel opens: initiateHeartbeat_. *)
ControlOpened(p) ==
  /\ "open" \in events[p]
  /\ events' = [events EXCEPT ![p] = @ \ {"open"}]
  /\ beating' = [beating EXCEPT ![p] = TRUE]
  /\ state_' = [state_ EXCEPT ![p] = "CONNECTED"]
  /\ onceConnected' = [onceConnected EXCEPT ![p] = IF @ = "pending" THEN "fulfilled" ELSE @]
  /\ UNCHANGED <<onceClosed, onceHaveRemoteDescription_, jobs, network, descriptions,
                 candidates, control, renegotiated>>

(* close(), by the user. *)
close(p) ==
  /\ p \in MayClose
  /\ ~onceClosed[p]
  /\ Shut(p)
  /\ jobs' = [jobs EXCEPT ![p] = @ \cup {"close"}]
  /\ UNCHANGED <<onceHaveRemoteDescription_, network, descriptions, candidates, channel>>

(* The same when the control channel has closed, or the browser's           *)
(* connection (onSignallingStateChange_); events come in their order.       *)
Closed(p, event) ==
  /\ event \in events[p]
  /\ "open" \notin events[p]
  /\ events' = [events EXCEPT ![p] = @ \ {event}]
  /\ Shut(p)
  /\ jobs' = [jobs EXCEPT ![p] = @ \cup {"close"}]
  /\ UNCHANGED <<onceHaveRemoteDescription_, network, descriptions, candidates, control,
                 beating, renegotiated>>

(* close() of the browser's connection, unless it is closed. *)
CloseBrowser(p) ==
  /\ Does(p, "close")
  /\ IF signaling[p] = "closed"
     THEN UNCHANGED <<signaling, control, events>>
     ELSE /\ signaling' = [signaling EXCEPT ![p] = "closed"]
          /\ control' = [control EXCEPT ![p] = "closed"]
          /\ events' = [events EXCEPT ![p] =
               @ \cup {"closed"} \cup (IF control[p] = "open" THEN {"close"} ELSE {})]
  /\ UNCHANGED <<program, network, local, remote, found, renegotiated>>

(* Mutant: nothing is done about missed heartbeats. *)
HeartbeatTimeout_ignored(p) ==
  /\ beating[p]
  /\ MayFail \/ \E q \in Peer : control[q] = "closed"
  /\ beating' = [beating EXCEPT ![p] = FALSE]
  /\ UNCHANGED <<state_, onceConnected, onceClosed>>
  /\ UNCHANGED <<onceHaveRemoteDescription_, jobs, network, descriptions, candidates, control,
                 events, renegotiated>>

(* The peer's heartbeat has not been heard for too long. *)
HeartbeatTimeout(p) ==
  /\ beating[p]
  /\ MayFail \/ \E q \in Peer : control[q] = "closed"
  /\ beating' = [beating EXCEPT ![p] = FALSE]
  /\ Shut(p)
  /\ jobs' = [jobs EXCEPT ![p] = @ \cup {"close"}]
  /\ UNCHANGED <<onceHaveRemoteDescription_, network, descriptions, candidates, control,
                 events, renegotiated>>

(* onIceConnectionStateChange_: the connection has failed. *)
IceFails(p) ==
  /\ MayFail \/ signaling[Other(p)] = "closed"
  /\ local[p] /\ remote[p]
  /\ signaling[p] # "closed"
  /\ state_[p] # "CLOSED"
  /\ Shut(p)
  /\ jobs' = [jobs EXCEPT ![p] = @ \cup {"close"}]
  /\ UNCHANGED <<onceHaveRemoteDescription_, network, descriptions, candidates, channel>>
-----------------------------------------------------------------------------
(* The browsers: external.  With both descriptions on both sides the        *)
(* control channel opens, first where it was created.                       *)
Connects(p) ==
  /\ \A q \in Peer : signaling[q] = "stable" /\ local[q] /\ remote[q]
  /\ \/ control[p] = "connecting"
     \/ control[p] = "none" /\ control[Other(p)] = "open"
  /\ control' = [control EXCEPT ![p] = "open"]
  /\ events' = [events EXCEPT ![p] = @ \cup {"open"}]
  /\ UNCHANGED <<program, jobs, network, descriptions, found, renegotiated>>

(* The peer has closed the channel, and the news arrives. *)
Disconnects(p) ==
  /\ control[p] = "open"
  /\ control[Other(p)] = "closed"
  /\ control' = [control EXCEPT ![p] = "closed"]
  /\ events' = [events EXCEPT ![p] = @ \cup {"close"}]
  /\ UNCHANGED <<program, jobs, network, descriptions, found, renegotiated>>

(* What a peer does of itself with what it is given. *)
Step(p) ==
  \/ onNegotiationNeeded_(p) \/ OfferCreated(p) \/ OfferNotCreated(p)
  \/ ReceiveOffer(p) \/ TieBroken(p) \/ TieNotBroken(p) \/ OfferTaken(p) \/ OfferNotTaken(p)
  \/ AnswerCreated(p) \/ AnswerNotCreated(p) \/ AnswerSet(p) \/ AnswerNotSet(p)
  \/ ReceiveAnswer(p) \/ AnswerTaken(p) \/ AnswerNotTaken(p)
  \/ ReceiveCandidate(p) \/ AddCandidate(p)
  \/ ControlOpened(p) \/ Closed(p, "close") \/ Closed(p, "closed") \/ CloseBrowser(p)

Next ==
  \E p \in Peer :
    \/ Step(p) \/ negotiateConnection(p) \/ close(p)
    \/ Renegotiate(p) \/ onIceCandidate_(p) \/ Connects(p) \/ Disconnects(p)
    \/ IceFails(p) \/ HeartbeatTimeout(p)

Spec == Init /\ [][Next]_vars

(* Each peer's event loop runs on, its heartbeat timer included; browsers   *)
(* that can connect do.  Nobody need start or close, and no candidate be    *)
(* found.                                                                   *)
Fairness ==
  \A p \in Peer : WF_vars(Step(p)) /\ WF_vars(Connects(p)) /\ WF_vars(HeartbeatTimeout(p))

FairSpec == Spec /\ Fairness
-----------------------------------------------------------------------------
(* "Emit the offer signal before calling setLocalDescription, which         *)
(* initiates ICE candidate gathering": a peer is given no candidate before  *)
(* the description it belongs to.                                           *)
DescriptionFirst ==
  \A p \in Peer : net[p] # <<>> /\ Head(net[p]) = "CANDIDATE" => described[p]

(* onceHaveRemoteDescription_, "used to delay setting of remote ICE         *)
(* candidates until the call to setRemoteDescription has resolved": the     *)
(* browser gets no candidate earlier, unless the connection is lost.        *)
CandidatesWait ==
  [][\A p \in Peer : added'[p] # added[p] => remote[p] \/ onceClosed[p]]_vars

(* onceConnected "Rejects if there is an error establishing the             *)
(* connection": nobody waits for a connection that was tried and is closed. *)
TriedMeansSettled ==
  \A p \in Peer :
    state_[p] = "CLOSED" /\ (described[p] \/ local[p]) /\ jobs[p] = {} =>
      onceConnected[p] # "pending"

(* However the network fails and the negotiation is cut short: signals keep *)
(* their order and nobody is left waiting.                                  *)
NegotiationInOrder == TypeOK /\ DescriptionFirst /\ TriedMeansSettled

(* A peer that is connected when the other closes closes too, if only after *)
(* it has missed enough heartbeats.                                         *)
CloseIsNoticed ==
  \A p \in Peer :
    signaling[p] = "closed" /\ onceConnected[Other(p)] = "fulfilled" ~> onceClosed[Other(p)]

(* A negotiation ends: both peers are connected, or one of them has closed. *)
Connected ==
  \A p \in Peer :
    control[p] = "connecting" ~>
      \/ \A q \in Peer : onceConnected[q] = "fulfilled"
      \/ \E q \in Peer : onceClosed[q]

(* breakOfferTie_: "Fulfills if it is OK to proceed with setting this       *)
(* remote offer": after a tie the offer that wins is taken.                 *)
WinnerProceeds ==
  [][\A p \in Peer :
       "takeOffer" \in jobs[p] /\ "takeOffer" \notin jobs'[p] /\ ~onceClosed[p]
         => remote'[p]]_vars
=============================================================================
