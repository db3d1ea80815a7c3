------------------------ MODULE PeerConnectionProofs ------------------------
(***************************************************************************)
(* Proofs about PeerConnection, for any bounds, either or both peers        *)
(* negotiating, closing or not, over a network that fails or not.           *)
(*                                                                          *)
(* An answer follows an offer, so a peer that gets one has a description of *)
(* its own or of the other.  A peer with a description, or about to         *)
(* have one, has left WAITING; from then on every close rejects             *)
(* onceConnected if nothing has settled it before.  A peer emits its first  *)
(* description before it is set, and finds candidates only after that.      *)
(***************************************************************************)
EXTENDS PeerConnection, TLAPS

(* The peer has begun to connect, and its closing settles onceConnected.    *)
Settling(p) ==
  state_[p] # "WAITING" /\ (state_[p] = "CLOSED" => onceConnected[p] # "pending")

Describing == {"createOffer", "takeOffer", "createAnswer", "setAnswer"}

Signaled ==
  \A p \in Peer :
    /\ signaling[p] = "have-local-offer" => local[p]
    /\ signaling[p] = "have-remote-offer" => remote[p]

Settles ==
  \A p \in Peer :
    /\ state_[p] = "CONNECTED" => onceConnected[p] # "pending"
    /\ local[p] \/ remote[p] => Settling(p)
    /\ \A j \in Describing : j \in jobs[p] => Settling(p)
    /\ described[p] => "breakTie" \in jobs[p] \/ Settling(p)

Under(p, signal) == \E i \in DOMAIN net[p] : net[p][i] = signal

(* Whatever follows from an offer of p. *)
HasOffered(p) ==
  \/ Under(Other(p), "OFFER")
  \/ \E j \in {"breakTie", "takeOffer", "createAnswer"} : j \in jobs[Other(p)]
  \/ Under(p, "ANSWER") \/ "takeAnswer" \in jobs[p]

OffersFirst == \A p \in Peer : HasOffered(p) => local[p] \/ remote[p]

DescribesFirst ==
  \A p \in Peer : ~described[p] =>
    /\ net[p] # <<>> => Head(net[p]) # "CANDIDATE"
    /\ net[p] = <<>> => ~local[Other(p)] /\ "setAnswer" \notin jobs[Other(p)]

RemoteHad ==
  \A p \in Peer : onceHaveRemoteDescription_[p] => remote[p] \/ onceClosed[p]

IInv == TypeOK /\ Signaled /\ Settles /\ OffersFirst /\ DescribesFirst /\ RemoteHad
-----------------------------------------------------------------------------
LEMMA Others ==
  ASSUME NEW p \in Peer
  PROVE  Other(p) \in Peer /\ Other(p) # p /\ Other(Other(p)) = p
         /\ \A q \in Peer : q = p \/ q = Other(p)
<1>1. PICK x, y \in Peer : x # y /\ Peer = {x, y}
  BY PeerConnectionAssumption
<1>2. \A z \in Peer : \E q \in Peer : q # z
  BY <1>1
<1>3. \A z \in Peer : Other(z) \in Peer /\ Other(z) # z
  BY <1>2 DEF Other
<1> QED
  BY <1>1, <1>3

LEMMA IInvInit == Init => IInv
<1> SUFFICES ASSUME Init PROVE IInv
  OBVIOUS
<1>1. 0 \in 0..MaxCandidates /\ 0 \in 0..MaxRenegotiations
  BY PeerConnectionAssumption
<1>2. TypeOK
  BY <1>1 DEF Init, TypeOK, State, Job, Signal
<1>3. Signaled /\ Settles /\ RemoteHad
  BY DEF Init, Signaled, Settles, RemoteHad
<1>4. OffersFirst /\ DescribesFirst
  BY Others DEF Init, OffersFirst, HasOffered, Under, DescribesFirst
<1> QED
  BY <1>2, <1>3, <1>4 DEF IInv
-----------------------------------------------------------------------------
LEMMA JobsTyped ==
  ASSUME TypeOK, NEW p \in Peer
  PROVE  /\ \A j \in Job : Does(p, j) => jobs' \in [Peer -> SUBSET Job]
         /\ \A j, k \in Job : DoesThen(p, j, k) => jobs' \in [Peer -> SUBSET Job]
         /\ \A k \in Job : [jobs EXCEPT ![p] = @ \cup {k}] \in [Peer -> SUBSET Job]
<1>1. jobs \in [Peer -> SUBSET Job]
  BY DEF TypeOK
<1>2. \A S \in SUBSET Job : [jobs EXCEPT ![p] = S] \in [Peer -> SUBSET Job]
  BY <1>1
<1>3. \A j, k \in Job : /\ jobs[p] \ {j} \in SUBSET Job
                       /\ (jobs[p] \ {j}) \cup {k} \in SUBSET Job
                       /\ jobs[p] \cup {k} \in SUBSET Job
  BY <1>1
<1>4. \A j \in Job : Does(p, j) => jobs' \in [Peer -> SUBSET Job]
  BY <1>2, <1>3, Zenon DEF Does
<1>5. \A j, k \in Job : DoesThen(p, j, k) => jobs' \in [Peer -> SUBSET Job]
  BY <1>2, <1>3, Zenon DEF DoesThen
<1>6. \A k \in Job : [jobs EXCEPT ![p] = @ \cup {k}] \in [Peer -> SUBSET Job]
  BY <1>2, <1>3, Zenon
<1> QED
  BY <1>4, <1>5, <1>6

LEMMA NetTyped ==
  ASSUME TypeOK, NEW p \in Peer
  PROVE  /\ \A s \in Signal : Emit(p, s) => net' \in [Peer -> Seq(Signal)]
         /\ \A s \in Signal : Takes(p, s) => net' \in [Peer -> Seq(Signal)]
<1>1. net[p] \in Seq(Signal) /\ net[Other(p)] \in Seq(Signal)
  BY Others DEF TypeOK
<1>2. \A s \in Signal : Append(net[Other(p)], s) \in Seq(Signal)
  BY <1>1
<1>3. net[p] # <<>> => Tail(net[p]) \in Seq(Signal)
  BY <1>1
<1>4. \A q \in Peer, n \in Seq(Signal) : [net EXCEPT ![q] = n] \in [Peer -> Seq(Signal)]
  BY DEF TypeOK
<1>5. \A s \in Signal : Emit(p, s) => net' \in [Peer -> Seq(Signal)]
  <2>1. Other(p) \in Peer
    BY Others
  <2> QED
    BY <1>2, <1>4, <2>1 DEF Emit
<1>6. \A s \in Signal : Takes(p, s) => net' \in [Peer -> Seq(Signal)]
  BY <1>3, <1>4, Zenon DEF Takes
<1> QED
  BY <1>5, <1>6

LEMMA ShutTyped ==
  ASSUME TypeOK, NEW p \in Peer, Shut(p)
  PROVE  /\ state_' \in [Peer -> State]
         /\ onceConnected' \in [Peer -> {"pending", "fulfilled", "rejected"}]
         /\ onceClosed' \in [Peer -> BOOLEAN]
BY DEF TypeOK, Shut, State

LEMMA TypeStep == TypeOK /\ [Next]_vars => TypeOK'
<1> SUFFICES ASSUME TypeOK, Next PROVE TypeOK'
  BY DEF vars, TypeOK
<1>1. PICK p \in Peer :
        \/ Step(p) \/ negotiateConnection(p) \/ close(p)
        \/ Renegotiate(p) \/ onIceCandidate_(p) \/ Connects(p) \/ Disconnects(p)
        \/ IceFails(p) \/ HeartbeatTimeout(p)
  BY DEF Next
<1> USE PeerConnectionAssumption, JobsTyped DEF Job, Signal, program, browser, promises, channel, candidates,
      descriptions, network
<1>2. CASE negotiateConnection(p)
  BY <1>2 DEF negotiateConnection, TypeOK
<1>3. CASE Renegotiate(p)
  BY <1>3 DEF Renegotiate, TypeOK
<1>4. CASE onNegotiationNeeded_(p)
  BY <1>4 DEF onNegotiationNeeded_, TypeOK, State
<1>5. CASE OfferCreated(p)
  <2>1. net' \in [Peer -> Seq(Signal)]
    BY <1>5, NetTyped DEF OfferCreated
  <2>2. jobs' \in [Peer -> SUBSET Job]
    BY <1>5 DEF OfferCreated
  <2>3. signaling' \in [Peer -> {"stable", "have-local-offer", "have-remote-offer", "closed"}]
        /\ local' \in [Peer -> BOOLEAN]
    <3>1. CASE signaling[p] = "stable"
      <4>1. /\ signaling' = [signaling EXCEPT ![p] = "have-local-offer"]
            /\ local' = [local EXCEPT ![p] = TRUE]
        BY <1>5, <3>1 DEF OfferCreated
      <4> QED
        BY <4>1 DEF TypeOK
    <3>2. CASE signaling[p] # "stable"
      BY <1>5, <3>2 DEF OfferCreated, TypeOK
    <3> QED
      BY <3>1, <3>2
  <2>4. UNCHANGED <<state_, onceConnected, onceClosed, onceHaveRemoteDescription_, described,
                    remote, held, added, found, control, events, beating, renegotiated>>
    BY <1>5 DEF OfferCreated
  <2> QED
    BY <2>1, <2>2, <2>3, <2>4 DEF TypeOK
<1>6. CASE OfferNotCreated(p)
  BY <1>6, ShutTyped DEF OfferNotCreated, Fails, TypeOK
<1>7. CASE ReceiveOffer(p)
  BY <1>7, NetTyped DEF ReceiveOffer, TypeOK
<1>8. CASE TieBroken(p)
  BY <1>8 DEF TieBroken, TypeOK, State
<1>9. CASE \E j \in Job : OfferFails(p, j)
  BY <1>9, ShutTyped DEF OfferFails, Fails, HaveRemoteDescription, TypeOK
<1>10. CASE OfferTaken(p)
  BY <1>10 DEF OfferTaken, TypeOK
<1>11. CASE AnswerCreated(p)
  BY <1>11, NetTyped DEF AnswerCreated, TypeOK
<1>12. CASE AnswerSet(p)
  BY <1>12 DEF AnswerSet, HaveRemoteDescription, TypeOK
<1>13. CASE ReceiveAnswer(p)
  BY <1>13, NetTyped DEF ReceiveAnswer, TypeOK
<1>14. CASE AnswerTaken(p)
  BY <1>14 DEF AnswerTaken, HaveRemoteDescription, TypeOK
<1>15. CASE ReceiveCandidate(p)
  <2>1. net' \in [Peer -> Seq(Signal)]
    BY <1>15, NetTyped DEF ReceiveCandidate
  <2> QED
    BY <1>15, <2>1 DEF ReceiveCandidate, TypeOK
<1>16. CASE AddCandidate(p)
  BY <1>16 DEF AddCandidate, TypeOK
<1>17. CASE onIceCandidate_(p)
  <2>1. net' \in [Peer -> Seq(Signal)]
    BY <1>17, NetTyped DEF onIceCandidate_
  <2> QED
    BY <1>17, <2>1 DEF onIceCandidate_, TypeOK
<1>18. CASE ControlOpened(p)
  BY <1>18 DEF ControlOpened, TypeOK, State
<1>19. CASE close(p)
  BY <1>19, ShutTyped DEF close, TypeOK
<1>20. CASE \E event \in {"close", "closed"} : Closed(p, event)
  BY <1>20, ShutTyped DEF Closed, TypeOK
<1>21. CASE CloseBrowser(p)
  BY <1>21 DEF CloseBrowser, TypeOK
<1>22. CASE HeartbeatTimeout(p)
  BY <1>22, ShutTyped DEF HeartbeatTimeout, TypeOK
<1>23. CASE IceFails(p)
  BY <1>23, ShutTyped DEF IceFails, TypeOK
<1>24. CASE Connects(p) \/ Disconnects(p)
  BY <1>24 DEF Connects, Disconnects, TypeOK
<1> QED
  BY <1>1, <1>2, <1>3, <1>4, <1>5, <1>6, <1>7, <1>8, <1>9, <1>10, <1>11, <1>12, <1>13, <1>14,
     <1>15, <1>16, <1>17, <1>18, <1>19, <1>20, <1>21, <1>22, <1>23, <1>24
  DEF Step, TieNotBroken, OfferNotTaken, AnswerNotCreated, AnswerNotSet, AnswerNotTaken
-----------------------------------------------------------------------------
LEMMA SignaledStep == TypeOK /\ Signaled /\ Next => Signaled'
<1> SUFFICES ASSUME TypeOK, Signaled, Next PROVE Signaled'
  OBVIOUS
<1>1. PICK p \in Peer :
        \/ Step(p) \/ negotiateConnection(p) \/ close(p)
        \/ Renegotiate(p) \/ onIceCandidate_(p) \/ Connects(p) \/ Disconnects(p)
        \/ IceFails(p) \/ HeartbeatTimeout(p)
  BY DEF Next
<1>2. CASE UNCHANGED descriptions
  BY <1>2 DEF descriptions, Signaled
<1>3. CASE OfferCreated(p)
  BY <1>3 DEF OfferCreated, Signaled, TypeOK
<1>4. CASE OfferTaken(p)
  BY <1>4 DEF OfferTaken, Signaled, TypeOK
<1>5. CASE AnswerSet(p) \/ AnswerTaken(p)
  BY <1>5 DEF AnswerSet, AnswerTaken, Signaled, TypeOK
<1>6. CASE CloseBrowser(p)
  BY <1>6 DEF CloseBrowser, Signaled, TypeOK
<1> QED
  BY <1>1, <1>2, <1>3, <1>4, <1>5, <1>6
  DEF Step, negotiateConnection, close, Renegotiate, onIceCandidate_, Connects, Disconnects,
      IceFails, HeartbeatTimeout, onNegotiationNeeded_, OfferNotCreated, ReceiveOffer, TieBroken,
      TieNotBroken, OfferNotTaken, AnswerCreated, AnswerNotCreated, AnswerNotSet, ReceiveAnswer,
      AnswerNotTaken, ReceiveCandidate, AddCandidate, ControlOpened, Closed, OfferFails,
      descriptions, browser

(* A peer stays settling, and a connected one has its promise settled.      *)
LEMMA SettlingKept ==
  ASSUME TypeOK, Settles, Next
  PROVE  /\ \A q \in Peer : Settling(q) => Settling(q)'
         /\ \A q \in Peer : state_'[q] = "CONNECTED" => onceConnected'[q] # "pending"
<1>1. PICK p \in Peer :
        \/ Step(p) \/ negotiateConnection(p) \/ close(p)
        \/ Renegotiate(p) \/ onIceCandidate_(p) \/ Connects(p) \/ Disconnects(p)
        \/ IceFails(p) \/ HeartbeatTimeout(p)
  BY DEF Next
<1>2. CASE UNCHANGED <<state_, onceConnected>>
  BY <1>2 DEF Settling, Settles
<1>3. CASE Shut(p)
  BY <1>3 DEF Shut, Settling, Settles, TypeOK, State
<1>4. CASE /\ state_' = [state_ EXCEPT ![p] = "CONNECTING"] /\ UNCHANGED onceConnected
  BY <1>4 DEF Settling, Settles, TypeOK
<1>5. CASE ControlOpened(p)
  BY <1>5 DEF ControlOpened, Settling, Settles, TypeOK
<1>6. CASE onNegotiationNeeded_(p)
  BY <1>6, <1>2, <1>4 DEF onNegotiationNeeded_, promises
<1>7. CASE TieBroken(p)
  BY <1>7, <1>4 DEF TieBroken, promises
<1>8. \A j \in Job : OfferFails(p, j) => Shut(p)
  BY DEF OfferFails, Fails
<1>9. CASE TieNotBroken(p) \/ OfferNotTaken(p) \/ AnswerNotCreated(p) \/ AnswerNotSet(p)
           \/ AnswerNotTaken(p)
  BY <1>9, <1>8, <1>3
  DEF TieNotBroken, OfferNotTaken, AnswerNotCreated, AnswerNotSet, AnswerNotTaken, Job
<1> QED
  BY <1>1, <1>2, <1>3, <1>5, <1>6, <1>7, <1>9
  DEF Step, negotiateConnection, close, Renegotiate, onIceCandidate_, Connects, Disconnects,
      IceFails, HeartbeatTimeout, OfferCreated, OfferNotCreated, ReceiveOffer, OfferTaken,
      AnswerCreated, AnswerSet, ReceiveAnswer, AnswerTaken, ReceiveCandidate, AddCandidate,
      Closed, CloseBrowser, Fails, program, promises

(* The other conjuncts of Settles. *)
LEMMA SettlesStep ==
  ASSUME TypeOK, Signaled, Settles, OffersFirst, Next
  PROVE  Settles'
<1>1. PICK p \in Peer :
        \/ Step(p) \/ negotiateConnection(p) \/ close(p)
        \/ Renegotiate(p) \/ onIceCandidate_(p) \/ Connects(p) \/ Disconnects(p)
        \/ IceFails(p) \/ HeartbeatTimeout(p)
  BY DEF Next
<1> DEFINE Quiet ==
      /\ UNCHANGED <<local, remote, described>>
      /\ \A q \in Peer, j \in Describing : j \in jobs'[q] => j \in jobs[q]
      /\ \A q \in Peer : "breakTie" \in jobs[q] => "breakTie" \in jobs'[q]
<1>2. \A q \in Peer : Settling(q) => Settling(q)'
  BY SettlingKept
<1>3. \A q \in Peer : state_'[q] = "CONNECTED" => onceConnected'[q] # "pending"
  BY SettlingKept
<1>4. CASE Quiet
  BY <1>2, <1>3, <1>4 DEF Settles
<1>6. CASE onNegotiationNeeded_(p)
  <2>1. CASE state_[p] \in {"WAITING", "CONNECTED"}
    <3>1. Settling(p)'
      BY <1>6, <2>1 DEF onNegotiationNeeded_, Settling, TypeOK
    <3>2. DoesThen(p, "negotiate", "createOffer") /\ UNCHANGED <<local, remote, described>>
      BY <1>6, <2>1 DEF onNegotiationNeeded_, network, descriptions
    <3> QED
      BY <3>1, <3>2, <1>2, <1>3 DEF DoesThen, Settles, Describing, TypeOK
  <2>2. CASE state_[p] \notin {"WAITING", "CONNECTED"}
    <3>1. Does(p, "negotiate") /\ UNCHANGED <<local, remote, described>>
      BY <1>6, <2>2 DEF onNegotiationNeeded_, network, descriptions
    <3> QED
      BY <3>1, <1>4 DEF Does, Describing, TypeOK
  <2> QED
    BY <2>1, <2>2
<1>7. CASE OfferCreated(p)
  <2>1. Settling(p) /\ Settling(p)'
    BY <1>7, <1>2 DEF OfferCreated, Does, Settles, Describing
  <2> QED
    BY <1>7, <2>1, <1>2, <1>3 DEF OfferCreated, Does, Settles, Describing, TypeOK
<1>8. CASE ReceiveOffer(p)
  BY <1>8, <1>2, <1>3 DEF ReceiveOffer, Settles, Describing, TypeOK, browser
<1>9. CASE TieBroken(p)
  <2>1. Settling(p)'
    BY <1>9 DEF TieBroken, Settling, TypeOK
  <2> QED
    BY <1>9, <2>1, <1>2, <1>3
    DEF TieBroken, DoesThen, Settles, Describing, TypeOK, network, descriptions
<1>10. CASE TieNotBroken(p)
  <2>1. Settling(p) /\ Settling(p)'
    BY <1>10, <1>2 DEF TieNotBroken, LosesTie, Signaled, Settles
  <2> QED
    BY <1>10, <2>1, <1>2, <1>3
    DEF TieNotBroken, OfferFails, Fails, DoesThen, Settles, Describing, TypeOK, network,
        descriptions
<1>11. CASE OfferTaken(p)
  <2>1. Settling(p) /\ Settling(p)'
    BY <1>11, <1>2 DEF OfferTaken, DoesThen, Settles, Describing
  <2> QED
    BY <1>11, <2>1, <1>2, <1>3 DEF OfferTaken, DoesThen, Settles, Describing, TypeOK, network
<1>12. CASE AnswerCreated(p)
  <2>1. Settling(p) /\ Settling(p)'
    BY <1>12, <1>2 DEF AnswerCreated, DoesThen, Settles, Describing
  <2> QED
    BY <1>12, <2>1, <1>2, <1>3
    DEF AnswerCreated, DoesThen, Settles, Describing, TypeOK, descriptions
<1>13. CASE AnswerSet(p)
  <2>1. Settling(p) /\ Settling(p)'
    BY <1>13, <1>2 DEF AnswerSet, Does, Settles, Describing
  <2> QED
    BY <1>13, <2>1, <1>2, <1>3 DEF AnswerSet, Does, Settles, Describing, TypeOK, network
<1>14. CASE ReceiveAnswer(p)
  <2>1. Under(p, "ANSWER")
    <3>1. net[p] \in Seq(Signal) /\ net[p] # <<>> /\ Head(net[p]) = "ANSWER"
      BY <1>14 DEF ReceiveAnswer, Takes, TypeOK
    <3>2. 1 \in DOMAIN net[p] /\ net[p][1] = "ANSWER"
      BY <3>1
    <3> QED
      BY <3>2 DEF Under
  <2>2. Settling(p) /\ Settling(p)'
    BY <2>1, <1>2 DEF OffersFirst, HasOffered, Settles
  <2> QED
    BY <1>14, <2>2, <1>2, <1>3 DEF ReceiveAnswer, Settles, Describing, TypeOK, browser
<1>15. CASE AnswerTaken(p)
  <2>1. Settling(p) /\ Settling(p)'
    BY <1>15, <1>2 DEF AnswerTaken, Does, OffersFirst, HasOffered, Settles
  <2> QED
    BY <1>15, <2>1, <1>2, <1>3 DEF AnswerTaken, Does, Settles, Describing, TypeOK, network
<1>16. ASSUME NEW j \in Job \ {"breakTie"}, OfferFails(p, j) PROVE Settles'
  <2>1. Quiet
    BY <1>16 DEF OfferFails, Fails, DoesThen, Describing, TypeOK, network, descriptions
  <2> QED
    BY <2>1, <1>4
<1>17. CASE OfferNotTaken(p) \/ AnswerNotCreated(p) \/ AnswerNotSet(p) \/ AnswerNotTaken(p)
  BY <1>17, <1>16
  DEF OfferNotTaken, AnswerNotCreated, AnswerNotSet, AnswerNotTaken, Job
<1>18. CASE OfferNotCreated(p) \/ CloseBrowser(p)
  <2>1. UNCHANGED <<local, remote, described>>
    BY <1>18 DEF OfferNotCreated, CloseBrowser, network, descriptions
  <2>2. DoesThen(p, "createOffer", "close") \/ Does(p, "close")
    BY <1>18 DEF OfferNotCreated, CloseBrowser, Fails
  <2>3. jobs \in [Peer -> SUBSET Job]
    BY DEF TypeOK
  <2>4. CASE Does(p, "close")
    BY <2>1, <2>3, <2>4, <1>4 DEF Does, Describing
  <2>5. CASE DoesThen(p, "createOffer", "close")
    BY <2>1, <2>3, <2>5, <1>4 DEF DoesThen, Describing
  <2> QED
    BY <2>2, <2>4, <2>5
<1>19. CASE \/ ReceiveCandidate(p) \/ AddCandidate(p) \/ ControlOpened(p) \/ onIceCandidate_(p)
            \/ Connects(p) \/ Disconnects(p)
  BY <1>19, <1>4
  DEF ReceiveCandidate, AddCandidate, ControlOpened, onIceCandidate_, Connects, Disconnects,
      network, descriptions, browser
<1>20. CASE \/ negotiateConnection(p) \/ Renegotiate(p) \/ close(p) \/ Closed(p, "close")
            \/ Closed(p, "closed") \/ HeartbeatTimeout(p) \/ IceFails(p)
  <2>1. UNCHANGED <<local, remote, described>>
    BY <1>20
    DEF negotiateConnection, Renegotiate, close, Closed, HeartbeatTimeout, IceFails, network,
        descriptions
  <2>2. \E k \in {"negotiate", "close"} : jobs' = [jobs EXCEPT ![p] = @ \cup {k}]
    BY <1>20 DEF negotiateConnection, Renegotiate, close, Closed, HeartbeatTimeout, IceFails
  <2> QED
    BY <2>1, <2>2, <1>4 DEF Describing, TypeOK
<1> QED
  BY <1>1, <1>6, <1>7, <1>8, <1>9, <1>10, <1>11, <1>12, <1>13, <1>14, <1>15, <1>17, <1>18,
     <1>19, <1>20 DEF Step
-----------------------------------------------------------------------------
(* A signal that is added is the last, one that is taken the first.         *)
LEMMA UnderEmit ==
  ASSUME TypeOK, NEW p \in Peer, NEW s \in Signal, Emit(p, s)
  PROVE  /\ \A q \in Peer, t \in Signal : Under(q, t)' => Under(q, t) \/ (q = Other(p) /\ t = s)
         /\ \A q \in Peer : net[q] # <<>> => net'[q] # <<>> /\ Head(net'[q]) = Head(net[q])
         /\ \A q \in Peer : q # Other(p) => net'[q] = net[q]
         /\ net'[Other(p)] # <<>>
         /\ net[Other(p)] = <<>> => Head(net'[Other(p)]) = s
<1>0. PICK o \in Peer : o = Other(p)
  BY Others
<1>1. net[o] \in Seq(Signal)
  BY <1>0 DEF TypeOK
<1>2. net'[o] = Append(net[o], s) /\ \A q \in Peer : q # o => net'[q] = net[q]
  BY <1>0 DEF Emit, TypeOK
<1>3. \A t \in Signal : (\E i \in DOMAIN net'[o] : net'[o][i] = t) =>
                          (\E i \in DOMAIN net[o] : net[o][i] = t) \/ t = s
  BY <1>1, <1>2
<1>4. /\ net'[o] # <<>>
      /\ net[o] # <<>> => Head(net'[o]) = Head(net[o])
      /\ net[o] = <<>> => Head(net'[o]) = s
  BY <1>1, <1>2
<1>5. ASSUME NEW q \in Peer, NEW t \in Signal, Under(q, t)'
      PROVE  Under(q, t) \/ (q = o /\ t = s)
  <2>1. CASE q = o
    BY <1>3, <1>5, <2>1 DEF Under
  <2>2. CASE q # o
    BY <1>2, <1>5, <2>2 DEF Under
  <2> QED
    BY <2>1, <2>2
<1>6. \A q \in Peer : net[q] # <<>> => net'[q] # <<>> /\ Head(net'[q]) = Head(net[q])
  BY <1>2, <1>4
<1> QED
  BY <1>0, <1>2, <1>4, <1>5, <1>6

LEMMA UnderTakes ==
  ASSUME TypeOK, NEW p \in Peer, NEW s \in Signal, Takes(p, s)
  PROVE  /\ \A q \in Peer, t \in Signal : Under(q, t)' => Under(q, t)
         /\ \A q \in Peer : q # p => net'[q] = net[q]
         /\ Under(p, s) /\ Head(net[p]) = s /\ net[p] # <<>>
<1>1. net[p] \in Seq(Signal) /\ net[p] # <<>> /\ Head(net[p]) = s
  BY DEF TypeOK, Takes
<1>2. net'[p] = Tail(net[p]) /\ \A q \in Peer : q # p => net'[q] = net[q]
  BY DEF Takes, TypeOK
<1>3. \A t \in Signal : (\E i \in DOMAIN net'[p] : net'[p][i] = t) =>
                          (\E i \in DOMAIN net[p] : net[p][i] = t)
  <2> SUFFICES ASSUME NEW t \in Signal, NEW i \in DOMAIN net'[p], net'[p][i] = t
               PROVE  \E k \in DOMAIN net[p] : net[p][k] = t
    OBVIOUS
  <2>1. i + 1 \in DOMAIN net[p] /\ net[p][i + 1] = t
    BY <1>1, <1>2
  <2> QED
    BY <2>1
<1>4. ASSUME NEW q \in Peer, NEW t \in Signal, Under(q, t)'
      PROVE  Under(q, t)
  <2>1. CASE q = p
    BY <1>3, <1>4, <2>1 DEF Under
  <2>2. CASE q # p
    BY <1>2, <1>4, <2>2 DEF Under
  <2> QED
    BY <2>1, <2>2
<1>5. 1 \in DOMAIN net[p] /\ net[p][1] = s
  BY <1>1
<1>6. Under(p, s)
  BY <1>5 DEF Under
<1> QED
  BY <1>1, <1>2, <1>4, <1>6

(* What follows from an offer comes after one.                              *)
LEMMA OffersStep ==
  ASSUME TypeOK, Signaled, OffersFirst, Next
  PROVE  OffersFirst'
<1>1. PICK p \in Peer :
        \/ Step(p) \/ negotiateConnection(p) \/ close(p)
        \/ Renegotiate(p) \/ onIceCandidate_(p) \/ Connects(p) \/ Disconnects(p)
        \/ IceFails(p) \/ HeartbeatTimeout(p)
  BY DEF Next
<1> DEFINE Answering == {"breakTie", "takeOffer", "createAnswer"}
           Kept == \A q \in Peer : local[q] \/ remote[q] => local'[q] \/ remote'[q]
           NoNews == \A q \in Peer, t \in {"OFFER", "ANSWER"} : Under(q, t)' => Under(q, t)
           NoJob(q) == /\ (\E j \in Answering : j \in jobs'[q]) => \E j \in Answering : j \in jobs[q]
                       /\ "takeAnswer" \in jobs'[q] => "takeAnswer" \in jobs[q]
<1>2. /\ Other(p) \in Peer /\ Other(p) # p /\ Other(Other(p)) = p
      /\ \A q \in Peer : q = p \/ q = Other(p)
      /\ \A q \in Peer : Other(q) \in Peer
  BY Others
<1>3. jobs \in [Peer -> SUBSET Job]
  BY DEF TypeOK
<1>4. CASE Kept /\ NoNews /\ (\A q \in Peer : NoJob(q))
  <2>1. \A q \in Peer : HasOffered(q)' => HasOffered(q)
    BY <1>2, <1>4 DEF HasOffered
  <2> QED
    BY <1>4, <2>1 DEF OffersFirst
<1>5. UNCHANGED net => NoNews
  BY DEF Under
<1>6. UNCHANGED <<local, remote>> => Kept
  OBVIOUS
<1>7. CASE OfferCreated(p)
  <2>1. (local'[p] \/ remote'[p]) /\ Kept
    BY <1>7 DEF OfferCreated, Signaled, TypeOK
  <2>2. \A q \in Peer, t \in Signal : Under(q, t)' => Under(q, t) \/ (q = Other(p) /\ t = "OFFER")
    BY <1>7, UnderEmit DEF OfferCreated, Signal
  <2>3. \A q \in Peer : NoJob(q)
    BY <1>3, <1>7 DEF OfferCreated, Does
  <2>4. HasOffered(Other(p))' => HasOffered(Other(p))
    BY <1>2, <2>2, <2>3 DEF HasOffered, Signal
  <2> QED
    BY <1>2, <2>1, <2>4 DEF OffersFirst
<1>8. CASE ReceiveOffer(p)
  <2>1. Kept /\ NoNews /\ Under(p, "OFFER")
    BY <1>8, UnderTakes DEF ReceiveOffer, Signal, browser
  <2>2. NoJob(Other(p)) /\ ("takeAnswer" \in jobs'[p] => "takeAnswer" \in jobs[p])
    BY <1>2, <1>3, <1>8 DEF ReceiveOffer
  <2>3. HasOffered(p)' => HasOffered(p)
    BY <1>2, <2>1, <2>2 DEF HasOffered
  <2>4. HasOffered(Other(p))
    BY <1>2, <2>1 DEF HasOffered
  <2> QED
    BY <1>2, <2>1, <2>3, <2>4 DEF OffersFirst
<1>9. CASE AnswerCreated(p)
  <2>1. Kept /\ \E j \in Answering : j \in jobs[p]
    BY <1>9 DEF AnswerCreated, DoesThen, descriptions
  <2>2. \A q \in Peer, t \in Signal : Under(q, t)' => Under(q, t) \/ (q = Other(p) /\ t = "ANSWER")
    BY <1>9, UnderEmit DEF AnswerCreated, Signal
  <2>3. \A q \in Peer : NoJob(q)
    BY <1>3, <1>9 DEF AnswerCreated, DoesThen
  <2>4. HasOffered(p)' => HasOffered(p)
    BY <1>2, <2>2, <2>3 DEF HasOffered, Signal
  <2>5. HasOffered(Other(p))
    BY <1>2, <2>1 DEF HasOffered
  <2> QED
    BY <1>2, <2>1, <2>4, <2>5 DEF OffersFirst
<1>10. CASE ReceiveAnswer(p)
  <2>1. Kept /\ NoNews /\ Under(p, "ANSWER")
    BY <1>10, UnderTakes DEF ReceiveAnswer, Signal, browser
  <2>2. NoJob(Other(p)) /\ ((\E j \in Answering : j \in jobs'[p]) => \E j \in Answering : j \in jobs[p])
    BY <1>2, <1>3, <1>10 DEF ReceiveAnswer
  <2>3. HasOffered(Other(p))' => HasOffered(Other(p))
    BY <1>2, <2>1, <2>2 DEF HasOffered
  <2>4. HasOffered(p)
    BY <2>1 DEF HasOffered
  <2> QED
    BY <1>2, <2>1, <2>3, <2>4 DEF OffersFirst
<1>11. CASE ReceiveCandidate(p) \/ onIceCandidate_(p)
  <2>1. NoNews
    BY <1>11, UnderEmit, UnderTakes DEF ReceiveCandidate, onIceCandidate_, Signal
  <2>2. UNCHANGED <<jobs, local, remote>>
    BY <1>11 DEF ReceiveCandidate, onIceCandidate_, program, browser, descriptions
  <2> QED
    BY <2>1, <2>2, <1>4
<1>12. CASE TieBroken(p)
  <2>1. UNCHANGED <<net, local, remote>> /\ DoesThen(p, "breakTie", "takeOffer")
    BY <1>12 DEF TieBroken, network, descriptions
  <2>2. \A q \in Peer : NoJob(q)
    BY <1>3, <2>1 DEF DoesThen
  <2> QED
    BY <1>4, <1>5, <1>6, <2>1, <2>2
<1>13. CASE OfferTaken(p)
  <2>1. UNCHANGED <<net, local>> /\ DoesThen(p, "takeOffer", "createAnswer") /\ Kept
    BY <1>13 DEF OfferTaken, network, TypeOK
  <2>2. \A q \in Peer : NoJob(q)
    BY <1>3, <2>1 DEF DoesThen
  <2> QED
    BY <1>4, <1>5, <2>1, <2>2
<1>14. CASE AnswerSet(p) \/ AnswerTaken(p)
  <2>1. UNCHANGED net /\ Kept /\ \E j \in Job : Does(p, j)
    BY <1>14 DEF AnswerSet, AnswerTaken, network, TypeOK, Job
  <2>2. \A q \in Peer : NoJob(q)
    BY <1>3, <2>1 DEF Does
  <2> QED
    BY <1>4, <1>5, <2>1, <2>2
<1>15. ASSUME UNCHANGED <<net, local, remote>>,
              \/ UNCHANGED jobs
              \/ \E j \in Job : Does(p, j)
              \/ \E j \in Job, k \in {"createOffer", "close"} : DoesThen(p, j, k)
              \/ \E k \in {"negotiate", "close"} : jobs' = [jobs EXCEPT ![p] = @ \cup {k}]
       PROVE  OffersFirst'
  <2>1. \A q \in Peer : NoJob(q)
    BY <1>3, <1>15 DEF Does, DoesThen
  <2> QED
    BY <1>4, <1>5, <1>6, <1>15, <2>1
<1>16. CASE onNegotiationNeeded_(p)
  BY <1>16, <1>15 DEF onNegotiationNeeded_, network, descriptions, Job
<1>17. CASE OfferNotCreated(p) \/ CloseBrowser(p)
  BY <1>17, <1>15 DEF OfferNotCreated, CloseBrowser, Fails, network, descriptions, Job
<1>18. CASE \E j \in Job : OfferFails(p, j)
  BY <1>18, <1>15 DEF OfferFails, Fails, network, descriptions
<1>19. CASE TieNotBroken(p) \/ OfferNotTaken(p) \/ AnswerNotCreated(p) \/ AnswerNotSet(p)
            \/ AnswerNotTaken(p)
  BY <1>19, <1>18
  DEF TieNotBroken, OfferNotTaken, AnswerNotCreated, AnswerNotSet, AnswerNotTaken, Job
<1>20. CASE AddCandidate(p) \/ ControlOpened(p) \/ Connects(p) \/ Disconnects(p)
  BY <1>20, <1>15
  DEF AddCandidate, ControlOpened, Connects, Disconnects, network, descriptions, browser
<1>21. CASE \/ negotiateConnection(p) \/ Renegotiate(p) \/ close(p) \/ Closed(p, "close")
            \/ Closed(p, "closed") \/ HeartbeatTimeout(p) \/ IceFails(p)
  <2>1. UNCHANGED <<net, local, remote>>
    BY <1>21
    DEF negotiateConnection, Renegotiate, close, Closed, HeartbeatTimeout, IceFails, network,
        descriptions
  <2>2. \E k \in {"negotiate", "close"} : jobs' = [jobs EXCEPT ![p] = @ \cup {k}]
    BY <1>21 DEF negotiateConnection, Renegotiate, close, Closed, HeartbeatTimeout, IceFails
  <2> QED
    BY <2>1, <2>2, <1>15
<1> QED
  BY <1>1, <1>7, <1>8, <1>9, <1>10, <1>11, <1>12, <1>13, <1>14, <1>16, <1>17, <1>19, <1>20,
     <1>21 DEF Step

(* The first signal to a peer is a description, and is emitted before the   *)
(* description is set.                                                      *)
LEMMA DescribesStep ==
  ASSUME TypeOK, DescribesFirst, Next
  PROVE  DescribesFirst'
<1>1. PICK p \in Peer :
        \/ Step(p) \/ negotiateConnection(p) \/ close(p)
        \/ Renegotiate(p) \/ onIceCandidate_(p) \/ Connects(p) \/ Disconnects(p)
        \/ IceFails(p) \/ HeartbeatTimeout(p)
  BY DEF Next
<1>2. /\ Other(p) \in Peer /\ Other(p) # p /\ Other(Other(p)) = p
      /\ \A q \in Peer : q = p \/ q = Other(p)
      /\ \A q \in Peer : Other(q) \in Peer
  BY Others
<1>3. jobs \in [Peer -> SUBSET Job]
  BY DEF TypeOK
<1> DEFINE NoJob == \A q \in Peer : "setAnswer" \in jobs'[q] => "setAnswer" \in jobs[q]
<1>4. ASSUME UNCHANGED <<net, described, local>>,
             \/ UNCHANGED jobs
             \/ \E j \in Job : Does(p, j)
             \/ \E j \in Job, k \in Job \ {"setAnswer"} : DoesThen(p, j, k)
             \/ \E k \in {"negotiate", "close"} : jobs' = [jobs EXCEPT ![p] = @ \cup {k}]
      PROVE  DescribesFirst'
  <2>1. NoJob
    BY <1>3, <1>4 DEF Does, DoesThen
  <2> QED
    BY <1>2, <1>4, <2>1 DEF DescribesFirst
<1>5. ASSUME NEW s \in {"OFFER", "ANSWER"}, Emit(p, s), UNCHANGED described,
             local'[Other(p)] = local[Other(p)], jobs'[Other(p)] = jobs[Other(p)]
      PROVE  DescribesFirst'
  <2>1. /\ net'[p] = net[p] /\ net'[Other(p)] # <<>>
        /\ net[Other(p)] # <<>> => Head(net'[Other(p)]) = Head(net[Other(p)])
        /\ net[Other(p)] = <<>> => Head(net'[Other(p)]) = s
    BY <1>2, <1>5, UnderEmit DEF Signal
  <2> QED
    BY <1>2, <1>5, <2>1 DEF DescribesFirst
<1>6. CASE OfferCreated(p)
  BY <1>2, <1>3, <1>5, <1>6 DEF OfferCreated, Does, TypeOK
<1>7. CASE AnswerCreated(p)
  BY <1>2, <1>3, <1>5, <1>7 DEF AnswerCreated, DoesThen, descriptions
<1>8. CASE onIceCandidate_(p)
  <2>1. Emit(p, "CANDIDATE") /\ UNCHANGED <<jobs, described, local>> /\ local[p]
    BY <1>8 DEF onIceCandidate_, descriptions
  <2>2. /\ net'[p] = net[p] /\ net'[Other(p)] # <<>>
        /\ net[Other(p)] # <<>> => Head(net'[Other(p)]) = Head(net[Other(p)])
    BY <1>2, <2>1, UnderEmit DEF Signal
  <2> QED
    BY <1>2, <2>1, <2>2 DEF DescribesFirst
<1>9. ASSUME NEW s \in Signal, Takes(p, s), UNCHANGED local,
             jobs'[p] \subseteq jobs[p] \cup {"breakTie", "takeAnswer"},
             jobs'[Other(p)] = jobs[Other(p)],
             described'[p], described'[Other(p)] = described[Other(p)]
      PROVE  DescribesFirst'
  <2>1. net'[Other(p)] = net[Other(p)]
    BY <1>2, <1>9, UnderTakes
  <2>2. "setAnswer" \in jobs'[p] => "setAnswer" \in jobs[p]
    BY <1>9
  <2> QED
    BY <1>2, <1>9, <2>1, <2>2 DEF DescribesFirst
<1>10. CASE ReceiveOffer(p)
  <2>1. Takes(p, "OFFER") /\ UNCHANGED local /\ "OFFER" \in Signal
    BY <1>10 DEF ReceiveOffer, browser, Signal
  <2>2. /\ jobs'[p] \subseteq jobs[p] \cup {"breakTie", "takeAnswer"}
        /\ jobs'[Other(p)] = jobs[Other(p)]
        /\ described'[p] /\ described'[Other(p)] = described[Other(p)]
    BY <1>2, <1>10 DEF ReceiveOffer, TypeOK
  <2> QED
    BY <1>9, <2>1, <2>2
<1>11. CASE ReceiveAnswer(p)
  <2>1. Takes(p, "ANSWER") /\ UNCHANGED local /\ "ANSWER" \in Signal
    BY <1>11 DEF ReceiveAnswer, browser, Signal
  <2>2. /\ jobs'[p] \subseteq jobs[p] \cup {"breakTie", "takeAnswer"}
        /\ jobs'[Other(p)] = jobs[Other(p)]
        /\ described'[p] /\ described'[Other(p)] = described[Other(p)]
    BY <1>2, <1>11 DEF ReceiveAnswer, TypeOK
  <2> QED
    BY <1>9, <2>1, <2>2
<1>12. CASE ReceiveCandidate(p)
  <2>1. Takes(p, "CANDIDATE") /\ UNCHANGED <<local, jobs, described>> /\ "CANDIDATE" \in Signal
    BY <1>12 DEF ReceiveCandidate, browser, Signal
  <2>2. described[p]
    BY <2>1, UnderTakes DEF DescribesFirst
  <2> QED
    BY <1>9, <2>1, <2>2
<1>13. CASE AnswerSet(p)
  <2>1. /\ "setAnswer" \in jobs[p] /\ UNCHANGED <<net, described>>
        /\ local'[Other(p)] = local[Other(p)]
        /\ jobs'[Other(p)] = jobs[Other(p)]
    BY <1>2, <1>13 DEF AnswerSet, Does, network, TypeOK
  <2> QED
    BY <1>2, <2>1 DEF DescribesFirst
<1>14. CASE TieBroken(p) \/ OfferTaken(p) \/ AnswerTaken(p)
  BY <1>14, <1>4 DEF TieBroken, OfferTaken, AnswerTaken, network, descriptions, Job
<1>15. CASE onNegotiationNeeded_(p)
  BY <1>15, <1>4 DEF onNegotiationNeeded_, network, descriptions, Job
<1>16. CASE OfferNotCreated(p) \/ CloseBrowser(p)
  BY <1>16, <1>4 DEF OfferNotCreated, CloseBrowser, Fails, network, descriptions, Job
<1>17. CASE \E j \in Job : OfferFails(p, j)
  BY <1>17, <1>4 DEF OfferFails, Fails, network, descriptions, Job
<1>18. CASE TieNotBroken(p) \/ OfferNotTaken(p) \/ AnswerNotCreated(p) \/ AnswerNotSet(p)
            \/ AnswerNotTaken(p)
  BY <1>18, <1>17
  DEF TieNotBroken, OfferNotTaken, AnswerNotCreated, AnswerNotSet, AnswerNotTaken, Job
<1>19. CASE AddCandidate(p) \/ ControlOpened(p) \/ Connects(p) \/ Disconnects(p)
  BY <1>19, <1>4
  DEF AddCandidate, ControlOpened, Connects, Disconnects, network, descriptions, browser
<1>20. CASE \/ negotiateConnection(p) \/ Renegotiate(p) \/ close(p) \/ Closed(p, "close")
            \/ Closed(p, "closed") \/ HeartbeatTimeout(p) \/ IceFails(p)
  <2>1. UNCHANGED <<net, described, local>>
    BY <1>20
    DEF negotiateConnection, Renegotiate, close, Closed, HeartbeatTimeout, IceFails, network,
        descriptions
  <2>2. \E k \in {"negotiate", "close"} : jobs' = [jobs EXCEPT ![p] = @ \cup {k}]
    BY <1>20 DEF negotiateConnection, Renegotiate, close, Closed, HeartbeatTimeout, IceFails
  <2> QED
    BY <2>1, <2>2, <1>4
<1> QED
  BY <1>1, <1>6, <1>7, <1>8, <1>10, <1>11, <1>12, <1>13, <1>14, <1>15, <1>16, <1>18, <1>19,
     <1>20 DEF Step

LEMMA RemoteStep ==
  ASSUME TypeOK, Signaled, RemoteHad, Next
  PROVE  RemoteHad'
<1>1. PICK p \in Peer :
        \/ Step(p) \/ negotiateConnection(p) \/ close(p)
        \/ Renegotiate(p) \/ onIceCandidate_(p) \/ Connects(p) \/ Disconnects(p)
        \/ IceFails(p) \/ HeartbeatTimeout(p)
  BY DEF Next
<1>2. CASE UNCHANGED <<onceHaveRemoteDescription_, remote>> /\ (UNCHANGED onceClosed \/ Shut(p))
  BY <1>2 DEF RemoteHad, Shut, TypeOK
<1>3. CASE OfferTaken(p)
  BY <1>3 DEF OfferTaken, RemoteHad, promises, TypeOK
<1>4. CASE AnswerSet(p)
  BY <1>4 DEF AnswerSet, HaveRemoteDescription, RemoteHad, Signaled, TypeOK
<1>5. CASE AnswerTaken(p)
  BY <1>5 DEF AnswerTaken, HaveRemoteDescription, RemoteHad, TypeOK
<1>6. CASE \E j \in Job : OfferFails(p, j)
  <2>1. Shut(p) /\ HaveRemoteDescription(p) /\ UNCHANGED remote
    BY <1>6 DEF OfferFails, Fails, descriptions
  <2> QED
    BY <2>1 DEF Shut, HaveRemoteDescription, RemoteHad, TypeOK
<1>7. CASE TieNotBroken(p) \/ OfferNotTaken(p) \/ AnswerNotCreated(p) \/ AnswerNotSet(p)
           \/ AnswerNotTaken(p)
  BY <1>7, <1>6
  DEF TieNotBroken, OfferNotTaken, AnswerNotCreated, AnswerNotSet, AnswerNotTaken, Job
<1> QED
  BY <1>1, <1>2, <1>3, <1>4, <1>5, <1>7
  DEF Step, negotiateConnection, close, Renegotiate, onIceCandidate_, Connects, Disconnects,
      IceFails, HeartbeatTimeout, onNegotiationNeeded_, OfferCreated, OfferNotCreated, Fails,
      ReceiveOffer, TieBroken, AnswerCreated, ReceiveAnswer, ReceiveCandidate, AddCandidate,
      ControlOpened, Closed, CloseBrowser, program, promises, descriptions, browser
-----------------------------------------------------------------------------
LEMMA IInvStep == IInv /\ [Next]_vars => IInv'
<1>1. ASSUME IInv, Next PROVE IInv'
  <2> USE <1>1 DEF IInv
  <2>1. TypeOK'
    BY TypeStep
  <2>2. Signaled' /\ Settles' /\ OffersFirst'
    BY SignaledStep, SettlesStep, OffersStep
  <2>3. DescribesFirst' /\ RemoteHad'
    BY DescribesStep, RemoteStep
  <2> QED
    BY <2>1, <2>2, <2>3
<1>2. ASSUME IInv, UNCHANGED vars PROVE IInv'
  BY <1>2
  DEF vars, IInv, TypeOK, Signaled, Settles, Settling, OffersFirst, HasOffered, Under,
      DescribesFirst, RemoteHad
<1> QED
  BY <1>1, <1>2

(* The inductive invariant. *)
THEOREM Invariance == Spec => []IInv
<1> QED
  BY IInvInit, IInvStep, PTL DEF Spec

(* Signals keep their order and nobody is left waiting for a connection     *)
(* that was tried and is closed (peerconnection.ts:341-343, 36-38).         *)
THEOREM InOrder == Spec => []NegotiationInOrder
<1>1. IInv => NegotiationInOrder
  <2> SUFFICES ASSUME IInv PROVE NegotiationInOrder
    OBVIOUS
  <2>1. DescriptionFirst
    BY DEF IInv, DescribesFirst, DescriptionFirst
  <2>2. TriedMeansSettled
    BY DEF IInv, Settles, Settling, TriedMeansSettled
  <2> QED
    BY <2>1, <2>2 DEF IInv, NegotiationInOrder
<1> QED
  BY <1>1, Invariance, PTL

(* The browser gets no candidate before the remote description, unless the  *)
(* connection is lost (peerconnection.ts:92-94, 494).                       *)
THEOREM CandidatesHeld == Spec => CandidatesWait
<1>1. IInv /\ [Next]_vars =>
        [\A p \in Peer : added'[p] # added[p] => remote[p] \/ onceClosed[p]]_vars
  <2> SUFFICES ASSUME IInv, Next, NEW q \in Peer, added'[q] # added[q]
               PROVE  remote[q] \/ onceClosed[q]
    BY DEF vars
  <2>1. PICK p \in Peer :
          \/ Step(p) \/ negotiateConnection(p) \/ close(p)
          \/ Renegotiate(p) \/ onIceCandidate_(p) \/ Connects(p) \/ Disconnects(p)
          \/ IceFails(p) \/ HeartbeatTimeout(p)
    BY DEF Next
  <2>2. AddCandidate(p)
    BY <2>1
    DEF Step, negotiateConnection, close, Renegotiate, onIceCandidate_, Connects, Disconnects,
        IceFails, HeartbeatTimeout, onNegotiationNeeded_, OfferCreated, OfferNotCreated,
        ReceiveOffer, TieBroken, TieNotBroken, OfferTaken, OfferNotTaken, AnswerCreated,
        AnswerNotCreated, AnswerSet, AnswerNotSet, ReceiveAnswer, AnswerTaken, AnswerNotTaken,
        ReceiveCandidate, ControlOpened, Closed, CloseBrowser, OfferFails, candidates, program
  <2>3. q = p
    BY <2>2 DEF AddCandidate, IInv, TypeOK
  <2> QED
    BY <2>2, <2>3 DEF AddCandidate, IInv, RemoteHad
<1> QED
  BY <1>1, Invariance, PTL DEF Spec, CandidatesWait
=============================================================================
