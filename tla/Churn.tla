---------------------------------- MODULE Churn ---------------------------------
(* The obfuscated connection (lib/churn/churn.ts) of an offerer and of an      *)
(* answerer: a probe connection gathers the candidates of a peer, which are    *)
(* announced as they come; once the probe is closed and the transformer known, *)
(* a pipe is bound to the same ports and stands in the middle of a second,     *)
(* obfuscated connection.  A candidate is the port behind it; the lines the    *)
(* peers signal keep their order; the probe, the browser and the pipe answer   *)
(* later.                                                                      *)
EXTENDS Naturals, Sequences, FiniteSets

CONSTANTS
  Candidate,           \* the candidates a probe may find
  SkipPublicEndpoint,  \* skipPublicEndpoint_
  MaxCloses            \* bound: peers that close

VARIABLES
  probe,               \* of each peer's probe connection
  candidates,          \* what the probe found: the array processProbeCandidates_ is given
  candidateQueue_,     \* found, not yet signalled
  described,           \* whether the peer's own description was signalled (mid_ is known)
  config,              \* onceHaveTransformerConfig_
  pipe_,               \* "none", "made", "have" (onceHavePipe_) or "failed" (it never comes)
  bound,               \* bindLocal
  onceHavePipe_,       \* what waits for the pipe, in order
  binding,             \* bindRemote calls the pipe has not answered
  remoteCandidates_,   \* announced by the other peer
  heard,               \* what the obfuscated connection was handed
  signals,             \* under way to each peer
  closed               \* close() was called

vars == <<probe, candidates, candidateQueue_, described, config, pipe_, bound, onceHavePipe_,
          binding, remoteCandidates_, heard, signals, closed>>

Peer == {"offerer", "answerer"}
Other(p) == IF p = "offerer" THEN "answerer" ELSE "offerer"

Message == {"transformer", "description"} \cup Candidate

TypeOK ==
  /\ probe \in [Peer -> {"gathering", "ended", "closing", "closed"}]
  /\ candidates \in [Peer -> SUBSET Candidate]
  /\ candidateQueue_ \in [Peer -> Seq(Candidate)]
  /\ described \in [Peer -> BOOLEAN] /\ config \in [Peer -> BOOLEAN]
  /\ pipe_ \in [Peer -> {"none", "made", "have", "failed"}]
  /\ bound \in [Peer -> SUBSET Candidate]
  /\ onceHavePipe_ \in [Peer -> Seq(Message)]
  /\ binding \in [Peer -> SUBSET Candidate]
  /\ remoteCandidates_ \in [Peer -> SUBSET Candidate]
  /\ heard \in [Peer -> SUBSET Message]
  /\ signals \in [Peer -> Seq(Message)]
  /\ closed \in [Peer -> BOOLEAN]

(* The constructor, and negotiateConnection of the offerer: the transformer is *)
(* signalled before anything else, and the obfuscated connection asked for an  *)
(* offer.                                                                      *)
Init ==
  /\ probe = [p \in Peer |-> "gathering"]
  /\ candidates = [p \in Peer |-> {}] /\ candidateQueue_ = [p \in Peer |-> <<>>]
  /\ described = [p \in Peer |-> FALSE]
  /\ config = [p \in Peer |-> p = "offerer"]
  /\ pipe_ = [p \in Peer |-> "none"] /\ bound = [p \in Peer |-> {}]
  /\ onceHavePipe_ = [p \in Peer |-> <<>>] /\ binding = [p \in Peer |-> {}]
  /\ remoteCandidates_ = [p \in Peer |-> {}] /\ heard = [p \in Peer |-> {}]
  /\ signals = [p \in Peer |-> IF p = "answerer" THEN <<"transformer">> ELSE <<>>]
  /\ closed = [p \in Peer |-> FALSE]

Tell(p, ms) == signals' = [signals EXCEPT ![Other(p)] = @ \o ms]

(* A candidate of the probe: kept for the pipe, and announced under the mid of *)
(* the obfuscated connection, once there is one.                               *)
Found(p, c) ==
  /\ probe[p] \in {"gathering", "closing"} /\ c \notin candidates[p]
  /\ candidates' = [candidates EXCEPT ![p] = @ \cup {c}]
  /\ IF described[p]
     THEN /\ Tell(p, <<c>>)
          /\ UNCHANGED candidateQueue_
     ELSE /\ candidateQueue_' = [candidateQueue_ EXCEPT ![p] = Append(@, c)]
          /\ UNCHANGED signals
  /\ UNCHANGED <<probe, described, config, pipe_, bound, onceHavePipe_, binding,
                 remoteCandidates_, heard, closed>>

(* No more candidates, or the three seconds are over while some still come:    *)
(* the probe is closed, which takes the browser a while.                       *)
ProbingComplete(p) ==
  /\ probe[p] = "gathering"
  /\ \E to \in {"ended", "closing"} : probe' = [probe EXCEPT ![p] = to]
  /\ UNCHANGED <<candidates, candidateQueue_, described, config, pipe_, bound, onceHavePipe_,
                 binding, remoteCandidates_, heard, signals, closed>>

ProbeCloses(p) ==
  /\ probe[p] \in {"ended", "closing"}
  /\ probe' = [probe EXCEPT ![p] = "closed"]
  /\ UNCHANGED <<candidates, candidateQueue_, described, config, pipe_, bound, onceHavePipe_,
                 binding, remoteCandidates_, heard, signals, closed>>

(* configurePipe_: the ports are free again, and the transformer is known. *)
configurePipe_(p) ==
  /\ probe[p] = "closed" /\ config[p] /\ pipe_[p] = "none"
  /\ pipe_' = [pipe_ EXCEPT ![p] = "made"]
  /\ UNCHANGED <<probe, candidates, candidateQueue_, described, config, bound, onceHavePipe_,
                 binding, remoteCandidates_, heard, signals, closed>>

(* processProbeCandidates_, once the transformer is set: every candidate found *)
(* is bound, the best one is signalled for older peers, and the pipe is there. *)
(* Without a candidate the choice of the best one throws, and the pipe is      *)
(* never had.                                                                  *)
processProbeCandidates_(p) ==
  /\ pipe_[p] = "made"
  /\ bound' = [bound EXCEPT ![p] = candidates[p]]
  /\ IF SkipPublicEndpoint
     THEN /\ pipe_' = [pipe_ EXCEPT ![p] = "have"]
          /\ UNCHANGED signals
     ELSE IF candidates[p] = {}
     THEN /\ pipe_' = [pipe_ EXCEPT ![p] = "failed"]
          /\ UNCHANGED signals
     ELSE /\ \E best \in candidates[p] : Tell(p, <<best>>)
          /\ pipe_' = [pipe_ EXCEPT ![p] = "have"]
  /\ UNCHANGED <<probe, candidates, candidateQueue_, described, config, onceHavePipe_,
                 binding, remoteCandidates_, heard, closed>>

(* The obfuscated connection has its description: an offerer's by itself, an   *)
(* answerer's for the offer it heard.  The candidates that waited for the mid  *)
(* follow it.                                                                  *)
Describes(p) ==
  /\ ~described[p] /\ ~closed[p]
  /\ p = "offerer" \/ "description" \in heard[p]
  /\ described' = [described EXCEPT ![p] = TRUE]
  /\ Tell(p, <<"description">> \o candidateQueue_[p])
  /\ candidateQueue_' = [candidateQueue_ EXCEPT ![p] = <<>>]
  /\ UNCHANGED <<probe, candidates, config, pipe_, bound, onceHavePipe_, binding,
                 remoteCandidates_, heard, closed>>

(* Mutant: a candidate that comes before the pipe is only remembered. *)
handleSignalMessage_drops(p) ==
  /\ signals[p] # <<>>
  /\ LET m == Head(signals[p])
     IN  /\ config' = [config EXCEPT ![p] = @ \/ m = "transformer"]
         /\ remoteCandidates_' =
              [remoteCandidates_ EXCEPT ![p] = IF m \in Candidate THEN @ \cup {m} ELSE @]
         /\ onceHavePipe_' =
              [onceHavePipe_ EXCEPT ![p] =
                 IF m = "transformer" \/ (m \in Candidate /\ pipe_[p] # "have")
                 THEN @ ELSE Append(@, m)]
  /\ signals' = [signals EXCEPT ![p] = Tail(@)]
  /\ UNCHANGED <<probe, candidates, candidateQueue_, described, pipe_, bound, binding,
                 heard, closed>>

(* handleSignalMessage and addRemoteCandidate_: what concerns the pipe waits   *)
(* for it.                                                                     *)
handleSignalMessage(p) ==
  /\ signals[p] # <<>>
  /\ LET m == Head(signals[p])
     IN  /\ config' = [config EXCEPT ![p] = @ \/ m = "transformer"]
         /\ remoteCandidates_' =
              [remoteCandidates_ EXCEPT ![p] = IF m \in Candidate THEN @ \cup {m} ELSE @]
         /\ onceHavePipe_' =
              [onceHavePipe_ EXCEPT ![p] = IF m = "transformer" THEN @ ELSE Append(@, m)]
  /\ signals' = [signals EXCEPT ![p] = Tail(@)]
  /\ UNCHANGED <<probe, candidates, candidateQueue_, described, pipe_, bound, binding,
                 heard, closed>>

(* The continuations of onceHavePipe_, one by one: a description is handed to  *)
(* the obfuscated connection, a candidate to the pipe, which refuses it while  *)
(* nothing is bound locally.                                                   *)
HavePipe(p) ==
  /\ pipe_[p] = "have" /\ onceHavePipe_[p] # <<>>
  /\ LET m == Head(onceHavePipe_[p])
     IN  IF m = "description"
         THEN /\ heard' = [heard EXCEPT ![p] = @ \cup {m}]
              /\ UNCHANGED binding
         ELSE /\ binding' = [binding EXCEPT ![p] = IF bound[p] = {} THEN @ ELSE @ \cup {m}]
              /\ UNCHANGED heard
  /\ onceHavePipe_' = [onceHavePipe_ EXCEPT ![p] = Tail(@)]
  /\ UNCHANGED <<probe, candidates, candidateQueue_, described, config, pipe_, bound,
                 remoteCandidates_, signals, closed>>

(* onMappingAdded_: the mirror of a known candidate is given to the obfuscated *)
(* connection in its stead.                                                    *)
onMappingAdded_(p, c) ==
  /\ c \in binding[p]
  /\ binding' = [binding EXCEPT ![p] = @ \ {c}]
  /\ heard' = [heard EXCEPT ![p] = IF c \in remoteCandidates_[p] THEN @ \cup {c} ELSE @]
  /\ UNCHANGED <<probe, candidates, candidateQueue_, described, config, pipe_, bound,
                 onceHavePipe_, remoteCandidates_, signals, closed>>

(* close(): the obfuscated connection, and the pipe if there is one.  The      *)
(* probe, its continuation and what waits for the pipe go on.                  *)
close(p) ==
  /\ ~closed[p] /\ Cardinality({q \in Peer : closed[q]}) < MaxCloses
  /\ closed' = [closed EXCEPT ![p] = TRUE]
  /\ pipe_' = [pipe_ EXCEPT ![p] = IF @ = "none" THEN @ ELSE "failed"]
  /\ UNCHANGED <<probe, candidates, candidateQueue_, described, config, bound, onceHavePipe_,
                 binding, remoteCandidates_, heard, signals>>

Step(p) ==
  \/ ProbingComplete(p) \/ ProbeCloses(p)
  \/ configurePipe_(p) \/ processProbeCandidates_(p)
  \/ Describes(p) \/ handleSignalMessage(p) \/ HavePipe(p)
  \/ \E c \in Candidate : onMappingAdded_(p, c)

Next ==
  \E p \in Peer : Step(p) \/ close(p) \/ \E c \in Candidate : Found(p, c)

Spec == Init /\ [][Next]_vars

(* Nothing is under way: the only steps left are a candidate or a close. *)
Quiet ==
  \A p \in Peer :
    /\ probe[p] = "closed" /\ pipe_[p] \in {"have", "failed"}
    /\ signals[p] = <<>> /\ binding[p] = {} /\ (pipe_[p] = "have" => onceHavePipe_[p] = <<>>)
    /\ described[p] \/ (p = "answerer" /\ "description" \notin heard[p])

(* The data of both obfuscated connections can pass: when all is quiet and     *)
(* nobody closed, a peer with a pipe has bound every port it announced, late   *)
(* ones of a timed-out probe included, and, if it has any, has given the       *)
(* browser the offer or the answer and a mirror for every candidate of the     *)
(* other peer (churn.ts:284-342, 358-371, 475-515).                            *)
Established ==
  (Quiet /\ \A p \in Peer : ~closed[p] /\ pipe_[p] = "have")
    => \A p \in Peer :
         /\ bound[p] = candidates[p]
         /\ "description" \in heard[p]
         /\ bound[p] # {} => candidates[Other(p)] \subseteq heard[p]

(* What close() leaves: a pipe that is made after it keeps its sockets for     *)
(* ever (churn.ts:524-534 against 284-291).                                    *)
NothingLeft == \A p \in Peer : closed[p] => pipe_[p] # "have"
==================================================================================
