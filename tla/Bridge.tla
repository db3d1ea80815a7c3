---------------------------------- MODULE Bridge --------------------------------
(* The bridge between a peer connection and the kinds of it that a getter and *)
(* a sharer of different versions know (lib/bridge/bridge.ts), and the choice *)
(* of a kind by version (remote-connection.ts:303-338).  The bridges of one   *)
(* attempt and of the share that answers it, over a network that keeps order. *)
EXTENDS Naturals, Sequences

CONSTANTS
  MaxSignals   \* bound: messages under way to either side

VARIABLES
  version,     \* effectiveMessageVersion of each side
  provider_,   \* type of the provider of each bridge, or "none"
  first_,      \* whether the next signal of each is its first
  handled,     \* whether the provider of each was handed a signal
  ended,       \* onceConnected and onceClosed of each
  signalForPeer  \* what was sent to each and not yet handled

vars == <<version, provider_, first_, handled, ended, signalForPeer>>

Side == {"getter", "sharer"}
Peer(s) == IF s = "getter" THEN "sharer" ELSE "getter"
ProviderType == {"PLAIN", "CHURN", "HOLO_ICE"}
Message == [signals : SUBSET ProviderType, first : BOOLEAN, errorOnLastMessage : BOOLEAN]

TypeOK ==
  /\ version \in [Side -> 2..6]
  /\ provider_ \in [Side -> ProviderType \cup {"none"}]
  /\ first_ \in [Side -> BOOLEAN] /\ handled \in [Side -> BOOLEAN]
  /\ ended \in [Side -> [connected : {"pending", "yes", "no"}, closed : BOOLEAN]]
  /\ signalForPeer \in [Side -> Seq(Message)]

Init ==
  /\ version \in [Side -> 2..6]
  /\ provider_ = [s \in Side |-> "none"]
  /\ first_ = [s \in Side |-> TRUE] /\ handled = [s \in Side |-> FALSE]
  /\ ended = [s \in Side |-> [connected |-> "pending", closed |-> FALSE]]
  /\ signalForPeer = [s \in Side |-> <<>>]

(* startGet: the provider for the lowest version of the two. *)
BRIDGE == 2
CAESAR == 3
PreferredProviderType ==
  LET common == IF version["getter"] < version["sharer"] THEN version["getter"] ELSE version["sharer"]
  IN  IF common = BRIDGE THEN "PLAIN" ELSE IF common = CAESAR THEN "CHURN" ELSE "HOLO_ICE"

(* pickBestProviderType *)
pickBestProviderType(signals) ==
  IF "HOLO_ICE" \in signals THEN "HOLO_ICE"
  ELSE IF "CHURN" \in signals THEN "CHURN" ELSE "PLAIN"

Send(s, m) ==
  /\ Len(signalForPeer[Peer(s)]) < MaxSignals
  /\ signalForPeer' = [signalForPeer EXCEPT ![Peer(s)] = Append(@, m)]

negotiateConnection ==
  /\ provider_["getter"] = "none"
  /\ provider_' = [provider_ EXCEPT !["getter"] = PreferredProviderType]
  /\ UNCHANGED <<version, first_, handled, ended, signalForPeer>>

(* The provider has a signal for its peer: wrapSignal_. *)
Signal(s) ==
  /\ provider_[s] # "none" /\ ~ended[s].closed
  /\ Send(s, [signals |-> {provider_[s]}, first |-> first_[s], errorOnLastMessage |-> FALSE])
  /\ first_' = [first_ EXCEPT ![s] = FALSE]
  /\ UNCHANGED <<version, provider_, handled, ended>>

(* handleSignalMessage: the first signals make the provider; what is not for  *)
(* the provider, or what it does not take, or an error of the peer, is        *)
(* answered by an error.                                                      *)
handleSignalMessage(s) ==
  /\ signalForPeer[s] # <<>>
  /\ LET m == Head(signalForPeer[s])
         type == IF provider_[s] = "none" /\ m.signals # {}
                 THEN pickBestProviderType(m.signals) ELSE provider_[s]
         rest == [signalForPeer EXCEPT ![s] = Tail(@)] IN
     /\ provider_' = [provider_ EXCEPT ![s] = type]
     /\ \E taken \in BOOLEAN : IF type \in m.signals /\ taken
          THEN /\ handled' = [handled EXCEPT ![s] = TRUE] /\ signalForPeer' = rest
          ELSE /\ Len(rest[Peer(s)]) < MaxSignals /\ UNCHANGED handled
               /\ signalForPeer' = [rest EXCEPT ![Peer(s)] = Append(@,
                    [signals |-> {}, first |-> FALSE, errorOnLastMessage |-> TRUE])]
  /\ UNCHANGED <<version, first_, ended>>

(* The providers connect, when each has heard of the other. *)
Connected ==
  /\ \A s \in Side : handled[s] /\ ~ended[s].closed
  /\ provider_["getter"] = provider_["sharer"]
  /\ ended' = [s \in Side |-> [ended[s] EXCEPT !.connected = "yes"]]
  /\ UNCHANGED <<version, provider_, first_, handled, signalForPeer>>

(* close, and the end of the provider.  Without one onceConnected rejects.    *)
close(s) ==
  /\ ~ended[s].closed
  /\ ended' = [ended EXCEPT ![s] =
       [connected |-> IF @.connected = "pending" THEN "no" ELSE @.connected, closed |-> TRUE]]
  /\ UNCHANGED <<version, provider_, first_, handled, signalForPeer>>

Lose(s) ==
  /\ signalForPeer[s] # <<>>
  /\ signalForPeer' = [signalForPeer EXCEPT ![s] = Tail(@)]
  /\ UNCHANGED <<version, provider_, first_, handled, ended>>

Next ==
  \/ negotiateConnection \/ Connected
  \/ \E s \in Side : Signal(s) \/ handleSignalMessage(s) \/ close(s) \/ Lose(s)

Spec == Init /\ [][Next]_vars

------------------------------------------------------------------------------
(* Whatever the versions of the two sides, and whatever is lost, they use the *)
(* same kind of peer connection (bridge.ts:279).                              *)
SameProvider ==
  provider_["getter"] # "none" /\ provider_["sharer"] # "none" =>
    provider_["getter"] = provider_["sharer"]

(* An error is not answered: "there was an error processing the previous      *)
(* message" (bridge.ts:70) is said of a signal.  The code answers each error  *)
(* with another, for as long as both sides last.                              *)
ErrorsEnd ==
  [][\A s \in Side :
       /\ signalForPeer[s] # <<>> /\ Head(signalForPeer[s]).errorOnLastMessage
       /\ Len(signalForPeer'[s]) < Len(signalForPeer[s])
       => Len(signalForPeer'[Peer(s)]) <= Len(signalForPeer[Peer(s)])]_signalForPeer
================================================================================
