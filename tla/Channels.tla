------------------------------- MODULE Channels -------------------------------
(* The table of data channels of one peer connection (webrtc/peerconnection):  *)
(* who enters it, when a channel leaves it, and the limit read from the        *)
(* session descriptions.  PeerConnection.tla models the signalling.            *)
EXTENDS Integers, FiniteSets

CONSTANTS
  Channel,      \* the data channels that are ever made
  Label,        \* of channels other than the control channel
  Control,      \* CONTROL_CHANNEL_LABEL
  None,
  LabelsOnce,   \* no label is given to two channels
  Maxima,       \* what an a=sctpmap line can say
  MaxSdp        \* bound on the descriptions

VARIABLES
  stage,        \* of a channel: none, creating, wrapping, listed or unlisted
  label, ours,
  shut,         \* the browser has fired onclose
  channels_,    \* by label
  maxChannels_, sdps,
  control,      \* onceOpened of the registered control channel: None, or the channel
  state_

vars == <<stage, label, ours, shut, channels_, maxChannels_, sdps, control, state_>>
signalling == <<maxChannels_, sdps>>

Labels == Label \union {Control}
Unlimited == 65536

TypeOK ==
  /\ stage \in [Channel -> {"none", "creating", "wrapping", "listed", "unlisted"}]
  /\ label \in [Channel -> Labels \union {None}]
  /\ ours \in [Channel -> BOOLEAN] /\ shut \in [Channel -> BOOLEAN]
  /\ channels_ \in [Labels -> Channel \union {None}]
  /\ maxChannels_ \in Maxima \union {Unlimited} /\ sdps \subseteq Maxima
  /\ control \in Channel \union {None}
  /\ state_ \in {"CONNECTING", "CONNECTED", "CLOSED"}

Init ==
  /\ stage = [c \in Channel |-> "none"] /\ label = [c \in Channel |-> None]
  /\ ours = [c \in Channel |-> FALSE] /\ shut = [c \in Channel |-> FALSE]
  /\ channels_ = [l \in Labels |-> None]
  /\ maxChannels_ = Unlimited /\ sdps = {}
  /\ control = None /\ state_ = "CONNECTING"

Count == Cardinality({l \in Labels : channels_[l] # None})
Fresh(l) == LabelsOnce => \A c \in Channel : label[c] # l
Starts(c, l, byUs, at) ==
  /\ stage[c] = "none" /\ Fresh(l)
  /\ stage' = [stage EXCEPT ![c] = at]
  /\ label' = [label EXCEPT ![c] = l] /\ ours' = [ours EXCEPT ![c] = byUs]
  /\ UNCHANGED <<shut, channels_, signalling, control, state_>>

(* openDataChannel: refused when the table is full now; the browser makes the  *)
(* channel later.                                                              *)
openDataChannel(c, l) ==
  state_ # "CLOSED" /\ Count < maxChannels_ /\ Starts(c, l, TRUE, "creating")

(* negotiateConnection, of a connection that waits: the control channel, which *)
(* is made without a look at the maximum.                                      *)
negotiateConnection(c) ==
  /\ state_ = "CONNECTING" /\ \A d \in Channel : label[d] # Control
  /\ Starts(c, Control, TRUE, "creating")

(* createDataChannel resolves, and createFromFreedomId starts. *)
Created(c) ==
  /\ stage[c] = "creating"
  /\ stage' = [stage EXCEPT ![c] = "wrapping"]
  /\ UNCHANGED <<label, ours, shut, channels_, signalling, control, state_>>

(* onPeerStartedDataChannel_: the limit is the other side's. *)
onPeerStartedDataChannel_(c, l) ==
  state_ # "CLOSED" /\ Starts(c, l, FALSE, "wrapping")

(* registerControlChannel_, of the channel either side opened. *)
registerControlChannel_(c) ==
  control' = IF label[c] = Control THEN c ELSE control

(* Mutant: a channel closed while it was wrapped is never taken out. *)
addRtcDataChannel__early(c) ==
  /\ stage[c] = "wrapping"
  /\ stage' = [stage EXCEPT ![c] = IF shut[c] THEN "unlisted" ELSE "listed"]
  /\ channels_' = [channels_ EXCEPT ![label[c]] = c]
  /\ registerControlChannel_(c)
  /\ UNCHANGED <<label, ours, shut, signalling, state_>>

(* addRtcDataChannel_, once the wrapper has its label: the entry is made even  *)
(* for a channel that has closed, and it is then deleted.                      *)
addRtcDataChannel_(c) ==
  /\ stage[c] = "wrapping"
  /\ stage' = [stage EXCEPT ![c] = "listed"]
  /\ channels_' = [channels_ EXCEPT ![label[c]] = c]
  /\ registerControlChannel_(c)
  /\ UNCHANGED <<label, ours, shut, signalling, state_>>

(* onceOpened of the control channel, rejected when it closed first. *)
ControlOpens ==
  /\ control # None /\ ~shut[control] /\ state_ = "CONNECTING"
  /\ state_' = "CONNECTED"
  /\ UNCHANGED <<stage, label, ours, shut, channels_, signalling, control>>

(* The browser closes a channel: the peer asked, or the connection closed. *)
Closes(c) ==
  /\ stage[c] \in {"wrapping", "listed"} /\ ~shut[c]
  /\ shut' = [shut EXCEPT ![c] = TRUE]
  /\ UNCHANGED <<stage, label, ours, channels_, signalling, control, state_>>

(* onceClosed of a wrapped channel: the entry goes by its label; the end of    *)
(* the control channel closes the connection.                                  *)
OnceClosed(c) ==
  /\ stage[c] = "listed" /\ shut[c]
  /\ stage' = [stage EXCEPT ![c] = "unlisted"]
  /\ channels_' = [channels_ EXCEPT ![label[c]] = None]
  /\ state_' = IF control = c THEN "CLOSED" ELSE state_
  /\ UNCHANGED <<label, ours, shut, signalling, control>>

(* updateMaxChannels_ of a description whose sctpmap line extractMaxChannels-  *)
(* FromSdp_ can read; any other leaves the maximum.                            *)
updateMaxChannels_(max) ==
  /\ state_ # "CLOSED" /\ Cardinality(sdps) < MaxSdp
  /\ maxChannels_' = IF max < maxChannels_ THEN max ELSE maxChannels_
  /\ sdps' = sdps \union {max}
  /\ UNCHANGED <<stage, label, ours, shut, channels_, control, state_>>

(* close, called from outside: PeerConnection.tla has its other effects. *)
close ==
  /\ state_ # "CLOSED" /\ state_' = "CLOSED"
  /\ UNCHANGED <<stage, label, ours, shut, channels_, signalling, control>>

Next ==
  \/ \E c \in Channel :
       \/ \E l \in Label : openDataChannel(c, l)
       \/ \E l \in Labels : onPeerStartedDataChannel_(c, l)
       \/ negotiateConnection(c) \/ Created(c) \/ addRtcDataChannel_(c) \/ Closes(c) \/ OnceClosed(c)
  \/ ControlOpens \/ close
  \/ \E max \in Maxima : updateMaxChannels_(max)

Spec == Init /\ [][Next]_vars

(* Whatever closes while it is being wrapped, the table lists no channel whose *)
(* close was handled, and lists every other, unless two share a label.         *)
TableIsTrue ==
  /\ \A l \in Labels : channels_[l] # None => stage[channels_[l]] = "listed"
  /\ \A c \in Channel : stage[c] = "listed" =>
       \/ channels_[label[c]] = c
       \/ \E d \in Channel \ {c} : label[d] = label[c]

(* "All open data channels associated with this peerconnection"                *)
(* (peerconnection.ts:167): not when labels come back, for the end of the old  *)
(* channel deletes the entry of the new one.                                   *)
AllOpenListed ==
  \A c \in Channel : stage[c] = "listed" /\ ~shut[c] =>
    \E l \in Labels : channels_[l] = c

(* The table never holds more than the maximum: not when channels are asked    *)
(* for before the first of them is listed, or when the peer opens them.        *)
WithinMaximum == Count <= maxChannels_
===============================================================================
