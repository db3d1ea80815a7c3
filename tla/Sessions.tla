------------------------------ MODULE Sessions ------------------------------
(***************************************************************************)
(* src/lib/socks-to-rtc/socks-to-rtc.ts and src/lib/rtc-to-net/             *)
(* rtc-to-net.ts: SOCKS clients of the getter, the sessions that serve them *)
(* at both peers, the pooled channels between, and the connections to the   *)
(* web.                                                                     *)
(*                                                                          *)
(* A channel is that of DataPool, seen from its users: a CLOSE is answered  *)
(* when all before it is handled, and the ends are then free to be opened   *)
(* again under the same label.  The channel object of the sharer is the     *)
(* same for all sessions of a label.  Each message names the session that   *)
(* sent it (model only).  A promise that waits for this side only (a        *)
(* message handed to the browser, a packet to a socket) is fulfilled before *)
(* any answer of the other peer to it can arrive.                           *)
(*                                                                          *)
(* Overflow, the counting of bytes, and proxying through another SOCKS      *)
(* server (reproxy) are left out.                                           *)
(***************************************************************************)
EXTENDS Naturals, Sequences, FiniteSets

CONSTANTS
  MaxClients,    \* bound: SOCKS clients, numbered as they connect
  Label,         \* bound: the data channels
  None,
  SESSION_LIMIT, \* live sessions of the getter's user at the sharer
  MaxOthers,     \* bound: those of another RtcToNet of the same user
  MaxPackets,    \* bound: packets of a client, the two of its handshake included
  MaxAnswers     \* bound: packets of the web to a client

ASSUME SessionsAssumption ==
  /\ MaxClients \in Nat
  /\ None \notin Nat \cup Label
  /\ SESSION_LIMIT \in Nat \ {0}
  /\ MaxOthers \in 0..SESSION_LIMIT
  /\ MaxPackets \in Nat
  /\ MaxAnswers \in Nat

Client == 1..MaxClients

VARIABLES
  server,      \* the getter's tcp server: listening, closing, shut
  client,      \* its connection to a client: none, open, gone (by the client), closed
  fromClient,  \* packets in its dataFromSocketQueue
  clientSent,  \* packets the client has sent
  clientGot,   \* packets of the web the client has been sent
  getter,      \* the getter's session
  label,       \* the label of the channel of a session
  gEnd, sEnd,  \* the ends of a channel at the getter and the sharer
  gUser, sUser,        \* the sessions that use them
  toSharer, toGetter,  \* the messages not yet handled at each end
  sharer,      \* the sharer's session
  web,         \* its connection to the web: none, connecting, open, gone (by the web),
               \* abandoned (closed before its connect is answered), closing, closed
  fromWeb,     \* packets in its dataFromSocketQueue
  webSent,     \* packets the web has sent
  webGot,      \* packets of the client the web has been sent
  sessions_,   \* RtcToNet: the sessions by label
  numSessions_,        \* of the user
  others,      \* those of the user that are not of this RtcToNet (they do not change)
  lost         \* the peers whose peer connection is closed

getting == <<server, client, fromClient, clientSent, clientGot, getter, label, gEnd, gUser>>
sharing == <<sharer, web, fromWeb, webSent, webGot, sessions_, numSessions_, sEnd, sUser>>
vars == <<getting, sharing, toSharer, toGetter, others, lost>>

EndState == {"none", "OPEN", "CLOSING", "CLOSED", "PERMANENTLY_CLOSED"}
Message == [kind : {"OPEN", "CLOSE", "request", "succeeded", "failure", "data"},
            from : Client \cup {None}]

TypeOK ==
  /\ server \in {"listening", "closing", "shut"}
  /\ client \in [Client -> {"none", "open", "gone", "closed"}]
  /\ fromClient \in [Client -> Nat]
  /\ clientSent \in [Client -> 0..MaxPackets]
  /\ clientGot \in [Client -> Nat]
  /\ getter \in [Client -> {"none", "opening", "failed", "auth", "request", "response",
                            "replying", "linked", "stopped"}]
  /\ label \in [Client -> Label \cup {None}]
  /\ gEnd \in [Label -> EndState] /\ sEnd \in [Label -> EndState]
  /\ gUser \in [Label -> Client \cup {None}] /\ sUser \in [Label -> Client \cup {None}]
  /\ toSharer \in [Label -> Seq(Message)] /\ toGetter \in [Label -> Seq(Message)]
  /\ sharer \in [Client -> {"none", "refused", "waiting", "connecting", "linked", "stopping",
                            "stopped"}]
  /\ web \in [Client -> {"none", "connecting", "abandoned", "open", "gone", "closing", "closed"}]
  /\ fromWeb \in [Client -> Nat]
  /\ webSent \in [Client -> 0..MaxAnswers]
  /\ webGot \in [Client -> Nat]
  /\ sessions_ \in [Label -> Client \cup {None}]
  /\ numSessions_ \in 0..SESSION_LIMIT
  /\ others \in 0..MaxOthers
  /\ lost \subseteq {"getter", "sharer"}

Init ==
  /\ server = "listening"
  /\ client = [c \in Client |-> "none"]
  /\ fromClient = [c \in Client |-> 0]
  /\ clientSent = [c \in Client |-> 0]
  /\ clientGot = [c \in Client |-> 0]
  /\ getter = [c \in Client |-> "none"]
  /\ label = [c \in Client |-> None]
  /\ gEnd = [l \in Label |-> "none"] /\ sEnd = [l \in Label |-> "none"]
  /\ gUser = [l \in Label |-> None] /\ sUser = [l \in Label |-> None]
  /\ toSharer = [l \in Label |-> <<>>] /\ toGetter = [l \in Label |-> <<>>]
  /\ sharer = [c \in Client |-> "none"]
  /\ web = [c \in Client |-> "none"]
  /\ fromWeb = [c \in Client |-> 0]
  /\ webSent = [c \in Client |-> 0]
  /\ webGot = [c \in Client |-> 0]
  /\ sessions_ = [l \in Label |-> None]
  /\ others \in 0..MaxOthers
  /\ numSessions_ = others
  /\ lost = {}

Msg(kind, c) == [kind |-> kind, from |-> c]
Times(n, m) == [i \in 1..n |-> m]

(* The channel as its user sees it: what is sent on an open end goes out,   *)
(* and is refused otherwise; closing it sends a CLOSE after all that.       *)
Says(box, end, l, messages) ==
  box' = [box EXCEPT ![l] = IF end[l] = "OPEN" THEN @ \o messages ELSE @]
SaysAndCloses(box, end, l, c, messages) ==
  /\ Says(box, end, l, messages \o <<Msg("CLOSE", c)>>)
  /\ end' = [end EXCEPT ![l] = IF @ = "OPEN" THEN "CLOSING" ELSE @]
Takes(box, l) == box' = [box EXCEPT ![l] = Tail(@)]
-----------------------------------------------------------------------------
(* The getter: SocksToRtc and its sessions. *)

(* stopResources_, the channel apart: the client's connection is closed. *)
StopGetter(S) ==
  /\ getter' = [c \in Client |-> IF c \in S THEN "stopped" ELSE getter[c]]
  /\ client' = [c \in Client |-> IF c \in S /\ client[c] = "open" THEN "closed" ELSE client[c]]

(* Mutant: a session that stops leaves its channel open. *)
EndGetter_leaves(c) ==
  /\ StopGetter({c})
  /\ UNCHANGED <<toSharer, gEnd>>

(* fulfillStopping_ of session c. *)
EndGetter(c) ==
  /\ StopGetter({c})
  /\ SaysAndCloses(toSharer, gEnd, label[c], c, <<>>)

(* makeTcpToRtcSession_: a channel of the pool is opened at once. *)
Uses(c, l) ==
  /\ getter' = [getter EXCEPT ![c] = "auth"]
  /\ label' = [label EXCEPT ![c] = l]
  /\ gEnd' = [gEnd EXCEPT ![l] = "OPEN"]
  /\ gUser' = [gUser EXCEPT ![l] = c]
  /\ toSharer' = [toSharer EXCEPT ![l] = Append(@, Msg("OPEN", c))]

makeTcpToRtcSession_(c) ==
  /\ server # "shut"
  /\ client[c] = "none"
  /\ \A d \in 1..(c - 1) : client[d] # "none"
  /\ client' = [client EXCEPT ![c] = "open"]
  /\ IF "getter" \notin lost /\ \E l \in Label : gEnd[l] = "CLOSED"
     THEN \E l \in Label : gEnd[l] = "CLOSED" /\ Uses(c, l)
     ELSE /\ getter' = [getter EXCEPT ![c] = "opening"]
          /\ UNCHANGED <<label, gEnd, gUser, toSharer>>
  /\ UNCHANGED <<server, fromClient, clientSent, clientGot, sharing, toGetter, others, lost>>

ChannelOpened(c) ==
  /\ getter[c] = "opening"
  /\ "getter" \notin lost
  /\ \E l \in Label : gEnd[l] = "none" /\ Uses(c, l)
  /\ UNCHANGED <<server, client, fromClient, clientSent, clientGot, sharing, toGetter, others,
                 lost>>

(* The client is sent a FAILURE and its connection is left open. *)
ChannelNotOpened(c) ==
  /\ getter[c] = "opening"
  /\ getter' = [getter EXCEPT ![c] = "failed"]
  /\ UNCHANGED <<server, client, fromClient, clientSent, clientGot, label, gEnd, gUser, sharing,
                 toSharer, toGetter, others, lost>>

Packet(c) == fromClient[c] > 0
NoPacket(c) == fromClient[c] = 0 /\ client[c] # "open"

doAuthHandshake_(c) ==
  /\ getter[c] = "auth"
  /\ Packet(c)
  /\ getter' = [getter EXCEPT ![c] = "request"]
  /\ fromClient' = [fromClient EXCEPT ![c] = @ - 1]
  /\ UNCHANGED <<server, client, clientSent, clientGot, label, gEnd, gUser, sharing, toSharer,
                 toGetter, others, lost>>

(* A packet that is no handshake, or none to come. *)
AuthFails(c) ==
  /\ getter[c] = "auth"
  /\ Packet(c) \/ NoPacket(c)
  /\ EndGetter(c)
  /\ UNCHANGED <<server, fromClient, clientSent, clientGot, label, gUser, sharing, toGetter,
                 others, lost>>

doRequestHandshake_(c) ==
  /\ getter[c] = "request"
  /\ Packet(c)
  /\ gEnd[label[c]] = "OPEN"
  /\ getter' = [getter EXCEPT ![c] = "response"]
  /\ fromClient' = [fromClient EXCEPT ![c] = @ - 1]
  /\ Says(toSharer, gEnd, label[c], <<Msg("request", c)>>)
  /\ UNCHANGED <<server, client, clientSent, clientGot, label, gEnd, gUser, sharing, toGetter,
                 others, lost>>

(* The session waits for its response to be sent: for ever, if the client   *)
(* is gone.                                                                 *)
WaitsForClient(c) ==
  /\ getter' = [getter EXCEPT ![c] = "replying"]
  /\ UNCHANGED <<client, gEnd, toSharer>>

(* A packet that is no request, or none to come: FAILURE. *)
RequestFails(c) ==
  /\ getter[c] = "request"
  /\ Packet(c) \/ NoPacket(c)
  /\ IF client[c] = "open" THEN EndGetter(c) ELSE WaitsForClient(c)
  /\ UNCHANGED <<server, fromClient, clientSent, clientGot, label, gUser, sharing, toGetter,
                 others, lost>>

(* linkSocketAndChannel_: the packets that wait are sent on. *)
LinkGetter(c) ==
  /\ getter' = [getter EXCEPT ![c] = "linked"]
  /\ fromClient' = [fromClient EXCEPT ![c] = 0]
  /\ Says(toSharer, gEnd, label[c], Times(fromClient[c], Msg("data", c)))
  /\ UNCHANGED <<client, gEnd>>

(* The sharer's response; one that cannot be understood is a FAILURE. *)
ReceiveResponse(l) ==
  LET c == gUser[l] IN
  /\ gEnd[l] = "OPEN"
  /\ toGetter[l] # <<>> /\ Head(toGetter[l]).kind # "CLOSE"
  /\ getter[c] = "response"
  /\ IF client[c] # "open"
     THEN WaitsForClient(c) /\ UNCHANGED fromClient
     ELSE IF Head(toGetter[l]).kind = "succeeded"
          THEN LinkGetter(c)
          ELSE EndGetter(c) /\ UNCHANGED fromClient
  /\ Takes(toGetter, l)
  /\ UNCHANGED <<server, clientSent, clientGot, label, gUser, sharing, others, lost>>

(* sendOnSocket_ *)
ReceiveAnswer(l) ==
  LET c == gUser[l] IN
  /\ gEnd[l] = "OPEN"
  /\ toGetter[l] # <<>> /\ Head(toGetter[l]).kind # "CLOSE"
  /\ getter[c] = "linked"
  /\ clientGot' = [clientGot EXCEPT ![c] = @ + 1]
  /\ Takes(toGetter, l)
  /\ UNCHANGED <<server, client, fromClient, clientSent, getter, label, gEnd, gUser, sharing,
                 toSharer, others, lost>>

(* A closing end takes what still comes and does nothing with it. *)
GetterIgnores(l) ==
  /\ gEnd[l] = "CLOSING"
  /\ toGetter[l] # <<>> /\ Head(toGetter[l]).kind # "CLOSE"
  /\ Takes(toGetter, l)
  /\ UNCHANGED <<getting, sharing, toSharer, others, lost>>

(* The channel is closed by the sharer (and the session stops), or its      *)
(* close is answered; the channel is back in the pool.                      *)
GetterClosed(l) ==
  /\ gEnd[l] \in {"OPEN", "CLOSING"}
  /\ toGetter[l] # <<>> /\ Head(toGetter[l]).kind = "CLOSE"
  /\ Says(toSharer, gEnd, l, <<Msg("CLOSE", gUser[l])>>)
  /\ gEnd' = [gEnd EXCEPT ![l] = "CLOSED"]
  /\ StopGetter({gUser[l]})
  /\ Takes(toGetter, l)
  /\ UNCHANGED <<server, fromClient, clientSent, clientGot, label, gUser, sharing, others, lost>>

(* The peer connection is closed: stop() is called, or it is lost.  The     *)
(* sessions stop, and the server is told to close.                          *)
StopSocksToRtc ==
  /\ "getter" \notin lost
  /\ lost' = lost \cup {"getter"}
  /\ server' = "closing"
  /\ gEnd' = [l \in Label |-> IF gEnd[l] = "none" THEN "none" ELSE "PERMANENTLY_CLOSED"]
  /\ toGetter' = [l \in Label |-> <<>>]
  /\ StopGetter({gUser[l] : l \in {l \in Label : gEnd[l] \in {"OPEN", "CLOSING"}}})
  /\ UNCHANGED <<fromClient, clientSent, clientGot, label, gUser, sharing, toSharer,
                 others>>

(* closeAll *)
ServerShut ==
  /\ server = "closing"
  /\ server' = "shut"
  /\ client' = [c \in Client |-> IF client[c] = "open" THEN "closed" ELSE client[c]]
  /\ UNCHANGED <<fromClient, clientSent, clientGot, getter, label, gEnd, gUser, sharing, toSharer,
                 toGetter, others, lost>>

(* The client: external, with sendOnChannel_ and the handler of onceClosed. *)
ClientSends(c) ==
  /\ client[c] = "open"
  /\ clientSent[c] < MaxPackets
  /\ clientSent' = [clientSent EXCEPT ![c] = @ + 1]
  /\ IF getter[c] = "linked"
     THEN Says(toSharer, gEnd, label[c], <<Msg("data", c)>>) /\ UNCHANGED fromClient
     ELSE fromClient' = [fromClient EXCEPT ![c] = @ + 1] /\ UNCHANGED toSharer
  /\ UNCHANGED <<server, client, clientGot, getter, label, gEnd, gUser, sharing, toGetter,
                 others, lost>>

ClientGone(c) ==
  /\ client[c] = "open"
  /\ client' = [client EXCEPT ![c] = "gone"]
  /\ IF getter[c] = "linked"
     THEN /\ getter' = [getter EXCEPT ![c] = "stopped"]
          /\ SaysAndCloses(toSharer, gEnd, label[c], c, <<>>)
     ELSE UNCHANGED <<getter, toSharer, gEnd>>
  /\ UNCHANGED <<server, fromClient, clientSent, clientGot, label, gUser, sharing, toGetter,
                 others, lost>>
-----------------------------------------------------------------------------
(* The sharer: RtcToNet and its sessions. *)
Live == {"waiting", "connecting", "linked"}

(* onceStopped: the label's entry is deleted, whichever session it is. *)
Discard(S) ==
  /\ sessions_' = [l \in Label |-> IF \E c \in S : label[c] = l THEN None ELSE sessions_[l]]
  /\ numSessions_' = numSessions_ - Cardinality(S)

(* stopResources_, the channel apart: the connection to the web is closed,  *)
(* and the session has stopped when that has closed.  The connects of       *)
(* `pending' are not answered yet.                                          *)
StopResources(S, pending) ==
  LET slow == pending \cup {c \in S : web[c] = "open"} IN
  /\ sharer' = [c \in Client |-> IF c \in slow THEN "stopping"
                                 ELSE IF c \in S THEN "stopped" ELSE sharer[c]]
  /\ web' = [c \in Client |-> IF c \in pending THEN "abandoned"
                              ELSE IF c \in slow THEN "closing" ELSE web[c]]
  /\ Discard(S \ slow)

StopSharer(S) == StopResources(S, {c \in S : sharer[c] = "connecting"})

(* fulfillStopping_ of session c, which has replied with `reply'. *)
EndSharer(c, reply) ==
  /\ StopResources({c}, {})
  /\ SaysAndCloses(toGetter, sEnd, label[c], c, reply)

(* Beyond the limit the channel is closed at once. *)
Accept(c, l) ==
  /\ numSessions_' = numSessions_ + 1
  /\ sessions_' = [sessions_ EXCEPT ![l] = c]
  /\ sharer' = [sharer EXCEPT ![c] = "waiting"]
  /\ sEnd' = [sEnd EXCEPT ![l] = "OPEN"]
  /\ UNCHANGED toGetter

(* Mutant: a session is counted before the limit is looked at. *)
Refuse_counted(c, l) ==
  /\ numSessions_' = numSessions_ + 1
  /\ sharer' = [sharer EXCEPT ![c] = "refused"]
  /\ sEnd' = [sEnd EXCEPT ![l] = "CLOSING"]
  /\ toGetter' = [toGetter EXCEPT ![l] = Append(@, Msg("CLOSE", c))]
  /\ UNCHANGED sessions_

Refuse(c, l) ==
  /\ sharer' = [sharer EXCEPT ![c] = "refused"]
  /\ sEnd' = [sEnd EXCEPT ![l] = "CLOSING"]
  /\ toGetter' = [toGetter EXCEPT ![l] = Append(@, Msg("CLOSE", c))]
  /\ UNCHANGED <<numSessions_, sessions_>>

onPeerOpenedChannel_(l) ==
  LET c == Head(toSharer[l]).from IN
  /\ "sharer" \notin lost
  /\ sEnd[l] \in {"none", "CLOSED"}
  /\ toSharer[l] # <<>> /\ Head(toSharer[l]).kind = "OPEN"
  /\ Takes(toSharer, l)
  /\ sUser' = [sUser EXCEPT ![l] = c]
  /\ IF numSessions_ < SESSION_LIMIT THEN Accept(c, l) ELSE Refuse(c, l)
  /\ UNCHANGED <<getting, web, fromWeb, webSent, webGot, others, lost>>

(* receiveEndpointFromPeer_: an endpoint to connect to, or one that is not  *)
(* allowed or understood.                                                   *)
ReceiveEndpoint(l) ==
  LET c == sUser[l] IN
  /\ sEnd[l] = "OPEN"
  /\ toSharer[l] # <<>> /\ Head(toSharer[l]).kind \notin {"OPEN", "CLOSE"}
  /\ sharer[c] = "waiting"
  /\ Takes(toSharer, l)
  /\ \/ /\ sharer' = [sharer EXCEPT ![c] = "connecting"]
        /\ web' = [web EXCEPT ![c] = "connecting"]
        /\ UNCHANGED <<toGetter, sEnd, sessions_, numSessions_>>
     \/ EndSharer(c, <<Msg("failure", c)>>)
  /\ UNCHANGED <<getting, sUser, fromWeb, webSent, webGot, others, lost>>

(* Mutant: the end of the web is listened for before its data are taken.    *)
LinkSharer_listensFirst(c) ==
  LET reply == <<Msg("succeeded", c)>> \o Times(fromWeb[c], Msg("data", c)) IN
  /\ fromWeb' = [fromWeb EXCEPT ![c] = 0]
  /\ IF web[c] = "gone"
     THEN EndSharer(c, <<Msg("succeeded", c)>>)
     ELSE /\ sharer' = [sharer EXCEPT ![c] = "linked"]
          /\ Says(toGetter, sEnd, label[c], reply)
          /\ UNCHANGED <<web, sEnd, sessions_, numSessions_>>

(* linkSocketAndChannel_: what the web has sent is sent on, and only then   *)
(* is its end listened for.                                                 *)
LinkSharer(c) ==
  LET reply == <<Msg("succeeded", c)>> \o Times(fromWeb[c], Msg("data", c)) IN
  /\ fromWeb' = [fromWeb EXCEPT ![c] = 0]
  /\ IF web[c] = "gone"
     THEN EndSharer(c, reply)
     ELSE /\ sharer' = [sharer EXCEPT ![c] = "linked"]
          /\ Says(toGetter, sEnd, label[c], reply)
          /\ UNCHANGED <<web, sEnd, sessions_, numSessions_>>

(* onceConnected, of an address that is allowed or is not. *)
Connected(c) ==
  /\ sharer[c] = "connecting"
  /\ web[c] \in {"open", "gone"}
  /\ \/ LinkSharer(c)
     \/ EndSharer(c, <<Msg("failure", c)>>) /\ UNCHANGED fromWeb
  /\ UNCHANGED <<getting, sUser, webSent, webGot, toSharer, others, lost>>

(* onceConnected is rejected: the connection is refused, or already lost. *)
NotConnected(c) ==
  /\ sharer[c] = "connecting"
  /\ web[c] \in {"connecting", "gone"}
  /\ sharer' = [sharer EXCEPT ![c] = "stopped"]
  /\ web' = [web EXCEPT ![c] = "closed"]
  /\ Discard({c})
  /\ SaysAndCloses(toGetter, sEnd, label[c], c, <<Msg("failure", c)>>)
  /\ UNCHANGED <<getting, sUser, fromWeb, webSent, webGot, toSharer, others, lost>>

(* The answer to a connect that has been abandoned: it is still sent on the *)
(* channel, if that is open.                                                *)
AnsweredLate(c) ==
  /\ web[c] = "abandoned"
  /\ web' = [web EXCEPT ![c] = "closing"]
  /\ \E kind \in {"succeeded", "failure"} : Says(toGetter, sEnd, label[c], <<Msg(kind, c)>>)
  /\ UNCHANGED <<getting, sharer, fromWeb, webSent, webGot, sessions_, numSessions_, sEnd, sUser,
                 toSharer, others, lost>>

(* sendOnSocket_ *)
ReceiveData(l) ==
  LET c == sUser[l] IN
  /\ sEnd[l] = "OPEN"
  /\ toSharer[l] # <<>> /\ Head(toSharer[l]).kind \notin {"OPEN", "CLOSE"}
  /\ sharer[c] = "linked"
  /\ webGot' = [webGot EXCEPT ![c] = @ + 1]
  /\ Takes(toSharer, l)
  /\ UNCHANGED <<getting, sharer, web, fromWeb, webSent, sessions_, numSessions_, sEnd, sUser,
                 toGetter, others, lost>>

SharerIgnores(l) ==
  /\ sEnd[l] = "CLOSING"
  /\ toSharer[l] # <<>> /\ Head(toSharer[l]).kind # "CLOSE"
  /\ Takes(toSharer, l)
  /\ UNCHANGED <<getting, sharing, toGetter, others, lost>>

(* The channel is closed by the getter, or its close is answered. *)
SharerClosed(l) ==
  /\ sEnd[l] \in {"OPEN", "CLOSING"}
  /\ toSharer[l] # <<>> /\ Head(toSharer[l]).kind = "CLOSE"
  /\ Says(toGetter, sEnd, l, <<Msg("CLOSE", sUser[l])>>)
  /\ sEnd' = [sEnd EXCEPT ![l] = "CLOSED"]
  /\ StopSharer({sUser[l]} \cap {c \in Client : sharer[c] \in Live})
  /\ Takes(toSharer, l)
  /\ UNCHANGED <<getting, fromWeb, webSent, webGot, sUser, others, lost>>

(* The connection to the web has closed. *)
Stopped(c) ==
  /\ sharer[c] = "stopping"
  /\ web[c] = "closing"
  /\ web' = [web EXCEPT ![c] = "closed"]
  /\ sharer' = [sharer EXCEPT ![c] = "stopped"]
  /\ Discard({c})
  /\ UNCHANGED <<getting, fromWeb, webSent, webGot, sEnd, sUser, toSharer, toGetter, others, lost>>

(* The peer connection is closed, and the sessions stop with their channels. *)
StopRtcToNet ==
  /\ "sharer" \notin lost
  /\ lost' = lost \cup {"sharer"}
  /\ sEnd' = [l \in Label |-> IF sEnd[l] = "none" THEN "none" ELSE "PERMANENTLY_CLOSED"]
  /\ toSharer' = [l \in Label |-> <<>>]
  /\ StopSharer({c \in Client : sharer[c] \in Live})
  /\ UNCHANGED <<getting, fromWeb, webSent, webGot, sUser, toGetter, others>>

(* The web: external, with sendOnChannel_ and the handler of onceClosed. *)
WebConnects(c) ==
  /\ web[c] = "connecting"
  /\ web' = [web EXCEPT ![c] = "open"]
  /\ UNCHANGED <<getting, sharer, fromWeb, webSent, webGot, sessions_, numSessions_, sEnd, sUser,
                 toSharer, toGetter, others, lost>>

WebSends(c) ==
  /\ web[c] = "open"
  /\ webSent[c] < MaxAnswers
  /\ webSent' = [webSent EXCEPT ![c] = @ + 1]
  /\ IF sharer[c] = "linked"
     THEN Says(toGetter, sEnd, label[c], <<Msg("data", c)>>) /\ UNCHANGED fromWeb
     ELSE fromWeb' = [fromWeb EXCEPT ![c] = @ + 1] /\ UNCHANGED toGetter
  /\ UNCHANGED <<getting, sharer, web, webGot, sessions_, numSessions_, sEnd, sUser, toSharer,
                 others, lost>>

WebGone(c) ==
  /\ web[c] = "open"
  /\ IF sharer[c] = "linked"
     THEN /\ web' = [web EXCEPT ![c] = "gone"]
          /\ sharer' = [sharer EXCEPT ![c] = "stopped"]
          /\ Discard({c})
          /\ SaysAndCloses(toGetter, sEnd, label[c], c, <<>>)
     ELSE /\ web' = [web EXCEPT ![c] = "gone"]
          /\ UNCHANGED <<sharer, sessions_, numSessions_, toGetter, sEnd>>
  /\ UNCHANGED <<getting, fromWeb, webSent, webGot, sUser, toSharer, others, lost>>
-----------------------------------------------------------------------------
GetterStep(c) ==
  ChannelOpened(c) \/ ChannelNotOpened(c) \/ doAuthHandshake_(c) \/ AuthFails(c)
    \/ doRequestHandshake_(c) \/ RequestFails(c)
GetterReceives(l) ==
  ReceiveResponse(l) \/ ReceiveAnswer(l) \/ GetterIgnores(l) \/ GetterClosed(l)
SharerStep(c) == Connected(c) \/ NotConnected(c) \/ AnsweredLate(c) \/ Stopped(c)
SharerReceives(l) ==
  onPeerOpenedChannel_(l) \/ ReceiveEndpoint(l) \/ ReceiveData(l) \/ SharerIgnores(l)
    \/ SharerClosed(l)

Next ==
  \/ \E c \in Client :
       \/ makeTcpToRtcSession_(c) \/ GetterStep(c) \/ SharerStep(c)
       \/ ClientSends(c) \/ ClientGone(c) \/ WebConnects(c) \/ WebSends(c) \/ WebGone(c)
  \/ \E l \in Label : GetterReceives(l) \/ SharerReceives(l)
  \/ StopSocksToRtc \/ ServerShut \/ StopRtcToNet

Spec == Init /\ [][Next]_vars

(* Callbacks run and messages arrive; a connect ends; a peer notices when   *)
(* the other has closed the peer connection.                                *)
Fairness ==
  /\ \A c \in Client : WF_vars(GetterStep(c)) /\ WF_vars(SharerStep(c))
  /\ \A l \in Label : WF_vars(GetterReceives(l)) /\ WF_vars(SharerReceives(l))
  /\ WF_vars(ServerShut)
  /\ WF_vars(lost # {} /\ StopSocksToRtc) /\ WF_vars(lost # {} /\ StopRtcToNet)

FairSpec == Spec /\ Fairness
-----------------------------------------------------------------------------
(* numSessions_: "Number of live sessions by user": those that have not     *)
(* stopped; and no other is listed in sessions_.                            *)
CountIsLive ==
  /\ numSessions_ - others = Cardinality({c \in Client : sharer[c] \in Live \cup {"stopping"}})
  /\ \A l \in Label : sessions_[l] # None => sharer[sessions_[l]] \in Live \cup {"stopping"}

(* What an open end of a channel is given was sent by the other end of the  *)
(* same session, although the channel object serves one after the other.    *)
SessionsApart ==
  \A l \in Label :
    /\ gEnd[l] = "OPEN" /\ toGetter[l] # <<>> => Head(toGetter[l]).from = gUser[l]
    /\ sEnd[l] = "OPEN" /\ toSharer[l] # <<>> => Head(toSharer[l]).from = sUser[l]

(* The sessions of the two peers are counted and apart, while channels are  *)
(* reused and sessions refused, stopped and answered late.                  *)
SessionsInOrder == TypeOK /\ CountIsLive /\ SessionsApart

(* "This should be safe now because" the socket's queue "has now been       *)
(* emptied into this.dataChannel_.send()" and "close() should delay closing *)
(* until all pending messages have been sent": unless the peer connection   *)
(* is lost, a linked connection is closed only when all that the other side *)
(* has sent is passed on.                                                   *)
AllDelivered ==
  [][\A c \in Client :
       /\ getter[c] = "linked" /\ client[c] = "open" /\ client'[c] = "closed" /\ lost' = {}
            => web[c] = "gone" /\ clientGot[c] = webSent[c]
       /\ sharer[c] = "linked" /\ web[c] = "open" /\ web'[c] = "closing" /\ lost' = {}
            => client[c] = "gone" /\ webGot[c] = clientSent[c] - 2]_vars

(* When the session of one peer stops, so does that of the other, unless    *)
(* the getter's waits for a client that is gone.                            *)
EndsTogether ==
  \A c \in Client :
    getter[c] = "stopped" \/ sharer[c] \in {"refused", "stopping", "stopped"} ~>
      /\ getter[c] \in {"stopped", "replying"}
      /\ sharer[c] \in {"refused", "stopped"} \/ (sharer[c] = "none" /\ lost # {})

(* "Session closes the TCP connection and datachannel on any error": the    *)
(* session of a client that is gone stops.                                  *)
GoneMeansStopped ==
  \A c \in Client : client[c] = "gone" /\ label[c] # None ~> getter[c] = "stopped"
=============================================================================
