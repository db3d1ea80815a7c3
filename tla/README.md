# TLA+ verification of uProxy

uProxy lets a user (the *getter*) reach the internet through a friend (the *sharer*).
The getter's browser speaks SOCKS to a local TCP server; each of its connections is carried
over a data channel of one WebRTC peer connection to the sharer, who opens the real TCP
connection.  The two peers find each other, exchange the signals of the peer connection and give
consent through the messages of a social network.

The program is TypeScript: single threaded, but every module is a set of callbacks and
promises, so that handlers of events, timers, answers of the browser and messages of the peer run
in any order, and state that was read before an asynchronous call may be stale after it.  That is
what the models are about.  An action is what one callback does until it returns.  A chain of
promises that are already settled runs to its end before the next event, so it belongs to the action that settles the
first of them; a step that waits for the browser, the network or a timer is an action of its own.

The directory holds a module (`X.tla`) for each modelled component, `MCX.tla` where TLC needs definitions, the
configurations, and modules of proofs (`XProofs.tla`).  The larger components have runs of their own; the smaller
ones are checked together, one at a time, by `MCCore` and `MCEdges` (section 3).  `PROJECT.json` maps each definition to
the lines it models and lists the runs, the mutants, the hazards and the theorems.

## 1. Inventory

### The proxy (src/lib)

| component | state | operations | what is hard | modules |
|---|---|---|---|---|
| `handler/queue.ts` | events waiting, handler, its reject function, counters | handle, setHandler, setNextHandler, stopHandling, clear | handlers call their own queue; promises must be settled exactly once | `HandlerQueue` |
| `webrtc/datachannel.ts` | messages waiting, overflow, bound on the browser's buffer, close in progress | send, close, isInOverflow | polling races sending; close races what still waits | `DataChannel` |
| `webrtc/peerconnection.ts` | state, promises, table of channels, heartbeat | negotiateConnection, handleSignalMessage, openDataChannel, close | negotiation in asynchronous steps; simultaneous offers; early candidates; loss without notice; labels that come back | `PeerConnection`, `Channels` |
| `pool/pool.ts` | free channels, next id, state of each end | openDataChannel, close, OPEN and CLOSE messages | closes that cross; channels used again while old messages are unhandled | `DataPool` |
| `net/tcp.ts`, `net/counter.ts` | state of a socket, calls in progress, connections of a server | connect, send, receiveNext, close; listen, stopListening, closeAll, shutdown | disconnections while calls are unanswered; the provider must be destroyed once and idle | `TcpConnection`, `TcpServer` |
| `socks-to-rtc.ts`, `rtc-to-net.ts` | sessions of getter and sharer, sessions per user, the SOCKS proxy of the sharer | start, stop, one session per client | a channel or socket that closes during the handshake; old and new sessions under one label; count at its limit | `Sessions`, `Reproxy` |
| `bridge/bridge.ts` | kind of connection, first signals | negotiateConnection, handleSignalMessage | two versions must agree by the first signals | `Bridge` |
| `churn`, `churn-pipe`, `aqm` | probe, candidates, mirror sockets, drop level | bindLocal, bindRemote, send | candidates, probe and pipe in any order; sockets made on demand | `Churn`, `Pipe`, `Aqm` |
| `transformers` | coder, trackers, injected packets | transform, restore | carries, cuts, losses and disorder | `Arithmetic`, `Fragments`, `Protean` |
| `socks/headers.ts` | none | compose and interpret SOCKS messages | lengths, messages cut short | `SocksHeaders` |
| `zork`, `net/linefeeder.ts` | mode and rest of a line of each connection | commands, get, give | chunks cut anywhere | `Zork` |
| `cloud/social/provider.ts` | contacts, presence, connections to servers | login, inviteUser, acceptUserInvitation, sendMessage | pings and connections that end late | `Cloud` |
| `loggingprovider`, `logging` | filters, buffer, listeners | setFilters, log | levels told late | `Logging` |

### The core and the user interface (src/generic_core, src/generic_ui)

| component | state | operations | what is hard | modules |
|---|---|---|---|---|
| `remote-connection.ts`, `remote-instance.ts`, `consent.ts` | getting and sharing state, SocksToRtc, RtcToNet, timers, consent | startGet, stopGet, startShare, stopShare, handleSignal, modifyConsent | time-out, failure and end of an attempt in any order, with a new attempt in between | `Remote` (specification `Access`) |
| `remote-user.ts`, `local-instance.ts` | clients, instances, tokens, what is stored | handleClient, handleMessage, syncInstance, saveToStorage | clients come and go with messages under way; restarts | `Contacts` |
| `key-verify.ts` | messages of a session, SAS | start, readMessage | messages lost, of earlier sessions, from both roles | `KeyVerify` |
| `social.ts`, `uproxy_core.ts` | networks, pending logins, connected networks | login, logout, reconnection, invitations, getNatType | calls that overlap; read, change and write of stored values with a restart between | `Networks`, `Invites`, `Probing` |
| `globals.ts`, `storage.ts`, `stored_value.ts` | settings, cached values | updateGlobalSettings, load, save | changes that come before the load | `Settings`, `Networks` |
| `metrics.ts` | buckets of counts, reporter | increment, report | time, loads and restarts | `Metrics` |
| `ui.ts`, `core_connector.ts`, `chrome_browser_api.ts` | who is got access from, proxy setting, promises of commands | startGettingFromInstance, stopGettingFromInstance, proxyDisconnected, updates | commands and updates cross; the port is lost | `Ui` |
| `ui.ts`, `user.ts`, `model.ts` | roster, lists of contacts | syncUser, removeFriend | objects moved between lists by several events | `Roster` |
| `background_ui.ts`, `root.ts`, `state.ts` | the dialog, promises of questions | getConfirmation, openDialog | one dialog for several questions; the panel closes | `Dialogs` |

The browsers' adaptors, the installers, the demonstrations and the build files make the rest; `PROJECT.json` lists them.

How they interact.  The user's command goes from the panel over the connector (`Ui`) to the core, which starts an attempt
(`Remote`): a `SocksToRtc` over a bridge (`Bridge`), a peer connection (`PeerConnection`) and its pool (`DataPool`, over
`DataChannel`), obfuscated or not (`Churn`, `Pipe`, `Protean`).  The signals of these go over the social network
(`Networks`, `Contacts`, `Cloud`) to the sharer's `RtcToNet`, and then each SOCKS client has a session (`Sessions`, over
`TcpServer` and `TcpConnection`).  All of them pass events through handler queues (`HandlerQueue`).

### What makes the parts correct

* queue: no event waits while somebody handles; each event is handled or rejected once; each
  promise is settled once and as what became of its handler; the counters tell the truth.
* data channel: order is kept, the browser is never flooded, waiting data are sent as
  soon as the browser has room, a close loses nothing.
* peer connection: descriptions before candidates, on both ways; a negotiation ends, connected or
  closed; nobody waits for a connection that is closed; the loss of one side is noticed by the other.
* pool: OPEN and CLOSE meet an end in the state that expects them; no data go from one
  session of a channel to the next; a channel in the pool belongs to nobody.
* tcp: the provider of a socket is destroyed once and idle; what is queued is written;
  whoever waits for data or for the end is told.
* sessions: every session that starts is stopped with both its connections closed; the count of a
  user is the number of live sessions; the sharer's replies reach the client they are for.
* core: the state shown is the state there is, whatever ends late; a share serves the newest attempt and ends with it;
  a consent once given through a token outlives a restart; nobody is "verified" without both users' approval.
* networks and storage: no login is waited for that nobody tries; what is online is monitored; what was stored is used.
* user interface: it asks about a lost connection, and shows one, only while there is one; an answer is to the question shown.

## 2. Plan

The order was that of importance: the queue everything rests on; the pool, the data channel, the peer connection and the
tcp connection, each with proofs; the sessions over them; the remote connection with its abstract specification; key
verification; the rest of the core; the user interface; the obfuscation and the pure parts.  All of these are written.
What would come next:

* the abstract channel of a session as a specification that `DataPool` implements and `Sessions` uses; now `Sessions`
  states what it assumes of the pool in its comments only.
* overflow in `Sessions`: `isInOverflow` stops and resumes the reading of the socket.

## 3. The modules

A property named here is in the module, or, for the packs, in the module of the part; runs name their properties in
their configuration.  Every run's first invariant has the type invariant of its module as a part.  `CHECK_DEADLOCK FALSE`
stands in the runs because the program may come to rest: nobody need do anything.

### HandlerQueue, KeyVerify and the codecs (`handler/queue.ts`, `key-verify.ts`, `transformers`, `socks/headers.ts`, `zork`), run `HandlerQueue`

`queue_`, `handler_`, `rejectFn_` and `stats_` are the fields of the class.  Handler bodies
may call the queue, so the calls in progress are a stack `calls`: `processQueue_` (whose loop goes
on after a body returns), `setNextHandler` (which goes on after its `setHandler` returns) and the
bodies.  `BodyCalls` says which operations bodies call; each operation also comes from the event loop, when the
stack is empty.  A handler is `"standing"` (setHandler) or the promise of a
next-handler; `outcome` and `settled` record what became of each event and promise.

* `NoIdleHandler`: between calls no event waits while a handler is installed.
* `QueueCounted`: the counters add up to the events, the queue and the handler.
* `PromisesKept`: a next-handler that is taken away before its event has its promise rejected; one that has taken an
  event is never rejected by a later change of handler.

Three events, two promises (symmetric), four calls of setHandler or setNextHandler, stack of eight, bodies that handle, stop
and clear: three events are one that runs, one that waits and one that is added meanwhile; two promises
an old and a new next-handler.  No body of the run installs a next-handler: section 4 says what happens when one does.

The run has a second part (`part = "keys"`), which shares nothing with the queue: `KeyVerify`, two peers with two
sessions each; messages may be lost, a session times out, and is begun again by either side while messages of the old one are
under way.  A message is known by the session whose hash chain it is of.

* `BothApproved`: a responder that ends with "verified" had its user's approval and that of the other user, and of the
  same string.

The other parts are the codecs of the network, modules that share no state and take the variables `v1`.. in turn.

* `CodecsAgree`: what is written is read as it was meant, or refused.  `headers`: `SocksHeaders`, every message whole and cut, with
  names and texts of the shortest and longest lengths.  `fragments`: `Fragments`, lengths around the limits, fragments lost, doubled,
  reordered and given up.  With the code's ids of 4 bytes no fragment survives `restore` (section 4, run `Fragments_ids`), so what
  `makeFragments_` cuts and what the defragmenter hands on are checked at their own interfaces (`Received`).  `protean`: `Protean`, three
  injected packets, one of which has an offset and is not taken out again, as in the code; those without are.  `arithmetic`: `Arithmetic`,
  the range coder with bytes of two bits, so that carries and underflow come in packets of five bytes.  A packet is encoded as the low end of its
  interval; one that was decoded first, as the shaper does, comes back, if the table is the one of the repository's configurations (all bytes
  alike).  `zork`: `Zork`, streams cut anywhere.

### Fragments, run `Fragments_ids`

A violation: `makeRandomId` returns 4 bytes where fragment.ts:20 says "Make a random 32-byte identifier for the packet fragment." and `decode`
takes 32, so that a fragment is not decoded as it was encoded.

### DataPool and DataChannel (`pool/pool.ts`, `webrtc/datachannel.ts`), run `DataPool`

A `LocalPool` and the `RemotePool` of the other peer, for the channels the first opens (those the other
opens are a second, independent instance).  Each channel has two ends, each with
the fields of `PoolChannel`; `inbox` holds the messages under way to an end and those not yet seen by
`onDataFromPeer_`, `unread` what its user has not handled.  Messages carry the number of the session
in which they were sent (model only), so that the properties can tell sessions apart.  Any channel may be lost
at either end at any moment, `MaxFailures` times.

* `SessionsKept`: no OPEN meets an end that is open or closing, no CLOSE or data one that is closed; data are given to
  the user of the session they were sent in; the ends are never more than one session apart.
* `PoolIsFree`: a channel in the pool is there once, is used by nobody, and has no close under way.
* `ClosedIsReturned` (liveness): a channel that is closing returns to the pool and is ready again at
  the other end, unless its data channel is lost.

A behaviour of the pool is of one of two kinds (`part`): two channels of two sessions each, so that the order of the pool and refused
channels matter; or one channel over three sessions with two messages per end, as three let a message of the first outlive the
second, if it could.  Fairness: every callback that is due runs.  Users need never open, send or close, and channels need never fail.

A third kind (`part = "wire"`) is the sending through one data channel, `DataChannel`, which shares nothing with the pool.
Chunks are `"str"` or `"buffer"` and count as one byte.  `toPeerDataQueue_` is a queue of which only
the presence of a next-handler matters.  `sendNext_`, which runs synchronously through the whole queue while
there is room, is a sequence of actions `SendQueued` during which (`sending`) only the browser acts.  The browser's buffer
is `browser`; `asked` keeps the amount at the moment `bufferedAmount` was asked for: the answer may be any value between that of
now and that of then.

* `QueueTended`: with an open channel either a next-handler waits for a message, or the polling runs, never both or
  neither; messages wait only in overflow; the browser has at most one chunk of buffers above `PC_QUEUE_LIMIT`.
* `PollingGoesOn` (liveness): the polling never dies with messages waiting; a close that waits closes.
* `BuffersSentFirst`: a close leaves no buffer behind.

A limit of one chunk, messages of one or two chunks, four waiting: that fills the browser beyond its limit and leaves a
message cut in the middle.  Fairness: callbacks and timers run, the browser delivers what it has buffered and closes what it
was told to close.  Nothing is assumed of users or of the peer.

### PeerConnection (`webrtc/peerconnection.ts`), runs `PeerConnection`, `PeerConnection_tie`, `TcpConnection`

Two peers with their browsers.  `jobs` holds the calls of the browser that a peer waits for, one per
asynchronous step of the negotiation; `net` the signals under way to each peer, in order.  The browser is modelled
as far as the code uses it: an offer is refused when there is a local offer, candidates need a remote
description, the control channel opens when both descriptions are set on both sides, and its close is told, or not, to the other side.

* `NegotiationInOrder`: no candidate reaches a peer before the description it belongs to; once a peer that has
  tried to connect is closed, onceConnected is settled.
* `CandidatesWait`: no candidate reaches the browser before its remote description, unless the connection is lost.
* `CloseIsNoticed` (liveness): when one of two connected peers closes, so does the other, by
  the close of its control channel or by the heartbeat.
* `NegotiationEnds` (liveness): a negotiation that comes as far as its control channel connects both peers or closes one, even if the
  browser asks for another negotiation meanwhile.

`PeerConnection`: either or both peers negotiate, the second may close, and the network may fail at any moment; one candidate
each, or one unasked-for renegotiation (the constraint `Few` of `MCPeerConnection`: both together make too many states).  The liveness is checked as a part
(`peers`) of the run `TcpConnection`: one negotiates, the other may close, one unasked-for renegotiation.  `PeerConnection_tie` is a violation: peerconnection.ts:375 says that
`breakOfferTie_` "Fulfills if it is OK to proceed with setting this remote offer", but the browser of the winner has a
local offer and refuses the remote one, so that both sides close.  Fairness: the browser answers, delivers its events and
connects what can connect; signals are delivered; the heartbeat's timer fires.

### TcpConnection and Reproxy (`net/tcp.ts`, `net/counter.ts`, `rtc-to-net.ts`), run `TcpConnection`

`TcpConnection` is one connection, made to an endpoint or from an accepted socket.  `calls` are the calls of the socket that
the counter wraps and that are unanswered, `notices` the onDisconnect events under way.  An answer and all
promises that it settles are one action, in the order of the chains.

* `SocketTended`: the provider is destroyed once, with no call in progress and after the disconnection; nothing that was
  sent waits in an open connection.
* `NeverBack`: no late answer brings a connection back to an earlier state.
* `ClosedIsTold` (liveness): a connection that closes tells those who wait for onceClosed or for data.

`Reproxy` is how the sessions of the sharer connect directly or through a SOCKS proxy on its computer, what they answer, and
the error bar of the interface with its intervals (ui.ts).  It is a part of the same run (`part = "reproxy"`), and the two peers of the
section before are the third; the three share no state.

* `OneReply`: whichever step fails the peer is answered once, and a session that will not be linked is stopped.  There is one exception, which
  is in the model: a direct connect whose socket tells no peer address ends the session without an answer (section 4, step `"unanswered"`).
* `ErrorIsLifted` (liveness): once the proxy stays up the error bar goes.

Both kinds of connection, three calls of send and receiveNext and two packets, so that a receiver may wait, be served from the
queue, and be aborted; two sessions and two outages of the proxy.  The destructor does not throw (`MayThrow = FALSE`): if it
did, onceClosed would never be settled (tcp.ts:428 logs only).  Fairness: calls of the socket are answered, its events are
delivered, a connect ends, timers fire.

### Sessions (`socks-to-rtc.ts`, `rtc-to-net.ts`), run `Sessions`

The SOCKS clients of the getter, numbered as they connect; client c is served by session c of the getter
(`getter[c]`) and session c of the sharer (`sharer[c]`).  Two sessions share a channel one after the other, so an end of a
channel (`gEnd`, `sEnd`) has the user it has now (`gUser`, `sUser`), and messages carry the session that sent them (model only).
`client`, `fromClient`, `web` and `fromWeb` are the tcp connections and what waits in their `dataFromSocketQueue`.
The channel is that of `DataPool` as its users see it: a CLOSE is the last message of a session, an end that is closing drops
what comes before the answer, and an end that is closed may be opened again.  `numSessions_` is static, so `others` sessions
of the same user through another `RtcToNet` count too.

* `SessionsInOrder`: `numSessions_` is the number of sessions that have not stopped; what `sessions_` lists is not stopped;
  what an open end of a channel is given was sent by the other end of the same session.  The last holds since a getter's
  session that waits for its response does not close the channel, not even when its client goes.
* `AllDelivered`: unless the peer connection is lost, a linked connection is closed only when the other side has
  ended and all it had sent is passed on.
* `EndsTogether` (liveness): when the session of one peer stops, so does that of the other, unless the
  getter's waits for a client that is gone.

Two clients and one channel, so that the second client gets the channel of the first or is
told that there is none; three packets of a client (two handshakes and one of data, which may all come before
the session is linked) and one of the web; a limit of two sessions with none or one elsewhere.  Either peer connection, any
client and any server may end at any moment.  Fairness: due callbacks run, messages arrive, a connect is answered, and a peer
notices that the other has closed (`CloseIsNoticed`).  Assumed besides: a promise that waits for this side only (a message given
to the browser, a packet to a socket) settles before an answer of the other peer can arrive.

### Remote and Access (`remote-connection.ts`, `remote-instance.ts`, `consent.ts`), run `Remote`

`Remote` is a getter's and a sharer's end and the social network between them.  Attempts are `SocksToRtc` objects, shares
`RtcToNet` objects; each is starting, ready, stopping or gone.  `getTimer` and `shareTimer` are the time-outs of
a minute, `created` is `onceSharerCreated`, `waiting` the signals that wait for it; `serves` and the name in a signal say which
attempt they belong to (model only: the code has none, which is the difficulty).  `onOnline_` and the retry are there, the
consent can be given and taken back, and signals may be lost.

* `EndsInOrder`: a timer that is set is for the current attempt or share, which is being tried; after a failure nothing is in
  the way of the next attempt; while sharing is shown there is a share; no signal reaches a share of another attempt.
* `BrokenIsRetried` (liveness): a broken connection is retried as long as the machine is, or comes, online.
* `ShareEnds` (liveness): the sharer does not go on with an attempt that is over.
* `ImplementsAccess`: what the user interface is told refines `Access`, in which access moves between NONE, TRYING,
  GETTING, RETRYING and FAILED: the user is asked about an access that was lost, never about one that was not had.

Two attempts that may overlap, one share, one message each way: the second attempt begins while the first ends late, at
either end.  Fairness: timers fire, messages that are not lost arrive, an object told to stop stops, and one whose
peer is gone closes (`CloseIsNoticed` again).

### The core: run `MCCore`

Seven modules that share no state; `part` says which of them a behaviour is of, and the variables `v1`.. are
those of that module (`INSTANCE ... WITH`).  So one run explores each of them to the end.

* `cloud`: `Cloud`, the contacts, pings and SSH connections of the provider of cloud servers, with ssh2 external.
  `OneTunnel`: access to a server goes over one connection, and any other that was established has ended.  One server and
  two connections: the newer replaces the older.
* `metrics`, `probing`: `Metrics` with a week of two and a day of two steps of the clock; `Probing` with the NAT
  questions of two calls, port control and the check of the SOCKS proxy.  `NothingPilesUp`: no bucket and no timer is left over.
* `networks`: `Networks`, two networks, two objects and two calls of login or logout at any stage, writes of the list of connected
  networks, a restart.  `NetworksTended`: a login that others may join is under way; what is online is monitored.
* `contacts`: `Contacts`, a friend with two clients of one device, storage that answers late, a restart, tokens.
  `ContactsAgree`: the maps of clients and instances agree.  `TokenHonored`: what a token granted is in memory and written when
  the token is used up, and no later step takes the grant from a contact in storage, a restart included, unless the user withdraws it or the
  core ends before what it wrote of the contact has lasted.  Each write to storage lasts from some later step on or never (`Lasts`), independently of
  writes of other keys: those of the token and of the contact are two.
* `roster`: `Roster`, a contact that is updated, removed and offline and online again.  `ContactsAgree`: each is listed once,
  where it belongs.
* `settings`: `Settings`, three copies and two channels.  `SavedIsUsed`: once read, the stored settings are those the core goes by.

Safety only; a message, an answer or a load that never comes is among the behaviours.

### The edges: run `MCEdges`

Ten modules, in the same way.

* `PathAgrees`.  `bridge`: both sides of any versions come to one kind of connection.  `churn`: once quiet, an obfuscated
  connection has all candidates, bound ports and mirrors, whatever came first.  `pipe`: every way out is offered as a mirror; two
  interfaces, two ports, a bind that fails.
* `ShutDown` (`server`): three connections, a limit of two, a shutdown while they come.
* `OneDropAnInterval` (`aqm`): a packet is marked to be dropped only on account of one sent after the interval of the last drop was over, however
  late traced packets are answered; eight ticks, six sends.
* `TableIsTrue` (`channels`): three channels and two labels that come back; the table lists what is open, as far as labels tell.
* `LevelIsTold` (`logging`): the level a module was told is the one wanted.
* `UserAgreed`.  `dialogs`: three questions of background and panel in one dialog, and a popup that closes and opens: a question
  is answered yes only if the user said so to one of its promiseId while that was shown, and none is forgotten with all of its promiseId.  Questions
  of one millisecond, which share a promiseId, are among the behaviours (`Later = {0, 1}`); the run `Dialogs_ids` shows what comes of them.
  `invites`: `Invites`, from the link to the token: only what the user agreed to is accepted, and
  what is agreed to is lost only after a logout.
* `ShowsWhatIs` (`ui`): `Ui`, two instances, commands and updates that cross, a port that is lost and comes back, with
  the core or without: with nothing under way the interface shows as tried or got, and asks about, only what the core has so.  The
  core is that of `Access`.

### Dialogs, run `Dialogs_ids`

A violation: the promiseId of a question is the time in milliseconds, which background_ui.ts:135 calls "approximately unique".  A second
question of the same millisecond takes the place of the first in the table of promises, and is settled with the first one's answer.

### Invites, run `Invites_networks`

A violation: `removeNetwork` deletes the network from its table and then tells the interface of it through that table
(social.ts:57-60), which throws: ui.ts:169 ("Add or update the online status of a network.") never happens for a logout.

## 4. Where the code and its comments differ

Besides the four violation runs.  A name in parentheses is a definition of the module that says it and that TLC finds
violated when it is made an invariant or a property; the models do what the code does.

The proxy:

* pool.ts:101 takes the last id back when any open is refused, so that with two in flight the next id is one in use (`DataPool`: `NextIdIsFree`).
* datachannel.ts:92: close() is said to wait for what was sent; strings are not counted in `toPeerDataBytes_` (datachannel.ts:352), so it does not wait for them (`DataChannel`: `SentBeforeClosing`).
* socks-to-rtc.ts:136 says "Note that Session closes the TCP connection and datachannel on any error", but when the client leaves before
  the response is sent to it, the session waits for ever for `tcpConnection_.send` (socks-to-rtc.ts:375, tcp.ts:478), and the channel and the
  sharer's session stay, which counts against the limit of the user (`Sessions`: `GoneMeansStopped`).
* queue.ts:290: when a handler body itself calls `setNextHandler` (`BodyCalls = {"next"}` with three events), the outer call overwrites the reject
  function of the handler the body installed, whose promise is then never settled (queue.ts:231 says "the old promise" is rejected).  Two bodies of the
  repository do so (datachannel.ts:328 by `sendNext_`, zork/freedom-module.ts:162), and drop the promise; the bodies of the queues whose promises are used
  (tcp.ts:386, socks-to-rtc.ts:346, rtc-to-net.ts:518) do not call their queue.
* queue.ts:38-41: `total_events` is said to be the sum of two other counters, which is false after `clear()`.
* pool.ts:187: a pooled channel whose data channel is lost stays in the pool and is handed out.
* datachannel.ts:353: a close before the channel opens, with messages waiting, waits for the end of an overflow that never began.
* peerconnection.ts:416, 577: a step of a negotiation that is answered after close() overwrites CLOSED; 337: a renegotiation turns CONNECTED into CONNECTING until the next signal.
* peerconnection.ts:167: "All open data channels": the close of an old one deletes the entry of a newer one of the same label at 559 (`Channels`: `AllOpenListed`); the maximum is checked before an asynchronous creation at 513 (`WithinMaximum`).
* tcp.ts:479: "This will reject if the socket is closed before the data can be sent": a message sent after the disconnection is queued and its promise never settled.
* tcp.ts:276-278 says that a connection is closed "iff" onceClosed is settled; it is settled when a connect fails, in the state CONNECTING.  A server whose listen fails is never destroyed.
* socks-to-rtc.ts:159: when no channel can be opened the client is sent a failure and its connection is left open, until the server is shut down.
* socks-to-rtc.ts:328: "we send a generic FAILURE response": not when the channel closes, as it does beyond the limit of sessions (rtc-to-net.ts:249).
* rtc-to-net.ts:268: an old session that stops deletes the entry of the newer one under its label; the newer is then missing in snapshots.
* rtc-to-net.ts:376, 456: REPROXY_WORKING is never sent, as `reproxyError_` is a field of one session; data in the chunk of the proxy's answer are lost (`Reproxy`: `NoDataLost`).
* bridge.ts:70: an error is answered with an error, for as long as both sides last (`Bridge`: `ErrorsEnd`, bridge.ts:278-297).
* churn.ts:524-534: a pipe made after close() keeps its sockets (`Churn`: `NothingLeft`); a probe without candidates throws (316).
* churn-pipe.ts:358-365: an interface with fewer sockets than another drops packets for the mirrors beyond them (`Pipe`: `EveryInterfaceSends`).
* aqm.ts:147: `sent_`, "The number of send calls so far in this interval.", is never set back (`Aqm`: `SinglePacketSpared`).
* rtc-to-net.ts:640-646, 452: on a direct connect `getReplyFromInfo_` reads `info.remote.address`, and `remote` is undefined when the socket has no peer
  address (tcp.ts:37-43): it throws, and the session ends without an answer to the peer (`Reproxy`: step `"unanswered"`).
* arithmetic.ts:163: "No probability can be higher than 255." (`Arithmetic`: `AdjustedFits`: 256); the digits cut off by `flush_` can take the number below the interval (`WithinInterval`).
* byteSequenceShaper.ts:143: "Remove injected packets.": not those with an offset, which the search cuts at the wrong end (210; `Protean`: `InjectedRemoved`; `WholeRemoved` is what holds of it).
* headers.ts:323 refuses a request for a name of one character; 426-443 read a name or a port past the end of a cut message as zeros (`SocksHeaders`: `ValidRequestsPass`, `CutRequestsFail`).
* zork/freedom-module.ts:43: getters are uncounted that were never counted (`Zork`: `GettersCounted`); the end of a connection makes a command of the last words (`NoLateStart`).
* loggingprovider.ts:9: the buffer has one more than its maximum (`Logging`: `BufferFits`); the filter `*` is not implemented (27-31).
* provider.ts:262, 465 (cloud): an invitation accepted while contacts are read drops the others from storage (`Cloud`: `Kept`); a late ping takes back a status that had stopped the pings (`Watched`).

The core:

* remote-connection.ts:381 clears the fields of a newer attempt, so that there may be two, where line 255 says "This should not happen." (`Remote`: `OneAttempt`).
* remote-instance.ts:241-256, remote-connection.ts:234-238: a share may be shown under the session id of another attempt, as ids come in messages
  of their own (`SharerKnowsSession`); remote-user.ts:635-641: taking the permission back stops the shares that are there, not one that is still starting (`SharingMeansGranted`).
* key-verify.ts:164-166, 672: the table of prerequisites is keyed by name and read by number, so that a message needs none: an initiator takes an acknowledgement of an earlier session for its own, unapproved (`KeyVerify`: `InitiatorApproved`).  For a responder it has no such effect (`BothApproved`).
* remote-user.ts:643: "Send new consent bits to all remote clients": not to one that has announced no instance yet, and of two clients of an instance to one (`Contacts`: `AllTold`);
  660-661: after a restart, a request of one of two instances is forgotten when the other, which has none, is read first (`RequestKnown`, with two instances).
* local-instance.ts:146, remote-user.ts:255: the use of a token and the consent it gives are saved by two writes of which neither waits for the other: when
  the core ends with only the first done, the token is used up and has given nothing (`Contacts`: `UsedForSomething`).
* uproxy_core.ts:91-92: networks "will be re-added" to the stored list, which forgets one when logins and logouts overlap (`Networks`: `Remembered`); a second login may be joined to a pending one that fails (366-376, 570); a crash between emptying the list and filling it loses all.
* social.ts:670-673, ui.ts:436: an invitation that fails is not told (`Invites`: `FailureIsTold`; `showTokenError` has no caller).  remote-user.ts:705-706: a token is lost when the instance is restored after it came (`TokenKept`); social.ts:687-695: an offer is overwritten by what is loaded (`OfferKept`).
* globals.ts:69: "arrays should be replaced instead of combined" (`Settings`: `SavedListIsUsed`: a shorter list leaves the end of the longer one); uproxy_core_api.ts:173: the interface may keep older settings (`AgreeWhenQuiet`); uproxy_core.ts:218-223: a change of one setting tells nobody (`ChangeIsTold`).
* metrics.ts:239-256: what was stored is not counted after a restart (`Metrics`: `StoredIsCounted`); 204: the stop rate may exceed 100 or be no number (`PercentageReported`).
* A NAT type told may be of another question (`Probing`: `ToldIsActual`), a check of another port (`CheckOfPort`, advanced-settings.ts:109-116), and port control is unknown after a failed refresh (`SupportKnown`).

The user interface:

* ui.ts:694-695: "If we were getting access from some other instance turn down the connection" (`Ui`: `OneGetting`); 601-602: the browser may be left with a proxy the core has given up (`ProxyIsKept`).
* ui.ts:862-907, 974-979: a contact that is removed and added again is not listed (`Roster`: `AddedAgainIsListed`).
* root.ts:109: "Do not open the dialog until we are sure it is closed." (`Dialogs`: `OpenIsAsked`).
* `reconnect_` of ui.ts is never reached, as the interface is never told that a network went offline (`Invites_networks`).

## 5. Proofs

TLAPS checks the theorems of eight modules (listed in `PROJECT.json` under `theorems`), for every value of the constants, from the
assumptions named in the modules.  Those say that bounds are natural numbers, that sets of ports, instances, calls and networks are
finite, that `None` and the names of the code are none of the program's values, that there are two peers with no session in common
(`Two`), and that a list of servers is one of strings.  Those of the codecs are said below.
Each theorem of the form `Spec => []P` rests on an inductive invariant; TLC checked it on the run's instance before it was proved, but for the codecs'.

* `HandlerQueueProofs`: `NoEventIdle` from `NoIdleHandler` strengthened for the middle of calls: while an event
  waits under a handler, the stack holds a `processQueue_` that will take it, and no body that returns removes it
  (`LoopSurvives`).  `Counted` is inductive with types.  `PromisesStayKept` has a hypothesis, that no handler body itself sets a handler
  (`BodyCalls \cap {"set", "next"} = {}`): without it the statement is false (section 4, queue.ts:290), and the bodies of all queues whose promises are used meet it.
  Its invariant (`Kept`): a promise is armed as long as its next-handler is installed, and its reject function is kept but while `setNextHandler` is under way.
  `Approval` is about key verification: a message is what its sender has in its own session (`Genuine`), and who approved of a
  string approved of one that a session of the other peer has (`Approved`); both are kept as sessions only grow (`GoesOn`).  A responder's
  Confirm2 is from the session its Commit is from, whose user approved of a string of some session of the peer; that Commit names the
  Hello2 it was made for, so the session is the responder itself, and its own user approved too.
  `Codecs` is proved for each of the five codecs, by induction over the bytes (`SequenceInduction`) or steps (`LoopEnds`) of each loop, whose recursive
  function is first shown to exist (`RunExists`, `LoopExists`).  It is assumed that lengths and texts fit a byte and ports two, that a fragment has room for more than its
  header, that the injected packets are each for a place of its own, and of the coder that bytes have 2 to 8 bits and that a table is taken as it is
  (`adjustProbs_(t) = t`), its frequencies and their sum powers of two, so that ranges divide exactly.  The encoder is compared with an exact one, which keeps the low end
  of the interval as a number: what was written, the working byte, the bytes that wait for a carry and `low_` are together the digits of that number
  (`SymbolMatches`), and so the packet is its digits cut off (`FlushMatches`).  `Restores` needs of the decoder that it reads the digits back.
* `DataPoolProofs`: the argument counts the sessions of a channel in phases: 2k-1 while session k is open, 2k once it is
  closed.  `PhaseSent` is the phase an end has told the other, `PhaseSeen` the one it knows of the other.  The
  messages under way lead, step by step, from what the receiver has seen to what the sender has sent
  (`Leads`, `LeadsTo`).  With the order of the phases of the two ends, this is inductive (`Invariance`) and gives `ControlInTurn`,
  `SessionsApart`, `EndsTogether`, together `SessionsInStep`; the part about the pool gives `PoolFree`.  `ControlInOrder` alone is
  not inductive: it says nothing of messages behind the first.  Of the data channel (`WireInvariance`): of the handler, the poll and a call of
  `sendNext_` at most one is there, and one of them while the channel is open.  A handler was installed with the browser's buffer below the limit,
  and nothing was added since, so the next chunk takes it at most one above (`Tended`).  A close that stopped waiting found the queue
  without buffers, and no more are accepted (`ClosedAfterBuffers`).
* `PeerConnectionProofs`: a peer with a description, or about to have one, has left WAITING; from then on every close settles
  onceConnected.  A peer emits its first description before it is set, and finds candidates only after that (`InOrder`, `CandidatesHeld`).
* `TcpConnectionProofs`: the counter is the number of unanswered calls, less one once the socket has disconnected,
  and the provider has been destroyed iff it is negative (`CounterInv`).  `DestroyedOnceIdle` and, with `ConnectedSends`, `SocketKept`
  follow; `NeverGoesBack` is a property of steps.  `AnsweredOnce`: a session has replied exactly when it has come to the end of its way, and
  the SOCKS proxy sends one chunk at most, to a session that waits for it (`Awaited`); a session that came to its end unanswered has stopped.
* `SessionsProofs`: `SessionsStayInOrder` needs to know, of each channel, how the two sessions that use its ends lie (`Line`).  Either the sharer
  has not come to the OPEN of the getter's session (`Unheard`: before that OPEN is only the rest of another session, which ends with its CLOSE, and
  behind it at most one message, since the getter waits), or it talks to that session, or did last (`Heard`).  Messages of another session are
  then only read by an end that is closed or closing, which drops them.  For `AllIsDelivered`, `AllPassed` counts the packets of a session:
  what the client, or the web, has sent and the other side has not been given is in a queue of the session or in its
  channel, with a CLOSE behind it only if the sender is gone.
* `RemoteProofs`: every step of an end is a step of `Access` or a stutter (`GettingIsAccess`).  For `EndsInOrder` (`InOrder`): a share that
  is current while its promise is kept is that of the newest attempt; when another attempt comes the promise is made anew, and while
  the old share is stopped for it, the first of the signals that wait is the first of that attempt.
* `CoreProofs`: the six properties of `MCCore`.  `ServersTunnel`: a connection that is under way is the one in the table of clients, or its contact was removed, or it
  was told to end before it was established (`Newest`).  `SavedSettingsUsed`: until the stored settings are loaded, those read at the start are those stored; from then on `SavedIsUsed` is inductive.
  `KeptForATime`: the times of the buckets are apart by more than a day (`Apart`), so that no more than seven fit into a week.
  `NetworksAreTended`: a pending login is that of an object whose call is under way (`CallsKnown`, `PendingKnown`), and the core does nothing before it has
  read what to reconnect to (`NothingYet`).  `ContactsAreInOrder`: the maps of a contact name each other's entries, and an object of the roster is in
  each list as often as its category says, once (`Places`).  `TokensAreHonored`: a token comes after an announcement of its instance (`TokensInTurn`),
  and the user of the contact is read before anything is granted (`FirstRead`), so that no late read takes a grant back;
  a grant that is being read is the one that was written (`Restored`), and one in memory was written (`GrantsStored`).
* `EdgesProofs`: properties of `MCEdges`.
  `ShutdownCompletes`: the counter is the number of calls unanswered, less one once the socket has disconnected (`CallsCounted`), and no connection
  comes after the server was told to stop (`NoneComesLater`).
  `OneDrop`: the deadline is never before that of the last drop, and an answer ends an interval only if its packet was sent after the deadline (`MarkedOnce`).  `TableStaysTrue` and `LevelsAreTold` are close to inductive.
  `PathsAgree`: the first signals of both bridges name one kind (`OneKind`); a candidate of a churn is in its queue, on its way to the other side, waiting there for the pipe,
  being bound there, or that side has nothing bound to reach it by (`NothingLost`), and every socket of a pipe has the mirrors announced so far (`MirrorsMade`).
  `UsersAgree`: a yes under way for a promiseId, or a promise it settled, is for a number under which the user said yes to a question (`AnswersMeant`,
  `FulfilledMeant`), and of the questions of each number that the panel holds one is answered, will be or is shown (`HeldCared`), however many
  share it; an invitation is past its question only if the user said yes (`Consented`).
  `DialogsAreTrue`: of each instance, the last update that was told, under way or handled, is how it is in the core (`Followed`): so a
  full state that overtakes nothing, and updates in order, leave the dialogs right when nothing is under way.  Handling a full state goes over
  all users by a fold; that the recursive function it stands for exists is proved by a least size of a set for which it would not.
  `CoreIsAccess`: the core as `Ui` has it implements `Access` too, so that the interface is checked against what `Remote` guarantees.

`Least` (every set of natural numbers that is not empty has a least member) takes the place of induction where a recursive function of the
model has to be unfolded: the library's induction theorems take an operator, which the provers cannot instantiate.

Only model-checked:

* the liveness properties `ClosedIsReturned`, `PollingGoesOn`, `CloseIsNoticed`, `NegotiationEnds`, `ClosedIsTold`, `ErrorIsLifted`, `EndsTogether`,
  `BrokenIsRetried` and `ShareEnds`: TLAPS does not reach fairness and ENABLED.
* the four violations.

## 6. Not modelled

`PROJECT.json` lists each part with its reason.

* Nothing in the program uses `aggregate.ts`.  `churn/xwalk.ts` is a patch of texts for one old browser.
* `REDSentinel` of `aqm.ts` averages floats over random numbers.  The ciphers and `arraybuffers.ts` map bytes to bytes; the
  obfuscation is checked over an encryption taken for a bijection.
* `firewall.ts` validates shapes of messages; `crypto.ts` calls a library.  Messages of a network are taken to be well formed.
* The page of the cloud installer, the notifications, icons, texts and pages of the interface are presentation; the adaptors of Firefox,
  Cordova and the rest of the browsers' APIs are I/O.  Of Chrome's the proxy setting is modelled.
* The demonstrations (echo, chat, simple-socks) have no state of their own; build files, samples, docker and tests do not run in the program.
* In the modelled parts: statistics of bytes; overflow and proxying in `Sessions`; pause and resume; the manual network; the
  description of an instance; commands of the core that only call a modelled component.
