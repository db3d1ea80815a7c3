-------------------------------- MODULE Reproxy --------------------------------
(* How the sessions of rtc-to-net connect, directly or through a SOCKS proxy   *)
(* on this computer, what they answer their peer, and the error bar of the     *)
(* sharer's interface (rtc-to-net.ts, generic_ui/scripts/ui.ts).  Sessions.tla *)
(* models what a session is after that.                                        *)
EXTENDS Integers, Sequences

CONSTANTS
  Session,
  Enabled,             \* proxyConfig_.reproxy.enabled, in a set of BOOLEANs
  AllowNonUnicast,     \* proxyConfig_.allowNonUnicast, in the same way
  MaxOutages           \* bound on the times the proxy goes away

VARIABLES
  enabled, allowNonUnicast,
  endpoint,      \* of a session: where its peer wants to go
  step,          \* start, dialing, auth, userpass, request, ready, rejected, or
                 \* unanswered when it ended without a reply
  incoming,      \* what the proxy has sent, in the chunks the socket delivers
  replies,       \* sent to the peer
  lost,          \* data came in the chunk of the answer
  stopping,      \* onceStopping_ is fulfilled
  up, outages,   \* the SOCKS proxy
  updates,       \* REPROXY_ERRORs on their way to the user interface
  reproxyError, intervals, checking    \* of the user interface

vars == <<enabled, allowNonUnicast, endpoint, step, incoming, replies, lost, stopping,
          up, outages, updates, reproxyError, intervals, checking>>
config == <<enabled, allowNonUnicast>>
session == <<endpoint, step, incoming, replies, lost, stopping>>
proxy == <<up, outages>>
bar == <<reproxyError, intervals, checking>>

Endpoint == {"public", "local", "name of public", "name of local", "none"}
Reply == {"SUCCEEDED", "FAILURE", "NOT_ALLOWED", "NETWORK_UNREACHABLE", "HOST_UNREACHABLE",
          "CONNECTION_REFUSED", "TTL_EXPIRED", "UNSUPPORTED_COMMAND"}
Step == {"start", "dialing", "auth", "userpass", "request", "ready", "rejected",
         "unanswered"}
Chunk == [what : {"NOAUTH", "USERPASS", "denied", "welcome", "SUCCEEDED", "FAILURE", "piece"},
          data : BOOLEAN]

TypeOK ==
  /\ enabled \in Enabled /\ allowNonUnicast \in AllowNonUnicast
  /\ \A s \in Session : /\ endpoint[s] \in Endpoint /\ step[s] \in Step
                        /\ \A i \in DOMAIN incoming[s] : incoming[s][i] \in Chunk
                        /\ \A i \in DOMAIN replies[s] : replies[s][i] \in Reply
                        /\ {lost[s], stopping[s]} \subseteq BOOLEAN
  /\ up \in BOOLEAN /\ outages \in 0..MaxOutages /\ updates \in Nat
  /\ reproxyError \in BOOLEAN /\ intervals \in Nat /\ checking \in Nat

Init ==
  /\ enabled \in Enabled /\ allowNonUnicast \in AllowNonUnicast
  /\ endpoint = [s \in Session |-> "none"] /\ step = [s \in Session |-> "start"]
  /\ incoming = [s \in Session |-> <<>>] /\ replies = [s \in Session |-> <<>>]
  /\ lost = [s \in Session |-> FALSE] /\ stopping = [s \in Session |-> FALSE]
  /\ up \in BOOLEAN /\ outages = 0 /\ updates = 0
  /\ reproxyError = FALSE /\ intervals = 0 /\ checking = 0

IsLocal(e) == e \in {"local", "name of local"}
isAllowedAddress_(e) == allowNonUnicast \/ ~IsLocal(e)
(* isWebEndpointAllowed_: a name is looked at when it is connected. *)
isWebEndpointAllowed_(e) == e = "local" => allowNonUnicast

(* replyToPeer_: any reply but SUCCEEDED stops the session. *)
replyToPeer_(s, reply, to) ==
  /\ replies' = [replies EXCEPT ![s] = Append(@, reply)]
  /\ step' = [step EXCEPT ![s] = to]
  /\ stopping' = [stopping EXCEPT ![s] = @ \/ reply # "SUCCEEDED" \/ to = "rejected"]

(* start: receiveEndpointFromPeer_ with a request or something else. *)
ReceiveEndpoint(s) ==
  /\ step[s] = "start"
  /\ \E e \in Endpoint :
       /\ endpoint' = [endpoint EXCEPT ![s] = e]
       /\ CASE e = "none" -> replyToPeer_(s, "UNSUPPORTED_COMMAND", "rejected")
            [] e # "none" /\ ~isWebEndpointAllowed_(e) ->
                 replyToPeer_(s, "NOT_ALLOWED", "rejected")
            [] OTHER -> /\ step' = [step EXCEPT ![s] = "dialing"]
                        /\ UNCHANGED <<replies, stopping>>
  /\ UNCHANGED <<config, incoming, lost, proxy, updates, bar>>

(* Where getReplyFromError_ leads; "" is any other code. *)
getReplyFromError_ ==
  [code \in {"TIMED_OUT", "NETWORK_CHANGED", "NAME_NOT_RESOLVED", "CONNECTION_REFUSED", ""} |->
     CASE code = "TIMED_OUT" -> "TTL_EXPIRED"
       [] code = "NETWORK_CHANGED" -> "NETWORK_UNREACHABLE"
       [] code = "NAME_NOT_RESOLVED" -> "HOST_UNREACHABLE"
       [] code = "CONNECTION_REFUSED" /\ allowNonUnicast -> "CONNECTION_REFUSED"
       [] OTHER -> "FAILURE"]

(* The catch of onceConnected.  reproxyError_ is the session's own: it is not  *)
(* yet set.                                                                    *)
ConnectFails(s) ==
  /\ step[s] = "dialing" /\ (enabled => ~up)
  /\ \E code \in DOMAIN getReplyFromError_ :
       replyToPeer_(s, getReplyFromError_[code], "rejected")
  /\ updates' = IF enabled THEN updates + 1 ELSE updates
  /\ UNCHANGED <<config, endpoint, incoming, lost, proxy, bar>>

(* A direct connection: getReplyFromInfo_ looks at the address it got, and     *)
(* throws if the socket did not tell it (endpointOfSocketInfo in tcp.ts): then *)
(* onceReady is rejected, which nothing but fulfillStopping_ waits for.        *)
Connects(s) ==
  /\ step[s] = "dialing" /\ (enabled => up)
  /\ \/ /\ enabled
        /\ step' = [step EXCEPT ![s] = "auth"] /\ UNCHANGED <<replies, stopping>>
     \/ /\ ~enabled
        /\ replyToPeer_(s, IF isAllowedAddress_(endpoint[s]) THEN "SUCCEEDED" ELSE "FAILURE",
                        "ready")
     \/ /\ ~enabled
        /\ step' = [step EXCEPT ![s] = "unanswered"]
        /\ stopping' = [stopping EXCEPT ![s] = TRUE] /\ UNCHANGED replies
  /\ UNCHANGED <<config, endpoint, incoming, lost, proxy, updates, bar>>

(* The proxy answers what it was asked, in one chunk or several; after its     *)
(* success the chunk may go on with data.                                      *)
ProxyAnswers(s) ==
  /\ up /\ incoming[s] = <<>>
  /\ \E what \in CASE step[s] = "auth" -> {"NOAUTH", "USERPASS", "denied", "piece"}
                   [] step[s] = "userpass" -> {"welcome", "denied", "piece"}
                   [] step[s] = "request" -> {"SUCCEEDED", "FAILURE", "piece"}
                   [] OTHER -> {}, data \in BOOLEAN :
       /\ data => what = "SUCCEEDED"
       /\ incoming' = [incoming EXCEPT ![s] = <<[what |-> what, data |-> data]>>]
  /\ UNCHANGED <<config, endpoint, step, replies, lost, stopping, proxy, updates, bar>>

(* Mutant: a failed handshake is reported, and then passes for an answer. *)
connectWithSocksAuth__swallowed(s) ==
  /\ incoming[s] # <<>> /\ incoming' = [incoming EXCEPT ![s] = Tail(@)]
  /\ lost' = [lost EXCEPT ![s] = Head(incoming[s]).data]
  /\ LET what == Head(incoming[s]).what
     IN  CASE step[s] = "auth" /\ what = "USERPASS" ->
                step' = [step EXCEPT ![s] = "userpass"]
                  /\ UNCHANGED <<replies, stopping, updates>>
           [] (step[s] = "auth" /\ what = "NOAUTH") \/ what = "welcome" ->
                step' = [step EXCEPT ![s] = "request"]
                  /\ UNCHANGED <<replies, stopping, updates>>
           [] step[s] = "request" /\ what \in Reply ->
                replyToPeer_(s, what, "ready") /\ UNCHANGED updates
           [] OTHER -> /\ replies' = [replies EXCEPT ![s] = @ \o <<"FAILURE", "FAILURE">>]
                       /\ step' = [step EXCEPT ![s] = "ready"]
                       /\ stopping' = [stopping EXCEPT ![s] = TRUE]
                       /\ updates' = updates + 1
  /\ UNCHANGED <<config, endpoint, proxy, bar>>

(* connectWithSocksAuth_: each answer is the next chunk, whatever it holds;    *)
(* what follows the answer in its chunk is left in it.                         *)
connectWithSocksAuth_(s) ==
  /\ incoming[s] # <<>> /\ incoming' = [incoming EXCEPT ![s] = Tail(@)]
  /\ lost' = [lost EXCEPT ![s] = Head(incoming[s]).data]
  /\ LET what == Head(incoming[s]).what
     IN  CASE step[s] = "auth" /\ what = "USERPASS" ->
                step' = [step EXCEPT ![s] = "userpass"]
                  /\ UNCHANGED <<replies, stopping, updates>>
           [] (step[s] = "auth" /\ what = "NOAUTH") \/ what = "welcome" ->
                step' = [step EXCEPT ![s] = "request"]
                  /\ UNCHANGED <<replies, stopping, updates>>
           [] step[s] = "request" /\ what \in Reply ->
                replyToPeer_(s, what, "ready") /\ UNCHANGED updates
           [] OTHER -> replyToPeer_(s, "FAILURE", "rejected") /\ updates' = updates + 1
  /\ UNCHANGED <<config, endpoint, proxy, bar>>

(* receiveNext is aborted by the end of the connection. *)
ProxyHangsUp(s) ==
  /\ step[s] \in {"auth", "userpass", "request"} /\ incoming[s] = <<>>
  /\ replyToPeer_(s, "FAILURE", "rejected") /\ updates' = updates + 1
  /\ UNCHANGED <<config, endpoint, incoming, lost, proxy, bar>>

ProxyGoes ==
  /\ up /\ outages < MaxOutages /\ up' = FALSE /\ outages' = outages + 1
  /\ UNCHANGED <<config, session, updates, bar>>
ProxyComes ==
  /\ ~up /\ up' = TRUE
  /\ UNCHANGED <<config, session, outages, updates, bar>>

(* REPROXY_ERROR reaches the interface: every one starts an interval. *)
ReproxyError ==
  /\ updates > 0 /\ updates' = updates - 1
  /\ reproxyError' = TRUE /\ intervals' = intervals + 1
  /\ UNCHANGED <<config, session, proxy, checking>>

(* Mutant: an interval ends with its check. *)
Interval_once ==
  /\ intervals > 0
  /\ intervals' = intervals - 1
  /\ checking' = IF reproxyError THEN checking + 1 ELSE checking
  /\ UNCHANGED <<config, session, proxy, updates, reproxyError>>

(* An interval ends when the error is gone, and checks the proxy otherwise,    *)
(* with ten seconds for the last check to end.                                 *)
Interval ==
  /\ intervals > 0 /\ checking < intervals
  /\ IF reproxyError THEN checking' = checking + 1 /\ UNCHANGED intervals
     ELSE intervals' = intervals - 1 /\ UNCHANGED checking
  /\ UNCHANGED <<config, session, proxy, updates, reproxyError>>

Checked ==
  /\ checking > 0 /\ checking' = checking - 1
  /\ reproxyError' = (reproxyError /\ ~up)
  /\ UNCHANGED <<config, session, proxy, updates, intervals>>

Next ==
  \/ \E s \in Session : ReceiveEndpoint(s) \/ ConnectFails(s) \/ Connects(s)
                          \/ ProxyAnswers(s) \/ connectWithSocksAuth_(s) \/ ProxyHangsUp(s)
  \/ ProxyGoes \/ ProxyComes \/ ReproxyError \/ Interval \/ Checked

Spec == Init /\ [][Next]_vars
(* Updates, timers and requests of the interface are not put off for ever. *)
FairSpec == Spec /\ WF_vars(ReproxyError) /\ WF_vars(Interval) /\ WF_vars(Checked)

(* Whichever step of the way fails, the peer is answered once, but for the one *)
(* that getReplyFromInfo_ throws in, which leaves it without an answer; and a  *)
(* session that will not be linked is stopped, that one too.                   *)
OneReply ==
  \A s \in Session :
    /\ Len(replies[s]) = IF step[s] \in {"ready", "rejected"} THEN 1 ELSE 0
    /\ step[s] \in {"rejected", "unanswered"} => stopping[s]

(* Once the proxy stays up and the errors stop, the bar goes: some interval    *)
(* still polls whenever it is shown.                                           *)
ErrorIsLifted == <>[](up /\ updates = 0) => <>[]~reproxyError

(* What the proxy sends after its answer reaches the peer: not when it is in   *)
(* the chunk of the answer.                                                    *)
NoDataLost == \A s \in Session : ~lost[s]
===============================================================================
