---------------------------------- MODULE Cloud ---------------------------------
(* The social provider of cloud servers (lib/cloud/social/provider.ts): the   *)
(* contacts it saves, the pings that watch for a server, and the SSH          *)
(* connections to one, of which the newest is to be the only one.             *)
(*                                                                            *)
(* A connection is used once.  ssh2, the servers and the pings are external.  *)
EXTENDS Naturals, FiniteSets

CONSTANTS
  Host,        \* servers
  Conn,        \* names of Connection objects
  None,        \* undefined
  MaxPings     \* bound: pings under way to a server

VARIABLES
  savedContacts_, disk,   \* hosts with a contact: in memory, in storage
  loading,                \* what storage.get will give, or None
  clients_,               \* the newest connection to each host, or None
  onlineHosts_,
  monitored,              \* hosts with an interval in onlinePresenceMonitorIds_
  pings,                  \* how many pings of each host are under way
  conn,                   \* fields of each connection
  told                    \* what was last said of each host: its status, or None

contactVars == <<savedContacts_, disk, loading>>
presenceVars == <<onlineHosts_, monitored, told>>
vars == <<contactVars, clients_, presenceVars, pings, conn>>

ConnectionState == {"NEW", "CONNECTING", "ESTABLISHING_TUNNEL", "WAITING_FOR_PING",
                    "WAITING_FOR_VERSION", "ESTABLISHED", "TERMINATED"}

(* give: whether "give" is to be sent, or was; end: whether a newer connection *)
(* will end this one when it is there; banner: whether its banner is awaited. *)
NewConn == [host |-> None, state |-> "NEW", give |-> "no", end |-> FALSE,
            banner |-> FALSE, orphan |-> FALSE]

TypeOK ==
  /\ savedContacts_ \subseteq Host /\ disk \subseteq Host
  /\ loading \in (SUBSET Host) \cup {None}
  /\ clients_ \in [Host -> Conn \cup {None}]
  /\ onlineHosts_ \subseteq Host /\ monitored \subseteq Host
  /\ pings \in [Host -> 0..MaxPings]
  /\ conn \in [Conn -> [host : Host \cup {None}, state : ConnectionState,
                        give : {"no", "will", "sent"}, end : BOOLEAN,
                        banner : BOOLEAN, orphan : BOOLEAN]]
  /\ told \in [Host -> {"ONLINE", "OFFLINE", None}]

Init ==
  /\ disk \in SUBSET Host /\ savedContacts_ = {} /\ loading = disk
  /\ clients_ = [h \in Host |-> None] /\ onlineHosts_ = {} /\ monitored = {}
  /\ pings = [h \in Host |-> 0] /\ conn = [x \in Conn |-> NewConn]
  /\ told = [h \in Host |-> None]

------------------------------------------------------------------------------
(* notifyOfUser_, of the hosts S, after their status is what it will be.      *)
notifyOfUser_(S) ==
  told' = [h \in Host |-> IF h \notin S THEN told[h]
                          ELSE IF h \in onlineHosts_' THEN "ONLINE" ELSE "OFFLINE"]

(* startMonitoringPresence_ pings at once, and then from time to time.        *)
startMonitoringPresence_(S) ==
  /\ monitored' = monitored \cup S
  /\ pings' = [h \in Host |-> IF h \in S \ monitored THEN pings[h] + 1 ELSE pings[h]]

(* setOnlineStatus_: the monitor of a host that is online stops.              *)
setOnlineStatus_(h, isOnline) ==
  /\ onlineHosts_' = IF isOnline THEN onlineHosts_ \cup {h} ELSE onlineHosts_ \ {h}
  /\ monitored' = IF isOnline THEN monitored \ {h} ELSE monitored

(* Mutant: the connection there was is not ended. *)
reconnect__keeps(h, x, give) ==
  /\ conn[x].state = "NEW"
  /\ clients_' = [clients_ EXCEPT ![h] = x]
  /\ conn' = [conn EXCEPT ![x] = [NewConn EXCEPT !.host = h, !.state = "CONNECTING", !.give = give]]

(* reconnect_, and connect: the connection there was is ended, now or when it *)
(* is established.                                                            *)
reconnect_(h, x, give) ==
  LET old == clients_[h]
      ended == IF old = None THEN conn
               ELSE IF conn[old].state = "ESTABLISHED"
                 THEN [conn EXCEPT ![old].state = "TERMINATED"]
                 ELSE [conn EXCEPT ![old].end = TRUE] IN
  /\ conn[x].state = "NEW"
  /\ clients_' = [clients_ EXCEPT ![h] = x]
  /\ conn' = [ended EXCEPT ![x] =
                [NewConn EXCEPT !.host = h, !.state = "CONNECTING", !.give = give]]

------------------------------------------------------------------------------
(* The contacts in storage are there. *)
loadContacts_ ==
  /\ loading # None /\ loading' = None
  /\ \A h \in loading : pings[h] < MaxPings
  /\ savedContacts_' = savedContacts_ \cup loading
  /\ startMonitoringPresence_(loading)
  /\ UNCHANGED onlineHosts_ /\ notifyOfUser_(loading)
  /\ UNCHANGED <<disk, clients_, conn>>

acceptUserInvitation(h) ==
  /\ pings[h] < MaxPings
  /\ savedContacts_' = savedContacts_ \cup {h} /\ disk' = savedContacts_'
  /\ startMonitoringPresence_({h})
  /\ UNCHANGED onlineHosts_ /\ notifyOfUser_({h})
  /\ UNCHANGED <<loading, clients_, conn>>

(* A connection to a contact that is removed is forgotten, not ended.         *)
removeUser(h) ==
  /\ h \in savedContacts_
  /\ savedContacts_' = savedContacts_ \ {h} /\ disk' = savedContacts_'
  /\ monitored' = monitored \ {h}
  /\ clients_' = [clients_ EXCEPT ![h] = None]
  /\ conn' = IF clients_[h] = None THEN conn ELSE [conn EXCEPT ![clients_[h]].orphan = TRUE]
  /\ UNCHANGED <<loading, onlineHosts_, pings, told>>

(* The interval of startMonitoringPresence_. *)
Ping(h) ==
  /\ h \in monitored /\ pings[h] < MaxPings
  /\ pings' = [pings EXCEPT ![h] = @ + 1]
  /\ UNCHANGED <<contactVars, clients_, presenceVars, conn>>

(* A ping is answered or not: the core is told of a change, and a host that   *)
(* has come is connected to.  Of a contact that was removed nothing is known, *)
(* and the handler throws once the status is set.                             *)
Pinged(h, isOnline) ==
  /\ pings[h] > 0 /\ pings' = [pings EXCEPT ![h] = @ - 1]
  /\ setOnlineStatus_(h, isOnline)
  /\ LET changed == isOnline # (h \in onlineHosts_) /\ h \in savedContacts_ IN
     /\ notifyOfUser_(IF changed THEN {h} ELSE {})
     /\ IF changed /\ isOnline
          THEN \E x \in Conn : reconnect_(h, x, "no")
          ELSE UNCHANGED <<clients_, conn>>
  /\ UNCHANGED contactVars

(* sendMessage: the first message of an attempt to get access, and any other. *)
SendFirst(h) ==
  /\ h \in savedContacts_
  /\ \E x \in Conn : reconnect_(h, x, "will")
  /\ UNCHANGED <<contactVars, presenceVars, pings>>

(* logout: every connection is ended, when it is there.                       *)
logout ==
  /\ \E h \in Host : clients_[h] # None /\ conn[clients_[h]].state # "TERMINATED"
  /\ conn' = [x \in Conn |->
       IF \A h \in Host : clients_[h] # x THEN conn[x]
       ELSE IF conn[x].state = "ESTABLISHED" THEN [conn[x] EXCEPT !.state = "TERMINATED"]
       ELSE [conn[x] EXCEPT !.end = TRUE]]
  /\ UNCHANGED <<contactVars, clients_, presenceVars, pings>>

------------------------------------------------------------------------------
(* A connection: ssh2 is ready, the tunnel is there, the server answers ping  *)
(* and tells its version.                                                     *)
Moves(x, from, to) ==
  /\ conn[x].state = from
  /\ conn' = [conn EXCEPT ![x].state = to]
  /\ UNCHANGED <<contactVars, clients_, presenceVars, pings>>

Ready(x) == Moves(x, "CONNECTING", "ESTABLISHING_TUNNEL")
TunnelOpens(x) == Moves(x, "ESTABLISHING_TUNNEL", "WAITING_FOR_PING")
TunnelFails(x) == Moves(x, "ESTABLISHING_TUNNEL", "TERMINATED")
ReplyPing(x) == Moves(x, "WAITING_FOR_PING", "WAITING_FOR_VERSION")
ReplyOther(x) == Moves(x, "WAITING_FOR_PING", "TERMINATED")

(* The connection is established: its host is online, its banner is asked     *)
(* for, "give" is sent, and it ends if a newer one has asked for that.        *)
ReplyVersion(x) ==
  /\ conn[x].state = "WAITING_FOR_VERSION"
  /\ setOnlineStatus_(conn[x].host, TRUE)
  /\ conn' = [conn EXCEPT ![x].banner = TRUE,
                ![x].give = IF @ = "will" THEN "sent" ELSE @,
                ![x].state = IF conn[x].end THEN "TERMINATED" ELSE "ESTABLISHED"]
  /\ UNCHANGED <<contactVars, clients_, pings, told>>

(* The banner, or an error in its place: the contact is saved with it.        *)
getBanner(x) ==
  LET h == conn[x].host IN
  /\ conn[x].banner /\ conn' = [conn EXCEPT ![x].banner = FALSE]
  /\ savedContacts_' = savedContacts_ \cup {h} /\ disk' = savedContacts_'
  /\ UNCHANGED onlineHosts_ /\ notifyOfUser_({h})
  /\ UNCHANGED <<loading, clients_, monitored, pings>>

(* A message of the server. *)
Received(x) ==
  /\ conn[x].state = "ESTABLISHED"
  /\ setOnlineStatus_(conn[x].host, TRUE)
  /\ UNCHANGED <<contactVars, clients_, pings, told, conn>>

(* error, end or close. *)
Ends(x) ==
  /\ conn[x].state \notin {"NEW", "TERMINATED"}
  /\ conn' = [conn EXCEPT ![x].state = "TERMINATED"]
  /\ UNCHANGED <<contactVars, clients_, presenceVars, pings>>

Next ==
  \/ loadContacts_ \/ logout
  \/ \E h \in Host : \/ acceptUserInvitation(h) \/ removeUser(h) \/ Ping(h) \/ SendFirst(h)
                     \/ \E b \in BOOLEAN : Pinged(h, b)
  \/ \E x \in Conn : \/ Ready(x) \/ TunnelOpens(x) \/ TunnelFails(x) \/ ReplyPing(x)
                     \/ ReplyOther(x) \/ ReplyVersion(x) \/ getBanner(x) \/ Received(x) \/ Ends(x)

Spec == Init /\ [][Next]_vars

------------------------------------------------------------------------------
(* A server is told to give access over one connection: any other to it that  *)
(* was established has ended, unless its contact was removed                  *)
(* (provider.ts:206, 445).                                                    *)
OneTunnel ==
  \A x \in Conn : conn[x].state = "ESTABLISHED" => clients_[conn[x].host] = x \/ conn[x].orphan

(* The storage has what the memory has, once it was read, and a contact that  *)
(* is not online is pinged.  Neither holds: an invitation accepted while the  *)
(* contacts are being read drops the others from the storage, and a ping that *)
(* comes back late takes back a status that had stopped the pings             *)
(* (provider.ts:262, 465).                                                    *)
Kept == loading = None => savedContacts_ = disk
Watched == savedContacts_ \ onlineHosts_ \subseteq monitored \cup {h \in Host : pings[h] > 0}
================================================================================
