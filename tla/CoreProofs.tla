------------------------------ MODULE CoreProofs ------------------------------
(* Proofs about the modules of the core, for any values of their constants.    *)
(* Each part has a section: its variables under their own names, the invariant *)
(* that is inductive, why each step keeps it, and the theorem.                 *)
EXTENDS MCCore, Integers, FiniteSetTheorems, SequenceTheorems, WellFoundedInduction, TLAPS

(* Any set of natural numbers has a least one: its least initial segment is    *)
(* minimal among subsets of a finite set.                                      *)
LEMMA Least ==
  ASSUME NEW T, T \subseteq Nat, T # {}
  PROVE  \E n \in T : \A m \in T : n <= m
<1>1. PICK top \in T : TRUE
  OBVIOUS
<1> DEFINE S == 0..top
           F == {0..n : n \in T \cap S}
<1>2. IsWellFoundedOn(StrictSubsetOrdering(S), FiniteSubsetsOf(S))
  BY FS_StrictSubsetOrderingWellFounded
<1>3. F \subseteq FiniteSubsetsOf(S) /\ F # {}
  <2>1. \A n \in T \cap S : 0..n \subseteq S /\ IsFiniteSet(0..n)
    BY <1>1, FS_Interval
  <2>2. top \in T \cap S
    BY <1>1
  <2> QED
    BY <2>1, <2>2 DEF FiniteSubsetsOf
<1>4. PICK x \in F : \A y \in F : <<y, x>> \notin StrictSubsetOrdering(S)
  <2> HIDE DEF F, S
  <2> QED
    BY <1>2, <1>3, WFMin
<1>5. PICK n \in T \cap S : x = 0..n
  OBVIOUS
<1>6. ASSUME NEW m \in T, m < n PROVE FALSE
  <2>1. m \in S /\ 0..m \subseteq 0..n /\ 0..m # 0..n /\ 0..n \subseteq S
    BY <1>5, <1>6
  <2>2. <<0..m, 0..n>> \in StrictSubsetOrdering(S)
    BY <2>1 DEF StrictSubsetOrdering
  <2> QED
    BY <1>4, <1>5, <2>1, <2>2
<1> QED
  BY <1>5, <1>6

-----------------------------------------------------------------------------
(* Cloud.  Each connection that is under way is the newest to its server, or   *)
(* was forgotten with its contact, or will end as soon as it is established.   *)
savedContacts_ == v1
contactsOnDisk == v2
loading == v3
clients_ == v4
onlineHosts_ == v5
monitored == v6
pings == v7
conn == v8
lastTold == v9
USE DEF savedContacts_, contactsOnDisk, loading, clients_, onlineHosts_, monitored, pings, conn,
        lastTold

HostsKnown ==
  \A x \in Conn : conn[x].state # "NEW" \/ conn[x].banner => conn[x].host \in Host

Newest(x, clients, c) ==
  c.state \notin {"NEW", "TERMINATED"} =>
    clients[c.host] = x \/ c.orphan \/ (c.end /\ c.state # "ESTABLISHED")

CloudInv ==
  Clouds!TypeOK /\ HostsKnown /\ \A x \in Conn : Newest(x, clients_, conn[x])

Connection ==
  [host : Host \cup {None}, state : Clouds!ConnectionState, give : {"no", "will", "sent"},
   end : BOOLEAN, banner : BOOLEAN, orphan : BOOLEAN]

LEMMA CloudInit == Clouds!Init => CloudInv
<1> SUFFICES ASSUME Clouds!Init PROVE CloudInv
  OBVIOUS
<1>1. \A x \in Conn : conn[x] = Clouds!NewConn
  BY DEF Clouds!Init
<1>2. Clouds!NewConn \in Connection
  BY DEF Clouds!NewConn, Connection, Clouds!ConnectionState
<1>3. Clouds!TypeOK
  BY <1>2, BoundsAssumption DEF Clouds!Init, Clouds!TypeOK, Connection
<1>4. HostsKnown /\ \A x \in Conn : Newest(x, clients_, conn[x])
  BY <1>1 DEF Clouds!NewConn, HostsKnown, Newest
<1> QED
  BY <1>3, <1>4 DEF CloudInv

LEMMA CloudTyped ==
  Clouds!TypeOK <=>
    /\ savedContacts_ \in SUBSET Host /\ contactsOnDisk \in SUBSET Host
    /\ loading \in (SUBSET Host) \cup {None}
    /\ clients_ \in [Host -> Conn \cup {None}]
    /\ onlineHosts_ \in SUBSET Host /\ monitored \in SUBSET Host
    /\ pings \in [Host -> 0..MaxPings]
    /\ conn \in [Conn -> Connection]
    /\ lastTold \in [Host -> {"ONLINE", "OFFLINE", None}]
BY DEF Clouds!TypeOK, Connection

(* The connection there was is ended, or will be. *)
LEMMA Reconnected ==
  ASSUME CloudInv, NEW h \in Host, NEW x \in Conn, NEW give \in {"no", "will"},
         Clouds!reconnect_(h, x, give)
  PROVE  /\ clients_' \in [Host -> Conn \cup {None}] /\ conn' \in [Conn -> Connection]
         /\ HostsKnown' /\ \A y \in Conn : Newest(y, clients_', conn'[y])
<1> DEFINE old == clients_[h]
           new == [Clouds!NewConn EXCEPT !.host = h, !.state = "CONNECTING", !.give = give]
           ended == IF old = None THEN conn
                    ELSE IF conn[old].state = "ESTABLISHED"
                      THEN [conn EXCEPT ![old].state = "TERMINATED"]
                      ELSE [conn EXCEPT ![old].end = TRUE]
<1>0. /\ clients_ \in [Host -> Conn \cup {None}] /\ conn \in [Conn -> Connection]
      /\ HostsKnown /\ \A y \in Conn : Newest(y, clients_, conn[y])
  BY CloudTyped DEF CloudInv
<1>1. clients_' = [clients_ EXCEPT ![h] = x] /\ conn' = [ended EXCEPT ![x] = new]
  BY DEF Clouds!reconnect_
<1>2. new \in Connection /\ new.host = h /\ new.state = "CONNECTING"
  BY DEF Clouds!NewConn, Connection, Clouds!ConnectionState
<1>3. old \in Conn \cup {None}
  BY <1>0
<1>4. ended \in [Conn -> Connection]
  <2>1. CASE old = None
    BY <1>0, <2>1
  <2>2. CASE old # None
    <3>1. old \in Conn /\ conn[old] \in Connection
      BY <1>0, <1>3, <2>2
    <3>2. \A c \in Connection : /\ [c EXCEPT !.state = "TERMINATED"] \in Connection
                               /\ [c EXCEPT !.end = TRUE] \in Connection
      BY DEF Connection, Clouds!ConnectionState
    <3> QED
      BY <1>0, <3>1, <3>2, <2>2
  <2> QED
    BY <2>1, <2>2
<1>5. ASSUME NEW y \in Conn
      PROVE  /\ ended[y].host = conn[y].host /\ ended[y].orphan = conn[y].orphan
             /\ ended[y].banner = conn[y].banner /\ (conn[y].end => ended[y].end)
             /\ ended[y].state # "NEW" => conn[y].state # "NEW"
             /\ \/ ended[y].state = conn[y].state
                \/ ended[y].state = "TERMINATED"
             /\ y = old => ended[y].state = "TERMINATED" \/
                             (ended[y].end /\ ended[y].state # "ESTABLISHED")
  <2>1. CASE old = None \/ y # old
    <3>1. ended[y] = conn[y]
      BY <1>0, <1>3, <2>1
    <3>2. y # old
      BY <2>1, NamesAssumption
    <3> HIDE DEF old, ended
    <3> QED
      BY <3>1, <3>2
  <2>2. CASE old # None /\ y = old
    BY <1>0, <1>3, <2>2 DEF Connection
  <2> QED
    BY <2>1, <2>2
<1>6. clients_' \in [Host -> Conn \cup {None}] /\ clients_'[h] = x
      /\ \A g \in Host \ {h} : clients_'[g] = clients_[g]
  BY <1>0, <1>1
<1>7. conn' \in [Conn -> Connection] /\ conn'[x] = new
      /\ \A y \in Conn \ {x} : conn'[y] = ended[y]
  BY <1>1, <1>2, <1>4
<1> HIDE DEF old, new, ended
<1>8. HostsKnown'
  <2>1. ASSUME NEW y \in Conn, conn'[y].state # "NEW" \/ conn'[y].banner
        PROVE  conn'[y].host \in Host
    <3>1. CASE y = x
      BY <1>2, <1>7, <3>1
    <3>2. CASE y # x
      BY <1>0, <1>5, <1>7, <2>1, <3>2 DEF HostsKnown
    <3> QED
      BY <3>1, <3>2
  <2> QED
    BY <2>1 DEF HostsKnown
<1>9. ASSUME NEW y \in Conn PROVE Newest(y, clients_', conn'[y])
  <2>1. CASE y = x
    BY <1>2, <1>6, <1>7, <2>1 DEF Newest
  <2>2. CASE y # x /\ conn'[y].state \notin {"NEW", "TERMINATED"}
    <3>1. /\ conn[y].state \notin {"NEW", "TERMINATED"} /\ conn[y].host \in Host
          /\ conn'[y].state = conn[y].state /\ conn'[y].host = conn[y].host
      BY <1>0, <1>5, <1>7, <2>2 DEF HostsKnown
    <3>2. CASE y = old
      BY <1>5, <1>7, <2>2, <3>2 DEF Newest
    <3>3. CASE y # old
      <4>1. clients_[conn[y].host] = y => conn[y].host # h
        BY <3>3 DEF old
      <4>2. conn[y].host # h => clients_'[conn'[y].host] = clients_[conn[y].host]
        BY <1>6, <3>1
      <4> QED
        BY <1>0, <1>5, <1>7, <2>2, <3>1, <4>1, <4>2 DEF Newest
    <3> QED
      BY <3>2, <3>3
  <2> QED
    BY <2>1, <2>2 DEF Newest
<1> QED
  BY <1>6, <1>7, <1>8, <1>9

(* A connection goes on, and does not come to be established. *)
LEMMA ConnectionMoves ==
  ASSUME CloudInv, NEW x \in Conn, conn[x].state # "NEW", conn[x].state # "TERMINATED",
         NEW to \in Clouds!ConnectionState \ {"NEW", "ESTABLISHED"},
         conn' = [conn EXCEPT ![x].state = to],
         UNCHANGED <<savedContacts_, contactsOnDisk, loading, clients_, onlineHosts_, monitored,
                     lastTold, pings>>
  PROVE  CloudInv'
<1>0. CloudInv
  OBVIOUS
<1>1. /\ conn' \in [Conn -> Connection]
      /\ conn'[x] = [conn[x] EXCEPT !.state = to] /\ conn[x] \in Connection
      /\ \A y \in Conn \ {x} : conn'[y] = conn[y]
  BY CloudTyped DEF CloudInv, Connection
<1>2. conn'[x].state = to /\ conn'[x].host = conn[x].host /\ conn'[x].orphan = conn[x].orphan
      /\ conn'[x].end = conn[x].end /\ conn'[x].banner = conn[x].banner
  BY <1>1 DEF Connection
<1>3. Clouds!TypeOK'
  BY <1>1, CloudTyped DEF CloudInv, Clouds!TypeOK, Connection
<1>4. HostsKnown'
  BY <1>1, <1>2 DEF CloudInv, HostsKnown
<1>5. ASSUME NEW y \in Conn PROVE Newest(y, clients_', conn'[y])
  <2>1. CASE y = x
    BY <1>1, <1>2, <2>1 DEF CloudInv, Newest
  <2>2. CASE y # x
    BY <1>1, <2>2 DEF CloudInv
  <2> QED
    BY <2>1, <2>2
<1> QED
  BY <1>3, <1>4, <1>5 DEF CloudInv

(* What a step does to one field of the connection x, its state left alone. *)
LEMMA ConnectionKept ==
  ASSUME CloudInv, NEW D \in [Conn -> Connection],
         \A x \in Conn : /\ D[x].state = conn[x].state /\ D[x].host = conn[x].host
                         /\ conn[x].end => D[x].end
                         /\ conn[x].orphan => D[x].orphan
                         /\ D[x].banner => conn[x].banner
  PROVE  /\ \A x \in Conn : D[x].state # "NEW" \/ D[x].banner => D[x].host \in Host
         /\ \A x \in Conn : Newest(x, clients_, D[x])
BY DEF CloudInv, HostsKnown, Newest

LEMMA CloudStep == CloudInv /\ [Clouds!Next]_(Clouds!vars) => CloudInv'
<1> SUFFICES ASSUME CloudInv, [Clouds!Next]_(Clouds!vars) PROVE CloudInv'
  OBVIOUS
<1>0. /\ savedContacts_ \in SUBSET Host /\ contactsOnDisk \in SUBSET Host
      /\ loading \in (SUBSET Host) \cup {None}
      /\ clients_ \in [Host -> Conn \cup {None}]
      /\ onlineHosts_ \in SUBSET Host /\ monitored \in SUBSET Host
      /\ pings \in [Host -> 0..MaxPings]
      /\ conn \in [Conn -> Connection]
      /\ lastTold \in [Host -> {"ONLINE", "OFFLINE", None}]
      /\ HostsKnown /\ \A x \in Conn : Newest(x, clients_, conn[x])
  BY CloudTyped DEF CloudInv
<1>a. ASSUME NEW S \in SUBSET Host, Clouds!notifyOfUser_(S)
      PROVE  lastTold' \in [Host -> {"ONLINE", "OFFLINE", None}]
  BY <1>0, <1>a DEF Clouds!notifyOfUser_
<1>b. ASSUME NEW S \in SUBSET Host, Clouds!startMonitoringPresence_(S),
             \A h \in S : pings[h] < MaxPings
      PROVE  monitored' \in SUBSET Host /\ pings' \in [Host -> 0..MaxPings]
  BY <1>0, <1>b, BoundsAssumption DEF Clouds!startMonitoringPresence_
<1>c. UNCHANGED <<clients_, conn>> => HostsKnown' /\ \A x \in Conn : Newest(x, clients_', conn'[x])
  BY <1>0 DEF HostsKnown
<1>1. CASE Clouds!loadContacts_
  <2>1. loading \in SUBSET Host /\ lastTold' \in [Host -> {"ONLINE", "OFFLINE", None}]
        /\ monitored' \in SUBSET Host /\ pings' \in [Host -> 0..MaxPings]
    BY <1>1, <1>0, <1>a, <1>b DEF Clouds!loadContacts_
  <2>2. /\ savedContacts_' = savedContacts_ \cup loading /\ loading' = None
        /\ UNCHANGED <<contactsOnDisk, clients_, onlineHosts_, conn>>
    BY <1>1 DEF Clouds!loadContacts_
  <2> QED
    BY <2>1, <2>2, <1>0, <1>c DEF CloudInv, Clouds!TypeOK, Connection
<1>2. ASSUME NEW h \in Host, Clouds!acceptUserInvitation(h) PROVE CloudInv'
  <2>1. lastTold' \in [Host -> {"ONLINE", "OFFLINE", None}]
        /\ monitored' \in SUBSET Host /\ pings' \in [Host -> 0..MaxPings]
    BY <1>2, <1>0, <1>a, <1>b DEF Clouds!acceptUserInvitation
  <2>2. /\ savedContacts_' = savedContacts_ \cup {h} /\ contactsOnDisk' = savedContacts_'
        /\ UNCHANGED <<loading, clients_, onlineHosts_, conn>>
    BY <1>2 DEF Clouds!acceptUserInvitation
  <2> QED
    BY <2>1, <2>2, <1>0, <1>c DEF CloudInv, Clouds!TypeOK, Connection
<1>3. ASSUME NEW h \in Host, Clouds!removeUser(h) PROVE CloudInv'
  <2>1. /\ savedContacts_' = savedContacts_ \ {h} /\ contactsOnDisk' = savedContacts_'
        /\ monitored' = monitored \ {h} /\ clients_' = [clients_ EXCEPT ![h] = None]
        /\ UNCHANGED <<loading, onlineHosts_, pings, lastTold>>
    BY <1>3 DEF Clouds!removeUser
  <2>2. /\ clients_' \in [Host -> Conn \cup {None}] /\ clients_'[h] = None
        /\ \A g \in Host \ {h} : clients_'[g] = clients_[g]
    BY <2>1, <1>0
  <2>3. /\ conn' \in [Conn -> Connection]
        /\ \A x \in Conn : /\ conn'[x].state = conn[x].state /\ conn'[x].host = conn[x].host
                           /\ conn[x].end => conn'[x].end
                           /\ conn[x].orphan => conn'[x].orphan
                           /\ conn'[x].banner => conn[x].banner
                           /\ x = clients_[h] => conn'[x].orphan
    <3>1. CASE clients_[h] = None
      <4>1. conn' = conn /\ \A x \in Conn : x # clients_[h]
        BY <1>3, <3>1, NamesAssumption DEF Clouds!removeUser
      <4> QED
        BY <4>1, <1>0
    <3>2. CASE clients_[h] # None
      <4>1. /\ clients_[h] \in Conn /\ conn[clients_[h]] \in Connection
            /\ conn' = [conn EXCEPT ![clients_[h]].orphan = TRUE]
        BY <1>3, <3>2, <1>0 DEF Clouds!removeUser
      <4>2. \A c \in Connection : /\ [c EXCEPT !.orphan = TRUE] \in Connection
                                  /\ [c EXCEPT !.orphan = TRUE].state = c.state
                                  /\ [c EXCEPT !.orphan = TRUE].host = c.host
                                  /\ [c EXCEPT !.orphan = TRUE].end = c.end
                                  /\ [c EXCEPT !.orphan = TRUE].orphan = TRUE
                                  /\ [c EXCEPT !.orphan = TRUE].banner = c.banner
        BY DEF Connection
      <4>3. /\ conn' \in [Conn -> Connection]
            /\ conn'[clients_[h]] = [conn[clients_[h]] EXCEPT !.orphan = TRUE]
            /\ \A x \in Conn \ {clients_[h]} : conn'[x] = conn[x]
        BY <4>1, <4>2, <1>0
      <4> QED
        BY <4>1, <4>2, <4>3
    <3> QED
      BY <3>1, <3>2
  <2>4. /\ \A x \in Conn : conn'[x].state # "NEW" \/ conn'[x].banner => conn'[x].host \in Host
        /\ \A x \in Conn : Newest(x, clients_, conn'[x])
    BY <2>3, ConnectionKept
  <2>5. \A x \in Conn : Newest(x, clients_', conn'[x])
    BY <2>2, <2>3, <2>4 DEF Newest
  <2> QED
    BY <2>1, <2>2, <2>3, <2>4, <2>5, <1>0 DEF CloudInv, HostsKnown, Clouds!TypeOK, Connection
<1>4. ASSUME NEW h \in Host, Clouds!Ping(h) PROVE CloudInv'
  <2>1. pings[h] < MaxPings /\ pings' = [pings EXCEPT ![h] = @ + 1]
        /\ UNCHANGED <<savedContacts_, contactsOnDisk, loading, clients_, onlineHosts_, monitored,
                       lastTold, conn>>
    BY <1>4 DEF Clouds!Ping, Clouds!contactVars, Clouds!presenceVars
  <2>2. pings' \in [Host -> 0..MaxPings]
    BY <2>1, <1>0, BoundsAssumption
  <2> QED
    BY <2>1, <2>2, <1>0, <1>c DEF CloudInv, Clouds!TypeOK, Connection
<1>5. ASSUME NEW h \in Host, NEW isOnline \in BOOLEAN, Clouds!Pinged(h, isOnline) PROVE CloudInv'
  <2>1. /\ pings[h] > 0 /\ pings' = [pings EXCEPT ![h] = @ - 1]
        /\ Clouds!setOnlineStatus_(h, isOnline)
        /\ UNCHANGED <<savedContacts_, contactsOnDisk, loading>>
    BY <1>5 DEF Clouds!Pinged, Clouds!contactVars
  <2>2. Clouds!notifyOfUser_({h}) \/ Clouds!notifyOfUser_({})
    BY <1>5 DEF Clouds!Pinged
  <2>3. (\E x \in Conn : Clouds!reconnect_(h, x, "no")) \/ UNCHANGED <<clients_, conn>>
    BY <1>5 DEF Clouds!Pinged
  <2>4. pings' \in [Host -> 0..MaxPings]
    BY <2>1, <1>0, BoundsAssumption
  <2>5. onlineHosts_' \in SUBSET Host /\ monitored' \in SUBSET Host
    BY <2>1, <1>0 DEF Clouds!setOnlineStatus_
  <2>6. lastTold' \in [Host -> {"ONLINE", "OFFLINE", None}]
    BY <2>2, <1>a
  <2>7. /\ clients_' \in [Host -> Conn \cup {None}] /\ conn' \in [Conn -> Connection]
        /\ HostsKnown' /\ \A y \in Conn : Newest(y, clients_', conn'[y])
    BY <2>3, <1>0, <1>c, Reconnected
  <2> QED
    BY <2>1, <2>4, <2>5, <2>6, <2>7, <1>0 DEF CloudInv, Clouds!TypeOK, Connection
<1>6. ASSUME NEW h \in Host, Clouds!SendFirst(h) PROVE CloudInv'
  <2>1. UNCHANGED <<savedContacts_, contactsOnDisk, loading, onlineHosts_, monitored, lastTold,
                    pings>>
    BY <1>6 DEF Clouds!SendFirst, Clouds!contactVars, Clouds!presenceVars
  <2>2. /\ clients_' \in [Host -> Conn \cup {None}] /\ conn' \in [Conn -> Connection]
        /\ HostsKnown' /\ \A y \in Conn : Newest(y, clients_', conn'[y])
    BY <1>6, Reconnected DEF Clouds!SendFirst
  <2> QED
    BY <2>1, <2>2, <1>0 DEF CloudInv, Clouds!TypeOK, Connection
<1>7. CASE Clouds!logout
  <2>1. UNCHANGED <<savedContacts_, contactsOnDisk, loading, clients_, onlineHosts_, monitored,
                    lastTold, pings>>
    BY <1>7 DEF Clouds!logout, Clouds!contactVars, Clouds!presenceVars
  <2>2. conn' = [x \in Conn |->
       IF \A h \in Host : clients_[h] # x THEN conn[x]
       ELSE IF conn[x].state = "ESTABLISHED" THEN [conn[x] EXCEPT !.state = "TERMINATED"]
       ELSE [conn[x] EXCEPT !.end = TRUE]]
    BY <1>7 DEF Clouds!logout
  <2>3. ASSUME NEW x \in Conn
        PROVE  conn'[x] \in Connection /\ Newest(x, clients_, conn'[x])
               /\ (conn'[x].state # "NEW" \/ conn'[x].banner => conn'[x].host \in Host)
    <3>1. conn[x] \in Connection /\ Newest(x, clients_, conn[x])
          /\ (conn[x].state # "NEW" \/ conn[x].banner => conn[x].host \in Host)
      BY <1>0 DEF HostsKnown
    <3>2. \/ conn'[x] = conn[x]
          \/ conn[x].state = "ESTABLISHED" /\ conn'[x] = [conn[x] EXCEPT !.state = "TERMINATED"]
          \/ conn[x].state # "ESTABLISHED" /\ conn'[x] = [conn[x] EXCEPT !.end = TRUE]
      BY <2>2
    <3> QED
      BY <3>1, <3>2 DEF Connection, Newest, Clouds!ConnectionState
  <2>4. conn' \in [Conn -> Connection]
    BY <2>2, <2>3
  <2> QED
    BY <2>1, <2>3, <2>4, <1>0 DEF CloudInv, HostsKnown, Clouds!TypeOK, Connection
<1>8. ASSUME NEW x \in Conn,
             \/ Clouds!Ready(x) \/ Clouds!TunnelOpens(x) \/ Clouds!TunnelFails(x)
             \/ Clouds!ReplyPing(x) \/ Clouds!ReplyOther(x) \/ Clouds!Ends(x)
      PROVE  CloudInv'
  <2>1. /\ conn[x].state # "NEW" /\ conn[x].state # "TERMINATED"
        /\ \E to \in Clouds!ConnectionState \ {"NEW", "ESTABLISHED"} :
             conn' = [conn EXCEPT ![x].state = to]
        /\ UNCHANGED <<savedContacts_, contactsOnDisk, loading, clients_, onlineHosts_, monitored,
                       lastTold, pings>>
    BY <1>8 DEF Clouds!Ready, Clouds!TunnelOpens, Clouds!TunnelFails, Clouds!ReplyPing,
       Clouds!ReplyOther, Clouds!Ends, Clouds!Moves, Clouds!ConnectionState, Clouds!contactVars,
       Clouds!presenceVars
  <2> QED
    BY <2>1, ConnectionMoves
<1>9. ASSUME NEW x \in Conn, Clouds!ReplyVersion(x) PROVE CloudInv'
  <2> DEFINE c == [conn[x] EXCEPT !.banner = TRUE,
                     !.give = IF @ = "will" THEN "sent" ELSE @,
                     !.state = IF conn[x].end THEN "TERMINATED" ELSE "ESTABLISHED"]
  <2>1. /\ conn[x].state = "WAITING_FOR_VERSION"
        /\ Clouds!setOnlineStatus_(conn[x].host, TRUE)
        /\ UNCHANGED <<savedContacts_, contactsOnDisk, loading, clients_, lastTold, pings>>
    BY <1>9 DEF Clouds!ReplyVersion, Clouds!contactVars
  <2>2. conn[x] \in Connection /\ conn[x].host \in Host /\ Newest(x, clients_, conn[x])
    BY <2>1, <1>0 DEF HostsKnown
  <2>3. onlineHosts_' \in SUBSET Host /\ monitored' \in SUBSET Host
    BY <2>1, <2>2, <1>0 DEF Clouds!setOnlineStatus_
  <2>4. c \in Connection /\ c.host \in Host /\ Newest(x, clients_, c)
    BY <2>1, <2>2 DEF Connection, Clouds!ConnectionState, Newest
  <2>5. conn' = [conn EXCEPT ![x] = c]
    BY <1>9, <1>0 DEF Clouds!ReplyVersion, Connection
  <2> HIDE DEF c
  <2>6. conn' \in [Conn -> Connection] /\ conn'[x] = c /\ \A y \in Conn \ {x} : conn'[y] = conn[y]
    BY <2>4, <2>5, <1>0
  <2>7. HostsKnown' /\ \A y \in Conn : Newest(y, clients_', conn'[y])
    BY <2>1, <2>4, <2>6, <1>0 DEF HostsKnown
  <2> QED
    BY <2>1, <2>3, <2>6, <2>7, <1>0 DEF CloudInv, Clouds!TypeOK, Connection
<1>10. ASSUME NEW x \in Conn, Clouds!getBanner(x) PROVE CloudInv'
  <2>1. /\ conn[x].banner /\ conn' = [conn EXCEPT ![x].banner = FALSE]
        /\ savedContacts_' = savedContacts_ \cup {conn[x].host}
        /\ contactsOnDisk' = savedContacts_' /\ Clouds!notifyOfUser_({conn[x].host})
        /\ UNCHANGED <<loading, clients_, monitored, pings, onlineHosts_>>
    BY <1>10 DEF Clouds!getBanner
  <2>2. conn[x] \in Connection /\ conn[x].host \in Host
    BY <2>1, <1>0 DEF HostsKnown
  <2>3. lastTold' \in [Host -> {"ONLINE", "OFFLINE", None}]
    BY <2>1, <2>2, <1>a
  <2>4. [conn[x] EXCEPT !.banner = FALSE] \in Connection
        /\ [conn[x] EXCEPT !.banner = FALSE].state = conn[x].state
        /\ [conn[x] EXCEPT !.banner = FALSE].host = conn[x].host
        /\ [conn[x] EXCEPT !.banner = FALSE].end = conn[x].end
        /\ [conn[x] EXCEPT !.banner = FALSE].orphan = conn[x].orphan
        /\ [conn[x] EXCEPT !.banner = FALSE].banner = FALSE
    BY <2>2 DEF Connection
  <2>5. /\ conn' \in [Conn -> Connection] /\ conn'[x] = [conn[x] EXCEPT !.banner = FALSE]
        /\ \A y \in Conn \ {x} : conn'[y] = conn[y]
    BY <2>1, <2>4, <1>0
  <2>6. /\ \A y \in Conn : conn'[y].state # "NEW" \/ conn'[y].banner => conn'[y].host \in Host
        /\ \A y \in Conn : Newest(y, clients_, conn'[y])
    BY <2>4, <2>5, ConnectionKept
  <2> QED
    BY <2>1, <2>2, <2>3, <2>5, <2>6, <1>0 DEF CloudInv, HostsKnown, Clouds!TypeOK, Connection
<1>11. ASSUME NEW x \in Conn, Clouds!Received(x) PROVE CloudInv'
  <2>1. /\ conn[x].state = "ESTABLISHED" /\ Clouds!setOnlineStatus_(conn[x].host, TRUE)
        /\ UNCHANGED <<savedContacts_, contactsOnDisk, loading, clients_, lastTold, pings, conn>>
    BY <1>11 DEF Clouds!Received, Clouds!contactVars
  <2>2. onlineHosts_' \in SUBSET Host /\ monitored' \in SUBSET Host
    BY <2>1, <1>0 DEF Clouds!setOnlineStatus_, HostsKnown
  <2> QED
    BY <2>1, <2>2, <1>0, <1>c DEF CloudInv, Clouds!TypeOK, Connection
<1>12. CASE UNCHANGED Clouds!vars
  BY <1>12, <1>0, <1>c DEF Clouds!vars, Clouds!contactVars, Clouds!presenceVars, CloudInv,
     Clouds!TypeOK, Connection
<1> QED
  BY <1>1, <1>2, <1>3, <1>4, <1>5, <1>6, <1>7, <1>8, <1>9, <1>10, <1>11, <1>12 DEF Clouds!Next

(* A server gives access over one connection: any other to it that was         *)
(* established has ended, unless its contact was removed                       *)
(* (cloud/social/provider.ts, reconnect_).                                     *)
THEOREM ServersTunnel == Spec => []OneTunnel
<1>1. Init => (part = "cloud" => CloudInv)
  BY CloudInit DEF Init
<1>2. (part = "cloud" => CloudInv) /\ [Next]_vars => (part = "cloud" => CloudInv)'
  BY CloudStep DEF Next, vars, Clouds!vars, Clouds!contactVars, Clouds!presenceVars
<1>3. (part = "cloud" => CloudInv) => OneTunnel
  BY DEF CloudInv, Newest, OneTunnel, Clouds!OneTunnel
<1> QED
  BY <1>1, <1>2, <1>3, PTL DEF Spec

HIDE DEF savedContacts_, contactsOnDisk, loading, clients_, onlineHosts_, monitored, pings, conn,
         lastTold
-----------------------------------------------------------------------------
(* Settings.  Nothing is saved before the stored settings were read, and what  *)
(* is saved then is what the core goes by, but for its lists.                  *)
ui == v1
panel == v2
core == v3
read == v4
loaded == v5
settingsOnDisk == v6
toCore == v7
toUi == v8
asked == v9
started == v10
descriptionTold == v11
changes == v12
settingsRestarts == v13
USE DEF ui, panel, core, read, loaded, settingsOnDisk, toCore, toUi, asked, started,
        descriptionTold, changes, settingsRestarts

Commands == [one : BOOLEAN, settings : Saved!Setting]

SettingsType ==
  /\ ui \in Saved!Setting /\ core \in Saved!Setting /\ panel \in Saved!Setting \cup {None}
  /\ settingsOnDisk \in Saved!Setting \cup {None} /\ read \in Saved!Setting \cup {None}
  /\ loaded \in BOOLEAN /\ asked \in BOOLEAN /\ started \in BOOLEAN
  /\ descriptionTold \in Description
  /\ toCore \in Seq(Commands) /\ toUi \in Seq(Saved!Setting)
  /\ changes \in 0..MaxChanges /\ settingsRestarts \in 0..MaxRestarts

SettingsInv ==
  SettingsType /\ Saved!SavedIsUsed /\ (~loaded => read = settingsOnDisk)

Server == UNION {{l[i] : i \in DOMAIN l} : l \in Servers \cup {DEFAULT_STUN_SERVERS}}

LEMMA SettingIs ==
  Saved!Setting = [description : Description, policy : Policy, servers : Seq(Server)]
BY DEF Saved!Setting, Server

LEMMA ListsTyped ==
  /\ DEFAULT_STUN_SERVERS \in Seq(Server)
  /\ \A l \in Servers : l \in Seq(Server)
<1> SUFFICES ASSUME NEW l \in Servers \cup {DEFAULT_STUN_SERVERS} PROVE l \in Seq(Server)
  OBVIOUS
<1>1. l \in Seq(STRING)
  BY SettingsAssumption
<1>2. \A i \in 1..Len(l) : l[i] \in Server
  <2>1. DOMAIN l = 1..Len(l)
    BY <1>1
  <2> QED
    BY <2>1 DEF Server
<1> QED
  BY <1>1, <1>2

LEMMA Merged ==
  ASSUME NEW x \in Saved!Setting, NEW y \in Saved!Setting
  PROVE  /\ Saved!merge(x, y) \in Saved!Setting
         /\ Saved!merge(x, y).description = y.description
         /\ Saved!merge(x, y).policy = y.policy
<1> DEFINE m == Saved!mergeLists(x.servers, y.servers)
<1>1. x.servers \in Seq(Server) /\ y.servers \in Seq(Server)
  BY SettingIs
<1>2. m \in Seq(Server)
  <2> DEFINE n == IF Len(x.servers) > Len(y.servers) THEN Len(x.servers) ELSE Len(y.servers)
             at(i) == IF i <= Len(y.servers) THEN y.servers[i] ELSE x.servers[i]
  <2>1. n \in Nat /\ \A i \in 1..n : at(i) \in Server
    BY <1>1
  <2>2. m = [i \in 1..n |-> at(i)]
    BY DEF Saved!mergeLists
  <2> HIDE DEF n, at, m
  <2>3. m \in [1..n -> Server]
    BY <2>1, <2>2
  <2> QED
    BY <2>1, <2>3
<1>3. Saved!merge(x, y) = [y EXCEPT !.servers = m]
  BY DEF Saved!merge
<1> HIDE DEF m
<1> QED
  BY <1>2, <1>3, SettingIs

(* What is saved and what is gone by are the same, but for the lists. *)
LEMMA Updated ==
  ASSUME NEW now \in Saved!Setting, NEW new \in Saved!Setting, descriptionTold \in Description,
         Saved!updateGlobalSettings(now, new)
  PROVE  /\ settingsOnDisk' \in Saved!Setting /\ core' \in Saved!Setting
         /\ descriptionTold' \in Description
         /\ settingsOnDisk'.description = core'.description
         /\ settingsOnDisk'.policy = core'.policy
<1> DEFINE n == IF new.servers = <<>> THEN [new EXCEPT !.servers = DEFAULT_STUN_SERVERS] ELSE new
<1>1. n \in Saved!Setting
  BY SettingIs, ListsTyped
<1>2. settingsOnDisk' = n /\ core' = Saved!merge(now, n)
      /\ descriptionTold' = IF core'.description # now.description THEN core'.description
                            ELSE descriptionTold
  BY DEF Saved!updateGlobalSettings
<1> HIDE DEF n
<1>3. core' \in Saved!Setting /\ core'.description = n.description /\ core'.policy = n.policy
  BY <1>1, <1>2, Merged
<1>4. core'.description \in Description
  BY <1>3, SettingIs
<1> QED
  BY <1>1, <1>2, <1>3, <1>4

LEMMA Defaults == Saved!Default \in Saved!Setting /\ Saved!UiDefault \in Saved!Setting
<1>1. Saved!Default \in Saved!Setting
  BY SettingIs, ListsTyped, SettingsAssumption DEF Saved!Default
<1>2. <<>> \in Seq(Server)
  OBVIOUS
<1>3. \A x \in Saved!Setting : [x EXCEPT !.servers = <<>>] \in Saved!Setting
  BY <1>2, SettingIs
<1> QED
  BY <1>1, <1>3 DEF Saved!UiDefault

LEMMA SettingsInit == Saved!Init => SettingsInv
<1> SUFFICES ASSUME Saved!Init PROVE SettingsInv
  OBVIOUS
<1>2. <<>> \in Seq(Commands) /\ <<>> \in Seq(Saved!Setting)
  OBVIOUS
<1>3. 0 \in 0..MaxChanges /\ 0 \in 0..MaxRestarts
  BY BoundsAssumption
<1> QED
  BY Defaults, <1>2, <1>3, SettingsAssumption DEF Saved!Init, SettingsInv, SettingsType, Saved!SavedIsUsed

LEMMA SettingsStep == SettingsInv /\ [Saved!Next]_(Saved!vars) => SettingsInv'
<1> SUFFICES ASSUME SettingsInv, [Saved!Next]_(Saved!vars) PROVE SettingsInv'
  OBVIOUS
<1> USE DEF Saved!counts, Saved!asking
<1>0. SettingsType /\ Saved!SavedIsUsed /\ (~loaded => read = settingsOnDisk)
  BY DEF SettingsInv
<1>1. CASE Saved!Loads
  <2>1. /\ ~loaded /\ loaded' = TRUE /\ read' = None
        /\ core' = IF read = None THEN core ELSE Saved!merge(core, read)
        /\ UNCHANGED <<ui, panel, settingsOnDisk, toCore, toUi, asked, started, descriptionTold,
                       changes, settingsRestarts>>
    BY <1>1 DEF Saved!Loads
  <2>2. /\ core' \in Saved!Setting
        /\ read # None => /\ read.description = core'.description
                          /\ read.policy = core'.policy
    BY <2>1, <1>0, Merged DEF SettingsType
  <2> QED
    BY <2>1, <2>2, <1>0 DEF SettingsInv, SettingsType, Saved!SavedIsUsed
<1>2. CASE Saved!updateGlobalSetting \/ Saved!UpdateAll
  <2>1. /\ loaded /\ toCore # <<>> /\ toCore' = Tail(toCore)
        /\ UNCHANGED <<ui, panel, read, loaded, toUi, asked, started, changes, settingsRestarts>>
    BY <1>2 DEF Saved!updateGlobalSetting, Saved!UpdateAll
  <2>2. Head(toCore) \in Commands /\ toCore' \in Seq(Commands)
    BY <2>1, <1>0 DEF SettingsType
  <2>3. Head(toCore).settings \in Saved!Setting
        /\ [core EXCEPT !.description = Head(toCore).settings.description] \in Saved!Setting
    BY <2>2, <1>0, SettingIs DEF SettingsType, Commands
  <2>4. \E now, new \in Saved!Setting : Saved!updateGlobalSettings(now, new)
    BY <1>2, <1>0, <2>3 DEF Saved!updateGlobalSetting, Saved!UpdateAll, SettingsType
  <2>5. /\ settingsOnDisk' \in Saved!Setting /\ core' \in Saved!Setting
        /\ descriptionTold' \in Description
        /\ settingsOnDisk'.description = core'.description
        /\ settingsOnDisk'.policy = core'.policy
    BY <2>4, <1>0, Updated DEF SettingsType
  <2> QED
    BY <2>1, <2>2, <2>5, <1>0 DEF SettingsInv, SettingsType, Saved!SavedIsUsed
<1>3. ASSUME NEW p \in Policy, Saved!updateOrgPolicy(p) PROVE SettingsInv'
  <2> DEFINE changed == [core EXCEPT !.policy = p]
  <2>1. /\ loaded /\ changes < MaxChanges /\ changes' = changes + 1
        /\ Saved!updateGlobalSettings(changed, changed) /\ toUi' = Append(toUi, core')
        /\ UNCHANGED <<ui, panel, read, loaded, toCore, asked, started, settingsRestarts>>
    BY <1>3 DEF Saved!updateOrgPolicy
  <2>2. changed \in Saved!Setting
    BY <1>0, SettingIs DEF SettingsType
  <2> HIDE DEF changed
  <2>3. /\ settingsOnDisk' \in Saved!Setting /\ core' \in Saved!Setting
        /\ descriptionTold' \in Description
        /\ settingsOnDisk'.description = core'.description
        /\ settingsOnDisk'.policy = core'.policy
    BY <2>1, <2>2, <1>0, Updated DEF SettingsType
  <2>4. toUi' \in Seq(Saved!Setting) /\ changes' \in 0..MaxChanges
    BY <2>1, <2>3, <1>0, BoundsAssumption DEF SettingsType
  <2> QED
    BY <2>1, <2>3, <2>4, <1>0 DEF SettingsInv, SettingsType, Saved!SavedIsUsed
<1>4. CASE Saved!getFullState
  <2>1. /\ toUi' = Append(toUi, core) /\ asked' = TRUE
        /\ UNCHANGED <<ui, panel, core, read, loaded, settingsOnDisk, toCore, started,
                       descriptionTold, changes, settingsRestarts>>
    BY <1>4 DEF Saved!getFullState
  <2>2. toUi' \in Seq(Saved!Setting)
    BY <2>1, <1>0 DEF SettingsType
  <2> QED
    BY <2>1, <2>2, <1>0 DEF SettingsInv, SettingsType, Saved!SavedIsUsed
<1>5. CASE Saved!UiUpdates
  <2>1. /\ toUi # <<>> /\ ui' = Saved!merge(ui, Head(toUi)) /\ toUi' = Tail(toUi)
        /\ started' = TRUE
        /\ UNCHANGED <<panel, core, read, loaded, settingsOnDisk, toCore, asked, descriptionTold,
                       changes, settingsRestarts>>
    BY <1>5 DEF Saved!UiUpdates
  <2>2. Head(toUi) \in Saved!Setting /\ toUi' \in Seq(Saved!Setting)
    BY <2>1, <1>0 DEF SettingsType
  <2>3. ui' \in Saved!Setting
    BY <2>1, <2>2, <1>0, Merged DEF SettingsType
  <2> QED
    BY <2>1, <2>2, <2>3, <1>0 DEF SettingsInv, SettingsType, Saved!SavedIsUsed
<1>6. ASSUME NEW d \in Description, Saved!SetOne(d) PROVE SettingsInv'
  <2>1. /\ changes < MaxChanges /\ changes' = changes + 1
        /\ ui' = [ui EXCEPT !.description = d]
        /\ toCore' = Append(toCore, [one |-> TRUE, settings |-> ui'])
        /\ UNCHANGED <<panel, core, read, loaded, settingsOnDisk, toUi, asked, started,
                       descriptionTold, settingsRestarts>>
    BY <1>6 DEF Saved!SetOne
  <2>2. ui' \in Saved!Setting
    BY <2>1, <1>0, SettingIs DEF SettingsType
  <2>3. [one |-> TRUE, settings |-> ui'] \in Commands
    BY <2>2 DEF Commands
  <2>4. toCore' \in Seq(Commands) /\ changes' \in 0..MaxChanges
    BY <2>1, <2>3, <1>0, BoundsAssumption DEF SettingsType
  <2> QED
    BY <2>1, <2>2, <2>4, <1>0 DEF SettingsInv, SettingsType, Saved!SavedIsUsed
<1>7. CASE Saved!open
  BY <1>7, <1>0 DEF Saved!open, SettingsInv, SettingsType, Saved!SavedIsUsed
<1>8. ASSUME NEW list \in Servers, Saved!setAdvancedSettings(list) PROVE SettingsInv'
  <2>1. /\ panel # None /\ changes < MaxChanges /\ changes' = changes + 1
        /\ ui' = [panel EXCEPT !.servers = list] /\ panel' = None
        /\ toCore' = Append(toCore, [one |-> FALSE, settings |-> ui'])
        /\ UNCHANGED <<core, read, loaded, settingsOnDisk, toUi, asked, started, descriptionTold,
                       settingsRestarts>>
    BY <1>8 DEF Saved!setAdvancedSettings
  <2>2. ui' \in Saved!Setting
    BY <2>1, <1>0, SettingIs, ListsTyped DEF SettingsType
  <2>3. [one |-> FALSE, settings |-> ui'] \in Commands
    BY <2>2 DEF Commands
  <2>4. toCore' \in Seq(Commands) /\ changes' \in 0..MaxChanges
    BY <2>1, <2>3, <1>0, BoundsAssumption DEF SettingsType
  <2> QED
    BY <2>1, <2>2, <2>4, <1>0 DEF SettingsInv, SettingsType, Saved!SavedIsUsed
<1>9. CASE Saved!Restart
  <2>2. /\ settingsRestarts' \in 0..MaxRestarts
        /\ <<>> \in Seq(Commands) /\ <<>> \in Seq(Saved!Setting)
    BY <1>9, <1>0, BoundsAssumption DEF Saved!Restart, SettingsType
  <2> QED
    BY <1>9, <1>0, Defaults, <2>2 DEF Saved!Restart, SettingsInv, SettingsType, Saved!SavedIsUsed
<1>10. CASE UNCHANGED Saved!vars
  BY <1>10, <1>0 DEF Saved!vars, SettingsInv, SettingsType, Saved!SavedIsUsed
<1> QED
  BY <1>1, <1>2, <1>3, <1>4, <1>5, <1>6, <1>7, <1>8, <1>9, <1>10 DEF Saved!Next

(* Once the stored settings were read, the description and the policy the core *)
(* goes by are the stored ones, in whatever order loads, changes and restarts  *)
(* come (uproxy_core.ts, updateGlobalSettings; globals.ts, loadSettings).      *)
THEOREM SavedSettingsUsed == Spec => []SavedIsUsed
<1>1. Init => (part = "settings" => SettingsInv)
  BY SettingsInit DEF Init
<1>2. (part = "settings" => SettingsInv) /\ [Next]_vars => (part = "settings" => SettingsInv)'
  BY SettingsStep DEF Next, vars, Saved!vars, Saved!counts, Saved!asking
<1>3. SettingsInv => Saved!TypeOK
  BY DEF SettingsInv, SettingsType, Saved!TypeOK
<1>4. (part = "settings" => SettingsInv) => SavedIsUsed
  BY <1>3 DEF SettingsInv, SavedIsUsed
<1> QED
  BY <1>1, <1>2, <1>4, PTL DEF Spec

HIDE DEF ui, panel, core, read, loaded, settingsOnDisk, toCore, toUi, asked, started,
         descriptionTold, changes, settingsRestarts
-----------------------------------------------------------------------------
(* Probing.  The first answer sets the one timer, and only a timer takes the   *)
(* type back.                                                                  *)
actual == v1
phase == v2
replies == v3
natType == v4
resets == v5
toldType == v6
portControlSupport_ == v7
supportShown == v8
refreshing == v9
port == v10
reproxyCheck == v11
checking == v12
checks == v13
USE DEF actual, phase, replies, natType, resets, toldType, portControlSupport_, supportShown,
        refreshing, port, reproxyCheck, checking, checks

ProbingInv == Probes!TypeOK /\ Probes!KeptOnce

LEMMA SameCardinality == Probes!Cardinality(Call) = Cardinality(Call)
BY Zenon DEF Probes!Cardinality, Cardinality

LEMMA ProbingInit == Probes!Init => ProbingInv
<1> SUFFICES ASSUME Probes!Init PROVE ProbingInv
  OBVIOUS
<1>1. Cardinality(Call) \in Nat
  BY BoundsAssumption, FS_CardinalityType
<1>2. resets = 0 /\ natType = 0
  BY DEF Probes!Init
<1>3. resets \in 0..Cardinality(Call)
  BY <1>1, <1>2
<1>4. Probes!KeptOnce
  BY <1>2 DEF Probes!KeptOnce
<1>5. refreshing \subseteq Refresh
  BY DEF Probes!Init
<1>6. /\ actual \in Probes!Types /\ natType \in 0..4
      /\ phase \in [Call -> 0..6] /\ replies \in [Call -> SUBSET Probes!Types]
      /\ toldType \in [Call -> {None} \cup 0..4]
  BY DEF Probes!Init
<1>7. /\ portControlSupport_ \in Probes!Support /\ supportShown \in Probes!Support
      /\ port \in Port /\ reproxyCheck \in {"UNCHECKED", "PENDING", "TRUE", "FALSE"}
      /\ checking \in [Check -> Port \cup {None}] /\ checks \subseteq Check
  BY DEF Probes!Init, Probes!Support
<1> QED
  BY <1>3, <1>4, <1>5, <1>6, <1>7, SameCardinality DEF ProbingInv, Probes!TypeOK

LEMMA Asks ==
  ASSUME Probes!TypeOK, NEW k \in Call, NEW t \in 0..6, Probes!Ask(k, t)
  PROVE  phase' \in [Call -> 0..6] /\ replies' \in [Call -> SUBSET Probes!Types]
<1>1. phase' = [phase EXCEPT ![k] = t]
      /\ replies' = [replies EXCEPT ![k] = IF t \in Probes!Types /\ Probes!Passes(t)
                                           THEN @ \cup {t} ELSE @]
  BY DEF Probes!Ask
<1>2. phase' \in [Call -> 0..6]
  BY <1>1 DEF Probes!TypeOK
<1>3. replies' \in [Call -> SUBSET Probes!Types]
  BY <1>1, Zenon DEF Probes!TypeOK
<1> QED
  BY <1>2, <1>3

LEMMA ProbingStep == ProbingInv /\ [Probes!Next]_(Probes!vars) => ProbingInv'
<1> SUFFICES ASSUME ProbingInv, [Probes!Next]_(Probes!vars) PROVE ProbingInv'
  OBVIOUS
<1> USE DEF Probes!nat, Probes!control, Probes!panel
<1>0. Probes!TypeOK /\ Probes!KeptOnce
  BY DEF ProbingInv
<1>1. ASSUME NEW k \in Call, Probes!getNatType(k) PROVE ProbingInv'
  <2>1. /\ phase' \in [Call -> 0..6] /\ replies' \in [Call -> SUBSET Probes!Types]
        /\ toldType' \in [Call -> {None} \cup 0..4]
    <3>1. CASE natType = 0
      BY <1>1, <3>1, <1>0, Asks DEF Probes!getNatType, Probes!TypeOK
    <3>2. CASE natType # 0
      BY <1>1, <3>2, <1>0 DEF Probes!getNatType, Probes!TypeOK
    <3> QED
      BY <3>1, <3>2
  <2>2. UNCHANGED <<actual, natType, resets, portControlSupport_, supportShown, refreshing, port,
                    reproxyCheck, checking, checks>>
    BY <1>1 DEF Probes!getNatType
  <2> QED
    BY <2>1, <2>2, <1>0 DEF ProbingInv, Probes!TypeOK, Probes!KeptOnce
<1>2. ASSUME NEW k \in Call, Probes!NextQuestion(k) PROVE ProbingInv'
  <2>1. phase[k] + 1 \in 0..6
    BY <1>2 DEF Probes!NextQuestion
  <2>2. phase' \in [Call -> 0..6] /\ replies' \in [Call -> SUBSET Probes!Types]
    <3> DEFINE t == phase[k] + 1
    <3>1. t \in 0..6 /\ Probes!Ask(k, t)
      BY <1>2, <2>1 DEF Probes!NextQuestion
    <3> HIDE DEF t
    <3> QED
      BY <3>1, <1>0, Asks
  <2>3. UNCHANGED <<actual, natType, resets, toldType, portControlSupport_, supportShown,
                    refreshing, port, reproxyCheck, checking, checks>>
    BY <1>2 DEF Probes!NextQuestion
  <2> QED
    BY <2>2, <2>3, <1>0 DEF ProbingInv, Probes!TypeOK, Probes!KeptOnce
<1>3. ASSUME NEW k \in Call, NEW t \in Probes!Types, Probes!Answered(k, t) PROVE ProbingInv'
  <2>1. /\ phase' = [phase EXCEPT ![k] = 6] /\ replies' = [replies EXCEPT ![k] = {}]
        /\ natType' = t /\ resets' = 1
        /\ toldType' = [toldType EXCEPT ![k] = IF @ = None THEN t ELSE @]
        /\ UNCHANGED <<actual, portControlSupport_, supportShown, refreshing, port, reproxyCheck,
                       checking, checks>>
    BY <1>3 DEF Probes!Answered
  <2>2. Cardinality(Call) \in Nat /\ Cardinality(Call) # 0
    BY BoundsAssumption, FS_CardinalityType, FS_EmptySet
  <2>3. resets' \in 0..Cardinality(Call) /\ natType' \in 0..4 /\ natType' # 0
    BY <2>1, <2>2 DEF Probes!Types
  <2>4. /\ phase' \in [Call -> 0..6] /\ replies' \in [Call -> SUBSET Probes!Types]
        /\ toldType' \in [Call -> {None} \cup 0..4]
    BY <2>1, <1>0 DEF Probes!TypeOK, Probes!Types
  <2>5. Probes!KeptOnce'
    BY <2>1, <2>3 DEF Probes!KeptOnce
  <2>6. Probes!TypeOK'
    BY <2>1, <2>3, <2>4, <1>0, SameCardinality DEF Probes!TypeOK
  <2> QED
    BY <2>5, <2>6 DEF ProbingInv
<1>4. ASSUME NEW k \in Call, Probes!Countdown(k) PROVE ProbingInv'
  BY <1>4, <1>0 DEF Probes!Countdown, ProbingInv, Probes!TypeOK, Probes!KeptOnce
<1>5. ASSUME NEW k \in Call, NEW t \in Probes!Types, Probes!Lose(k, t) PROVE ProbingInv'
  <2>1. /\ replies' = [replies EXCEPT ![k] = @ \ {t}]
        /\ UNCHANGED <<actual, phase, natType, resets, toldType, portControlSupport_, supportShown,
                       refreshing, port, reproxyCheck, checking, checks>>
    BY <1>5 DEF Probes!Lose
  <2>2. replies' \in [Call -> SUBSET Probes!Types]
    BY <2>1, <1>0 DEF Probes!TypeOK
  <2> QED
    BY <2>1, <2>2, <1>0 DEF ProbingInv, Probes!TypeOK, Probes!KeptOnce
<1>6. CASE Probes!natResetTimeout_
  <2>1. /\ resets > 0 /\ resets' = resets - 1 /\ natType' = 0
        /\ UNCHANGED <<actual, phase, replies, toldType, portControlSupport_, supportShown,
                       refreshing, port, reproxyCheck, checking, checks>>
    BY <1>6 DEF Probes!natResetTimeout_
  <2>2. resets' = 0
    BY <2>1, <1>0 DEF Probes!KeptOnce
  <2>3. Cardinality(Call) \in Nat
    BY BoundsAssumption, FS_CardinalityType
  <2>4. resets' \in 0..Cardinality(Call)
    BY <2>2, <2>3
  <2>5. Probes!KeptOnce'
    BY <2>1, <2>2 DEF Probes!KeptOnce
  <2>6. Probes!TypeOK'
    BY <2>1, <2>4, <1>0, SameCardinality DEF Probes!TypeOK
  <2> QED
    BY <2>5, <2>6 DEF ProbingInv
<1>7. ASSUME NEW r \in Refresh,
             \/ Probes!refreshPortControlSupport(r) \/ Probes!getPortControlSupport(r)
             \/ Probes!SupportFails(r)
      PROVE  ProbingInv'
  <2>1. UNCHANGED <<actual, phase, replies, natType, resets, toldType, port, reproxyCheck,
                    checking, checks>>
    BY <1>7 DEF Probes!refreshPortControlSupport, Probes!getPortControlSupport,
                Probes!SupportFails
  <2>2. portControlSupport_' \in Probes!Support /\ supportShown' \in Probes!Support
        /\ refreshing' \subseteq Refresh
    BY <1>7, <1>0 DEF Probes!refreshPortControlSupport, Probes!getPortControlSupport,
                      Probes!SupportFails, Probes!TypeOK, Probes!Support
  <2> QED
    BY <2>1, <2>2, <1>0 DEF ProbingInv, Probes!TypeOK, Probes!KeptOnce
<1>8. ASSUME NEW c \in Check,
             Probes!checkReproxy(c) \/ \E p \in Port : Probes!refreshReproxyCheck(c, p)
      PROVE  ProbingInv'
  <2>1. UNCHANGED <<actual, phase, replies, natType, resets, toldType, portControlSupport_,
                    supportShown, refreshing>>
    BY <1>8 DEF Probes!checkReproxy, Probes!refreshReproxyCheck
  <2>2. /\ port' \in Port /\ reproxyCheck' \in {"UNCHECKED", "PENDING", "TRUE", "FALSE"}
        /\ checking' \in [Check -> Port \cup {None}] /\ checks' \subseteq Check
    <3>1. CASE Probes!checkReproxy(c)
      BY <3>1, <1>0 DEF Probes!checkReproxy, Probes!TypeOK
    <3>2. CASE \E p \in Port : Probes!refreshReproxyCheck(c, p)
      BY <3>2, <1>0 DEF Probes!refreshReproxyCheck, Probes!TypeOK
    <3> QED
      BY <1>8, <3>1, <3>2
  <2> QED
    BY <2>1, <2>2, <1>0 DEF ProbingInv, Probes!TypeOK, Probes!KeptOnce
<1>9. CASE UNCHANGED Probes!vars
  BY <1>9, <1>0 DEF Probes!vars, ProbingInv, Probes!TypeOK, Probes!KeptOnce
<1> QED
  BY <1>1, <1>2, <1>3, <1>4, <1>5, <1>6, <1>7, <1>8, <1>9 DEF Probes!Next

HIDE DEF actual, phase, replies, natType, resets, toldType, portControlSupport_, supportShown,
         refreshing, port, reproxyCheck, checking, checks
-----------------------------------------------------------------------------
(* Metrics.  The buckets of a buffer are more than a day apart, and a trimmed  *)
(* buffer has those of seven days, the ends included: there are at most seven. *)
now == v1
buffer == v2
counts == v3
stored == v4
loadingStored == v5
reporter == v6
nextSendTimestamp == v7
storedTimestamp == v8
metricsRestarts == v9
USE DEF now, buffer, counts, stored, loadingStored, reporter, nextSendTimestamp,
        storedTimestamp, metricsRestarts

Apart(b_) ==
  \A i, j \in 1..Len(b_) : i <= j => b_[j].at >= b_[i].at + (j - i) * (Day + 1)

(* What holds of a week buffer whenever it is between two updates.             *)
Kept(b_) ==
  /\ b_ \in Seq(Counts!Bucket) /\ Len(b_) <= Week
  /\ Apart(b_) /\ \A i \in 1..Len(b_) : b_[i].at <= now

Data == [buffer : [Counter -> Seq(Counts!Bucket)], counts : [User -> 0..2]]

MetricsType ==
  /\ now \in 0..MaxTime /\ loadingStored \in BOOLEAN /\ metricsRestarts \in 0..MaxRestarts
  /\ buffer \in [Counter -> Seq(Counts!Bucket)] /\ counts \in [User -> 0..2]
  /\ reporter \in {"loading", "waiting", "asking", "reporting"}
  /\ nextSendTimestamp \in 0..MaxTime + MaxTimeout
  /\ storedTimestamp \subseteq 0..MaxTime + MaxTimeout

MetricsInv ==
  /\ MetricsType
  /\ stored = {} \/ \E data \in Data : stored = {data}
  /\ \A c \in Counter : Kept(buffer[c]) /\ \A data \in stored : Kept(data.buffer[c])

LEMMA MetricsInit == Counts!Init => MetricsInv
<1> SUFFICES ASSUME Counts!Init PROVE MetricsInv
  OBVIOUS
<1>0. <<>> \in Seq(Counts!Bucket) /\ Len(<<>>) = 0
  BY EmptySeq
<1>1. \A c \in Counter : buffer[c] = <<>>
  BY DEF Counts!Init, Counts!Empty
<1>2. 0 \in 0..MaxTime /\ 0 \in 0..MaxTime + MaxTimeout /\ 0 \in 0..MaxRestarts /\ Week \in Nat
  BY BoundsAssumption
<1>3. MetricsType
  <2>1. now \in 0..MaxTime /\ loadingStored \in BOOLEAN /\ metricsRestarts \in 0..MaxRestarts
    BY <1>2 DEF Counts!Init
  <2>2. buffer \in [Counter -> Seq(Counts!Bucket)] /\ counts \in [User -> 0..2]
    BY <1>0 DEF Counts!Init, Counts!Empty
  <2>3. /\ reporter \in {"loading", "waiting", "asking", "reporting"}
        /\ nextSendTimestamp \in 0..MaxTime + MaxTimeout
        /\ storedTimestamp \subseteq 0..MaxTime + MaxTimeout
    BY <1>2 DEF Counts!Init
  <2> QED
    BY <2>1, <2>2, <2>3 DEF MetricsType
<1>4. \A c \in Counter : Kept(buffer[c])
  <2> DEFINE none == <<>>
  <2>1. none \in Seq(Counts!Bucket) /\ Len(none) <= Week /\ 1..Len(none) = {}
    BY <1>0, <1>2
  <2> HIDE DEF none
  <2>2. Kept(none)
    BY <2>1 DEF Kept, Apart
  <2> QED
    BY <1>1, <2>2 DEF none
<1> QED
  BY <1>3, <1>4 DEF MetricsInv, Counts!Init

LEMMA Product == ASSUME NEW x \in Nat, NEW y \in Nat PROVE x * y \in Nat
OBVIOUS

(* The days after which the week is over. *)
LEMMA WeekFull ==
  ASSUME NEW n \in Nat, n * (Day + 1) <= Week * Day
  PROVE  n < Week
<1>1. Day \in Nat /\ Day # 0 /\ Week \in Nat /\ Week # 0
  BY BoundsAssumption
<1>2. ASSUME n >= Week PROVE FALSE
  <2>1. PICK k \in Nat : n = Week + k
    BY <1>1, <1>2
  <2>2. n * (Day + 1) = Week * Day + Week + k * (Day + 1)
    BY <1>1, <2>1
  <2>3. k * (Day + 1) >= 0
    BY <1>1, <2>1
  <2> QED
    BY <1>1, <2>2, <2>3
<1> QED
  BY <1>1, <1>2

(* What trim keeps is what is not older than a week. *)
LEMMA Trimmed ==
  ASSUME now \in 0..MaxTime, NEW b_, Kept(b_)
  PROVE  /\ Kept(Counts!trim(b_))
         /\ \A i \in 1..Len(Counts!trim(b_)) : Counts!trim(b_)[i].at >= now - Week * Day
<1> DEFINE early == now - Week * Day
           young(i) == i <= Len(b_) => b_[i].at >= early
           T == {i \in 1..Len(b_) + 1 : young(i)}
           first == Counts!firstKept(b_)
           c_ == SubSeq(b_, first, Len(b_))
<1>0. /\ b_ \in Seq(Counts!Bucket) /\ Len(b_) \in Nat /\ early \in Int /\ Day \in Nat /\ Week \in Nat
      /\ \A i \in 1..Len(b_) : b_[i].at \in Nat /\ b_[i].at <= now
      /\ \A i \in 1..Len(b_) : b_[i] \in Counts!Bucket
  <2>1. Day \in Nat /\ Week \in Nat /\ Week * Day \in Nat /\ MaxTime \in Nat
    BY BoundsAssumption
  <2>2. b_ \in Seq(Counts!Bucket) /\ Len(b_) \in Nat /\ \A i \in 1..Len(b_) : b_[i].at <= now
    BY DEF Kept
  <2>3. \A i \in 1..Len(b_) : b_[i] \in Counts!Bucket
    BY <2>2, ElementOfSeq
  <2>4. \A i \in 1..Len(b_) : b_[i].at \in Nat
    BY <2>1, <2>3 DEF Counts!Bucket
  <2> QED
    BY <2>1, <2>2, <2>3, <2>4
<1>1. \E n \in T : \A m \in T : n <= m
  <2>1. Len(b_) + 1 \in T /\ T \subseteq Nat
    BY <1>0
  <2> HIDE DEF T
  <2> QED
    BY <2>1, Least
<1>2. PICK n \in T : \A m \in T : n <= m
  BY <1>1
<1>3. \A j \in 1..n - 1 : b_[j].at < early
  <2> SUFFICES ASSUME NEW j \in 1..n - 1, b_[j].at >= early PROVE FALSE
    BY <1>0
  <2>1. j \in T
    BY <1>0, <1>2
  <2> QED
    BY <1>0, <1>2, <2>1
<1>4. /\ first \in 1..Len(b_) + 1
      /\ first <= Len(b_) => b_[first].at >= early
  BY <1>2, <1>3 DEF Counts!firstKept
<1> HIDE DEF first, T
<1>5. /\ c_ \in Seq(Counts!Bucket)
      /\ Len(c_) = Len(b_) - first + 1
      /\ \A i \in 1..Len(c_) : c_[i] = b_[first + i - 1]
  <2>1. /\ c_ \in Seq(Counts!Bucket)
        /\ Len(c_) = IF first <= Len(b_) THEN Len(b_) - first + 1 ELSE 0
        /\ \A i \in 1..Len(b_) - first + 1 : c_[i] = b_[first + i - 1]
    <3>1. \A i \in first..Len(b_) : b_[i] \in Counts!Bucket
      BY <1>0, <1>4
    <3>2. first \in Int /\ Len(b_) \in Int
      BY <1>0, <1>4
    <3> QED
      BY <3>1, <3>2, SubSeqProperties
  <2> HIDE DEF c_
  <2> QED
    BY <1>0, <1>4, <2>1
<1>6. Counts!trim(b_) = c_
  BY DEF Counts!trim, first
<1> HIDE DEF c_
<1>7. Apart(b_) /\ Len(b_) <= Week
  BY DEF Kept
<1>8. \A i \in 1..Len(c_) : first + i - 1 \in 1..Len(b_) /\ first + i - 1 >= first
  BY <1>0, <1>4, <1>5
<1>9. Apart(c_)
  <2> SUFFICES ASSUME NEW i \in 1..Len(c_), NEW j \in 1..Len(c_), i <= j
               PROVE  c_[j].at >= c_[i].at + (j - i) * (Day + 1)
    BY DEF Apart
  <2>1. /\ first + i - 1 \in 1..Len(b_) /\ first + j - 1 \in 1..Len(b_)
        /\ first + i - 1 <= first + j - 1
        /\ (first + j - 1) - (first + i - 1) = j - i
    BY <1>0, <1>4, <1>5, <1>8
  <2> DEFINE i2 == first + i - 1
             j2 == first + j - 1
  <2>2. b_[j2].at >= b_[i2].at + (j2 - i2) * (Day + 1)
    BY <2>1, <1>7 DEF Apart
  <2>3. c_[i] = b_[i2] /\ c_[j] = b_[j2]
    BY <1>5
  <2>4. j2 - i2 = j - i
    BY <2>1
  <2> HIDE DEF i2, j2
  <2> QED
    BY <2>2, <2>3, <2>4
<1>10. Kept(c_)
  <2>1. Len(c_) <= Week
    BY <1>0, <1>4, <1>5, <1>7
  <2>2. \A i \in 1..Len(c_) : c_[i].at <= now
    BY <1>0, <1>5, <1>8
  <2> QED
    BY <1>5, <1>9, <2>1, <2>2 DEF Kept
<1>11. ASSUME NEW i \in 1..Len(c_) PROVE c_[i].at >= early
  <2> DEFINE i2 == first + i - 1
  <2>1. i2 \in 1..Len(b_) /\ first \in 1..Len(b_) /\ first <= i2 /\ i2 - first \in Nat
    BY <1>0, <1>4, <1>5, <1>8
  <2> DEFINE gap == (i2 - first) * (Day + 1)
  <2>2. b_[i2].at >= b_[first].at + gap
    BY <2>1, <1>7 DEF Apart
  <2>3. c_[i] = b_[i2]
    BY <1>5
  <2>4. b_[first].at >= early /\ b_[first].at \in Nat /\ b_[i2].at \in Nat
    <3> HIDE DEF i2, gap
    <3>1. first <= Len(b_)
      BY <2>1, <1>0
    <3>2. b_[first].at >= early
      BY <3>1, <1>4
    <3> QED
      BY <2>1, <3>2, <1>0
  <2>5. gap \in Nat
    <3>1. i2 - first \in Nat /\ Day + 1 \in Nat
      BY <2>1, <1>0
    <3> HIDE DEF i2
    <3> QED
      BY <3>1, Product
  <2>6. early \in Int
    BY <1>0
  <2> HIDE DEF i2, early, gap
  <2> QED
    BY <2>2, <2>3, <2>4, <2>5, <2>6
<1> QED
  BY <1>6, <1>10, <1>11

(* A bucket that update opens is more than a day after the others. *)
LEMMA BufferUpdated ==
  ASSUME now \in 0..MaxTime, NEW b_, Kept(b_),
         \A i \in 1..Len(b_) : b_[i].at >= now - Week * Day,
         Counts!update(b_)[Len(Counts!update(b_))].value <= MaxCount
  PROVE  Kept(Counts!update(b_))
<1> DEFINE new == [at |-> now, value |-> 1]
<1>0. /\ Day \in Nat /\ Week \in Nat \ {0} /\ MaxCount \in Nat /\ MaxCount > 0 /\ MaxTime \in Nat
      /\ b_ \in Seq(Counts!Bucket) /\ Len(b_) \in Nat /\ Len(b_) <= Week /\ Apart(b_)
      /\ \A i \in 1..Len(b_) : b_[i] \in Counts!Bucket /\ b_[i].at \in Nat /\ b_[i].at <= now
      /\ Week * Day \in Nat
  <2>1. /\ Day \in Nat /\ Week \in Nat \ {0} /\ MaxCount \in Nat /\ MaxCount > 0
        /\ MaxTime \in Nat
    BY BoundsAssumption
  <2>2. /\ b_ \in Seq(Counts!Bucket) /\ Len(b_) \in Nat /\ Len(b_) <= Week /\ Apart(b_)
        /\ \A i \in 1..Len(b_) : b_[i].at <= now
    BY DEF Kept
  <2>3. \A i \in 1..Len(b_) : b_[i] \in Counts!Bucket
    BY <2>2, ElementOfSeq
  <2>4. \A i \in 1..Len(b_) : b_[i].at \in Nat
    BY <2>1, <2>3 DEF Counts!Bucket
  <2>5. Week * Day \in Nat
    BY <2>1, Product
  <2> QED
    BY <2>1, <2>2, <2>3, <2>4, <2>5
<1>1. CASE b_ = <<>> \/ now - b_[Len(b_)].at > Day
  <2> DEFINE c_ == Append(b_, new)
             n == Len(b_)
  <2>1. Counts!update(b_) = c_
    BY <1>1 DEF Counts!update
  <2>2. new \in Counts!Bucket /\ new.at = now
    BY <1>0 DEF Counts!Bucket
  <2>3. /\ c_ \in Seq(Counts!Bucket) /\ Len(c_) = n + 1
        /\ \A i \in 1..n : c_[i] = b_[i]
        /\ c_[n + 1] = new
    <3> HIDE DEF new
    <3> QED
      BY <1>0, <2>2, AppendProperties
  <2> HIDE DEF c_, new
  <2>4. \A i \in 1..n : now >= b_[i].at + (n + 1 - i) * (Day + 1)
    <3> SUFFICES ASSUME NEW i \in 1..n PROVE now >= b_[i].at + (n + 1 - i) * (Day + 1)
      OBVIOUS
    <3>1. n \in 1..n /\ i <= n /\ b_ # <<>>
      BY <1>0
    <3>2. now - b_[n].at > Day
      BY <1>1, <3>1
    <3>3. b_[n].at >= b_[i].at + (n - i) * (Day + 1)
      BY <3>1, <1>0 DEF Apart
    <3>4. (n + 1 - i) * (Day + 1) = (n - i) * (Day + 1) + Day + 1
      BY <1>0
    <3>5. (n - i) * (Day + 1) \in Nat
      <4>1. n - i \in Nat /\ Day + 1 \in Nat
        BY <1>0
      <4> QED
        BY <4>1, Product
    <3> DEFINE gap == (n - i) * (Day + 1)
    <3>6. gap \in Nat /\ b_[n].at >= b_[i].at + gap
      BY <3>3, <3>5
    <3>9. (n + 1 - i) * (Day + 1) = gap + Day + 1
      BY <3>4
    <3>7. b_[n].at \in Nat /\ b_[i].at \in Nat /\ now \in Nat /\ Day \in Nat
      BY <3>1, <1>0
    <3> HIDE DEF gap
    <3>8. now >= b_[i].at + (gap + Day + 1)
      BY <3>2, <3>6, <3>7
    <3> QED
      BY <3>9, <3>8
  <2>5. n + 1 <= Week
    <3>1. CASE n = 0
      BY <3>1, <1>0
    <3>2. CASE n # 0
      <4>1. 1 \in 1..n
        BY <3>2, <1>0
      <4>2. now >= b_[1].at + (n + 1 - 1) * (Day + 1)
        BY <2>4, <4>1
      <4>3. n + 1 - 1 = n
        BY <1>0
      <4>4. now >= b_[1].at + n * (Day + 1) /\ b_[1].at >= now - Week * Day
        BY <4>1, <4>2, <4>3
      <4>5. n * (Day + 1) \in Nat /\ Week * Day \in Nat /\ b_[1].at \in Nat /\ now \in Nat
        BY <1>0, <4>1, Product
      <4> DEFINE days == n * (Day + 1)
                 week == Week * Day
      <4>6. /\ days \in Nat /\ week \in Nat /\ now >= b_[1].at + days
            /\ b_[1].at >= now - week
        BY <4>4, <4>5
      <4>7. days <= week
        <5> HIDE DEF days, week
        <5> QED
          BY <4>5, <4>6
      <4>8. n < Week
        BY <1>0, <4>7, WeekFull
      <4> QED
        BY <1>0, <4>8
    <3> QED
      BY <3>1, <3>2
  <2>6. Apart(c_)
    <3> SUFFICES ASSUME NEW i \in 1..Len(c_), NEW j \in 1..Len(c_), i <= j
                 PROVE  c_[j].at >= c_[i].at + (j - i) * (Day + 1)
      BY DEF Apart
    <3>1. CASE j \in 1..n
      <4>1. i \in 1..n
        BY <3>1, <1>0, <2>3
      <4> QED
        BY <4>1, <3>1, <1>0, <2>3 DEF Apart
    <3>2. CASE j = n + 1 /\ i \in 1..n
      <4>1. c_[i] = b_[i] /\ c_[j].at = now
        BY <3>2, <2>2, <2>3
      <4> QED
        BY <4>1, <3>2, <2>4
    <3>3. CASE j = n + 1 /\ i = n + 1
      <4>1. (j - i) * (Day + 1) = 0
        BY <3>3, <1>0
      <4>2. c_[j].at = now /\ c_[i].at = now /\ now \in Nat
        BY <3>3, <1>0, <2>2, <2>3
      <4> QED
        BY <4>1, <4>2
    <3> QED
      BY <3>1, <3>2, <3>3, <1>0, <2>3
  <2>7. \A i \in 1..Len(c_) : c_[i].at <= now
    BY <1>0, <2>2, <2>3
  <2> QED
    BY <2>1, <2>3, <2>5, <2>6, <2>7 DEF Kept
<1>2. CASE ~(b_ = <<>> \/ now - b_[Len(b_)].at > Day)
  <2> DEFINE n == Len(b_)
             last == [b_[n] EXCEPT !.value = @ + 1]
             c_ == [b_ EXCEPT ![n] = last]
  <2>0. n \in 1..n
    BY <1>0, <1>2
  <2>1. Counts!update(b_) = c_
    BY <1>2 DEF Counts!update
  <2>2. /\ Len(c_) = n /\ c_[n] = last /\ \A i \in 1..n : i # n => c_[i] = b_[i]
        /\ DOMAIN c_ = 1..n
    BY <1>0, <2>0
  <2>3. last.at = b_[n].at /\ last.value = b_[n].value + 1
    BY <1>0, <2>0 DEF Counts!Bucket
  <2>4. last \in Counts!Bucket
    <3>1. last.value <= MaxCount
      <4> HIDE DEF c_, last
      <4> QED
        BY <2>1, <2>2
    <3>2. /\ b_[n] \in Counts!Bucket
          /\ \A r \in Counts!Bucket : r.value \in 1..MaxCount /\ r.at \in 0..MaxTime
      BY <1>0, <2>0 DEF Counts!Bucket
    <3>3. last.value \in 1..MaxCount
      BY <3>1, <3>2, <2>3, <1>0
    <3>4. last = [at |-> b_[n].at, value |-> last.value]
      BY <3>2, <2>3 DEF Counts!Bucket
    <3> HIDE DEF last
    <3> QED
      BY <3>2, <3>3, <3>4 DEF Counts!Bucket
  <2>5. c_ \in Seq(Counts!Bucket)
    <3> HIDE DEF last
    <3> QED
      BY <1>0, <2>0, <2>4
  <2>6. \A i \in 1..n : c_[i].at = b_[i].at
    <3> HIDE DEF c_, last
    <3> QED
      BY <2>2, <2>3
  <2> HIDE DEF c_, last
  <2>7. Apart(c_)
    BY <1>0, <2>2, <2>6 DEF Apart
  <2> QED
    BY <1>0, <2>1, <2>2, <2>5, <2>6, <2>7 DEF Kept
<1> QED
  BY <1>1, <1>2

LEMMA SameCount == \A S : Counts!Cardinality(S) = Cardinality(S)
BY Zenon DEF Counts!Cardinality, Cardinality

LEMMA MetricsStep == MetricsInv /\ [Counts!Next]_(Counts!vars) => MetricsInv'
<1> SUFFICES ASSUME MetricsInv, [Counts!Next]_(Counts!vars) PROVE MetricsInv'
  OBVIOUS
<1> USE DEF Counts!reporting
<1>0. /\ MetricsType
      /\ stored = {} \/ \E data \in Data : stored = {data}
      /\ \A c \in Counter : Kept(buffer[c]) /\ \A data \in stored : Kept(data.buffer[c])
      /\ now \in 0..MaxTime
  BY DEF MetricsInv, MetricsType
<1>a. {MaxTime, MaxTimeout, MaxRestarts, Week} \subseteq Nat
  BY BoundsAssumption
<1>1. CASE Counts!Loaded
  <2>1. /\ loadingStored' = FALSE
        /\ UNCHANGED <<now, stored, reporter, nextSendTimestamp, storedTimestamp, metricsRestarts>>
    BY <1>1 DEF Counts!Loaded
  <2>2. /\ buffer' \in [Counter -> Seq(Counts!Bucket)] /\ counts' \in [User -> 0..2]
        /\ \A c \in Counter : Kept(buffer'[c])
    <3>1. CASE UNCHANGED <<buffer, counts>>
      BY <3>1, <1>0 DEF MetricsType
    <3>2. CASE ~UNCHANGED <<buffer, counts>>
      <4> DEFINE data == CHOOSE d \in stored : TRUE
                 merged(c) == Counts!merge(buffer[c], data.buffer[c])
      <4>1. /\ stored # {}
            /\ buffer' = [c \in Counter |-> merged(c)]
            /\ counts' = Counts!mergeNet(counts, data.counts)
        BY <1>1, <3>2 DEF Counts!Loaded
      <4>2. data \in stored /\ data \in Data
        BY <4>1, <1>0
      <4> HIDE DEF data
      <4>3. \A c \in Counter : Kept(merged(c))
        <5> SUFFICES ASSUME NEW c \in Counter PROVE Kept(merged(c))
          OBVIOUS
        <5>1. Kept(buffer[c]) /\ Kept(data.buffer[c])
          BY <1>0, <4>2
        <5>2. Kept(Counts!trim(buffer[c])) /\ Kept(Counts!trim(data.buffer[c]))
          BY <5>1, <1>0, Trimmed
        <5> QED
          BY <5>2 DEF Counts!merge
      <4> HIDE DEF merged
      <4>4. buffer' \in [Counter -> Seq(Counts!Bucket)] /\ \A c \in Counter : buffer'[c] = merged(c)
        BY <4>1, <4>3 DEF Kept
      <4>5. counts' \in [User -> 0..2]
        <5>1. \A u \in User : counts[u] \in 0..2 /\ data.counts[u] \in 0..2
          BY <4>2, <1>0 DEF MetricsType, Data
        <5>2. \A u \in User : Counts!max(counts[u], data.counts[u]) \in 0..2
          BY <5>1 DEF Counts!max
        <5> QED
          BY <5>2, <4>1 DEF Counts!mergeNet
      <4> QED
        BY <4>3, <4>4, <4>5
    <3> QED
      BY <3>1, <3>2
  <2>3. MetricsType'
    BY <2>1, <2>2, <1>0 DEF MetricsType
  <2>4. \A c \in Counter : Kept(buffer[c])' /\ \A data \in stored' : Kept(data.buffer[c])'
    BY <2>1, <2>2, <1>0 DEF Kept
  <2> QED
    BY <2>1, <2>3, <2>4, <1>0 DEF MetricsInv
<1>2. ASSUME NEW c \in Counter, Counts!increment(c) PROVE MetricsInv'
  <2> DEFINE b_ == Counts!update(Counts!trim(buffer[c]))
             data == [buffer |-> buffer', counts |-> counts]
  <2>1. /\ b_[Len(b_)].value <= MaxCount
        /\ buffer' = [buffer EXCEPT ![c] = b_]
        /\ stored' = stored \/ stored' = {data}
        /\ UNCHANGED <<now, counts, loadingStored, reporter, nextSendTimestamp, storedTimestamp,
                       metricsRestarts>>
    BY <1>2 DEF Counts!increment
  <2>2. Kept(b_)
    <3> DEFINE trimmed == Counts!trim(buffer[c])
    <3>1. /\ Kept(trimmed)
          /\ \A i \in 1..Len(trimmed) : trimmed[i].at >= now - Week * Day
      BY <1>0, Trimmed
    <3>2. Counts!update(trimmed)[Len(Counts!update(trimmed))].value <= MaxCount
      BY <2>1
    <3> HIDE DEF trimmed
    <3>3. Kept(Counts!update(trimmed))
      BY <3>1, <3>2, <1>0, BufferUpdated
    <3> QED
      BY <3>3 DEF trimmed
  <2> HIDE DEF b_
  <2>3. /\ buffer' \in [Counter -> Seq(Counts!Bucket)]
        /\ \A d \in Counter : Kept(buffer'[d])
    <3>1. b_ \in Seq(Counts!Bucket)
      BY <2>2 DEF Kept
    <3>2. buffer \in [Counter -> Seq(Counts!Bucket)]
      BY <1>0 DEF MetricsType
    <3> QED
      BY <3>1, <3>2, <2>1, <2>2, <1>0
  <2>4. data \in Data /\ data.buffer = buffer'
    BY <2>3, <1>0 DEF Data, MetricsType
  <2> HIDE DEF data
  <2>5. stored' = {} \/ \E d \in Data : stored' = {d}
    BY <2>1, <2>4, <1>0
  <2>6. \A d \in Counter : Kept(buffer'[d]) /\ \A s \in stored' : Kept(s.buffer[d])
    BY <2>1, <2>3, <2>4, <1>0
  <2>7. \A d \in Counter : Kept(buffer[d])' /\ \A s \in stored' : Kept(s.buffer[d])'
    BY <2>1, <2>6 DEF Kept
  <2>8. MetricsType'
    BY <2>1, <2>3, <1>0 DEF MetricsType
  <2> QED
    BY <2>5, <2>7, <2>8 DEF MetricsInv
<1>3. ASSUME NEW u \in User, NEW friends \in 1..2, Counts!userCount(u, friends) PROVE MetricsInv'
  <2>1. /\ counts' = [counts EXCEPT ![u] = Counts!max(@, friends)]
        /\ UNCHANGED <<now, buffer, stored, loadingStored, reporter, nextSendTimestamp,
                       storedTimestamp, metricsRestarts>>
    BY <1>3 DEF Counts!userCount
  <2>2. counts' \in [User -> 0..2]
    <3>1. counts \in [User -> 0..2]
      BY <1>0 DEF MetricsType
    <3>2. Counts!max(counts[u], friends) \in 0..2
      BY <3>1 DEF Counts!max
    <3> QED
      BY <3>1, <3>2, <2>1
  <2> QED
    BY <2>1, <2>2, <1>0 DEF MetricsInv, MetricsType, Kept
<1>4. CASE Counts!TimeLoaded \/ Counts!report_ \/ Counts!sendReport_ \/ Counts!Reported
  <2>1. UNCHANGED <<now, buffer, counts, stored, loadingStored, metricsRestarts>>
    BY <1>4 DEF Counts!TimeLoaded, Counts!report_, Counts!sendReport_, Counts!Reported
  <2>2. Counts!NextTimes \subseteq 0..MaxTime + MaxTimeout
    BY <1>0, <1>a DEF Counts!NextTimes
  <2>3. /\ reporter' \in {"loading", "waiting", "asking", "reporting"}
        /\ nextSendTimestamp' \in 0..MaxTime + MaxTimeout
        /\ storedTimestamp' \subseteq 0..MaxTime + MaxTimeout
    <3>1. CASE Counts!TimeLoaded
      BY <3>1, <2>2, <1>0 DEF Counts!TimeLoaded, Counts!runNowOrLater_, MetricsType
    <3>2. CASE Counts!report_ \/ Counts!sendReport_
      BY <3>2, <1>0 DEF Counts!report_, Counts!sendReport_, MetricsType
    <3>3. CASE Counts!Reported
      BY <3>3, <2>2, <1>0 DEF Counts!Reported, Counts!runNowOrLater_, MetricsType
    <3> QED
      BY <1>4, <3>1, <3>2, <3>3
  <2>4. MetricsType'
    BY <2>1, <2>3, <1>0 DEF MetricsType
  <2> QED
    BY <2>1, <2>4, <1>0 DEF MetricsInv, Kept
<1>5. CASE Counts!Tick
  <2>1. /\ now < MaxTime /\ now' = now + 1
        /\ UNCHANGED <<buffer, counts, stored, loadingStored, reporter, nextSendTimestamp,
                       storedTimestamp, metricsRestarts>>
    BY <1>5 DEF Counts!Tick
  <2>2. now' \in 0..MaxTime /\ now \in Nat
    BY <2>1, <1>0, <1>a
  <2>3. ASSUME NEW b_, Kept(b_) PROVE Kept(b_)'
    <3>1. \A i \in 1..Len(b_) : b_[i].at <= now + 1
      <4>1. \A i \in 1..Len(b_) : b_[i].at \in Nat /\ b_[i].at <= now
        <5>1. b_ \in Seq(Counts!Bucket) /\ \A i \in 1..Len(b_) : b_[i].at <= now
          BY <2>3 DEF Kept
        <5>2. \A i \in 1..Len(b_) : b_[i] \in Counts!Bucket
          BY <5>1, ElementOfSeq
        <5> QED
          BY <5>1, <5>2 DEF Counts!Bucket
      <4> QED
        BY <4>1, <2>2
    <3> QED
      BY <2>1, <2>3, <3>1 DEF Kept
  <2>4. \A c \in Counter : Kept(buffer[c])' /\ \A data \in stored' : Kept(data.buffer[c])'
    BY <2>1, <2>3, <1>0
  <2>5. MetricsType'
    BY <2>1, <2>2, <1>0 DEF MetricsType
  <2> QED
    BY <2>1, <2>4, <2>5, <1>0 DEF MetricsInv
<1>6. CASE Counts!Restart
  <2> DEFINE none == <<>>
  <2>1. /\ metricsRestarts < MaxRestarts /\ metricsRestarts' = metricsRestarts + 1
        /\ buffer' = [c \in Counter |-> none] /\ counts' = [u \in User |-> 0]
        /\ loadingStored' = TRUE /\ reporter' = "loading" /\ nextSendTimestamp' = 0
        /\ UNCHANGED <<now, stored, storedTimestamp>>
    BY <1>6 DEF Counts!Restart, Counts!Empty
  <2>2. none \in Seq(Counts!Bucket) /\ Len(none) <= Week /\ 1..Len(none) = {}
    BY <1>a, EmptySeq
  <2> HIDE DEF none
  <2>3. Kept(none)
    BY <2>2 DEF Kept, Apart
  <2>4. buffer' \in [Counter -> Seq(Counts!Bucket)] /\ \A c \in Counter : Kept(buffer'[c])
    BY <2>1, <2>2, <2>3
  <2>5. metricsRestarts' \in 0..MaxRestarts /\ 0 \in 0..MaxTime + MaxTimeout
    <3>1. metricsRestarts \in 0..MaxRestarts
      BY <1>0 DEF MetricsType
    <3> QED
      BY <3>1, <2>1, <1>a
  <2>6. MetricsType'
    BY <2>1, <2>4, <2>5, <1>0 DEF MetricsType
  <2>7. \A c \in Counter : Kept(buffer[c])' /\ \A data \in stored' : Kept(data.buffer[c])'
    BY <2>1, <2>4, <1>0 DEF Kept
  <2> QED
    BY <2>1, <2>6, <2>7, <1>0 DEF MetricsInv
<1>7. CASE UNCHANGED Counts!vars
  BY <1>7, <1>0 DEF Counts!vars, MetricsInv, MetricsType, Kept
<1> QED
  BY <1>1, <1>2, <1>3, <1>4, <1>5, <1>6, <1>7 DEF Counts!Next

LEMMA MetricsHolds == MetricsInv => Counts!TypeOK /\ Counts!BufferFits
<1> SUFFICES ASSUME MetricsInv PROVE Counts!TypeOK /\ Counts!BufferFits
  OBVIOUS
<1>1. MetricsType /\ \A c \in Counter : Kept(buffer[c])
  BY DEF MetricsInv
<1>2. Counts!Cardinality(stored) <= 1
  <2>1. CASE stored = {}
    BY <2>1, FS_EmptySet, SameCount
  <2>2. CASE \E data \in Data : stored = {data}
    BY <2>2, FS_Singleton, SameCount
  <2> QED
    BY <2>1, <2>2 DEF MetricsInv
<1>3. \A c \in Counter : Len(buffer[c]) <= Week
  BY <1>1 DEF Kept
<1>4. \A c \in Counter : /\ Len(buffer[c]) <= Week + 1
                         /\ \A i \in DOMAIN buffer[c] : buffer[c][i] \in Counts!Bucket
  <2> SUFFICES ASSUME NEW c \in Counter
               PROVE  /\ Len(buffer[c]) <= Week + 1
                      /\ \A i \in DOMAIN buffer[c] : buffer[c][i] \in Counts!Bucket
    OBVIOUS
  <2>1. Week \in Nat
    BY BoundsAssumption
  <2>2. buffer[c] \in Seq(Counts!Bucket) /\ Len(buffer[c]) <= Week
    BY <1>1 DEF Kept
  <2> DEFINE b_ == buffer[c]
  <2>3. /\ Len(b_) \in Nat /\ DOMAIN b_ = 1..Len(b_)
        /\ \A i \in 1..Len(b_) : b_[i] \in Counts!Bucket
    <3> HIDE DEF b_
    <3> QED
      BY <2>2, LenProperties, ElementOfSeq DEF b_
  <2> QED
    BY <2>1, <2>2, <2>3
<1> QED
  BY <1>1, <1>2, <1>3, <1>4 DEF Counts!TypeOK, MetricsType, Counts!BufferFits

HIDE DEF now, buffer, counts, stored, loadingStored, reporter, nextSendTimestamp,
         storedTimestamp, metricsRestarts

(* What is kept for a time is dropped when it is over: at most Week buckets at *)
(* a time in a buffer of the metrics (metrics.ts:35-55, 59-79), and one timer  *)
(* for a NAT type that is kept (uproxy_core.ts), however loads, restarts,      *)
(* calls and late answers overlap.                                             *)
THEOREM KeptForATime == Spec => []NothingPilesUp
<1> DEFINE Inv == (part = "metrics" => MetricsInv) /\ (part = "probing" => ProbingInv)
<1>1. Init => Inv
  BY MetricsInit, ProbingInit DEF Init
<1>2. Inv /\ [Next]_vars => Inv'
  <2> SUFFICES ASSUME Inv, [Next]_vars PROVE Inv'
    OBVIOUS
  <2>1. part' = part
    BY DEF Next, vars
  <2>2. CASE part = "metrics"
    <3>1. [Counts!Next]_(Counts!vars)
      BY <2>2 DEF Next, vars, Counts!vars
    <3> QED
      BY <2>1, <2>2, <3>1, MetricsStep
  <2>3. CASE part = "probing"
    <3>1. [Probes!Next]_(Probes!vars)
      BY <2>3 DEF Next, vars, Probes!vars
    <3> QED
      BY <2>1, <2>3, <3>1, ProbingStep
  <2> QED
    BY <2>1, <2>2, <2>3
<1>3. Inv => NothingPilesUp
  BY MetricsHolds DEF ProbingInv, NothingPilesUp
<1> QED
  BY <1>1, <1>2, <1>3, PTL DEF Spec
-----------------------------------------------------------------------------
(* Networks.  A login that is under way has the object that is pending for its *)
(* network or was, and an object in the table is monitored, and is of the      *)
(* network it is in the table for: who takes it out finds the entry by that.   *)
table == v1
pendingNetworks_ == v2
object == v3
call == v4
leaving == v5
value_ == v6
saves == v7
networksOnDisk == v8
coreUp == v9
coreRestarts == v10
USE DEF table, pendingNetworks_, object, call, leaving, value_, saves, networksOnDisk, coreUp,
        coreRestarts

FreedomNetwork ==
  [net : Network \cup {None}, onceLoggedIn_ : {"none", "fulfilled", "rejected"} \cup Call,
   logout : {"undefined", "armed", "called"}, monitor : BOOLEAN]
CallRecord ==
  [stage : Net!Stage, net : Network \cup {None}, obj : Object \cup {None}, after : Nat]

Under(c_) == c_.stage \in {"provider", "prepare"}

(* Of the object of a call that is under way, and one that leaves. *)
CallsKnown ==
  \A c \in Call :
    /\ Under(call[c]) => call[c].obj \in Object /\ object[call[c].obj].net = call[c].net
    /\ call[c].stage # "done" => call[c].net \in Network
    /\ call[c].stage = "leave" => call[c].obj \in Object

PendingKnown ==
  \A n \in Network : pendingNetworks_[n] # None =>
    /\ object[pendingNetworks_[n]].net = n
    /\ \E c \in Call : call[c].obj = pendingNetworks_[n] /\ Under(call[c])

TableKnown ==
  \A n \in Network : table[n] # None => object[table[n]].net = n /\ object[table[n]].monitor

(* Until it has read what to reconnect to, the core does nothing. *)
NothingYet ==
  ~coreUp => (\A n \in Network : table[n] = None) /\ \A c \in Call : call[c].stage = "done"

NetworksType ==
  /\ table \in [Network -> Object \cup {None}]
  /\ pendingNetworks_ \in [Network -> Object \cup {None}]
  /\ object \in [Object -> FreedomNetwork] /\ call \in [Call -> CallRecord]
  /\ value_ \subseteq Network /\ networksOnDisk \subseteq Network
  /\ saves \in Seq(SUBSET Network)
  /\ coreUp \in BOOLEAN /\ coreRestarts \in 0..MaxRestarts

NetworksInv == NetworksType /\ CallsKnown /\ PendingKnown /\ TableKnown /\ NothingYet

LEMMA NetworksTyped == Net!TypeOK <=> NetworksType
BY DEF Net!TypeOK, NetworksType, FreedomNetwork, CallRecord

LEMMA NoNetworks ==
  /\ Net!NewObject \in FreedomNetwork /\ Net!NoCall \in CallRecord
  /\ Net!NewObject.logout = "undefined" /\ Net!NoCall.stage = "done"
  /\ Net!Empty = [n \in Network |-> None]
  /\ Net!Fresh = [o \in Object |-> Net!NewObject]
  /\ Net!Idle = [c \in Call |-> Net!NoCall]
BY DEF Net!NewObject, Net!NoCall, Net!Empty, Net!Fresh, Net!Idle, FreedomNetwork, CallRecord,
       Net!Stage

LEMMA NetworksInit == Net!Init => NetworksInv
<1> SUFFICES ASSUME Net!Init PROVE NetworksInv
  OBVIOUS
<1>1. /\ table = [n \in Network |-> None] /\ pendingNetworks_ = [n \in Network |-> None]
      /\ object = [o \in Object |-> Net!NewObject] /\ call = [c \in Call |-> Net!NoCall]
      /\ networksOnDisk \in SUBSET Network /\ value_ = networksOnDisk /\ saves = <<>>
      /\ coreUp = FALSE /\ coreRestarts = 0
  BY NoNetworks DEF Net!Init
<1>2. 0 \in 0..MaxRestarts
  BY BoundsAssumption
<1>3. NetworksType
  <2>1. <<>> \in Seq(SUBSET Network)
    OBVIOUS
  <2>2. object \in [Object -> FreedomNetwork] /\ call \in [Call -> CallRecord]
    BY <1>1, NoNetworks
  <2>3. saves \in Seq(SUBSET Network)
    BY <1>1, <2>1
  <2> QED
    BY <1>1, <1>2, <2>2, <2>3 DEF NetworksType
<1> QED
  BY <1>1, <1>3, NoNetworks DEF NetworksInv, CallsKnown, PendingKnown, TableKnown, NothingYet, Under

(* A network is out of the table when its object has logged out. *)
LEMMA OutOfTable ==
  ASSUME NetworksInv, NEW o \in Object, Net!LoggedOut(o)
  PROVE  /\ table' \in [Network -> Object \cup {None}] /\ object' \in [Object -> FreedomNetwork]
         /\ \A x \in Object : object'[x].net = object[x].net
         /\ \A n \in Network : table[n] = None => table'[n] = None
         /\ TableKnown'
<1>0. NetworksType /\ TableKnown
  BY DEF NetworksInv
<1>1. CASE UNCHANGED <<table, object>>
  BY <1>0, <1>1 DEF NetworksType, TableKnown
<1>2. CASE ~UNCHANGED <<table, object>>
  <2> DEFINE gone == [object[o] EXCEPT !.logout = "called", !.monitor = FALSE]
  <2>1. /\ table' = [table EXCEPT ![object[o].net] = None]
        /\ object' = [object EXCEPT ![o] = gone]
    BY <1>2 DEF Net!LoggedOut
  <2>2. object[o] \in FreedomNetwork
    BY <1>0 DEF NetworksType
  <2>3. gone \in FreedomNetwork /\ gone.net = object[o].net
    BY <2>2 DEF FreedomNetwork
  <2> HIDE DEF gone
  <2>4. /\ object' \in [Object -> FreedomNetwork] /\ object'[o] = gone
        /\ \A x \in Object : x # o => object'[x] = object[x]
    BY <1>0, <2>1, <2>3 DEF NetworksType
  <2>5. table' \in [Network -> Object \cup {None}]
    BY <1>0, <2>1 DEF NetworksType
  <2>6. \A n \in Network : table'[n] = IF n = object[o].net THEN None ELSE table[n]
    BY <1>0, <2>1 DEF NetworksType
  <2>7. ASSUME NEW n \in Network, table'[n] # None
        PROVE  object'[table'[n]].net = n /\ object'[table'[n]].monitor
    <3>1. n # object[o].net /\ table'[n] = table[n] /\ table[n] # None /\ table[n] \in Object
      BY <1>0, <2>6, <2>7 DEF NetworksType
    <3>2. object[table[n]].net = n /\ object[table[n]].monitor
      BY <1>0, <3>1 DEF TableKnown
    <3>3. table[n] # o
      BY <3>1, <3>2
    <3> QED
      BY <2>4, <3>1, <3>2, <3>3
  <2>8. \A x \in Object : object'[x].net = object[x].net
    BY <2>3, <2>4
  <2>9. \A n \in Network : table[n] = None => table'[n] = None
    BY <2>6
  <2>10. TableKnown'
    BY <2>7 DEF TableKnown
  <2> QED
    BY <2>4, <2>5, <2>8, <2>9, <2>10
<1> QED
  BY <1>1, <1>2

(* A login that failed leaves nothing pending for its network. *)
LEMMA FailedLeaves ==
  ASSUME NetworksInv, NEW c \in Call, Under(call[c]), Net!Fails(c)
  PROVE  /\ pendingNetworks_' \in [Network -> Object \cup {None}]
         /\ object' \in [Object -> FreedomNetwork] /\ call' \in [Call -> CallRecord]
         /\ \A x \in Object : /\ object'[x].net = object[x].net
                               /\ object'[x].monitor = object[x].monitor
         /\ \A d \in Call : call'[d] = IF d = c THEN Net!NoCall ELSE call[d]
         /\ PendingKnown'
<1> DEFINE o == call[c].obj
           n == call[c].net
           x == [object[o] EXCEPT !.onceLoggedIn_ = IF @ = c THEN "rejected" ELSE @]
<1>0. NetworksType /\ CallsKnown /\ PendingKnown
  BY DEF NetworksInv
<1>1. o \in Object /\ n \in Network /\ object[o].net = n
  BY <1>0 DEF CallsKnown, Under
<1>2. /\ call' = [call EXCEPT ![c] = Net!NoCall] /\ object' = [object EXCEPT ![o] = x]
      /\ pendingNetworks_' = [pendingNetworks_ EXCEPT ![n] = None]
  BY DEF Net!Fails
<1>3. object[o] \in FreedomNetwork
  BY <1>0, <1>1 DEF NetworksType
<1>4. x \in FreedomNetwork /\ x.net = object[o].net /\ x.monitor = object[o].monitor
  BY <1>3 DEF FreedomNetwork
<1> HIDE DEF x
<1>5. /\ object' \in [Object -> FreedomNetwork] /\ object'[o] = x
      /\ \A y \in Object : y # o => object'[y] = object[y]
  BY <1>0, <1>1, <1>2, <1>4 DEF NetworksType
<1>6. /\ call' \in [Call -> CallRecord]
      /\ \A d \in Call : call'[d] = IF d = c THEN Net!NoCall ELSE call[d]
  BY <1>0, <1>2, NoNetworks DEF NetworksType
<1>7. /\ pendingNetworks_' \in [Network -> Object \cup {None}]
      /\ \A m \in Network : pendingNetworks_'[m] = IF m = n THEN None ELSE pendingNetworks_[m]
  BY <1>0, <1>1, <1>2 DEF NetworksType
<1>8. \A y \in Object : object'[y].net = object[y].net /\ object'[y].monitor = object[y].monitor
  BY <1>4, <1>5
<1>9. ASSUME NEW m \in Network, pendingNetworks_'[m] # None
      PROVE  /\ object'[pendingNetworks_'[m]].net = m
             /\ \E d \in Call : call'[d].obj = pendingNetworks_'[m] /\ Under(call'[d])
  <2> DEFINE y == pendingNetworks_[m]
  <2>1. m # n /\ pendingNetworks_'[m] = y /\ y # None /\ y \in Object
    BY <1>0, <1>7, <1>9 DEF NetworksType
  <2>2. object[y].net = m /\ \E d \in Call : call[d].obj = y /\ Under(call[d])
    BY <1>0, <2>1 DEF PendingKnown
  <2>3. PICK d \in Call : call[d].obj = y /\ Under(call[d])
    BY <2>2
  <2>4. d # c
    BY <1>1, <2>1, <2>2, <2>3
  <2> HIDE DEF y
  <2> QED
    BY <1>6, <1>8, <2>1, <2>2, <2>3, <2>4
<1>10. PendingKnown'
  BY <1>9 DEF PendingKnown, Under
<1> QED
  BY <1>5, <1>6, <1>7, <1>8, <1>10

LEMMA SameCardinalityOf ==
  \A S : Net!Cardinality(S) = Cardinality(S)
BY Zenon DEF Net!Cardinality, Cardinality

LEMMA FiniteNumber == ASSUME NEW S, IsFiniteSet(S) PROVE Net!Cardinality(S) \in Nat
<1>1. Cardinality(S) \in Nat
  BY FS_CardinalityType
<1> QED
  BY <1>1, SameCardinalityOf

(* A call that ends, or goes on to something else than a login. *)
LEMMA CallGoes ==
  ASSUME NetworksInv, NEW c \in Call, ~Under(call[c]), NEW x \in CallRecord,
         x.stage \in {"done", "add", "drop"}, x.stage # "done" => coreUp /\ x.net \in Network,
         call' = [call EXCEPT ![c] = x],
         UNCHANGED <<table, pendingNetworks_, object, coreUp>>
  PROVE  call' \in [Call -> CallRecord] /\ CallsKnown' /\ PendingKnown' /\ TableKnown' /\ NothingYet'
<1>0. NetworksType /\ CallsKnown /\ PendingKnown /\ TableKnown /\ NothingYet
  BY DEF NetworksInv
<1>1. /\ call' \in [Call -> CallRecord]
      /\ \A d \in Call : call'[d] = IF d = c THEN x ELSE call[d]
  BY <1>0 DEF NetworksType
<1>2. ~Under(x) /\ x.stage # "leave"
  BY DEF Under
<1>3. CallsKnown'
  BY <1>0, <1>1, <1>2 DEF CallsKnown, Under
<1>4. PendingKnown'
  <2> SUFFICES ASSUME NEW n \in Network, pendingNetworks_[n] # None
               PROVE  \E d \in Call : call'[d].obj = pendingNetworks_[n] /\ Under(call'[d])
    BY <1>0 DEF PendingKnown, Under
  <2>1. PICK d \in Call : call[d].obj = pendingNetworks_[n] /\ Under(call[d])
    BY <1>0 DEF PendingKnown
  <2>2. call'[d] = call[d]
    BY <1>1, <2>1
  <2> QED
    BY <2>1, <2>2
<1>5. TableKnown'
  BY <1>0 DEF TableKnown
<1>6. NothingYet'
  BY <1>0, <1>1 DEF NothingYet
<1> QED
  BY <1>1, <1>3, <1>4, <1>5, <1>6

LEMMA SetWritten ==
  ASSUME NetworksInv, NEW c \in Call, call[c].stage # "done", NEW S \in SUBSET Network
  PROVE  Net!Written(c, S) \in SUBSET Network
BY DEF NetworksInv, CallsKnown, Net!Written

LEMMA GetKeeps ==
  ASSUME NetworksInv, NEW c \in Call, Net!Get(c)
  PROVE  NetworksInv'
<1> DEFINE new == Net!Written(c, value_)
<1>0. NetworksType
  BY DEF NetworksInv
<1>1. /\ call[c].stage \in {"add", "drop"} /\ call' = [call EXCEPT ![c] = Net!NoCall]
      /\ saves' = Append(saves, new) \/ saves' = saves
      /\ UNCHANGED <<table, pendingNetworks_, object, value_, networksOnDisk, leaving, coreUp,
                     coreRestarts>>
  BY DEF Net!Get, Net!Ready
<1>2. new \in SUBSET Network
  BY <1>0, <1>1, SetWritten DEF NetworksType
<1> HIDE DEF new
<1>3. saves' \in Seq(SUBSET Network)
  BY <1>0, <1>1, <1>2 DEF NetworksType
<1>4. ~Under(call[c])
  BY <1>1 DEF Under
<1> DEFINE x == Net!NoCall
<1>5. x \in CallRecord /\ x.stage = "done" /\ call' = [call EXCEPT ![c] = x]
  BY <1>1, NoNetworks
<1> HIDE DEF x
<1>6. call' \in [Call -> CallRecord] /\ CallsKnown' /\ PendingKnown' /\ TableKnown' /\ NothingYet'
  BY <1>1, <1>4, <1>5, CallGoes
<1> QED
  BY <1>0, <1>1, <1>3, <1>6 DEF NetworksInv, NetworksType

LEMMA SavedKeeps == ASSUME NetworksInv, Net!Saved PROVE NetworksInv'
<1> DEFINE woken == {c \in Call : call[c].stage \in {"add", "drop"} /\ call[c].after = 1}
           writers == {c \in woken : Net!Writes(c, value_')}
           goes(c) == IF c \in woken THEN Net!NoCall
                      ELSE [call[c] EXCEPT !.after = IF @ > 0 THEN @ - 1 ELSE 0]
<1>0. NetworksType /\ CallsKnown /\ PendingKnown /\ TableKnown /\ NothingYet
  BY DEF NetworksInv
<1>1. PICK order \in Net!SetToSeqs(writers) :
        saves' = Tail(saves) \o [i \in 1..Len(order) |-> Net!Written(order[i], value_')]
  BY DEF Net!Saved
<1>2. /\ saves # <<>> /\ value_' = Head(saves) /\ networksOnDisk' = Head(saves)
      /\ call' = [c \in Call |-> goes(c)]
      /\ UNCHANGED <<table, pendingNetworks_, object, leaving, coreUp, coreRestarts>>
  BY DEF Net!Saved
<1>3. saves \in Seq(SUBSET Network) /\ call \in [Call -> CallRecord]
  BY <1>0 DEF NetworksType
<1>4. value_' \in SUBSET Network /\ networksOnDisk' \in SUBSET Network
      /\ Tail(saves) \in Seq(SUBSET Network)
  BY <1>2, <1>3
<1>5. saves' \in Seq(SUBSET Network)
  <2> DEFINE n == Net!Cardinality(writers)
             new == [i \in 1..Len(order) |-> Net!Written(order[i], value_')]
  <2>1. n \in Nat
    <3>1. writers \in SUBSET Call
      OBVIOUS
    <3>2. IsFiniteSet(writers)
      BY <3>1, BoundsAssumption, FS_Subset
    <3> HIDE DEF writers
    <3> QED
      BY <3>2, FiniteNumber
  <2>2. order \in [1..n -> writers]
    BY DEF Net!SetToSeqs
  <2> HIDE DEF n
  <2>3. Len(order) = n /\ \A i \in 1..n : order[i] \in writers
    <3> HIDE DEF writers
    <3> QED
      BY <2>1, <2>2
  <2>4. \A c \in writers : c \in Call /\ call[c].stage # "done"
    OBVIOUS
  <2>5. \A c \in writers : Net!Written(c, value_') \in SUBSET Network
    BY <1>4, <2>4, SetWritten
  <2> HIDE DEF writers
  <2>6. new \in [1..n -> SUBSET Network]
    BY <2>3, <2>5
  <2>7. new \in Seq(SUBSET Network)
    BY <2>1, <2>6
  <2>8. saves' = Tail(saves) \o new
    BY <1>1
  <2> HIDE DEF new
  <2> QED
    BY <1>4, <2>7, <2>8, ConcatProperties
<1>6. \A c \in Call : /\ goes(c) \in CallRecord
                      /\ goes(c).stage = call[c].stage \/ (goes(c).stage = "done" /\ c \in woken)
                      /\ c \notin woken => goes(c).net = call[c].net /\ goes(c).obj = call[c].obj
  <2> SUFFICES ASSUME NEW c \in Call
               PROVE  /\ goes(c) \in CallRecord
                      /\ goes(c).stage = call[c].stage \/ (goes(c).stage = "done" /\ c \in woken)
                      /\ c \notin woken => goes(c).net = call[c].net /\ goes(c).obj = call[c].obj
    OBVIOUS
  <2>1. CASE c \in woken
    BY <2>1, NoNetworks
  <2>2. CASE c \notin woken
    <3>1. call[c] \in CallRecord
      BY <1>3
    <3>2. (IF call[c].after > 0 THEN call[c].after - 1 ELSE 0) \in Nat
      BY <3>1 DEF CallRecord
    <3>3. goes(c) = [call[c] EXCEPT !.after = IF @ > 0 THEN @ - 1 ELSE 0]
      BY <2>2
    <3> QED
      BY <2>2, <3>1, <3>2, <3>3 DEF CallRecord
  <2> QED
    BY <2>1, <2>2
<1>7. \A c \in woken : c \in Call /\ ~Under(call[c])
  BY DEF Under
<1> HIDE DEF woken, writers, goes
<1>8. /\ call' \in [Call -> CallRecord]
      /\ \A c \in Call : /\ call'[c].stage = call[c].stage
                            \/ (call'[c].stage = "done" /\ ~Under(call[c]))
                         /\ call'[c].stage # "done" =>
                              call'[c].net = call[c].net /\ call'[c].obj = call[c].obj
  <2>1. call' \in [Call -> CallRecord] /\ \A c \in Call : call'[c] = goes(c)
    BY <1>2, <1>6
  <2>2. \A c \in woken : goes(c).stage = "done"
    BY NoNetworks DEF goes
  <2> QED
    BY <2>1, <2>2, <1>6, <1>7
<1>9. CallsKnown'
  BY <1>0, <1>2, <1>8 DEF CallsKnown, Under
<1>10. PendingKnown'
  <2> SUFFICES ASSUME NEW n \in Network, pendingNetworks_[n] # None
               PROVE  \E d \in Call : call'[d].obj = pendingNetworks_[n] /\ Under(call'[d])
    BY <1>0, <1>2 DEF PendingKnown, Under
  <2>1. PICK d \in Call : call[d].obj = pendingNetworks_[n] /\ Under(call[d])
    BY <1>0 DEF PendingKnown
  <2>2. Under(call'[d]) /\ call'[d].obj = call[d].obj
    BY <1>8, <2>1 DEF Under
  <2> QED
    BY <2>1, <2>2
<1>11. TableKnown' /\ NothingYet'
  BY <1>0, <1>2, <1>8 DEF TableKnown, NothingYet, Under
<1>12. NetworksType'
  BY <1>0, <1>2, <1>4, <1>5, <1>8 DEF NetworksType
<1> QED
  BY <1>9, <1>10, <1>11, <1>12 DEF NetworksInv

LEMMA LoginKeeps ==
  ASSUME NetworksInv, NEW c \in Call, NEW n \in Network, Net!login(c, n)
  PROVE  NetworksInv'
<1>0. NetworksType /\ CallsKnown /\ PendingKnown /\ TableKnown /\ NothingYet
  BY DEF NetworksInv
<1>1. PICK o \in Object :
        /\ IF pendingNetworks_[n] # None THEN o = pendingNetworks_[n] ELSE Net!Unused(o)
        /\ pendingNetworks_' = [pendingNetworks_ EXCEPT ![n] = o]
        /\ object' = [object EXCEPT ![o] =
             [(IF pendingNetworks_[n] = o THEN @ ELSE Net!NewObject)
                EXCEPT !.net = n, !.onceLoggedIn_ = c]]
        /\ call' = [call EXCEPT ![c] = [stage |-> "provider", net |-> n, obj |-> o, after |-> 0]]
  BY DEF Net!login
<1>2. /\ coreUp /\ call[c].stage = "done"
      /\ UNCHANGED <<table, value_, saves, networksOnDisk, leaving, coreUp, coreRestarts>>
  BY DEF Net!login, Net!storeVars
<1> DEFINE old == IF pendingNetworks_[n] = o THEN object[o] ELSE Net!NewObject
           x == [old EXCEPT !.net = n, !.onceLoggedIn_ = c]
           k == [stage |-> "provider", net |-> n, obj |-> o, after |-> 0]
<1>3. /\ object \in [Object -> FreedomNetwork] /\ call \in [Call -> CallRecord]
      /\ pendingNetworks_ \in [Network -> Object \cup {None}]
  BY <1>0 DEF NetworksType
<1>4. old \in FreedomNetwork
  BY <1>3, NoNetworks
<1>5. x \in FreedomNetwork /\ x.net = n /\ x.monitor = old.monitor
  <2> HIDE DEF old
  <2> QED
    BY <1>4 DEF FreedomNetwork
<1>6. k \in CallRecord /\ k.stage = "provider" /\ k.net = n /\ k.obj = o /\ Under(k)
  BY DEF CallRecord, Net!Stage, Under
<1>7. /\ object' = [object EXCEPT ![o] = x] /\ call' = [call EXCEPT ![c] = k]
  BY <1>1
<1>a. pendingNetworks_[n] = o => x.monitor = object[o].monitor
  BY <1>5
<1> HIDE DEF x, k, old
<1>8. /\ object' \in [Object -> FreedomNetwork] /\ object'[o] = x
      /\ \A y \in Object : y # o => object'[y] = object[y]
  BY <1>3, <1>5, <1>7
<1>9. /\ call' \in [Call -> CallRecord] /\ call'[c] = k
      /\ \A d \in Call : d # c => call'[d] = call[d]
  BY <1>3, <1>6, <1>7
<1>10. /\ pendingNetworks_' \in [Network -> Object \cup {None}] /\ pendingNetworks_'[n] = o
       /\ \A m \in Network : m # n => pendingNetworks_'[m] = pendingNetworks_[m]
  BY <1>1, <1>3
<1>11. CASE pendingNetworks_[n] # None
  <2>1. pendingNetworks_[n] = o /\ object[o].net = n
    BY <1>0, <1>1, <1>11 DEF PendingKnown
  <2>2. \A y \in Object : object'[y].net = object[y].net /\ object'[y].monitor = object[y].monitor
    BY <1>5, <1>8, <1>a, <2>1
  <2>3. CallsKnown'
    BY <1>0, <1>2, <1>6, <1>9, <2>1, <2>2 DEF CallsKnown, Under
  <2>4. PendingKnown'
    <3> SUFFICES ASSUME NEW m \in Network, pendingNetworks_'[m] # None
                 PROVE  /\ object'[pendingNetworks_'[m]].net = m
                        /\ \E d \in Call : call'[d].obj = pendingNetworks_'[m] /\ Under(call'[d])
      BY DEF PendingKnown, Under
    <3>1. CASE m = n
      BY <3>1, <1>5, <1>6, <1>8, <1>9, <1>10
    <3>2. CASE m # n
      <4>1. pendingNetworks_'[m] = pendingNetworks_[m] /\ pendingNetworks_[m] \in Object
        BY <3>2, <1>3, <1>10
      <4>2. PICK d \in Call : call[d].obj = pendingNetworks_[m] /\ Under(call[d])
        BY <4>1, <1>0 DEF PendingKnown
      <4>3. d # c
        BY <4>2, <1>2 DEF Under
      <4>4. object[pendingNetworks_[m]].net = m
        BY <4>1, <1>0 DEF PendingKnown
      <4> QED
        BY <4>1, <4>2, <4>3, <4>4, <2>2, <1>9
    <3> QED
      BY <3>1, <3>2
  <2>5. TableKnown'
    BY <1>0, <1>2, <2>2 DEF TableKnown, NetworksType
  <2>6. NothingYet' /\ NetworksType'
    BY <1>0, <1>2, <1>8, <1>9, <1>10 DEF NothingYet, NetworksType
  <2> QED
    BY <2>3, <2>4, <2>5, <2>6 DEF NetworksInv
<1>12. CASE pendingNetworks_[n] = None
  <2>1. /\ \A m \in Network : table[m] # o /\ pendingNetworks_[m] # o
        /\ \A d \in Call : call[d].obj # o
    BY <1>1, <1>12 DEF Net!Unused
  <2>2. CallsKnown'
    <3> SUFFICES ASSUME NEW d \in Call
                 PROVE  /\ Under(call'[d]) => /\ call'[d].obj \in Object
                                              /\ object'[call'[d].obj].net = call'[d].net
                        /\ call'[d].stage # "done" => call'[d].net \in Network
                        /\ call'[d].stage = "leave" => call'[d].obj \in Object
      BY DEF CallsKnown, Under
    <3>1. CASE d = c
      BY <3>1, <1>5, <1>6, <1>8, <1>9
    <3>2. CASE d # c
      BY <3>2, <2>1, <1>0, <1>8, <1>9 DEF CallsKnown
    <3> QED
      BY <3>1, <3>2
  <2>3. PendingKnown'
    <3> SUFFICES ASSUME NEW m \in Network, pendingNetworks_'[m] # None
                 PROVE  /\ object'[pendingNetworks_'[m]].net = m
                        /\ \E d \in Call : call'[d].obj = pendingNetworks_'[m] /\ Under(call'[d])
      BY DEF PendingKnown, Under
    <3>1. CASE m = n
      BY <3>1, <1>5, <1>6, <1>8, <1>9, <1>10
    <3>2. CASE m # n
      <4>1. /\ pendingNetworks_'[m] = pendingNetworks_[m] /\ pendingNetworks_[m] \in Object
            /\ pendingNetworks_[m] # o
        BY <3>2, <2>1, <1>3, <1>10
      <4>2. PICK d \in Call : call[d].obj = pendingNetworks_[m] /\ Under(call[d])
        BY <4>1, <1>0 DEF PendingKnown
      <4>3. d # c
        BY <4>2, <1>2 DEF Under
      <4>4. object[pendingNetworks_[m]].net = m
        BY <4>1, <1>0 DEF PendingKnown
      <4> QED
        BY <4>1, <4>2, <4>3, <4>4, <1>8, <1>9
    <3> QED
      BY <3>1, <3>2
  <2>4. TableKnown'
    <3> SUFFICES ASSUME NEW m \in Network, table[m] # None
                 PROVE  object'[table[m]].net = m /\ object'[table[m]].monitor
      BY <1>2 DEF TableKnown
    <3>1. table[m] \in Object /\ table[m] # o
      BY <2>1, <1>0 DEF NetworksType
    <3> QED
      BY <3>1, <1>0, <1>8 DEF TableKnown
  <2>5. NothingYet' /\ NetworksType'
    BY <1>0, <1>2, <1>8, <1>9, <1>10 DEF NothingYet, NetworksType
  <2> QED
    BY <2>2, <2>3, <2>4, <2>5 DEF NetworksInv
<1> QED
  BY <1>11, <1>12

LEMMA ReconnectKeeps == ASSUME NetworksInv, Net!Reconnect PROVE NetworksInv'
<1>0. NetworksType /\ NothingYet
  BY DEF NetworksInv
<1>1. PICK calls \in [value_ -> Call], objects \in [value_ -> Object] :
        /\ Net!IsInjective(calls) /\ Net!IsInjective(objects)
        /\ pendingNetworks_' = [n \in Network |-> IF n \in value_ THEN objects[n] ELSE None]
        /\ object' = [o \in Object |->
             IF o \in Net!Range(objects)
             THEN LET n == CHOOSE m \in value_ : objects[m] = o IN
                  [Net!NewObject EXCEPT !.net = n, !.onceLoggedIn_ = calls[n]]
             ELSE Net!NewObject]
        /\ call' = [c \in Call |->
             IF c \in Net!Range(calls)
             THEN LET n == CHOOSE m \in value_ : calls[m] = c IN
                  [stage |-> "provider", net |-> n, obj |-> objects[n], after |-> 0]
             ELSE Net!NoCall]
  BY DEF Net!Reconnect
<1>2. /\ ~coreUp /\ coreUp' = TRUE
      /\ saves' = [i \in 1..Net!Cardinality(value_) |-> {}]
      /\ UNCHANGED <<table, value_, networksOnDisk, leaving, coreRestarts>>
  BY DEF Net!Reconnect
<1>3. value_ \subseteq Network
  BY <1>0 DEF NetworksType
<1>4. \A n \in Network : table'[n] = None
  BY <1>0, <1>2 DEF NothingYet
<1>5. /\ \A m, n \in value_ : objects[m] = objects[n] => m = n
      /\ \A m, n \in value_ : calls[m] = calls[n] => m = n
  BY <1>1 DEF Net!IsInjective
<1>6. /\ \A o \in Object : o \in Net!Range(objects) <=> \E m \in value_ : objects[m] = o
      /\ \A c \in Call : c \in Net!Range(calls) <=> \E m \in value_ : calls[m] = c
  BY <1>1 DEF Net!Range
<1>7. /\ object' \in [Object -> FreedomNetwork]
      /\ \A n \in value_ : object'[objects[n]].net = n
  <2> DEFINE net(o) == CHOOSE m \in value_ : objects[m] = o
             x(o) == [Net!NewObject EXCEPT !.net = net(o), !.onceLoggedIn_ = calls[net(o)]]
  <2>1. ASSUME NEW o \in Object, o \in Net!Range(objects)
        PROVE  net(o) \in value_ /\ objects[net(o)] = o
    BY <1>6, <2>1
  <2> HIDE DEF net
  <2>2. ASSUME NEW o \in Object, o \in Net!Range(objects)
        PROVE  x(o) \in FreedomNetwork /\ x(o).net = net(o)
    <3>1. net(o) \in Network /\ calls[net(o)] \in Call
      BY <1>1, <1>3, <2>1, <2>2
    <3> QED
      BY <3>1, NoNetworks DEF FreedomNetwork
  <2>3. object' = [o \in Object |-> IF o \in Net!Range(objects) THEN x(o) ELSE Net!NewObject]
    BY <1>1 DEF net
  <2> HIDE DEF x
  <2>4. object' \in [Object -> FreedomNetwork]
    BY <2>2, <2>3, NoNetworks
  <2>5. \A n \in value_ : object'[objects[n]].net = n
    <3> SUFFICES ASSUME NEW n \in value_ PROVE object'[objects[n]].net = n
      OBVIOUS
    <3>1. objects[n] \in Object /\ objects[n] \in Net!Range(objects)
      BY <1>1, <1>6
    <3>2. net(objects[n]) = n
      BY <3>1, <2>1, <1>5
    <3> QED
      BY <3>1, <3>2, <2>2, <2>3
  <2> QED
    BY <2>4, <2>5
<1>8. /\ call' \in [Call -> CallRecord]
      /\ \A c \in Call : \/ call'[c] = Net!NoCall
                         \/ \E n \in value_ : /\ call'[c].net = n /\ call'[c].obj = objects[n]
                                              /\ call'[c].stage = "provider"
      /\ \A n \in value_ : call'[calls[n]].obj = objects[n] /\ call'[calls[n]].stage = "provider"
  <2> DEFINE net(c) == CHOOSE m \in value_ : calls[m] = c
             x(c) == [stage |-> "provider", net |-> net(c), obj |-> objects[net(c)], after |-> 0]
  <2>1. ASSUME NEW c \in Call, c \in Net!Range(calls)
        PROVE  net(c) \in value_ /\ calls[net(c)] = c
    BY <1>6, <2>1
  <2>2. call' = [c \in Call |-> IF c \in Net!Range(calls) THEN x(c) ELSE Net!NoCall]
    BY <1>1
  <2> HIDE DEF net
  <2>3. ASSUME NEW c \in Call, c \in Net!Range(calls)
        PROVE  /\ x(c) \in CallRecord /\ x(c).net = net(c) /\ x(c).obj = objects[net(c)]
               /\ x(c).stage = "provider"
    <3>1. net(c) \in Network /\ objects[net(c)] \in Object
      BY <1>1, <1>3, <2>1, <2>3
    <3> QED
      BY <3>1 DEF CallRecord, Net!Stage
  <2> HIDE DEF x
  <2>4. call' \in [Call -> CallRecord]
    BY <2>2, <2>3, NoNetworks
  <2>5. ASSUME NEW n \in value_
        PROVE  call'[calls[n]].obj = objects[n] /\ call'[calls[n]].stage = "provider"
    <3>1. calls[n] \in Call /\ calls[n] \in Net!Range(calls)
      BY <1>1, <1>6
    <3>2. net(calls[n]) = n
      BY <3>1, <2>1, <1>5
    <3> QED
      BY <3>1, <3>2, <2>2, <2>3
  <2>6. ASSUME NEW c \in Call
        PROVE  \/ call'[c] = Net!NoCall
               \/ \E n \in value_ : /\ call'[c].net = n /\ call'[c].obj = objects[n]
                                    /\ call'[c].stage = "provider"
    <3>1. CASE c \in Net!Range(calls)
      BY <3>1, <2>1, <2>2, <2>3
    <3>2. CASE c \notin Net!Range(calls)
      BY <3>2, <2>2
    <3> QED
      BY <3>1, <3>2
  <2> QED
    BY <2>4, <2>5, <2>6
<1>9. /\ pendingNetworks_' \in [Network -> Object \cup {None}]
      /\ \A n \in Network : pendingNetworks_'[n] # None =>
           n \in value_ /\ pendingNetworks_'[n] = objects[n]
  BY <1>1, <1>3
<1>10. saves' \in Seq(SUBSET Network)
  <2> DEFINE k == Net!Cardinality(value_)
  <2>1. IsFiniteSet(value_)
    BY <1>3, NetworksAssumption, FS_Subset
  <2>2. k \in Nat
    BY <2>1, FiniteNumber
  <2>3. saves' = [i \in 1..k |-> {}]
    BY <1>2
  <2> HIDE DEF k
  <2> QED
    BY <2>2, <2>3
<1>11. NetworksType'
  BY <1>0, <1>2, <1>7, <1>8, <1>9, <1>10 DEF NetworksType
<1>12. CallsKnown'
  <2> SUFFICES ASSUME NEW c \in Call
               PROVE  /\ Under(call'[c]) => /\ call'[c].obj \in Object
                                            /\ object'[call'[c].obj].net = call'[c].net
                      /\ call'[c].stage # "done" => call'[c].net \in Network
                      /\ call'[c].stage = "leave" => call'[c].obj \in Object
    BY DEF CallsKnown, Under
  <2>1. CASE call'[c] = Net!NoCall
    BY <2>1, NoNetworks DEF Under
  <2>2. CASE \E n \in value_ : /\ call'[c].net = n /\ call'[c].obj = objects[n]
                               /\ call'[c].stage = "provider"
    <3>1. PICK n \in value_ : /\ call'[c].net = n /\ call'[c].obj = objects[n]
                              /\ call'[c].stage = "provider"
      BY <2>2
    <3>2. objects[n] \in Object /\ n \in Network /\ object'[objects[n]].net = n
      BY <1>1, <1>3, <1>7
    <3> QED
      BY <3>1, <3>2
  <2> QED
    BY <2>1, <2>2, <1>8
<1>13. PendingKnown'
  <2> SUFFICES ASSUME NEW n \in Network, pendingNetworks_'[n] # None
               PROVE  /\ object'[pendingNetworks_'[n]].net = n
                      /\ \E d \in Call : call'[d].obj = pendingNetworks_'[n] /\ Under(call'[d])
    BY DEF PendingKnown, Under
  <2>1. n \in value_ /\ pendingNetworks_'[n] = objects[n] /\ calls[n] \in Call
    BY <1>1, <1>9
  <2>2. call'[calls[n]].obj = objects[n] /\ Under(call'[calls[n]])
    BY <2>1, <1>8 DEF Under
  <2> QED
    BY <2>1, <2>2, <1>7
<1>14. TableKnown' /\ NothingYet'
  BY <1>2, <1>4 DEF TableKnown, NothingYet
<1> QED
  BY <1>11, <1>12, <1>13, <1>14 DEF NetworksInv

LEMMA LogsInKeeps ==
  ASSUME NetworksInv, NEW c \in Call, Net!ProviderLogsIn(c)
  PROVE  NetworksInv'
<1> DEFINE n == call[c].net
           o == call[c].obj
           x == [object[o] EXCEPT !.monitor = TRUE]
           k == [call[c] EXCEPT !.stage = "prepare"]
<1>0. NetworksType /\ CallsKnown /\ PendingKnown /\ TableKnown /\ NothingYet
  BY DEF NetworksInv
<1>1. /\ call[c].stage = "provider"
      /\ table' = [table EXCEPT ![n] = o] /\ object' = [object EXCEPT ![o] = x]
      /\ call' = [call EXCEPT ![c] = k]
      /\ UNCHANGED <<pendingNetworks_, value_, saves, networksOnDisk, coreUp, coreRestarts>>
  BY DEF Net!ProviderLogsIn, Net!storeVars
<1>2. Under(call[c]) /\ o \in Object /\ n \in Network /\ object[o].net = n
  BY <1>0, <1>1 DEF CallsKnown, Under
<1>3. call[c] \in CallRecord /\ object[o] \in FreedomNetwork
  BY <1>0, <1>2 DEF NetworksType
<1>4. x \in FreedomNetwork /\ x.net = object[o].net /\ x.monitor = TRUE
  BY <1>3 DEF FreedomNetwork
<1>5. k \in CallRecord /\ k.stage = "prepare" /\ k.net = n /\ k.obj = o /\ Under(k)
  BY <1>3 DEF CallRecord, Net!Stage, Under
<1> HIDE DEF x, k
<1>6. /\ object' \in [Object -> FreedomNetwork] /\ object'[o] = x
      /\ \A y \in Object : y # o => object'[y] = object[y]
  BY <1>0, <1>1, <1>2, <1>4 DEF NetworksType
<1>7. /\ call' \in [Call -> CallRecord] /\ call'[c] = k
      /\ \A d \in Call : d # c => call'[d] = call[d]
  BY <1>0, <1>1, <1>5 DEF NetworksType
<1>8. /\ table' \in [Network -> Object \cup {None}] /\ table'[n] = o
      /\ \A m \in Network : m # n => table'[m] = table[m]
  BY <1>0, <1>1, <1>2 DEF NetworksType
<1>9. \A y \in Object : object'[y].net = object[y].net
  BY <1>4, <1>6
<1>10. \A d \in Call : /\ call'[d].net = call[d].net /\ call'[d].obj = call[d].obj
                       /\ Under(call'[d]) <=> Under(call[d])
                       /\ call'[d].stage # "done" <=> call[d].stage # "done"
                       /\ call'[d].stage = "leave" <=> call[d].stage = "leave"
  BY <1>1, <1>2, <1>5, <1>7
<1>11. CallsKnown'
  BY <1>0, <1>9, <1>10 DEF CallsKnown, Under
<1>12. PendingKnown'
  <2> SUFFICES ASSUME NEW m \in Network, pendingNetworks_[m] # None
               PROVE  /\ object'[pendingNetworks_[m]].net = m
                      /\ \E d \in Call : call'[d].obj = pendingNetworks_[m] /\ Under(call'[d])
    BY <1>1 DEF PendingKnown, Under
  <2>1. pendingNetworks_[m] \in Object
    BY <1>0 DEF NetworksType
  <2> QED
    BY <2>1, <1>0, <1>9, <1>10 DEF PendingKnown
<1>13. TableKnown'
  <2> SUFFICES ASSUME NEW m \in Network, table'[m] # None
               PROVE  object'[table'[m]].net = m /\ object'[table'[m]].monitor
    BY DEF TableKnown
  <2>1. CASE m = n
    BY <2>1, <1>2, <1>4, <1>6, <1>8
  <2>2. CASE m # n
    <3>1. table'[m] = table[m] /\ table[m] \in Object
      BY <2>2, <1>0, <1>8 DEF NetworksType
    <3>2. object[table[m]].net = m /\ object[table[m]].monitor
      BY <3>1, <1>0 DEF TableKnown
    <3> QED
      BY <3>1, <3>2, <1>4, <1>6
  <2> QED
    BY <2>1, <2>2
<1>14. coreUp
  BY <1>0, <1>1 DEF NothingYet, NetworksType
<1> QED
  BY <1>0, <1>1, <1>6, <1>7, <1>8, <1>11, <1>12, <1>13, <1>14
     DEF NetworksInv, NetworksType, NothingYet

LEMMA RejectsKeeps ==
  ASSUME NetworksInv, NEW c \in Call, Under(call[c]), Net!Fails(c),
         UNCHANGED <<table, value_, saves, networksOnDisk, coreUp, coreRestarts>>
  PROVE  NetworksInv'
<1>0. NetworksType /\ CallsKnown /\ TableKnown /\ NothingYet
  BY DEF NetworksInv
<1>1. /\ pendingNetworks_' \in [Network -> Object \cup {None}]
      /\ object' \in [Object -> FreedomNetwork] /\ call' \in [Call -> CallRecord]
      /\ \A x \in Object : /\ object'[x].net = object[x].net
                           /\ object'[x].monitor = object[x].monitor
      /\ \A d \in Call : call'[d] = IF d = c THEN Net!NoCall ELSE call[d]
      /\ PendingKnown'
  BY FailedLeaves
<1>2. CallsKnown'
  BY <1>0, <1>1, NoNetworks DEF CallsKnown, Under
<1>3. TableKnown'
  BY <1>0, <1>1 DEF TableKnown, NetworksType
<1>4. NothingYet'
  BY <1>0, <1>1, NoNetworks DEF NothingYet
<1> QED
  BY <1>0, <1>1, <1>2, <1>3, <1>4 DEF NetworksInv, NetworksType

LEMMA PreparedKeeps ==
  ASSUME NetworksInv, NEW c \in Call, Net!Prepared(c)
  PROVE  NetworksInv'
<1> DEFINE n == call[c].net
           o == call[c].obj
           x == [object[o] EXCEPT !.logout = "armed",
                                  !.onceLoggedIn_ = IF @ = c THEN "fulfilled" ELSE @]
           k == [call[c] EXCEPT !.stage = "add", !.after = Len(saves)]
<1>0. NetworksType /\ CallsKnown /\ PendingKnown /\ TableKnown /\ NothingYet
  BY DEF NetworksInv
<1>1. /\ call[c].stage = "prepare"
      /\ UNCHANGED <<table, value_, saves, networksOnDisk, coreUp, coreRestarts>>
  BY DEF Net!Prepared, Net!storeVars
<1>2. Under(call[c]) /\ o \in Object /\ n \in Network /\ object[o].net = n
  BY <1>0, <1>1 DEF CallsKnown, Under
<1>3. CASE Net!Fails(c)
  BY <1>1, <1>2, <1>3, RejectsKeeps
<1>4. CASE ~Net!Fails(c)
  <2>1. /\ pendingNetworks_' = [pendingNetworks_ EXCEPT ![n] = None]
        /\ object' = [object EXCEPT ![o] = x] /\ call' = [call EXCEPT ![c] = k]
    BY <1>4 DEF Net!Prepared, Net!Waits
  <2>2. call[c] \in CallRecord /\ object[o] \in FreedomNetwork /\ Len(saves) \in Nat
    BY <1>0, <1>2 DEF NetworksType
  <2>3. x \in FreedomNetwork /\ x.net = object[o].net /\ x.monitor = object[o].monitor
    BY <2>2 DEF FreedomNetwork
  <2>4. k \in CallRecord /\ k.stage = "add" /\ k.net = n
    BY <2>2 DEF CallRecord, Net!Stage
  <2> HIDE DEF x, k
  <2>5. /\ object' \in [Object -> FreedomNetwork]
        /\ \A y \in Object : /\ object'[y].net = object[y].net
                             /\ object'[y].monitor = object[y].monitor
    BY <1>0, <1>2, <2>1, <2>3 DEF NetworksType
  <2>6. /\ call' \in [Call -> CallRecord] /\ call'[c] = k
        /\ \A d \in Call : d # c => call'[d] = call[d]
    BY <1>0, <2>1, <2>4 DEF NetworksType
  <2>7. /\ pendingNetworks_' \in [Network -> Object \cup {None}]
        /\ \A m \in Network : pendingNetworks_'[m] = IF m = n THEN None ELSE pendingNetworks_[m]
    BY <1>0, <2>1 DEF NetworksType
  <2>8. CallsKnown'
    BY <1>0, <1>2, <2>4, <2>5, <2>6 DEF CallsKnown, Under
  <2>9. PendingKnown'
    <3> SUFFICES ASSUME NEW m \in Network, pendingNetworks_'[m] # None
                 PROVE  /\ object'[pendingNetworks_'[m]].net = m
                        /\ \E d \in Call : call'[d].obj = pendingNetworks_'[m] /\ Under(call'[d])
      BY DEF PendingKnown, Under
    <3>1. m # n /\ pendingNetworks_'[m] = pendingNetworks_[m] /\ pendingNetworks_[m] \in Object
      BY <1>0, <2>7 DEF NetworksType
    <3>2. PICK d \in Call : call[d].obj = pendingNetworks_[m] /\ Under(call[d])
      BY <3>1, <1>0, <2>7 DEF PendingKnown
    <3>3. object[pendingNetworks_[m]].net = m
      BY <3>1, <1>0, <2>7 DEF PendingKnown
    <3>4. d # c
      BY <3>1, <3>2, <3>3, <1>2
    <3> QED
      BY <3>1, <3>2, <3>3, <3>4, <2>5, <2>6
  <2>10. TableKnown'
    BY <1>0, <1>1, <2>5 DEF TableKnown, NetworksType
  <2>11. coreUp
    BY <1>0, <1>1 DEF NothingYet, NetworksType
  <2> QED
    BY <1>0, <1>1, <2>5, <2>6, <2>7, <2>8, <2>9, <2>10, <2>11
       DEF NetworksInv, NetworksType, NothingYet
<1> QED
  BY <1>3, <1>4

(* An object that is out of the table, whoever took it out. *)
LEMMA LeftKeeps ==
  ASSUME NetworksInv, NEW o \in Object, Net!LoggedOut(o) \/ UNCHANGED <<table, object>>,
         UNCHANGED <<pendingNetworks_, call, value_, saves, networksOnDisk, coreUp, coreRestarts>>
  PROVE  NetworksInv'
<1>0. NetworksType /\ CallsKnown /\ PendingKnown /\ TableKnown /\ NothingYet
  BY DEF NetworksInv
<1>1. /\ table' \in [Network -> Object \cup {None}] /\ object' \in [Object -> FreedomNetwork]
      /\ \A x \in Object : object'[x].net = object[x].net
      /\ \A n \in Network : table[n] = None => table'[n] = None
      /\ TableKnown'
  <2>1. CASE Net!LoggedOut(o)
    BY <2>1, OutOfTable
  <2>2. CASE UNCHANGED <<table, object>>
    BY <2>2, <1>0 DEF TableKnown, NetworksType
  <2> QED
    BY <2>1, <2>2
<1>2. CallsKnown'
  BY <1>0, <1>1 DEF CallsKnown, Under
<1>3. PendingKnown'
  BY <1>0, <1>1 DEF PendingKnown, Under, NetworksType
<1> QED
  BY <1>0, <1>1, <1>2, <1>3 DEF NetworksInv, NetworksType, NothingYet

LEMMA LogsOutKeeps ==
  ASSUME NetworksInv, NEW c \in Call, Net!ProviderLogsOut(c)
  PROVE  NetworksInv'
<1> DEFINE o == call[c].obj
           k == [call[c] EXCEPT !.stage = "drop", !.after = Len(saves)]
<1>0. NetworksType /\ CallsKnown /\ PendingKnown /\ TableKnown /\ NothingYet
  BY DEF NetworksInv
<1>1. /\ call[c].stage = "leave"
      /\ UNCHANGED <<pendingNetworks_, value_, saves, networksOnDisk, coreUp, coreRestarts>>
      /\ Net!LoggedOut(o) \/ UNCHANGED <<table, object>>
      /\ call' = [call EXCEPT ![c] = k] \/ call' = [call EXCEPT ![c] = Net!NoCall]
  BY DEF Net!ProviderLogsOut, Net!storeVars, Net!Waits
<1>2. o \in Object /\ call[c].net \in Network /\ call[c] \in CallRecord /\ Len(saves) \in Nat
  BY <1>0, <1>1 DEF CallsKnown, NetworksType
<1>3. k \in CallRecord /\ k.stage = "drop" /\ k.net = call[c].net
  BY <1>2 DEF CallRecord, Net!Stage
<1>4. PICK x \in CallRecord :
        /\ call' = [call EXCEPT ![c] = x]
        /\ x.stage \in {"done", "drop"} /\ (x.stage # "done" => x.net \in Network)
  BY <1>1, <1>2, <1>3, NoNetworks
<1> HIDE DEF k, o
<1>5. /\ table' \in [Network -> Object \cup {None}] /\ object' \in [Object -> FreedomNetwork]
      /\ \A y \in Object : object'[y].net = object[y].net
      /\ \A n \in Network : table[n] = None => table'[n] = None
      /\ TableKnown'
  <2>1. CASE Net!LoggedOut(o)
    BY <2>1, <1>2, OutOfTable
  <2>2. CASE UNCHANGED <<table, object>>
    BY <2>2, <1>0 DEF TableKnown, NetworksType
  <2> QED
    BY <2>1, <2>2, <1>1
<1>6. /\ call' \in [Call -> CallRecord] /\ call'[c] = x
      /\ \A d \in Call : d # c => call'[d] = call[d]
  BY <1>0, <1>4 DEF NetworksType
<1>7. ~Under(call[c]) /\ ~Under(x) /\ x.stage # "leave"
  BY <1>1, <1>4 DEF Under
<1>8. CallsKnown'
  BY <1>0, <1>4, <1>5, <1>6, <1>7 DEF CallsKnown, Under
<1>9. PendingKnown'
  <2> SUFFICES ASSUME NEW m \in Network, pendingNetworks_[m] # None
               PROVE  /\ object'[pendingNetworks_[m]].net = m
                      /\ \E d \in Call : call'[d].obj = pendingNetworks_[m] /\ Under(call'[d])
    BY <1>1 DEF PendingKnown, Under
  <2>1. pendingNetworks_[m] \in Object
    BY <1>0 DEF NetworksType
  <2>2. PICK d \in Call : call[d].obj = pendingNetworks_[m] /\ Under(call[d])
    BY <1>0 DEF PendingKnown
  <2>3. call'[d] = call[d]
    BY <2>2, <1>6, <1>7
  <2> QED
    BY <2>1, <2>2, <2>3, <1>0, <1>5 DEF PendingKnown
<1>10. coreUp
  BY <1>0, <1>1 DEF NothingYet, NetworksType
<1> QED
  BY <1>0, <1>1, <1>5, <1>6, <1>8, <1>9, <1>10 DEF NetworksInv, NetworksType, NothingYet

LEMMA LogoutKeeps ==
  ASSUME NetworksInv, NEW c \in Call, NEW n \in Network, Net!logout(c, n)
  PROVE  NetworksInv'
<1> DEFINE k == [stage |-> "leave", net |-> n, obj |-> table[n], after |-> 0]
<1>0. NetworksType /\ CallsKnown /\ PendingKnown /\ TableKnown /\ NothingYet
  BY DEF NetworksInv
<1>1. /\ coreUp /\ call[c].stage = "done" /\ table[n] # None
      /\ call' = [call EXCEPT ![c] = k]
      /\ UNCHANGED <<table, pendingNetworks_, object, value_, saves, networksOnDisk, coreUp,
                     coreRestarts>>
  BY DEF Net!logout, Net!storeVars
<1>2. table[n] \in Object
  BY <1>0, <1>1 DEF NetworksType
<1>3. k \in CallRecord /\ k.stage = "leave" /\ k.net = n /\ k.obj \in Object
  BY <1>2 DEF CallRecord, Net!Stage
<1> HIDE DEF k
<1>4. /\ call' \in [Call -> CallRecord] /\ call'[c] = k
      /\ \A d \in Call : d # c => call'[d] = call[d]
  BY <1>0, <1>1, <1>3 DEF NetworksType
<1>5. CallsKnown'
  BY <1>0, <1>1, <1>3, <1>4 DEF CallsKnown, Under
<1>6. PendingKnown'
  <2> SUFFICES ASSUME NEW m \in Network, pendingNetworks_[m] # None
               PROVE  \E d \in Call : call'[d].obj = pendingNetworks_[m] /\ Under(call'[d])
    BY <1>0, <1>1 DEF PendingKnown, Under
  <2>1. PICK d \in Call : call[d].obj = pendingNetworks_[m] /\ Under(call[d])
    BY <1>0 DEF PendingKnown
  <2>2. call'[d] = call[d]
    BY <2>1, <1>1, <1>4 DEF Under
  <2> QED
    BY <2>1, <2>2
<1> QED
  BY <1>0, <1>1, <1>4, <1>5, <1>6
     DEF NetworksInv, NetworksType, NothingYet, TableKnown

LEMMA RestartKeeps == ASSUME NetworksInv, Net!Restart PROVE NetworksInv'
<1>0. NetworksType
  BY DEF NetworksInv
<1>1. /\ table' = [n \in Network |-> None] /\ pendingNetworks_' = [n \in Network |-> None]
      /\ object' = [o \in Object |-> Net!NewObject] /\ call' = [c \in Call |-> Net!NoCall]
      /\ networksOnDisk' \in {networksOnDisk} \cup Net!Range(saves)
      /\ value_' = networksOnDisk' /\ saves' = <<>> /\ coreUp' = FALSE
      /\ coreRestarts < MaxRestarts /\ coreRestarts' = coreRestarts + 1
  BY NoNetworks DEF Net!Restart
<1>2. networksOnDisk' \in SUBSET Network
  <2>1. saves \in Seq(SUBSET Network) /\ networksOnDisk \in SUBSET Network
    BY <1>0 DEF NetworksType
  <2>2. \A S \in Net!Range(saves) : S \in SUBSET Network
    BY <2>1 DEF Net!Range
  <2> QED
    BY <1>1, <2>1, <2>2
<1>3. coreRestarts' \in 0..MaxRestarts
  BY <1>0, <1>1, BoundsAssumption DEF NetworksType
<1>4. <<>> \in Seq(SUBSET Network)
  OBVIOUS
<1>5. object' \in [Object -> FreedomNetwork] /\ call' \in [Call -> CallRecord]
  BY <1>1, NoNetworks
<1>6. saves' \in Seq(SUBSET Network)
  BY <1>1, <1>4
<1>7. NetworksType'
  BY <1>1, <1>2, <1>3, <1>5, <1>6 DEF NetworksType
<1> QED
  BY <1>1, <1>7, NoNetworks DEF NetworksInv, CallsKnown, PendingKnown, TableKnown, NothingYet, Under

LEMMA NetworksStep == NetworksInv /\ [Net!Next]_(Net!vars) => NetworksInv'
<1> SUFFICES ASSUME NetworksInv, [Net!Next]_(Net!vars) PROVE NetworksInv'
  OBVIOUS
<1>1. ASSUME NEW c \in Call, Net!ProviderRejects(c) PROVE NetworksInv'
  BY <1>1, RejectsKeeps DEF Net!ProviderRejects, Net!storeVars, Under
<1>2. ASSUME NEW o \in Object, Net!Leaves(o) PROVE NetworksInv'
  BY <1>2, LeftKeeps DEF Net!Leaves, Net!storeVars
<1>3. ASSUME NEW o \in Object, Net!handleClientState(o) PROVE NetworksInv'
  BY <1>3, LeftKeeps DEF Net!handleClientState, Net!storeVars
<1>4. CASE UNCHANGED Net!vars
  BY <1>4 DEF Net!vars, Net!storeVars, NetworksInv, NetworksType, CallsKnown, PendingKnown,
              TableKnown, NothingYet, Under
<1> QED
  BY <1>1, <1>2, <1>3, <1>4, GetKeeps, SavedKeeps, LoginKeeps, ReconnectKeeps, LogsInKeeps,
     PreparedKeeps, LogsOutKeeps, LogoutKeeps, RestartKeeps DEF Net!Next

(* A login that others may join is under way, so that none waits for ever, and *)
(* a network is monitored while it is online, however often it was logged in   *)
(* to and out of (uproxy_core.ts:130-160, social.ts:793).                      *)
THEOREM NetworksAreTended == Spec => []NetworksTended
<1> DEFINE Inv == part = "networks" => NetworksInv
<1>1. Init => Inv
  BY NetworksInit DEF Init
<1>2. Inv /\ [Next]_vars => Inv'
  BY NetworksStep DEF Next, vars, Net!vars, Net!storeVars
<1>3. Inv => NetworksTended
  <2> SUFFICES ASSUME NetworksInv PROVE Net!TypeOK /\ Net!PendingIsTried /\ Net!OnlineIsMonitored
    BY DEF NetworksTended
  <2>1. Net!TypeOK
    BY NetworksTyped DEF NetworksInv
  <2>2. Net!PendingIsTried
    BY DEF NetworksInv, PendingKnown, Net!PendingIsTried, Under
  <2>3. Net!OnlineIsMonitored
    BY DEF NetworksInv, TableKnown, Net!OnlineIsMonitored
  <2> QED
    BY <2>1, <2>2, <2>3
<1> QED
  BY <1>1, <1>2, <1>3, PTL DEF Spec

HIDE DEF table, pendingNetworks_, object, call, leaving, value_, saves, networksOnDisk, coreUp,
         coreRestarts
-----------------------------------------------------------------------------
(* Roster.  The arrays of a tab hold an object in its category or not at all,  *)
(* and hold only those of the contacts of this login that the tab is for; an   *)
(* object is missing from them only if its contact was removed.                *)
online == v1
logins == v2
roster == v3
consent_ == v4
offering == v5
status == v6
listed == v7
mapInstanceIdToUser_ == v8
instancesGivingAccessTo == v9
isGettingFromMe == v10
removed == v11
USE DEF online, logins, roster, consent_, offering, status, listed, mapInstanceIdToUser_,
        instancesGivingAccessTo, isGettingFromMe, removed

RosterType ==
  /\ online \in BOOLEAN /\ logins \in 0..MaxLogins
  /\ roster \subseteq Contact /\ (~online => roster = {}) /\ (online => logins >= 1)
  /\ consent_ \in [Contact -> Lists!Consents] /\ offering \in [Contact -> BOOLEAN]
  /\ status \in [Contact -> {"FRIEND", "CLOUD_INSTANCE_SHARED_WITH_LOCAL"}]
  /\ listed \in [Lists!Tab -> [Lists!UserObject -> [Lists!Category -> {0, 1}]]]
  /\ mapInstanceIdToUser_ \in [Contact -> 0..MaxLogins]
  /\ instancesGivingAccessTo \subseteq Contact /\ isGettingFromMe \subseteq Lists!UserObject
  /\ removed \subseteq Contact

(* Where an object is of which x says how often each array holds it. *)
At(x, category) == \A k \in Lists!Category : x[k] = IF k = category THEN 1 ELSE 0

(* The tabs for a contact of status s. *)
TabsOf(s) == IF s = "FRIEND" THEN Lists!Tab ELSE {"get"}

Places ==
  \A t \in Lists!Tab, o \in Lists!UserObject :
    \/ At(listed[t][o], "none")
    \/ /\ online /\ o[2] = logins /\ o[1] \in roster /\ t \in TabsOf(status[o[1]])
       /\ At(listed[t][o], Lists!getCategories(o[1])[t])

NoneMissing ==
  \A c \in roster \ removed : \A t \in TabsOf(status[c]) :
    At(listed[t][Lists!This(c)], Lists!getCategories(c)[t])

RosterInv == RosterType /\ Places /\ NoneMissing

LEMMA CategoriesAre ==
  ASSUME NEW b_ \in Lists!Consents, NEW offers \in BOOLEAN
  PROVE  Lists!getTab(b_, offers) \in Lists!Category /\ Lists!shareTab(b_) \in Lists!Category
BY DEF Lists!getTab, Lists!shareTab, Lists!Category

LEMMA CategoryOf ==
  ASSUME RosterType, NEW c \in Contact, NEW t \in Lists!Tab
  PROVE  Lists!getCategories(c)[t] \in Lists!Category
BY CategoriesAre DEF RosterType, Lists!getCategories, Lists!Tab

(* An object that was where it was thought to be is where it should be next,   *)
(* and one that was nowhere is there, too, if that is another place.           *)
LEMMA Categorized ==
  ASSUME NEW x, NEW old \in Lists!Category \cup {"none"}, NEW new \in Lists!Category \cup {"none"}
  PROVE  LET y == Lists!categorizeUser(x, old, new) IN
         /\ At(x, old) => At(y, new)
         /\ At(x, "none") => At(y, IF old = new THEN "none" ELSE new)
         /\ At(x, "none") \/ At(x, old) => y \in [Lists!Category -> {0, 1}]
<1> DEFINE y == Lists!categorizeUser(x, old, new)
<1>0. "none" \notin Lists!Category
  BY DEF Lists!Category
<1>1. y = [k \in Lists!Category |->
             IF old = new THEN x[k]
             ELSE IF k = new THEN x[k] + 1
             ELSE IF k = old /\ x[k] > 0 THEN x[k] - 1
             ELSE x[k]]
  BY DEF Lists!categorizeUser
<1> HIDE DEF y
<1>2. At(x, old) => At(y, new)
  BY <1>0, <1>1 DEF At
<1>3. At(x, "none") => At(y, IF old = new THEN "none" ELSE new)
  BY <1>0, <1>1 DEF At
<1>4. \A cat : At(y, cat) => y \in [Lists!Category -> {0, 1}]
  BY <1>1 DEF At
<1> QED
  BY <1>2, <1>3, <1>4 DEF y

LEMMA RosterInit == Lists!Init => RosterInv
<1> SUFFICES ASSUME Lists!Init PROVE RosterInv
  OBVIOUS
<1>1. /\ listed = [t \in Lists!Tab |-> [o \in Lists!UserObject |-> [k \in Lists!Category |-> 0]]]
      /\ consent_ = [c \in Contact |-> {}] /\ roster = {}
  BY DEF Lists!Init
<1>2. {} \in Lists!Consents
  BY DEF Lists!Consents
<1>3. RosterType
  <2>1. [k \in Lists!Category |-> 0] \in [Lists!Category -> {0, 1}]
    OBVIOUS
  <2>2. listed \in [Lists!Tab -> [Lists!UserObject -> [Lists!Category -> {0, 1}]]]
    BY <1>1, <2>1
  <2>3. consent_ \in [Contact -> Lists!Consents]
    BY <1>1, <1>2
  <2>4. /\ online = FALSE /\ logins = 0 /\ offering \in [Contact -> BOOLEAN]
        /\ status \in [Contact -> {"FRIEND", "CLOUD_INSTANCE_SHARED_WITH_LOCAL"}]
        /\ mapInstanceIdToUser_ = [c \in Contact |-> 0]
        /\ instancesGivingAccessTo = {} /\ isGettingFromMe = {} /\ removed = {}
    BY DEF Lists!Init
  <2>5. 0 \in 0..MaxLogins /\ mapInstanceIdToUser_ \in [Contact -> 0..MaxLogins]
    BY <2>4, NetworksAssumption
  <2> QED
    BY <1>1, <2>2, <2>3, <2>4, <2>5 DEF RosterType
<1>4. Places
  BY <1>1 DEF Places, At, Lists!Category
<1> QED
  BY <1>1, <1>3, <1>4 DEF RosterInv, NoneMissing

(* When contacts leave the arrays they are nowhere, and the others stay. *)
LEMMA Unlisted ==
  ASSUME RosterInv, online, NEW cs, cs \subseteq roster, Lists!Unlist(cs)
  PROVE  /\ listed' \in [Lists!Tab -> [Lists!UserObject -> [Lists!Category -> {0, 1}]]]
         /\ \A t \in Lists!Tab, o \in Lists!UserObject :
              IF o[2] = logins /\ o[1] \in cs THEN At(listed'[t][o], "none")
              ELSE listed'[t][o] = listed[t][o]
<1>0. RosterType /\ Places
  BY DEF RosterInv
<1> DEFINE Goes(o) == \E c \in cs : o = Lists!This(c)
           y(t, o) == Lists!categorizeUser(listed[t][o], Lists!getCategories(o[1])[t], "none")
<1>1. listed' = [t \in Lists!Tab |-> [o \in Lists!UserObject |->
                   IF Goes(o) THEN y(t, o) ELSE listed[t][o]]]
  BY DEF Lists!Unlist, Lists!Nowhere
<1>2. \A o \in Lists!UserObject : Goes(o) <=> o[2] = logins /\ o[1] \in cs
  BY DEF Lists!This, Lists!UserObject
<1>3. ASSUME NEW t \in Lists!Tab, NEW o \in Lists!UserObject, o[1] \in cs
      PROVE  At(y(t, o), "none") /\ y(t, o) \in [Lists!Category -> {0, 1}]
  <2> DEFINE x == listed[t][o]
             old == Lists!getCategories(o[1])[t]
  <2>1. old \in Lists!Category
    BY <1>0, <1>3, CategoryOf DEF RosterType
  <2>2. At(x, "none") \/ At(x, old)
    BY <1>0 DEF Places
  <2> HIDE DEF x, old
  <2>3. LET z == Lists!categorizeUser(x, old, "none") IN
        /\ At(x, old) => At(z, "none")
        /\ At(x, "none") => At(z, IF old = "none" THEN "none" ELSE "none")
        /\ At(x, "none") \/ At(x, old) => z \in [Lists!Category -> {0, 1}]
    BY <2>1, Categorized
  <2> QED
    BY <2>2, <2>3 DEF x, old
<1> HIDE DEF y, Goes
<1>4. ASSUME NEW t \in Lists!Tab, NEW o \in Lists!UserObject
      PROVE  /\ listed'[t][o] \in [Lists!Category -> {0, 1}]
             /\ IF o[2] = logins /\ o[1] \in cs THEN At(listed'[t][o], "none")
                ELSE listed'[t][o] = listed[t][o]
  <2>1. listed'[t][o] = IF Goes(o) THEN y(t, o) ELSE listed[t][o]
    BY <1>1
  <2>2. listed[t][o] \in [Lists!Category -> {0, 1}]
    BY <1>0 DEF RosterType
  <2> QED
    BY <1>2, <1>3, <2>1, <2>2
<1>5. listed' \in [Lists!Tab -> [Lists!UserObject -> [Lists!Category -> {0, 1}]]]
  BY <1>1, <1>4
<1> QED
  BY <1>4, <1>5

LEMMA OfflineKeeps == ASSUME RosterInv, Lists!syncNetwork_offline PROVE RosterInv'
<1>0. RosterType /\ Places /\ NoneMissing
  BY DEF RosterInv
<1>1. /\ online /\ Lists!Unlist(roster) /\ online' = FALSE /\ roster' = {}
      /\ consent_' = [c \in Contact |-> {}] /\ offering' = [c \in Contact |-> FALSE]
      /\ UNCHANGED <<logins, status, mapInstanceIdToUser_, instancesGivingAccessTo,
                     isGettingFromMe, removed>>
  BY DEF Lists!syncNetwork_offline
<1>2. /\ listed' \in [Lists!Tab -> [Lists!UserObject -> [Lists!Category -> {0, 1}]]]
      /\ \A t \in Lists!Tab, o \in Lists!UserObject :
           IF o[2] = logins /\ o[1] \in roster THEN At(listed'[t][o], "none")
           ELSE listed'[t][o] = listed[t][o]
  BY <1>1, Unlisted
<1>3. {} \in Lists!Consents
  BY DEF Lists!Consents
<1>4. RosterType'
  BY <1>0, <1>1, <1>2, <1>3 DEF RosterType
<1>5. \A t \in Lists!Tab, o \in Lists!UserObject : At(listed'[t][o], "none")
  BY <1>0, <1>2 DEF Places
<1>6. Places'
  BY <1>5 DEF Places
<1>7. NoneMissing'
  BY <1>1 DEF NoneMissing
<1> QED
  BY <1>4, <1>6, <1>7 DEF RosterInv

LEMMA RemoveKeeps ==
  ASSUME RosterInv, NEW c \in Contact, Lists!removeFriend(c) PROVE RosterInv'
<1>0. RosterType /\ Places /\ NoneMissing
  BY DEF RosterInv
<1>1. /\ c \in roster \ removed /\ Lists!Unlist({c}) /\ removed' = removed \cup {c}
      /\ UNCHANGED <<online, logins, roster, consent_, offering, status, mapInstanceIdToUser_,
                     instancesGivingAccessTo, isGettingFromMe>>
  BY DEF Lists!removeFriend
<1>2. online
  BY <1>0, <1>1 DEF RosterType
<1> DEFINE cs == {c}
<1>3. cs \subseteq roster /\ Lists!Unlist(cs)
  BY <1>1
<1> HIDE DEF cs
<1>4. /\ listed' \in [Lists!Tab -> [Lists!UserObject -> [Lists!Category -> {0, 1}]]]
      /\ \A t \in Lists!Tab, o \in Lists!UserObject :
           IF o[2] = logins /\ o[1] \in cs THEN At(listed'[t][o], "none")
           ELSE listed'[t][o] = listed[t][o]
  BY <1>2, <1>3, Unlisted
<1>5. RosterType'
  BY <1>0, <1>1, <1>4 DEF RosterType
<1>6. \A d : Lists!getCategories(d)' = Lists!getCategories(d) /\ Lists!This(d)' = Lists!This(d)
  BY <1>1 DEF Lists!getCategories, Lists!This
<1>7. Places'
  BY <1>0, <1>1, <1>4, <1>6 DEF Places, cs
<1>8. NoneMissing'
  <2> SUFFICES ASSUME NEW d \in roster \ removed, d # c, NEW t \in TabsOf(status[d])
               PROVE  listed'[t][Lists!This(d)] = listed[t][Lists!This(d)]
    BY <1>0, <1>1, <1>6 DEF NoneMissing
  <2>1. t \in Lists!Tab
    BY DEF TabsOf, Lists!Tab
  <2>2. Lists!This(d) \in Lists!UserObject /\ Lists!This(d)[1] = d
    BY <1>0, <1>2, NetworksAssumption DEF RosterType, Lists!This, Lists!UserObject
  <2> QED
    BY <1>4, <2>1, <2>2 DEF cs
<1> QED
  BY <1>5, <1>7, <1>8 DEF RosterInv

LEMMA SyncKeeps ==
  ASSUME RosterInv, NEW c \in Contact, NEW b_ \in Lists!Consents, NEW offers \in BOOLEAN,
         NEW sharing \in BOOLEAN, Lists!syncUser(c, b_, offers, sharing)
  PROVE  RosterInv'
<1> DEFINE known == c \in roster
           old == IF known THEN Lists!getCategories(c) ELSE [t \in Lists!Tab |-> "none"]
           new == [get |-> Lists!getTab(b_, offers), share |-> Lists!shareTab(b_)]
           tabs == TabsOf(status[c])
           o == Lists!This(c)
           y(t) == Lists!categorizeUser(listed[t][o], old[t], new[t])
<1>0. RosterType /\ Places /\ NoneMissing
  BY DEF RosterInv
<1>1. /\ online /\ roster' = roster \cup {c} /\ consent_' = [consent_ EXCEPT ![c] = b_]
      /\ offering' = [offering EXCEPT ![c] = offers]
      /\ mapInstanceIdToUser_' = [mapInstanceIdToUser_ EXCEPT ![c] = logins]
      /\ UNCHANGED <<online, logins, status, removed>>
  BY DEF Lists!syncUser
<1>2. listed' = [t \in Lists!Tab |->
                   IF t \in tabs THEN [listed[t] EXCEPT ![o] = y(t)] ELSE listed[t]]
  BY DEF Lists!syncUser, Lists!Nowhere, TabsOf
<1>3. o \in Lists!UserObject /\ o[1] = c /\ o[2] = logins
      /\ \A x \in Lists!UserObject : x # o => x[1] # c \/ x[2] # logins
  BY <1>0, <1>1, NetworksAssumption DEF RosterType, Lists!This, Lists!UserObject
<1>4. tabs \subseteq Lists!Tab
  BY DEF TabsOf, Lists!Tab
<1>5. \A t \in Lists!Tab : old[t] \in Lists!Category \cup {"none"} /\ new[t] \in Lists!Category
  BY <1>0, CategoryOf, CategoriesAre DEF Lists!Tab
<1>6. "none" \notin Lists!Category
  BY DEF Lists!Category
<1>7. \A t \in tabs : At(listed[t][o], "none") \/ At(listed[t][o], old[t])
  BY <1>0, <1>3, <1>4 DEF Places
<1>8. \A t \in tabs : c \in roster \ removed => At(listed[t][o], old[t])
  BY <1>0 DEF NoneMissing
<1> HIDE DEF old, new, tabs, o
<1>9. ASSUME NEW t \in tabs
      PROVE  /\ y(t) \in [Lists!Category -> {0, 1}]
             /\ At(y(t), "none") \/ At(y(t), new[t])
             /\ c \notin removed => At(y(t), new[t])
  <2> DEFINE x == listed[t][o]
             from == old[t]
             to == new[t]
  <2>1. from \in Lists!Category \cup {"none"} /\ to \in Lists!Category \cup {"none"}
    BY <1>4, <1>5
  <2>2. At(x, "none") \/ At(x, from)
    BY <1>7
  <2>3. c \notin removed => At(x, from) \/ from # to
    BY <1>4, <1>5, <1>6, <1>8 DEF old
  <2> HIDE DEF x, from, to
  <2>4. LET z == Lists!categorizeUser(x, from, to) IN
        /\ At(x, from) => At(z, to)
        /\ At(x, "none") => At(z, IF from = to THEN "none" ELSE to)
        /\ At(x, "none") \/ At(x, from) => z \in [Lists!Category -> {0, 1}]
    BY <2>1, Categorized
  <2> QED
    BY <2>2, <2>3, <2>4 DEF x, from, to
<1> HIDE DEF y
<1>10. ASSUME NEW t \in Lists!Tab, NEW x \in Lists!UserObject
       PROVE  listed'[t][x] = IF t \in tabs /\ x = o THEN y(t) ELSE listed[t][x]
  BY <1>0, <1>2, <1>3 DEF RosterType
<1>11. listed' \in [Lists!Tab -> [Lists!UserObject -> [Lists!Category -> {0, 1}]]]
  <2>1. ASSUME NEW t \in Lists!Tab
        PROVE  listed'[t] \in [Lists!UserObject -> [Lists!Category -> {0, 1}]]
    <3>1. listed[t] \in [Lists!UserObject -> [Lists!Category -> {0, 1}]]
      BY <1>0 DEF RosterType
    <3>2. CASE t \in tabs
      <4>1. y(t) \in [Lists!Category -> {0, 1}] /\ listed'[t] = [listed[t] EXCEPT ![o] = y(t)]
        BY <3>2, <1>2, <1>9
      <4> QED
        BY <3>1, <4>1
    <3>3. CASE t \notin tabs
      BY <3>1, <3>3, <1>2
    <3> QED
      BY <3>2, <3>3
  <2> QED
    BY <1>2, <2>1
<1>12. RosterType'
  <2>1. instancesGivingAccessTo' \subseteq Contact /\ isGettingFromMe' \subseteq Lists!UserObject
    BY <1>0, <1>3 DEF RosterType, Lists!syncUser, o
  <2>2. /\ consent_' \in [Contact -> Lists!Consents] /\ offering' \in [Contact -> BOOLEAN]
        /\ mapInstanceIdToUser_' \in [Contact -> 0..MaxLogins]
    BY <1>0, <1>1 DEF RosterType
  <2> QED
    BY <1>0, <1>1, <1>11, <2>1, <2>2 DEF RosterType
<1>13. /\ \A d \in Contact : d # c => Lists!getCategories(d)' = Lists!getCategories(d)
       /\ Lists!getCategories(c)' = new
       /\ \A d : Lists!This(d)' = Lists!This(d)
  <2>1. /\ \A d \in Contact : d # c => consent_'[d] = consent_[d] /\ offering'[d] = offering[d]
        /\ consent_'[c] = b_ /\ offering'[c] = offers
    BY <1>0, <1>1 DEF RosterType
  <2> QED
    BY <1>1, <2>1 DEF Lists!getCategories, Lists!This, new
<1>14. Places'
  <2> SUFFICES ASSUME NEW t \in Lists!Tab, NEW x \in Lists!UserObject
               PROVE  \/ At(listed'[t][x], "none")
                      \/ /\ online' /\ x[2] = logins' /\ x[1] \in roster'
                         /\ t \in TabsOf(status'[x[1]])
                         /\ At(listed'[t][x], Lists!getCategories(x[1])'[t])
    BY DEF Places, At
  <2>1. CASE t \in tabs /\ x = o
    <3>1. listed'[t][x] = y(t)
      BY <2>1, <1>10
    <3>2. t \in TabsOf(status'[x[1]]) /\ x[1] = c /\ x[2] = logins
      BY <2>1, <1>1, <1>3 DEF tabs
    <3> QED
      BY <2>1, <3>1, <3>2, <1>1, <1>9, <1>13
  <2>2. CASE ~(t \in tabs /\ x = o)
    <3>1. listed'[t][x] = listed[t][x] /\ x[1] \in Contact
      BY <2>2, <1>10 DEF Lists!UserObject
    <3>2. CASE At(listed[t][x], "none")
      BY <3>1, <3>2
    <3>3. CASE /\ online /\ x[2] = logins /\ x[1] \in roster /\ t \in TabsOf(status[x[1]])
               /\ At(listed[t][x], Lists!getCategories(x[1])[t])
      <4>1. x[1] # c
        BY <2>2, <3>3, <1>3 DEF tabs
      <4> QED
        BY <3>1, <3>3, <4>1, <1>1, <1>13
    <3> QED
      BY <1>0, <3>2, <3>3 DEF Places
  <2> QED
    BY <2>1, <2>2
<1>15. NoneMissing'
  <2> SUFFICES ASSUME NEW d \in roster' \ removed, NEW t \in TabsOf(status[d])
               PROVE  At(listed'[t][Lists!This(d)], Lists!getCategories(d)'[t])
    BY <1>1, <1>13 DEF NoneMissing, At
  <2>1. t \in Lists!Tab
    BY DEF TabsOf, Lists!Tab
  <2>2. CASE d = c
    BY <2>1, <2>2, <1>3, <1>9, <1>10, <1>13 DEF tabs, o
  <2>3. CASE d # c
    <3>1. d \in roster \ removed /\ d \in Contact
      BY <2>3, <1>0, <1>1 DEF RosterType
    <3>2. Lists!This(d) \in Lists!UserObject /\ Lists!This(d)[1] = d
      BY <3>1, <1>0, <1>1, NetworksAssumption DEF RosterType, Lists!This, Lists!UserObject
    <3>3. Lists!This(d) # o
      BY <2>3, <3>2, <1>3
    <3>4. At(listed[t][Lists!This(d)], Lists!getCategories(d)[t])
      BY <1>0, <3>1 DEF NoneMissing
    <3> QED
      BY <2>1, <2>3, <3>1, <3>2, <3>3, <3>4, <1>10, <1>13
  <2> QED
    BY <2>2, <2>3
<1> QED
  BY <1>12, <1>14, <1>15 DEF RosterInv

LEMMA RosterStep == RosterInv /\ [Lists!Next]_(Lists!vars) => RosterInv'
<1> SUFFICES ASSUME RosterInv, [Lists!Next]_(Lists!vars) PROVE RosterInv'
  OBVIOUS
<1>0. RosterType /\ Places /\ NoneMissing
  BY DEF RosterInv
<1>1. CASE UNCHANGED Lists!vars
  BY <1>0, <1>1 DEF RosterInv, RosterType, Places, NoneMissing, At, Lists!vars,
     Lists!getCategories, Lists!This
<1>2. CASE Lists!syncNetwork_online
  <2>1. /\ ~online /\ logins < MaxLogins /\ online' = TRUE /\ logins' = logins + 1
        /\ removed' = {} /\ roster = {}
        /\ UNCHANGED <<roster, consent_, offering, status, listed, mapInstanceIdToUser_,
                       instancesGivingAccessTo, isGettingFromMe>>
    BY <1>0, <1>2 DEF Lists!syncNetwork_online, RosterType
  <2>2. RosterType'
    BY <1>0, <2>1, NetworksAssumption DEF RosterType
  <2>3. Places' /\ NoneMissing'
    BY <1>0, <2>1 DEF Places, NoneMissing, At
  <2> QED
    BY <2>2, <2>3 DEF RosterInv
<1>3. CASE Lists!syncNetwork_offline
  BY <1>3, OfflineKeeps
<1>4. ASSUME NEW c \in Contact, NEW b_ \in Lists!Consents, NEW offers \in BOOLEAN,
             NEW sharing \in BOOLEAN, Lists!syncUser(c, b_, offers, sharing)
      PROVE  RosterInv'
  BY <1>4, SyncKeeps
<1>5. ASSUME NEW c \in Contact, Lists!removeFriend(c) PROVE RosterInv'
  BY <1>5, RemoveKeeps
<1>6. ASSUME NEW c \in Contact, Lists!StartGiving(c) \/ Lists!StopGiving(c) PROVE RosterInv'
  <2>1. UNCHANGED <<online, logins, roster, consent_, offering, status, listed,
                    mapInstanceIdToUser_, removed>>
    BY <1>6 DEF Lists!StartGiving, Lists!StopGiving
  <2>2. <<c, mapInstanceIdToUser_[c]>> \in Lists!UserObject \/ mapInstanceIdToUser_[c] = 0
    BY <1>0, NetworksAssumption DEF RosterType, Lists!UserObject
  <2>3. instancesGivingAccessTo' \subseteq Contact /\ isGettingFromMe' \subseteq Lists!UserObject
    BY <1>0, <1>6, <2>2 DEF Lists!StartGiving, Lists!StopGiving, RosterType
  <2>4. RosterType'
    BY <1>0, <2>1, <2>3 DEF RosterType
  <2>5. Places' /\ NoneMissing'
    BY <1>0, <2>1 DEF Places, NoneMissing, At, Lists!getCategories, Lists!This
  <2> QED
    BY <2>4, <2>5 DEF RosterInv
<1> QED
  BY <1>1, <1>2, <1>3, <1>4, <1>5, <1>6 DEF Lists!Next

LEMMA RosterHolds == RosterInv => Lists!TypeOK /\ Lists!ListedOnce
<1> SUFFICES ASSUME RosterInv PROVE Lists!TypeOK /\ Lists!ListedOnce
  OBVIOUS
<1>0. RosterType /\ Places /\ NoneMissing
  BY DEF RosterInv
<1>1. Lists!TypeOK
  <2>1. \A t \in Lists!Tab, o \in Lists!UserObject :
          listed[t][o] \in [Lists!Category -> {0, 1}]
    BY <1>0 DEF RosterType
  <2>2. \A t \in Lists!Tab, o \in Lists!UserObject : listed[t][o] \in [Lists!Category -> 0..2]
    BY <2>1
  <2>3. listed \in [Lists!Tab -> [Lists!UserObject -> [Lists!Category -> 0..2]]]
    BY <1>0, <2>2 DEF RosterType
  <2> QED
    BY <1>0, <2>3 DEF Lists!TypeOK, RosterType
<1>2. ASSUME NEW c \in roster \ removed
      PROVE  Lists!InPlace(c, "get") /\ (status[c] = "FRIEND" => Lists!InPlace(c, "share"))
  BY <1>0 DEF NoneMissing, At, TabsOf, Lists!Tab, Lists!InPlace
<1>3. ASSUME NEW t \in Lists!Tab, NEW o \in Lists!UserObject, NEW k \in Lists!Category,
             listed[t][o][k] > 0
      PROVE  online /\ o[2] = logins /\ o[1] \in roster
  BY <1>0, <1>3 DEF Places, At, Lists!Category
<1> QED
  BY <1>1, <1>2, <1>3 DEF Lists!ListedOnce

HIDE DEF online, logins, roster, consent_, offering, status, listed, mapInstanceIdToUser_,
         instancesGivingAccessTo, isGettingFromMe, removed
-----------------------------------------------------------------------------
(* Contacts.  A token comes only from a client that was told of the local      *)
(* instance, so the contact is loaded by then, and it comes after the client   *)
(* has announced its instance, so what the token gives is stored.  Until the   *)
(* contact is restored there is no grant that storage could take away, and     *)
(* once it is, no grant is in memory that was not written.                     *)
user == v1
reads == v2
due == v3
wire == v4
news == v5
contactOnDisk == v6
exchanged == v7
theirs == v8
up == v9
toldClients == v10
toUs == v11
contactRestarts == v12
lasting == v13
USE DEF user, reads, due, wire, news, contactOnDisk, exchanged, theirs, up, toldClients, toUs,
        contactRestarts, lasting

Known == BOOLEAN \cup {None}
StoredUser == [consent : Friend!Consent, instances : SUBSET Instance]
ContactStore == [user : StoredUser \cup {None}, wire : [Instance -> Known]]
LastingStore ==
  [user : StoredUser \cup {None}, wire : [Instance -> Known], exchanged : BOOLEAN]
Work == [user : Friend!UserObject, told : [Client -> Known], disk : StoredUser \cup {None}]
ReadRecord ==
  [of : {"user"}, value : StoredUser \cup {None}] \cup [of : Instance, value : Known]
FromFriend == [type : {"instance"}, requests : BOOLEAN] \cup [type : {"request", "token"}]

Withdraw == [op |-> "modify", grants |-> FALSE]

(* A contact in storage has instances, and no grant that was not written.      *)
StoreAhead(u_, d) ==
  d # None => /\ u_.instances # {} /\ d.instances # {}
              /\ u_.consent.grants => d.consent.grants

(* Nothing of the object changed but the local grant. *)
SameButGrant(u_, v_) ==
  /\ v_.loaded = u_.loaded /\ v_.instances = u_.instances /\ v_.online = u_.online
  /\ v_.clientToInstance = u_.clientToInstance /\ v_.instanceToClient = u_.instanceToClient
  /\ v_.consent.remoteRequests = u_.consent.remoteRequests

-----------------------------------------------------------------------------
(* What is done in turn, starting in G with steps that stay in G, stays in G,  *)
(* and ends with the last of the operations.                                   *)
LEMMA DoneInTurn ==
  ASSUME NEW G, NEW w \in G, NEW ops, Len(ops) \in Nat,
         \A x \in G, k \in 1..Len(ops) : Friend!Do(x, ops[k]) \in G
  PROVE  /\ Friend!DoAll(w, ops) \in G
         /\ Len(ops) > 0 => \E x \in G : Friend!DoAll(w, ops) = Friend!Do(x, ops[Len(ops)])
<1> DEFINE N == Len(ops)
           Is(f, n) == f = [k \in 0..n |-> IF k = 0 THEN w ELSE Friend!Do(f[k - 1], ops[k])]
<1>1. ASSUME NEW n \in Nat, \A m \in Nat : m < n => \E f : Is(f, m)
      PROVE  \E f : Is(f, n)
  <2>1. CASE n = 0
    <3> DEFINE f == [k \in 0..0 |-> w]
    <3>1. Is(f, 0)
      OBVIOUS
    <3> QED
      BY <2>1, <3>1
  <2>2. CASE n # 0
    <3>1. n - 1 \in Nat /\ n - 1 < n
      BY <2>2
    <3>2. PICK f : Is(f, n - 1)
      BY <1>1, <3>1
    <3> DEFINE g == [k \in 0..n |-> IF k = n THEN Friend!Do(f[n - 1], ops[n]) ELSE f[k]]
               h == [k \in 0..n |-> IF k = 0 THEN w ELSE Friend!Do(g[k - 1], ops[k])]
    <3>3. ASSUME NEW k \in 0..n PROVE g[k] = h[k]
      <4>1. CASE k = 0
        <5>1. 0 \in 0..n - 1 /\ k # n
          BY <2>2, <4>1
        <5>2. f[0] = w
          BY <3>2, <5>1
        <5> QED
          BY <4>1, <5>1, <5>2
      <4>2. CASE k # 0 /\ k # n
        <5>1. k \in 0..n - 1 /\ k - 1 \in 0..n /\ k - 1 # n
          BY <4>2
        <5>2. f[k] = Friend!Do(f[k - 1], ops[k])
          BY <3>2, <4>2, <5>1
        <5>3. g[k] = f[k] /\ g[k - 1] = f[k - 1]
          BY <4>2, <5>1
        <5>4. h[k] = Friend!Do(g[k - 1], ops[k])
          BY <4>2
        <5> QED
          BY <5>2, <5>3, <5>4
      <4>3. CASE k = n /\ k # 0
        <5>1. k - 1 \in 0..n /\ k - 1 # n
          BY <4>3
        <5>2. g[k - 1] = f[k - 1]
          BY <5>1
        <5>3. h[k] = Friend!Do(g[k - 1], ops[k]) /\ g[k] = Friend!Do(f[n - 1], ops[n])
          BY <4>3
        <5> QED
          BY <4>3, <5>2, <5>3
      <4> QED
        BY <4>1, <4>2, <4>3
    <3>4. g = h
      BY <3>3
    <3>5. Is(g, n)
      BY <3>4
    <3> QED
      BY <3>5
  <2> QED
    BY <2>1, <2>2
<1> DEFINE Without == {n \in Nat : ~\E f : Is(f, n)}
<1>2. Without = {}
  <2> SUFFICES ASSUME Without # {} PROVE FALSE
    OBVIOUS
  <2>1. \E n \in Without : \A m \in Without : n <= m
    <3>1. Without \subseteq Nat
      OBVIOUS
    <3> HIDE DEF Without
    <3> QED
      BY <3>1, Least
  <2>2. PICK n \in Without : \A m \in Without : n <= m
    BY <2>1
  <2>3. n \in Nat /\ ~\E f : Is(f, n)
    OBVIOUS
  <2>4. ASSUME NEW m \in Nat, m < n PROVE \E f : Is(f, m)
    <3>1. m \notin Without
      BY <2>2, <2>3, <2>4
    <3> QED
      BY <3>1
  <2> HIDE DEF Is, Without
  <2> QED
    BY <1>1, <2>3, <2>4
<1> DEFINE done == CHOOSE f : Is(f, N)
<1>3. Is(done, N)
  <2>1. \E f : Is(f, N)
    BY <1>2
  <2> HIDE DEF Is
  <2> QED
    BY <2>1
<1>4. Friend!DoAll(w, ops) = done[N]
  BY DEF Friend!DoAll
<1> HIDE DEF done
<1>5. done[0] = w /\ \A k \in 1..N : done[k] = Friend!Do(done[k - 1], ops[k])
  <2> HIDE DEF N
  <2>1. N \in Nat
    BY DEF N
  <2>2. 0 \in 0..N /\ done[0] = w
    BY <1>3, <2>1
  <2>3. ASSUME NEW k \in 1..N PROVE done[k] = Friend!Do(done[k - 1], ops[k])
    <3>1. k \in 0..N /\ k # 0
      BY <2>1
    <3> QED
      BY <1>3, <3>1
  <2> QED
    BY <2>2, <2>3
<1> HIDE DEF Is
<1> DEFINE Out == {k \in 0..N : done[k] \notin G}
<1>6. Out = {}
  <2> SUFFICES ASSUME Out # {} PROVE FALSE
    OBVIOUS
  <2>1. \E n \in Out : \A m \in Out : n <= m
    <3>1. Out \subseteq Nat
      OBVIOUS
    <3> HIDE DEF Out
    <3> QED
      BY <3>1, Least
  <2>2. PICK n \in Out : \A m \in Out : n <= m
    BY <2>1
  <2>3. n \in 1..N /\ done[n] \notin G
    BY <1>5
  <2>4. n - 1 \in 0..N /\ n - 1 \notin Out
    BY <2>2, <2>3
  <2>5. done[n - 1] \in G
    BY <2>4
  <2> HIDE DEF Out
  <2> QED
    BY <1>5, <2>3, <2>5
<1>7. \A k \in 0..N : done[k] \in G
  BY <1>6
<1> QED
  BY <1>4, <1>5, <1>7

LEMMA SaveIs ==
  ASSUME NEW x \in Work
  PROVE  /\ Friend!Save(x) \in Work /\ Friend!Save(x).user = x.user
         /\ Friend!Save(x).told = x.told
         /\ x.user.instances # {} => Friend!Save(x).disk \in StoredUser
                                     /\ Friend!Save(x).disk.consent = x.user.consent
                                     /\ Friend!Save(x).disk.instances # {}
         /\ x.user.instances = {} => Friend!Save(x).disk = x.disk
<1>1. CASE x.user.instances = {}
  BY <1>1 DEF Friend!Save
<1>2. CASE x.user.instances # {}
  <2> DEFINE kept == [consent |-> x.user.consent, instances |-> x.user.instances]
  <2>1. kept \in StoredUser /\ kept.consent = x.user.consent /\ kept.instances # {}
    BY <1>2 DEF Work, Friend!UserObject, StoredUser
  <2>2. Friend!Save(x) = [x EXCEPT !.disk = kept]
    BY <1>2 DEF Friend!Save
  <2> HIDE DEF kept
  <2> QED
    BY <1>2, <2>1, <2>2 DEF Work
<1> QED
  BY <1>1, <1>2

(* A contact that is saved is written as it is. *)
LEMMA SaveAhead ==
  ASSUME NEW x \in Work
  PROVE  /\ x.disk # None => Friend!Save(x).disk # None
         /\ x.user.instances # {} \/ x.disk = None => StoreAhead(x.user, Friend!Save(x).disk)
<1>1. None \notin StoredUser
  BY NoContactAssumption DEF StoredUser
<1> QED
  BY <1>1, SaveIs DEF StoreAhead

LEMMA TellIs ==
  ASSUME NEW x \in Work, NEW S
  PROVE  /\ Friend!Tell(x, S) \in Work /\ Friend!Tell(x, S).user = x.user
         /\ Friend!Tell(x, S).disk = x.disk
<1> DEFINE tells == [c \in Client |-> IF c \in S THEN x.user.consent.grants ELSE x.told[c]]
<1>1. tells \in [Client -> Known]
  BY DEF Work, Friend!UserObject, Friend!Consent, Known
<1>2. Friend!Tell(x, S) = [x EXCEPT !.told = tells]
  BY DEF Friend!Tell
<1> HIDE DEF tells
<1> QED
  BY <1>1, <1>2 DEF Work

(* The grant is set and nothing else of the object. *)
LEMMA GrantSet ==
  ASSUME NEW u_ \in Friend!UserObject, NEW g \in BOOLEAN
  PROVE  /\ [u_ EXCEPT !.consent.grants = g] \in Friend!UserObject
         /\ SameButGrant(u_, [u_ EXCEPT !.consent.grants = g])
         /\ [u_ EXCEPT !.consent.grants = g].consent.grants = g
<1> DEFINE c_ == [u_.consent EXCEPT !.grants = g]
<1>1. c_ \in Friend!Consent /\ c_.grants = g /\ c_.remoteRequests = u_.consent.remoteRequests
  BY DEF Friend!UserObject, Friend!Consent
<1>2. [u_ EXCEPT !.consent.grants = g] = [u_ EXCEPT !.consent = c_]
  OBVIOUS
<1> HIDE DEF c_
<1> QED
  BY <1>1, <1>2 DEF Friend!UserObject, SameButGrant

LEMMA DoKeeps ==
  ASSUME NEW x \in Work, NEW o \in Friend!Op
  PROVE  /\ Friend!Do(x, o) \in Work /\ SameButGrant(x.user, Friend!Do(x, o).user)
         /\ x.user.consent.grants /\ o # Withdraw => Friend!Do(x, o).user.consent.grants
         /\ x.disk # None => Friend!Do(x, o).disk # None
         /\ StoreAhead(x.user, x.disk) => StoreAhead(Friend!Do(x, o).user, Friend!Do(x, o).disk)
<1>1. CASE o.op = "handshake"
  <2>1. Friend!Do(x, o) = Friend!Tell(x, {o.c})
    BY <1>1 DEF Friend!Do
  <2> QED
    BY <2>1, TellIs DEF SameButGrant
<1>2. CASE o.op = "save"
  <2>1. Friend!Do(x, o) = Friend!Save(x)
    BY <1>2 DEF Friend!Do
  <2>2. x.disk # None /\ StoreAhead(x.user, x.disk) => x.user.instances # {}
    BY DEF StoreAhead
  <2> QED
    BY <2>1, <2>2, SaveIs, SaveAhead DEF SameButGrant
<1>3. CASE o.op = "modify"
  <2> DEFINE y == [x EXCEPT !.user.consent.grants = o.grants]
             u_ == [x.user EXCEPT !.consent.grants = o.grants]
  <2>1. o.grants \in BOOLEAN /\ (o # Withdraw => o.grants)
    BY <1>3 DEF Friend!Op, Withdraw
  <2>2. u_ \in Friend!UserObject /\ SameButGrant(x.user, u_) /\ u_.consent.grants = o.grants
    <3>1. x.user \in Friend!UserObject
      BY DEF Work
    <3> QED
      BY <2>1, <3>1, GrantSet
  <2>3. y = [x EXCEPT !.user = u_]
    OBVIOUS
  <2>4. PICK S : Friend!Do(x, o) = Friend!Save(Friend!Tell(y, S))
    BY <1>3 DEF Friend!Do, Friend!Modify
  <2> HIDE DEF y, u_
  <2>5. y \in Work /\ y.user = u_ /\ y.disk = x.disk
    BY <2>2, <2>3 DEF Work
  <2> DEFINE z == Friend!Tell(y, S)
  <2>6. z \in Work /\ z.user = u_ /\ z.disk = x.disk
    BY <2>5, TellIs
  <2> HIDE DEF z
  <2>7. Friend!Save(z) \in Work /\ Friend!Save(z).user = u_
    BY <2>6, SaveIs
  <2>8. x.disk # None /\ StoreAhead(x.user, x.disk) => u_.instances # {}
    BY <2>2 DEF StoreAhead, SameButGrant
  <2>9. /\ x.disk # None => Friend!Save(z).disk # None
        /\ StoreAhead(x.user, x.disk) => StoreAhead(u_, Friend!Save(z).disk)
    BY <2>6, <2>8, SaveAhead
  <2> QED
    BY <2>1, <2>2, <2>4, <2>7, <2>9 DEF z
<1> QED
  BY <1>1, <1>2, <1>3 DEF Friend!Op

(* The operations that were due, one after the other. *)
LEMMA DoneAll ==
  ASSUME NEW w \in Work, NEW ops \in Seq(Friend!Op)
  PROVE  LET x == Friend!DoAll(w, ops) IN
         /\ x \in Work /\ SameButGrant(w.user, x.user)
         /\ w.user.consent.grants /\ (\A k \in 1..Len(ops) : ops[k] # Withdraw)
              => x.user.consent.grants
         /\ Len(ops) > 0 /\ ops[Len(ops)] = Friend!SaveOp /\ w.user.instances # {}
              => /\ x.disk \in StoredUser /\ x.disk.consent = x.user.consent
                 /\ StoreAhead(x.user, x.disk)
         /\ w.disk # None => x.disk # None
         /\ StoreAhead(w.user, w.disk) => StoreAhead(x.user, x.disk)
<1> DEFINE x == Friend!DoAll(w, ops)
           N == Len(ops)
           Never == \A k \in 1..N : ops[k] # Withdraw
           Ahead(y) == /\ w.disk # None => y.disk # None
                       /\ StoreAhead(w.user, w.disk) => StoreAhead(y.user, y.disk)
           G == {y \in Work : /\ SameButGrant(w.user, y.user)
                              /\ w.user.consent.grants /\ Never => y.user.consent.grants
                              /\ Ahead(y)}
<1>1. w \in G
  BY DEF SameButGrant
<1>2. N \in Nat /\ \A k \in 1..N : ops[k] \in Friend!Op
  OBVIOUS
<1>3. ASSUME NEW y \in G, NEW k \in 1..N PROVE Friend!Do(y, ops[k]) \in G
  <2> DEFINE o == ops[k]
             z == Friend!Do(y, o)
  <2>1. o \in Friend!Op /\ y \in Work /\ (Never => o # Withdraw)
    BY <1>2
  <2> HIDE DEF o
  <2>2. /\ z \in Work /\ SameButGrant(y.user, z.user)
        /\ y.user.consent.grants /\ o # Withdraw => z.user.consent.grants
        /\ y.disk # None => z.disk # None
        /\ StoreAhead(y.user, y.disk) => StoreAhead(z.user, z.disk)
    BY <2>1, DoKeeps
  <2>3. SameButGrant(w.user, z.user)
    BY <2>2 DEF SameButGrant
  <2> HIDE DEF z, Never
  <2>4. z \in G
    BY <2>1, <2>2, <2>3
  <2> QED
    BY <2>4 DEF z, o
<1> HIDE DEF G
<1>4. x \in G /\ (N > 0 => \E y \in G : x = Friend!Do(y, ops[N]))
  BY <1>1, <1>2, <1>3, DoneInTurn
<1>5. ASSUME N > 0, ops[N] = Friend!SaveOp, w.user.instances # {}
      PROVE  /\ x.disk \in StoredUser /\ x.disk.consent = x.user.consent
             /\ StoreAhead(x.user, x.disk)
  <2>1. PICK y \in G : x = Friend!Do(y, ops[N])
    BY <1>4, <1>5
  <2>2. x = Friend!Save(y)
    BY <1>5, <2>1 DEF Friend!Do, Friend!SaveOp
  <2>3. y \in Work /\ y.user.instances # {}
    BY <1>5 DEF G, SameButGrant
  <2> HIDE DEF x
  <2> QED
    BY <2>2, <2>3, SaveIs, SaveAhead
<1> QED
  BY <1>4, <1>5 DEF G
-----------------------------------------------------------------------------
ContactsType ==
  /\ user = None \/ user \in Friend!UserObject
  /\ reads \in Seq(ReadRecord) /\ (reads # <<>> => user # None)
  /\ due \in Seq(Friend!Op)
  /\ wire \in [Instance -> Known] /\ news \in [Instance -> Known]
  /\ contactOnDisk \in ContactStore
  /\ exchanged \in BOOLEAN /\ theirs \in BOOLEAN /\ up \subseteq Client
  /\ toldClients \in [Client -> Known]
  /\ toUs \in [Client -> Seq(FromFriend)]
  /\ lasting \in LastingStore

(* The read of the contact itself comes first, and nothing is granted before.  *)
FirstRead ==
  \A k \in 1..Len(reads) :
    reads[k].of = "user" => k = 1 /\ ~user.loaded /\ ~user.consent.grants

ToldLoaded == \A c \in Client : toldClients[c] # None => user # None /\ user.loaded

HasInstances == user # None /\ user.instances # {}
Announces(s) == \E k \in 1..Len(s) : s[k].type = "instance"
(* What of messages that came is known: a token comes after an instance.       *)
InTurn(s) ==
  \A k \in 1..Len(s) : s[k].type = "token" =>
    /\ user # None /\ user.loaded
    /\ HasInstances \/ \E j \in 1..k - 1 : s[j].type = "instance"

TokensInTurn ==
  /\ \A c \in Client : InTurn(toUs[c])
  /\ \A c \in up : HasInstances \/ Announces(toUs[c])

(* What is read of the contact is what storage has of it, and so is what was   *)
(* read of it until it is loaded; then what it has was written.                *)
UserRead == \E k \in 1..Len(reads) : reads[k].of = "user"
ReadsStored == \A k \in 1..Len(reads) : reads[k].of = "user" => reads[k].value = contactOnDisk.user
Restored ==
  user # None /\ ~user.loaded /\ ~UserRead =>
    /\ contactOnDisk.user # None /\ user.instances # {}
    /\ user.consent.grants = contactOnDisk.user.consent.grants
GrantsStored == user # None /\ user.loaded => StoreAhead(user, contactOnDisk.user)
StoredOnes(d) == d # None => d.instances # {}

(* What has lasted of the token was written.                                   *)
TokenKept == lasting.exchanged => exchanged

ContactsInv ==
  /\ ContactsType /\ Friend!MapsAgree /\ FirstRead /\ ToldLoaded /\ TokensInTurn
  /\ ReadsStored /\ Restored /\ GrantsStored
  /\ StoredOnes(contactOnDisk.user) /\ StoredOnes(lasting.user)

LEMMA StorageTyped ==
  ASSUME NEW d \in ContactStore, NEW s \in StoredUser \cup {None}
  PROVE  /\ [d EXCEPT !.user = s] \in ContactStore
         /\ d.user \in StoredUser \cup {None} /\ d.wire \in [Instance -> Known]
BY DEF ContactStore

LEMMA NewUserTyped ==
  /\ Friend!NewUser \in Friend!UserObject /\ Friend!NewUser.loaded = FALSE
  /\ Friend!NewUser.consent.grants = FALSE
  /\ \A i \in Instance : Friend!NewUser.instanceToClient[i] = None
BY DEF Friend!NewUser, Friend!UserObject, Friend!Consent

LEMMA ContactsInit == Friend!Init => ContactsInv /\ TokenKept
<1> SUFFICES ASSUME Friend!Init PROVE ContactsInv /\ TokenKept
  OBVIOUS
<1>1. /\ user = None /\ reads = <<>> /\ due = <<>>
      /\ wire = [i \in Instance |-> None] /\ news = [i \in Instance |-> None]
      /\ contactOnDisk = [user |-> None, wire |-> [i \in Instance |-> None]]
      /\ exchanged = FALSE /\ theirs \in BOOLEAN /\ up = {}
      /\ toldClients = [c \in Client |-> None] /\ toUs = [c \in Client |-> <<>>]
      /\ lasting = [user |-> None, wire |-> [i \in Instance |-> None], exchanged |-> FALSE]
  BY DEF Friend!Init
<1>2. ContactsType
  <2>1. reads \in Seq(ReadRecord) /\ due \in Seq(Friend!Op)
    BY <1>1
  <2>2. wire \in [Instance -> Known] /\ contactOnDisk \in ContactStore
        /\ lasting \in LastingStore
    BY <1>1 DEF Known, ContactStore, LastingStore
  <2>3. toldClients \in [Client -> Known]
    BY <1>1 DEF Known
  <2>4. toUs \in [Client -> Seq(FromFriend)]
    <3>1. <<>> \in Seq(FromFriend)
      OBVIOUS
    <3> QED
      BY <1>1, <3>1
  <2> QED
    BY <1>1, <2>1, <2>2, <2>3, <2>4 DEF ContactsType
<1>3. Friend!MapsAgree
  BY <1>1 DEF Friend!MapsAgree
<1>4. FirstRead /\ ToldLoaded
  BY <1>1 DEF FirstRead, ToldLoaded
<1>5. TokensInTurn
  <2>1. \A c \in Client : Len(toUs[c]) = 0
    BY <1>1
  <2> QED
    BY <1>1, <2>1 DEF TokensInTurn, InTurn
<1>6. /\ ReadsStored /\ Restored /\ GrantsStored
      /\ StoredOnes(contactOnDisk.user) /\ StoredOnes(lasting.user)
  BY <1>1 DEF ReadsStored, Restored, GrantsStored, StoredOnes
<1> QED
  BY <1>1, <1>2, <1>3, <1>4, <1>5, <1>6 DEF ContactsInv, TokenKept

(* How the object goes on: it stays loaded, and keeps its instances. *)
GoesOn == /\ user # None /\ user' \in Friend!UserObject /\ (user.loaded => user'.loaded)
          /\ user.instances \subseteq user'.instances

LEMMA StaysKnown ==
  ASSUME ContactsInv, GoesOn
  PROVE  /\ user' # None /\ (HasInstances => HasInstances')
         /\ \A s : InTurn(s) => InTurn(s)'
<1>1. user' # None /\ (HasInstances => HasInstances')
  BY NoContactAssumption DEF GoesOn, HasInstances
<1> QED
  BY <1>1 DEF GoesOn, InTurn

(* No message is taken or comes. *)
LEMMA SameMessagesStay ==
  ASSUME ContactsInv, GoesOn, UNCHANGED <<toUs, up>>
  PROVE  TokensInTurn'
<1>1. TokensInTurn
  BY DEF ContactsInv
<1>2. (HasInstances => HasInstances') /\ \A s : InTurn(s) => InTurn(s)'
  BY StaysKnown
<1>3. \A c \in Client : InTurn(toUs[c])'
  BY <1>1, <1>2 DEF TokensInTurn, InTurn
<1> QED
  BY <1>1, <1>2, <1>3 DEF TokensInTurn, Announces

(* The first of the messages is taken. *)
LEMMA HeadTaken ==
  ASSUME ContactsInv, NEW c \in Client, toUs[c] # <<>>, GoesOn, UNCHANGED up,
         toUs' = [toUs EXCEPT ![c] = Tail(toUs[c])],
         Head(toUs[c]).type = "instance" => user'.instances # {}
  PROVE  toUs' \in [Client -> Seq(FromFriend)] /\ TokensInTurn'
<1> DEFINE s == toUs[c]
           rest == Tail(s)
<1>0. TokensInTurn /\ toUs \in [Client -> Seq(FromFriend)]
  BY DEF ContactsInv, ContactsType
<1>1. s \in Seq(FromFriend) /\ s # <<>>
  BY <1>0
<1>2. /\ rest \in Seq(FromFriend) /\ Len(rest) = Len(s) - 1 /\ Len(s) \in Nat
      /\ \A k \in 1..Len(rest) : rest[k] = s[k + 1]
      /\ Head(s) = s[1]
  <2> HIDE DEF s
  <2> QED
    BY <1>1
<1>3. toUs' = [toUs EXCEPT ![c] = rest]
  OBVIOUS
<1> HIDE DEF rest
<1>4. toUs' \in [Client -> Seq(FromFriend)] /\ toUs'[c] = rest
      /\ \A d \in Client : d # c => toUs'[d] = toUs[d]
  BY <1>0, <1>2, <1>3
<1>5. (HasInstances => HasInstances') /\ (\A x : InTurn(x) => InTurn(x)') /\ user' # None
  BY StaysKnown
<1>6. s[1].type = "instance" => HasInstances'
  BY <1>2, <1>5 DEF HasInstances
<1> HIDE DEF s
<1>7. \A k \in 1..Len(s) : s[k].type = "token" =>
        /\ user' # None /\ user'.loaded
        /\ HasInstances' \/ \E j \in 1..k - 1 : s[j].type = "instance"
  <2>1. InTurn(s)
    BY <1>0 DEF TokensInTurn, s
  <2> QED
    BY <1>5, <2>1 DEF InTurn, GoesOn
<1>8. \A k \in 1..Len(rest) : rest[k].type = "token" =>
        /\ user' # None /\ user'.loaded
        /\ HasInstances' \/ \E j \in 1..k - 1 : rest[j].type = "instance"
  <2> SUFFICES ASSUME NEW k \in 1..Len(rest), rest[k].type = "token"
               PROVE  /\ user' # None /\ user'.loaded
                      /\ HasInstances' \/ \E j \in 1..k - 1 : rest[j].type = "instance"
    OBVIOUS
  <2>1. k + 1 \in 1..Len(s) /\ s[k + 1].type = "token"
    BY <1>2
  <2>2. /\ user' # None /\ user'.loaded
        /\ HasInstances' \/ \E j \in 1..(k + 1) - 1 : s[j].type = "instance"
    BY <1>7, <2>1
  <2>3. ASSUME NEW j \in 1..(k + 1) - 1, s[j].type = "instance", j # 1
        PROVE  \E i \in 1..k - 1 : rest[i].type = "instance"
    <3>1. j - 1 \in 1..k - 1 /\ j - 1 \in 1..Len(rest) /\ rest[j - 1] = s[j]
      BY <1>2, <2>3
    <3> QED
      BY <2>3, <3>1
  <2> QED
    BY <1>6, <2>2, <2>3
<1>9. \A d \in Client : InTurn(toUs[d])'
  <2> SUFFICES ASSUME NEW d \in Client PROVE InTurn(toUs[d])'
    OBVIOUS
  <2>1. CASE d = c
    <3>1. toUs'[d] = rest
      BY <1>4, <2>1
    <3> QED
      BY <1>8, <3>1 DEF InTurn
  <2>2. CASE d # c
    <3>1. InTurn(toUs[d])
      BY <1>0 DEF TokensInTurn
    <3> QED
      BY <1>4, <1>5, <2>2, <3>1 DEF InTurn, GoesOn
  <2> QED
    BY <2>1, <2>2
<1>10. \A d \in up : HasInstances' \/ Announces(toUs'[d])
  <2> SUFFICES ASSUME NEW d \in up, ~HasInstances' PROVE Announces(toUs'[d])
    OBVIOUS
  <2>1. Announces(toUs[d]) /\ d \in Client
    BY <1>0, <1>5 DEF TokensInTurn, ContactsInv, ContactsType
  <2>2. CASE d = c
    <3>1. PICK j \in 1..Len(s) : s[j].type = "instance"
      BY <2>1, <2>2 DEF Announces, s
    <3>2. j # 1
      BY <1>6, <3>1
    <3>3. j - 1 \in 1..Len(rest) /\ rest[j - 1] = s[j]
      BY <1>2, <3>1, <3>2
    <3> QED
      BY <1>4, <2>2, <3>1, <3>3 DEF Announces
  <2>3. CASE d # c
    BY <1>4, <2>1, <2>3
  <2> QED
    BY <2>2, <2>3
<1>11. TokensInTurn'
  BY <1>9, <1>10 DEF TokensInTurn, Announces
<1> QED
  BY <1>4, <1>11

(* A client says one thing more: a token if it was told of the instance.       *)
LEMMA Said ==
  ASSUME ContactsInv, NEW s \in Seq(FromFriend), NEW m \in FromFriend, InTurn(s),
         m.type = "token" => /\ user # None /\ user.loaded
                             /\ HasInstances \/ Announces(s)
  PROVE  /\ Append(s, m) \in Seq(FromFriend) /\ InTurn(Append(s, m))
         /\ Announces(s) \/ m.type = "instance" => Announces(Append(s, m))
<1> DEFINE t == Append(s, m)
<1>1. /\ t \in Seq(FromFriend) /\ Len(t) = Len(s) + 1 /\ t[Len(s) + 1] = m /\ Len(s) \in Nat
      /\ \A k \in 1..Len(s) : t[k] = s[k]
  OBVIOUS
<1> HIDE DEF t
<1>2. Announces(s) \/ m.type = "instance" => Announces(t)
  <2>1. ASSUME NEW k \in 1..Len(s), s[k].type = "instance" PROVE Announces(t)
    <3>1. k \in 1..Len(t) /\ t[k].type = "instance"
      BY <1>1, <2>1
    <3> QED
      BY <3>1 DEF Announces
  <2>2. ASSUME m.type = "instance" PROVE Announces(t)
    <3>1. Len(s) + 1 \in 1..Len(t) /\ t[Len(s) + 1].type = "instance"
      BY <1>1, <2>2
    <3> QED
      BY <3>1 DEF Announces
  <2> QED
    BY <2>1, <2>2 DEF Announces
<1>3. InTurn(t)
  <2> SUFFICES ASSUME NEW k \in 1..Len(t), t[k].type = "token"
               PROVE  /\ user # None /\ user.loaded
                      /\ HasInstances \/ \E j \in 1..k - 1 : t[j].type = "instance"
    BY DEF InTurn
  <2>1. CASE k \in 1..Len(s)
    <3>1. /\ user # None /\ user.loaded
          /\ HasInstances \/ \E j \in 1..k - 1 : s[j].type = "instance"
      BY <1>1, <2>1 DEF InTurn
    <3>2. \A j \in 1..k - 1 : t[j] = s[j]
      BY <1>1, <2>1
    <3> QED
      BY <3>1, <3>2
  <2>2. CASE k = Len(s) + 1
    <3>1. \A j \in 1..Len(s) : t[j] = s[j] /\ j \in 1..k - 1
      BY <1>1, <2>2
    <3>2. user # None /\ user.loaded /\ (HasInstances \/ Announces(s))
      BY <1>1, <2>2
    <3> QED
      BY <3>1, <3>2 DEF Announces
  <2> QED
    BY <1>1, <2>1, <2>2
<1> QED
  BY <1>1, <1>2, <1>3 DEF t

(* The operations are done, or wait. *)
LEMMA OnceLoadedKeeps ==
  ASSUME ContactsInv, NEW u_ \in Friend!UserObject, NEW ops \in Seq(Friend!Op),
         Friend!OnceLoaded(u_, ops)
  PROVE  /\ user' \in Friend!UserObject /\ SameButGrant(u_, user') /\ due' \in Seq(Friend!Op)
         /\ contactOnDisk' \in ContactStore /\ toldClients' \in [Client -> Known]
         /\ ~u_.loaded => user' = u_ /\ toldClients' = toldClients
         /\ u_.consent.grants /\ (\A k \in 1..Len(ops) : ops[k] # Withdraw)
              => user'.consent.grants
         /\ /\ u_.loaded /\ u_.instances # {}
            /\ Len(ops) > 0 /\ ops[Len(ops)] = Friend!SaveOp
            => /\ contactOnDisk'.user \in StoredUser
               /\ contactOnDisk'.user.consent = user'.consent
               /\ StoreAhead(user', contactOnDisk'.user)
         /\ contactOnDisk.user # None => contactOnDisk'.user # None
         /\ u_.loaded /\ StoreAhead(u_, contactOnDisk.user)
              => StoreAhead(user', contactOnDisk'.user)
         /\ ~u_.loaded => contactOnDisk' = contactOnDisk
<1>0. /\ contactOnDisk \in ContactStore /\ toldClients \in [Client -> Known]
      /\ due \in Seq(Friend!Op)
  BY DEF ContactsInv, ContactsType
<1>1. CASE u_.loaded
  <2> DEFINE w == Friend!W(u_)
             x == Friend!DoAll(w, ops)
  <2>1. w \in Work /\ w.user = u_ /\ w.disk = contactOnDisk.user
    BY <1>0, StorageTyped DEF Friend!W, Work
  <2>2. /\ user' = x.user /\ toldClients' = x.told
        /\ contactOnDisk' = [contactOnDisk EXCEPT !.user = x.disk] /\ due' = due
    BY <1>1 DEF Friend!OnceLoaded
  <2> HIDE DEF w
  <2>3. /\ x \in Work /\ SameButGrant(w.user, x.user)
        /\ w.user.consent.grants /\ (\A k \in 1..Len(ops) : ops[k] # Withdraw)
             => x.user.consent.grants
        /\ Len(ops) > 0 /\ ops[Len(ops)] = Friend!SaveOp /\ w.user.instances # {}
             => /\ x.disk \in StoredUser /\ x.disk.consent = x.user.consent
                /\ StoreAhead(x.user, x.disk)
        /\ w.disk # None => x.disk # None
        /\ StoreAhead(w.user, w.disk) => StoreAhead(x.user, x.disk)
    BY <2>1, DoneAll
  <2> HIDE DEF x
  <2>4. /\ x.user \in Friend!UserObject /\ x.told \in [Client -> Known]
        /\ x.disk \in StoredUser \cup {None}
    BY <2>3 DEF Work
  <2>5. contactOnDisk' \in ContactStore /\ contactOnDisk'.user = x.disk
    BY <1>0, <2>2, <2>4, StorageTyped DEF ContactStore
  <2> QED
    BY <1>0, <1>1, <2>1, <2>2, <2>3, <2>4, <2>5
<1>2. CASE ~u_.loaded
  <2>1. user' = u_ /\ due' = due \o ops /\ UNCHANGED <<toldClients, contactOnDisk>>
    BY <1>2 DEF Friend!OnceLoaded
  <2>2. due' \in Seq(Friend!Op)
    BY <1>0, <2>1, ConcatProperties
  <2> QED
    BY <1>0, <1>2, <2>1, <2>2 DEF SameButGrant
<1> QED
  BY <1>1, <1>2
-----------------------------------------------------------------------------
Agree(u_) ==
  \A i \in Instance : LET c == u_.instanceToClient[i] IN
    c # None => c \in u_.online /\ u_.clientToInstance[c] = i /\ InstanceOf[c] = i

LEMMA MapsOfUser == Friend!MapsAgree <=> (user # None => Agree(user))
BY DEF Friend!MapsAgree, Agree

LEMMA Operations ==
  /\ \A c \in Client : /\ Friend!Handshake(c) \in Friend!Op
                        /\ <<Friend!Handshake(c)>> \in Seq(Friend!Op)
                        /\ <<Friend!Handshake(c), Friend!SaveOp>> \in Seq(Friend!Op)
                        /\ Friend!Handshake(c) # Withdraw
  /\ Friend!SaveOp \in Friend!Op /\ Friend!SaveOp # Withdraw
  /\ \A g \in BOOLEAN : <<[op |-> "modify", grants |-> g]>> \in Seq(Friend!Op)
BY DEF Friend!Handshake, Friend!SaveOp, Friend!Op, Withdraw

(* No step uses up the token, or takes back a grant. *)
LEMMA Honored ==
  ASSUME exchanged' => exchanged, Friend!Granted => Friend!Granted'
  PROVE  Friend!HonorsToken
BY DEF Friend!HonorsToken

(* What is in storage, and what of it has lasted, as the object goes on.  One  *)
(* that is loaded stays ahead of storage; before that nothing is written.      *)
Writes ==
  /\ UNCHANGED lasting
  /\ user.loaded =>
       /\ user'.loaded /\ StoreAhead(user', contactOnDisk'.user)
       /\ contactOnDisk.user # None => contactOnDisk'.user # None
  /\ ~user.loaded =>
       /\ ~user'.loaded /\ contactOnDisk'.user = contactOnDisk.user
       /\ user'.consent.grants = user.consent.grants
       /\ UserRead' <=> UserRead
       /\ ReadsStored'

LEMMA StorageGoesOn ==
  ASSUME ContactsInv, GoesOn, Writes, FirstRead'
  PROVE  /\ ReadsStored' /\ Restored' /\ GrantsStored'
         /\ StoredOnes(contactOnDisk.user)' /\ StoredOnes(lasting.user)'
<1>0. /\ ReadsStored /\ Restored /\ GrantsStored
      /\ StoredOnes(contactOnDisk.user) /\ StoredOnes(lasting.user)
  BY DEF ContactsInv
<1>1. user # None /\ user' # None /\ user.instances \subseteq user'.instances
  BY StaysKnown DEF GoesOn
<1>2. StoredOnes(lasting.user)'
  BY <1>0 DEF StoredOnes, Writes
<1>3. CASE user.loaded
  <2>1. user'.loaded /\ StoreAhead(user', contactOnDisk'.user)
    BY <1>3 DEF Writes
  <2>2. ReadsStored'
    BY <2>1 DEF FirstRead, ReadsStored
  <2>3. Restored' /\ GrantsStored'
    BY <2>1 DEF Restored, GrantsStored
  <2>4. StoredOnes(contactOnDisk.user)'
    BY <2>1 DEF StoredOnes, StoreAhead
  <2> QED
    BY <1>2, <2>2, <2>3, <2>4
<1>4. CASE ~user.loaded
  <2>1. /\ ~user'.loaded /\ contactOnDisk'.user = contactOnDisk.user
        /\ user'.consent.grants = user.consent.grants
        /\ UserRead' <=> UserRead
        /\ ReadsStored'
    BY <1>4 DEF Writes
  <2>2. Restored'
    <3> SUFFICES ASSUME ~UserRead'
                 PROVE  /\ contactOnDisk'.user # None /\ user'.instances # {}
                        /\ user'.consent.grants = contactOnDisk'.user.consent.grants
      BY DEF Restored
    <3>1. ~UserRead
      BY <2>1
    <3>2. /\ contactOnDisk.user # None /\ user.instances # {}
          /\ user.consent.grants = contactOnDisk.user.consent.grants
      BY <1>0, <1>1, <1>4, <3>1 DEF Restored
    <3> QED
      BY <1>1, <2>1, <3>2
  <2>3. GrantsStored' /\ StoredOnes(contactOnDisk.user)'
    BY <1>0, <2>1 DEF GrantsStored, StoredOnes
  <2> QED
    BY <1>2, <2>1, <2>2, <2>3
<1> QED
  BY <1>3, <1>4

LEMMA StaysGranted ==
  ASSUME ContactsInv, GoesOn, Writes, user.consent.grants => user'.consent.grants
  PROVE  Friend!Granted => Friend!Granted'
<1>1. user # None /\ user' # None
  BY StaysKnown DEF GoesOn
<1>2. CASE user.loaded
  <2>1. user'.loaded /\ (contactOnDisk.user # None => contactOnDisk'.user # None)
    BY <1>2 DEF Writes
  <2> QED
    BY <1>1, <1>2, <2>1 DEF Friend!Granted
<1>3. CASE ~user.loaded
  <2>1. ~user'.loaded /\ contactOnDisk'.user = contactOnDisk.user
    BY <1>3 DEF Writes
  <2> QED
    BY <1>1, <1>3, <2>1 DEF Friend!Granted
<1> QED
  BY <1>2, <1>3

(* An operation on the object as it is, but for clients and grants. *)
LEMMA Onward ==
  ASSUME ContactsInv, user # None, NEW u_ \in Friend!UserObject, u_.loaded = user.loaded,
         user.instances \subseteq u_.instances, Agree(u_),
         ~user.loaded => u_.consent.grants = user.consent.grants,
         NEW ops \in Seq(Friend!Op), Friend!OnceLoaded(u_, ops), UNCHANGED <<reads, lasting>>,
         user.loaded => \/ u_.consent.grants => user.consent.grants
                        \/ /\ u_.instances # {}
                           /\ Len(ops) > 0 /\ ops[Len(ops)] = Friend!SaveOp
  PROVE  /\ user' \in Friend!UserObject /\ user' # None /\ due' \in Seq(Friend!Op)
         /\ contactOnDisk' \in ContactStore /\ toldClients' \in [Client -> Known]
         /\ GoesOn /\ Writes /\ Friend!MapsAgree' /\ FirstRead' /\ ToldLoaded'
         /\ u_.consent.grants /\ (\A k \in 1..Len(ops) : ops[k] # Withdraw)
              => user'.consent.grants
<1>1. /\ user' \in Friend!UserObject /\ SameButGrant(u_, user') /\ due' \in Seq(Friend!Op)
      /\ contactOnDisk' \in ContactStore /\ toldClients' \in [Client -> Known]
      /\ ~u_.loaded => user' = u_ /\ toldClients' = toldClients
      /\ u_.consent.grants /\ (\A k \in 1..Len(ops) : ops[k] # Withdraw)
           => user'.consent.grants
      /\ /\ u_.loaded /\ u_.instances # {}
         /\ Len(ops) > 0 /\ ops[Len(ops)] = Friend!SaveOp
         => StoreAhead(user', contactOnDisk'.user)
      /\ contactOnDisk.user # None => contactOnDisk'.user # None
      /\ u_.loaded /\ StoreAhead(u_, contactOnDisk.user)
           => StoreAhead(user', contactOnDisk'.user)
      /\ ~u_.loaded => contactOnDisk' = contactOnDisk
  BY OnceLoadedKeeps
<1>2. user' # None
  BY <1>1, NoContactAssumption
<1>3. GoesOn
  BY <1>1 DEF GoesOn, SameButGrant
<1>4. Friend!MapsAgree'
  BY <1>1 DEF Friend!MapsAgree, Agree, SameButGrant
<1>5. FirstRead'
  BY <1>1 DEF ContactsInv, FirstRead
<1>6. ToldLoaded'
  BY <1>1, <1>2 DEF ContactsInv, ToldLoaded, SameButGrant
<1>7. user.loaded => StoreAhead(user', contactOnDisk'.user)
  <2> SUFFICES ASSUME user.loaded PROVE StoreAhead(user', contactOnDisk'.user)
    OBVIOUS
  <2>1. StoreAhead(user, contactOnDisk.user)
    BY DEF ContactsInv, GrantsStored
  <2>2. (u_.consent.grants => user.consent.grants) => StoreAhead(u_, contactOnDisk.user)
    BY <2>1 DEF StoreAhead
  <2> QED
    BY <1>1, <2>2
<1>8. ~user.loaded => user' = u_ /\ contactOnDisk' = contactOnDisk
  BY <1>1
<1>9. Writes
  BY <1>1, <1>3, <1>7, <1>8 DEF Writes, GoesOn, SameButGrant, UserRead, ReadsStored, ContactsInv
<1> QED
  BY <1>1, <1>2, <1>3, <1>4, <1>5, <1>6, <1>9

LEMMA OnlineOnward ==
  ASSUME ContactsInv, NEW c \in Client, Friend!handleClientOnline(c)
  PROVE  ContactsInv' /\ Friend!HonorsToken
<1> DEFINE u_ == [user EXCEPT !.online = user.online \cup {c}]
           ops == <<Friend!Handshake(c)>>
<1>0. ContactsType /\ Friend!MapsAgree
  BY DEF ContactsInv
<1>1. /\ user # None /\ Friend!OnceLoaded(u_, ops)
      /\ UNCHANGED <<lasting, reads, wire, news, exchanged, theirs, up, toUs, contactRestarts>>
  BY DEF Friend!handleClientOnline, Friend!friendVars
<1>2. user \in Friend!UserObject /\ Agree(user)
  BY <1>0, <1>1, MapsOfUser DEF ContactsType
<1>3. /\ u_ \in Friend!UserObject /\ u_.loaded = user.loaded /\ u_.instances = user.instances
      /\ u_.consent = user.consent /\ Agree(u_)
  BY <1>2 DEF Friend!UserObject, Agree
<1>4. ops \in Seq(Friend!Op) /\ \A k \in 1..Len(ops) : ops[k] # Withdraw
  BY Operations
<1> HIDE DEF u_, ops
<1>5. /\ user' \in Friend!UserObject /\ user' # None /\ due' \in Seq(Friend!Op)
      /\ contactOnDisk' \in ContactStore /\ toldClients' \in [Client -> Known]
      /\ GoesOn /\ Writes /\ Friend!MapsAgree' /\ FirstRead' /\ ToldLoaded'
      /\ u_.consent.grants /\ (\A k \in 1..Len(ops) : ops[k] # Withdraw)
           => user'.consent.grants
  BY <1>1, <1>3, <1>4, Onward
<1>6. ContactsType'
  BY <1>0, <1>1, <1>5 DEF ContactsType
<1>7. TokensInTurn'
  BY <1>1, <1>5, SameMessagesStay
<1>8. Friend!HonorsToken
  BY <1>1, <1>3, <1>4, <1>5, StaysGranted, Honored
<1> QED
  BY <1>5, <1>6, <1>7, <1>8, StorageGoesOn DEF ContactsInv

LEMMA RequestOnward ==
  ASSUME ContactsInv, NEW c \in Client, Friend!ReadRequest(c)
  PROVE  ContactsInv' /\ Friend!HonorsToken
<1> DEFINE ops == <<Friend!Handshake(c)>>
<1>0. ContactsType /\ Friend!MapsAgree
  BY DEF ContactsInv
<1>1. /\ user # None /\ Friend!OnceLoaded(user, ops) /\ toUs[c] # <<>>
      /\ Head(toUs[c]).type = "request" /\ toUs' = [toUs EXCEPT ![c] = Tail(toUs[c])]
      /\ UNCHANGED <<lasting, reads, wire, news, exchanged, theirs, up, contactRestarts>>
  BY DEF Friend!ReadRequest, Friend!Reads, Friend!friendVars
<1>2. user \in Friend!UserObject /\ Agree(user)
  BY <1>0, <1>1, MapsOfUser DEF ContactsType
<1>3. ops \in Seq(Friend!Op) /\ \A k \in 1..Len(ops) : ops[k] # Withdraw
  BY Operations
<1> HIDE DEF ops
<1>4. /\ user' \in Friend!UserObject /\ user' # None /\ due' \in Seq(Friend!Op)
      /\ contactOnDisk' \in ContactStore /\ toldClients' \in [Client -> Known]
      /\ GoesOn /\ Writes /\ Friend!MapsAgree' /\ FirstRead' /\ ToldLoaded'
      /\ user.consent.grants /\ (\A k \in 1..Len(ops) : ops[k] # Withdraw)
           => user'.consent.grants
  BY <1>1, <1>2, <1>3, Onward
<1>5. toUs' \in [Client -> Seq(FromFriend)] /\ TokensInTurn'
  <2>1. Head(toUs[c]).type # "instance"
    BY <1>1
  <2> QED
    BY <1>1, <1>4, <2>1, HeadTaken
<1>6. ContactsType'
  BY <1>0, <1>1, <1>4, <1>5 DEF ContactsType
<1>7. Friend!HonorsToken
  BY <1>1, <1>3, <1>4, StaysGranted, Honored
<1> QED
  BY <1>4, <1>5, <1>6, <1>7, StorageGoesOn DEF ContactsInv

(* By the invariant a token that is read finds the contact loaded and an       *)
(* instance of it known, so that the grant is stored at once.                  *)
LEMMA TokenOnward ==
  ASSUME ContactsInv, NEW c \in Client, Friend!ReadToken(c)
  PROVE  ContactsInv' /\ Friend!HonorsToken
<1> DEFINE u_ == [user EXCEPT !.consent.grants = TRUE]
           ops == <<Friend!Handshake(c), Friend!SaveOp>>
<1>0. ContactsType /\ Friend!MapsAgree /\ TokensInTurn /\ FirstRead /\ ToldLoaded
  BY DEF ContactsInv
<1>1. /\ user # None /\ toUs[c] # <<>>
      /\ Head(toUs[c]).type = "token" /\ toUs' = [toUs EXCEPT ![c] = Tail(toUs[c])]
      /\ exchanged' = TRUE
      /\ IF exchanged THEN UNCHANGED <<user, due, toldClients, contactOnDisk>>
         ELSE Friend!OnceLoaded(u_, ops)
      /\ UNCHANGED <<lasting, reads, wire, news, theirs, up, contactRestarts>>
  BY DEF Friend!ReadToken, Friend!Reads, Friend!friendVars
<1>2. user \in Friend!UserObject /\ Agree(user)
  BY <1>0, <1>1, MapsOfUser DEF ContactsType
<1>3. user.loaded /\ user.instances # {}
  <2> DEFINE s == toUs[c]
  <2>1. s \in Seq(FromFriend) /\ s # <<>> /\ InTurn(s)
    BY <1>0, <1>1 DEF ContactsType, TokensInTurn
  <2>2. 1 \in 1..Len(s) /\ s[1].type = "token"
    <3>1. Head(s).type = "token"
      BY <1>1
    <3> HIDE DEF s
    <3> QED
      BY <2>1, <3>1
  <2> HIDE DEF s
  <2>3. user.loaded /\ (HasInstances \/ \E j \in 1..1 - 1 : s[j].type = "instance")
    BY <2>1, <2>2 DEF InTurn
  <2> QED
    BY <2>3 DEF HasInstances
<1>4. /\ u_ \in Friend!UserObject /\ u_.loaded = user.loaded /\ u_.instances = user.instances
      /\ u_.consent.grants = TRUE /\ Agree(u_)
  <2>1. u_ \in Friend!UserObject /\ SameButGrant(user, u_) /\ u_.consent.grants = TRUE
    BY <1>2, GrantSet
  <2> QED
    BY <1>2, <2>1 DEF SameButGrant, Agree
<1>5. /\ ops \in Seq(Friend!Op) /\ Len(ops) > 0 /\ ops[Len(ops)] = Friend!SaveOp
      /\ \A k \in 1..Len(ops) : ops[k] # Withdraw
  <2>1. Len(ops) = 2 /\ ops[1] = Friend!Handshake(c) /\ ops[2] = Friend!SaveOp
    OBVIOUS
  <2>2. ops \in Seq(Friend!Op)
    BY Operations
  <2>3. \A k \in 1..2 : k = 1 \/ k = 2
    OBVIOUS
  <2> QED
    BY <2>1, <2>2, <2>3, Operations
<1> HIDE DEF u_, ops
<1>6. CASE exchanged
  <2>1. UNCHANGED <<user, due, toldClients, contactOnDisk, exchanged>>
    BY <1>0, <1>1, <1>6 DEF ContactsType
  <2>2. GoesOn /\ Writes
    BY <1>1, <1>2, <1>3, <2>1 DEF GoesOn, Writes, ContactsInv, GrantsStored
  <2>3. toUs' \in [Client -> Seq(FromFriend)] /\ TokensInTurn'
    <3>1. Head(toUs[c]).type # "instance"
      BY <1>1
    <3> QED
      BY <1>1, <2>2, <3>1, HeadTaken
  <2>4. ContactsType' /\ Friend!MapsAgree' /\ FirstRead' /\ ToldLoaded'
    BY <1>0, <1>1, <2>1, <2>3 DEF ContactsType, Friend!MapsAgree, FirstRead, ToldLoaded
  <2>5. Friend!HonorsToken
    BY <2>1, <2>2, StaysGranted, Honored
  <2> QED
    BY <2>2, <2>3, <2>4, <2>5, StorageGoesOn DEF ContactsInv
<1>7. CASE ~exchanged
  <2>1. Friend!OnceLoaded(u_, ops)
    BY <1>1, <1>7
  <2>2. /\ user' \in Friend!UserObject /\ user' # None /\ due' \in Seq(Friend!Op)
        /\ contactOnDisk' \in ContactStore /\ toldClients' \in [Client -> Known]
        /\ GoesOn /\ Writes /\ Friend!MapsAgree' /\ FirstRead' /\ ToldLoaded'
        /\ u_.consent.grants /\ (\A k \in 1..Len(ops) : ops[k] # Withdraw)
             => user'.consent.grants
    BY <1>1, <1>3, <1>4, <1>5, <2>1, Onward
  <2>3. contactOnDisk'.user.consent = user'.consent
    <3>1. u_.loaded /\ u_.instances # {}
      BY <1>3, <1>4
    <3>2. u_ \in Friend!UserObject /\ ops \in Seq(Friend!Op)
      BY <1>4, <1>5
    <3>3. /\ u_.loaded /\ u_.instances # {}
          /\ Len(ops) > 0 /\ ops[Len(ops)] = Friend!SaveOp
          => contactOnDisk'.user.consent = user'.consent
      BY <2>1, <3>2, OnceLoadedKeeps
    <3> QED
      BY <1>5, <3>1, <3>3
  <2>4. toUs' \in [Client -> Seq(FromFriend)] /\ TokensInTurn'
    <3>1. Head(toUs[c]).type # "instance"
      BY <1>1
    <3> QED
      BY <1>1, <2>2, <3>1, HeadTaken
  <2>5. ContactsType'
    BY <1>0, <1>1, <2>2, <2>4 DEF ContactsType
  <2>6. user'.consent.grants /\ contactOnDisk'.user.consent.grants
    BY <1>4, <1>5, <2>2, <2>3
  <2>7. Friend!HonorsToken
    <3>1. Friend!Granted => Friend!Granted'
      BY <2>2, <2>6, StaysGranted
    <3> QED
      BY <2>6, <3>1 DEF Friend!HonorsToken
  <2> QED
    BY <2>2, <2>4, <2>5, <2>7, StorageGoesOn DEF ContactsInv
<1> QED
  BY <1>6, <1>7

LEMMA ModifyOnward ==
  ASSUME ContactsInv, NEW g \in BOOLEAN, Friend!modifyConsent(g)
  PROVE  ContactsInv' /\ Friend!HonorsToken
<1> DEFINE ops == <<[op |-> "modify", grants |-> g]>>
<1>0. ContactsType /\ Friend!MapsAgree
  BY DEF ContactsInv
<1>1. /\ user # None /\ Friend!OnceLoaded(user, ops)
      /\ UNCHANGED <<lasting, reads, wire, news, exchanged, theirs, up, toUs, contactRestarts>>
  BY DEF Friend!modifyConsent, Friend!friendVars
<1>2. user \in Friend!UserObject /\ Agree(user)
  BY <1>0, <1>1, MapsOfUser DEF ContactsType
<1>3. ops \in Seq(Friend!Op) /\ (g => \A k \in 1..Len(ops) : ops[k] # Withdraw)
  BY Operations DEF Withdraw
<1> HIDE DEF ops
<1>4. /\ user' \in Friend!UserObject /\ user' # None /\ due' \in Seq(Friend!Op)
      /\ contactOnDisk' \in ContactStore /\ toldClients' \in [Client -> Known]
      /\ GoesOn /\ Writes /\ Friend!MapsAgree' /\ FirstRead' /\ ToldLoaded'
      /\ user.consent.grants /\ (\A k \in 1..Len(ops) : ops[k] # Withdraw)
           => user'.consent.grants
  BY <1>1, <1>2, <1>3, Onward
<1>5. ContactsType'
  BY <1>0, <1>1, <1>4 DEF ContactsType
<1>6. TokensInTurn'
  BY <1>1, <1>4, SameMessagesStay
<1>7. Friend!HonorsToken
  <2>1. CASE g
    BY <1>1, <1>3, <1>4, <2>1, StaysGranted, Honored
  <2>2. CASE ~g
    <3>1. Friend!modifyConsent(FALSE) /\ exchanged' = exchanged
      BY <1>1, <2>2
    <3> QED
      BY <3>1 DEF Friend!HonorsToken, Friend!Withdraws
  <2> QED
    BY <2>1, <2>2
<1> QED
  BY <1>4, <1>5, <1>6, <1>7, StorageGoesOn DEF ContactsInv

LEMMA OfflineOnward ==
  ASSUME ContactsInv, NEW c \in Client, Friend!handleClientOffline(c)
  PROVE  ContactsInv' /\ Friend!HonorsToken
<1> DEFINE x == [user EXCEPT !.online = user.online \ {c}, !.clientToInstance[c] = None]
           i == user.clientToInstance[c]
<1>0. ContactsType /\ Friend!MapsAgree /\ FirstRead /\ ToldLoaded /\ TokensInTurn
  BY DEF ContactsInv
<1>1. /\ user # None /\ c \in user.online \ up
      /\ user' = IF i \in Instance THEN [x EXCEPT !.instanceToClient[i] = None] ELSE x
      /\ toUs' = [toUs EXCEPT ![c] = <<>>]
      /\ toldClients' = [toldClients EXCEPT ![c] = None]
      /\ UNCHANGED <<lasting, reads, due, wire, news, contactOnDisk, exchanged, theirs, up,
                     contactRestarts>>
  BY DEF Friend!handleClientOffline, Friend!removeClient_, Friend!friendVars
<1>2. user \in Friend!UserObject /\ Agree(user)
  BY <1>0, <1>1, MapsOfUser DEF ContactsType
<1> DEFINE toInstance == [user.clientToInstance EXCEPT ![c] = None]
           toClient == [user.instanceToClient EXCEPT ![i] = None]
<1>3. x = [user EXCEPT !.online = user.online \ {c}, !.clientToInstance = toInstance]
  OBVIOUS
<1>4. /\ x \in Friend!UserObject /\ x.loaded = user.loaded /\ x.instances = user.instances
      /\ x.consent = user.consent /\ x.online = user.online \ {c}
      /\ x.instanceToClient = user.instanceToClient /\ x.clientToInstance = toInstance
  <2>1. toInstance \in [Client -> Instance \cup {None, Null}]
    BY <1>2 DEF Friend!UserObject
  <2> HIDE DEF toInstance, x
  <2> QED
    BY <1>2, <1>3, <2>1 DEF Friend!UserObject
<1>5. \A d \in Client : d # c => toInstance[d] = user.clientToInstance[d]
  BY <1>2 DEF Friend!UserObject
<1>6. toClient \in [Instance -> Client \cup {None}]
      /\ \A j \in Instance : toClient[j] = IF j = i THEN None ELSE user.instanceToClient[j]
  BY <1>2 DEF Friend!UserObject
<1> HIDE DEF toInstance, x
<1>7. /\ user' \in Friend!UserObject /\ user'.loaded = user.loaded
      /\ user'.instances = user.instances /\ user'.consent = user.consent
      /\ user'.online = user.online \ {c} /\ user'.clientToInstance = toInstance
      /\ user'.instanceToClient = IF i \in Instance THEN toClient ELSE user.instanceToClient
  <2>1. CASE i \in Instance
    <3>1. user' = [x EXCEPT !.instanceToClient = toClient]
      BY <1>1, <1>4, <2>1
    <3> HIDE DEF toClient
    <3> QED
      BY <1>4, <1>6, <2>1, <3>1 DEF Friend!UserObject
  <2>2. CASE i \notin Instance
    BY <1>1, <1>4, <2>2
  <2> QED
    BY <2>1, <2>2
<1> HIDE DEF toClient
<1>8. user' # None
  BY <1>7, NoContactAssumption
<1>9. Friend!MapsAgree'
  <2> SUFFICES ASSUME NEW j \in Instance, user'.instanceToClient[j] # None
               PROVE  /\ user'.instanceToClient[j] \in user'.online
                      /\ user'.clientToInstance[user'.instanceToClient[j]] = j
                      /\ InstanceOf[user'.instanceToClient[j]] = j
    BY DEF Friend!MapsAgree
  <2> DEFINE d == user.instanceToClient[j]
  <2>1. j # i /\ user'.instanceToClient[j] = d /\ d # None
    BY <1>6, <1>7
  <2>2. d \in user.online /\ user.clientToInstance[d] = j /\ InstanceOf[d] = j
    BY <1>2, <2>1 DEF Agree
  <2>3. d # c /\ d \in Client
    BY <1>2, <2>1, <2>2 DEF Friend!UserObject
  <2> HIDE DEF d
  <2> QED
    BY <1>5, <1>7, <2>1, <2>2, <2>3
<1>10. toUs' \in [Client -> Seq(FromFriend)] /\ toldClients' \in [Client -> Known]
  <2>1. <<>> \in Seq(FromFriend)
    OBVIOUS
  <2> QED
    BY <1>0, <1>1, <2>1 DEF ContactsType, Known
<1>11. ContactsType'
  BY <1>0, <1>1, <1>7, <1>8, <1>10 DEF ContactsType
<1>12. FirstRead' /\ ToldLoaded'
  BY <1>0, <1>1, <1>7, <1>8 DEF FirstRead, ToldLoaded, ContactsType
<1>13. TokensInTurn'
  <2>1. GoesOn
    BY <1>1, <1>7 DEF GoesOn
  <2>2. (HasInstances => HasInstances') /\ \A s : InTurn(s) => InTurn(s)'
    BY <2>1, StaysKnown
  <2>3. \A d \in Client : InTurn(toUs[d])'
    <3> SUFFICES ASSUME NEW d \in Client PROVE InTurn(toUs[d])'
      OBVIOUS
    <3>1. CASE d = c
      <4>1. Len(toUs'[d]) = 0
        BY <1>0, <1>1, <3>1 DEF ContactsType
      <4> QED
        BY <4>1 DEF InTurn
    <3>2. CASE d # c
      <4>1. toUs'[d] = toUs[d] /\ InTurn(toUs[d])
        BY <1>0, <1>1, <3>2 DEF ContactsType, TokensInTurn
      <4> QED
        BY <2>2, <4>1 DEF InTurn
    <3> QED
      BY <3>1, <3>2
  <2>4. \A d \in up : HasInstances' \/ Announces(toUs'[d])
    BY <1>0, <1>1, <2>2 DEF ContactsType, TokensInTurn
  <2> QED
    BY <1>1, <2>3, <2>4 DEF TokensInTurn, Announces
<1>14. GoesOn /\ Writes
  <2>1. GoesOn
    BY <1>1, <1>7 DEF GoesOn
  <2>2. user.loaded => StoreAhead(user', contactOnDisk'.user)
    BY <1>1, <1>7 DEF ContactsInv, GrantsStored, StoreAhead
  <2>3. UserRead' <=> UserRead
    BY <1>1 DEF UserRead
  <2>4. ReadsStored'
    BY <1>1 DEF ContactsInv, ReadsStored
  <2> QED
    BY <1>1, <1>7, <2>1, <2>2, <2>3, <2>4 DEF Writes
<1>15. Friend!HonorsToken
  BY <1>1, <1>7, <1>14, StaysGranted, Honored
<1> QED
  BY <1>9, <1>11, <1>12, <1>13, <1>14, <1>15, StorageGoesOn DEF ContactsInv

(* Whether an instance asks for access, and nothing else of the object.        *)
LEMMA RequestsSet ==
  ASSUME NEW u_ \in Friend!UserObject, NEW wires
  PROVE  LET v_ == Friend!updateRemoteRequestsAccessFromLocal(u_, wires) IN
         /\ v_ \in Friend!UserObject /\ v_.consent.grants = u_.consent.grants
         /\ v_.loaded = u_.loaded /\ v_.instances = u_.instances /\ v_.online = u_.online
         /\ v_.clientToInstance = u_.clientToInstance
         /\ v_.instanceToClient = u_.instanceToClient
<1> DEFINE bit == \E i \in u_.instances : wires[i] = TRUE
           c_ == [u_.consent EXCEPT !.remoteRequests = bit]
<1>1. bit \in BOOLEAN
  OBVIOUS
<1> HIDE DEF bit
<1>2. c_ \in Friend!Consent /\ c_.grants = u_.consent.grants
  BY <1>1 DEF Friend!UserObject, Friend!Consent
<1>3. Friend!updateRemoteRequestsAccessFromLocal(u_, wires) = [u_ EXCEPT !.consent = c_]
  BY DEF Friend!updateRemoteRequestsAccessFromLocal, bit
<1> HIDE DEF c_
<1> QED
  BY <1>2, <1>3 DEF Friend!UserObject

(* The maps after the instance of c was told of, the two changed together.     *)
LEMMA SyncedMaps ==
  ASSUME NEW u_ \in Friend!UserObject, Agree(u_), NEW c \in u_.online
  PROVE  LET i == InstanceOf[c]
             old == u_.instanceToClient[i]
             x == IF old = None THEN u_ ELSE [u_ EXCEPT !.clientToInstance[old] = Null]
             v_ == [x EXCEPT !.clientToInstance[c] = i, !.instanceToClient[i] = c,
                             !.instances = x.instances \cup {i}]
         IN  /\ v_ \in Friend!UserObject /\ v_.loaded = u_.loaded /\ v_.consent = u_.consent
             /\ v_.instances = u_.instances \cup {i} /\ Agree(v_)
<1> DEFINE i == InstanceOf[c]
           old == u_.instanceToClient[i]
           x == IF old = None THEN u_ ELSE [u_ EXCEPT !.clientToInstance[old] = Null]
           v_ == [x EXCEPT !.clientToInstance[c] = i, !.instanceToClient[i] = c,
                           !.instances = x.instances \cup {i}]
           toInstance == [u_.clientToInstance EXCEPT ![old] = Null]
<1>0. c \in Client /\ i \in Instance /\ old \in Client \cup {None}
  BY ContactAssumption DEF Friend!UserObject
<1>1. /\ x \in Friend!UserObject /\ x.loaded = u_.loaded /\ x.consent = u_.consent
      /\ x.instances = u_.instances /\ x.online = u_.online
      /\ x.instanceToClient = u_.instanceToClient
      /\ \A d \in Client : d # old => x.clientToInstance[d] = u_.clientToInstance[d]
  <2>1. CASE old = None
    BY <2>1
  <2>2. CASE old # None
    <3>1. /\ toInstance \in [Client -> Instance \cup {None, Null}]
          /\ \A d \in Client : d # old => toInstance[d] = u_.clientToInstance[d]
      BY DEF Friend!UserObject
    <3>2. x = [u_ EXCEPT !.clientToInstance = toInstance]
      BY <2>2
    <3> HIDE DEF toInstance, x
    <3> QED
      BY <3>1, <3>2 DEF Friend!UserObject
  <2> QED
    BY <2>1, <2>2
<1> DEFINE toInstance2 == [x.clientToInstance EXCEPT ![c] = i]
           toClient == [x.instanceToClient EXCEPT ![i] = c]
           all == x.instances \cup {i}
<1>2. v_ = [x EXCEPT !.clientToInstance = toInstance2, !.instanceToClient = toClient,
                     !.instances = all]
  OBVIOUS
<1> HIDE DEF x
<1>3. /\ toInstance2 \in [Client -> Instance \cup {None, Null}] /\ toInstance2[c] = i
      /\ \A d \in Client : d # c => toInstance2[d] = x.clientToInstance[d]
      /\ toClient \in [Instance -> Client \cup {None}] /\ toClient[i] = c
      /\ \A j \in Instance : j # i => toClient[j] = u_.instanceToClient[j]
  <2> HIDE DEF i
  <2> QED
    BY <1>0, <1>1 DEF Friend!UserObject
<1>4. all \in SUBSET Instance /\ all = u_.instances \cup {i}
  BY <1>0, <1>1 DEF Friend!UserObject
<1> HIDE DEF toInstance2, toClient, all, v_
<1>5. /\ v_ \in Friend!UserObject /\ v_.loaded = u_.loaded /\ v_.consent = u_.consent
      /\ v_.instances = u_.instances \cup {i} /\ v_.online = u_.online
      /\ v_.clientToInstance = toInstance2 /\ v_.instanceToClient = toClient
  BY <1>1, <1>2, <1>3, <1>4 DEF Friend!UserObject
<1>6. Agree(v_)
  <2> SUFFICES ASSUME NEW j \in Instance, toClient[j] # None
               PROVE  /\ toClient[j] \in u_.online /\ toInstance2[toClient[j]] = j
                      /\ InstanceOf[toClient[j]] = j
    BY <1>5 DEF Agree
  <2>1. CASE j = i
    BY <1>3, <2>1
  <2>2. CASE j # i
    <3> DEFINE d == u_.instanceToClient[j]
    <3>1. toClient[j] = d /\ d # None /\ d \in Client
      BY <1>3, <2>2 DEF Friend!UserObject
    <3>2. d \in u_.online /\ u_.clientToInstance[d] = j /\ InstanceOf[d] = j
      BY <3>1 DEF Agree
    <3>3. d # c
      BY <2>2, <3>2
    <3>4. d # old
      <4>1. old # None => u_.clientToInstance[old] = i
        BY <1>0 DEF Agree
      <4> QED
        BY <2>2, <3>1, <3>2, <4>1
    <3> HIDE DEF d, i, old
    <3> QED
      BY <1>1, <1>3, <3>1, <3>2, <3>3, <3>4
  <2> QED
    BY <2>1, <2>2
<1> QED
  BY <1>5, <1>6 DEF v_, x

LEMMA ReadTyped ==
  ASSUME ContactsInv, NEW i \in Instance
  PROVE  /\ Friend!Read(i) \in ReadRecord /\ Friend!Read(i).of = i /\ i # "user"
BY ContactAssumption DEF ContactsInv, ContactsType, ContactStore, Friend!Read, ReadRecord

(* One instance more is read. *)
LEMMA ReadMore ==
  ASSUME ContactsInv, NEW i \in Instance
  PROVE  LET all == Append(reads, Friend!Read(i)) IN
         /\ all \in Seq(ReadRecord)
         /\ \A k \in 1..Len(all) : all[k].of = "user" => k \in 1..Len(reads) /\ all[k] = reads[k]
         /\ \A k \in 1..Len(reads) : k \in 1..Len(all) /\ all[k] = reads[k]
<1> DEFINE r == Friend!Read(i)
           all == Append(reads, r)
<1>1. r \in ReadRecord /\ r.of # "user" /\ reads \in Seq(ReadRecord)
  BY ReadTyped DEF ContactsInv, ContactsType
<1> HIDE DEF r
<1>2. /\ all \in Seq(ReadRecord) /\ Len(all) = Len(reads) + 1 /\ Len(reads) \in Nat
      /\ \A k \in 1..Len(all) : IF k = Len(reads) + 1 THEN all[k] = r ELSE all[k] = reads[k]
  BY <1>1, AppendProperties
<1> HIDE DEF all
<1>3. ASSUME NEW k \in 1..Len(all), all[k].of = "user"
      PROVE  k \in 1..Len(reads) /\ all[k] = reads[k]
  <2>1. k # Len(reads) + 1
    BY <1>1, <1>2, <1>3
  <2> QED
    BY <1>2, <2>1
<1>4. ASSUME NEW k \in 1..Len(reads) PROVE k \in 1..Len(all) /\ all[k] = reads[k]
  BY <1>2
<1> QED
  BY <1>2, <1>3, <1>4 DEF all, r

LEMMA SyncOnward ==
  ASSUME ContactsInv, NEW c \in Client, Friend!syncInstance_(c)
  PROVE  ContactsInv' /\ Friend!HonorsToken
<1> DEFINE i == InstanceOf[c]
           old == user.instanceToClient[i]
           x == IF old = None THEN user ELSE [user EXCEPT !.clientToInstance[old] = Null]
           u_ == [x EXCEPT !.clientToInstance[c] = i, !.instanceToClient[i] = c,
                           !.instances = x.instances \cup {i}]
           bit == Head(toUs[c]).requests
           wires == [wire EXCEPT ![i] = bit]
           v_ == Friend!updateRemoteRequestsAccessFromLocal(u_, wires)
           s == [contactOnDisk EXCEPT !.wire = wires]
           more == Append(reads, Friend!Read(i))
<1>0. ContactsType /\ Friend!MapsAgree /\ FirstRead /\ ToldLoaded /\ TokensInTurn
  BY DEF ContactsInv
<1>1. /\ user # None /\ c \in user.online /\ toUs[c] # <<>> /\ Head(toUs[c]).type = "instance"
      /\ toUs' = [toUs EXCEPT ![c] = Tail(toUs[c])]
      /\ reads' = IF i \in user.instances THEN reads ELSE more
      /\ UNCHANGED <<lasting, exchanged, theirs, up, contactRestarts>>
  BY DEF Friend!syncInstance_, Friend!Reads, Friend!friendVars
<1>2. \/ /\ news' = [news EXCEPT ![i] = bit] /\ user' = u_
         /\ UNCHANGED <<wire, due, toldClients, contactOnDisk>>
      \/ /\ wire' = wires /\ UNCHANGED <<news, toldClients>> /\ user' = v_
         /\ \/ /\ v_.loaded
               /\ contactOnDisk' = [s EXCEPT !.user = Friend!Save(Friend!W(v_)).disk]
               /\ UNCHANGED due
            \/ ~v_.loaded /\ contactOnDisk' = s /\ due' = Append(due, Friend!SaveOp)
  BY Zenon DEF Friend!syncInstance_
<1>3. i \in Instance
  BY ContactAssumption
<1>4. bit \in BOOLEAN
  <2> DEFINE q == toUs[c]
  <2>1. q \in Seq(FromFriend) /\ q # <<>>
    BY <1>0, <1>1 DEF ContactsType
  <2>2. Head(q) \in FromFriend
    <3> HIDE DEF q
    <3> QED
      BY <2>1
  <2> DEFINE m == Head(q)
  <2>3. m \in FromFriend /\ m.type = "instance"
    BY <1>1, <2>2
  <2> HIDE DEF m
  <2>4. m.requests \in BOOLEAN
    BY <2>3 DEF FromFriend
  <2> QED
    BY <2>4 DEF m
<1>5. user \in Friend!UserObject /\ Agree(user)
  BY <1>0, <1>1, MapsOfUser DEF ContactsType
<1>6. /\ u_ \in Friend!UserObject /\ u_.loaded = user.loaded /\ u_.consent = user.consent
      /\ u_.instances = user.instances \cup {i} /\ Agree(u_)
  BY <1>1, <1>5, SyncedMaps
<1> HIDE DEF u_, x, old
<1>7. wires \in [Instance -> Known]
  BY <1>0, <1>3, <1>4 DEF ContactsType, Known
<1>8. /\ s \in ContactStore /\ s.user = contactOnDisk.user
      /\ contactOnDisk.user \in StoredUser \cup {None}
  BY <1>0, <1>7 DEF ContactsType, ContactStore
<1> HIDE DEF wires, bit
<1>9. /\ v_ \in Friend!UserObject /\ v_.consent.grants = u_.consent.grants
      /\ v_.loaded = u_.loaded /\ v_.instances = u_.instances /\ v_.online = u_.online
      /\ v_.clientToInstance = u_.clientToInstance /\ v_.instanceToClient = u_.instanceToClient
  BY <1>6, RequestsSet
<1> HIDE DEF v_, s
<1>10. /\ user' \in Friend!UserObject /\ user'.consent.grants = user.consent.grants
       /\ user'.loaded = user.loaded /\ user'.instances = user.instances \cup {i} /\ Agree(user')
  BY <1>2, <1>6, <1>9 DEF Agree
<1>11. user' # None /\ GoesOn
  BY <1>1, <1>10, NoContactAssumption DEF GoesOn
<1>12. /\ Friend!Save(Friend!W(v_)).disk \in StoredUser \cup {None}
       /\ StoreAhead(v_, Friend!Save(Friend!W(v_)).disk)
       /\ contactOnDisk.user # None => Friend!Save(Friend!W(v_)).disk # None
  <2> DEFINE w == Friend!W(v_)
             y == Friend!Save(w)
  <2>1. w \in Work /\ w.user = v_ /\ w.disk = contactOnDisk.user
    BY <1>0, <1>8, <1>9 DEF Friend!W, Work, ContactsType
  <2>2. w.user.instances # {}
    BY <1>6, <1>9, <2>1
  <2> HIDE DEF w
  <2>3. /\ y \in Work /\ StoreAhead(w.user, y.disk)
        /\ w.disk # None => y.disk # None
    BY <2>1, <2>2, SaveIs, SaveAhead
  <2> HIDE DEF y
  <2>4. y.disk \in StoredUser \cup {None}
    BY <2>3 DEF Work
  <2> QED
    BY <2>1, <2>3, <2>4 DEF y, w
<1>13. contactOnDisk' \in ContactStore
  <2> DEFINE z == Friend!Save(Friend!W(v_)).disk
  <2>1. [s EXCEPT !.user = z] \in ContactStore
    <3>1. z \in StoredUser \cup {None}
      BY <1>12
    <3> HIDE DEF z
    <3> QED
      BY <1>8, <3>1, StorageTyped
  <2> QED
    BY <1>0, <1>2, <1>8, <2>1 DEF ContactsType
<1>14. news' \in [Instance -> Known] /\ wire' \in [Instance -> Known]
  BY <1>0, <1>2, <1>3, <1>4, <1>7 DEF ContactsType, Known
<1>15. due' \in Seq(Friend!Op) /\ toldClients' = toldClients
  <2>1. Append(due, Friend!SaveOp) \in Seq(Friend!Op)
    BY <1>0, Operations, AppendProperties DEF ContactsType
  <2> QED
    BY <1>0, <1>2, <2>1 DEF ContactsType
<1>16. /\ reads' \in Seq(ReadRecord)
       /\ \A k \in 1..Len(reads') : reads'[k].of = "user"
            => k \in 1..Len(reads) /\ reads'[k] = reads[k]
       /\ \A k \in 1..Len(reads) : k \in 1..Len(reads') /\ reads'[k] = reads[k]
  <2>1. /\ more \in Seq(ReadRecord)
        /\ \A k \in 1..Len(more) : more[k].of = "user"
             => k \in 1..Len(reads) /\ more[k] = reads[k]
        /\ \A k \in 1..Len(reads) : k \in 1..Len(more) /\ more[k] = reads[k]
    BY <1>3, ReadMore
  <2> HIDE DEF more
  <2> QED
    BY <1>0, <1>1, <2>1 DEF ContactsType
<1> HIDE DEF i, more
<1>17. toUs' \in [Client -> Seq(FromFriend)] /\ TokensInTurn'
  <2>1. user'.instances # {}
    BY <1>10
  <2> QED
    BY <1>1, <1>11, <2>1, HeadTaken
<1>18. ContactsType'
  BY <1>0, <1>1, <1>10, <1>11, <1>13, <1>14, <1>15, <1>16, <1>17 DEF ContactsType
<1>19. FirstRead' /\ ToldLoaded' /\ Friend!MapsAgree'
  <2>1. FirstRead'
    BY <1>0, <1>10, <1>16 DEF FirstRead
  <2>2. ToldLoaded'
    BY <1>0, <1>10, <1>11, <1>15 DEF ToldLoaded
  <2>3. Friend!MapsAgree'
    BY <1>10 DEF Friend!MapsAgree, Agree
  <2> QED
    BY <2>1, <2>2, <2>3
<1>20. UserRead' <=> UserRead
  BY <1>16 DEF UserRead
<1>21. contactOnDisk'.user = contactOnDisk.user => ReadsStored'
  <2>1. ReadsStored
    BY DEF ContactsInv
  <2> QED
    BY <1>16, <2>1 DEF ReadsStored
<1>22. user.loaded => /\ StoreAhead(user', contactOnDisk'.user)
                      /\ contactOnDisk.user # None => contactOnDisk'.user # None
  <2> SUFFICES ASSUME user.loaded
               PROVE  /\ StoreAhead(user', contactOnDisk'.user)
                      /\ contactOnDisk.user # None => contactOnDisk'.user # None
    OBVIOUS
  <2>1. StoreAhead(user, contactOnDisk.user)
    BY <1>1 DEF ContactsInv, GrantsStored
  <2>2. CASE user' = u_ /\ contactOnDisk' = contactOnDisk
    BY <1>6, <2>1, <2>2 DEF StoreAhead
  <2>3. CASE user' = v_ /\ contactOnDisk' = [s EXCEPT !.user = Friend!Save(Friend!W(v_)).disk]
    <3> DEFINE z == Friend!Save(Friend!W(v_)).disk
    <3> HIDE DEF z
    <3>1. contactOnDisk'.user = z
      BY <1>8, <2>3 DEF z, ContactStore
    <3>2. StoreAhead(v_, z) /\ (contactOnDisk.user # None => z # None)
      BY <1>12 DEF z
    <3> QED
      BY <2>3, <3>1, <3>2
  <2> QED
    BY <1>2, <1>6, <1>9, <2>2, <2>3
<1>23. ~user.loaded => contactOnDisk'.user = contactOnDisk.user
  BY <1>2, <1>6, <1>8, <1>9
<1>24. Writes
  BY <1>1, <1>10, <1>20, <1>21, <1>22, <1>23 DEF Writes
<1>25. Friend!HonorsToken
  BY <1>1, <1>10, <1>11, <1>24, StaysGranted, Honored
<1> QED
  BY <1>11, <1>17, <1>18, <1>19, <1>24, <1>25, StorageGoesOn DEF ContactsInv

-----------------------------------------------------------------------------
(* The contact is loaded, and what was due is done. *)
LEMMA Loads ==
  ASSUME ContactsInv, user # None, NEW u_ \in Friend!UserObject, Agree(u_),
         user.instances \subseteq u_.instances, NEW ops \in Seq(Friend!Op),
         NEW store \in ContactStore, NEW x,
         x = Friend!DoAll([user |-> [u_ EXCEPT !.loaded = TRUE], told |-> toldClients,
                           disk |-> contactOnDisk.user], ops),
         user' = x.user, toldClients' = x.told, due' = <<>>,
         contactOnDisk' = [store EXCEPT !.user = x.disk],
         \A k \in 1..Len(reads') : reads'[k].of # "user"
  PROVE  /\ user' \in Friend!UserObject /\ user' # None /\ due' \in Seq(Friend!Op)
         /\ contactOnDisk' \in ContactStore /\ toldClients' \in [Client -> Known]
         /\ GoesOn /\ Friend!MapsAgree' /\ FirstRead' /\ ToldLoaded'
         /\ u_.consent.grants /\ (\A k \in 1..Len(ops) : ops[k] # Withdraw)
              => user'.consent.grants
         /\ user'.loaded /\ (contactOnDisk.user # None => contactOnDisk'.user # None)
         /\ StoreAhead(u_, contactOnDisk.user) => StoreAhead(user', contactOnDisk'.user)
         /\ Len(ops) > 0 /\ ops[Len(ops)] = Friend!SaveOp /\ u_.instances # {}
              => StoreAhead(user', contactOnDisk'.user)
<1> DEFINE v_ == [u_ EXCEPT !.loaded = TRUE]
           w == [user |-> v_, told |-> toldClients, disk |-> contactOnDisk.user]
<1>0. ContactsType
  BY DEF ContactsInv
<1>1. /\ v_ \in Friend!UserObject /\ v_.loaded /\ v_.instances = u_.instances /\ v_.online = u_.online
      /\ v_.clientToInstance = u_.clientToInstance /\ v_.consent = u_.consent
      /\ v_.instanceToClient = u_.instanceToClient
  BY DEF Friend!UserObject
<1> HIDE DEF v_
<1>2. w \in Work /\ w.user = v_ /\ w.disk = contactOnDisk.user
  BY <1>0, <1>1, StorageTyped DEF ContactsType, Work
<1>3. x = Friend!DoAll(w, ops)
  BY DEF v_
<1> HIDE DEF w
<1>4. /\ x \in Work /\ SameButGrant(v_, x.user)
      /\ v_.consent.grants /\ (\A k \in 1..Len(ops) : ops[k] # Withdraw)
           => x.user.consent.grants
      /\ Len(ops) > 0 /\ ops[Len(ops)] = Friend!SaveOp /\ w.user.instances # {}
           => StoreAhead(x.user, x.disk)
      /\ w.disk # None => x.disk # None
      /\ StoreAhead(w.user, w.disk) => StoreAhead(x.user, x.disk)
  BY <1>2, <1>3, DoneAll
<1>5. /\ x.user \in Friend!UserObject /\ x.told \in [Client -> Known]
      /\ x.disk \in StoredUser \cup {None}
  BY <1>4 DEF Work
<1>6. /\ contactOnDisk' \in ContactStore /\ due' \in Seq(Friend!Op)
      /\ user' # None /\ user'.loaded
  <2>1. user' # None
    BY <1>5, NoContactAssumption
  <2>2. contactOnDisk' \in ContactStore
    BY <1>5, StorageTyped
  <2>3. due' \in Seq(Friend!Op)
    OBVIOUS
  <2>4. user'.loaded
    BY <1>1, <1>4 DEF SameButGrant
  <2> QED
    BY <2>1, <2>2, <2>3, <2>4
<1>7. GoesOn
  BY <1>1, <1>4, <1>5, <1>6 DEF GoesOn, SameButGrant
<1>8. Friend!MapsAgree'
  BY <1>1, <1>4 DEF Friend!MapsAgree, Agree, SameButGrant
<1>9. FirstRead' /\ ToldLoaded'
  BY <1>6 DEF FirstRead, ToldLoaded
<1>10. contactOnDisk'.user = x.disk
  BY DEF ContactStore
<1>11. StoreAhead(u_, contactOnDisk.user) => StoreAhead(w.user, w.disk)
  BY <1>1, <1>2 DEF StoreAhead
<1> QED
  BY <1>1, <1>2, <1>4, <1>5, <1>6, <1>7, <1>8, <1>9, <1>10, <1>11

(* What is in storage once the contact is loaded. *)
LEMMA LoadedStorage ==
  ASSUME ContactsInv, user' # None, user'.loaded, StoreAhead(user', contactOnDisk'.user),
         \A k \in 1..Len(reads') : reads'[k].of # "user", UNCHANGED lasting
  PROVE  /\ ReadsStored' /\ Restored' /\ GrantsStored'
         /\ StoredOnes(contactOnDisk.user)' /\ StoredOnes(lasting.user)'
<1>1. ReadsStored' /\ Restored' /\ GrantsStored'
  BY DEF ReadsStored, Restored, GrantsStored
<1>2. StoredOnes(contactOnDisk.user)' /\ StoredOnes(lasting.user)'
  BY DEF ContactsInv, StoredOnes, StoreAhead
<1> QED
  BY <1>1, <1>2

LEMMA SameCardinalityThere == \A S : Friend!Cardinality(S) = Cardinality(S)
BY Zenon DEF Friend!Cardinality, Cardinality

(* The reads of instances, in whatever order. *)
LEMMA InSomeOrder ==
  ASSUME ContactsInv, NEW S \in SUBSET Instance,
         NEW new \in Friend!SetToSeqs({Friend!Read(i) : i \in S})
  PROVE  new \in Seq(ReadRecord) /\ \A k \in 1..Len(new) : new[k].of # "user"
<1> DEFINE R == {Friend!Read(i) : i \in S}
           f == [i \in S |-> Friend!Read(i)]
           n == Friend!Cardinality(R)
<1>1. n \in Nat
  <2>1. IsFiniteSet(S)
    BY ContactAssumption, FS_Subset
  <2>2. f \in Surjection(S, R)
    BY DEF Surjection
  <2> HIDE DEF f, R
  <2>3. IsFiniteSet(R)
    BY <2>1, <2>2, FS_Surjection
  <2>4. Cardinality(R) \in Nat
    BY <2>3, FS_CardinalityType
  <2> QED
    BY <2>4, SameCardinalityThere
<1>2. new \in [1..n -> R]
  BY DEF Friend!SetToSeqs
<1>3. \A r \in R : r \in ReadRecord /\ r.of # "user"
  BY ReadTyped
<1> HIDE DEF R, n
<1> QED
  BY <1>1, <1>2, <1>3

LEMMA RestoreStateOnward ==
  ASSUME ContactsInv, Friend!restoreState
  PROVE  ContactsInv' /\ Friend!HonorsToken
<1> DEFINE r == Head(reads)
           s == r.value
           rest == Tail(reads)
           u_ == [user EXCEPT !.consent = s.consent,
                              !.instances = user.instances \cup s.instances]
           more == s.instances \ user.instances
<1>0. ContactsType /\ Friend!MapsAgree /\ FirstRead /\ ToldLoaded /\ TokensInTurn
  BY DEF ContactsInv
<1>1. /\ reads # <<>> /\ r.of = "user"
      /\ \/ s = None /\ Friend!FinishLoad(user, Friend!W(user)) /\ reads' = rest
         \/ /\ s # None
            /\ \E new \in Friend!SetToSeqs({Friend!Read(i) : i \in more}) :
                 /\ reads' = rest \o new
                 /\ \/ Friend!FinishLoad(u_, Friend!W(u_))
                    \/ user' = u_ /\ UNCHANGED <<due, toldClients, contactOnDisk>>
      /\ UNCHANGED <<lasting, wire, news, exchanged, theirs, up, toUs, contactRestarts>>
  BY DEF Friend!restoreState, Friend!friendVars
<1>2. user # None /\ user \in Friend!UserObject /\ Agree(user)
  BY <1>0, <1>1, MapsOfUser DEF ContactsType
<1>3. /\ r \in ReadRecord /\ r = reads[1] /\ 1 \in 1..Len(reads)
      /\ rest \in Seq(ReadRecord) /\ Len(rest) = Len(reads) - 1
      /\ \A k \in 1..Len(rest) : rest[k] = reads[k + 1] /\ k + 1 \in 1..Len(reads)
  BY <1>0, <1>1 DEF ContactsType
<1>4. \A k \in 1..Len(rest) : rest[k].of # "user"
  <2> SUFFICES ASSUME NEW k \in 1..Len(rest), rest[k].of = "user" PROVE FALSE
    OBVIOUS
  <2>1. k + 1 = 1
    BY <1>0, <1>3 DEF FirstRead
  <2> QED
    BY <2>1
<1>5. ~user.loaded /\ ~user.consent.grants
  BY <1>0, <1>1, <1>3 DEF FirstRead
<1> HIDE DEF rest
<1>6. s \in StoredUser \cup {None} /\ s = contactOnDisk.user
  <2>1. s = contactOnDisk.user
    BY <1>1, <1>3 DEF ContactsInv, ReadsStored
  <2> HIDE DEF r
  <2> QED
    BY <1>1, <1>3, <2>1, ContactAssumption DEF ReadRecord
<1> HIDE DEF r, s
<1>7. ASSUME s # None
      PROVE  /\ u_ \in Friend!UserObject /\ u_.loaded = user.loaded /\ Agree(u_)
             /\ user.instances \subseteq u_.instances /\ more \in SUBSET Instance
             /\ u_.consent = s.consent /\ u_.instances # {} /\ s.instances # {}
  <2>1. s \in StoredUser /\ s.instances # {}
    BY <1>6, <1>7 DEF ContactsInv, StoredOnes
  <2> DEFINE all == user.instances \cup s.instances
             con == s.consent
  <2>2. all \in SUBSET Instance /\ con \in Friend!Consent /\ user.instances \subseteq all
        /\ more \in SUBSET Instance /\ all # {}
    BY <1>2, <2>1 DEF StoredUser, Friend!UserObject
  <2>3. u_ = [user EXCEPT !.consent = con, !.instances = all]
    OBVIOUS
  <2> HIDE DEF all, con, u_
  <2>4. /\ u_ \in Friend!UserObject /\ u_.loaded = user.loaded /\ u_.online = user.online
        /\ u_.clientToInstance = user.clientToInstance
        /\ u_.instanceToClient = user.instanceToClient /\ u_.instances = all
        /\ u_.consent = con
    BY <1>2, <2>2, <2>3 DEF Friend!UserObject
  <2>5. u_.consent = s.consent
    BY <2>4 DEF con
  <2> QED
    BY <1>2, <2>1, <2>2, <2>4, <2>5 DEF Agree
<1> HIDE DEF u_, more
<1>8. ASSUME s # None, NEW new \in Friend!SetToSeqs({Friend!Read(i) : i \in more}),
             reads' = rest \o new
      PROVE  reads' \in Seq(ReadRecord) /\ \A k \in 1..Len(reads') : reads'[k].of # "user"
  <2>1. new \in Seq(ReadRecord) /\ \A k \in 1..Len(new) : new[k].of # "user"
    BY <1>7, <1>8, InSomeOrder
  <2>2. /\ rest \o new \in Seq(ReadRecord) /\ Len(rest \o new) = Len(rest) + Len(new)
        /\ \A k \in 1..Len(rest) + Len(new) :
             (rest \o new)[k] = IF k <= Len(rest) THEN rest[k] ELSE new[k - Len(rest)]
    BY <1>3, <2>1, ConcatProperties
  <2>3. Len(rest) \in Nat /\ Len(new) \in Nat
    BY <1>3, <2>1
  <2> QED
    BY <1>4, <1>8, <2>1, <2>2, <2>3
<1>9. reads' \in Seq(ReadRecord) /\ \A k \in 1..Len(reads') : reads'[k].of # "user"
  BY <1>1, <1>3, <1>4, <1>8
<1>10. ASSUME NEW x_ \in Friend!UserObject, Agree(x_), user.instances \subseteq x_.instances,
              Friend!FinishLoad(x_, Friend!W(x_))
       PROVE  /\ user' \in Friend!UserObject /\ user' # None /\ due' \in Seq(Friend!Op)
              /\ contactOnDisk' \in ContactStore /\ toldClients' \in [Client -> Known]
              /\ GoesOn /\ Friend!MapsAgree' /\ FirstRead' /\ ToldLoaded'
              /\ x_.consent.grants /\ (\A k \in 1..Len(due) : due[k] # Withdraw)
                   => user'.consent.grants
              /\ user'.loaded /\ (contactOnDisk.user # None => contactOnDisk'.user # None)
              /\ StoreAhead(x_, contactOnDisk.user) => StoreAhead(user', contactOnDisk'.user)
  <2> DEFINE start == [user |-> [x_ EXCEPT !.loaded = TRUE], told |-> toldClients,
                       disk |-> contactOnDisk.user]
             x == Friend!DoAll(start, due)
  <2>1. [Friend!W(x_) EXCEPT !.user = [x_ EXCEPT !.loaded = TRUE]] = start
    <3> DEFINE y == [x_ EXCEPT !.loaded = TRUE]
    <3> HIDE DEF y
    <3>1. [Friend!W(x_) EXCEPT !.user = y]
            = [user |-> y, told |-> toldClients, disk |-> contactOnDisk.user]
      BY DEF Friend!W
    <3> QED
      BY <3>1 DEF y
  <2>2. /\ user' = x.user /\ toldClients' = x.told /\ due' = <<>>
        /\ contactOnDisk' = [contactOnDisk EXCEPT !.user = x.disk]
    BY <1>10, <2>1 DEF Friend!FinishLoad
  <2>3. PICK y : y = x
    OBVIOUS
  <2>4. due \in Seq(Friend!Op) /\ contactOnDisk \in ContactStore
    BY <1>0 DEF ContactsType
  <2>5. /\ user' = y.user /\ toldClients' = y.told /\ due' = <<>>
        /\ contactOnDisk' = [contactOnDisk EXCEPT !.user = y.disk]
    BY <2>2, <2>3
  <2> QED
    BY <1>2, <1>9, <1>10, <2>3, <2>4, <2>5, Loads
<1> DEFINE Storage == /\ ReadsStored' /\ Restored' /\ GrantsStored'
                     /\ StoredOnes(contactOnDisk.user)' /\ StoredOnes(lasting.user)'
           Honors == Friend!Granted => Friend!Granted' \/ \E k \in 1..Len(due) : due[k] = Withdraw
<1>11. ASSUME NEW x_ \in Friend!UserObject, Agree(x_), user.instances \subseteq x_.instances,
              Friend!FinishLoad(x_, Friend!W(x_)), StoreAhead(x_, contactOnDisk.user),
              contactOnDisk.user # None => x_.consent = contactOnDisk.user.consent
       PROVE  Storage /\ Honors
  <2>1. /\ user' # None /\ user'.loaded
        /\ x_.consent.grants /\ (\A k \in 1..Len(due) : due[k] # Withdraw)
             => user'.consent.grants
        /\ contactOnDisk.user # None => contactOnDisk'.user # None
        /\ StoreAhead(user', contactOnDisk'.user)
    BY <1>10, <1>11
  <2>2. Storage
    BY <1>1, <1>9, <2>1, LoadedStorage
  <2>3. Honors
    BY <1>2, <1>5, <1>11, <2>1 DEF Friend!Granted
  <2> QED
    BY <2>2, <2>3
<1> HIDE DEF Storage, Honors
<1>12. /\ user' \in Friend!UserObject /\ user' # None /\ due' \in Seq(Friend!Op)
       /\ contactOnDisk' \in ContactStore /\ toldClients' \in [Client -> Known]
       /\ GoesOn /\ Friend!MapsAgree' /\ FirstRead' /\ ToldLoaded'
       /\ Storage /\ Honors
  <2>1. CASE s = None /\ Friend!FinishLoad(user, Friend!W(user))
    <3>1. StoreAhead(user, contactOnDisk.user)
      BY <1>6, <2>1 DEF StoreAhead
    <3>2. Storage /\ Honors
      BY <1>2, <1>6, <1>11, <2>1, <3>1
    <3> QED
      BY <1>2, <1>10, <2>1, <3>2
  <2>2. CASE s # None /\ Friend!FinishLoad(u_, Friend!W(u_))
    <3>1. StoreAhead(u_, contactOnDisk.user)
      BY <1>6, <1>7, <2>2 DEF StoreAhead
    <3>2. Storage /\ Honors
      BY <1>6, <1>7, <1>11, <2>2, <3>1
    <3> QED
      BY <1>7, <1>10, <2>2, <3>2
  <2>3. CASE s # None /\ user' = u_ /\ UNCHANGED <<due, toldClients, contactOnDisk>>
    <3>1. user' \in Friend!UserObject /\ user' # None /\ GoesOn
      BY <1>2, <1>7, <2>3, NoContactAssumption DEF GoesOn
    <3>2. Friend!MapsAgree'
      BY <1>7, <2>3 DEF Friend!MapsAgree, Agree
    <3>3. FirstRead' /\ ToldLoaded'
      BY <1>0, <1>5, <1>9, <2>3 DEF FirstRead, ToldLoaded
    <3>4. ~user'.loaded /\ user'.consent = s.consent /\ user'.instances # {}
      BY <1>5, <1>7, <2>3
    <3>5. Storage
      <4>1. ReadsStored'
        BY <1>9 DEF ReadsStored
      <4>2. Restored' /\ GrantsStored'
        BY <1>6, <2>3, <3>4 DEF Restored, GrantsStored
      <4>3. StoredOnes(contactOnDisk.user)' /\ StoredOnes(lasting.user)'
        BY <1>1, <2>3 DEF ContactsInv, StoredOnes
      <4> QED
        BY <4>1, <4>2, <4>3 DEF Storage
    <3>6. Honors
      BY <1>5, <2>3, <3>4 DEF Honors, Friend!Granted
    <3> QED
      BY <1>0, <2>3, <3>1, <3>2, <3>3, <3>5, <3>6 DEF ContactsType
  <2> QED
    BY <1>1, <2>1, <2>2, <2>3
<1>13. ContactsType'
  BY <1>0, <1>1, <1>9, <1>12 DEF ContactsType
<1>14. TokensInTurn'
  BY <1>1, <1>12, SameMessagesStay
<1>15. Friend!HonorsToken
  BY <1>1, <1>12 DEF Friend!HonorsToken, Friend!Withdraws, Honors, Withdraw
<1> QED
  BY <1>12, <1>13, <1>14, <1>15 DEF ContactsInv, Storage

LEMMA RestoreInstanceOnward ==
  ASSUME ContactsInv, Friend!restoreInstance
  PROVE  ContactsInv' /\ Friend!HonorsToken
<1> DEFINE r == Head(reads)
           i == r.of
           was == IF r.value = None THEN FALSE ELSE r.value
           bit == IF news[i] = None THEN was ELSE news[i]
           wires == [wire EXCEPT ![i] = bit]
           u_ == IF news[i] = None THEN user
                 ELSE Friend!updateRemoteRequestsAccessFromLocal(user, wires)
           store == [contactOnDisk EXCEPT !.wire[i] =
                       IF news[i] = None THEN contactOnDisk.wire[i] ELSE news[i]]
           ops == Append(due, Friend!SaveOp)
           start == [user |-> [u_ EXCEPT !.loaded = TRUE], told |-> toldClients,
                     disk |-> contactOnDisk.user]
           x == Friend!DoAll(start, ops)
           rest == Tail(reads)
           z == Friend!Save(Friend!W(u_)).disk
<1>0. ContactsType /\ Friend!MapsAgree /\ FirstRead /\ ToldLoaded /\ TokensInTurn
  BY DEF ContactsInv
<1>1. /\ reads # <<>> /\ i # "user" /\ reads' = rest
      /\ wire' = wires /\ news' = [news EXCEPT ![i] = None]
      /\ UNCHANGED <<lasting, exchanged, theirs, up, toUs, contactRestarts>>
  BY DEF Friend!restoreInstance, Friend!friendVars
<1>2. \/ /\ ~user.loaded /\ user' = x.user /\ toldClients' = x.told /\ due' = <<>>
         /\ contactOnDisk' = [store EXCEPT !.user = x.disk]
      \/ /\ user' = u_ /\ UNCHANGED <<due, toldClients>>
         /\ contactOnDisk' = IF u_.loaded THEN [store EXCEPT !.user = z] ELSE store
  BY Zenon DEF Friend!restoreInstance
<1>3. user # None /\ user \in Friend!UserObject /\ Agree(user)
  BY <1>0, <1>1, MapsOfUser DEF ContactsType
<1>4. /\ r \in ReadRecord /\ r = reads[1] /\ 1 \in 1..Len(reads)
      /\ rest \in Seq(ReadRecord) /\ Len(rest) = Len(reads) - 1
      /\ \A k \in 1..Len(rest) : rest[k] = reads[k + 1] /\ k + 1 \in 1..Len(reads)
  BY <1>0, <1>1 DEF ContactsType
<1>5. \A k \in 1..Len(rest) : rest[k].of # "user"
  <2> SUFFICES ASSUME NEW k \in 1..Len(rest), rest[k].of = "user" PROVE FALSE
    OBVIOUS
  <2>1. k + 1 = 1
    BY <1>0, <1>4 DEF FirstRead
  <2> QED
    BY <2>1
<1>5a. ~UserRead
  <2> SUFFICES ASSUME NEW k \in 1..Len(reads), reads[k].of = "user" PROVE FALSE
    BY DEF UserRead
  <2>1. k = 1
    BY <1>0 DEF FirstRead
  <2> QED
    BY <1>1, <1>4, <2>1
<1> HIDE DEF rest
<1>6. i \in Instance /\ bit \in Known
  <2>1. i \in Instance /\ r.value \in Known
    <3> HIDE DEF r
    <3> QED
      BY <1>1, <1>4 DEF ReadRecord
  <2> HIDE DEF i, r
  <2>2. news[i] \in Known
    BY <1>0, <2>1 DEF ContactsType
  <2> QED
    BY <2>1, <2>2 DEF Known
<1> HIDE DEF i, r, bit
<1>7. wires \in [Instance -> Known] /\ news' \in [Instance -> Known]
  BY <1>0, <1>1, <1>6 DEF ContactsType, Known
<1> HIDE DEF wires
<1>8. store \in ContactStore /\ store.user = contactOnDisk.user
  <2> DEFINE entry == IF news[i] = None THEN contactOnDisk.wire[i] ELSE news[i]
             entries == [contactOnDisk.wire EXCEPT ![i] = entry]
  <2>1. entry \in Known
    BY <1>0, <1>6 DEF ContactsType, ContactStore, Known
  <2>2. store = [contactOnDisk EXCEPT !.wire = entries]
    OBVIOUS
  <2> HIDE DEF entry, store
  <2>3. entries \in [Instance -> Known]
    BY <1>0, <1>6, <2>1 DEF ContactsType, ContactStore
  <2> HIDE DEF entries
  <2> QED
    BY <1>0, <2>2, <2>3 DEF ContactsType, ContactStore
<1> HIDE DEF store
<1>9. /\ u_ \in Friend!UserObject /\ u_.consent.grants = user.consent.grants
      /\ u_.loaded = user.loaded /\ u_.instances = user.instances /\ u_.online = user.online
      /\ u_.clientToInstance = user.clientToInstance
      /\ u_.instanceToClient = user.instanceToClient
  BY <1>3, RequestsSet
<1> HIDE DEF u_
<1>10. Agree(u_)
  BY <1>3, <1>9 DEF Agree
<1>11. /\ ops \in Seq(Friend!Op) /\ due \in Seq(Friend!Op) /\ Len(ops) = Len(due) + 1
       /\ Len(due) \in Nat /\ ops[Len(due) + 1] = Friend!SaveOp
       /\ \A k \in 1..Len(due) : ops[k] = due[k]
  BY <1>0, Operations, AppendProperties DEF ContactsType
<1> HIDE DEF ops
<1>12. reads' \in Seq(ReadRecord) /\ \A k \in 1..Len(reads') : reads'[k].of # "user"
  BY <1>1, <1>4, <1>5
<1>13. CASE /\ ~user.loaded /\ user' = x.user /\ toldClients' = x.told /\ due' = <<>>
            /\ contactOnDisk' = [store EXCEPT !.user = x.disk]
  <2>1. PICK y : y = x
    OBVIOUS
  <2>2. /\ user' = y.user /\ toldClients' = y.told /\ due' = <<>>
        /\ contactOnDisk' = [store EXCEPT !.user = y.disk]
    BY <1>13, <2>1
  <2>3. user.instances \subseteq u_.instances
    BY <1>9
  <2>4. /\ user' \in Friend!UserObject /\ user' # None /\ due' \in Seq(Friend!Op)
        /\ contactOnDisk' \in ContactStore /\ toldClients' \in [Client -> Known]
        /\ GoesOn /\ Friend!MapsAgree' /\ FirstRead' /\ ToldLoaded'
        /\ u_.consent.grants /\ (\A k \in 1..Len(ops) : ops[k] # Withdraw)
             => user'.consent.grants
        /\ user'.loaded /\ (contactOnDisk.user # None => contactOnDisk'.user # None)
        /\ Len(ops) > 0 /\ ops[Len(ops)] = Friend!SaveOp /\ u_.instances # {}
             => StoreAhead(user', contactOnDisk'.user)
    BY <1>3, <1>8, <1>9, <1>10, <1>11, <1>12, <2>1, <2>2, <2>3, Loads
  <2>5. ContactsType'
    BY <1>0, <1>1, <1>7, <1>12, <2>4 DEF ContactsType
  <2>6. TokensInTurn'
    BY <1>1, <2>4, SameMessagesStay
  <2>7. /\ contactOnDisk.user # None /\ user.instances # {}
        /\ user.consent.grants = contactOnDisk.user.consent.grants
    BY <1>3, <1>13, <1>5a DEF ContactsInv, Restored
  <2>8. StoreAhead(user', contactOnDisk'.user)
    BY <1>9, <1>11, <2>4, <2>7
  <2>9. /\ ReadsStored' /\ Restored' /\ GrantsStored'
         /\ StoredOnes(contactOnDisk.user)' /\ StoredOnes(lasting.user)'
    BY <1>1, <1>12, <2>4, <2>8, LoadedStorage
  <2>10. Friend!HonorsToken
    <3>1. CASE \E k \in 1..Len(ops) : ops[k] = Withdraw
      <4>1. PICK k \in 1..Len(ops) : ops[k] = Withdraw
        BY <3>1
      <4>2. k # Len(due) + 1
        BY <1>11, <4>1, Operations
      <4>3. k \in 1..Len(due) /\ due[k] = Withdraw
        BY <1>11, <4>1, <4>2
      <4> QED
        BY <1>1, <4>3 DEF Friend!HonorsToken, Friend!Withdraws, Withdraw
    <3>2. CASE ~\E k \in 1..Len(ops) : ops[k] = Withdraw
      <4>1. Friend!Granted => Friend!Granted'
        BY <1>3, <1>9, <1>13, <2>4, <2>7, <3>2 DEF Friend!Granted
      <4> QED
        BY <1>1, <4>1, Honored
    <3> QED
      BY <3>1, <3>2
  <2> QED
    BY <2>4, <2>5, <2>6, <2>10, <2>9 DEF ContactsInv
<1>14. CASE /\ user' = u_ /\ UNCHANGED <<due, toldClients>>
            /\ contactOnDisk' = IF u_.loaded THEN [store EXCEPT !.user = z] ELSE store
  <2>1. /\ z \in StoredUser \cup {None} /\ (contactOnDisk.user # None => z # None)
        /\ u_.instances # {} \/ contactOnDisk.user = None => StoreAhead(u_, z)
    <3> DEFINE w == Friend!W(u_)
               y == Friend!Save(w)
    <3>1. w \in Work /\ w.user = u_ /\ w.disk = contactOnDisk.user
      BY <1>0, <1>9, StorageTyped DEF Friend!W, Work, ContactsType
    <3> HIDE DEF w
    <3>2. /\ y \in Work /\ (w.disk # None => y.disk # None)
          /\ w.user.instances # {} \/ w.disk = None => StoreAhead(w.user, y.disk)
      BY <3>1, SaveIs, SaveAhead
    <3> HIDE DEF y
    <3>3. y.disk \in StoredUser \cup {None}
      BY <3>2 DEF Work
    <3> QED
      BY <3>1, <3>2, <3>3 DEF y, w
  <2> HIDE DEF z
  <2>2. contactOnDisk' \in ContactStore
    BY <1>8, <1>14, <2>1, StorageTyped
  <2>3. user' \in Friend!UserObject /\ user' # None /\ GoesOn
    BY <1>3, <1>9, <1>14, NoContactAssumption DEF GoesOn
  <2>4. Friend!MapsAgree'
    BY <1>10, <1>14 DEF Friend!MapsAgree, Agree
  <2>5. FirstRead' /\ ToldLoaded'
    BY <1>0, <1>9, <1>12, <1>14, <2>3 DEF FirstRead, ToldLoaded
  <2>6. ContactsType'
    BY <1>0, <1>1, <1>7, <1>12, <1>14, <2>2, <2>3 DEF ContactsType
  <2>7. TokensInTurn'
    BY <1>1, <2>3, SameMessagesStay
  <2>8. Writes
    <3>1. ~UserRead' /\ ReadsStored'
      BY <1>12 DEF UserRead, ReadsStored
    <3>2. CASE user.loaded
      <4>1. contactOnDisk'.user = z
        BY <1>8, <1>9, <1>14, <3>2 DEF ContactStore
      <4>2. u_.instances # {} \/ contactOnDisk.user = None
        BY <1>3, <1>9, <3>2 DEF ContactsInv, GrantsStored, StoreAhead
      <4> QED
        BY <1>1, <1>9, <1>14, <2>1, <3>2, <4>1, <4>2 DEF Writes
    <3>3. CASE ~user.loaded
      BY <1>1, <1>8, <1>9, <1>14, <1>5a, <3>1, <3>3 DEF Writes
    <3> QED
      BY <3>2, <3>3
  <2>9. Friend!HonorsToken
    BY <1>1, <1>9, <1>14, <2>3, <2>8, StaysGranted, Honored
  <2> QED
    BY <2>3, <2>4, <2>5, <2>6, <2>7, <2>8, <2>9, StorageGoesOn DEF ContactsInv
<1> QED
  BY <1>2, <1>13, <1>14

(* The core starts with what has lasted. *)
LEMMA RestartOnward ==
  ASSUME ContactsInv, TokenKept, Friend!Restart
  PROVE  ContactsInv' /\ Friend!HonorsToken
<1> DEFINE m == [type |-> "instance", requests |-> theirs]
           one == <<m>>
           none == <<>>
<1>0. ContactsType
  BY DEF ContactsInv
<1>1. /\ user' = None /\ reads' = <<>> /\ due' = <<>>
      /\ wire' = [i \in Instance |-> None] /\ news' = [i \in Instance |-> None]
      /\ toldClients' = [c \in Client |-> None]
      /\ toUs' = [c \in Client |-> IF c \in up THEN one ELSE none]
      /\ contactOnDisk' = [user |-> lasting.user, wire |-> lasting.wire]
      /\ exchanged' = lasting.exchanged
      /\ UNCHANGED <<lasting, theirs, up>>
  BY DEF Friend!Restart, Friend!friendVars
<1>2. m \in FromFriend /\ m.type = "instance"
  BY <1>0 DEF ContactsType, FromFriend
<1> HIDE DEF m
<1>3. /\ one \in Seq(FromFriend) /\ Len(one) = 1 /\ one[1] = m
      /\ none \in Seq(FromFriend) /\ Len(none) = 0
  BY <1>2
<1> HIDE DEF one, none
<1>4. toUs' \in [Client -> Seq(FromFriend)]
  BY <1>1, <1>3
<1>5. wire' \in [Instance -> Known] /\ news' \in [Instance -> Known]
      /\ toldClients' \in [Client -> Known] /\ contactOnDisk' \in ContactStore
      /\ exchanged' \in BOOLEAN
  BY <1>0, <1>1 DEF Known, ContactsType, LastingStore, ContactStore
<1>6. ContactsType'
  BY <1>0, <1>1, <1>4, <1>5 DEF ContactsType
<1>7. FirstRead' /\ ToldLoaded' /\ Friend!MapsAgree'
  BY <1>1 DEF FirstRead, ToldLoaded, Friend!MapsAgree
<1>8. \A c \in Client : InTurn(toUs[c])'
  <2> SUFFICES ASSUME NEW c \in Client PROVE InTurn(toUs[c])'
    OBVIOUS
  <2>1. toUs'[c] = one \/ toUs'[c] = none
    BY <1>1
  <2>2. \A k \in 1..Len(toUs'[c]) : toUs'[c][k].type = "instance"
    BY <1>2, <1>3, <2>1
  <2> QED
    BY <2>2 DEF InTurn
<1>9. \A c \in up : Announces(toUs'[c])
  <2> SUFFICES ASSUME NEW c \in up PROVE Announces(toUs'[c])
    OBVIOUS
  <2>1. toUs'[c] = one
    BY <1>0, <1>1 DEF ContactsType
  <2>2. 1 \in 1..Len(one) /\ one[1].type = "instance"
    BY <1>2, <1>3
  <2> QED
    BY <2>1, <2>2 DEF Announces
<1>10. TokensInTurn'
  BY <1>1, <1>8, <1>9 DEF TokensInTurn, Announces
<1>11. /\ ReadsStored' /\ Restored' /\ GrantsStored'
       /\ StoredOnes(contactOnDisk.user)' /\ StoredOnes(lasting.user)'
  BY <1>1 DEF ContactsInv, ReadsStored, Restored, GrantsStored, StoredOnes
<1>12. lasting.user = contactOnDisk.user => (Friend!Granted => Friend!Granted')
  <2> SUFFICES ASSUME lasting.user = contactOnDisk.user, Friend!Granted
               PROVE  Friend!Granted'
    OBVIOUS
  <2>1. contactOnDisk.user # None /\ contactOnDisk.user.consent.grants
    <3>1. CASE user # None /\ user.loaded
      BY <3>1 DEF Friend!Granted, ContactsInv, GrantsStored, StoreAhead
    <3>2. CASE ~(user # None /\ user.loaded)
      BY <3>2 DEF Friend!Granted
    <3> QED
      BY <3>1, <3>2
  <2> QED
    BY <1>1, <2>1 DEF Friend!Granted
<1>13. exchanged' => exchanged
  BY <1>1 DEF TokenKept
<1>14. Friend!HonorsToken
  BY <1>12, <1>13 DEF Friend!HonorsToken
<1> QED
  BY <1>6, <1>7, <1>10, <1>11, <1>14 DEF ContactsInv

(* One of the writes has lasted. *)
LEMMA LastsOnward ==
  ASSUME ContactsInv, Friend!Lasts
  PROVE  ContactsInv' /\ Friend!HonorsToken
<1>0. ContactsType /\ Friend!MapsAgree /\ FirstRead /\ ToldLoaded /\ TokensInTurn
  BY DEF ContactsInv
<1>1. /\ UNCHANGED <<user, reads, due, wire, news, contactOnDisk, exchanged, theirs, up,
                      toldClients, toUs>>
      /\ \/ lasting' = [lasting EXCEPT !.user = contactOnDisk.user]
         \/ lasting' = [lasting EXCEPT !.exchanged = exchanged]
         \/ \E i \in Instance : lasting' = [lasting EXCEPT !.wire[i] = contactOnDisk.wire[i]]
  BY DEF Friend!Lasts, Friend!UserLasts, Friend!TokenLasts, Friend!InstanceLasts,
         Friend!friendVars
<1>2. lasting' \in LastingStore /\ (lasting'.user = lasting.user \/ lasting'.user = contactOnDisk.user)
  <2>1. lasting \in LastingStore /\ contactOnDisk \in ContactStore /\ exchanged \in BOOLEAN
    BY <1>0 DEF ContactsType
  <2>2. ASSUME NEW i \in Instance, lasting' = [lasting EXCEPT !.wire[i] = contactOnDisk.wire[i]]
        PROVE  lasting' \in LastingStore /\ lasting'.user = lasting.user
    <3> DEFINE entries == [lasting.wire EXCEPT ![i] = contactOnDisk.wire[i]]
    <3>1. entries \in [Instance -> Known]
      BY <2>1 DEF ContactStore, LastingStore
    <3>2. lasting' = [lasting EXCEPT !.wire = entries]
      BY <2>2
    <3> HIDE DEF entries
    <3> QED
      BY <2>1, <3>1, <3>2 DEF LastingStore
  <2>3. CASE lasting' = [lasting EXCEPT !.user = contactOnDisk.user]
    BY <2>1, <2>3 DEF ContactStore, LastingStore
  <2>4. CASE lasting' = [lasting EXCEPT !.exchanged = exchanged]
    BY <2>1, <2>4 DEF LastingStore
  <2> QED
    BY <1>1, <2>2, <2>3, <2>4
<1>3. ContactsType' /\ FirstRead' /\ ToldLoaded' /\ Friend!MapsAgree'
  BY <1>0, <1>1, <1>2 DEF ContactsType, FirstRead, ToldLoaded, Friend!MapsAgree
<1>4. TokensInTurn'
  BY <1>0, <1>1 DEF TokensInTurn, InTurn, HasInstances, Announces
<1>5. ReadsStored' /\ Restored' /\ GrantsStored'
  BY <1>1 DEF ContactsInv, ReadsStored, Restored, GrantsStored, UserRead
<1>6. StoredOnes(contactOnDisk.user)' /\ StoredOnes(lasting.user)'
  BY <1>1, <1>2 DEF ContactsInv, StoredOnes
<1>7. Friend!HonorsToken
  <2>1. Friend!Granted => Friend!Granted'
    BY <1>1 DEF Friend!Granted
  <2> QED
    BY <1>1, <2>1, Honored
<1> QED
  BY <1>3, <1>4, <1>5, <1>6, <1>7 DEF ContactsInv

LEMMA AddUserOnward ==
  ASSUME ContactsInv, Friend!addUser
  PROVE  ContactsInv' /\ Friend!HonorsToken
<1> DEFINE r == [of |-> "user", value |-> contactOnDisk.user]
<1>0. ContactsType /\ ToldLoaded /\ TokensInTurn
  BY DEF ContactsInv
<1>1. /\ user = None /\ user' = Friend!NewUser /\ reads' = <<r>> /\ due' = <<>>
      /\ UNCHANGED <<lasting, wire, news, contactOnDisk, exchanged, theirs, up, toldClients, toUs,
                     contactRestarts>>
  BY DEF Friend!addUser, Friend!friendVars
<1>2. r \in ReadRecord /\ r.of = "user"
  BY <1>0, StorageTyped DEF ContactsType, ReadRecord
<1> HIDE DEF r
<1>3. reads' \in Seq(ReadRecord) /\ Len(reads') = 1 /\ due' \in Seq(Friend!Op)
  BY <1>1, <1>2
<1>4. user' \in Friend!UserObject /\ user' # None
  BY <1>1, NewUserTyped, NoContactAssumption
<1>5. ContactsType'
  BY <1>0, <1>1, <1>3, <1>4 DEF ContactsType
<1>6. FirstRead'
  BY <1>1, <1>3, NewUserTyped DEF FirstRead
<1>7. ToldLoaded'
  BY <1>0, <1>1 DEF ToldLoaded
<1>8. Friend!MapsAgree'
  BY <1>1, NewUserTyped DEF Friend!MapsAgree
<1>9. TokensInTurn'
  <2>1. \A c \in Client : \A k \in 1..Len(toUs[c]) : toUs[c][k].type # "token"
    BY <1>0, <1>1 DEF TokensInTurn, InTurn
  <2>2. \A c \in Client : InTurn(toUs[c])'
    BY <1>1, <2>1 DEF InTurn
  <2>3. \A c \in up : Announces(toUs[c])
    BY <1>0, <1>1 DEF TokensInTurn, HasInstances
  <2> QED
    BY <1>1, <2>2, <2>3 DEF TokensInTurn, Announces
<1>10. Friend!HonorsToken
  <2>1. Friend!Granted => Friend!Granted'
    BY <1>1, NewUserTyped DEF Friend!Granted
  <2> QED
    BY <1>1, <2>1, Honored
<1>11. ReadsStored' /\ UserRead'
  <2>1. reads'[1] = r /\ r.value = contactOnDisk'.user
    BY <1>1 DEF r
  <2> QED
    BY <1>2, <1>3, <2>1 DEF ReadsStored, UserRead
<1>12. Restored' /\ GrantsStored'
  BY <1>1, <1>11, NewUserTyped DEF Restored, GrantsStored
<1>13. StoredOnes(contactOnDisk.user)' /\ StoredOnes(lasting.user)'
  BY <1>1 DEF ContactsInv, StoredOnes
<1> QED
  BY <1>5, <1>6, <1>7, <1>8, <1>9, <1>10, <1>11, <1>12, <1>13 DEF ContactsInv

(* The friend does something, and the core does nothing yet. *)
LEMMA TheirsOnward ==
  ASSUME ContactsInv,
         UNCHANGED <<user, reads, due, wire, news, contactOnDisk, exchanged, toldClients, lasting>>,
         theirs' \in BOOLEAN, up' \subseteq Client,
         toUs' \in [Client -> Seq(FromFriend)], \A c \in Client : InTurn(toUs'[c]),
         \A c \in up' : HasInstances \/ Announces(toUs'[c])
  PROVE  ContactsInv' /\ Friend!HonorsToken
<1>0. ContactsType /\ Friend!MapsAgree /\ FirstRead /\ ToldLoaded
  BY DEF ContactsInv
<1>1. ContactsType' /\ FirstRead' /\ ToldLoaded'
  BY <1>0 DEF ContactsType, FirstRead, ToldLoaded
<1>2. Friend!MapsAgree'
  BY <1>0 DEF Friend!MapsAgree
<1>3. TokensInTurn'
  BY DEF TokensInTurn, InTurn, HasInstances, Announces
<1>4. Friend!HonorsToken
  <2>1. Friend!Granted => Friend!Granted'
    BY DEF Friend!Granted
  <2> QED
    BY <2>1, Honored
<1>5. /\ ReadsStored' /\ Restored' /\ GrantsStored'
      /\ StoredOnes(contactOnDisk.user)' /\ StoredOnes(lasting.user)'
  BY DEF ContactsInv, ReadsStored, Restored, GrantsStored, StoredOnes, UserRead
<1> QED
  BY <1>1, <1>2, <1>3, <1>4, <1>5 DEF ContactsInv

(* One of its clients says m, and may have connected to do so. *)
LEMMA SaysOnward ==
  ASSUME ContactsInv, NEW c \in Client, NEW m \in FromFriend, Friend!Says(c, m),
         UNCHANGED <<lasting, user, reads, due, wire, news, contactOnDisk, exchanged, theirs,
                     toldClients>>,
         up' = up \/ (up' = up \cup {c} /\ m.type = "instance"),
         m.type = "token" => c \in up /\ toldClients[c] # None
  PROVE  ContactsInv' /\ Friend!HonorsToken
<1> DEFINE s == toUs[c]
           t == Append(s, m)
<1>0. ContactsType /\ ToldLoaded /\ TokensInTurn
  BY DEF ContactsInv
<1>1. toUs' = [toUs EXCEPT ![c] = t] /\ s \in Seq(FromFriend) /\ InTurn(s)
  BY <1>0 DEF Friend!Says, ContactsType, TokensInTurn
<1>2. m.type = "token" => user # None /\ user.loaded /\ (HasInstances \/ Announces(s))
  BY <1>0 DEF ToldLoaded, TokensInTurn
<1> HIDE DEF s
<1>3. /\ t \in Seq(FromFriend) /\ InTurn(t)
      /\ Announces(s) \/ m.type = "instance" => Announces(t)
  BY <1>1, <1>2, Said
<1> HIDE DEF t
<1>4. /\ toUs' \in [Client -> Seq(FromFriend)] /\ toUs'[c] = t
      /\ \A d \in Client : d # c => toUs'[d] = toUs[d]
  BY <1>0, <1>1, <1>3 DEF ContactsType
<1>5. \A d \in Client : InTurn(toUs'[d])
  <2> SUFFICES ASSUME NEW d \in Client PROVE InTurn(toUs'[d])
    OBVIOUS
  <2>1. CASE d = c
    BY <1>3, <1>4, <2>1
  <2>2. CASE d # c
    BY <1>0, <1>4, <2>2 DEF TokensInTurn
  <2> QED
    BY <2>1, <2>2
<1>6. \A d \in up' : HasInstances \/ Announces(toUs'[d])
  <2> SUFFICES ASSUME NEW d \in up', ~HasInstances PROVE Announces(toUs'[d])
    OBVIOUS
  <2>1. d \in Client
    BY <1>0 DEF ContactsType
  <2>2. CASE d = c
    BY <1>0, <1>3, <1>4, <2>2 DEF TokensInTurn, s
  <2>3. CASE d # c
    BY <1>0, <1>4, <2>1, <2>3 DEF TokensInTurn
  <2> QED
    BY <2>2, <2>3
<1>7. up' \subseteq Client /\ theirs' \in BOOLEAN
  BY <1>0 DEF ContactsType
<1> QED
  BY <1>4, <1>5, <1>6, <1>7, TheirsOnward

LEMMA DownOnward ==
  ASSUME ContactsInv, NEW c \in Client, Friend!ClientDown(c)
  PROVE  ContactsInv' /\ Friend!HonorsToken
<1> DEFINE none == <<>>
<1>0. ContactsType /\ TokensInTurn
  BY DEF ContactsInv
<1>1. /\ up' = up \ {c}
      /\ toUs' = toUs \/ toUs' = [toUs EXCEPT ![c] = none]
      /\ UNCHANGED <<lasting, user, reads, due, wire, news, contactOnDisk, exchanged, theirs,
                     toldClients>>
  BY DEF Friend!ClientDown
<1>2. none \in Seq(FromFriend) /\ Len(none) = 0
  OBVIOUS
<1> HIDE DEF none
<1>3. /\ toUs' \in [Client -> Seq(FromFriend)]
      /\ \A d \in Client : toUs'[d] = toUs[d] \/ (d = c /\ toUs'[d] = none)
  BY <1>0, <1>1, <1>2 DEF ContactsType
<1>4. \A d \in Client : InTurn(toUs'[d])
  <2>1. InTurn(none)
    BY <1>2 DEF InTurn
  <2> QED
    BY <1>0, <1>3, <2>1 DEF TokensInTurn
<1>5. \A d \in up' : HasInstances \/ Announces(toUs'[d])
  BY <1>0, <1>1, <1>3 DEF TokensInTurn, ContactsType
<1>6. up' \subseteq Client /\ theirs' \in BOOLEAN
  BY <1>0, <1>1 DEF ContactsType
<1> QED
  BY <1>1, <1>3, <1>4, <1>5, <1>6, TheirsOnward

LEMMA TheyModifyOnward ==
  ASSUME ContactsInv, Friend!TheyModify
  PROVE  ContactsInv' /\ Friend!HonorsToken
<1> DEFINE m == [type |-> "instance", requests |-> theirs']
<1>0. ContactsType /\ TokensInTurn
  BY DEF ContactsInv
<1>1. /\ theirs' = ~theirs
      /\ toUs' = [c \in Client |-> IF c \in up THEN Append(toUs[c], m) ELSE toUs[c]]
      /\ UNCHANGED <<lasting, user, reads, due, wire, news, contactOnDisk, exchanged, up,
                     toldClients>>
  BY DEF Friend!TheyModify
<1>2. m \in FromFriend /\ m.type = "instance" /\ theirs' \in BOOLEAN
  BY <1>1 DEF FromFriend
<1> HIDE DEF m
<1>3. ASSUME NEW c \in Client
      PROVE  /\ toUs'[c] \in Seq(FromFriend) /\ InTurn(toUs'[c])
             /\ c \in up => Announces(toUs'[c])
  <2> DEFINE s == toUs[c]
             t == Append(s, m)
  <2>1. s \in Seq(FromFriend) /\ InTurn(s)
    BY <1>0 DEF ContactsType, TokensInTurn
  <2>2. toUs'[c] = IF c \in up THEN t ELSE s
    BY <1>1
  <2> HIDE DEF s
  <2>3. /\ t \in Seq(FromFriend) /\ InTurn(t)
        /\ Announces(s) \/ m.type = "instance" => Announces(t)
    BY <1>2, <2>1, Said
  <2> HIDE DEF t
  <2> QED
    BY <1>2, <2>1, <2>2, <2>3
<1>4. toUs' \in [Client -> Seq(FromFriend)]
  BY <1>1, <1>3
<1>5. up' \subseteq Client
  BY <1>0, <1>1 DEF ContactsType
<1>6. \A c \in up' : HasInstances \/ Announces(toUs'[c])
  BY <1>1, <1>3, <1>5
<1> QED
  BY <1>1, <1>2, <1>3, <1>4, <1>5, <1>6, TheirsOnward

(* A token that is used up in storage is used up. *)
LEMMA TokenStays ==
  ContactsInv /\ TokenKept /\ [Friend!Next]_(Friend!vars) => TokenKept'
<1> SUFFICES ASSUME ContactsInv, TokenKept, [Friend!Next]_(Friend!vars) PROVE TokenKept'
  OBVIOUS
<1>1. CASE UNCHANGED Friend!vars
  BY <1>1 DEF TokenKept, Friend!vars
<1>2. CASE Friend!addUser \/ Friend!restoreState \/ Friend!restoreInstance \/ Friend!TheyModify
  BY <1>2 DEF TokenKept, Friend!addUser, Friend!restoreState, Friend!restoreInstance,
              Friend!TheyModify
<1>3. CASE Friend!Lasts
  <2>1. /\ exchanged' = exchanged
        /\ \/ lasting' = [lasting EXCEPT !.user = contactOnDisk.user]
           \/ lasting' = [lasting EXCEPT !.exchanged = exchanged]
           \/ \E i \in Instance : lasting' = [lasting EXCEPT !.wire[i] = contactOnDisk.wire[i]]
    BY <1>3 DEF Friend!Lasts, Friend!UserLasts, Friend!TokenLasts, Friend!InstanceLasts
  <2>2. lasting \in LastingStore
    BY DEF ContactsInv, ContactsType
  <2>3. lasting'.exchanged = lasting.exchanged \/ lasting'.exchanged = exchanged
    BY <2>1, <2>2 DEF LastingStore
  <2> QED
    BY <2>1, <2>3 DEF TokenKept
<1>4. CASE Friend!Restart
  BY <1>4 DEF TokenKept, Friend!Restart
<1>5. ASSUME NEW g \in BOOLEAN, Friend!modifyConsent(g) PROVE TokenKept'
  BY <1>5 DEF TokenKept, Friend!modifyConsent
<1>6. ASSUME NEW c \in Client,
             \/ Friend!handleClientOnline(c) \/ Friend!handleClientOffline(c)
             \/ Friend!syncInstance_(c) \/ Friend!ReadRequest(c)
      PROVE  TokenKept'
  BY <1>6 DEF TokenKept, Friend!handleClientOnline, Friend!handleClientOffline,
              Friend!syncInstance_, Friend!ReadRequest
<1>7. ASSUME NEW c \in Client, Friend!ReadToken(c) PROVE TokenKept'
  BY <1>7 DEF TokenKept, Friend!ReadToken
<1>8. ASSUME NEW c \in Client,
             \/ Friend!ClientUp(c) \/ Friend!ClientDown(c)
             \/ Friend!TheyUseToken(c) \/ Friend!TheyAsk(c)
      PROVE  TokenKept'
  BY <1>8 DEF TokenKept, Friend!ClientUp, Friend!ClientDown, Friend!TheyUseToken,
              Friend!TheyAsk
<1> QED
  BY <1>1, <1>2, <1>3, <1>4, <1>5, <1>6, <1>7, <1>8 DEF Friend!Next

LEMMA ContactsStep ==
  ContactsInv /\ TokenKept /\ Friend!Next => ContactsInv' /\ Friend!HonorsToken
<1> SUFFICES ASSUME ContactsInv, TokenKept, Friend!Next PROVE ContactsInv' /\ Friend!HonorsToken
  OBVIOUS
<1>1. ASSUME NEW c \in Client,
             Friend!ClientUp(c) \/ Friend!TheyUseToken(c) \/ Friend!TheyAsk(c)
      PROVE  ContactsInv' /\ Friend!HonorsToken
  <2>1. [type |-> "instance", requests |-> theirs] \in FromFriend
    BY DEF ContactsInv, ContactsType, FromFriend
  <2>2. [type |-> "token"] \in FromFriend /\ [type |-> "request"] \in FromFriend
    BY DEF FromFriend
  <2>3. CASE Friend!ClientUp(c)
    <3>1. PICK m \in FromFriend : m = [type |-> "instance", requests |-> theirs]
      BY <2>1
    <3>2. m.type = "instance" /\ Friend!Says(c, m) /\ up' = up \cup {c}
          /\ UNCHANGED <<lasting, user, reads, due, wire, news, contactOnDisk, exchanged, theirs,
                         toldClients>>
      BY <2>3, <3>1 DEF Friend!ClientUp
    <3> QED
      BY <3>2, SaysOnward
  <2>4. CASE Friend!TheyUseToken(c)
    <3>1. PICK m \in FromFriend : m = [type |-> "token"]
      BY <2>2
    <3>2. m.type = "token" /\ Friend!Says(c, m) /\ c \in up /\ toldClients[c] # None
          /\ UNCHANGED <<lasting, user, reads, due, wire, news, contactOnDisk, exchanged, theirs, up,
                         toldClients>>
      BY <2>4, <3>1 DEF Friend!TheyUseToken, Friend!friendVars
    <3> QED
      BY <3>2, SaysOnward
  <2>5. CASE Friend!TheyAsk(c)
    <3>1. PICK m \in FromFriend : m = [type |-> "request"]
      BY <2>2
    <3>2. m.type = "request" /\ Friend!Says(c, m)
          /\ UNCHANGED <<lasting, user, reads, due, wire, news, contactOnDisk, exchanged, theirs, up,
                         toldClients>>
      BY <2>5, <3>1 DEF Friend!TheyAsk, Friend!friendVars
    <3> QED
      BY <3>2, SaysOnward
  <2> QED
    BY <1>1, <2>3, <2>4, <2>5
<1> QED
  BY <1>1, AddUserOnward, RestoreStateOnward, RestoreInstanceOnward, RestartOnward,
     LastsOnward, TheyModifyOnward, ModifyOnward, OnlineOnward, OfflineOnward, SyncOnward, RequestOnward,
     TokenOnward, DownOnward DEF Friend!Next

LEMMA ContactsStay ==
  ContactsInv /\ TokenKept /\ [Friend!Next]_(Friend!vars) => ContactsInv' /\ TokenKept'
<1> SUFFICES ASSUME ContactsInv, UNCHANGED Friend!vars PROVE ContactsInv'
  BY ContactsStep, TokenStays
<1>1. UNCHANGED <<lasting, user, reads, due, wire, news, contactOnDisk, exchanged, theirs,
                  up, toldClients, toUs>>
  BY DEF Friend!vars, Friend!friendVars
<1>2. /\ theirs' \in BOOLEAN /\ up' \subseteq Client /\ toUs' \in [Client -> Seq(FromFriend)]
      /\ \A c \in Client : InTurn(toUs'[c])
      /\ \A c \in up' : HasInstances \/ Announces(toUs'[c])
  BY <1>1 DEF ContactsInv, ContactsType, TokensInTurn
<1> QED
  BY <1>1, <1>2, TheirsOnward

LEMMA ContactsHold == ContactsInv => Friend!TypeOK /\ Friend!MapsAgree
<1> SUFFICES ASSUME ContactsInv PROVE Friend!TypeOK
  BY DEF ContactsInv
<1>0. ContactsType
  BY DEF ContactsInv
<1>1. \A k \in 1..Len(reads) : reads[k].of \in Instance \cup {"user"}
  <2>1. \A k \in 1..Len(reads) : reads[k] \in ReadRecord
    BY <1>0 DEF ContactsType
  <2> QED
    BY <2>1 DEF ReadRecord
<1>2. contactOnDisk.user = None \/ contactOnDisk.user \in StoredUser
  BY <1>0 DEF ContactsType, ContactStore
<1>3. contactOnDisk.wire \in [Instance -> Known]
  BY <1>0 DEF ContactsType, ContactStore
<1>4. /\ lasting.user = None \/ lasting.user \in StoredUser
      /\ lasting.wire \in [Instance -> Known] /\ lasting.exchanged \in BOOLEAN
  BY <1>0 DEF ContactsType, LastingStore
<1> QED
  BY <1>0, <1>1, <1>2, <1>3, <1>4 DEF Friend!TypeOK, ContactsType, StoredUser, Known, FromFriend

HIDE DEF user, reads, due, wire, news, contactOnDisk, exchanged, theirs, up, toldClients, toUs,
         contactRestarts, lasting
-----------------------------------------------------------------------------
(* The tables of a contact's clients and instances agree, and an instance is   *)
(* reached through a client that is online (remote-user.ts); and in the user   *)
(* interface a contact is in one array of a tab, that of its category, and     *)
(* nothing of an earlier login is in any (ui.ts, user.ts, model.ts).           *)
THEOREM ContactsAreInOrder == Spec => []ContactsAgree
<1> DEFINE Inv == /\ part = "contacts" => ContactsInv /\ TokenKept
                  /\ part = "roster" => RosterInv
<1>1. Init => Inv
  BY ContactsInit, RosterInit DEF Init
<1>2. Inv /\ [Next]_vars => Inv'
  <2>1. part = "contacts" /\ [Next]_vars => part' = part /\ [Friend!Next]_(Friend!vars)
    BY DEF Next, vars, Friend!vars, Friend!friendVars
  <2>2. part = "roster" /\ [Next]_vars => part' = part /\ [Lists!Next]_(Lists!vars)
    BY DEF Next, vars, Lists!vars
  <2>3. [Next]_vars => part' = part
    BY DEF Next, vars
  <2> QED
    BY <2>1, <2>2, <2>3, ContactsStay, RosterStep
<1>3. Inv => ContactsAgree
  BY ContactsHold, RosterHolds DEF ContactsAgree
<1> QED
  BY <1>1, <1>2, <1>3, PTL DEF Spec

(* What a permission token grants is in memory and written when the token is   *)
(* used up, and no step takes the grant from a contact in storage, no restart  *)
(* and no storage that answers late, unless the user withdraws it or the core  *)
(* ends before what it wrote of the contact has lasted (remote-user.ts,        *)
(* local-instance.ts, storage.ts).                                             *)
THEOREM TokensAreHonored == Spec => TokenHonored
<1> DEFINE Inv == part = "contacts" => ContactsInv /\ TokenKept
<1>1. Init => Inv
  BY ContactsInit DEF Init
<1>2. Inv /\ [Next]_vars => Inv'
  <2>1. part = "contacts" /\ [Next]_vars => part' = part /\ [Friend!Next]_(Friend!vars)
    BY DEF Next, vars, Friend!vars, Friend!friendVars
  <2>2. [Next]_vars => part' = part
    BY DEF Next, vars
  <2> QED
    BY <2>1, <2>2, ContactsStay
<1>3. Inv /\ [Next]_vars => [part = "contacts" => Friend!HonorsToken]_vars
  <2> SUFFICES ASSUME Inv, Next, part = "contacts" PROVE Friend!HonorsToken
    OBVIOUS
  <2>1. Friend!Next
    BY DEF Next
  <2> QED
    BY <2>1, ContactsStep
<1> QED
  BY <1>1, <1>2, <1>3, PTL DEF Spec, TokenHonored
====
