-------------------------------- MODULE MCCore --------------------------------
(* The smaller modules about the core, from the contacts to the settings and   *)
(* the metrics, checked in one run: each behaviour is one of one               *)
(* of them, and part says of which.  They do not share state, so they share    *)
(* the variables: what v1 stands for in a part is said where its module is     *)
(* instantiated.                                                               *)
EXTENDS Naturals, Sequences, FiniteSets, TLC

CONSTANTS
  None, Null,
  Host, Conn, MaxPings,                                \* Cloud
  Counter, User, Day, Week, MaxTimeout, Revived, MaxTime, MaxCount,    \* Metrics
  Network, Object, Call, MaxSaves,                     \* Networks; Call of Probing, too
  Contact, MaxLogins,                                  \* Roster
  Client, Instance, InstanceOf, MaxSaid, MaxDue,       \* Contacts
  Description, Policy, Servers, DEFAULT_STUN_SERVERS, MaxChanges,      \* Settings
  Check, Refresh, Port, Listening,                     \* Probing
  MaxRestarts,
  i1                                                   \* what some of these are made of

(* The friend's clients announce their instances; what is not there is none.   *)
ASSUME ContactAssumption ==
  /\ InstanceOf \in [Client -> Instance] /\ IsFiniteSet(Instance)
  /\ None \notin Client /\ {None, Null, "user"} \cap Instance = {}
ASSUME NetworksAssumption == IsFiniteSet(Network) /\ MaxLogins \in Nat
ASSUME NamesAssumption == None \notin Conn
ASSUME BoundsAssumption ==
  /\ {MaxPings, MaxChanges, MaxRestarts, MaxTimeout, MaxTime, MaxCount} \subseteq Nat
  /\ {Day, Week} \subseteq Nat \ {0} /\ MaxCount > 0 /\ IsFiniteSet(Call)
(* The settings are empty at first, and a list of servers is one of strings.   *)
ASSUME SettingsAssumption ==
  /\ "" \in Description /\ "" \in Policy
  /\ Servers \cup {DEFAULT_STUN_SERVERS} \subseteq Seq(STRING)

VARIABLES part, v1, v2, v3, v4, v5, v6, v7, v8, v9, v10, v11, v12, v13

(* Values of constants for TLC.                                                *)
OneInstance == [c \in Client |-> i1]
TwoLists == {<<>>, <<"s3">>}
TwoServers == <<"s1", "s2">>
(* In each part k1 and k2 are a pair that nothing tells apart, two calls,      *)
(* connections, checks, clients or sessions, and o1 and o2 another.            *)
Symmetry == UNION {Permutations(S) : S \in {Object, Call}}

Clouds == INSTANCE Cloud WITH savedContacts_ <- v1, disk <- v2, loading <- v3, clients_ <- v4,
  onlineHosts_ <- v5, monitored <- v6, pings <- v7, conn <- v8, told <- v9
Counts == INSTANCE Metrics WITH now <- v1, buffer <- v2, counts <- v3, stored <- v4, loading <-
  v5, reporter <- v6, nextSendTimestamp <- v7, storedTimestamp <- v8, restarts <- v9
Net == INSTANCE Networks WITH table <- v1, pendingNetworks_ <- v2, object <- v3, call <- v4,
  leaving <- v5, value_ <- v6, saves <- v7, disk <- v8, up <- v9, restarts <- v10
Lists == INSTANCE Roster WITH online <- v1, logins <- v2, roster <- v3, consent_ <- v4, offering
  <- v5, status <- v6, listed <- v7, mapInstanceIdToUser_ <- v8, instancesGivingAccessTo <- v9,
  isGettingFromMe <- v10, removed <- v11
Friend == INSTANCE Contacts WITH user <- v1, reads <- v2, due <- v3, wire <- v4, news <- v5,
  disk <- v6, exchanged <- v7, theirs <- v8, up <- v9, told <- v10, toUs <- v11, restarts <-
  v12, kept <- v13, MaxNet <- MaxSaid
Saved == INSTANCE Settings WITH ui <- v1, panel <- v2, core <- v3, read <- v4, loaded <- v5,
  disk <- v6, toCore <- v7, toUi <- v8, asked <- v9, started <- v10, told <- v11, changes <-
  v12, restarts <- v13
Probes == INSTANCE Probing WITH actual <- v1, phase <- v2, replies <- v3, natType <- v4, resets
  <- v5, told <- v6, portControlSupport_ <- v7, shown <- v8, refreshing <- v9, port <- v10,
  reproxyCheck <- v11, checking <- v12, checks <- v13

(* A contact of which there is no object is none that there could be.          *)
ASSUME NoContactAssumption ==
  /\ None \notin Friend!UserObject
  /\ None \notin [consent : Friend!Consent, instances : SUBSET Instance]

(* The variables a part does not have. *)
Idle13 == v13 = 0
Idle12 == v12 = 0 /\ Idle13
Idle11 == v11 = 0 /\ Idle12
Idle10 == v10 = 0 /\ Idle11
Rest13 == <<v13>>
Rest12 == <<v12, Rest13>>
Rest11 == <<v11, Rest12>>
Rest10 == <<v10, Rest11>>

Init ==
  \/ part = "cloud" /\ Clouds!Init /\ Idle10
  \/ part = "metrics" /\ Counts!Init /\ Idle10
  \/ part = "networks" /\ Net!Init /\ Idle11
  \/ part = "roster" /\ Lists!Init /\ Idle12
  \/ part = "contacts" /\ Friend!Init
  \/ part = "settings" /\ Saved!Init
  \/ part = "probing" /\ Probes!Init

Next ==
  \/ part = "cloud" /\ Clouds!Next /\ UNCHANGED <<part, Rest10>>
  \/ part = "metrics" /\ Counts!Next /\ UNCHANGED <<part, Rest10>>
  \/ part = "networks" /\ Net!Next /\ UNCHANGED <<part, Rest11>>
  \/ part = "roster" /\ Lists!Next /\ UNCHANGED <<part, Rest12>>
  \/ part = "contacts" /\ Friend!Next /\ UNCHANGED part
  \/ part = "settings" /\ Saved!Next /\ UNCHANGED part
  \/ part = "probing" /\ Probes!Next /\ UNCHANGED part

vars == <<part, v1, v2, v3, v4, v5, v6, v7, v8, v9, v10, v11, v12, v13>>

Spec == Init /\ [][Next]_vars

(* Each property holds of the part it is about, with the type invariant of its *)
(* module; what it means is said there.                                        *)

(* Cloud: a server gives access over one connection, any other to it that was  *)
(* established has ended, unless its contact was removed                       *)
(* (cloud/social/provider.ts:206, 445).                                        *)
OneTunnel == part = "cloud" => Clouds!TypeOK /\ Clouds!OneTunnel

(* Metrics, Probing: what is kept for a time is dropped when it is over: at    *)
(* most seven buckets are there at a time (metrics.ts:35-55, 59-79), and a NAT *)
(* type that is kept has exactly one timer that will forget it                 *)
(* (uproxy_core.ts), however loads, restarts, calls and late answers overlap.  *)
NothingPilesUp ==
  /\ part = "metrics" => Counts!TypeOK /\ Counts!BufferFits
  /\ part = "probing" => Probes!TypeOK /\ Probes!KeptOnce

(* Networks: a login that others may join is under way, so that none waits for *)
(* ever, and a network is monitored while it is online, however often it was   *)
(* logged in to and out of (uproxy_core.ts:130-160, social.ts:793).            *)
NetworksTended ==
  part = "networks" => Net!TypeOK /\ Net!PendingIsTried /\ Net!OnlineIsMonitored

(* Contacts, Roster: the tables of a contact's clients and instances agree in  *)
(* the core (remote-user.ts) and its places in the lists of the user interface *)
(* (ui.ts, user.ts, model.ts).                                                 *)
ContactsAgree ==
  /\ part = "contacts" => Friend!TypeOK /\ Friend!MapsAgree
  /\ part = "roster" => Lists!TypeOK /\ Lists!ListedOnce

(* Contacts: the grant of a permission token is in memory and written when the *)
(* token is used up, and from then on no step takes it away, no storage that   *)
(* answers late and no restart, unless the user withdraws it or the core ends  *)
(* before what it wrote of the contact has lasted (remote-user.ts).            *)
TokenHonored == [][part = "contacts" => Friend!HonorsToken]_vars

(* Settings: once the stored settings were read, the description and policy    *)
(* the core goes by are the stored ones, in whatever order loads, changes and  *)
(* restarts come (uproxy_core.ts, globals.ts).                                 *)
SavedIsUsed == part = "settings" => Saved!TypeOK /\ Saved!SavedIsUsed
==============================================================================
