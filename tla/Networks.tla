-------------------------------- MODULE Networks --------------------------------
(* Logging in to social networks and out of them: the table of networks and   *)
(* the FreedomNetwork objects in it (social.ts), the core's login, logout and *)
(* reconnection (uproxy_core.ts), and the StoredValue that remembers which    *)
(* networks to reconnect to (stored_value.ts).                                *)
(*                                                                            *)
(* Each network has one user.  What a call of login or logout waits for is    *)
(* its stage; the social provider and the storage answer when they like.      *)
EXTENDS Naturals, Sequences, FiniteSets, SequencesExt

CONSTANTS
  Network,     \* social_network.networks has an entry for each
  Object,      \* names of FreedomNetwork objects
  Call,        \* names of calls of login and logout
  None,        \* undefined
  MaxSaves,    \* bound: saves under way
  MaxRestarts  \* bound: restarts of the core

VARIABLES
  table,       \* networks[name], the object of its user
  pendingNetworks_,
  object,      \* fields of each FreedomNetwork
  call,        \* what each call is doing
  leaving,     \* objects that were told to log out to make room
  value_, saves, disk,  \* connectedNetworks: in memory, being saved, in storage
  up,          \* whether the core has read what to reconnect to
  restarts

storeVars == <<value_, saves, disk>>
vars == <<table, pendingNetworks_, object, call, leaving, storeVars, up, restarts>>

Stage == {"done", "provider", "prepare", "add", "leave", "drop"}
NoCall == [stage |-> "done", net |-> None, obj |-> None, after |-> 0]

(* onceLoggedIn_ is that of a call, or fulfilled, or rejected; fulfillLogout_ *)
(* is undefined, or there, or called.                                         *)
NewObject == [net |-> None, onceLoggedIn_ |-> "none", logout |-> "undefined", monitor |-> FALSE]

TypeOK ==
  /\ table \in [Network -> Object \cup {None}]
  /\ pendingNetworks_ \in [Network -> Object \cup {None}]
  /\ object \in [Object -> [net : Network \cup {None}, onceLoggedIn_ : {"none", "fulfilled", "rejected"} \cup Call,
                            logout : {"undefined", "armed", "called"}, monitor : BOOLEAN]]
  /\ call \in [Call -> [stage : Stage, net : Network \cup {None},
                        obj : Object \cup {None}, after : Nat]]
  /\ value_ \subseteq Network /\ disk \subseteq Network /\ saves \in Seq(SUBSET Network)
  /\ up \in BOOLEAN /\ restarts \in 0..MaxRestarts

Empty == [n \in Network |-> None]
Fresh == [o \in Object |-> NewObject]
Idle == [c \in Call |-> NoCall]

Init ==
  /\ table = Empty /\ pendingNetworks_ = Empty /\ object = Fresh /\ call = Idle /\ leaving = {}
  /\ disk \in SUBSET Network /\ value_ = disk /\ saves = <<>>
  /\ up = FALSE /\ restarts = 0

(* A name that nothing of the program refers to any more. *)
Unused(o) ==
  /\ o \notin {table[n] : n \in Network} \cup {pendingNetworks_[n] : n \in Network}
  /\ \A c \in Call : call[c].obj # o
  /\ o \notin leaving /\ ~object[o].monitor

------------------------------------------------------------------------------
(* StoredValue.get waits for the save begun last; set begins one. *)
Waits(c, stage) == [call EXCEPT ![c].stage = stage, ![c].after = Len(saves)]

Written(c, s) == IF call[c].stage = "add" THEN s \cup {call[c].net} ELSE s \ {call[c].net}

(* By what a call found in connectedNetworks_: a network that is there        *)
(* already is not added again.                                                *)
Writes(c, s) == call[c].stage = "add" => call[c].net \notin s

Ready == {c \in Call : call[c].stage \in {"add", "drop"} /\ call[c].after = 0}

(* A call whose get is not kept waiting. *)
Get(c) ==
  /\ c \in Ready
  /\ Len(saves) < MaxSaves
  /\ saves' = IF Writes(c, value_) THEN Append(saves, Written(c, value_)) ELSE saves
  /\ call' = [call EXCEPT ![c] = NoCall]
  /\ UNCHANGED <<table, pendingNetworks_, object, value_, disk, leaving, up, restarts>>

(* A save is done: the gets that waited for it all read what was saved before *)
(* any of their callers sets a new value.                                     *)
Saved ==
  /\ saves # <<>> /\ Ready = {}
  /\ value_' = Head(saves) /\ disk' = Head(saves)
  /\ LET woken == {c \in Call : call[c].stage \in {"add", "drop"} /\ call[c].after = 1} IN
     /\ \E order \in SetToSeqs({c \in woken : Writes(c, value_')}) :
          saves' = Tail(saves) \o [i \in 1..Len(order) |-> Written(order[i], value_')]
     /\ call' = [c \in Call |->
          IF c \in woken THEN NoCall
          ELSE [call[c] EXCEPT !.after = IF @ > 0 THEN @ - 1 ELSE 0]]
  /\ UNCHANGED <<table, pendingNetworks_, object, leaving, up, restarts>>

------------------------------------------------------------------------------
(* uProxyCore.login and FreedomNetwork.login, up to the provider: a login     *)
(* under way lends its object.                                                *)
login(c, n) ==
  /\ up /\ call[c].stage = "done"
  /\ \E o \in Object :
       /\ IF pendingNetworks_[n] # None THEN o = pendingNetworks_[n] ELSE Unused(o)
       /\ pendingNetworks_' = [pendingNetworks_ EXCEPT ![n] = o]
       /\ object' = [object EXCEPT ![o] =
            [(IF pendingNetworks_[n] = o THEN @ ELSE NewObject) EXCEPT !.net = n, !.onceLoggedIn_ = c]]
       /\ call' = [call EXCEPT ![c] = [stage |-> "provider", net |-> n, obj |-> o, after |-> 0]]
  /\ UNCHANGED <<table, storeVars, leaving, up, restarts>>

(* The constructor of the core: each network that is remembered is logged in  *)
(* to again, and the memory of them is cleared.                               *)
Reconnect ==
  /\ ~up /\ up' = TRUE
  /\ \E calls \in {f \in [value_ -> Call] : IsInjective(f)},
        objects \in {f \in [value_ -> Object] : IsInjective(f)} :
       /\ pendingNetworks_' = [n \in Network |-> IF n \in value_ THEN objects[n] ELSE None]
       /\ object' = [o \in Object |->
            IF o \in Range(objects)
            THEN LET n == CHOOSE m \in value_ : objects[m] = o IN
                 [NewObject EXCEPT !.net = n, !.onceLoggedIn_ = calls[n]]
            ELSE NewObject]
       /\ call' = [c \in Call |->
            IF c \in Range(calls)
            THEN LET n == CHOOSE m \in value_ : calls[m] = c IN
                 [stage |-> "provider", net |-> n, obj |-> objects[n], after |-> 0]
            ELSE NoCall]
  /\ saves' = [i \in 1..Cardinality(value_) |-> {}]
  /\ UNCHANGED <<table, value_, disk, leaving, restarts>>

(* Mutant: a login that failed stays pending. *)
Fails_pending(c) ==
  /\ call' = [call EXCEPT ![c] = NoCall]
  /\ object' = [object EXCEPT ![call[c].obj].onceLoggedIn_ = IF @ = c THEN "rejected" ELSE @]
  /\ UNCHANGED pendingNetworks_

Fails(c) ==
  /\ call' = [call EXCEPT ![c] = NoCall]
  /\ object' = [object EXCEPT ![call[c].obj].onceLoggedIn_ = IF @ = c THEN "rejected" ELSE @]
  /\ pendingNetworks_' = [pendingNetworks_ EXCEPT ![call[c].net] = None]

ProviderRejects(c) ==
  /\ call[c].stage = "provider" /\ Fails(c)
  /\ UNCHANGED <<table, storeVars, leaving, up, restarts>>

(* The provider has logged in: an object that is in the table is told to log  *)
(* out, which the login does not wait for.                                     *)
ProviderLogsIn(c) ==
  LET n == call[c].net o == call[c].obj IN
  /\ call[c].stage = "provider"
  /\ table' = [table EXCEPT ![n] = o]
  /\ object' = [object EXCEPT ![o].monitor = TRUE]
  /\ call' = [call EXCEPT ![c].stage = "prepare"]
  /\ leaving' = leaving \cup ({table[n]} \ {None})
  /\ UNCHANGED <<pendingNetworks_, storeVars, up, restarts>>

(* The local instance is there: the user interface is told, through the       *)
(* table, and if the entry has gone the login fails.                          *)
Prepared(c) ==
  LET n == call[c].net o == call[c].obj IN
  /\ call[c].stage = "prepare"
  /\ IF table[n] = None THEN Fails(c)
     ELSE /\ pendingNetworks_' = [pendingNetworks_ EXCEPT ![n] = None]
          /\ object' = [object EXCEPT ![o].logout = "armed",
                          ![o].onceLoggedIn_ = IF @ = c THEN "fulfilled" ELSE @]
          /\ call' = Waits(c, "add")
  /\ UNCHANGED <<table, storeVars, leaving, up, restarts>>

(* fulfillLogout_ and what waits for onceLoggedOut_: the entry of the table   *)
(* is deleted, whatever object it is.  The user interface is not told: it is  *)
(* told through the table.                                                    *)
LoggedOut(o) ==
  IF object[o].logout # "armed" THEN UNCHANGED <<table, object>>
  ELSE /\ table' = [table EXCEPT ![object[o].net] = None]
       /\ object' = [object EXCEPT ![o].logout = "called", ![o].monitor = FALSE]

(* uProxyCore.logout, asked for by the user, and FreedomNetwork.logout. *)
logout(c, n) ==
  /\ up /\ call[c].stage = "done" /\ table[n] # None
  /\ call' = [call EXCEPT ![c] = [stage |-> "leave", net |-> n, obj |-> table[n], after |-> 0]]
  /\ UNCHANGED <<table, pendingNetworks_, object, leaving, storeVars, up, restarts>>

(* The provider has logged out, or will not.  With no one to call the call    *)
(* fails.                                                                     *)
ProviderLogsOut(c) ==
  LET o == call[c].obj IN
  /\ call[c].stage = "leave"
  /\ \/ /\ LoggedOut(o)
        /\ call' = IF object[o].logout = "undefined" THEN [call EXCEPT ![c] = NoCall]
                                                     ELSE Waits(c, "drop")
     \/ call' = [call EXCEPT ![c] = NoCall] /\ UNCHANGED <<table, object>>
  /\ UNCHANGED <<pendingNetworks_, leaving, storeVars, up, restarts>>

(* ... for an object that was told to make room. *)
Leaves(o) ==
  /\ o \in leaving /\ leaving' = leaving \ {o}
  /\ LoggedOut(o) \/ UNCHANGED <<table, object>>
  /\ UNCHANGED <<pendingNetworks_, call, storeVars, up, restarts>>

(* handleClientState, for the client of this installation, when it goes       *)
(* offline: what the provider says is dropped if the last login failed.       *)
handleClientState(o) ==
  /\ object[o].onceLoggedIn_ = "fulfilled" /\ object[o].logout = "armed"
  /\ LoggedOut(o)
  /\ UNCHANGED <<pendingNetworks_, call, leaving, storeVars, up, restarts>>

(* The core ends, with what it was saving saved or not, and starts again.     *)
Restart ==
  /\ restarts < MaxRestarts /\ restarts' = restarts + 1
  /\ table' = Empty /\ pendingNetworks_' = Empty /\ object' = Fresh /\ call' = Idle /\ leaving' = {}
  /\ disk' \in {disk} \cup Range(saves) /\ value_' = disk' /\ saves' = <<>> /\ up' = FALSE

Next ==
  \/ Reconnect \/ Saved \/ Restart
  \/ \E c \in Call, n \in Network : login(c, n) \/ logout(c, n)
  \/ \E c \in Call : Get(c) \/ ProviderRejects(c) \/ ProviderLogsIn(c) \/ Prepared(c)
                     \/ ProviderLogsOut(c)
  \/ \E o \in Object : Leaves(o) \/ handleClientState(o)

Spec == Init /\ [][Next]_vars

------------------------------------------------------------------------------
(* A login that others may join is under way: none is left behind that would  *)
(* have every later login wait for it (uproxy_core.ts:130, 137, 160).         *)
PendingIsTried ==
  \A n \in Network : pendingNetworks_[n] # None =>
    \E c \in Call : call[c].obj = pendingNetworks_[n] /\ call[c].stage \in {"provider", "prepare"}

(* The friends on a network that is logged in to are asked for what they have *)
(* not sent yet, however often it was logged in to (social.ts:793).           *)
OnlineIsMonitored ==
  \A n \in Network : table[n] # None /\ object[table[n]].logout = "armed" => object[table[n]].monitor

Quiet == up /\ saves = <<>> /\ leaving = {} /\ \A c \in Call : call[c].stage = "done"

(* "those that successfully get logged in will be re-added"                   *)
(* (uproxy_core.ts:91-92).                                                    *)
Remembered == Quiet => \A n \in Network : table[n] # None => n \in disk
================================================================================
