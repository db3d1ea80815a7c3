---------------------------------- MODULE Roster --------------------------------
(* The contacts of one network as the user interface lists them (ui.ts,        *)
(* user.ts and model.ts of generic_ui/scripts): the updates of the core change *)
(* the User objects of the roster, and each change moves an object between the *)
(* arrays of model.contacts.  A login makes new objects.  Each contact has one *)
(* instance.                                                                   *)
EXTENDS Naturals, FiniteSets

CONSTANTS
  Contact,
  MaxLogins     \* bound: times the network comes online

VARIABLES
  online, logins,          \* the network is in onlineNetworks; how often it came
  roster,                  \* the contacts with a User in its roster
  consent_, offering,      \* of each contact's User
  status,                  \* LOCAL_INVITED_BY_REMOTE ... : those shared with us alone
  listed,                  \* how often each array of model.contacts holds each object
  mapInstanceIdToUser_,    \* the object of the instance of each contact
  instancesGivingAccessTo,
  isGettingFromMe,         \* the objects
  removed                  \* contacts removed and not added anew (model only)

vars == <<online, logins, roster, consent_, offering, status, listed,
          mapInstanceIdToUser_, instancesGivingAccessTo, isGettingFromMe, removed>>

Tab == {"get", "share"}
Category == {"pending", "trustedUproxy", "untrustedUproxy"}
UserObject == Contact \X (1..MaxLogins)
This(c) == <<c, logins>>

Bit == {"localRequestsAccessFromRemote", "localGrantsAccessToRemote",
        "remoteRequestsAccessFromLocal", "ignoringRemoteUserRequest", "ignoringRemoteUserOffer"}

(* What the core may tell: consent.ts sets no request or grant together with   *)
(* the bit that ignores the same (consent.ts:38-72).                           *)
Consents ==
  {b \in SUBSET Bit :
     /\ ~({"localRequestsAccessFromRemote", "ignoringRemoteUserOffer"} \subseteq b)
     /\ ~({"localGrantsAccessToRemote", "ignoringRemoteUserRequest"} \subseteq b)}

TypeOK ==
  /\ online \in BOOLEAN /\ logins \in 0..MaxLogins
  /\ roster \subseteq Contact /\ (~online => roster = {})
  /\ consent_ \in [Contact -> Consents] /\ offering \in [Contact -> BOOLEAN]
  /\ status \in [Contact -> {"FRIEND", "CLOUD_INSTANCE_SHARED_WITH_LOCAL"}]
  /\ listed \in [Tab -> [UserObject -> [Category -> 0..2]]]
  /\ mapInstanceIdToUser_ \in [Contact -> 0..MaxLogins]
  /\ instancesGivingAccessTo \subseteq Contact /\ isGettingFromMe \subseteq UserObject
  /\ removed \subseteq Contact

Init ==
  /\ online = FALSE /\ logins = 0 /\ roster = {}
  /\ consent_ = [c \in Contact |-> {}] /\ offering = [c \in Contact |-> FALSE]
  /\ status \in [Contact -> {"FRIEND", "CLOUD_INSTANCE_SHARED_WITH_LOCAL"}]
  /\ listed = [t \in Tab |-> [o \in UserObject |-> [k \in Category |-> 0]]]
  /\ mapInstanceIdToUser_ = [c \in Contact |-> 0]
  /\ instancesGivingAccessTo = {} /\ isGettingFromMe = {} /\ removed = {}

Nowhere == "none"   \* null, the category of a user that is in no array

(* getCategories *)
getTab(b, offers) ==
  IF offers /\ "localRequestsAccessFromRemote" \in b THEN "trustedUproxy"
  ELSE IF offers /\ "ignoringRemoteUserOffer" \notin b THEN "pending"
  ELSE "untrustedUproxy"

shareTab(b) ==
  IF "localGrantsAccessToRemote" \in b THEN "trustedUproxy"
  ELSE IF "remoteRequestsAccessFromLocal" \in b /\ "ignoringRemoteUserRequest" \notin b
  THEN "pending" ELSE "untrustedUproxy"

getCategories(c) == [get |-> getTab(consent_[c], offering[c]), share |-> shareTab(consent_[c])]

(* categorizeUser: counts is how often each array of a tab holds the object.   *)
categorizeUser(counts, oldCategory, newCategory) ==
  [k \in Category |->
     IF oldCategory = newCategory THEN counts[k]
     ELSE IF k = newCategory THEN counts[k] + 1
     ELSE IF k = oldCategory /\ counts[k] > 0 THEN counts[k] - 1
     ELSE counts[k]]

(* Out of the arrays of both tabs. *)
Unlist(cs) ==
  listed' = [t \in Tab |-> [o \in UserObject |->
               IF \E c \in cs : o = This(c)
               THEN categorizeUser(listed[t][o], getCategories(o[1])[t], Nowhere)
               ELSE listed[t][o]]]

(* syncNetwork_, of a network that came online. *)
syncNetwork_online ==
  /\ ~online /\ logins < MaxLogins
  /\ online' = TRUE /\ logins' = logins + 1 /\ removed' = {}
  /\ UNCHANGED <<roster, consent_, offering, status, listed, mapInstanceIdToUser_,
                 instancesGivingAccessTo, isGettingFromMe>>

(* syncNetwork_ and removeNetwork: its users leave every array. *)
syncNetwork_offline ==
  /\ online
  /\ Unlist(roster)
  /\ online' = FALSE /\ roster' = {}
  /\ consent_' = [c \in Contact |-> {}] /\ offering' = [c \in Contact |-> FALSE]
  /\ UNCHANGED <<logins, status, mapInstanceIdToUser_, instancesGivingAccessTo, isGettingFromMe,
                 removed>>

(* syncUser and User.update: the object is made when first heard of, takes     *)
(* what the core says, and is moved between arrays.  Notifications and what    *)
(* is shown expanded are left out.                                             *)
syncUser(c, b, offers, sharing) ==
  /\ online
  /\ LET known == c \in roster
         old == IF known THEN getCategories(c) ELSE [t \in Tab |-> Nowhere]
         new == [get |-> getTab(b, offers), share |-> shareTab(b)]
         tabs == IF status[c] = "FRIEND" THEN Tab ELSE {"get"}
     IN  listed' = [t \in Tab |->
           IF t \in tabs THEN [listed[t] EXCEPT ![This(c)] = categorizeUser(@, old[t], new[t])]
           ELSE listed[t]]
  /\ roster' = roster \cup {c}
  /\ consent_' = [consent_ EXCEPT ![c] = b] /\ offering' = [offering EXCEPT ![c] = offers]
  /\ mapInstanceIdToUser_' = [mapInstanceIdToUser_ EXCEPT ![c] = logins]
  /\ IF sharing THEN /\ instancesGivingAccessTo' = instancesGivingAccessTo \cup {c}
                     /\ isGettingFromMe' = isGettingFromMe \cup {This(c)}
     ELSE UNCHANGED <<instancesGivingAccessTo, isGettingFromMe>>
  /\ UNCHANGED <<online, logins, status, removed>>

(* removeFriend and removeContact: out of the arrays, and not of the roster. *)
removeFriend(c) ==
  /\ c \in roster \ removed
  /\ Unlist({c})
  /\ removed' = removed \cup {c}
  /\ UNCHANGED <<online, logins, roster, consent_, offering, status,
                 mapInstanceIdToUser_, instancesGivingAccessTo, isGettingFromMe>>

(* START_GIVING_TO_FRIEND, of an instance that is known. *)
StartGiving(c) ==
  /\ mapInstanceIdToUser_[c] # 0
  /\ instancesGivingAccessTo' = instancesGivingAccessTo \cup {c}
  /\ isGettingFromMe' = isGettingFromMe \cup {<<c, mapInstanceIdToUser_[c]>>}
  /\ UNCHANGED <<online, logins, roster, consent_, offering, status, listed,
                 mapInstanceIdToUser_, removed>>

(* STOP_GIVING_TO_FRIEND *)
StopGiving(c) ==
  /\ mapInstanceIdToUser_[c] # 0
  /\ instancesGivingAccessTo' = instancesGivingAccessTo \ {c}
  /\ isGettingFromMe' = isGettingFromMe \ {<<c, mapInstanceIdToUser_[c]>>}
  /\ UNCHANGED <<online, logins, roster, consent_, offering, status, listed,
                 mapInstanceIdToUser_, removed>>

Next ==
  \/ syncNetwork_online \/ syncNetwork_offline
  \/ \E c \in Contact :
       \/ \E b \in Consents, offers \in BOOLEAN, sharing \in BOOLEAN : syncUser(c, b, offers, sharing)
       \/ removeFriend(c) \/ StartGiving(c) \/ StopGiving(c)

Spec == Init /\ [][Next]_vars

(* The object is in one array of the tab, that of its category. *)
InPlace(c, t) ==
  \A k \in Category :
    listed[t][This(c)][k] = IF k = getCategories(c)[t] THEN 1 ELSE 0

(* A contact is listed once, under what can be done with it now: in both tabs  *)
(* the arrays hold each contact of an online network in its category and       *)
(* nowhere else, and nothing of an earlier login, whatever updates came, went  *)
(* and came again (ui.ts:798-907, model.ts:90-158, user.ts:72-279).            *)
ListedOnce ==
  /\ \A c \in roster \ removed :
       InPlace(c, "get") /\ (status[c] = "FRIEND" => InPlace(c, "share"))
  /\ \A t \in Tab, o \in UserObject, k \in Category :
       listed[t][o][k] > 0 => (online /\ o[2] = logins /\ o[1] \in roster)

(* A contact that was removed and is added again is listed again: not so, its  *)
(* object stayed in the roster, so that its category does not change           *)
(* (ui.ts:862-907, 974-979; model.ts:113-121).                                 *)
AddedAgainIsListed ==
  [][\A c \in Contact : (consent_'[c] # consent_[c] /\ c \in removed /\ online')
       => \E k \in Category : listed'["get"][This(c)][k] > 0]_vars
==================================================================================
