-------------------------------- MODULE Invites --------------------------------
(* Invitations, from the link that the user clicks to the contact that the     *)
(* core adds: the user interface reads the link, has the user log in or        *)
(* confirm, and passes it to the core, whose network accepts it and keeps the  *)
(* permission token that came with it (ui.ts, uproxy_core.ts, social.ts,       *)
(* remote-user.ts, remote-instance.ts).  There is one social network, with one *)
(* contact that all its invitations come from, and the network of the clouds.  *)
EXTENDS Naturals, FiniteSets, Sequences

CONSTANTS
  Invite,
  CloudInvite,   \* those to a server of the cloud
  None,
  MaxLogins,     \* bound: logins to either network
  MaxRemovals    \* bound: how often the contact is removed


Network == {"Cloud", "social"}
On(i) == IF i \in CloudInvite THEN "Cloud" ELSE "social"

VARIABLES
  stage,       \* of each invitation, see Stage
  asked,       \* the invitation the open dialog is about, or None
  agreed,      \* the invitations the user said yes to
  told,        \* the invitations whose failure the user was told of
  logins, removals,
  networks,    \* of the core: the networks that are logged in
  left,        \* the networks that were ever logged out
  modelNet,    \* of the user interface: model.onlineNetworks
  toUi,        \* updates and results on their way to it
  valid,       \* globals.settings allows any server of the cloud
  contact,     \* "absent", "loading" or "loaded"
  grants,      \* its consent.localGrantsAccessToRemote
  offered,     \* the user invited it with an offer since it was added
  contactDisk, \* what is stored of grants, or None
  instance,    \* of the contact: "absent", "loading", "loaded"
  token,       \* its unusedPermissionToken: an invitation, or None
  tokenDisk,   \* what is stored of it: <<>> or <<token>>
  sent         \* the tokens the contact was sent

Stage == {"new", "question", "login", "granted", "returned", "sent", "provider", "accepted",
          "refused", "failed", "lost"}
uiVars == <<stage, asked, agreed, told>>
netVars == <<logins, networks, left, modelNet, toUi, valid>>
contactVars == <<removals, contact, grants, offered, contactDisk, instance, token, tokenDisk, sent>>
vars == <<uiVars, netVars, contactVars>>

TypeOK ==
  /\ stage \in [Invite -> Stage] /\ asked \in Invite \cup {None}
  /\ agreed \subseteq Invite /\ told \subseteq Invite
  /\ networks \subseteq Network /\ modelNet \subseteq Network /\ left \subseteq Network
  /\ contact \in {"absent", "loading", "loaded"} /\ instance \in {"absent", "loading", "loaded"}
  /\ token \in Invite \cup {None} /\ sent \subseteq Invite

Init ==
  /\ stage = [i \in Invite |-> "new"] /\ asked = None /\ agreed = {} /\ told = {}
  /\ logins = 0 /\ removals = 0
  /\ networks = {} /\ left = {} /\ modelNet = {} /\ toUi = <<>>
  /\ valid \in BOOLEAN
  /\ contact = "absent" /\ grants = FALSE /\ offered = FALSE /\ contactDisk \in {None, FALSE}
  /\ instance = "absent" /\ token = None /\ tokenDisk = <<>> /\ sent = {}

(* Mutant: a question that another replaces counts as confirmed. *)
Ask_confirms(i) ==
  /\ asked' = i
  /\ stage' = [j \in Invite |-> CASE j = i -> "question"
                                  [] j = asked -> "sent"
                                  [] OTHER -> stage[j]]

(* getConfirmation, getUserInput: the one dialog answers a question that is    *)
(* still open with no.                                                         *)
Ask(i) ==
  /\ asked' = i
  /\ stage' = [j \in Invite |-> CASE j = i -> "question"
                                  [] j = asked -> "refused"
                                  [] OTHER -> stage[j]]

(* A link that cannot be read is reported by a dialog. *)
Unreadable(i) ==
  /\ stage[i] = "new" /\ told' = told \cup {i} /\ asked' = None
  /\ stage' = [j \in Invite |-> IF j = i THEN "failed" ELSE IF j = asked THEN "refused"
                                ELSE stage[j]]
  /\ UNCHANGED <<agreed, netVars, contactVars>>

(* An invitation to the cloud is accepted without a question, after a login    *)
(* if need be; another asks first, for a login or for the contact.             *)
handleInvite(i) ==
  /\ stage[i] = "new"
  /\ IF On(i) = "Cloud"
     THEN /\ stage' = [stage EXCEPT ![i] = IF "Cloud" \in modelNet THEN "sent" ELSE "login"]
          /\ UNCHANGED asked
     ELSE Ask(i)
  /\ UNCHANGED <<agreed, told, netVars, contactVars>>

(* The user's answer: with no, the invitation ends without a word.             *)
Answer(yes) ==
  /\ asked # None /\ asked' = None
  /\ stage' = [stage EXCEPT ![asked] =
       IF ~yes THEN "refused" ELSE IF On(asked) \in modelNet THEN "sent" ELSE "login"]
  /\ agreed' = IF yes THEN agreed \cup {asked} ELSE agreed
  /\ UNCHANGED <<told, netVars, contactVars>>

LoginWaits(n) == {i \in Invite : stage[i] = "login" /\ On(i) = n}

(* login: the network is entered in the table and the user interface told of   *)
(* it before the promise is fulfilled.  The user may log in without an         *)
(* invitation, too.                                                            *)
LoggedIn(n) ==
  /\ logins < MaxLogins /\ logins' = logins + 1
  /\ networks' = networks \cup {n} /\ toUi' = Append(toUi, n)
  /\ stage' = [i \in Invite |-> IF i \in LoginWaits(n) THEN "granted" ELSE stage[i]]
  /\ UNCHANGED <<asked, agreed, told, left, modelNet, valid, contactVars>>

LoginDone(i) ==
  /\ stage[i] = "granted" /\ toUi' = Append(toUi, i)
  /\ stage' = [stage EXCEPT ![i] = "returned"]
  /\ UNCHANGED <<asked, agreed, told, logins, networks, left, modelNet, valid, contactVars>>

(* A failed login is shown as a notification. *)
LoginFails(n) ==
  /\ LoginWaits(n) # {} /\ told' = told \cup LoginWaits(n)
  /\ stage' = [i \in Invite |-> IF i \in LoginWaits(n) THEN "failed" ELSE stage[i]]
  /\ UNCHANGED <<asked, agreed, netVars, contactVars>>

(* syncNetwork_, or the end of a login, after which the invitation is passed   *)
(* on without a further question.                                              *)
syncNetwork_ ==
  /\ toUi # <<>> /\ toUi' = Tail(toUi)
  /\ IF Head(toUi) \in Network
     THEN modelNet' = modelNet \cup {Head(toUi)} /\ UNCHANGED stage
     ELSE /\ stage' = [stage EXCEPT ![Head(toUi)] = "sent"]
          /\ UNCHANGED modelNet
  /\ UNCHANGED <<asked, agreed, told, logins, networks, left, valid, contactVars>>

(* removeNetwork, however a network is left: the network is deleted, and       *)
(* notifyUI, which looks for it, throws; the user interface is not told.  The  *)
(* cloud cannot be logged out of.                                              *)
removeNetwork ==
  /\ "social" \in networks /\ networks' = networks \ {"social"} /\ left' = left \cup {"social"}
  /\ UNCHANGED <<uiVars, logins, modelNet, toUi, valid, contactVars>>

(* The user interface is loaded again: it forgets what it showed and asks.     *)
updateInitialState ==
  /\ modelNet # networks /\ toUi = <<>> /\ modelNet' = networks
  /\ UNCHANGED <<uiVars, logins, networks, left, toUi, valid, contactVars>>

(* updateOrgPolicy, and the settings the user saves. *)
updateOrgPolicy ==
  /\ valid' = ~valid
  /\ UNCHANGED <<uiVars, logins, networks, left, modelNet, toUi, contactVars>>

(* acceptInvitation of the core: a network that is not logged in, or a server  *)
(* that the policy does not allow, throws, and addUser_ takes any error for a  *)
(* user who did not confirm.                                                   *)
acceptInvitation(i) ==
  /\ stage[i] = "sent"
  /\ stage' = [stage EXCEPT ![i] =
       IF On(i) \notin networks THEN "lost"
       ELSE IF On(i) = "Cloud" /\ ~valid THEN "failed" ELSE "provider"]
  /\ UNCHANGED <<asked, agreed, told, netVars, contactVars>>

(* The provider's error is logged, not passed on. *)
ProviderRefuses(i) ==
  /\ stage[i] = "provider" /\ stage' = [stage EXCEPT ![i] = "failed"]
  /\ UNCHANGED <<asked, agreed, told, netVars, contactVars>>

(* getOrAddUser_ and handleInvitePermissions: the token waits for the next     *)
(* message of the contact's instance.  A new object loads what is stored.      *)
ProviderAccepts(i) ==
  /\ stage[i] = "provider" /\ stage' = [stage EXCEPT ![i] = "accepted"]
  /\ \/ UNCHANGED contactVars   \* no permission came with it, or it is the cloud's
     \/ /\ On(i) = "social"
        /\ contact' = (IF contact = "absent" THEN "loading" ELSE contact)
        /\ instance' = (IF instance = "absent" THEN "loading" ELSE instance)
        /\ token' = i
        /\ tokenDisk' = (IF instance = "loaded" THEN <<i>> ELSE tokenDisk)
        /\ UNCHANGED <<removals, grants, offered, contactDisk, sent>>
  /\ UNCHANGED <<asked, agreed, told, netVars>>

(* inviteGitHubUser with an offer: consent is set before what is stored of a   *)
(* new contact was loaded.                                                     *)
inviteGitHubUser ==
  /\ "social" \in networks /\ ~offered /\ offered' = TRUE /\ grants' = TRUE
  /\ contact' = (IF contact = "absent" THEN "loading" ELSE contact)
  /\ contactDisk' = (IF contact = "loaded" THEN TRUE ELSE contactDisk)
  /\ UNCHANGED <<uiVars, netVars, removals, instance, token, tokenDisk, sent>>

(* restoreState of the contact; the saves that waited follow. *)
ContactLoaded ==
  /\ contact = "loading" /\ contact' = "loaded"
  /\ grants' = IF contactDisk = None THEN grants ELSE contactDisk
  /\ contactDisk' = grants'
  /\ UNCHANGED <<uiVars, netVars, removals, offered, instance, token, tokenDisk, sent>>

(* restoreState of the instance *)
InstanceLoaded ==
  /\ instance = "loading" /\ instance' = "loaded"
  /\ token' = IF tokenDisk = <<>> THEN token ELSE tokenDisk[1]
  /\ tokenDisk' = <<token'>>
  /\ UNCHANGED <<uiVars, netVars, removals, contact, grants, offered, contactDisk, sent>>

(* handleMessage of an INSTANCE message: once the instance is loaded, a token  *)
(* is sent and cleared.                                                        *)
SendToken ==
  /\ instance = "loaded" /\ token # None
  /\ sent' = sent \cup {token} /\ token' = None /\ tokenDisk' = <<None>>
  /\ UNCHANGED <<uiVars, netVars, removals, contact, grants, offered, contactDisk, instance>>

(* removeContact: what is stored of the instance stays.  It is not tried while  *)
(* something still loads.                                                      *)
removeContact ==
  /\ contact = "loaded" /\ instance # "loading" /\ removals < MaxRemovals
  /\ removals' = removals + 1
  /\ contact' = "absent" /\ instance' = "absent" /\ grants' = FALSE /\ offered' = FALSE
  /\ contactDisk' = None /\ token' = None
  /\ UNCHANGED <<uiVars, netVars, tokenDisk, sent>>

Next ==
  \/ \E yes \in BOOLEAN : Answer(yes)
  \/ \E n \in Network : LoggedIn(n) \/ LoginFails(n)
  \/ syncNetwork_ \/ removeNetwork \/ updateInitialState \/ updateOrgPolicy
  \/ \E i \in Invite : Unreadable(i) \/ handleInvite(i) \/ LoginDone(i) \/ acceptInvitation(i)
                       \/ ProviderAccepts(i) \/ ProviderRefuses(i)
  \/ inviteGitHubUser \/ ContactLoaded \/ InstanceLoaded \/ SendToken \/ removeContact

Spec == Init /\ [][Next]_vars

(* However questions replace each other, logins and logouts come between, and  *)
(* messages to the user interface lag: only an invitation the user agreed to   *)
(* is accepted on the social network, and its token kept or sent (ui.ts:       *)
(* 418-435, 534-550); and one the user agreed to is lost for want of a login   *)
(* only after a logout (uproxy_core.ts:317-331, social.ts:585-588).            *)
InvitesAreMeant ==
  /\ \A i \in Invite \ CloudInvite : stage[i] = "accepted" \/ i \in sent \cup {token} => i \in agreed
  /\ \A i \in Invite : stage[i] = "lost" => On(i) \in left

(* "Add or update the online status of a network." (ui.ts:169): once it has    *)
(* read all that it was sent, the user interface shows the networks that are   *)
(* logged in.                                                                  *)
NetworksAreShown == toUi = <<>> => modelNet = networks

(* An invitation that fails is reported, unless the user said no: showTokenError *)
(* (ui.ts:489-491, 511-549) is there for it.                                   *)
FailureIsTold == \A i \in Invite : stage[i] \in {"failed", "lost"} => i \in told

(* "save permission token so that we send it back next time we get an instance *)
(* message from them" (remote-user.ts:705-706): a token leaves only to be      *)
(* sent, or for a newer one, or with the contact.                              *)
TokenKept ==
  [][token # None /\ token' # token => token \in sent' \/ stage' # stage \/ removals' # removals]_vars

(* An offer made with an invitation stays until the contact is removed.        *)
OfferKept == offered => grants
===============================================================================
