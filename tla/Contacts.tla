-------------------------------- MODULE Contacts --------------------------------
(* A contact: the User object that the core keeps for a friend, its          *)
(* RemoteInstances, what of them is in storage (remote-user.ts,              *)
(* remote-instance.ts, storage.ts), and the permission token that the local  *)
(* user sent the friend with an invitation (local-instance.ts).              *)
(*                                                                            *)
(* The friend has several clients; each announces one instance, and two may  *)
(* be the same device before and after it lost its connection.  The core may *)
(* be restarted at any time.  Of the consent bits those of sharing are kept: *)
(* the local grant and the friend's request; those of getting go the same    *)
(* way.  What is done in one turn of the event loop is one step.  It ends    *)
(* with writes to storage under way, of one key or of several: each lasts    *)
(* from some later step on, or never, as nobody waits for a write or does    *)
(* more than log that it failed.                                             *)
EXTENDS Naturals, Sequences, SequencesExt

CONSTANTS
  Client, Instance,  \* of the friend
  None,              \* undefined; nothing sent
  Null,              \* null
  InstanceOf,        \* the instance each client announces
  MaxNet,            \* bound: messages under way from one client
  MaxDue,            \* bound: operations that wait for onceLoaded
  MaxRestarts        \* bound

VARIABLES
  \* the User object
  user,        \* its fields, or None
  reads,       \* the reads of storage under way, in order, each with what was
               \* stored when it was asked for
  due,         \* what waits for onceLoaded
  \* its RemoteInstances
  wire,        \* wireConsentFromRemote.isRequesting, None before the object exists
  news,        \* a handshake that waits for the onceLoaded of the instance
  \* elsewhere
  disk,        \* what was written last, of the user and of each instance
  exchanged,   \* acceptedByUserIds of the token contains the friend
  kept,        \* what of these three has lasted
  \* the friend
  theirs,      \* whether the friend requests access
  up,          \* the clients that are connected
  told,        \* the grant each client was last told of
  toUs,        \* messages under way from each
  restarts

friendVars == <<theirs, up>>
vars == <<user, reads, due, wire, news, disk, exchanged, kept, friendVars, told, toUs,
          restarts>>

Consent == [grants : BOOLEAN, remoteRequests : BOOLEAN]
Op == [op : {"handshake"}, c : Client] \cup [op : {"save"}] \cup [op : {"modify"}, grants : BOOLEAN]

UserObject ==
  [consent : Consent, loaded : BOOLEAN, instances : SUBSET Instance, online : SUBSET Client,
   clientToInstance : [Client -> Instance \cup {None, Null}],
   instanceToClient : [Instance -> Client \cup {None}]]

TypeOK ==
  /\ user # None => user \in UserObject
  /\ \A k \in 1..Len(reads) : reads[k].of \in Instance \cup {"user"}
  /\ due \in Seq(Op)
  /\ wire \in [Instance -> BOOLEAN \cup {None}] /\ news \in [Instance -> BOOLEAN \cup {None}]
  /\ {disk.user, kept.user} \ {None} \subseteq [consent : Consent, instances : SUBSET Instance]
  /\ {disk.wire, kept.wire} \subseteq [Instance -> BOOLEAN \cup {None}]
  /\ {exchanged, kept.exchanged} \subseteq BOOLEAN /\ theirs \in BOOLEAN /\ up \in SUBSET Client
  /\ told \in [Client -> BOOLEAN \cup {None}]
  /\ toUs \in [Client -> Seq([type : {"instance"}, requests : BOOLEAN]
                             \cup [type : {"request", "token"}])]

Init ==
  /\ user = None /\ reads = <<>> /\ due = <<>>
  /\ wire = [i \in Instance |-> None] /\ news = [i \in Instance |-> None]
  /\ disk = [user |-> None, wire |-> [i \in Instance |-> None]]
  /\ kept = [user |-> None, wire |-> [i \in Instance |-> None], exchanged |-> FALSE]
  /\ exchanged = FALSE /\ theirs \in BOOLEAN /\ up = {}
  /\ told = [c \in Client |-> None] /\ toUs = [c \in Client |-> <<>>]
  /\ restarts = 0

NewUser ==
  [consent |-> [grants |-> FALSE, remoteRequests |-> FALSE], loaded |-> FALSE,
   instances |-> {}, online |-> {}, clientToInstance |-> [c \in Client |-> None],
   instanceToClient |-> [i \in Instance |-> None]]

------------------------------------------------------------------------------
(* What an operation works on: the object, what is told to the clients, and   *)
(* the user's entry in storage.                                               *)
W(u) == [user |-> u, told |-> told, disk |-> disk.user]

isInstanceOnline(u, i) == u.instanceToClient[i] # None /\ u.instanceToClient[i] \in u.online

Tell(w, S) ==
  [w EXCEPT !.told = [c \in Client |-> IF c \in S THEN w.user.consent.grants ELSE @[c]]]

(* saveToStorage; ignoreUser_ where not all contacts use uProxy. *)
Save(w) ==
  IF w.user.instances = {} THEN w
  ELSE [w EXCEPT !.disk = [consent |-> w.user.consent, instances |-> w.user.instances]]

(* modifyConsent, with OFFER or CANCEL_OFFER. *)
Modify(w, grants) ==
  LET x == [w EXCEPT !.user.consent.grants = grants]
      online == {x.user.instanceToClient[i] : i \in {j \in x.user.instances : isInstanceOnline(x.user, j)}}
  IN  Save(Tell(x, online))

Do(w, o) ==
  CASE o.op = "handshake" -> Tell(w, {o.c})
    [] o.op = "save" -> Save(w)
    [] o.op = "modify" -> Modify(w, o.grants)

(* One operation after the other. *)
DoAll(w, ops) ==
  LET done[k \in 0..Len(ops)] == IF k = 0 THEN w ELSE Do(done[k - 1], ops[k])
  IN  done[Len(ops)]

(* Mutant: nothing waits for what is in storage. *)
OnceLoaded_not(u, ops) ==
  LET w == DoAll(W(u), ops) IN
  user' = w.user /\ told' = w.told /\ disk' = [disk EXCEPT !.user = w.disk] /\ UNCHANGED due

(* onceLoaded.then(...) for each of the operations. *)
OnceLoaded(u, ops) ==
  IF u.loaded
    THEN LET w == DoAll(W(u), ops) IN
         user' = w.user /\ told' = w.told /\ disk' = [disk EXCEPT !.user = w.disk] /\ UNCHANGED due
    ELSE /\ Len(due \o ops) <= MaxDue
         /\ user' = u /\ due' = due \o ops /\ UNCHANGED <<told, disk>>

Handshake(c) == [op |-> "handshake", c |-> c]
SaveOp == [op |-> "save"]

(* Whether any instance of the friend asks for access.                        *)
updateRemoteRequestsAccessFromLocal(u, wires) ==
  [u EXCEPT !.consent.remoteRequests = \E i \in u.instances : wires[i] = TRUE]

------------------------------------------------------------------------------
(* The object is made when the roster is restored, or when the network tells  *)
(* of a client or a message of the friend.                                    *)
addUser ==
  /\ user = None /\ user' = NewUser
  /\ reads' = <<[of |-> "user", value |-> disk.user]>> /\ due' = <<>>
  /\ UNCHANGED <<wire, news, disk, exchanged, kept, friendVars, told, toUs, restarts>>

handleClientOnline(c) ==
  /\ user # None /\ c \in up \ user.online
  /\ OnceLoaded([user EXCEPT !.online = @ \cup {c}], <<Handshake(c)>>)
  /\ UNCHANGED <<reads, wire, news, exchanged, kept, friendVars, toUs, restarts>>

(* Mutant: a client that leaves stays the client of its instance. *)
removeClient__half(u, c) ==
  [u EXCEPT !.online = @ \ {c}, !.clientToInstance[c] = None]

removeClient_(u, c) ==
  LET i == u.clientToInstance[c]
      x == [u EXCEPT !.online = @ \ {c}, !.clientToInstance[c] = None]
  IN  IF i \in Instance THEN [x EXCEPT !.instanceToClient[i] = None] ELSE x

handleClientOffline(c) ==
  /\ user # None /\ c \in user.online \ up
  /\ user' = removeClient_(user, c)
  /\ toUs' = [toUs EXCEPT ![c] = <<>>] /\ told' = [told EXCEPT ![c] = None]
  /\ UNCHANGED <<reads, due, wire, news, disk, exchanged, kept, friendVars, restarts>>

(* A message of a client that is known. *)
Reads(c, type) ==
  /\ user # None /\ c \in user.online /\ toUs[c] # <<>>
  /\ Head(toUs[c]).type = type
  /\ toUs' = [toUs EXCEPT ![c] = Tail(@)]

Read(i) == [of |-> i, value |-> disk.wire[i]]

(* syncInstance_, and the constructor of the instance.  Its update goes on    *)
(* when its onceLoaded is there.                                              *)
syncInstance_(c) ==
  LET i == InstanceOf[c]
      old == user.instanceToClient[i]
      x == IF old = None THEN user ELSE [user EXCEPT !.clientToInstance[old] = Null]
      u == [x EXCEPT !.clientToInstance[c] = i, !.instanceToClient[i] = c,
                     !.instances = @ \cup {i}]
      bit == Head(toUs[c]).requests
      reading == \E k \in 1..Len(reads') : reads'[k].of = i
  IN /\ Reads(c, "instance")
     /\ reads' = IF i \in user.instances THEN reads ELSE Append(reads, Read(i))
     /\ IF reading
          THEN /\ news' = [news EXCEPT ![i] = bit]
               /\ user' = u /\ UNCHANGED <<wire, due, told, disk>>
          ELSE LET wires == [wire EXCEPT ![i] = bit]
                   v == updateRemoteRequestsAccessFromLocal(u, wires)
                   s == [disk EXCEPT !.wire = wires]
               IN /\ wire' = wires /\ UNCHANGED <<news, told>>
                  /\ user' = v
                  /\ IF v.loaded THEN disk' = [s EXCEPT !.user = Save(W(v)).disk] /\ UNCHANGED due
                                 ELSE disk' = s /\ due' = Append(due, SaveOp) /\ Len(due) < MaxDue
     /\ UNCHANGED <<exchanged, kept, friendVars, restarts>>

ReadRequest(c) ==
  /\ Reads(c, "request")
  /\ OnceLoaded(user, <<Handshake(c)>>)
  /\ UNCHANGED <<reads, wire, news, exchanged, kept, friendVars, restarts>>

(* PERMISSION_TOKEN: exchangeInviteToken. *)
ReadToken(c) ==
  /\ Reads(c, "token")
  /\ exchanged' = TRUE
  /\ IF exchanged THEN UNCHANGED <<user, due, told, disk>>
     ELSE OnceLoaded([user EXCEPT !.consent.grants = TRUE], <<Handshake(c), SaveOp>>)
  /\ UNCHANGED <<reads, wire, news, kept, friendVars, restarts>>

(* The local user offers access, or no longer does. *)
modifyConsent(grants) ==
  /\ user # None
  /\ OnceLoaded(user, <<[op |-> "modify", grants |-> grants]>>)
  /\ UNCHANGED <<reads, wire, news, exchanged, kept, friendVars, toUs, restarts>>

------------------------------------------------------------------------------
(* Storage answers the read of the user: restoreState, and if it waits for no *)
(* instance, or there was nothing to restore, the operations that were due.   *)
FinishLoad(u, w) ==
  LET x == DoAll([w EXCEPT !.user = [u EXCEPT !.loaded = TRUE]], due) IN
  /\ user' = x.user /\ told' = x.told /\ disk' = [disk EXCEPT !.user = x.disk]
  /\ due' = <<>>

restoreState ==
  /\ reads # <<>> /\ Head(reads).of = "user"
  /\ LET s == Head(reads).value IN
     IF s = None THEN FinishLoad(user, W(user)) /\ reads' = Tail(reads)
     ELSE LET u == [user EXCEPT !.consent = s.consent, !.instances = @ \cup s.instances]
          IN \E new \in SetToSeqs({Read(i) : i \in s.instances \ user.instances}) :
               /\ reads' = Tail(reads) \o new
               /\ IF new = <<>> THEN FinishLoad(u, W(u))
                                ELSE user' = u /\ UNCHANGED <<due, told, disk>>
  /\ UNCHANGED <<wire, news, exchanged, kept, friendVars, toUs, restarts>>

(* Storage answers the read of an instance, then a handshake that waited for  *)
(* it is taken in; the user is loaded when this was the last it waited for.   *)
restoreInstance ==
  /\ reads # <<>> /\ Head(reads).of # "user" /\ reads' = Tail(reads)
  /\ LET i == Head(reads).of
         stored == IF Head(reads).value = None THEN FALSE ELSE Head(reads).value
         wires == [wire EXCEPT ![i] = IF news[i] = None THEN stored ELSE news[i]]
         u == IF news[i] = None THEN user ELSE updateRemoteRequestsAccessFromLocal(user, wires)
         written == [disk EXCEPT !.wire[i] = IF news[i] = None THEN @ ELSE news[i]]
     IN /\ wire' = wires /\ news' = [news EXCEPT ![i] = None]
        /\ IF ~user.loaded /\ reads' = <<>>
             THEN LET x == DoAll([user |-> [u EXCEPT !.loaded = TRUE], told |-> told,
                                  disk |-> disk.user], Append(due, SaveOp))
                  IN /\ user' = x.user /\ told' = x.told /\ due' = <<>>
                     /\ disk' = [written EXCEPT !.user = x.disk]
             ELSE /\ user' = u /\ UNCHANGED <<due, told>>
                  /\ disk' = IF u.loaded THEN [written EXCEPT !.user = Save(W(u)).disk] ELSE written
  /\ UNCHANGED <<exchanged, kept, friendVars, toUs, restarts>>

(* A write has lasted: in storage.ts nothing waits for one of another key.     *)
(* It shows when the core is restarted, so that after the last time none is    *)
(* taken.                                                                      *)
UserLasts == kept.user # disk.user /\ kept' = [kept EXCEPT !.user = disk.user]
InstanceLasts(i) == kept.wire[i] # disk.wire[i] /\ kept' = [kept EXCEPT !.wire[i] = disk.wire[i]]
TokenLasts == kept.exchanged # exchanged /\ kept' = [kept EXCEPT !.exchanged = exchanged]

Lasts ==
  /\ restarts < MaxRestarts
  /\ UserLasts \/ TokenLasts \/ \E i \in Instance : InstanceLasts(i)
  /\ UNCHANGED <<user, reads, due, wire, news, disk, exchanged, friendVars, told, toUs, restarts>>

(* The core ends, and what has not lasted with it.  The friend sees its        *)
(* client go, and announces itself to the new one.                            *)
Restart ==
  /\ restarts < MaxRestarts /\ restarts' = restarts + 1
  /\ user' = None /\ reads' = <<>> /\ due' = <<>>
  /\ wire' = [i \in Instance |-> None] /\ news' = [i \in Instance |-> None]
  /\ told' = [c \in Client |-> None]
  /\ disk' = [user |-> kept.user, wire |-> kept.wire] /\ exchanged' = kept.exchanged
  /\ toUs' = [c \in Client |-> IF c \in up THEN <<[type |-> "instance", requests |-> theirs]>> ELSE <<>>]
  /\ UNCHANGED <<kept, friendVars>>

------------------------------------------------------------------------------
(* The friend. *)
Says(c, m) == Len(toUs[c]) < MaxNet /\ toUs' = [toUs EXCEPT ![c] = Append(@, m)]

(* A client connects, and announces its instance. *)
ClientUp(c) ==
  /\ c \notin up /\ toUs[c] = <<>> /\ (user # None => c \notin user.online)
  /\ up' = up \cup {c} /\ Says(c, [type |-> "instance", requests |-> theirs])
  /\ UNCHANGED <<user, reads, due, wire, news, disk, exchanged, kept, theirs, told, restarts>>

ClientDown(c) ==
  /\ c \in up /\ up' = up \ {c}
  /\ toUs' = IF user = None \/ c \notin user.online THEN [toUs EXCEPT ![c] = <<>>] ELSE toUs
  /\ UNCHANGED <<user, reads, due, wire, news, disk, exchanged, kept, theirs, told, restarts>>

(* The friend requests access, or no longer does, and all clients say so.     *)
TheyModify ==
  /\ theirs' = ~theirs
  /\ \A c \in up : Len(toUs[c]) < MaxNet
  /\ toUs' = [c \in Client |->
       IF c \in up THEN Append(toUs[c], [type |-> "instance", requests |-> theirs']) ELSE toUs[c]]
  /\ UNCHANGED <<user, reads, due, wire, news, disk, exchanged, kept, up, told, restarts>>

(* A client that was told of the local instance sends the token that came     *)
(* with it; one that was not asks for it.                                     *)
TheyUseToken(c) ==
  /\ c \in up /\ told[c] # None /\ ~exchanged /\ Says(c, [type |-> "token"])
  /\ UNCHANGED <<user, reads, due, wire, news, disk, exchanged, kept, friendVars, told, restarts>>

TheyAsk(c) ==
  /\ c \in up /\ told[c] = None /\ Says(c, [type |-> "request"])
  /\ UNCHANGED <<user, reads, due, wire, news, disk, exchanged, kept, friendVars, told, restarts>>

Next ==
  \/ addUser \/ restoreState \/ restoreInstance \/ Lasts \/ Restart \/ TheyModify
  \/ \E g \in BOOLEAN : modifyConsent(g)
  \/ \E c \in Client :
       \/ handleClientOnline(c) \/ handleClientOffline(c)
       \/ syncInstance_(c) \/ ReadRequest(c) \/ ReadToken(c)
       \/ ClientUp(c) \/ ClientDown(c) \/ TheyUseToken(c) \/ TheyAsk(c)

Spec == Init /\ [][Next]_vars

------------------------------------------------------------------------------
(* The two maps agree, and an instance is reached through a client that is    *)
(* online, however clients of one instance come, speak and go.                *)
MapsAgree ==
  user # None => \A i \in Instance :
    LET c == user.instanceToClient[i] IN
    c # None => c \in user.online /\ user.clientToInstance[c] = i /\ InstanceOf[c] = i

(* Whether a contact in storage may use the local user's access: by what was  *)
(* loaded, or, until then, by what will be.                                   *)
Granted ==
  /\ disk.user # None
  /\ IF user # None /\ user.loaded THEN user.consent.grants ELSE disk.user.consent.grants

(* The user takes the grant back, at once or as soon as the contact is loaded. *)
Withdraws ==
  modifyConsent(FALSE) \/ \E k \in 1..Len(due) : due[k] = [op |-> "modify", grants |-> FALSE]

(* A token gives what it promises for good: the step that uses it up leaves   *)
(* the grant in the consent and writes it, and from then on no step takes the *)
(* grant away, no storage that answers late and no restart, unless the user   *)
(* withdraws it or the core ends before what it wrote of the contact lasted.  *)
HonorsToken ==
  /\ ~exchanged /\ exchanged' => user'.consent.grants /\ disk'.user.consent.grants
  /\ Granted /\ ~Granted' => Withdraws \/ (Restart /\ kept.user # disk.user)

TokenHonored == [][HonorsToken]_vars

(* A token that is used up has given something: not when the core ends and    *)
(* of the two writes of ReadToken that of the token has lasted alone.         *)
UsedForSomething == [][Restart /\ Granted /\ exchanged' => Granted']_vars

(* Whether the friend requests access is known from what its instances said.  *)
RequestKnown ==
  user # None /\ reads = <<>> =>
    (user.consent.remoteRequests <=> \E i \in user.instances : wire[i] = TRUE)

(* "Send new consent bits to all remote clients" (remote-user.ts:643): when   *)
(* all is said, a client that is online was told of the grant as it is.       *)
AllTold ==
  user # None /\ user.loaded /\ (\A c \in Client : toUs[c] = <<>>) =>
    \A c \in user.online : told[c] = user.consent.grants
================================================================================
