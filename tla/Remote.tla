-------------------------------- MODULE Remote --------------------------------
(* Getting and sharing between two uProxy installations: the RemoteInstance   *)
(* and RemoteConnection that one of them, the getter, keeps for the other,    *)
(* and those that the other, the sharer, keeps for the getter                 *)
(* (remote-instance.ts, remote-connection.ts, consent.ts).  They talk through *)
(* a social network that keeps the order of messages and may lose some.       *)
(*                                                                            *)
(* An attempt is a SocksToRtc of the getter, a share an RtcToNet of the       *)
(* sharer; they start, are ready, stop and have stopped (then the name may be *)
(* used again).  Signals carry no name in the code: the attempt a signal      *)
(* comes from is kept here to say where it should go.                         *)
EXTENDS Naturals, Sequences, FiniteSets

CONSTANTS
  Attempt,     \* names of SocksToRtc objects
  Share,       \* names of RtcToNet objects
  None,        \* null
  MaxToSharer, \* bound: messages under way to the sharer
  MaxToGetter, \* bound: messages under way to the getter
  Metadata     \* bound: whether metadata are sent (nothing else depends on them)

ASSUME NoneIsNoName == None \notin Attempt \cup Share

VARIABLES
  \* the getter
  isOffering,      \* wireConsentFromRemote.isOffering
  getting,         \* localGettingFromRemote
  socksToRtc_,     \* the attempt, or None
  attempt,         \* phase of each attempt
  sent,            \* how many of its signals each attempt has sent
  answer,          \* what answer it got: none, its own, or that to another
  getTimer,        \* the attempt startSocksToRtcTimeout_ is for, or None
  online, retry,   \* onlineMonitor; whether a timer of onOnline_ runs
  \* the sharer
  consent,         \* localGrantsAccessToRemote
  sharing,         \* localSharingWithRemote
  rtcToNet_,       \* the share, or None
  share,           \* phase of each share
  serves,          \* the attempt whose signals began the share
  shareTimer,      \* the share startRtcToNetTimeout_ is for, or None
  created,         \* whether onceSharerCreated is fulfilled
  waiting,         \* the signals that wait for it
  restart,         \* whether startShare waits for sharingReset_
  proxyingId_,     \* the attempt the sharer takes the session to be of
  newest,          \* the attempt whose first signal came last, if a share is there
                   \* for it or will be
  stray,           \* whether a signal of that one was handed to a share of another
  \* the social network
  toSharer, toGetter

getterVars == <<isOffering, getting, socksToRtc_, attempt, sent, answer, getTimer>>
retryVars == <<online, retry>>
sessionVars == <<rtcToNet_, serves, created, waiting, restart, proxyingId_, newest, stray>>
sharerVars == <<consent, sharing, share, shareTimer, sessionVars>>
vars == <<getterVars, retryVars, sharerVars, toSharer, toGetter>>

GettingState == {"NONE", "TRYING_TO_GET_ACCESS", "RETRYING", "FAILED", "GETTING_ACCESS"}
SharingState == {"NONE", "TRYING_TO_SHARE_ACCESS", "SHARING_ACCESS"}
Phase == {"none", "starting", "ready", "stopping"}
Message == [type : {"metadata", "first", "more", "answer", "yes", "no"},
            of : Attempt \cup {None}]

Trying == {"TRYING_TO_GET_ACCESS", "RETRYING"}

TypeOK ==
  /\ isOffering \in BOOLEAN /\ getting \in GettingState
  /\ socksToRtc_ \in Attempt \cup {None} /\ getTimer \in Attempt \cup {None}
  /\ attempt \in [Attempt -> Phase] /\ sent \in [Attempt -> 0..2]
  /\ answer \in [Attempt -> {"none", "own", "other"}]
  /\ online \in BOOLEAN /\ retry \in BOOLEAN
  /\ consent \in BOOLEAN /\ sharing \in SharingState
  /\ rtcToNet_ \in Share \cup {None} /\ shareTimer \in Share \cup {None}
  /\ share \in [Share -> Phase] /\ serves \in [Share -> Attempt \cup {None}]
  /\ created \in BOOLEAN /\ waiting \in Seq(Message) /\ restart \in BOOLEAN
  /\ proxyingId_ \in Attempt \cup {None} /\ newest \in Attempt \cup {None} /\ stray \in BOOLEAN
  /\ toSharer \in Seq(Message) /\ toGetter \in Seq(Message)

Init ==
  /\ isOffering \in BOOLEAN /\ consent = isOffering
  /\ getting = "NONE" /\ sharing = "NONE"
  /\ socksToRtc_ = None /\ rtcToNet_ = None /\ getTimer = None /\ shareTimer = None
  /\ attempt = [k \in Attempt |-> "none"] /\ share = [j \in Share |-> "none"]
  /\ sent = [k \in Attempt |-> 0] /\ answer = [k \in Attempt |-> "none"]
  /\ serves = [j \in Share |-> None]
  /\ online = TRUE /\ retry = FALSE
  /\ created = FALSE /\ waiting = <<>> /\ restart = FALSE
  /\ proxyingId_ = None /\ newest = None /\ stray = FALSE
  /\ toSharer = <<>> /\ toGetter = <<>>

Msg(t, k) == [type |-> t, of |-> k]

(* A name of an attempt or a share that nothing refers to any more. *)
FreshAttempt(k) ==
  /\ attempt[k] = "none"
  /\ \A j \in Share : serves[j] # k
  /\ \A s \in {toSharer, toGetter, waiting} : \A i \in 1..Len(s) : s[i].of # k

------------------------------------------------------------------------------
(* The getter. *)

(* stateRefresh_, as far as getting goes: the timer of the start only runs    *)
(* while it is tried.                                                         *)
RefreshGet == getTimer' = IF getting' \in Trying THEN getTimer ELSE None

(* startGet, where it does not throw. *)
CanStart == getting \in {"NONE", "FAILED"} /\ socksToRtc_ = None

startGet(k) ==
  /\ FreshAttempt(k)
  /\ getting' = IF getting = "NONE" THEN "TRYING_TO_GET_ACCESS" ELSE "RETRYING"
  /\ socksToRtc_' = k /\ getTimer' = k
  /\ attempt' = [attempt EXCEPT ![k] = "starting"]
  /\ sent' = [sent EXCEPT ![k] = 0] /\ answer' = [answer EXCEPT ![k] = "none"]
  /\ toSharer' = IF Metadata THEN Append(toSharer, Msg("metadata", k)) ELSE toSharer

(* RemoteInstance.start, asked for by the user. *)
Start ==
  /\ isOffering /\ CanStart /\ Len(toSharer) < MaxToSharer
  /\ \E k \in Attempt : startGet(k)
  /\ UNCHANGED <<isOffering, retryVars, sharerVars, toGetter>>

(* The timer of onOnline_. *)
Retry ==
  /\ retry /\ retry' = FALSE
  /\ IF getting = "FAILED" /\ socksToRtc_ = None
       THEN \E k \in Attempt : startGet(k)
       ELSE UNCHANGED <<getting, socksToRtc_, attempt, sent, answer, getTimer, toSharer>>
  /\ UNCHANGED <<isOffering, online, sharerVars, toGetter>>

(* What an attempt has sent and received matters while it starts. *)
Becomes(k, p) ==
  /\ attempt' = [attempt EXCEPT ![k] = p]
  /\ sent' = [sent EXCEPT ![k] = 0] /\ answer' = [answer EXCEPT ![k] = "none"]

(* Mutant: an attempt that failed is not told from access that broke. *)
onConnectFailed__failed ==
  /\ getting' = "FAILED" /\ socksToRtc_' = None
  /\ RefreshGet

(* onConnectFailed_ *)
onConnectFailed_ ==
  /\ getting' = IF getting \in {"TRYING_TO_GET_ACCESS", "NONE"} THEN "NONE" ELSE "FAILED"
  /\ socksToRtc_' = None
  /\ RefreshGet

(* An attempt emits its signals, the first of them marked as such. *)
GetterSignals(k) ==
  /\ attempt[k] = "starting" /\ sent[k] < 2 /\ Len(toSharer) < MaxToSharer
  /\ sent' = [sent EXCEPT ![k] = @ + 1]
  /\ toSharer' = Append(toSharer, Msg(IF sent[k] = 0 THEN "first" ELSE "more", k))
  /\ UNCHANGED <<isOffering, getting, socksToRtc_, attempt, answer, getTimer,
                 retryVars, sharerVars, toGetter>>

(* start() fulfills: the attempt listens and is connected. *)
GetterReady(k) ==
  /\ attempt[k] = "starting" /\ answer[k] = "own"
  /\ \E j \in Share : serves[j] = k /\ share[j] \in {"starting", "ready"}
  /\ Becomes(k, "ready")
  /\ getting' = "GETTING_ACCESS" /\ RefreshGet
  /\ UNCHANGED <<isOffering, socksToRtc_, retryVars, sharerVars,
                 toSharer, toGetter>>

(* The start of an attempt fails, or takes more than 30 s: either way it      *)
(* stops and start() rejects.                                                 *)
GetterFails(k) ==
  /\ attempt[k] = "starting"
  /\ Becomes(k, "stopping")
  /\ onConnectFailed_
  /\ UNCHANGED <<isOffering, retryVars, sharerVars, toSharer, toGetter>>

GetTimeout ==
  /\ getTimer # None /\ socksToRtc_ # None
  /\ Becomes(socksToRtc_, "stopping")
  /\ onConnectFailed_
  /\ UNCHANGED <<isOffering, retryVars, sharerVars, toSharer, toGetter>>

(* The peer connection of an attempt that was ready ends. *)
GetterCloses(k) ==
  /\ attempt[k] = "ready"
  /\ Becomes(k, "stopping")
  /\ UNCHANGED <<isOffering, getting, socksToRtc_, getTimer,
                 retryVars, sharerVars, toSharer, toGetter>>

(* Mutant: the end of an attempt does not forget it. *)
GetterStopped_keeps(k) ==
  LET isError == getting \notin {"NONE", "TRYING_TO_GET_ACCESS"} IN
  /\ attempt[k] = "stopping"
  /\ Becomes(k, "none")
  /\ getting' = IF isError THEN "FAILED" ELSE "NONE"
  /\ RefreshGet
  /\ retry' = (retry \/ (isError /\ online))
  /\ UNCHANGED <<isOffering, socksToRtc_, online, sharerVars,
                 toSharer, toGetter>>

(* onceStopped of an attempt: whatever attempt is current, it is forgotten.   *)
GetterStopped(k) ==
  LET isError == getting \notin {"NONE", "TRYING_TO_GET_ACCESS"} IN
  /\ attempt[k] = "stopping"
  /\ Becomes(k, "none")
  /\ getting' = IF isError THEN "FAILED" ELSE "NONE"
  /\ RefreshGet
  /\ socksToRtc_' = None
  /\ retry' = (retry \/ (isError /\ online))
  /\ UNCHANGED <<isOffering, online, sharerVars,
                 toSharer, toGetter>>

(* stopGet: an attempt that is starting then rejects, which forgets it.       *)
stopGet ==
  /\ getting' = "NONE" /\ getTimer' = None
  /\ IF socksToRtc_ = None THEN UNCHANGED <<attempt, sent, answer>>
     ELSE Becomes(socksToRtc_, "stopping")
  /\ socksToRtc_' = IF socksToRtc_ # None /\ attempt[socksToRtc_] = "starting"
                    THEN None ELSE socksToRtc_

(* RemoteInstance.stop, or handleLogout at the getter. *)
Stop ==
  /\ getting # "NONE" /\ stopGet
  /\ UNCHANGED <<isOffering, retryVars, sharerVars, toSharer, toGetter>>

(* A message of the sharer: its consent (RemoteInstance.update and            *)
(* updateConsentFromWire_) or an answer (handleSignal, forwardSignal_).       *)
ReceiveConsent ==
  /\ toGetter # <<>> /\ Head(toGetter).type \in {"yes", "no"}
  /\ toGetter' = Tail(toGetter)
  /\ isOffering' = (Head(toGetter).type = "yes")
  /\ IF ~isOffering' /\ getting = "TRYING_TO_GET_ACCESS"
       THEN stopGet ELSE UNCHANGED <<getting, getTimer, attempt, sent, answer, socksToRtc_>>
  /\ UNCHANGED <<retryVars, sharerVars, toSharer>>

ReceiveAnswer ==
  /\ toGetter # <<>> /\ Head(toGetter).type = "answer"
  /\ toGetter' = Tail(toGetter)
  /\ answer' = IF socksToRtc_ = None THEN answer
               ELSE [answer EXCEPT ![socksToRtc_] =
                       IF Head(toGetter).of = socksToRtc_ /\ @ = "none" THEN "own" ELSE "other"]
  /\ UNCHANGED <<isOffering, getting, socksToRtc_, attempt, sent, getTimer,
                 retryVars, sharerVars, toSharer>>

(* onlineMonitor *)
GoesOffline ==
  /\ online /\ online' = FALSE
  /\ UNCHANGED <<getterVars, retry, sharerVars, toSharer, toGetter>>

onOnline_ ==
  /\ ~online /\ online' = TRUE /\ retry' = TRUE
  /\ UNCHANGED <<getterVars, sharerVars, toSharer, toGetter>>

------------------------------------------------------------------------------
(* The sharer. *)

(* handleMetadataSignal_: the last metadata of the messages in a row name the *)
(* session, which is what the sharer tells its user.                          *)
NamesSession(s) ==
  LET named == {i \in 1..Len(s) : s[i].type = "metadata"} IN
  IF named = {} THEN UNCHANGED proxyingId_
  ELSE \E i \in named : (\A k \in named : k <= i) /\ proxyingId_' = s[i].of

(* forwardSignal_, for a signal when the promise of the share is kept.        *)
HandOver(m) ==
  /\ NamesSession(<<m>>)
  /\ stray' = (stray \/ (m.type # "metadata" /\ m.of = newest /\ rtcToNet_ # None
                         /\ serves[rtcToNet_] # newest))

(* startShare, where it does not throw: the share takes what waited for it,   *)
(* which a first signal begins.                                               *)
startShare(j, s, phases) ==
  /\ share' = [phases EXCEPT ![j] = "starting"]
  /\ rtcToNet_' = j /\ sharing' = "TRYING_TO_SHARE_ACCESS" /\ shareTimer' = j
  /\ serves' = [serves EXCEPT ![j] = Head(s).of]
  /\ created' = TRUE /\ waiting' = <<>>
  /\ NamesSession(s)
  /\ stray' = (stray \/ Head(s).of # newest')

(* stopShare: a share that is starting then rejects, which finds nothing more *)
(* to stop.  With no sharing under way nothing happens.                       *)
stopShare ==
  IF sharing = "NONE" THEN UNCHANGED <<sharing, shareTimer, share>>
  ELSE /\ sharing' = "NONE" /\ shareTimer' = None
       /\ share' = [share EXCEPT ![rtcToNet_] = "stopping"]

(* Mutant: the promise is not made anew. *)
resetSharerCreated_not(m) == created' = created /\ waiting' = Append(waiting, m)

(* resetSharerCreated: whoever waited for the share waits for ever.  What     *)
(* waits is kept only while a startShare is to come that will take it.        *)
resetSharerCreated(m) == created' = FALSE /\ waiting' = IF restart' THEN <<m>> ELSE <<>>

(* handleDecryptedSignal_ with the first signal of an attempt, and            *)
(* startShare_: a share under way is stopped, and the new one starts when it  *)
(* has.  If one is being stopped already startShare throws.                   *)
ReceiveFirst(m) ==
  /\ newest' = IF sharing = "NONE" /\ rtcToNet_ # None /\ ~restart THEN None ELSE m.of
  /\ \/ /\ sharing = "NONE" /\ rtcToNet_ = None
        /\ \E j \in Share : share[j] = "none" /\ startShare(j, <<m>>, share)
        /\ UNCHANGED restart
     \/ /\ sharing = "NONE" /\ rtcToNet_ # None
        /\ UNCHANGED restart /\ resetSharerCreated(m)
        /\ UNCHANGED <<sharing, rtcToNet_, share, serves, shareTimer, proxyingId_, stray>>
     \/ /\ sharing # "NONE"
        /\ restart' = TRUE /\ resetSharerCreated(m) /\ stopShare
        /\ UNCHANGED <<rtcToNet_, serves, proxyingId_, stray>>

(* handleDecryptedSignal_ with any other signal of the getter. *)
ReceiveMore(m) ==
  /\ IF created
       THEN HandOver(m) /\ UNCHANGED waiting
       ELSE /\ waiting' = IF restart THEN Append(waiting, m) ELSE <<>>
            /\ UNCHANGED <<proxyingId_, stray>>
  /\ UNCHANGED <<sharing, rtcToNet_, share, serves, shareTimer, created, restart, newest>>

(* handleSignal at the sharer: without consent a signal is dropped. *)
ReceiveSignal ==
  /\ toSharer # <<>> /\ toSharer' = Tail(toSharer)
  /\ IF ~consent
       THEN UNCHANGED sharerVars
       ELSE /\ IF Head(toSharer).type = "first"
                 THEN ReceiveFirst(Head(toSharer)) ELSE ReceiveMore(Head(toSharer))
            /\ UNCHANGED consent
  /\ UNCHANGED <<getterVars, retryVars, toGetter>>

(* The share answers the attempt that began it. *)
SharerAnswers(j) ==
  /\ share[j] = "starting"
  /\ Len(toGetter) < MaxToGetter
  /\ answer[serves[j]] = "none" /\ attempt[serves[j]] = "starting"
  /\ toGetter' = Append(toGetter, Msg("answer", serves[j]))
  /\ UNCHANGED <<getterVars, retryVars, sharerVars, toSharer>>

(* onceReady of a share. *)
SharerReady(j) ==
  /\ share[j] = "starting"
  /\ answer[serves[j]] = "own" \/ attempt[serves[j]] = "ready"
  /\ share' = [share EXCEPT ![j] = "ready"]
  /\ sharing' = "SHARING_ACCESS" /\ shareTimer' = None
  /\ UNCHANGED <<consent, sessionVars,
                 getterVars, retryVars, toSharer, toGetter>>

(* onceReady rejects, or 45 s have passed: stopShare. *)
SharerFails(j) ==
  /\ share[j] = "starting"
  /\ IF sharing = "NONE"
       THEN share' = [share EXCEPT ![j] = "stopping"] /\ UNCHANGED <<sharing, shareTimer>>
       ELSE stopShare
  /\ UNCHANGED <<consent, sessionVars,
                 getterVars, retryVars, toSharer, toGetter>>

(* Mutant: nothing is done about a share that never gets ready. *)
ShareTimeout_ignored ==
  /\ shareTimer # None /\ shareTimer' = None
  /\ UNCHANGED <<consent, sharing, share, sessionVars, getterVars, retryVars, toSharer, toGetter>>

ShareTimeout ==
  /\ shareTimer # None /\ stopShare
  /\ UNCHANGED <<consent, sessionVars,
                 getterVars, retryVars, toSharer, toGetter>>

(* The peer connection of a share that was ready ends. *)
SharerCloses(j) ==
  /\ share[j] = "ready" /\ share' = [share EXCEPT ![j] = "stopping"]
  /\ UNCHANGED <<consent, sharing, shareTimer, sessionVars, getterVars, retryVars, toSharer, toGetter>>

(* onceStopped of a share, and the startShare that waited for it. *)
SharerStopped(j) ==
  /\ share[j] = "stopping"
  /\ newest' = IF restart THEN newest ELSE None
  /\ LET phases == [share EXCEPT ![j] = "none"] IN
     IF restart
       THEN \E i \in Share : phases[i] = "none" /\ startShare(i, waiting, phases)
       ELSE /\ share' = phases /\ serves' = [serves EXCEPT ![j] = None]
            /\ sharing' = "NONE" /\ rtcToNet_' = None /\ shareTimer' = None
            /\ UNCHANGED <<created, waiting, proxyingId_, stray>>
  /\ restart' = FALSE
  /\ UNCHANGED <<consent, getterVars, retryVars, toSharer, toGetter>>

(* User.modifyConsent at the sharer, with handleUserAction: OFFER and         *)
(* CANCEL_OFFER, which stops a share that is ready.                           *)
ModifyConsent ==
  /\ Len(toGetter) < MaxToGetter
  /\ consent' = ~consent
  /\ toGetter' = Append(toGetter, Msg(IF consent' THEN "yes" ELSE "no", None))
  /\ IF ~consent' /\ sharing = "SHARING_ACCESS"
       THEN stopShare ELSE UNCHANGED <<sharing, shareTimer, share>>
  /\ UNCHANGED <<sessionVars,
                 getterVars, retryVars, toSharer>>

(* handleLogout at the sharer (who logs in again). *)
SharerLogout ==
  /\ sharing # "NONE" /\ stopShare
  /\ UNCHANGED <<consent, sessionVars,
                 getterVars, retryVars, toSharer, toGetter>>

(* A signal is lost: the social network drops it, or the peer has no client.  *)
Lose ==
  /\ \/ toSharer # <<>> /\ toSharer' = Tail(toSharer) /\ UNCHANGED toGetter
     \/ /\ toGetter # <<>> /\ Head(toGetter).type = "answer"
        /\ toGetter' = Tail(toGetter) /\ UNCHANGED toSharer
  /\ UNCHANGED <<getterVars, retryVars, sharerVars>>

GetterNext ==
  \/ Start \/ Retry \/ Stop \/ GetTimeout \/ ReceiveConsent \/ ReceiveAnswer
  \/ GoesOffline \/ onOnline_
  \/ \E k \in Attempt : \/ GetterSignals(k) \/ GetterReady(k) \/ GetterFails(k)
                        \/ GetterCloses(k) \/ GetterStopped(k)
SharerNext ==
  \/ ReceiveSignal \/ ShareTimeout \/ ModifyConsent \/ SharerLogout
  \/ \E j \in Share : \/ SharerAnswers(j) \/ SharerReady(j) \/ SharerFails(j)
                      \/ SharerCloses(j) \/ SharerStopped(j)
Next == GetterNext \/ SharerNext \/ Lose

Spec == Init /\ [][Next]_vars

(* Timers fire, what stops has stopped some day, messages arrive, and a peer  *)
(* connection whose other end is gone is closed (by its heartbeat).           *)
GetterAlone(k) == GetterCloses(k) /\ \A j \in Share : serves[j] = k => share[j] # "ready"
SharerAlone(j) == SharerCloses(j) /\ attempt[serves[j]] \notin {"starting", "ready"}
Fairness ==
  /\ WF_vars(Retry) /\ WF_vars(GetTimeout) /\ WF_vars(ShareTimeout) /\ WF_vars(onOnline_)
  /\ WF_vars(ReceiveSignal) /\ WF_vars(ReceiveConsent) /\ WF_vars(ReceiveAnswer)
  /\ \A k \in Attempt : WF_vars(GetterStopped(k)) /\ WF_vars(GetterAlone(k))
  /\ \A j \in Share : WF_vars(SharerStopped(j)) /\ WF_vars(SharerAlone(j))
FairSpec == Spec /\ Fairness

------------------------------------------------------------------------------
(* A timer that is set belongs to the attempt or the share that is current,   *)
(* and that one is being tried (remote-connection.ts:343, 189), so that it    *)
(* finds something to stop when it fires; after a failure nothing is in the   *)
(* way of the next attempt; and while sharing is shown there is a share to    *)
(* stop, and no other.                                                        *)
StateMatchesObjects ==
  /\ getTimer # None => getTimer = socksToRtc_ /\ getting \in Trying
  /\ shareTimer # None => shareTimer = rtcToNet_ /\ sharing = "TRYING_TO_SHARE_ACCESS"
  /\ getting = "FAILED" => socksToRtc_ = None
  /\ sharing # "NONE" => rtcToNet_ # None /\ share[rtcToNet_] # "none"
  /\ \A j \in Share : share[j] # "none" => j = rtcToNet_

(* A signal of one attempt is never handed to a share that another began      *)
(* (resetSharerCreated, remote-connection.ts:230).                            *)
SignalsReachTheirShare == ~stray

(* What both ends show is what they have, however time-outs, answers and    *)
(* signals of old attempts and of new ones cross.                           *)
EndsInOrder == TypeOK /\ StateMatchesObjects /\ SignalsReachTheirShare

(* There is one attempt at a time: "This should not happen.  If it does,      *)
(* something else is broken" (remote-connection.ts:255).                      *)
OneAttempt ==
  \A k, l \in Attempt : k # l => ~(attempt[k] \in {"starting", "ready"}
                                  /\ attempt[l] \in {"starting", "ready"})

(* A broken connection is retried as long as the machine is, or comes,        *)
(* online (remote-connection.ts:388).                                         *)
BrokenIsRetried == (getting = "FAILED") ~> (getting # "FAILED" \/ ~OneAttempt)

(* The sharer does not go on sharing with an attempt that is over.            *)
ShareEnds ==
  \A j \in Share, k \in Attempt :
    (serves[j] = k /\ attempt[k] \in {"none", "stopping"}) ~> (serves[j] # k)

(* What the UI is told of a session it shares is that session: the sharer     *)
(* takes the session's id from the getter before it shares.                   *)
SharerKnowsSession == \A j \in Share : share[j] = "ready" => proxyingId_ = serves[j]

(* What the user interface is told of getting access: it was there before it  *)
(* FAILED, and it FAILED before it is RETRYING (remote-connection.ts:374-378, *)
(* 400-409), however attempts overlap.                                        *)
Getting == INSTANCE Access WITH state <- getting
ImplementsAccess == Getting!Spec

(* Nobody is shared with who has no permission. *)
SharingMeansGranted == sharing = "SHARING_ACCESS" => consent
=============================================================================
