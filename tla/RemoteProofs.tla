------------------------------ MODULE RemoteProofs ------------------------------
(* Getting access, in full detail, implements the machine of module Access,   *)
(* and what both ends show is what they have, for any number of attempts,     *)
(* shares and messages.                                                       *)
(*                                                                            *)
(* A share that is current while the promise of it is kept is that of the     *)
(* newest attempt.  When another attempt comes the promise is made anew, and  *)
(* while the old share is stopped for it, the first of the signals that wait  *)
(* is the first one of that attempt.                                          *)
EXTENDS Remote, TLAPS

(* All that is needed of the rest is which states there are. *)
GettingType == getting \in GettingState

(* Every step of an attempt, of the user and of the social network is a step  *)
(* of Access, or leaves it as it is.                                          *)
LEMMA StepRefines ==
  ASSUME GettingType, [Next]_vars
  PROVE  GettingType' /\ [Getting!Next]_getting
<1> USE DEF GettingType, GettingState, Getting!Next, Getting!Try, Getting!Succeed,
        Getting!Break, Getting!Retry, Getting!End
<1> DEFINE Goal == GettingType' /\ [Getting!Next]_getting
<1>1. ASSUME NEW k \in Attempt, startGet(k), CanStart PROVE Goal
  BY <1>1 DEF startGet, CanStart
<1>2. ASSUME onConnectFailed_ PROVE Goal
  BY <1>2 DEF onConnectFailed_
<1>3. ASSUME stopGet PROVE Goal
  BY <1>3 DEF stopGet
<1>4. CASE Start
  BY <1>1, <1>4 DEF Start
<1>5. CASE Retry
  BY <1>1, <1>5 DEF Retry, CanStart
<1>6. CASE Stop
  BY <1>3, <1>6 DEF Stop
<1>7. CASE GetTimeout
  BY <1>2, <1>7 DEF GetTimeout
<1>8. CASE ReceiveConsent
  BY <1>3, <1>8 DEF ReceiveConsent
<1>9. CASE ReceiveAnswer \/ GoesOffline \/ onOnline_
  BY <1>9 DEF ReceiveAnswer, GoesOffline, onOnline_, getterVars
<1>10. ASSUME NEW k \in Attempt,
              GetterSignals(k) \/ GetterReady(k) \/ GetterFails(k)
              \/ GetterCloses(k) \/ GetterStopped(k)
       PROVE  Goal
  <2>1. CASE GetterFails(k)
    BY <1>2, <2>1 DEF GetterFails
  <2>2. CASE GetterSignals(k) \/ GetterReady(k) \/ GetterCloses(k)
    BY <2>2 DEF GetterSignals, GetterReady, GetterCloses
  <2>3. CASE GetterStopped(k)
    BY <2>3 DEF GetterStopped
  <2> QED BY <1>10, <2>1, <2>2, <2>3
<1>11. CASE SharerNext
  <2>1. CASE ReceiveSignal \/ ShareTimeout \/ ModifyConsent \/ SharerLogout
    BY <2>1 DEF ReceiveSignal, ShareTimeout, ModifyConsent, SharerLogout, getterVars
  <2>2. ASSUME NEW j \in Share,
               SharerAnswers(j) \/ SharerReady(j) \/ SharerFails(j)
               \/ SharerCloses(j) \/ SharerStopped(j)
        PROVE  Goal
    BY <2>2 DEF SharerAnswers, SharerReady, SharerFails, SharerCloses, SharerStopped, getterVars
  <2> QED BY <1>11, <2>1, <2>2 DEF SharerNext
<1>12. CASE Lose
  BY <1>12 DEF Lose, getterVars
<1>13. CASE UNCHANGED vars
  BY <1>13 DEF vars, getterVars
<1> QED BY <1>4, <1>5, <1>6, <1>7, <1>8, <1>9, <1>10, <1>11, <1>12, <1>13
        DEF Next, GetterNext

(* What the user interface is told of getting access follows the machine of   *)
(* Access, whatever attempts overlap (remote-connection.ts:366-409).          *)
THEOREM GettingIsAccess == Spec => ImplementsAccess
<1>1. Init => GettingType /\ Getting!Init
  BY DEF Init, GettingType, GettingState, Getting!Init
<1>2. GettingType /\ [Next]_vars => GettingType' /\ [Getting!Next]_getting
  BY StepRefines
<1> QED BY <1>1, <1>2, PTL DEF Spec, ImplementsAccess, Getting!Spec

------------------------------------------------------------------------------
(* The share that is kept is for the newest attempt. *)
KeptIsNewest == created /\ rtcToNet_ # None => serves[rtcToNet_] = newest

(* A restart is due only after a share that stops, and knows for whom. *)
RestartKnows ==
  restart =>
    /\ ~created /\ sharing = "NONE"
    /\ rtcToNet_ # None /\ share[rtcToNet_] = "stopping"
    /\ waiting # <<>> /\ Head(waiting).of = newest

GetterOrder ==
  /\ getTimer # None => getTimer = socksToRtc_ /\ getting \in Trying
  /\ getting = "FAILED" => socksToRtc_ = None

SharerOrder ==
  /\ shareTimer # None => shareTimer = rtcToNet_ /\ sharing = "TRYING_TO_SHARE_ACCESS"
  /\ sharing # "NONE" => rtcToNet_ # None /\ share[rtcToNet_] # "none"
  /\ \A j \in Share : share[j] # "none" => j = rtcToNet_

GetterTypes ==
  /\ isOffering \in BOOLEAN /\ getting \in GettingState
  /\ socksToRtc_ \in Attempt \cup {None} /\ getTimer \in Attempt \cup {None}
  /\ attempt \in [Attempt -> Phase] /\ sent \in [Attempt -> 0..2]
  /\ answer \in [Attempt -> {"none", "own", "other"}]
  /\ online \in BOOLEAN /\ retry \in BOOLEAN
  /\ toSharer \in Seq(Message)

SharerTypes ==
  /\ consent \in BOOLEAN /\ sharing \in SharingState
  /\ rtcToNet_ \in Share \cup {None} /\ shareTimer \in Share \cup {None}
  /\ share \in [Share -> Phase] /\ serves \in [Share -> Attempt \cup {None}]
  /\ created \in BOOLEAN /\ waiting \in Seq(Message) /\ restart \in BOOLEAN
  /\ proxyingId_ \in Attempt \cup {None} /\ newest \in Attempt \cup {None} /\ stray \in BOOLEAN
  /\ toGetter \in Seq(Message)

IInv ==
  /\ GetterTypes /\ GetterOrder
  /\ SharerTypes /\ SharerOrder /\ KeptIsNewest /\ RestartKnows /\ ~stray

LEMMA IInvInit == Init => IInv
<1> SUFFICES ASSUME Init PROVE IInv
  OBVIOUS
<1>1. GetterTypes
  <2>1. <<>> \in Seq(Message)
    OBVIOUS
  <2>2. /\ attempt \in [Attempt -> Phase] /\ sent \in [Attempt -> 0..2]
        /\ answer \in [Attempt -> {"none", "own", "other"}]
    BY DEF Init, Phase
  <2> QED BY <2>1, <2>2 DEF Init, GetterTypes, GettingState
<1>2. SharerTypes
  <2>1. <<>> \in Seq(Message)
    OBVIOUS
  <2>2. share \in [Share -> Phase] /\ serves \in [Share -> Attempt \cup {None}]
    BY DEF Init, Phase
  <2> QED BY <2>1, <2>2 DEF Init, SharerTypes, SharingState
<1>3. GetterOrder /\ KeptIsNewest /\ RestartKnows /\ ~stray
  BY DEF Init, GetterOrder, KeptIsNewest, RestartKnows
<1>4. SharerOrder
  BY DEF Init, SharerOrder
<1> QED BY <1>1, <1>2, <1>3, <1>4 DEF IInv

(* Messages are put at the end of what is under way and taken from its head.  *)
LEMMA Taken ==
  ASSUME NEW s \in Seq(Message), s # <<>>
  PROVE  Head(s) \in Message /\ Tail(s) \in Seq(Message)
OBVIOUS

LEMMA Put ==
  ASSUME NEW s \in Seq(Message), NEW m \in Message
  PROVE  /\ Append(s, m) \in Seq(Message) /\ Append(s, m) # <<>>
         /\ s # <<>> => Head(Append(s, m)) = Head(s)
<1>1. Append(s, m) \in Seq(Message) /\ Len(Append(s, m)) = Len(s) + 1
  OBVIOUS
<1>2. s # <<>> => Append(s, m)[1] = s[1]
  BY <1>1
<1> QED BY <1>1, <1>2

LEMMA NamesType ==
  ASSUME NEW s \in Seq(Message), NamesSession(s), proxyingId_ \in Attempt \cup {None}
  PROVE  proxyingId_' \in Attempt \cup {None}
<1>1. \A i \in 1..Len(s) : s[i] \in Message
  OBVIOUS
<1>2. \A m \in Message : m.of \in Attempt \cup {None}
  BY DEF Message
<1> QED BY <1>1, <1>2 DEF NamesSession

------------------------------------------------------------------------------
(* The getter's part. *)
LEMMA GetterKeeps ==
  ASSUME IInv, GetterNext
  PROVE  GetterTypes' /\ GetterOrder' /\ toGetter' \in Seq(Message) /\ UNCHANGED sharerVars
<1> USE DEF GetterTypes, GetterOrder, GettingState, Phase, Trying
<1> DEFINE Goal == GetterTypes' /\ GetterOrder'
<1>0. GetterTypes /\ GetterOrder /\ toGetter \in Seq(Message)
  BY DEF IInv, SharerTypes
<1>a. \A k \in Attempt, t \in {"metadata", "first", "more"} :
        Append(toSharer, Msg(t, k)) \in Seq(Message)
  BY <1>0 DEF Msg, Message
<1>b. ASSUME NEW k \in Attempt, startGet(k), CanStart, UNCHANGED <<isOffering, online>>,
             retry' \in BOOLEAN
      PROVE  Goal
  BY <1>0, <1>a, <1>b, NoneIsNoName DEF startGet, CanStart
<1>c. ASSUME NEW k \in Attempt, NEW p \in Phase, Becomes(k, p)
      PROVE  /\ attempt' \in [Attempt -> Phase] /\ sent' \in [Attempt -> 0..2]
             /\ answer' \in [Attempt -> {"none", "own", "other"}]
  BY <1>0, <1>c DEF Becomes
<1>d. ASSUME stopGet
      PROVE  /\ attempt' \in [Attempt -> Phase] /\ sent' \in [Attempt -> 0..2]
             /\ answer' \in [Attempt -> {"none", "own", "other"}]
             /\ getting' = "NONE" /\ getTimer' = None /\ socksToRtc_' \in {socksToRtc_, None}
  BY <1>0, <1>c, <1>d DEF stopGet
<1>e. UNCHANGED sharerVars
  BY DEF GetterNext, Start, Retry, Stop, GetTimeout, ReceiveConsent, ReceiveAnswer, GoesOffline,
         onOnline_, GetterSignals, GetterReady, GetterFails, GetterCloses, GetterStopped
<1>1. CASE Start
  BY <1>0, <1>b, <1>1 DEF Start, retryVars
<1>2. CASE Retry
  BY <1>0, <1>b, <1>2 DEF Retry, CanStart
<1>3. CASE Stop
  BY <1>0, <1>d, <1>3 DEF Stop, retryVars
<1>4. CASE GetTimeout
  BY <1>0, <1>c, <1>4 DEF GetTimeout, onConnectFailed_, RefreshGet, retryVars
<1>5. CASE ReceiveConsent
  <2>1. toGetter' \in Seq(Message)
    BY <1>0, <1>5, Taken DEF ReceiveConsent
  <2>2. CASE ~isOffering' /\ getting = "TRYING_TO_GET_ACCESS"
    BY <1>0, <1>d, <1>5, <2>1, <2>2 DEF ReceiveConsent, retryVars
  <2>3. CASE ~(~isOffering' /\ getting = "TRYING_TO_GET_ACCESS")
    BY <1>0, <1>5, <2>1, <2>3 DEF ReceiveConsent, retryVars
  <2> QED BY <1>e, <2>2, <2>3, <2>1
<1>6. CASE ReceiveAnswer
  <2>1. toGetter' \in Seq(Message)
    BY <1>0, <1>6, Taken DEF ReceiveAnswer
  <2>2. answer' \in [Attempt -> {"none", "own", "other"}]
    BY <1>0, <1>6 DEF ReceiveAnswer
  <2> QED BY <1>0, <1>6, <1>e, <2>1, <2>2 DEF ReceiveAnswer, retryVars
<1>7. CASE GoesOffline \/ onOnline_
  BY <1>0, <1>7, <1>e DEF GoesOffline, onOnline_, getterVars
<1>8. ASSUME NEW k \in Attempt, GetterSignals(k) PROVE Goal /\ toGetter' = toGetter
  <2>1. toSharer' \in Seq(Message)
    BY <1>a, <1>8 DEF GetterSignals
  <2>2. sent' \in [Attempt -> 0..2]
    BY <1>0, <1>8 DEF GetterSignals
  <2> QED BY <1>0, <1>8, <2>1, <2>2 DEF GetterSignals, retryVars
<1>9. ASSUME NEW k \in Attempt, GetterReady(k) PROVE Goal /\ toGetter' = toGetter
  BY <1>0, <1>c, <1>9 DEF GetterReady, RefreshGet, retryVars
<1>10. ASSUME NEW k \in Attempt, GetterFails(k) PROVE Goal /\ toGetter' = toGetter
  BY <1>0, <1>c, <1>10 DEF GetterFails, onConnectFailed_, RefreshGet, retryVars
<1>11. ASSUME NEW k \in Attempt, GetterCloses(k) PROVE Goal /\ toGetter' = toGetter
  BY <1>0, <1>c, <1>11 DEF GetterCloses, retryVars
<1>12. ASSUME NEW k \in Attempt, GetterStopped(k) PROVE Goal /\ toGetter' = toGetter
  BY <1>0, <1>c, <1>12 DEF GetterStopped, RefreshGet
<1> QED
  BY <1>0, <1>e, <1>1, <1>2, <1>3, <1>4, <1>5, <1>6, <1>7, <1>8, <1>9, <1>10, <1>11, <1>12
  DEF GetterNext, Start, Retry, Stop, GetTimeout

------------------------------------------------------------------------------
(* The sharer's part.  What a new share and the end of one do to it. *)
Sharer == SharerTypes /\ SharerOrder /\ KeptIsNewest /\ RestartKnows /\ ~stray

LEMMA StartKeeps ==
  ASSUME Sharer, NEW j \in Share, NEW s \in Seq(Message), s # <<>>,
         NEW phases \in [Share -> Phase], \A i \in Share : phases[i] = "none",
         startShare(j, s, phases), newest' = Head(s).of, restart' = FALSE,
         consent' \in BOOLEAN, toGetter' \in Seq(Message)
  PROVE  Sharer'
<1>1. Head(s) \in Message /\ Head(s).of \in Attempt \cup {None}
  BY Taken DEF Message
<1>2. proxyingId_' \in Attempt \cup {None}
  BY NamesType DEF startShare, Sharer, SharerTypes
<1>3. <<>> \in Seq(Message)
  OBVIOUS
<1>4. SharerTypes'
  <2>1. share' \in [Share -> Phase] /\ serves' \in [Share -> Attempt \cup {None}]
    BY <1>1 DEF startShare, Sharer, SharerTypes, Phase
  <2> QED BY <1>1, <1>2, <1>3, <2>1 DEF startShare, Sharer, SharerTypes, SharingState
<1>5. SharerOrder'
  BY NoneIsNoName DEF startShare, SharerOrder
<1>6. KeptIsNewest' /\ RestartKnows' /\ ~stray'
  BY DEF startShare, KeptIsNewest, RestartKnows, Sharer, SharerTypes
<1> QED BY <1>4, <1>5, <1>6 DEF Sharer

LEMMA StopKeeps ==
  ASSUME Sharer, stopShare
  PROVE  /\ sharing' = "NONE" /\ shareTimer' = None /\ share' \in [Share -> Phase]
         /\ sharing # "NONE" => rtcToNet_ # None /\ share'[rtcToNet_] = "stopping"
         /\ sharing = "NONE" => share' = share
         /\ \A j \in Share : share'[j] # "none" => j = rtcToNet_
<1> USE DEF Sharer, SharerTypes, SharerOrder
<1>1. CASE sharing = "NONE"
  BY <1>1 DEF stopShare
<1>2. CASE sharing # "NONE"
  BY <1>2 DEF stopShare, Phase
<1> QED BY <1>1, <1>2

LEMMA FirstKeeps ==
  ASSUME Sharer, NEW m \in Message, ReceiveFirst(m), UNCHANGED <<consent, toGetter>>
  PROVE  Sharer'
<1> USE DEF Sharer, SharerTypes, SharerOrder, RestartKnows
<1>1. <<m>> \in Seq(Message) /\ <<m>> # <<>> /\ Head(<<m>>) = m /\ <<>> \in Seq(Message)
  OBVIOUS
<1>2. m.of \in Attempt \cup {None}
  BY DEF Message
<1>3. CASE sharing = "NONE" /\ rtcToNet_ = None
  <2>1. PICK j \in Share : startShare(j, <<m>>, share)
    BY <1>3 DEF ReceiveFirst
  <2>2. \A i \in Share : share[i] = "none"
    BY <1>3, NoneIsNoName
  <2>3. newest' = m.of /\ restart' = FALSE
    BY <1>3 DEF ReceiveFirst
  <2>4. share \in [Share -> Phase] /\ consent' \in BOOLEAN /\ toGetter' \in Seq(Message)
    OBVIOUS
  <2> HIDE DEF Sharer
  <2> QED BY <1>1, <2>1, <2>2, <2>3, <2>4, StartKeeps
<1>4. CASE sharing = "NONE" /\ rtcToNet_ # None
  <2>1. /\ created' = FALSE /\ waiting' = IF restart THEN <<m>> ELSE <<>>
        /\ UNCHANGED <<restart, sharing, rtcToNet_, share, serves, shareTimer, proxyingId_, stray>>
        /\ newest' = IF restart THEN m.of ELSE None
    BY <1>4 DEF ReceiveFirst, resetSharerCreated
  <2> QED BY <1>1, <1>2, <1>4, <2>1 DEF KeptIsNewest
<1>5. CASE sharing # "NONE"
  <2>1. /\ created' = FALSE /\ waiting' = <<m>> /\ restart' = TRUE /\ newest' = m.of /\ stopShare
        /\ UNCHANGED <<rtcToNet_, serves, proxyingId_, stray>>
    BY <1>5 DEF ReceiveFirst, resetSharerCreated
  <2>2. /\ sharing' = "NONE" /\ shareTimer' = None /\ share' \in [Share -> Phase]
        /\ rtcToNet_ # None /\ share'[rtcToNet_] = "stopping"
        /\ \A j \in Share : share'[j] # "none" => j = rtcToNet_
    BY <1>5, <2>1, StopKeeps
  <2>3. SharerTypes'
    BY <1>1, <1>2, <2>1, <2>2 DEF SharingState
  <2>4. SharerOrder' /\ KeptIsNewest' /\ RestartKnows'
    BY <1>1, <2>1, <2>2 DEF KeptIsNewest
  <2> QED BY <2>1, <2>3, <2>4
<1> QED BY <1>3, <1>4, <1>5

LEMMA MoreKeeps ==
  ASSUME Sharer, NEW m \in Message, ReceiveMore(m), UNCHANGED <<consent, toGetter>>
  PROVE  Sharer'
<1> USE DEF Sharer, SharerTypes, SharerOrder, RestartKnows, KeptIsNewest
<1>1. <<m>> \in Seq(Message) /\ <<>> \in Seq(Message)
  OBVIOUS
<1>2. CASE created
  <2>1. HandOver(m) /\ UNCHANGED waiting
    BY <1>2 DEF ReceiveMore
  <2>2. proxyingId_' \in Attempt \cup {None}
    BY <1>1, <2>1, NamesType DEF HandOver
  <2>3. stray' = FALSE
    BY <1>2, <2>1 DEF HandOver
  <2> QED BY <1>2, <2>1, <2>2, <2>3 DEF ReceiveMore
<1>3. CASE ~created
  <2>1. waiting' = (IF restart THEN Append(waiting, m) ELSE <<>>)
        /\ UNCHANGED <<proxyingId_, stray>>
    BY <1>3 DEF ReceiveMore
  <2>2. waiting' \in Seq(Message)
    BY <1>1, <2>1, Put
  <2>3. restart => waiting' # <<>> /\ Head(waiting') = Head(waiting)
    BY <2>1, Put
  <2> QED BY <1>3, <2>1, <2>2, <2>3 DEF ReceiveMore
<1> QED BY <1>2, <1>3

LEMMA SharerKeeps ==
  ASSUME Sharer, GetterTypes, SharerNext
  PROVE  Sharer' /\ toSharer' \in Seq(Message)
         /\ UNCHANGED <<getterVars, retryVars>>
<1> USE DEF SharerTypes, SharerOrder, KeptIsNewest, RestartKnows
<1>0. toSharer \in Seq(Message) /\ UNCHANGED <<getterVars, retryVars>>
  BY DEF GetterTypes, SharerNext, ReceiveSignal, ShareTimeout, ModifyConsent, SharerLogout,
         SharerAnswers, SharerReady, SharerFails, SharerCloses, SharerStopped
<1>1. CASE ReceiveSignal
  <2>1. /\ Head(toSharer) \in Message /\ Tail(toSharer) \in Seq(Message)
        /\ toSharer' = Tail(toSharer) /\ UNCHANGED toGetter
    BY <1>0, <1>1, Taken DEF ReceiveSignal
  <2>2. CASE ~consent
    BY <1>1, <2>1, <2>2 DEF ReceiveSignal, sharerVars, sessionVars, Sharer
  <2>3. CASE consent
    BY <1>1, <2>1, <2>3, FirstKeeps, MoreKeeps DEF ReceiveSignal
  <2> QED BY <1>0, <2>1, <2>2, <2>3
<1>2. ASSUME stopShare, UNCHANGED sessionVars, consent' \in BOOLEAN, toGetter' \in Seq(Message)
      PROVE  Sharer'
  BY <1>2, StopKeeps DEF Sharer, sessionVars, SharingState
<1>3. CASE ShareTimeout \/ SharerLogout
  BY <1>0, <1>2, <1>3 DEF ShareTimeout, SharerLogout, Sharer
<1>4. CASE ModifyConsent
  <2>1. toGetter' \in Seq(Message) /\ consent' \in BOOLEAN
    BY <1>4 DEF ModifyConsent, Msg, Message, Sharer
  <2>2. CASE stopShare
    BY <1>0, <1>2, <1>4, <2>1, <2>2 DEF ModifyConsent
  <2>3. CASE UNCHANGED <<sharing, shareTimer, share>>
    BY <1>0, <1>4, <2>1, <2>3 DEF ModifyConsent, sessionVars, Sharer
  <2> QED BY <1>0, <1>4, <2>2, <2>3 DEF ModifyConsent
<1>5. ASSUME NEW j \in Share, SharerAnswers(j) PROVE Sharer' /\ UNCHANGED toSharer
  <2>1. toGetter' \in Seq(Message)
    BY <1>5 DEF SharerAnswers, Msg, Message, Sharer
  <2> QED BY <1>5, <2>1 DEF SharerAnswers, sharerVars, sessionVars, Sharer
<1>6. ASSUME NEW j \in Share, SharerReady(j) PROVE Sharer' /\ UNCHANGED toSharer
  BY <1>6, NoneIsNoName DEF SharerReady, sessionVars, Sharer, Phase, SharingState
<1>7. ASSUME NEW j \in Share, SharerFails(j) PROVE Sharer' /\ UNCHANGED toSharer
  <2>1. CASE sharing = "NONE"
    BY <1>7, <2>1 DEF SharerFails, sessionVars, Sharer, Phase
  <2>2. CASE sharing # "NONE"
    BY <1>2, <1>7, <2>2 DEF SharerFails, Sharer
  <2> QED BY <2>1, <2>2
<1>8. ASSUME NEW j \in Share, SharerCloses(j) PROVE Sharer' /\ UNCHANGED toSharer
  BY <1>8 DEF SharerCloses, sessionVars, Sharer, Phase
<1>9. ASSUME NEW j \in Share, SharerStopped(j) PROVE Sharer' /\ UNCHANGED toSharer
  <2> DEFINE phases == [share EXCEPT ![j] = "none"]
  <2>1. phases \in [Share -> Phase] /\ \A i \in Share : phases[i] = "none"
    BY <1>9 DEF SharerStopped, Sharer, Phase
  <2>2. restart' = FALSE /\ UNCHANGED <<consent, toGetter, toSharer>>
    BY <1>9 DEF SharerStopped
  <2>3. CASE restart
    <3>1. PICK i \in Share : startShare(i, waiting, phases)
      BY <1>9, <2>3 DEF SharerStopped
    <3>2. newest' = Head(waiting).of /\ waiting # <<>> /\ waiting \in Seq(Message)
      BY <1>9, <2>3 DEF SharerStopped, Sharer
    <3>3. consent' \in BOOLEAN /\ toGetter' \in Seq(Message)
      BY <2>2 DEF Sharer
    <3> HIDE DEF phases
    <3> QED BY <2>1, <2>2, <3>1, <3>2, <3>3, StartKeeps
  <2>4. CASE ~restart
    <3>1. /\ share' = phases /\ serves' = [serves EXCEPT ![j] = None] /\ newest' = None
          /\ sharing' = "NONE" /\ rtcToNet_' = None /\ shareTimer' = None
          /\ UNCHANGED <<created, waiting, proxyingId_, stray>>
      BY <1>9, <2>4 DEF SharerStopped
    <3> QED BY <2>1, <2>2, <3>1 DEF Sharer, SharingState
  <2> QED BY <2>3, <2>4
<1> QED
  BY <1>0, <1>1, <1>3, <1>4, <1>5, <1>6, <1>7, <1>8, <1>9
  DEF SharerNext, ShareTimeout, ModifyConsent, SharerLogout
------------------------------------------------------------------------------
LEMMA IInvStep == IInv /\ [Next]_vars => IInv'
<1> SUFFICES ASSUME IInv, [Next]_vars PROVE IInv'
  OBVIOUS
<1>1. GetterTypes /\ GetterOrder /\ Sharer
  BY DEF IInv, Sharer
<1>2. CASE GetterNext
  <2>1. GetterTypes' /\ GetterOrder' /\ toGetter' \in Seq(Message) /\ UNCHANGED sharerVars
    BY <1>2, GetterKeeps
  <2> QED
    BY <1>1, <2>1
    DEF IInv, Sharer, SharerTypes, SharerOrder, KeptIsNewest, RestartKnows, sharerVars, sessionVars
<1>3. CASE SharerNext
  <2>1. Sharer' /\ toSharer' \in Seq(Message) /\ UNCHANGED <<getterVars, retryVars>>
    BY <1>1, <1>3, SharerKeeps
  <2> QED
    BY <1>1, <2>1 DEF IInv, Sharer, GetterTypes, GetterOrder, getterVars, retryVars
<1>4. CASE Lose
  <2>1. UNCHANGED <<getterVars, retryVars, sharerVars>>
        /\ toSharer' \in Seq(Message) /\ toGetter' \in Seq(Message)
    BY <1>1, <1>4, Taken DEF Lose, Sharer, GetterTypes, SharerTypes
  <2> QED
    BY <1>1, <2>1
    DEF IInv, Sharer, GetterTypes, GetterOrder, SharerTypes, SharerOrder, KeptIsNewest,
        RestartKnows, getterVars, retryVars, sharerVars, sessionVars
<1>5. CASE UNCHANGED vars
  BY <1>1, <1>5
  DEF IInv, Sharer, GetterTypes, GetterOrder, SharerTypes, SharerOrder, KeptIsNewest,
      RestartKnows, vars, getterVars, retryVars, sharerVars, sessionVars
<1> QED BY <1>2, <1>3, <1>4, <1>5 DEF Next

(* The inductive invariant. *)
THEOREM Invariance == Spec => []IInv
<1> QED BY IInvInit, IInvStep, PTL DEF Spec

(* Timers, states and objects agree at both ends, and no signal of an attempt *)
(* is handed to the share of another (remote-connection.ts:189, 230, 343).    *)
THEOREM InOrder == Spec => []EndsInOrder
<1>1. IInv => EndsInOrder
  BY DEF IInv, EndsInOrder, TypeOK, StateMatchesObjects, SignalsReachTheirShare, GetterTypes,
         GetterOrder, SharerTypes, SharerOrder
<1> QED BY <1>1, Invariance, PTL
================================================================================
