------------------------- MODULE HandlerQueueProofs -------------------------
(* Proofs about HandlerQueue, for any set of events and promises, any *)
(* operations in handler bodies and any bounds; about KeyVerify, for any *)
(* number of sessions and messages under way; and about the codecs, for *)
(* packets, messages and scripts of any number and length. *)
EXTENDS MCHandlerQueue, FiniteSetTheorems, SequenceTheorems, WellFoundedInduction, TLAPS

Outcomes == {"new", "queued", "running", "handled", "rejected"}
Settlements == {"new", "armed", "taken", "fulfilled", "rejected"}

(* Counting once more keeps the counters natural numbers. *)
LEMMA CountType ==
  ASSUME NEW s \in [Counter -> Nat], NEW c \in Counter
  PROVE  Count(s, c) \in [Counter -> Nat] BY DEF Count

(* Pushing a frame keeps the stack a sequence of frames. *)
LEMMA PushType ==
  ASSUME calls \in Seq(Frame), NEW f \in Frame
  PROVE  Push(f) \in Seq(Frame) BY DEF Push

(* The frames of the calls in progress. *)
LEMMA FrameTypes ==
  /\ Loop \in Frame
  /\ \A p \in Promise : Next_(p) \in Frame
  /\ \A e \in Event, h \in Handler : Body(e, h) \in Frame
<1>1. Loop \in Frame BY DEF Frame
<1>2. ASSUME NEW p \in Promise PROVE Next_(p) \in Frame BY DEF Frame
<1>3. ASSUME NEW e \in Event, NEW h \in Handler PROVE Body(e, h) \in Frame BY DEF Frame
<1> QED BY <1>1, <1>2, <1>3

(* What entering a handler leaves behind. *)
LEMMA InvokeType ==
  ASSUME TypeOK, isHandling,
         NEW e \in Event, NEW counted \in [Counter -> Nat], Invoke(e, counted)
  PROVE  /\ handler_' \in Handler \cup {None}
         /\ rejectFn_' \in Promise \cup {None}
         /\ stats_' \in [Counter -> Nat]
         /\ outcome' \in [Event -> Outcomes]
         /\ settled' \in [Promise -> Settlements]
         /\ calls' \in Seq(Frame)
<1>1. calls' \in Seq(Frame) BY PushType, FrameTypes DEF Invoke, TypeOK, isHandling
<1>2. outcome' \in [Event -> Outcomes] BY DEF Invoke, TypeOK, Outcomes
<1>3. "handler_clear_count" \in Counter BY DEF Counter
<1>4. CASE handler_ \in Promise
  BY <1>1, <1>2, <1>3, <1>4, CountType DEF Invoke, TypeOK, Settlements
<1>5. CASE handler_ \notin Promise BY <1>1, <1>2, <1>5 DEF Invoke, TypeOK, Settlements
<1> QED BY <1>4, <1>5

(* Returning from the innermost call. *)
LEMMA PopType ==
  ASSUME TypeOK, calls # <<>>
  PROVE  Tail(calls) \in Seq(Frame) /\ Head(calls) \in Frame BY DEF TypeOK

(* What rejecting the kept promise leaves behind. *)
LEMMA RejectKeptType ==
  ASSUME TypeOK, NEW counted \in [Counter -> Nat], RejectKept(counted)
  PROVE  /\ rejectFn_' \in Promise \cup {None}
         /\ stats_' \in [Counter -> Nat]
         /\ AfterReject \in [Promise -> Settlements]
<1>1. "handler_rejections" \in Counter BY DEF Counter
<1>2. AfterReject \in [Promise -> Settlements] BY DEF AfterReject, TypeOK, Settlements
<1> QED BY <1>1, <1>2, CountType DEF RejectKept

(* The counters after a handler was set. *)
LEMMA CountSetType == ASSUME TypeOK PROVE CountSet \in [Counter -> Nat]
<1>1. {"handler_change_count", "handler_set_count"} \subseteq Counter BY DEF Counter
<1> QED BY <1>1, CountType DEF CountSet, TypeOK

(* The queue is type correct. *)
THEOREM TypeCorrect == Spec => []TypeOK
<1>1. Init => TypeOK BY DEF Init, TypeOK
<1>2. TypeOK /\ [Next]_vars => TypeOK'
  <2> SUFFICES ASSUME TypeOK, [Next]_vars PROVE TypeOK' OBVIOUS
  <2> USE DEF Outcomes, Settlements
  <2>1. ASSUME NEW e \in Event, HandleNow(e) PROVE TypeOK'
    <3>1. {"total_events", "immediately_handled_events"} \subseteq Counter BY DEF Counter
    <3>2. Count(Count(stats_, "total_events"), "immediately_handled_events") \in [Counter -> Nat]
      BY <3>1, CountType DEF TypeOK
    <3> QED BY <2>1, <3>2, InvokeType DEF HandleNow, TypeOK
  <2>2. ASSUME NEW e \in Event, HandleLater(e) PROVE TypeOK'
    <3>1. {"total_events", "queued_events"} \subseteq Counter BY DEF Counter
    <3>2. stats_' \in [Counter -> Nat] BY <2>2, <3>1, CountType DEF HandleLater, TypeOK
    <3> QED BY <2>2, <3>2 DEF HandleLater, TypeOK
  <2>3. CASE ProcessNext
    <3>1. Count(stats_, "queued_handled_events") \in [Counter -> Nat]
      BY CountType DEF TypeOK, Counter
    <3>2. Head(queue_) \in Event /\ Tail(queue_) \in Seq(Event)
      BY <2>3 DEF ProcessNext, TypeOK
    <3> QED BY <2>3, <3>1, <3>2, InvokeType DEF ProcessNext, TypeOK
  <2>4. CASE ProcessEnd BY <2>4, PopType DEF ProcessEnd, Running, TypeOK
  <2>5. CASE KeepRejectFn
    <3>1. Head(calls).kind = "next" /\ Head(calls) \in Frame
      BY <2>5, PopType DEF KeepRejectFn, Running
    <3>2. Head(calls).promise \in Promise
      <4>1. Loop.kind = "loop" /\ \A e \in Event, h \in Handler : Body(e, h).kind = "body"
        BY DEF Loop, Body
      <4>2. PICK p \in Promise : Head(calls) = Next_(p) BY <3>1, <4>1 DEF Frame
      <4> QED BY <4>2 DEF Next_
    <3>3. rejectFn_' \in Promise \cup {None} BY <2>5, <3>2 DEF KeepRejectFn, TypeOK
    <3>4. calls' \in Seq(Frame) BY <2>5, PopType DEF KeepRejectFn, Running
    <3> QED BY <2>5, <3>3, <3>4 DEF KeepRejectFn, TypeOK
  <2>6. CASE BodyReturns BY <2>6, PopType DEF BodyReturns, Running, TypeOK
  <2>7. CASE clear
    <3>1. Len(queue_) \in Nat /\ stats_ \in [Counter -> Nat] BY DEF TypeOK
    <3>2. [stats_ EXCEPT !["rejected_events"] = stats_["rejected_events"] + Len(queue_)]
            \in [Counter -> Nat]
      <4>1. stats_["rejected_events"] + Len(queue_) \in Nat BY <3>1 DEF Counter
      <4> QED BY <3>1, <4>1
    <3> QED BY <2>7, <3>2 DEF clear, TypeOK
  <2>8. CASE setHandler
    BY <2>8, RejectKeptType, CountSetType, PushType, FrameTypes DEF setHandler, TypeOK, Handler
  <2>9. ASSUME NEW p \in Promise, setNextHandler(p) PROVE TypeOK'
    <3>1. calls' \in Seq(Frame) BY <2>9, FrameTypes DEF setNextHandler, TypeOK
    <3> QED BY <2>9, <3>1, RejectKeptType, CountSetType DEF setNextHandler, TypeOK, Handler
  <2>10. CASE stopHandling
    <3>1. Count(stats_, "handler_clear_count") \in [Counter -> Nat]
      BY CountType DEF TypeOK, Counter
    <3> QED BY <2>10, <3>1, RejectKeptType DEF stopHandling, TypeOK
  <2>11. ASSUME NEW p \in Promise, Fulfil(p) PROVE TypeOK' BY <2>11 DEF Fulfil, TypeOK
  <2>12. CASE UNCHANGED vars BY <2>12 DEF vars, TypeOK
  <2> QED
    BY <2>1, <2>2, <2>3, <2>4, <2>5, <2>6, <2>7, <2>8, <2>9, <2>10, <2>11, <2>12 DEF Next
<1> QED BY <1>1, <1>2, PTL DEF Spec

----------
(* NoIdleHandler is about the moments between calls; while calls are in *)
(* progress, events may wait under an installed handler as long as some *)
(* processQueue_ is still to go on. *)
LoopPending ==
  isHandling /\ queue_ # <<>> => \E i \in 1..Len(calls) : calls[i].kind = "loop"

(* The calls in progress after a push. *)
LEMMA PushKeeps ==
  ASSUME calls \in Seq(Frame), NEW f \in Frame
  PROVE  /\ Len(Push(f)) = Len(calls) + 1
         /\ Push(f)[1] = f
         /\ \A i \in 1..Len(calls) : Push(f)[i + 1] = calls[i] BY DEF Push

(* The calls in progress after a return. *)
LEMMA PopKeeps ==
  ASSUME calls \in Seq(Frame), calls # <<>>
  PROVE  /\ Len(Tail(calls)) = Len(calls) - 1
         /\ Head(calls) = calls[1]
         /\ \A i \in 2..Len(calls) : Tail(calls)[i - 1] = calls[i] OBVIOUS

(* A push keeps the loops in progress, and so does the return of another *)
(* kind of call. *)
LEMMA LoopSurvives ==
  ASSUME TypeOK, NEW i \in 1..Len(calls), calls[i].kind = "loop",
         \/ \E f \in Frame : calls' = Push(f)
         \/ calls # <<>> /\ Head(calls).kind # "loop" /\ calls' = Tail(calls)
         \/ calls' = calls
  PROVE  \E j \in 1..Len(calls') : calls'[j].kind = "loop"
<1> USE DEF TypeOK
<1>1. ASSUME NEW f \in Frame, calls' = Push(f)
      PROVE  i + 1 \in 1..Len(calls') /\ calls'[i + 1].kind = "loop" BY <1>1, PushKeeps
<1>2. ASSUME calls # <<>>, Head(calls).kind # "loop", calls' = Tail(calls)
      PROVE  i - 1 \in 1..Len(calls') /\ calls'[i - 1].kind = "loop"
  <2>1. i # 1 BY <1>2, PopKeeps
  <2>2. i \in 2..Len(calls) /\ i - 1 \in 1..(Len(calls) - 1) BY <2>1
  <2> QED BY <1>2, <2>2, PopKeeps
<1>3. calls' = calls => i \in 1..Len(calls') /\ calls'[i].kind = "loop" OBVIOUS
<1> QED BY <1>1, <1>2, <1>3

(* An event waits under a handler only while a processQueue_ is running, so *)
(* none does between calls. *)
THEOREM NoEventIdle == Spec => []NoIdleHandler
<1>1. Init => LoopPending BY HandlerQueueAssumption DEF Init, LoopPending, isHandling
<1>2. TypeOK /\ LoopPending /\ [Next]_vars => LoopPending'
  <2> SUFFICES ASSUME TypeOK, LoopPending, [Next]_vars, isHandling', queue_' # <<>>
               PROVE  \E j \in 1..Len(calls') : calls'[j].kind = "loop" BY DEF LoopPending
  <2>1. ASSUME isHandling, queue_ # <<>>, UNCHANGED calls
        PROVE  \E j \in 1..Len(calls') : calls'[j].kind = "loop" BY <2>1 DEF LoopPending
  <2>2. ASSUME NEW e \in Event, HandleNow(e)
        PROVE  \E j \in 1..Len(calls') : calls'[j].kind = "loop"
    BY <2>2, FrameTypes, LoopSurvives DEF HandleNow, Invoke, LoopPending, TypeOK, isHandling
  <2>3. ASSUME NEW e \in Event, HandleLater(e) PROVE FALSE
    BY <2>3 DEF HandleLater, isHandling
  <2>4. CASE ProcessNext
    <3>1. 1 \in 1..Len(calls) /\ calls[1].kind = "loop"
      BY <2>4, PopKeeps DEF ProcessNext, Running, TypeOK
    <3>2. Head(queue_) \in Event /\ handler_ \in Handler
      BY <2>4 DEF ProcessNext, TypeOK, isHandling
    <3>3. \E f \in Frame : calls' = Push(f)
      BY <2>4, <3>2, FrameTypes DEF ProcessNext, Invoke
    <3> QED BY <3>1, <3>3, LoopSurvives
  <2>5. CASE ProcessEnd BY <2>5 DEF ProcessEnd, isHandling
  <2>6. CASE KeepRejectFn
    BY <2>6, LoopSurvives DEF KeepRejectFn, Running, LoopPending, isHandling
  <2>7. CASE BodyReturns
    BY <2>7, LoopSurvives DEF BodyReturns, Running, LoopPending, isHandling
  <2>8. CASE clear BY <2>8 DEF clear
  <2>9. CASE setHandler BY <2>9, FrameTypes, PushKeeps DEF setHandler, TypeOK, Loop
  <2>10. ASSUME NEW p \in Promise, setNextHandler(p)
         PROVE  \E j \in 1..Len(calls') : calls'[j].kind = "loop"
    BY <2>10 DEF setNextHandler, Loop, TypeOK
  <2>11. CASE stopHandling BY <2>11, HandlerQueueAssumption DEF stopHandling, isHandling
  <2>12. ASSUME NEW p \in Promise, Fulfil(p)
         PROVE  \E j \in 1..Len(calls') : calls'[j].kind = "loop"
    BY <2>1, <2>12 DEF Fulfil, isHandling
  <2>13. CASE UNCHANGED vars BY <2>1, <2>13 DEF vars, isHandling
  <2> QED
    BY <2>2, <2>3, <2>4, <2>5, <2>6, <2>7, <2>8, <2>9, <2>10, <2>11, <2>12, <2>13 DEF Next
<1>3. TypeOK /\ LoopPending => NoIdleHandler BY DEF LoopPending, NoIdleHandler
<1> QED BY <1>1, <1>2, <1>3, TypeCorrect, PTL DEF Spec

----------
(* StatsMatchQueue of counters s with n events in the queue, h: handling. *)
Sums(s, n, h) ==
  /\ s["queued_events"] = s["queued_handled_events"] + s["rejected_events"] + n
  /\ s["total_events"] = s["queued_events"] + s["immediately_handled_events"]
  /\ s["handler_set_count"] = s["handler_clear_count"] + (IF h THEN 1 ELSE 0)

(* What each way of counting does to the sums. *)
LEMMA CountSums ==
  ASSUME NEW s \in [Counter -> Nat], NEW n \in Nat, NEW h \in BOOLEAN, Sums(s, n, h)
  PROVE  /\ Sums(Count(Count(s, "total_events"), "immediately_handled_events"), n, h)
         /\ Sums(Count(Count(s, "total_events"), "queued_events"), n + 1, h)
         /\ n > 0 => Sums(Count(s, "queued_handled_events"), n - 1, h)
         /\ Sums(Count(s, "handler_change_count"), n, h)
         /\ Sums(Count(s, "handler_rejections"), n, h)
         /\ h => Sums(Count(s, "handler_clear_count"), n, FALSE)
         /\ ~h => Sums(Count(s, "handler_set_count"), n, TRUE)
<1> USE DEF Count, Counter, Sums
<1>1. Sums(Count(Count(s, "total_events"), "immediately_handled_events"), n, h) OBVIOUS
<1>2. Sums(Count(Count(s, "total_events"), "queued_events"), n + 1, h) OBVIOUS
<1>3. n > 0 => Sums(Count(s, "queued_handled_events"), n - 1, h) OBVIOUS
<1>4. Sums(Count(s, "handler_change_count"), n, h) /\ Sums(Count(s, "handler_rejections"), n, h)
  OBVIOUS
<1>5. h => Sums(Count(s, "handler_clear_count"), n, FALSE) OBVIOUS
<1>6. ~h => Sums(Count(s, "handler_set_count"), n, TRUE) OBVIOUS
<1> QED BY <1>1, <1>2, <1>3, <1>4, <1>5, <1>6

(* The counters agree with the queue and with the handler: installing and *)
(* uninstalling alternate although calls nest. *)
THEOREM StatsCorrect == Spec => []StatsMatchQueue
<1>0. StatsMatchQueue <=> Sums(stats_, Len(queue_), isHandling) BY DEF StatsMatchQueue, Sums
<1>1. Init => StatsMatchQueue BY DEF Init, StatsMatchQueue, isHandling, Counter
<1>2. TypeOK /\ StatsMatchQueue /\ [Next]_vars => StatsMatchQueue'
  <2> SUFFICES ASSUME TypeOK, StatsMatchQueue, [Next]_vars PROVE StatsMatchQueue' OBVIOUS
  <2>0. /\ stats_ \in [Counter -> Nat] /\ queue_ \in Seq(Event) /\ Len(queue_) \in Nat
        /\ None \notin Handler /\ isHandling \in BOOLEAN
        /\ Sums(stats_, Len(queue_), isHandling)
    BY <1>0, HandlerQueueAssumption DEF TypeOK, Handler, isHandling
  <2>1. ASSUME Sums(stats_', Len(queue_'), isHandling') PROVE StatsMatchQueue'
    BY <2>1 DEF StatsMatchQueue, Sums
  <2>2. ASSUME NEW e \in Event, NEW counted \in [Counter -> Nat], NEW n \in Nat,
               isHandling, Sums(counted, n, TRUE), Invoke(e, counted)
        PROVE  Sums(stats_', n, isHandling')
    <3>1. CASE handler_ \in Promise BY <2>2, <3>1, CountSums DEF Invoke, isHandling
    <3>2. CASE handler_ \notin Promise BY <2>2, <3>2 DEF Invoke, isHandling
    <3> QED BY <3>1, <3>2
  <2>3. ASSUME NEW e \in Event, HandleNow(e) PROVE StatsMatchQueue'
    <3> DEFINE counted == Count(Count(stats_, "total_events"), "immediately_handled_events")
    <3>1. isHandling /\ Invoke(e, counted) /\ queue_' = queue_ BY <2>3 DEF HandleNow
    <3>2. counted \in [Counter -> Nat] BY <2>0, CountType DEF Counter
    <3>3. Sums(counted, Len(queue_), TRUE) BY <2>0, <3>1, CountSums
    <3> QED BY <2>0, <2>1, <2>2, <3>1, <3>2, <3>3
  <2>4. ASSUME NEW e \in Event, HandleLater(e) PROVE StatsMatchQueue'
    <3>1. /\ stats_' = Count(Count(stats_, "total_events"), "queued_events")
          /\ Len(queue_') = Len(queue_) + 1
          /\ isHandling' = isHandling BY <2>0, <2>4 DEF HandleLater, isHandling
    <3> QED BY <2>0, <2>1, <3>1, CountSums
  <2>5. CASE ProcessNext
    <3> DEFINE counted == Count(stats_, "queued_handled_events")
    <3>1. isHandling /\ Invoke(Head(queue_), counted) /\ queue_' = Tail(queue_) /\ queue_ # <<>>
      BY <2>5 DEF ProcessNext
    <3>2. Head(queue_) \in Event /\ Len(queue_) > 0
          /\ Len(queue_') = Len(queue_) - 1 /\ Len(queue_') \in Nat BY <2>0, <3>1
    <3>3. counted \in [Counter -> Nat] BY <2>0, CountType DEF Counter
    <3>4. Sums(counted, Len(queue_'), TRUE) BY <2>0, <3>1, <3>2, CountSums
    <3> QED BY <2>1, <2>2, <3>1, <3>2, <3>3, <3>4
  <2>6. CASE ProcessEnd \/ KeepRejectFn \/ BodyReturns \/ UNCHANGED vars
    BY <2>6 DEF ProcessEnd, KeepRejectFn, BodyReturns, vars, StatsMatchQueue, isHandling
  <2>7. CASE clear
    <3>1. stats_' = [stats_ EXCEPT !["rejected_events"] = stats_["rejected_events"] + Len(queue_)]
          /\ Len(queue_') = 0 /\ isHandling' = isHandling BY <2>7 DEF clear, isHandling
    <3>2. Sums(stats_', 0, isHandling) BY <2>0, <3>1 DEF Sums, Counter
    <3> QED BY <2>1, <3>1, <3>2
  <2>8. ASSUME NEW counted \in [Counter -> Nat], RejectKept(counted), queue_' = queue_,
               Sums(counted, Len(queue_), isHandling')
        PROVE  StatsMatchQueue'
    <3>1. isHandling' \in BOOLEAN BY DEF isHandling
    <3>2. Sums(stats_', Len(queue_), isHandling')
      BY <2>0, <2>8, <3>1, CountSums DEF RejectKept
    <3> QED BY <2>1, <2>8, <3>2
  <2>9. CountSet \in [Counter -> Nat] /\ Sums(CountSet, Len(queue_), TRUE)
    BY <2>0, CountSetType, CountSums DEF CountSet
  <2>10. CASE setHandler
    <3>1. isHandling' = TRUE BY <2>10, HandlerQueueAssumption DEF setHandler, isHandling
    <3> QED BY <2>8, <2>9, <2>10, <3>1 DEF setHandler
  <2>11. ASSUME NEW p \in Promise, setNextHandler(p) PROVE StatsMatchQueue'
    <3>1. isHandling' = TRUE BY <2>11, HandlerQueueAssumption DEF setNextHandler, isHandling
    <3> QED BY <2>8, <2>9, <2>11, <3>1 DEF setNextHandler
  <2>12. CASE stopHandling
    <3> DEFINE counted == IF isHandling THEN Count(stats_, "handler_clear_count") ELSE stats_
    <3>1. isHandling' = FALSE /\ queue_' = queue_ /\ RejectKept(counted)
      BY <2>12 DEF stopHandling, isHandling
    <3>2. Count(stats_, "handler_clear_count") \in [Counter -> Nat]
      BY <2>0, CountType DEF Counter
    <3>3. counted \in [Counter -> Nat] /\ Sums(counted, Len(queue_), FALSE)
      BY <2>0, <3>2, CountSums
    <3> QED BY <2>8, <3>1, <3>3
  <2>13. ASSUME NEW p \in Promise, Fulfil(p) PROVE StatsMatchQueue'
    BY <2>13 DEF Fulfil, StatsMatchQueue, isHandling
  <2> QED BY <2>3, <2>4, <2>5, <2>6, <2>7, <2>10, <2>11, <2>12, <2>13 DEF Next
<1> QED BY <1>1, <1>2, TypeCorrect, PTL DEF Spec

(* In every state of nested calls the variables have their types and the *)
(* counters match the queue. *)
THEOREM Counted == Spec => []QueueCounted BY TypeCorrect, StatsCorrect, PTL DEF QueueCounted
----------
(* The promise of a next-handler is armed as long as that is installed, and *)
(* its reject function kept, but while setNextHandler itself is in progress; *)
(* and a reject function is only kept of the handler that is installed. *)
Kept ==
  /\ handler_ \in Promise =>
       /\ settled[handler_] = "armed"
       /\ \/ rejectFn_ = handler_
          \/ calls = <<Loop, Next_(handler_)>>
          \/ calls = <<Next_(handler_)>>
  /\ rejectFn_ # None => rejectFn_ = handler_
  /\ \A i \in 1..Len(calls) :
       calls[i].kind = "next" => handler_ \in {None, calls[i].promise}

(* What a step may not do to the promises. *)
NonePutOff ==
  \A p \in Promise :
    /\ handler_ = p /\ handler_' # p => settled'[p] \in {"taken", "rejected"}
    /\ settled[p] = "taken" => settled'[p] # "rejected"

LEMMA Kinds ==
  /\ Loop.kind = "loop"
  /\ \A p : Next_(p).kind = "next" /\ Next_(p).promise = p
  /\ \A e, h : Body(e, h).kind = "body" BY DEF Loop, Next_, Body

(* A reject function that is kept is of a handler that has not been called. *)
LEMMA RejectsArmed ==
  ASSUME TypeOK, Kept, NEW p \in Promise
  PROVE  /\ p = rejectFn_ => handler_ = p /\ settled[p] = "armed"
         /\ settled[p] # "armed" => AfterReject[p] = settled[p]
         /\ p = rejectFn_ => AfterReject[p] = "rejected"
BY HandlerQueueAssumption DEF Kept, AfterReject, TypeOK

(* A handler is called: if it is a next-handler, its promise is taken. *)
LEMMA InvokeKept ==
  ASSUME TypeOK, Kept, isHandling, NEW e \in Event, NEW counted, Invoke(e, counted)
  PROVE  Kept' /\ NonePutOff
<1> DEFINE f == Body(e, handler_)
<1>1. f \in Frame /\ f.kind = "body" BY FrameTypes, Kinds DEF isHandling, TypeOK
<1>2. calls' = Push(f) /\ calls \in Seq(Frame) /\ Len(calls) \in Nat BY DEF Invoke, TypeOK
<1>3. /\ Len(calls') = Len(calls) + 1 /\ calls'[1] = f
      /\ \A i \in 1..Len(calls) : calls'[i + 1] = calls[i] BY <1>1, <1>2, PushKeeps
<1>4. CASE handler_ \in Promise
  <2>1. /\ handler_' = None /\ rejectFn_' = None
        /\ settled' = [settled EXCEPT ![handler_] = "taken"] BY <1>4 DEF Invoke
  <2>2. NonePutOff BY <1>4, <2>1 DEF NonePutOff, TypeOK
  <2>3. Kept' BY <2>1, HandlerQueueAssumption DEF Kept
  <2> QED BY <2>2, <2>3
<1>5. CASE handler_ \notin Promise
  <2>1. UNCHANGED <<handler_, rejectFn_, settled>> BY <1>5 DEF Invoke
  <2>2. NonePutOff BY <1>5, <2>1 DEF NonePutOff
  <2>3. ASSUME NEW i \in 1..Len(calls'), calls'[i].kind = "next"
        PROVE  handler_' \in {None, calls'[i].promise}
    <3>1. i # 1 BY <1>1, <1>3, <2>3
    <3>2. i - 1 \in 1..Len(calls) /\ calls'[i] = calls[i - 1] BY <1>2, <1>3, <3>1
    <3> QED BY <2>1, <2>3, <3>2 DEF Kept
  <2> QED BY <1>5, <2>1, <2>2, <2>3 DEF Kept
<1> QED BY <1>4, <1>5

(* The innermost call returns, or nothing is called. *)
LEMMA ReturnKept ==
  ASSUME TypeOK, Kept, UNCHANGED <<handler_, rejectFn_, settled>>,
         calls' = calls \/ (calls # <<>> /\ Head(calls).kind # "next" /\ calls' = Tail(calls))
  PROVE  Kept' /\ NonePutOff
<1>1. NonePutOff BY DEF NonePutOff
<1>0. /\ handler_ \in Promise => settled[handler_] = "armed"
      /\ rejectFn_ # None => rejectFn_ = handler_ BY DEF Kept
<1>2. CASE calls' = calls
  <2>1. Kept' BY <1>2, Zenon DEF Kept
  <2> QED BY <1>1, <2>1
<1>3. CASE calls # <<>> /\ Head(calls).kind # "next" /\ calls' = Tail(calls)
  <2>0. calls \in Seq(Frame) /\ Len(calls) \in Nat BY DEF TypeOK
  <2>1. /\ Len(calls') = Len(calls) - 1 /\ Len(calls) \in Nat
        /\ \A i \in 2..Len(calls) : calls'[i - 1] = calls[i]
    <3>1. calls # <<>> /\ calls' = Tail(calls) BY <1>3
    <3> QED BY <2>0, <3>1, PopKeeps
  <2>2. ASSUME NEW i \in 1..Len(calls')
        PROVE  i + 1 \in 1..Len(calls) /\ calls'[i] = calls[i + 1]
    <3>1. i + 1 \in 2..Len(calls) /\ (i + 1) - 1 = i BY <2>1
    <3> QED BY <2>1, <3>1
  <2>3. \A i \in 1..Len(calls') : calls'[i].kind = "next" => handler_' \in {None, calls'[i].promise}
    BY <2>2 DEF Kept
  <2>4. ASSUME NEW p \in Promise, calls = <<Loop, Next_(p)>> PROVE calls' = <<Next_(p)>>
    BY <1>3, <2>4
  <2>5. ASSUME NEW p \in Promise, calls = <<Next_(p)>> PROVE FALSE BY <1>3, <2>5, Kinds
  <2>6. handler_ \in Promise => rejectFn_ = handler_ \/ calls' = <<Next_(handler_)>>
    BY <2>4, <2>5 DEF Kept
  <2>7. Kept' BY <1>0, <2>3, <2>6 DEF Kept
  <2> QED BY <1>1, <2>7
<1> QED BY <1>1, <1>2, <1>3

(* A handler that is replaced, or taken away, between calls or by a body: its *)
(* reject function is kept, so that its promise is rejected. *)
LEMMA ReplacedKept ==
  ASSUME TypeOK, Kept, calls = <<>> \/ Head(calls).kind = "body"
  PROVE  \A p \in Promise : handler_ = p => rejectFn_ = p
<1> SUFFICES ASSUME NEW p \in Promise, handler_ = p PROVE rejectFn_ = p OBVIOUS
<1>1. calls # <<Loop, Next_(p)>> /\ calls # <<Next_(p)>>
  <2>1. Head(<<Loop, Next_(p)>>) = Loop /\ Head(<<Next_(p)>>) = Next_(p) OBVIOUS
  <2>2. <<Loop, Next_(p)>> # <<>> /\ <<Next_(p)>> # <<>> OBVIOUS
  <2> QED BY <2>1, <2>2, Kinds
<1> QED BY <1>1 DEF Kept

LEMMA KeptStep ==
  ASSUME TypeOK, Kept, BodyCalls \cap {"set", "next"} = {}, [Next]_vars
  PROVE  Kept' /\ NonePutOff
<1>0. ASSUME NEW op \in {"set", "next"}, MayCall(op) PROVE calls = <<>> BY <1>0 DEF MayCall
<1>1. ASSUME NEW e \in Event, HandleNow(e) PROVE Kept' /\ NonePutOff
  BY <1>1, InvokeKept DEF HandleNow
<1>2. ASSUME NEW e \in Event, HandleLater(e) PROVE Kept' /\ NonePutOff
  BY <1>2, ReturnKept DEF HandleLater
<1>3. CASE ProcessNext
  <2>1. Head(queue_) \in Event BY <1>3 DEF ProcessNext, TypeOK
  <2> QED BY <1>3, <2>1, InvokeKept DEF ProcessNext
<1>4. CASE ProcessEnd BY <1>4, ReturnKept DEF ProcessEnd, Running
<1>5. CASE KeepRejectFn
  <2> DEFINE p == Head(calls).promise
  <2>1. /\ calls # <<>> /\ Head(calls).kind = "next" /\ calls' = Tail(calls)
        /\ rejectFn_' = IF isHandling THEN p ELSE rejectFn_
        /\ UNCHANGED <<handler_, settled>> BY <1>5 DEF KeepRejectFn, Running
  <2>2. /\ Head(calls) = calls[1] /\ Len(calls') = Len(calls) - 1 /\ Len(calls) \in Nat \ {0}
        /\ \A i \in 2..Len(calls) : calls'[i - 1] = calls[i] BY <2>1, PopKeeps DEF TypeOK
  <2>3. handler_ \in {None, p} BY <2>1, <2>2 DEF Kept
  <2>4. rejectFn_' # None => rejectFn_' = handler_' BY <2>1, <2>3 DEF Kept, isHandling
  <2>5. handler_' \in Promise => rejectFn_' = handler_' /\ settled'[handler_'] = "armed"
    BY <2>1, <2>3, HandlerQueueAssumption DEF Kept, isHandling
  <2>6. ASSUME NEW i \in 1..Len(calls')
        PROVE  i + 1 \in 1..Len(calls) /\ calls'[i] = calls[i + 1]
    <3>1. i + 1 \in 2..Len(calls) /\ (i + 1) - 1 = i BY <2>2
    <3> QED BY <2>2, <3>1
  <2>7. \A i \in 1..Len(calls') : calls'[i].kind = "next" => handler_' \in {None, calls'[i].promise}
    BY <2>1, <2>6 DEF Kept
  <2>8. NonePutOff BY <2>1 DEF NonePutOff
  <2> QED BY <2>4, <2>5, <2>7, <2>8 DEF Kept
<1>6. CASE BodyReturns BY <1>6, ReturnKept DEF BodyReturns, Running
<1>7. CASE clear BY <1>7, ReturnKept DEF clear
<1>8. CASE setHandler
  <2>1. /\ calls = <<>> /\ handler_' = "standing" /\ rejectFn_' = None /\ settled' = AfterReject
        /\ calls' = Push(Loop) BY <1>0, <1>8 DEF setHandler, MaySet, RejectKept
  <2>2. calls' = <<Loop>> BY <2>1 DEF Push
  <2>3. Kept' BY <2>1, <2>2, Kinds, HandlerQueueAssumption DEF Kept
  <2>4. NonePutOff BY <2>1, ReplacedKept, RejectsArmed DEF NonePutOff
  <2> QED BY <2>3, <2>4
<1>9. ASSUME NEW p \in Promise, setNextHandler(p) PROVE Kept' /\ NonePutOff
  <2>1. /\ calls = <<>> /\ handler_' = p /\ rejectFn_' = None /\ settled[p] = "new"
        /\ settled' = [AfterReject EXCEPT ![p] = "armed"]
        /\ calls' = <<Loop, Next_(p)>> \o calls
    BY <1>0, <1>9 DEF setNextHandler, MaySet, RejectKept
  <2>2. calls' = <<Loop, Next_(p)>> BY <2>1
  <2>3. /\ settled'[p] = "armed"
        /\ \A q \in Promise : q # p => settled'[q] = AfterReject[q] BY <2>1 DEF AfterReject
  <2>4. \A i \in 1..Len(calls') : calls'[i].kind = "next" => calls'[i].promise = p
    BY <2>2, Kinds
  <2>5. Kept' BY <2>1, <2>2, <2>3, <2>4 DEF Kept
  <2>6. handler_ # p BY <2>1 DEF Kept
  <2>7. NonePutOff BY <2>1, <2>3, <2>6, ReplacedKept, RejectsArmed DEF NonePutOff
  <2> QED BY <2>5, <2>7
<1>10. CASE stopHandling
  <2>1. /\ calls = <<>> \/ Head(calls).kind = "body"
        /\ calls' = calls
        /\ handler_' = None /\ rejectFn_' = None /\ settled' = AfterReject
    BY <1>10 DEF stopHandling, MayCall, RejectKept
  <2>2. Kept' BY <2>1, HandlerQueueAssumption DEF Kept
  <2>3. NonePutOff BY <2>1, ReplacedKept, RejectsArmed DEF NonePutOff
  <2> QED BY <2>2, <2>3
<1>11. ASSUME NEW p \in Promise, Fulfil(p) PROVE Kept' /\ NonePutOff
  <2>1. /\ settled[p] = "taken" /\ settled' = [settled EXCEPT ![p] = "fulfilled"]
        /\ UNCHANGED <<handler_, rejectFn_, calls>> BY <1>11 DEF Fulfil
  <2>2. \A q \in Promise : settled'[q] = IF q = p THEN "fulfilled" ELSE settled[q]
    BY <2>1 DEF TypeOK
  <2>3. Kept' BY <2>1, <2>2 DEF Kept
  <2>4. NonePutOff BY <2>1, <2>2 DEF NonePutOff
  <2> QED BY <2>3, <2>4
<1>12. CASE UNCHANGED vars BY <1>12, ReturnKept DEF vars
<1> QED
  BY <1>1, <1>2, <1>3, <1>4, <1>5, <1>6, <1>7, <1>8, <1>9, <1>10, <1>11, <1>12 DEF Next

(* If no handler body sets a handler, the promise of a next-handler that is *)
(* taken away is rejected, or has its event and is then fulfilled (queue.ts). *)
THEOREM PromisesStayKept ==
  ASSUME BodyCalls \cap {"set", "next"} = {}
  PROVE  Spec => PromisesKept
<1>1. Init => Kept BY HandlerQueueAssumption DEF Init, Kept
<1>2. TypeOK /\ Kept /\ [Next]_vars => Kept' /\ [NonePutOff]_vars BY KeptStep
<1> QED BY <1>1, <1>2, TypeCorrect, PTL DEF Spec, PromisesKept, NonePutOff

----------
(* KeyVerify.  A message is what its sender has in its own session (Genuine). *)
(* A session that computed a SAS has all the four messages it is of, and keeps *)
(* them, so that the user's approval holds for good (Approved).  Now let a *)
(* responder s end with "verified".  Its Confirm2 is from the session r that *)
(* its Commit and DHPart2 are from, so r's user approved of the SAS of some *)
(* session of the peer.  That one has r's Commit, so it is a responder, and *)
(* the Commit was made for its Hello2: it is s.  So r's DHPart1, and with it *)
(* the Confirm1 that made r send its Confirm2, is from s, which had its user's *)
(* approval. *)

Messages == UNION {[D -> Keys!Message] : D \in SUBSET Keys!Type}

SessionType ==
  [isInitiator : BOOLEAN, messages : Messages, sas : {"none", "due", "shown", "yes", "no"},
   result : {"unused", "open", "yes", "no"}]

Own(x, t) == x.isInitiator = (t \in {"Hello1", "Commit", "DHPart2", "Confirm2"})

(* Whom the messages of the session s of p are from. *)
From(p, s, x) ==
  \A t \in DOMAIN x.messages :
    /\ x.messages[t].type = t
    /\ x.messages[t].of \in (IF Own(x, t) THEN {s} ELSE Sessions[Keys!OtherPeer(p)])

(* What a message that was accepted has before it, and agrees with. *)
InitiatorRead(x) ==
  x.isInitiator =>
    /\ Keys!Has(x, "DHPart1") => Keys!Has(x, "Hello2")
    /\ Keys!Has(x, "Confirm1") => Keys!Has(x, "DHPart1") /\ Keys!Of(x, "Confirm1") = Keys!Of(x, "DHPart1")
    /\ Keys!Has(x, "Confirm2") => Keys!Has(x, "Confirm1")

ResponderRead(x) ==
  ~x.isInitiator =>
    /\ Keys!Has(x, "Commit") => Keys!Has(x, "Hello2")
    /\ Keys!Has(x, "DHPart2") => /\ Keys!Has(x, "Commit") /\ Keys!Of(x, "DHPart2") = Keys!Of(x, "Commit")
                            /\ x.messages["Commit"].ref = Keys!Of(x, "Hello2")
    /\ Keys!Has(x, "Confirm2") => Keys!Has(x, "DHPart2") /\ Keys!Of(x, "Confirm2") = Keys!Of(x, "DHPart2")
    /\ x.result = "yes" => Keys!Has(x, "Confirm2")

(* When the user was asked, and had approved. *)
Asked(x) ==
  /\ x.sas # "none" => Keys!Has(x, IF x.isInitiator THEN "DHPart1" ELSE "DHPart2")
  /\ Keys!Has(x, IF x.isInitiator THEN "Confirm2" ELSE "Confirm1") => x.sas = "yes"

Shaped(p, s, x) ==
  x \in SessionType /\ From(p, s, x) /\ InitiatorRead(x) /\ ResponderRead(x) /\ Asked(x)

(* Whatever was accepted is followed by what is sent next. *)
Followed(x) ==
  IF x.isInitiator
    THEN (Keys!Has(x, "Hello2") => Keys!Has(x, "Commit")) /\ (Keys!Has(x, "DHPart1") => Keys!Has(x, "DHPart2"))
    ELSE Keys!Has(x, "Commit") => Keys!Has(x, "DHPart1")

(* How a session goes on: what it has it keeps. *)
GoesOn(x, y) ==
  /\ \A t \in DOMAIN x.messages : t \in DOMAIN y.messages /\ y.messages[t] = x.messages[t]
  /\ x.sas # "none" => y.sas # "none"
  /\ x.sas = "yes" => y.sas = "yes"

(* In the sessions S: a message is as its sender has it. *)
Genuine(S, m) == Keys!Has(S[m.of], m.type) /\ S[m.of].messages[m.type] = m

AllGenuine(S) ==
  \A s \in Keys!Session : \A t : Keys!Has(S[s], t) => Genuine(S, S[s].messages[t])

(* Who approved of a SAS, approved of one that a session of the peer has. *)
Approved(S) ==
  \A p \in Peer : \A s \in Sessions[p] : S[s].sas = "yes" =>
    \E u \in Sessions[Keys!OtherPeer(p)] : S[u].sas # "none" /\ Keys!SAS(S[u]) = Keys!SAS(S[s])

Sound(S) ==
  /\ S \in [Keys!Session -> SessionType]
  /\ \A p \in Peer : \A s \in Sessions[p] : Shaped(p, s, S[s]) /\ Followed(S[s])
  /\ AllGenuine(S) /\ Approved(S)

Carried(S, network) ==
  /\ network \in [Peer -> Seq(Keys!Message)]
  /\ \A q \in Peer : \A i \in 1..Len(network[q]) :
       network[q][i].of \in Sessions[Keys!OtherPeer(q)] /\ Genuine(S, network[q][i])

(* A session that is current is open; one that is shown was asked about. *)
Open(S, now) ==
  /\ now \in [Peer -> Keys!Session \cup {None}]
  /\ \A p \in Peer : now[p] # None => now[p] \in Sessions[p] /\ S[now[p]].result = "open"

Shows(S, shows, asks) ==
  /\ shows \in [Peer -> Keys!Session \cup {None}]
  /\ asks \in [Peer -> Keys!Session \cup {None}]
  /\ \A p \in Peer :
       /\ asks[p] # None => asks[p] \in Sessions[p]
       /\ shows[p] # None => shows[p] = asks[p] /\ S[shows[p]].sas # "none"

KeysInv ==
  Sound(session) /\ Carried(session, net) /\ Open(session, current)
  /\ Shows(session, shown, resolver)
----------
LEMMA Peers ==
  ASSUME Two, NEW p \in Peer
  PROVE  /\ Keys!OtherPeer(p) \in Peer /\ Keys!OtherPeer(p) # p /\ Keys!OtherPeer(Keys!OtherPeer(p)) = p
         /\ \A q \in Peer : q = p \/ q = Keys!OtherPeer(p)
         /\ Sessions[p] \cap Sessions[Keys!OtherPeer(p)] = {}
<1>1. PICK x, y \in Peer : x # y /\ Peer = {x, y} BY DEF Two
<1>2. \A z \in Peer : \E q \in Peer : q # z BY <1>1
<1>3. \A z \in Peer : Keys!OtherPeer(z) \in Peer /\ Keys!OtherPeer(z) # z
  BY <1>2 DEF Keys!OtherPeer
<1> QED BY <1>1, <1>3 DEF Two

LEMMA MessageKept ==
  ASSUME NEW f \in Messages, NEW m \in Keys!Message
  PROVE  /\ Keys!Keep(f, m) \in Messages /\ DOMAIN Keys!Keep(f, m) = DOMAIN f \cup {m.type}
         /\ m.type \notin DOMAIN f => Keys!Keep(f, m)[m.type] = m
         /\ \A t \in DOMAIN f : Keys!Keep(f, m)[t] = f[t]
<1>1. PICK D \in SUBSET Keys!Type : f \in [D -> Keys!Message] BY DEF Messages
<1>2. m.type \in Keys!Type BY DEF Keys!Message
<1>3. Keys!Keep(f, m) \in [D \cup {m.type} -> Keys!Message] BY <1>1 DEF Keys!Keep
<1>4. D \cup {m.type} \in SUBSET Keys!Type BY <1>2
<1>5. Keys!Keep(f, m) \in Messages BY <1>3, <1>4 DEF Messages
<1> QED BY <1>1, <1>5 DEF Keys!Keep

LEMMA NoMessages == <<>> \in Messages /\ DOMAIN <<>> = {}
<1>1. <<>> = [t \in {} |-> t] /\ DOMAIN <<>> = {} OBVIOUS
<1>2. <<>> \in [{} -> Keys!Message] BY <1>1
<1> QED BY <1>1, <1>2 DEF Messages

LEMMA Held ==
  ASSUME NEW x \in SessionType, NEW t, Keys!Has(x, t)
  PROVE  t \in Keys!Type /\ x.messages[t] \in Keys!Message
<1>1. x.messages \in Messages BY DEF SessionType
<1>2. PICK D \in SUBSET Keys!Type : x.messages \in [D -> Keys!Message] BY <1>1 DEF Messages
<1> QED BY <1>2 DEF Keys!Has
----------
(* set_ and resolve_, field by field. *)
LEMMA Resolved ==
  ASSUME NEW x \in SessionType, NEW r \in {"yes", "no"}
  PROVE  /\ Keys!resolve_(x, r) \in SessionType
         /\ Keys!resolve_(x, r).isInitiator = x.isInitiator
         /\ Keys!resolve_(x, r).messages = x.messages /\ Keys!resolve_(x, r).sas = x.sas
         /\ Keys!resolve_(x, r).result = IF x.result = "open" THEN r ELSE x.result
BY DEF Keys!resolve_, SessionType

LEMMA Set ==
  ASSUME NEW x \in SessionType, NEW m \in Keys!Message
  PROVE  /\ Keys!set_(x, m) \in SessionType
         /\ Keys!set_(x, m).isInitiator = x.isInitiator /\ Keys!set_(x, m).sas = x.sas
         /\ Keys!Has(x, m.type) => /\ Keys!set_(x, m).messages = x.messages
                              /\ Keys!set_(x, m).result = IF x.result = "open" THEN "no" ELSE x.result
         /\ ~Keys!Has(x, m.type) => /\ Keys!set_(x, m).messages = Keys!Keep(x.messages, m)
                               /\ Keys!set_(x, m).result = x.result
<1>1. x.messages \in Messages BY DEF SessionType
<1>2. Keys!Keep(x.messages, m) \in Messages BY <1>1, MessageKept
<1>3. CASE Keys!Has(x, m.type) BY <1>3, Resolved DEF Keys!set_
<1>4. CASE ~Keys!Has(x, m.type) BY <1>2, <1>4 DEF Keys!set_, SessionType
<1> QED BY <1>3, <1>4
----------
(* What is to be sent next. *)
LEMMA InOrder ==
  ASSUME NEW x \in SessionType
  PROVE  LET t == Keys!NextInOrder(x) IN
         /\ t \in Keys!Type /\ Own(x, t)
         /\ t = "Confirm2" => Keys!Has(x, "Confirm1")
         /\ t = "Commit" => Keys!Has(x, "Hello2")
         /\ t = "Conf2Ack" => Keys!Has(x, "Confirm2")
         /\ x.isInitiator /\ Keys!Has(x, "Hello2") /\ ~Keys!Has(x, "DHPart1") /\ ~Keys!Has(x, "Confirm1")
              => t = "Commit"
         /\ x.isInitiator /\ Keys!Has(x, "DHPart1") /\ ~Keys!Has(x, "Confirm1") => t = "DHPart2"
         /\ ~x.isInitiator /\ Keys!Has(x, "Commit") /\ ~Keys!Has(x, "DHPart2") /\ ~Keys!Has(x, "Confirm2")
              => t = "DHPart1"
<1>1. x.isInitiator \in BOOLEAN BY DEF SessionType
<1>2. CASE x.isInitiator BY <1>2 DEF Keys!NextInOrder, Own, Keys!Type
<1>3. CASE ~x.isInitiator
  <2>1. x.isInitiator = FALSE BY <1>1, <1>3
  <2>2. Keys!NextInOrder(x) \in {"Conf2Ack", "Confirm1", "DHPart1", "Hello2"}
    BY <2>1 DEF Keys!NextInOrder
  <2>3. Keys!NextInOrder(x) \in Keys!Type /\ Own(x, Keys!NextInOrder(x))
    <3>1. Keys!NextInOrder(x) \in Keys!Type BY <2>2 DEF Keys!Type
    <3>2. ~(Keys!NextInOrder(x) \in {"Hello1", "Commit", "DHPart2", "Confirm2"}) BY <2>2
    <3>3. (Keys!NextInOrder(x) \in {"Hello1", "Commit", "DHPart2", "Confirm2"}) = FALSE
      BY <3>2
    <3> QED BY <2>1, <3>1, <3>3 DEF Own
  <2>4. Keys!NextInOrder(x) = "Conf2Ack" => Keys!Has(x, "Confirm2")
    BY <2>1 DEF Keys!NextInOrder
  <2>5. Keys!Has(x, "Commit") /\ ~Keys!Has(x, "DHPart2") /\ ~Keys!Has(x, "Confirm2") => Keys!NextInOrder(x) = "DHPart1"
    BY <2>1 DEF Keys!NextInOrder
  <2> QED BY <1>3, <2>2, <2>3, <2>4, <2>5
<1> QED BY <1>1, <1>2, <1>3

(* Once a message was accepted, what has to follow it is what is sent next. *)
Follows(x) ==
  IF x.isInitiator
    THEN /\ Keys!Has(x, "Hello2") /\ ~Keys!Has(x, "Commit") => ~Keys!Has(x, "DHPart1") /\ ~Keys!Has(x, "Confirm1")
         /\ Keys!Has(x, "DHPart1") /\ ~Keys!Has(x, "DHPart2") => ~Keys!Has(x, "Confirm1") /\ Keys!Has(x, "Commit")
    ELSE Keys!Has(x, "Commit") /\ ~Keys!Has(x, "DHPart1") => ~Keys!Has(x, "DHPart2") /\ ~Keys!Has(x, "Confirm2")

(* A message of one's own that is sent for the first time. *)
LEMMA OwnAdded ==
  ASSUME NEW p \in Peer, NEW s \in Sessions[p], NEW x, Shaped(p, s, x),
         NEW m \in Keys!Message, m.of = s, ~Keys!Has(x, m.type), m.type = Keys!NextInOrder(x),
         m.type \in {"Confirm1", "Confirm2"} => x.sas = "yes",
         NEW y \in SessionType, y.isInitiator = x.isInitiator, y.sas = x.sas,
         y.messages = Keys!Keep(x.messages, m),
         y.result = "yes" => x.result = "yes" \/ Keys!Has(x, "Confirm2")
  PROVE  /\ Shaped(p, s, y) /\ GoesOn(x, y)
         /\ \A t : Keys!Has(y, t) <=> Keys!Has(x, t) \/ t = m.type
         /\ y.messages[m.type] = m
<1>1. x \in SessionType /\ x.messages \in Messages BY DEF Shaped, SessionType
<1>2. /\ DOMAIN y.messages = DOMAIN x.messages \cup {m.type} /\ y.messages[m.type] = m
      /\ \A t \in DOMAIN x.messages : y.messages[t] = x.messages[t]
  <2> DEFINE f == x.messages
  <2>1. f \in Messages /\ m.type \notin DOMAIN f /\ y.messages = Keys!Keep(f, m)
    BY <1>1 DEF Keys!Has
  <2> HIDE DEF f
  <2>2. DOMAIN Keys!Keep(f, m) = DOMAIN f \cup {m.type} /\ Keys!Keep(f, m)[m.type] = m
        /\ \A t \in DOMAIN f : Keys!Keep(f, m)[t] = f[t] BY <2>1, MessageKept
  <2> QED BY <2>1, <2>2 DEF f
<1>3. \A t : Keys!Has(y, t) <=> Keys!Has(x, t) \/ t = m.type BY <1>2 DEF Keys!Has
<1>4. \A t : Keys!Has(x, t) => Keys!Of(y, t) = Keys!Of(x, t) /\ y.messages[t] = x.messages[t]
  BY <1>2 DEF Keys!Has, Keys!Of
<1>5. Own(x, m.type) /\ (m.type = "Confirm2" => Keys!Has(x, "Confirm1")) BY <1>1, InOrder
<1>6. From(p, s, y) BY <1>2, <1>5 DEF Shaped, From, Own
<1>7. InitiatorRead(y) BY <1>3, <1>4, <1>5 DEF Shaped, InitiatorRead, Own
<1>8. ResponderRead(y) BY <1>3, <1>4, <1>5 DEF Shaped, ResponderRead, Own
<1>9. Asked(y) BY <1>3, <1>5 DEF Shaped, Asked, Own
<1> QED BY <1>2, <1>3, <1>6, <1>7, <1>8, <1>9 DEF Shaped, GoesOn

LEMMA SentNext ==
  ASSUME Two, NEW p \in Peer, NEW s \in Sessions[p], NEW x, Shaped(p, s, x), Follows(x),
         x.result = "open", NEW sent \in BOOLEAN
  PROVE  LET n == Keys!sendNextMessage(s, x, sent) IN
         /\ Shaped(p, s, n.x) /\ GoesOn(x, n.x) /\ Followed(n.x)
         /\ sent /\ ~Keys!Has(x, "Confirm2") => n.x.result = "open"
         /\ n.x.sas = x.sas
         /\ n.out \in Seq(Keys!Message) /\ Len(n.out) <= 1
         /\ \A t : Keys!Has(n.x, t) /\ ~Keys!Has(x, t) => n.x.messages[t].of = s
         /\ \A i \in 1..Len(n.out) :
              LET m == n.out[i] IN
              m.of = s /\ Keys!Has(n.x, m.type) /\ n.x.messages[m.type] = m
<1> DEFINE n == Keys!sendNextMessage(s, x, sent)
           t == Keys!NextInOrder(x)
<1>1. x \in SessionType BY DEF Shaped
<1>2. CASE Keys!NextType(x) = {}
  <2>1. n = [x |-> x, out |-> <<>>] BY <1>2 DEF Keys!sendNextMessage
  <2>2. Keys!Has(x, t) \/ ((t = IF x.isInitiator THEN "Confirm2" ELSE "Confirm1") /\ x.sas # "yes")
    BY <1>2 DEF Keys!NextType
  <2>3. Followed(x) BY <1>1, <2>2, InOrder DEF Follows, Followed
  <2>4. GoesOn(x, x) BY DEF GoesOn
  <2> QED BY <2>1, <2>3, <2>4
<1>3. CASE Keys!NextType(x) # {}
  <2> DEFINE m == Keys!generate_(s, x, t)
             y == Keys!set_(x, m)
  <2>1. /\ Keys!NextType(x) = {t} /\ ~Keys!Has(x, t)
        /\ (t = IF x.isInitiator THEN "Confirm2" ELSE "Confirm1") => x.sas = "yes"
    BY <1>3 DEF Keys!NextType
  <2>2. (CHOOSE u \in Keys!NextType(x) : TRUE) = t BY <2>1
  <2>3. n = IF sent THEN [x |-> IF m.type = "Conf2Ack" THEN Keys!resolve_(y, "yes") ELSE y,
                          out |-> <<m>>]
            ELSE [x |-> Keys!resolve_(y, "no"), out |-> <<>>]
    BY <1>3, <2>2 DEF Keys!sendNextMessage
  <2>4. t \in Keys!Type /\ Own(x, t) /\ (t = "Commit" => Keys!Has(x, "Hello2"))
        /\ (t = "Conf2Ack" => Keys!Has(x, "Confirm2")) BY <1>1, InOrder
  <2>5. s \in Keys!Session /\ \A z \in Keys!Message : z.of \in Keys!Session
    BY DEF Keys!Session, Keys!Message
  <2>6. m \in Keys!Message /\ m.type = t /\ m.of = s
    BY <1>1, <2>4, <2>5, Held DEF Keys!generate_, Keys!Message, Keys!Of
  <2>7. y \in SessionType /\ y.isInitiator = x.isInitiator /\ y.sas = x.sas
        /\ y.messages = Keys!Keep(x.messages, m) /\ y.result = "open"
    BY <1>1, <2>1, <2>6, Set
  <2>8. /\ n.x \in SessionType /\ n.x.isInitiator = x.isInitiator /\ n.x.sas = x.sas
        /\ n.x.messages = Keys!Keep(x.messages, m)
        /\ n.x.result = "yes" => t = "Conf2Ack"
        /\ sent /\ t # "Conf2Ack" => n.x.result = "open"
        /\ n.out \in {<<>>, <<m>>} BY <2>3, <2>6, <2>7, Resolved
  <2>9. t \in {"Confirm1", "Confirm2"} => x.sas = "yes"
    BY <1>1, <2>1, <2>4 DEF Own, SessionType
  <2> HIDE DEF n, t, m, y
  <2>10. /\ Shaped(p, s, n.x) /\ GoesOn(x, n.x)
         /\ \A u : Keys!Has(n.x, u) <=> Keys!Has(x, u) \/ u = t
         /\ n.x.messages[t] = m BY <2>1, <2>4, <2>6, <2>8, <2>9, OwnAdded DEF t
  <2>11. Followed(n.x)
    <3>1. CASE x.isInitiator
      <4>1. n.x.isInitiator BY <2>8, <3>1
      <4>2. Keys!Has(x, "Hello2") /\ ~Keys!Has(x, "Commit") => t = "Commit"
        BY <1>1, <3>1, InOrder DEF Follows, t
      <4>3. Keys!Has(x, "DHPart1") /\ ~Keys!Has(x, "DHPart2") => t = "DHPart2"
        BY <1>1, <3>1, InOrder DEF Follows, t
      <4>4. ~("Hello2" = t) /\ ~("DHPart1" = t) BY <2>4, <3>1 DEF Own
      <4> QED BY <2>10, <4>1, <4>2, <4>3, <4>4 DEF Followed
    <3>2. CASE ~x.isInitiator
      <4>1. ~n.x.isInitiator BY <2>8, <3>2
      <4>2. Keys!Has(x, "Commit") /\ ~Keys!Has(x, "DHPart1") => t = "DHPart1"
        BY <1>1, <3>2, InOrder DEF Follows, t
      <4>3. t # "Commit" BY <1>1, <2>4, <3>2 DEF Own, SessionType
      <4> QED BY <2>10, <4>1, <4>2, <4>3 DEF Followed
    <3> QED BY <3>1, <3>2
  <2>12. /\ n.out \in Seq(Keys!Message) /\ Len(n.out) <= 1
         /\ \A i \in 1..Len(n.out) : n.out[i] = m
    <3>1. CASE n.out = <<>> BY <3>1
    <3>2. CASE n.out = <<m>> BY <2>6, <3>2
    <3> QED BY <2>8, <3>1, <3>2
  <2> QED BY <2>4, <2>6, <2>8, <2>10, <2>11, <2>12 DEF n
<1> QED BY <1>2, <1>3
----------
(* A message of the peer that is accepted. *)
LEMMA PeersAdded ==
  ASSUME NEW p \in Peer, NEW s \in Sessions[p], NEW x, Shaped(p, s, x),
         NEW m \in Keys!Message, m.of \in Sessions[Keys!OtherPeer(p)], ~Keys!Has(x, m.type), ~Own(x, m.type),
         Keys!Needs(m.type) \subseteq DOMAIN x.messages, Keys!Agrees(s, x, m),
         m.type = "Conf2Ack" => x.isInitiator,
         NEW y \in SessionType, y.isInitiator = x.isInitiator,
         y.messages = Keys!Keep(x.messages, m),
         y.sas # "none" => x.sas # "none" \/ m.type \in {"DHPart1", "DHPart2"},
         x.sas = "yes" => y.sas = "yes", x.sas # "none" => y.sas # "none",
         y.result = "yes" => x.result = "yes" \/ m.type = "Conf2Ack"
  PROVE  /\ Shaped(p, s, y) /\ GoesOn(x, y)
         /\ \A t : Keys!Has(y, t) <=> Keys!Has(x, t) \/ t = m.type
         /\ y.messages[m.type] = m
<1>1. x \in SessionType /\ x.messages \in Messages BY DEF Shaped, SessionType
<1>2. /\ DOMAIN y.messages = DOMAIN x.messages \cup {m.type} /\ y.messages[m.type] = m
      /\ \A t \in DOMAIN x.messages : y.messages[t] = x.messages[t]
  <2> DEFINE f == x.messages
  <2>1. f \in Messages /\ m.type \notin DOMAIN f /\ y.messages = Keys!Keep(f, m)
    BY <1>1 DEF Keys!Has
  <2> HIDE DEF f
  <2>2. DOMAIN Keys!Keep(f, m) = DOMAIN f \cup {m.type} /\ Keys!Keep(f, m)[m.type] = m
        /\ \A t \in DOMAIN f : Keys!Keep(f, m)[t] = f[t] BY <2>1, MessageKept
  <2> QED BY <2>1, <2>2 DEF f
<1>3. \A t : Keys!Has(y, t) <=> Keys!Has(x, t) \/ t = m.type BY <1>2 DEF Keys!Has
<1>4. \A t : Keys!Has(x, t) => Keys!Of(y, t) = Keys!Of(x, t) /\ y.messages[t] = x.messages[t]
  BY <1>2 DEF Keys!Has, Keys!Of
<1>5. Keys!Of(y, m.type) = m.of BY <1>2 DEF Keys!Of
<1>6. From(p, s, y) BY <1>2 DEF Shaped, From, Own
<1>7. InitiatorRead(y)
  <2>1. CASE y.isInitiator
    <3>1. m.type = "DHPart1" => Keys!Has(x, "Hello2") BY DEF Keys!Needs, Keys!Has
    <3>2. m.type = "Confirm1" => Keys!Has(x, "DHPart1") /\ m.of = Keys!Of(x, "DHPart1")
      BY DEF Keys!Needs, Keys!Agrees, Keys!Has
    <3>3. m.type # "Confirm2" BY <2>1 DEF Own
    <3> QED BY <1>2, <1>3, <1>4, <1>5, <2>1, <3>1, <3>2, <3>3 DEF Shaped, InitiatorRead
  <2> QED BY <2>1 DEF InitiatorRead
<1>8. ResponderRead(y)
  <2>1. CASE ~y.isInitiator
    <3>1. m.type = "Commit" => Keys!Has(x, "Hello2") BY DEF Keys!Needs, Keys!Has
    <3>2. m.type = "DHPart2" => /\ Keys!Has(x, "Commit") /\ m.of = Keys!Of(x, "Commit")
                                /\ Keys!Has(x, "Hello2")
                                /\ x.messages["Commit"].ref = Keys!Of(x, "Hello2")
      BY DEF Keys!Needs, Keys!Agrees, Keys!Has
    <3>3. m.type = "Confirm2" => Keys!Has(x, "DHPart2") /\ m.of = Keys!Of(x, "DHPart2")
      BY DEF Keys!Needs, Keys!Agrees, Keys!Has
    <3>4. m.type # "Conf2Ack" BY <2>1
    <3> QED BY <1>2, <1>3, <1>4, <1>5, <2>1, <3>1, <3>2, <3>3, <3>4 DEF Shaped, ResponderRead
  <2> QED BY <2>1 DEF ResponderRead
<1>9. Asked(y)
  <2>1. y.isInitiator => m.type # "Confirm2" /\ m.type # "DHPart2" BY DEF Own
  <2>2. x.isInitiator \in BOOLEAN BY <1>1 DEF SessionType
  <2>3. ~y.isInitiator => m.type # "Confirm1" /\ m.type # "DHPart1" BY <2>2 DEF Own
  <2> QED BY <1>3, <2>1, <2>3 DEF Shaped, Asked
<1> QED BY <1>2, <1>3, <1>6, <1>7, <1>8, <1>9 DEF Shaped, GoesOn

(* A session whose messages stay as they are. *)
LEMMA SameMessages ==
  ASSUME NEW p \in Peer, NEW s \in Sessions[p], NEW x, Shaped(p, s, x),
         NEW y \in SessionType, y.isInitiator = x.isInitiator, y.messages = x.messages,
         y.sas # "none" => x.sas # "none" \/ Keys!Has(x, IF x.isInitiator THEN "DHPart1" ELSE "DHPart2"),
         x.sas = "yes" => y.sas = "yes", x.sas # "none" => y.sas # "none",
         y.result = "yes" => x.result = "yes" \/ x.isInitiator
  PROVE  /\ Shaped(p, s, y) /\ GoesOn(x, y) /\ \A t : Keys!Has(y, t) <=> Keys!Has(x, t)
         /\ Followed(x) => Followed(y)
<1>1. \A t : (Keys!Has(y, t) <=> Keys!Has(x, t)) /\ Keys!Of(y, t) = Keys!Of(x, t) /\ (Own(y, t) <=> Own(x, t))
  BY DEF Keys!Has, Keys!Of, Own
<1>2. From(p, s, y) BY DEF Shaped, From, Own
<1>3. InitiatorRead(y) /\ ResponderRead(y) /\ Asked(y)
  BY <1>1 DEF Shaped, InitiatorRead, ResponderRead, Asked
<1>4. Followed(x) => Followed(y) BY <1>1 DEF Followed
<1> QED BY <1>1, <1>2, <1>3, <1>4 DEF Shaped, GoesOn

LEMMA Accepted ==
  ASSUME NEW p \in Peer, NEW s \in Sessions[p], NEW x, Shaped(p, s, x), Followed(x),
         x.result = "open", NEW m \in Keys!Message, m.of \in Sessions[Keys!OtherPeer(p)],
         Keys!appropriateForRole_(m.type, x.isInitiator), Keys!Needs(m.type) \subseteq DOMAIN x.messages
  PROVE  LET y == Keys!Accept(s, x, m) IN
         /\ Shaped(p, s, y) /\ GoesOn(x, y)
         /\ \A t : Keys!Has(y, t) /\ ~Keys!Has(x, t) => t = m.type /\ y.messages[t] = m
         /\ y.result = "open" => Follows(y)
         /\ y.result # "open" \/ m.type = "Conf2Ack" => Followed(y)
         /\ y.sas = "yes" => x.sas = "yes"
<1> DEFINE y == Keys!Accept(s, x, m)
           z == Keys!set_(x, m)
<1>1. x \in SessionType BY DEF Shaped
<1>2. /\ ~Own(x, m.type) /\ (m.type = "Conf2Ack" => x.isInitiator)
      /\ (m.type = "DHPart1" => x.isInitiator) /\ (m.type = "DHPart2" => ~x.isInitiator)
      /\ m.type \in {"Hello2", "DHPart1", "Confirm1", "Conf2Ack"} <=> x.isInitiator
  <2>1. m.type \in Keys!Type /\ x.isInitiator \in BOOLEAN
    BY <1>1 DEF Keys!Message, SessionType
  <2>2. CASE x.isInitiator BY <2>1, <2>2 DEF Keys!appropriateForRole_, Own
  <2>3. CASE ~x.isInitiator
    <3>1. m.type \notin {"Hello2", "DHPart1", "Confirm1", "Conf2Ack"}
      BY <2>1, <2>3 DEF Keys!appropriateForRole_
    <3>2. m.type \in {"Hello1", "Commit", "DHPart2", "Confirm2"} BY <2>1, <3>1 DEF Keys!Type
    <3> QED BY <2>3, <3>1, <3>2 DEF Own
  <2> QED BY <2>1, <2>2, <2>3
<1>3. /\ z \in SessionType /\ z.isInitiator = x.isInitiator /\ z.sas = x.sas
      /\ Keys!Has(x, m.type) => z.messages = x.messages /\ z.result = "no"
      /\ ~Keys!Has(x, m.type) => z.messages = Keys!Keep(x.messages, m) /\ z.result = "open"
  BY <1>1, Set
<1>4. CASE ~Keys!Agrees(s, x, m)
  <2>1. y = Keys!resolve_(x, "no") BY <1>4 DEF Keys!Accept
  <2>2. y \in SessionType /\ y.isInitiator = x.isInitiator /\ y.messages = x.messages
        /\ y.sas = x.sas /\ y.result = "no" BY <1>1, <2>1, Resolved
  <2> HIDE DEF y
  <2>3. Shaped(p, s, y) /\ GoesOn(x, y) /\ Followed(y) /\ \A t : Keys!Has(y, t) <=> Keys!Has(x, t)
    BY <2>2, SameMessages
  <2> QED BY <2>2, <2>3 DEF y
<1>5. CASE Keys!Agrees(s, x, m)
  <2>1. /\ y \in SessionType /\ y.isInitiator = x.isInitiator /\ y.messages = z.messages
        /\ x.sas # "none" => y.sas = x.sas
        /\ y.sas = "yes" => x.sas = "yes"
        /\ y.sas # "none" => x.sas # "none" \/ m.type \in {"DHPart1", "DHPart2"}
        /\ y.result = IF m.type = "Conf2Ack" /\ z.result = "open" THEN "yes" ELSE z.result
    <3>1. CASE m.type \in {"DHPart1", "DHPart2"}
      <4>1. y = [z EXCEPT !.sas = IF @ = "none" THEN "due" ELSE @]
        BY <1>5, <3>1 DEF Keys!Accept
      <4> HIDE DEF y, z
      <4> QED BY <1>3, <3>1, <4>1 DEF SessionType
    <3>2. CASE m.type = "Conf2Ack"
      <4>1. y = Keys!resolve_(z, "yes") BY <1>5, <3>2 DEF Keys!Accept
      <4> HIDE DEF y, z
      <4> QED BY <1>3, <3>2, <4>1, Resolved
    <3>3. CASE m.type \notin {"DHPart1", "DHPart2", "Conf2Ack"}
      <4>1. y = z BY <1>5, <3>3 DEF Keys!Accept
      <4> HIDE DEF y, z
      <4> QED BY <1>3, <3>3, <4>1
    <3> QED BY <3>1, <3>2, <3>3
  <2> HIDE DEF y, z
  <2>2. CASE Keys!Has(x, m.type)
    <3>1. y.sas # "none" => x.sas # "none" \/ Keys!Has(x, IF x.isInitiator THEN "DHPart1" ELSE "DHPart2")
      BY <1>2, <2>1, <2>2
    <3>2. Shaped(p, s, y) /\ GoesOn(x, y) /\ Followed(y) /\ \A t : Keys!Has(y, t) <=> Keys!Has(x, t)
      BY <1>3, <2>1, <2>2, <3>1, SameMessages
    <3> QED BY <1>3, <2>1, <2>2, <3>2 DEF y
  <2>3. CASE ~Keys!Has(x, m.type)
    <3>1. /\ Shaped(p, s, y) /\ GoesOn(x, y)
          /\ \A t : Keys!Has(y, t) <=> Keys!Has(x, t) \/ t = m.type
          /\ y.messages[m.type] = m BY <1>2, <1>3, <1>5, <2>1, <2>3, PeersAdded
    <3>2. Follows(y)
      <4>1. CASE x.isInitiator
        <5>1. m.type = "Confirm1" => Keys!Has(x, "DHPart1") BY DEF Keys!Needs, Keys!Has
        <5>2. m.type = "DHPart1" => Keys!Has(x, "Hello2") BY DEF Keys!Needs, Keys!Has
        <5>3. InitiatorRead(x) BY DEF Shaped
        <5>4. Keys!Has(x, "Hello2") => Keys!Has(x, "Commit") BY <4>1 DEF Followed
        <5>5. Keys!Has(x, "DHPart1") => Keys!Has(x, "DHPart2") BY <4>1 DEF Followed
        <5>6. ~(m.type = "Commit") /\ ~(m.type = "DHPart2") BY <1>2, <4>1
        <5> QED
          BY <1>2, <2>1, <2>3, <3>1, <4>1, <5>1, <5>2, <5>3, <5>4, <5>5, <5>6
          DEF Follows, InitiatorRead
      <4>2. CASE ~x.isInitiator
        <5>1. m.type \in {"DHPart2", "Confirm2"} => Keys!Has(x, "Commit")
          BY <4>2 DEF Keys!Needs, Keys!Has, Shaped, ResponderRead
        <5>2. Keys!Has(x, "Commit") => Keys!Has(x, "DHPart1") BY <4>2 DEF Followed
        <5>3. ResponderRead(x) BY DEF Shaped
        <5> QED BY <2>1, <2>3, <3>1, <4>2, <5>1, <5>2, <5>3 DEF Follows, ResponderRead
      <4> QED BY <4>1, <4>2
    <3>3. m.type = "Conf2Ack" => Followed(y) BY <1>2, <2>1, <3>1 DEF Followed
    <3>4. y.result # "open" => m.type = "Conf2Ack" BY <1>3, <2>1, <2>3
    <3>5. y.sas = "yes" => x.sas = "yes" BY <2>1
    <3> QED BY <3>1, <3>2, <3>3, <3>4, <3>5 DEF y
  <2> QED BY <2>2, <2>3
<1> QED BY <1>4, <1>5
----------
(* One session goes on, and the others stay as they are. *)
LEMMA SASKept ==
  ASSUME NEW x, NEW y, InitiatorRead(x), ResponderRead(x), Asked(x), Followed(x), x.sas # "none",
         GoesOn(x, y)
  PROVE  Keys!SAS(y) = Keys!SAS(x)
<1>1. Keys!Has(x, "Hello2") /\ Keys!Has(x, "Commit") /\ Keys!Has(x, "DHPart1") /\ Keys!Has(x, "DHPart2")
  BY DEF InitiatorRead, ResponderRead, Asked, Followed
<1> QED BY <1>1 DEF GoesOn, Keys!Has, Keys!SAS, Keys!Of

LEMMA OneGoesOn ==
  ASSUME Two, NEW S, Sound(S), NEW p \in Peer, NEW s \in Sessions[p], NEW y,
         Shaped(p, s, y), Followed(y), GoesOn(S[s], y),
         \A t : Keys!Has(y, t) /\ ~Keys!Has(S[s], t) => y.messages[t].of = s \/ Genuine(S, y.messages[t]),
         y.sas = "yes" => \/ S[s].sas = "yes"
                          \/ \E u \in Sessions[Keys!OtherPeer(p)] :
                               S[u].sas # "none" /\ Keys!SAS(S[u]) = Keys!SAS(S[s]),
         S[s].sas = "none" => y.sas # "yes",
         NEW T, T = [S EXCEPT ![s] = y]
  PROVE  /\ Sound(T)
         /\ \A m \in Keys!Message : Genuine(S, m) => Genuine(T, m)
         /\ \A u \in Keys!Session : S[u].sas # "none" => T[u].sas # "none"
<1>1. \A q \in Peer : Sessions[q] \subseteq Keys!Session BY DEF Keys!Session
<1>2. /\ S \in [Keys!Session -> SessionType] /\ y \in SessionType /\ T \in [Keys!Session -> SessionType]
      /\ T[s] = y /\ \A u \in Keys!Session : u # s => T[u] = S[u] BY <1>1 DEF Sound, Shaped
<1>3. ASSUME NEW u \in Keys!Session PROVE GoesOn(S[u], T[u]) BY <1>2 DEF GoesOn
<1>4. ASSUME NEW m, m.of \in Keys!Session, Genuine(S, m) PROVE Genuine(T, m)
  BY <1>3, <1>4 DEF Genuine, GoesOn, Keys!Has
<1>5. \A q \in Peer : \A u \in Sessions[q] : Shaped(q, u, T[u]) /\ Followed(T[u])
  <2> SUFFICES ASSUME NEW q \in Peer, NEW u \in Sessions[q]
               PROVE  Shaped(q, u, T[u]) /\ Followed(T[u]) OBVIOUS
  <2>1. CASE u = s
    <3>1. q = p BY <2>1 DEF Two
    <3> QED BY <1>2, <2>1, <3>1
  <2>2. CASE u # s BY <1>1, <1>2, <2>2 DEF Sound
  <2> QED BY <2>1, <2>2
<1>6. AllGenuine(T)
  <2> SUFFICES ASSUME NEW u \in Keys!Session, NEW t, Keys!Has(T[u], t)
               PROVE  Genuine(T, T[u].messages[t]) BY DEF AllGenuine
  <2>1. T[u].messages[t] \in Keys!Message /\ T[u].messages[t].of \in Keys!Session
    BY <1>2, Held DEF Keys!Message
  <2>2. CASE Keys!Has(S[u], t)
    <3>1. T[u].messages[t] = S[u].messages[t] BY <1>3, <2>2 DEF GoesOn, Keys!Has
    <3>2. Genuine(S, S[u].messages[t]) BY <2>2 DEF Sound, AllGenuine
    <3> QED BY <1>4, <2>1, <3>1, <3>2
  <2>3. CASE ~Keys!Has(S[u], t)
    <3>1. u = s /\ Keys!Has(y, t) BY <1>2, <2>3
    <3>2. CASE y.messages[t].of = s
      <4>1. y.messages[t].type = t BY <3>1 DEF Shaped, From, Keys!Has
      <4> QED BY <1>2, <3>1, <3>2, <4>1 DEF Genuine, Keys!Has
    <3>3. CASE Genuine(S, y.messages[t]) BY <1>2, <1>4, <2>1, <3>1, <3>3
    <3> QED BY <2>3, <3>1, <3>2, <3>3
  <2> QED BY <2>2, <2>3
<1>7. ASSUME NEW q \in Peer, NEW u \in Sessions[q], S[u].sas # "none"
      PROVE  T[u].sas # "none" /\ Keys!SAS(T[u]) = Keys!SAS(S[u])
  <2>1. Shaped(q, u, S[u]) /\ Followed(S[u]) /\ u \in Keys!Session BY <1>1 DEF Sound
  <2> QED BY <1>3, <1>7, <2>1, SASKept DEF Shaped, GoesOn
<1>8. Approved(T)
  <2> SUFFICES ASSUME NEW q \in Peer, NEW u \in Sessions[q], T[u].sas = "yes"
               PROVE  \E v \in Sessions[Keys!OtherPeer(q)] : T[v].sas # "none" /\ Keys!SAS(T[v]) = Keys!SAS(T[u])
    BY DEF Approved
  <2>1. S[u].sas # "none" BY <1>1, <1>2
  <2>2. Keys!OtherPeer(q) \in Peer BY Peers
  <2>3. \E v \in Sessions[Keys!OtherPeer(q)] : S[v].sas # "none" /\ Keys!SAS(S[v]) = Keys!SAS(S[u])
    <3>1. CASE S[u].sas = "yes" BY <3>1 DEF Sound, Approved
    <3>2. CASE S[u].sas # "yes"
      <4>1. u = s BY <1>1, <1>2, <3>2
      <4>2. q = p BY <4>1 DEF Two
      <4> QED BY <1>2, <3>2, <4>1, <4>2
    <3> QED BY <3>1, <3>2
  <2> QED BY <1>7, <2>1, <2>2, <2>3
<1>9. \A u \in Keys!Session : S[u].sas # "none" => T[u].sas # "none" BY <1>3 DEF GoesOn
<1>10. \A m \in Keys!Message : m.of \in Keys!Session BY DEF Keys!Message
<1> QED BY <1>2, <1>4, <1>5, <1>6, <1>8, <1>9, <1>10 DEF Sound
----------
(* Messages that are taken and sent. *)
LEMMA Took ==
  ASSUME NEW S, Carried(S, net), NEW p \in Peer, net[p] # <<>>
  PROVE  /\ Head(net[p]) \in Keys!Message /\ Head(net[p]).of \in Sessions[Keys!OtherPeer(p)]
         /\ Genuine(S, Head(net[p])) /\ Carried(S, [net EXCEPT ![p] = Tail(@)])
<1>1. net \in [Peer -> Seq(Keys!Message)] BY DEF Carried
<1>2. /\ Head(net[p]) = net[p][1] /\ 1 \in 1..Len(net[p]) /\ Tail(net[p]) \in Seq(Keys!Message)
      /\ net[p][1] \in Keys!Message
      /\ \A i \in 1..Len(Tail(net[p])) :
           i + 1 \in 1..Len(net[p]) /\ Tail(net[p])[i] = net[p][i + 1] BY <1>1
<1>3. Carried(S, [net EXCEPT ![p] = Tail(@)]) BY <1>1, <1>2 DEF Carried
<1> QED BY <1>2, <1>3 DEF Carried

LEMMA Joined ==
  ASSUME NEW x \in Seq(Keys!Message), NEW y \in Seq(Keys!Message)
  PROVE  /\ x \o y \in Seq(Keys!Message)
         /\ \A i \in 1..Len(x \o y) :
              \/ i \in 1..Len(x) /\ (x \o y)[i] = x[i]
              \/ i - Len(x) \in 1..Len(y) /\ (x \o y)[i] = y[i - Len(x)]
<1>1. x \o y \in Seq(Keys!Message) /\ Len(x \o y) = Len(x) + Len(y)
      /\ Len(x) \in Nat /\ Len(y) \in Nat OBVIOUS
<1>2. ASSUME NEW i \in 1..Len(x \o y), i <= Len(x)
      PROVE  i \in 1..Len(x) /\ (x \o y)[i] = x[i] BY <1>1, <1>2
<1>3. ASSUME NEW i \in 1..Len(x \o y), ~(i <= Len(x))
      PROVE  i - Len(x) \in 1..Len(y) /\ (x \o y)[i] = y[i - Len(x)] BY <1>1, <1>3
<1> QED BY <1>1, <1>2, <1>3

LEMMA Sent ==
  ASSUME Two, NEW S, NEW T, NEW network, Carried(S, network), NEW p \in Peer,
         \A m \in Keys!Message : Genuine(S, m) => Genuine(T, m),
         NEW n, n.out \in Seq(Keys!Message),
         \A i \in 1..Len(n.out) : n.out[i].of \in Sessions[p] /\ Genuine(T, n.out[i])
  PROVE  Carried(T, Keys!Enqueue(network, p, n))
<1> DEFINE q == Keys!OtherPeer(p)
           sum == network[q] \o n.out
<1>1. q \in Peer /\ Keys!OtherPeer(q) = p BY Peers
<1>2. network \in [Peer -> Seq(Keys!Message)] /\ network[q] \in Seq(Keys!Message)
  BY <1>1 DEF Carried
<1>3. /\ sum \in Seq(Keys!Message)
      /\ \A i \in 1..Len(sum) :
           \/ i \in 1..Len(network[q]) /\ sum[i] = network[q][i]
           \/ i - Len(network[q]) \in 1..Len(n.out) /\ sum[i] = n.out[i - Len(network[q])]
  BY <1>2, Joined
<1>4. ASSUME NEW r \in Peer, NEW i \in 1..Len(network[r])
      PROVE  network[r][i].of \in Sessions[Keys!OtherPeer(r)] /\ Genuine(T, network[r][i])
  <2>1. network[r][i] \in Keys!Message BY <1>2
  <2> QED BY <2>1 DEF Carried
<1>5. Keys!Enqueue(network, p, n) = [network EXCEPT ![q] = sum] BY DEF Keys!Enqueue
<1> HIDE DEF sum, q
<1>6. \A i \in 1..Len(sum) : sum[i].of \in Sessions[p] /\ Genuine(T, sum[i])
  BY <1>1, <1>3, <1>4
<1> QED BY <1>1, <1>2, <1>3, <1>4, <1>5, <1>6 DEF Carried

(* What is current and shown, when a session goes on and perhaps ends. *)
LEMMA Ends ==
  ASSUME Two, Sound(session), Open(session, current), Shows(session, shown, resolver),
         NEW p \in Peer, NEW s \in Sessions[p], NEW n, Keys!Becomes(p, s, n),
         n.x \in SessionType, GoesOn(session[s], n.x), UNCHANGED resolver
  PROVE  Open(session', current') /\ Shows(session', shown', resolver')
<1>1. s \in Keys!Session /\ session \in [Keys!Session -> SessionType] /\ session' = [session EXCEPT ![s] = n.x]
  BY DEF Keys!Session, Sound, Keys!Becomes
<1>2. /\ session'[s] = n.x /\ \A u \in Keys!Session : u # s => session'[u] = session[u]
      /\ \A u \in Keys!Session : session[u].sas # "none" => session'[u].sas # "none"
  BY <1>1 DEF GoesOn
<1>3. CASE session[s].result = "open" /\ n.x.result # "open"
  <2>1. current' = [current EXCEPT ![p] = None] /\ shown' = [shown EXCEPT ![p] = None]
    BY <1>3 DEF Keys!Becomes
  <2>2. \A q \in Peer : q # p => s \notin Sessions[q] BY DEF Two
  <2>3. \A q \in Peer : Sessions[q] \subseteq Keys!Session BY DEF Keys!Session
  <2> QED BY <1>2, <2>1, <2>2, <2>3 DEF Open, Shows
<1>4. CASE ~(session[s].result = "open" /\ n.x.result # "open")
  <2>1. current' = current /\ shown' = shown BY <1>4 DEF Keys!Becomes
  <2>2. \A q \in Peer : Sessions[q] \subseteq Keys!Session BY DEF Keys!Session
  <2> QED BY <1>2, <1>4, <2>1, <2>2 DEF Open, Shows
<1> QED BY <1>3, <1>4

LEMMA KeysInit == Two /\ Keys!Init => KeysInv
<1> SUFFICES ASSUME Two, Keys!Init PROVE KeysInv OBVIOUS
<1>1. Keys!Unused \in SessionType /\ DOMAIN Keys!Unused.messages = {}
  BY NoMessages DEF Keys!Unused, SessionType
<1>2. Keys!Unused.sas = "none" /\ Keys!Unused.result = "unused" /\ \A t : ~Keys!Has(Keys!Unused, t)
  BY <1>1 DEF Keys!Unused, Keys!Has
<1>3. \A p \in Peer : \A s \in Sessions[p] : Shaped(p, s, Keys!Unused) /\ Followed(Keys!Unused)
  BY <1>1, <1>2 DEF Shaped, Followed, From, InitiatorRead, ResponderRead, Asked
<1>4. session = [s \in Keys!Session |-> Keys!Unused] /\ \A p \in Peer : Sessions[p] \subseteq Keys!Session
  BY DEF Keys!Init, Keys!Session
<1>5. Sound(session) BY <1>1, <1>2, <1>3, <1>4 DEF Sound, AllGenuine, Approved
<1>6. Carried(session, net)
  <2>1. <<>> \in Seq(Keys!Message) /\ 1..Len(<<>>) = {} OBVIOUS
  <2> QED BY <2>1 DEF Keys!Init, Carried
<1>7. Open(session, current) /\ Shows(session, shown, resolver)
  BY DEF Keys!Init, Open, Shows
<1> QED BY <1>5, <1>6, <1>7 DEF KeysInv
----------
(* A session is opened, by the user or by a Hello1. *)
LEMMA Opens ==
  ASSUME Two, KeysInv, NEW p \in Peer, NEW s \in Sessions[p], NEW network, Carried(session, network),
         NEW hello,
         \/ hello = <<>>
         \/ \E m \in Keys!Message : /\ m.type = "Hello1" /\ hello = Keys!Keep(<<>>, m)
                               /\ m.of \in Sessions[Keys!OtherPeer(p)] /\ Genuine(session, m),
         Keys!verifyUser(p, s, hello, network), UNCHANGED resolver
  PROVE  KeysInv'
<1> DEFINE x == [Keys!Unused EXCEPT !.result = "open", !.isInitiator = (hello = <<>>),
                               !.messages = hello]
<1>1. /\ hello \in Messages /\ \A t \in DOMAIN hello : t = "Hello1"
      /\ hello = <<>> => DOMAIN hello = {}
      /\ hello # <<>> => \A t \in DOMAIN hello :
           /\ hello[t].type = t /\ hello[t].of \in Sessions[Keys!OtherPeer(p)]
           /\ Genuine(session, hello[t])
  <2>1. CASE hello = <<>> BY <2>1, NoMessages
  <2>2. CASE hello # <<>>
    <3>1. PICK m \in Keys!Message : /\ m.type = "Hello1" /\ hello = Keys!Keep(<<>>, m)
                               /\ m.of \in Sessions[Keys!OtherPeer(p)] /\ Genuine(session, m)
      BY <2>2
    <3> DEFINE f == <<>>
    <3>2. f \in Messages /\ DOMAIN f = {} BY NoMessages
    <3> HIDE DEF f
    <3>3. Keys!Keep(f, m) \in Messages /\ DOMAIN Keys!Keep(f, m) = {m.type} /\ Keys!Keep(f, m)[m.type] = m
      <4>1. Keys!Keep(f, m) \in Messages /\ DOMAIN Keys!Keep(f, m) = DOMAIN f \cup {m.type}
        BY <3>2, MessageKept
      <4>2. m.type \notin DOMAIN f BY <3>2
      <4>3. Keys!Keep(f, m)[m.type] = m BY <3>2, <4>2, MessageKept
      <4> QED BY <3>2, <4>1, <4>3
    <3>4. hello = Keys!Keep(f, m) BY <3>1 DEF f
    <3> QED BY <2>2, <3>1, <3>3, <3>4
  <2> QED BY <2>1, <2>2
<1>2. /\ x \in SessionType /\ x.result = "open" /\ x.messages = hello /\ x.sas = "none"
      /\ x.isInitiator = (hello = <<>>) BY <1>1 DEF Keys!Unused, SessionType
<1> HIDE DEF x
<1>3. \A t : Keys!Has(x, t) => t = "Hello1" BY <1>1, <1>2 DEF Keys!Has
<1>4. Shaped(p, s, x) /\ Follows(x)
  <2>1. From(p, s, x)
    <3>1. CASE hello = <<>> BY <1>1, <1>2, <3>1 DEF From
    <3>2. CASE hello # <<>>
      <4>1. x.isInitiator = FALSE BY <1>2, <3>2
      <4> QED BY <1>1, <1>2, <3>2, <4>1 DEF From, Own
    <3> QED BY <3>1, <3>2
  <2>2. InitiatorRead(x) /\ ResponderRead(x) /\ Asked(x) /\ Follows(x)
    BY <1>2, <1>3 DEF InitiatorRead, ResponderRead, Asked, Follows
  <2> QED BY <1>2, <2>1, <2>2 DEF Shaped
<1>5. PICK sent \in BOOLEAN :
        LET n == Keys!sendNextMessage(s, x, sent) IN
        /\ session[s] = Keys!Unused /\ session' = [session EXCEPT ![s] = n.x]
        /\ net' = Keys!Enqueue(network, p, n)
        /\ current' = [current EXCEPT ![p] = IF sent THEN s ELSE None]
        /\ shown' = IF sent THEN shown ELSE [shown EXCEPT ![p] = None]
  BY DEF Keys!verifyUser, x
<1> DEFINE n == Keys!sendNextMessage(s, x, sent)
<1>6. /\ Shaped(p, s, n.x) /\ GoesOn(x, n.x) /\ Followed(n.x)
      /\ sent /\ ~Keys!Has(x, "Confirm2") => n.x.result = "open"
      /\ n.x.sas = x.sas /\ n.out \in Seq(Keys!Message)
      /\ \A t : Keys!Has(n.x, t) /\ ~Keys!Has(x, t) => n.x.messages[t].of = s
      /\ \A i \in 1..Len(n.out) :
           LET m == n.out[i] IN m.of = s /\ Keys!Has(n.x, m.type) /\ n.x.messages[m.type] = m
  BY <1>2, <1>4, SentNext
<1>7. session' = [session EXCEPT ![s] = n.x] /\ net' = Keys!Enqueue(network, p, n) BY <1>5
<1> HIDE DEF n
<1>8. session[s] = Keys!Unused /\ DOMAIN Keys!Unused.messages = {} /\ Keys!Unused.sas = "none"
  BY <1>5, NoMessages DEF Keys!Unused
<1>9. GoesOn(session[s], n.x) BY <1>8 DEF GoesOn
<1>10. \A t : Keys!Has(n.x, t) /\ ~Keys!Has(session[s], t) =>
         n.x.messages[t].of = s \/ Genuine(session, n.x.messages[t])
  <2> SUFFICES ASSUME NEW t, Keys!Has(n.x, t), Keys!Has(x, t)
               PROVE  Genuine(session, n.x.messages[t]) BY <1>6
  <2>1. n.x.messages[t] = hello[t] /\ t \in DOMAIN hello BY <1>2, <1>6 DEF GoesOn, Keys!Has
  <2> QED BY <1>1, <2>1
<1>11. n.x.sas # "yes" BY <1>2, <1>6
<1>12. Sound(session')
       /\ (\A m \in Keys!Message : Genuine(session, m) => Genuine(session', m))
       /\ \A u \in Keys!Session : session[u].sas # "none" => session'[u].sas # "none"
  <2> DEFINE S == session
             y == n.x
             T == session'
  <2>1. Sound(S) /\ Shaped(p, s, y) /\ Followed(y) /\ GoesOn(S[s], y) /\ y.sas # "yes"
    BY <1>6, <1>9, <1>11 DEF KeysInv
  <2>2. \A t : Keys!Has(y, t) /\ ~Keys!Has(S[s], t) => y.messages[t].of = s \/ Genuine(S, y.messages[t])
    BY <1>10
  <2>3. T = [S EXCEPT ![s] = y] BY <1>7
  <2> HIDE DEF S, T, y
  <2>4. /\ Sound(T) /\ \A m \in Keys!Message : Genuine(S, m) => Genuine(T, m)
        /\ \A u \in Keys!Session : S[u].sas # "none" => T[u].sas # "none"
    BY <2>1, <2>2, <2>3, OneGoesOn
  <2> QED BY <2>4 DEF S, T
<1>13. session'[s] = n.x /\ \A u \in Keys!Session : u # s => session'[u] = session[u]
  BY <1>7 DEF KeysInv, Sound, Keys!Session
<1>14. Carried(session', net')
  <2>1. \A i \in 1..Len(n.out) : n.out[i].of \in Sessions[p] /\ Genuine(session', n.out[i])
    BY <1>6, <1>13 DEF Genuine
  <2> QED BY <1>6, <1>7, <1>12, <2>1, Sent
<1>15. Open(session', current') /\ Shows(session', shown', resolver')
  <2>1. \A q \in Peer : Sessions[q] \subseteq Keys!Session /\ (q # p => s \notin Sessions[q])
    BY DEF Keys!Session, Two
  <2>2. sent => n.x.result = "open" BY <1>3, <1>6
  <2>3. Open(session', current') BY <1>5, <1>13, <2>1, <2>2 DEF KeysInv, Open
  <2>4. Shows(session', shown', resolver') BY <1>5, <1>12, <2>1 DEF KeysInv, Shows
  <2> QED BY <2>3, <2>4
<1> QED BY <1>12, <1>14, <1>15 DEF KeysInv

(* A session goes on: it takes a message, has its user's answer or ends. *)
LEMMA Goes ==
  ASSUME Two, KeysInv, NEW p \in Peer, NEW s \in Sessions[p], NEW n, Keys!Becomes(p, s, n),
         NEW network, Carried(session, network), net' = Keys!Enqueue(network, p, n),
         Shaped(p, s, n.x), Followed(n.x), GoesOn(session[s], n.x),
         \A t : Keys!Has(n.x, t) /\ ~Keys!Has(session[s], t) =>
           n.x.messages[t].of = s \/ Genuine(session, n.x.messages[t]),
         n.out \in Seq(Keys!Message),
         \A i \in 1..Len(n.out) :
           LET m == n.out[i] IN m.of = s /\ Keys!Has(n.x, m.type) /\ n.x.messages[m.type] = m,
         n.x.sas = "yes" => \/ session[s].sas = "yes"
                            \/ \E u \in Sessions[Keys!OtherPeer(p)] :
                                 session[u].sas # "none" /\ Keys!SAS(session[u]) = Keys!SAS(session[s]),
         session[s].sas = "none" => n.x.sas # "yes",
         UNCHANGED resolver
  PROVE  KeysInv'
<1>1. session' = [session EXCEPT ![s] = n.x] BY DEF Keys!Becomes
<1>2. Sound(session')
      /\ (\A m \in Keys!Message : Genuine(session, m) => Genuine(session', m))
  <2> DEFINE S == session
             y == n.x
             T == session'
  <2>1. Sound(S) /\ Shaped(p, s, y) /\ Followed(y) /\ GoesOn(S[s], y)
        /\ (S[s].sas = "none" => y.sas # "yes") BY DEF KeysInv
  <2>2. \A t : Keys!Has(y, t) /\ ~Keys!Has(S[s], t) => y.messages[t].of = s \/ Genuine(S, y.messages[t])
    OBVIOUS
  <2>3. T = [S EXCEPT ![s] = y] BY <1>1
  <2>4. y.sas = "yes" => \/ S[s].sas = "yes"
                         \/ \E u \in Sessions[Keys!OtherPeer(p)] :
                              S[u].sas # "none" /\ Keys!SAS(S[u]) = Keys!SAS(S[s]) OBVIOUS
  <2> HIDE DEF S, T, y
  <2>5. Sound(T) /\ \A m \in Keys!Message : Genuine(S, m) => Genuine(T, m)
    BY <2>1, <2>2, <2>3, <2>4, OneGoesOn
  <2> QED BY <2>5 DEF S, T
<1>3. session'[s] = n.x BY <1>1 DEF KeysInv, Sound, Keys!Session
<1>4. \A i \in 1..Len(n.out) : n.out[i].of \in Sessions[p] /\ Genuine(session', n.out[i])
  BY <1>3 DEF Genuine
<1>5. Carried(session', net') BY <1>2, <1>4, Sent
<1>6. Open(session', current') /\ Shows(session', shown', resolver')
  BY Ends DEF KeysInv, Shaped
<1> QED BY <1>2, <1>5, <1>6 DEF KeysInv

(* What follows when everything was followed up, or the session has ended. *)
LEMMA FollowedFollows ==
  ASSUME NEW x, Followed(x)
  PROVE  Follows(x) BY DEF Followed, Follows

LEMMA ReadKeeps ==
  ASSUME Two, KeysInv, NEW p \in Peer, Keys!Read(p)
  PROVE  KeysInv'
<1> DEFINE m == Head(net[p])
           rest == [net EXCEPT ![p] = Tail(@)]
           s == current[p]
<1>1. net[p] # <<>> /\ UNCHANGED resolver BY DEF Keys!Read
<1>2. /\ m \in Keys!Message /\ m.of \in Sessions[Keys!OtherPeer(p)]
      /\ Genuine(session, m) /\ Carried(session, rest) BY <1>1, Took DEF KeysInv
<1>3. CASE net' = rest /\ UNCHANGED <<session, current, verifyState, shown>>
  BY <1>1, <1>2, <1>3 DEF KeysInv
<1>4. ASSUME NEW r \in Sessions[p], m.type = "Hello1", Keys!verifyUser(p, r, Keys!Keep(<<>>, m), rest)
      PROVE  KeysInv'
  <2> DEFINE hello == Keys!Keep(<<>>, m)
  <2>1. \E z \in Keys!Message : /\ z.type = "Hello1" /\ hello = Keys!Keep(<<>>, z)
                           /\ z.of \in Sessions[Keys!OtherPeer(p)] /\ Genuine(session, z)
    BY <1>2, <1>4
  <2>2. Keys!verifyUser(p, r, hello, rest) BY <1>4
  <2> HIDE DEF hello, rest
  <2> QED BY <1>1, <1>2, <2>1, <2>2, Opens
<1>5. ASSUME s # None, Keys!appropriateForRole_(m.type, session[s].isInitiator),
             Keys!Needs(m.type) \subseteq DOMAIN session[s].messages, NEW sent \in BOOLEAN,
             LET y == Keys!Accept(s, session[s], m)
                 n == IF m.type = "Conf2Ack" THEN [x |-> y, out |-> <<>>]
                      ELSE Keys!sendNextMessage(s, y, sent) IN
             Keys!Sends(p, s, n) /\ net' = Keys!Enqueue(rest, p, n)
      PROVE  KeysInv'
  <2> DEFINE x == session[s]
             y == Keys!Accept(s, x, m)
             n == IF m.type = "Conf2Ack" THEN [x |-> y, out |-> <<>>]
                  ELSE Keys!sendNextMessage(s, y, sent)
  <2>1. s \in Sessions[p] /\ x.result = "open" /\ Shaped(p, s, x) /\ Followed(x)
    BY <1>5 DEF KeysInv, Open, Sound
  <2>2. Keys!appropriateForRole_(m.type, x.isInitiator) /\ Keys!Needs(m.type) \subseteq DOMAIN x.messages
    BY <1>5
  <2>3. Keys!Becomes(p, s, n) /\ net' = Keys!Enqueue(rest, p, n) BY <1>5 DEF Keys!Sends
  <2> HIDE DEF m, rest, s, x
  <2>4. /\ Shaped(p, s, y) /\ GoesOn(x, y)
        /\ \A t : Keys!Has(y, t) /\ ~Keys!Has(x, t) => t = m.type /\ y.messages[t] = m
        /\ y.result = "open" => Follows(y)
        /\ y.result # "open" \/ m.type = "Conf2Ack" => Followed(y)
        /\ y.sas = "yes" => x.sas = "yes" BY <1>2, <2>1, <2>2, Accepted
  <2>5. /\ Shaped(p, s, n.x) /\ Followed(n.x) /\ GoesOn(y, n.x) /\ n.x.sas = y.sas
        /\ n.out \in Seq(Keys!Message)
        /\ \A t : Keys!Has(n.x, t) /\ ~Keys!Has(y, t) => n.x.messages[t].of = s
        /\ \A i \in 1..Len(n.out) :
             LET z == n.out[i] IN z.of = s /\ Keys!Has(n.x, z.type) /\ n.x.messages[z.type] = z
    <3>0. GoesOn(y, y) /\ <<>> \in Seq(Keys!Message) /\ 1..Len(<<>>) = {} BY DEF GoesOn
    <3>1. CASE m.type = "Conf2Ack"
      <4>1. n = [x |-> y, out |-> <<>>] BY <3>1
      <4> HIDE DEF n, y
      <4> QED BY <2>4, <3>0, <3>1, <4>1
    <3>2. CASE m.type # "Conf2Ack" /\ y.result # "open"
      <4>1. n = [x |-> y, out |-> <<>>] BY <3>2 DEF Keys!sendNextMessage
      <4> HIDE DEF n, y
      <4> QED BY <2>4, <3>0, <3>2, <4>1
    <3>3. CASE m.type # "Conf2Ack" /\ y.result = "open"
      <4>1. n = Keys!sendNextMessage(s, y, sent) BY <3>3
      <4> HIDE DEF n, y
      <4> QED BY <2>1, <2>4, <3>3, <4>1, SentNext
    <3> QED BY <3>1, <3>2, <3>3
  <2> HIDE DEF n, y
  <2>6. GoesOn(x, n.x) BY <2>4, <2>5 DEF GoesOn
  <2>7. \A t : Keys!Has(n.x, t) /\ ~Keys!Has(x, t) =>
          n.x.messages[t].of = s \/ Genuine(session, n.x.messages[t])
    <3> SUFFICES ASSUME NEW t, Keys!Has(n.x, t), ~Keys!Has(x, t), Keys!Has(y, t)
                 PROVE  Genuine(session, n.x.messages[t]) BY <2>5
    <3>1. n.x.messages[t] = y.messages[t] BY <2>5 DEF GoesOn, Keys!Has
    <3> QED BY <1>2, <2>4, <3>1
  <2>8. n.x.sas = "yes" => x.sas = "yes" BY <2>4, <2>5
  <2> QED BY <1>1, <1>2, <2>1, <2>3, <2>5, <2>6, <2>7, <2>8, Goes DEF x
<1> QED BY <1>3, <1>4, <1>5 DEF Keys!Read

(* The answer of the user is for a session that was asked about. *)
LEMMA FinishKeeps ==
  ASSUME Two, KeysInv, NEW p \in Peer, Keys!Finish(p)
  PROVE  KeysInv'
<1> DEFINE q == Keys!OtherPeer(p)
           s == resolver[p]
<1>1. PICK yes \in BOOLEAN, sent \in BOOLEAN :
        LET x == [session[s] EXCEPT !.sas = IF yes THEN "yes" ELSE "no"]
            n == IF yes THEN Keys!sendNextMessage(s, x, sent)
                 ELSE [x |-> Keys!resolve_(x, "no"), out |-> <<>>] IN
        /\ yes => /\ shown[q] # None
                  /\ Keys!SAS(session[shown[p]]) = Keys!SAS(session[shown[q]])
        /\ session[s].sas = "shown"
        /\ Keys!Sends(p, s, n) /\ net' = Keys!Enqueue(net, p, n) BY DEF Keys!Finish
<1> DEFINE x == [session[s] EXCEPT !.sas = IF yes THEN "yes" ELSE "no"]
           n == IF yes THEN Keys!sendNextMessage(s, x, sent)
                ELSE [x |-> Keys!resolve_(x, "no"), out |-> <<>>]
<1>2. shown[p] # None /\ resolver[p] # None /\ UNCHANGED resolver BY DEF Keys!Finish
<1>3. /\ s \in Sessions[p] /\ shown[p] = s /\ session[s].sas = "shown"
      /\ Shaped(p, s, session[s]) /\ Followed(session[s])
  BY <1>1, <1>2 DEF KeysInv, Shows, Sound
<1>4. Keys!Becomes(p, s, n) /\ net' = Keys!Enqueue(net, p, n) BY <1>1 DEF Keys!Sends
<1>5. yes => \E u \in Sessions[q] : session[u].sas # "none" /\ Keys!SAS(session[u]) = Keys!SAS(session[s])
  <2>1. q \in Peer BY Peers
  <2>2. yes => shown[q] # None /\ Keys!SAS(session[s]) = Keys!SAS(session[shown[q]])
    BY <1>1, <1>3
  <2> QED BY <2>1, <2>2 DEF KeysInv, Shows
<1>6. /\ x \in SessionType /\ x.isInitiator = session[s].isInitiator
      /\ x.messages = session[s].messages /\ x.result = session[s].result
      /\ x.sas = IF yes THEN "yes" ELSE "no" BY <1>3 DEF Shaped, SessionType
<1> HIDE DEF x, q, s
<1>7. Shaped(p, s, x) /\ GoesOn(session[s], x) /\ Followed(x)
      /\ \A t : Keys!Has(x, t) <=> Keys!Has(session[s], t) BY <1>3, <1>6, SameMessages
<1>8. /\ Shaped(p, s, n.x) /\ Followed(n.x) /\ GoesOn(x, n.x) /\ n.x.sas = x.sas
      /\ n.out \in Seq(Keys!Message)
      /\ \A t : Keys!Has(n.x, t) /\ ~Keys!Has(x, t) => n.x.messages[t].of = s
      /\ \A i \in 1..Len(n.out) :
           LET m == n.out[i] IN m.of = s /\ Keys!Has(n.x, m.type) /\ n.x.messages[m.type] = m
  <2>0. GoesOn(x, x) /\ <<>> \in Seq(Keys!Message) /\ 1..Len(<<>>) = {} BY DEF GoesOn
  <2>1. CASE ~yes
    <3>1. n.x = Keys!resolve_(x, "no") /\ n.out = <<>> BY <2>1
    <3>2. /\ n.x \in SessionType /\ n.x.isInitiator = x.isInitiator
          /\ n.x.messages = x.messages /\ n.x.sas = x.sas
          /\ n.x.result = IF x.result = "open" THEN "no" ELSE x.result
      BY <1>6, <3>1, Resolved
    <3> HIDE DEF n
    <3>3. Shaped(p, s, n.x) /\ GoesOn(x, n.x) /\ Followed(n.x) /\ \A t : Keys!Has(n.x, t) <=> Keys!Has(x, t)
      BY <1>3, <1>7, <3>2, SameMessages
    <3> QED BY <2>0, <3>1, <3>2, <3>3
  <2>2. CASE yes /\ x.result # "open"
    <3>1. n = [x |-> x, out |-> <<>>] BY <2>2 DEF Keys!sendNextMessage
    <3> HIDE DEF n
    <3> QED BY <1>7, <2>0, <3>1
  <2>3. CASE yes /\ x.result = "open"
    <3>1. n = Keys!sendNextMessage(s, x, sent) BY <2>3
    <3> HIDE DEF n
    <3>2. Follows(x) BY <1>7, FollowedFollows
    <3> QED BY <1>3, <1>7, <2>3, <3>1, <3>2, SentNext
  <2> QED BY <2>1, <2>2, <2>3
<1> HIDE DEF n
<1>9. GoesOn(session[s], n.x) BY <1>7, <1>8 DEF GoesOn
<1>10. \A t : Keys!Has(n.x, t) /\ ~Keys!Has(session[s], t) => n.x.messages[t].of = s
  BY <1>7, <1>8
<1>11. n.x.sas = "yes" => yes BY <1>6, <1>8
<1>12. Carried(session, net) BY DEF KeysInv
<1> QED BY <1>2, <1>3, <1>4, <1>5, <1>8, <1>9, <1>10, <1>11, <1>12, Goes DEF q

(* The 120 s are over. *)
LEMMA TimeoutKeeps ==
  ASSUME Two, KeysInv, NEW p \in Peer, NEW s \in Sessions[p], Keys!Timeout(p, s)
  PROVE  KeysInv'
<1> DEFINE n == [x |-> Keys!resolve_(session[s], "no"), out |-> <<>>]
<1>1. Shaped(p, s, session[s]) /\ Followed(session[s]) /\ session[s].result = "open"
  BY DEF KeysInv, Sound, Keys!Timeout
<1>2. Keys!Becomes(p, s, n) /\ UNCHANGED <<resolver, net>> BY DEF Keys!Timeout
<1>3. /\ n.x \in SessionType /\ n.x.isInitiator = session[s].isInitiator
      /\ n.x.messages = session[s].messages /\ n.x.sas = session[s].sas /\ n.x.result = "no"
      /\ n.out = <<>> BY <1>1, Resolved DEF Shaped
<1> HIDE DEF n
<1>4. Shaped(p, s, n.x) /\ GoesOn(session[s], n.x) /\ Followed(n.x)
      /\ \A t : Keys!Has(n.x, t) <=> Keys!Has(session[s], t) BY <1>1, <1>3, SameMessages
<1>5. Carried(session, net) /\ net' = Keys!Enqueue(net, p, n)
      /\ n.out \in Seq(Keys!Message) /\ 1..Len(n.out) = {}
  <2>1. Keys!OtherPeer(p) \in Peer /\ net \in [Peer -> Seq(Keys!Message)]
    BY Peers DEF KeysInv, Carried
  <2>2. net[Keys!OtherPeer(p)] \o <<>> = net[Keys!OtherPeer(p)] BY <2>1
  <2> QED BY <1>2, <1>3, <2>1, <2>2 DEF KeysInv, Keys!Enqueue
<1>6. n.x.sas = "yes" => session[s].sas = "yes" BY <1>3
<1> QED BY <1>2, <1>4, <1>5, <1>6, Goes

(* The string is shown. *)
LEMMA ShowSASKeeps ==
  ASSUME Two, KeysInv, NEW p \in Peer, NEW s \in Sessions[p], Keys!ShowSAS(p, s)
  PROVE  KeysInv'
<1> DEFINE S == session
           T == session'
           y == [session[s] EXCEPT !.sas = "shown"]
<1>1. Shaped(p, s, S[s]) /\ Followed(S[s]) /\ S[s].sas = "due" /\ Sound(S) /\ s \in Keys!Session
  BY DEF KeysInv, Sound, Keys!ShowSAS, Keys!Session
<1>2. /\ y \in SessionType /\ y.isInitiator = S[s].isInitiator /\ y.messages = S[s].messages
      /\ y.sas = "shown" /\ y.result = S[s].result BY <1>1 DEF Shaped, SessionType
<1>3. T = [S EXCEPT ![s] = y] BY DEF Keys!ShowSAS
<1>4. /\ T[s] = y /\ \A u \in Keys!Session : u # s => T[u] = S[u]
      /\ \A u \in Keys!Session : T[u].result = S[u].result BY <1>1, <1>2, <1>3 DEF Sound
<1> HIDE DEF S, T, y
<1>5. Shaped(p, s, y) /\ GoesOn(S[s], y) /\ Followed(y) /\ \A t : Keys!Has(y, t) <=> Keys!Has(S[s], t)
  BY <1>1, <1>2, SameMessages
<1>6. /\ Sound(T) /\ \A m \in Keys!Message : Genuine(S, m) => Genuine(T, m)
      /\ \A u \in Keys!Session : S[u].sas # "none" => T[u].sas # "none"
  <2>1. y.sas # "yes" /\ \A t : Keys!Has(y, t) /\ ~Keys!Has(S[s], t) =>
                             y.messages[t].of = s \/ Genuine(S, y.messages[t]) BY <1>2, <1>5
  <2> QED BY <1>1, <1>3, <1>5, <2>1, OneGoesOn
<1>7. Carried(T, net')
  <2>1. net' = net /\ Carried(S, net) BY DEF Keys!ShowSAS, KeysInv, S
  <2>2. \A q \in Peer : \A i \in 1..Len(net[q]) : net[q][i] \in Keys!Message
    BY <2>1 DEF Carried
  <2> QED BY <1>6, <2>1, <2>2 DEF Carried
<1>8. \A q \in Peer : Sessions[q] \subseteq Keys!Session /\ (q # p => s \notin Sessions[q])
  BY DEF Keys!Session, Two
<1>9. Open(T, current') BY <1>4, <1>8 DEF Keys!ShowSAS, KeysInv, Open, S
<1>10. Shows(T, shown', resolver')
  <2>1. shown' = [shown EXCEPT ![p] = s] /\ resolver' = [resolver EXCEPT ![p] = s]
    BY DEF Keys!ShowSAS
  <2>2. Shows(S, shown, resolver) BY DEF KeysInv, S
  <2> QED BY <1>1, <1>2, <1>4, <1>6, <1>8, <2>1, <2>2 DEF Shows
<1> QED BY <1>6, <1>7, <1>9, <1>10 DEF KeysInv, T

LEMMA VerifyKeeps ==
  ASSUME Two, KeysInv, NEW p \in Peer, Keys!Verify(p)
  PROVE  KeysInv'
<1>1. Carried(session, net) /\ UNCHANGED resolver BY DEF KeysInv, Keys!Verify
<1>2. CASE UNCHANGED <<session, current, verifyState, shown, net>> BY <1>1, <1>2 DEF KeysInv
<1>3. ASSUME NEW s \in Sessions[p], Keys!verifyUser(p, s, <<>>, net)
      PROVE  KeysInv'
  <2> DEFINE hello == <<>>
  <2>1. hello = <<>> /\ Keys!verifyUser(p, s, hello, net) BY <1>3
  <2> HIDE DEF hello
  <2> QED BY <1>1, <2>1, Opens
<1> QED BY <1>2, <1>3 DEF Keys!Verify
----------
LEMMA KeysStep == Two /\ KeysInv /\ [Keys!Next]_(Keys!vars) => KeysInv'
<1> SUFFICES ASSUME Two, KeysInv, [Keys!Next]_(Keys!vars) PROVE KeysInv' OBVIOUS
<1>1. CASE UNCHANGED Keys!vars BY <1>1 DEF Keys!vars, KeysInv
<1>2. ASSUME NEW p \in Peer, Keys!Click(p) PROVE KeysInv' BY <1>2 DEF Keys!Click, KeysInv
<1>3. ASSUME NEW p \in Peer, Keys!Lose(p) PROVE KeysInv'
  <2>1. Carried(session, [net EXCEPT ![p] = Tail(@)]) BY <1>3, Took DEF Keys!Lose, KeysInv
  <2> QED BY <1>3, <2>1 DEF Keys!Lose, KeysInv
<1> QED
  BY <1>1, <1>2, <1>3, VerifyKeeps, ReadKeeps, FinishKeeps, ShowSASKeeps, TimeoutKeeps DEF Keys!Next


(* Whom a message is from, by the role of the session that has it. *)
LEMMA FromWhom ==
  ASSUME NEW p \in Peer, NEW s \in Sessions[p], NEW x, Shaped(p, s, x), NEW t, Keys!Has(x, t)
  PROVE  /\ x.messages[t].type = t
         /\ x.isInitiator /\ t \in {"Commit", "DHPart2"} => Keys!Of(x, t) = s
         /\ ~x.isInitiator /\ t \in {"Hello2", "DHPart1"} => Keys!Of(x, t) = s
         /\ ~x.isInitiator /\ t \in {"Commit", "DHPart2", "Confirm2"} =>
              Keys!Of(x, t) \in Sessions[Keys!OtherPeer(p)]
<1>1. x.isInitiator \in BOOLEAN BY DEF Shaped, SessionType
<1>2. /\ x.messages[t].type = t
      /\ Keys!Of(x, t) \in (IF Own(x, t) THEN {s} ELSE Sessions[Keys!OtherPeer(p)])
  BY DEF Shaped, From, Keys!Has, Keys!Of
<1>3. CASE x.isInitiator
  <2>1. t \in {"Commit", "DHPart2"} => Own(x, t) BY <1>3 DEF Own
  <2> QED BY <1>2, <1>3, <2>1
<1>4. CASE ~x.isInitiator
  <2>1. t \in {"Hello2", "DHPart1"} => Own(x, t)
    <3> SUFFICES ASSUME t \in {"Hello2", "DHPart1"} PROVE Own(x, t) OBVIOUS
    <3>1. (t \in {"Hello1", "Commit", "DHPart2", "Confirm2"}) = FALSE OBVIOUS
    <3> QED BY <1>1, <1>4, <3>1 DEF Own
  <2>2. t \in {"Commit", "DHPart2", "Confirm2"} => ~Own(x, t) BY <1>1, <1>4 DEF Own
  <2> QED BY <1>2, <1>4, <2>1, <2>2
<1> QED BY <1>3, <1>4

LEMMA ApprovalHolds == Two /\ KeysInv => Keys!BothApproved
<1> SUFFICES ASSUME Two, KeysInv, NEW p \in Peer, NEW s \in Sessions[p],
                    session[s].result = "yes", ~session[s].isInitiator
             PROVE  LET r == Keys!Of(session[s], "DHPart2") IN
                    /\ session[s].sas = "yes" /\ session[r].sas = "yes"
                    /\ Keys!SAS(session[s]) = Keys!SAS(session[r])
  BY DEF Keys!BothApproved, Keys!Session
<1> DEFINE S == session
           q == Keys!OtherPeer(p)
           r == Keys!Of(S[s], "DHPart2")
<1>1. /\ q \in Peer /\ Keys!OtherPeer(q) = p /\ Sessions[p] \cap Sessions[q] = {}
      /\ Sessions[p] \subseteq Keys!Session /\ Sessions[q] \subseteq Keys!Session
  BY Peers DEF Keys!Session
<1>2. /\ \A x \in Peer : \A u \in Sessions[x] : Shaped(x, u, S[u]) /\ Followed(S[u])
      /\ AllGenuine(S) /\ Approved(S) BY DEF KeysInv, Sound
<1>3. S[s].result = "yes" /\ ~S[s].isInitiator OBVIOUS
<1> HIDE DEF S, q
<1>4. /\ Keys!Has(S[s], "Confirm2") /\ Keys!Has(S[s], "DHPart2") /\ Keys!Has(S[s], "Commit")
      /\ Keys!Has(S[s], "Hello2") /\ Keys!Has(S[s], "DHPart1")
      /\ Keys!Of(S[s], "Confirm2") = r /\ Keys!Of(S[s], "Commit") = r
      /\ S[s].messages["Commit"].ref = Keys!Of(S[s], "Hello2")
  BY <1>2, <1>3 DEF Shaped, ResponderRead, Followed
<1>5. /\ r \in Sessions[q] /\ Keys!Of(S[s], "Hello2") = s /\ Keys!Of(S[s], "DHPart1") = s
      /\ \A t \in {"Confirm2", "DHPart2", "Commit"} : S[s].messages[t].type = t
  <2>1. /\ r \in Sessions[Keys!OtherPeer(p)] /\ Keys!Of(S[s], "Hello2") = s
        /\ Keys!Of(S[s], "DHPart1") = s BY <1>2, <1>3, <1>4, FromWhom DEF r
  <2>2. \A t \in {"Confirm2", "DHPart2", "Commit"} : S[s].messages[t].type = t
    BY <1>2, <1>4, FromWhom
  <2> QED BY <2>1, <2>2 DEF q
<1> HIDE DEF r
<1>6. \A t \in {"Confirm2", "DHPart2", "Commit"} :
        Keys!Has(S[r], t) /\ S[r].messages[t] = S[s].messages[t]
  <2>1. \A t \in {"Confirm2", "DHPart2", "Commit"} : Keys!Has(S[s], t) /\ S[s].messages[t].of = r
    BY <1>4 DEF Keys!Of, r
  <2> QED BY <1>1, <1>2, <1>5, <2>1 DEF AllGenuine, Genuine
<1>7. S[r].isInitiator
  <2>1. S[r].messages["Commit"].of = r /\ r \notin Sessions[Keys!OtherPeer(q)]
    BY <1>1, <1>4, <1>5, <1>6 DEF Keys!Of
  <2>2. ~S[r].isInitiator => Keys!Of(S[r], "Commit") \in Sessions[Keys!OtherPeer(q)]
    BY <1>1, <1>2, <1>5, <1>6, FromWhom
  <2> QED BY <2>1, <2>2 DEF Keys!Of
<1>8. /\ S[r].sas = "yes" /\ Keys!Has(S[r], "Confirm1") /\ Keys!Has(S[r], "DHPart1")
      /\ Keys!Has(S[r], "Hello2") /\ Keys!Of(S[r], "Confirm1") = Keys!Of(S[r], "DHPart1")
  <2>1. InitiatorRead(S[r]) /\ Asked(S[r]) /\ Keys!Has(S[r], "Confirm2")
    BY <1>1, <1>2, <1>5, <1>6 DEF Shaped
  <2> QED BY <1>7, <2>1 DEF InitiatorRead, Asked
<1>9. PICK u \in Sessions[p] : S[u].sas # "none" /\ Keys!SAS(S[u]) = Keys!SAS(S[r])
  BY <1>1, <1>2, <1>5, <1>8 DEF Approved
<1>10. /\ Keys!Has(S[u], "Hello2") /\ Keys!Has(S[u], "Commit")
       /\ Keys!Has(S[u], "DHPart1") /\ Keys!Has(S[u], "DHPart2")
  BY <1>2 , <1>9 DEF Shaped, Asked, InitiatorRead, ResponderRead, Followed
<1>11. /\ Keys!Of(S[u], "Hello2") = Keys!Of(S[r], "Hello2") /\ Keys!Of(S[u], "DHPart1") = Keys!Of(S[r], "DHPart1")
       /\ S[u].messages["Commit"] = S[s].messages["Commit"]
       /\ Keys!Of(S[u], "DHPart2") = Keys!Of(S[r], "DHPart2") BY <1>6, <1>9 DEF Keys!SAS
<1>12. ~S[u].isInitiator
  <2>1. S[u].messages["Commit"].of = r /\ r # u BY <1>1, <1>4, <1>5, <1>11 DEF Keys!Of
  <2>2. S[u].isInitiator => S[u].messages["Commit"].of = u
    BY <1>2, <1>10, FromWhom DEF Keys!Of
  <2> QED BY <2>1, <2>2
<1>13. u = s
  <2>1. Keys!Of(S[u], "Hello2") = u BY <1>2, <1>10, <1>12, FromWhom
  <2>2. S[u].messages["Commit"].ref = Keys!Of(S[u], "Hello2")
    BY <1>2, <1>10, <1>12 DEF Shaped, ResponderRead
  <2> QED BY <1>4, <1>5, <1>11, <2>1, <2>2
<1>14. Keys!Of(S[r], "Confirm1") = s /\ S[r].messages["Confirm1"].type = "Confirm1"
  <2>1. Keys!Of(S[r], "DHPart1") = s BY <1>5, <1>11, <1>13
  <2>2. S[r].messages["Confirm1"].type = "Confirm1" BY <1>1, <1>2, <1>5, <1>8, FromWhom
  <2> QED BY <1>8, <2>1, <2>2
<1>15. Keys!Has(S[s], "Confirm1")
  BY <1>1, <1>2, <1>5, <1>8, <1>14 DEF AllGenuine, Genuine, Keys!Of
<1>16. S[s].sas = "yes" BY <1>2, <1>3, <1>15 DEF Shaped, Asked
<1> QED BY <1>8, <1>9, <1>13, <1>16 DEF S, r


(* What the user is shown of it. *)
Marks ==
  /\ verifyState \in [Peer -> {"NONE", "BEGIN", "COMPLETE", "FAILED"}]
  /\ clicked \in [Peer -> BOOLEAN]

LEMMA MarksStep == Marks /\ [Keys!Next]_(Keys!vars) => Marks'
<1> SUFFICES ASSUME Marks, [Keys!Next]_(Keys!vars) PROVE Marks' OBVIOUS
<1> DEFINE States == {"NONE", "BEGIN", "COMPLETE", "FAILED"}
<1>0. verifyState \in [Peer -> States] /\ clicked \in [Peer -> BOOLEAN] BY DEF Marks
<1>1. ASSUME NEW p \in Peer, NEW s, NEW n, Keys!Becomes(p, s, n)
      PROVE  verifyState' \in [Peer -> States] BY <1>1, <1>0 DEF Keys!Becomes
<1>2. ASSUME NEW p \in Peer, NEW s, NEW hello, NEW network, Keys!verifyUser(p, s, hello, network)
      PROVE  verifyState' \in [Peer -> States] BY <1>2, <1>0 DEF Keys!verifyUser
<1>3. ASSUME NEW p \in Peer, Keys!Click(p) \/ Keys!Verify(p) PROVE Marks'
  <2>1. clicked' \in [Peer -> BOOLEAN] BY <1>3, <1>0 DEF Keys!Click, Keys!Verify
  <2>2. verifyState' \in [Peer -> States] BY <1>2, <1>3, <1>0 DEF Keys!Click, Keys!Verify
  <2> QED BY <2>1, <2>2 DEF Marks
<1>4. ASSUME NEW p \in Peer, Keys!Read(p) PROVE Marks'
  <2>1. \/ verifyState' = verifyState
        \/ \E s, hello, network : Keys!verifyUser(p, s, hello, network)
        \/ \E s, n : Keys!Becomes(p, s, n) BY <1>4 DEF Keys!Read, Keys!Sends
  <2>2. clicked' = clicked BY <1>4 DEF Keys!Read
  <2> QED BY <2>1, <2>2, <1>0, <1>1, <1>2 DEF Marks
<1>5. ASSUME NEW p \in Peer, Keys!Finish(p) PROVE Marks'
  <2>1. (\E s, n : Keys!Becomes(p, s, n)) /\ clicked' = clicked
    BY <1>5 DEF Keys!Finish, Keys!Sends
  <2> QED BY <2>1, <1>0, <1>1 DEF Marks
<1>6. ASSUME NEW p \in Peer, NEW s, Keys!Timeout(p, s) PROVE Marks'
  <2>1. (\E n : Keys!Becomes(p, s, n)) /\ clicked' = clicked BY <1>6 DEF Keys!Timeout
  <2> QED BY <2>1, <1>0, <1>1 DEF Marks
<1>7. ASSUME NEW p \in Peer, NEW s, Keys!ShowSAS(p, s) \/ Keys!Lose(p) PROVE Marks'
  BY <1>7, <1>0 DEF Keys!ShowSAS, Keys!Lose, Marks
<1>8. CASE UNCHANGED Keys!vars BY <1>8, <1>0 DEF Keys!vars, Marks
<1> QED BY <1>3, <1>4, <1>5, <1>6, <1>7, <1>8 DEF Keys!Next

LEMMA KeysTyped == Two /\ KeysInv /\ Marks => Keys!TypeOK
<1> SUFFICES ASSUME Two, KeysInv, Marks PROVE Keys!TypeOK OBVIOUS
<1>1. session \in [Keys!Session -> SessionType] /\ net \in [Peer -> Seq(Keys!Message)]
  BY DEF KeysInv, Sound, Carried
<1>2. /\ current \in [Peer -> Keys!Session \cup {None}]
      /\ shown \in [Peer -> Keys!Session \cup {None}]
      /\ resolver \in [Peer -> Keys!Session \cup {None}] BY DEF KeysInv, Open, Shows
<1>3. ASSUME NEW s \in Keys!Session
      PROVE  /\ session[s].isInitiator \in BOOLEAN
             /\ DOMAIN session[s].messages \in SUBSET Keys!Type
             /\ \A t \in DOMAIN session[s].messages : session[s].messages[t] \in Keys!Message
             /\ session[s].sas \in {"none", "due", "shown", "yes", "no"}
             /\ session[s].result \in {"unused", "open", "yes", "no"}
  <2>1. session[s] \in SessionType BY <1>1
  <2>2. PICK D \in SUBSET Keys!Type : session[s].messages \in [D -> Keys!Message]
    BY <2>1 DEF SessionType, Messages
  <2> QED BY <2>1, <2>2 DEF SessionType
<1> QED BY <1>1, <1>2, <1>3 DEF Marks, Keys!TypeOK

(* A responder that ends with "verified" had its own user's approval and that *)
(* of the user of the session it talked to, and of the same string *)
(* (key-verify.ts:563, 578). *)
THEOREM Approval == MCSpec => []BothApproved
<1>1. MCInit => KeysInv /\ Marks
  <2>1. Keys!Init => Marks BY DEF Keys!Init, Marks
  <2> QED BY <2>1, KeysInit, KeysAssumption DEF MCInit
<1>2. KeysInv /\ Marks /\ [MCNext]_allVars => (KeysInv /\ Marks)'
  <2>1. [MCNext]_allVars => [Keys!Next]_(Keys!vars)
    BY DEF MCNext, CodecNext, allVars, keys, Keys!vars
  <2> QED BY <2>1, KeysStep, MarksStep, KeysAssumption
<1>3. KeysInv /\ Marks => BothApproved
  BY ApprovalHolds, KeysTyped, KeysAssumption DEF BothApproved
<1> QED BY <1>1, <1>2, <1>3, PTL DEF MCSpec

----------
(* The codecs.  Loops and recursive functions first, which are what their *)
(* fixpoints are.  A set of numbers has a least one. *)
LEMMA Least ==
  ASSUME NEW T, T \subseteq Nat, T # {}
  PROVE  \E n \in T : \A m \in T : n <= m
<1>1. PICK top \in T : TRUE OBVIOUS
<1> DEFINE S == 0..top
           F == {0..n : n \in T \cap S}
<1>2. IsWellFoundedOn(StrictSubsetOrdering(S), FiniteSubsetsOf(S))
  BY FS_StrictSubsetOrderingWellFounded
<1>3. F \subseteq FiniteSubsetsOf(S) /\ F # {}
  <2>1. \A n \in T \cap S : 0..n \subseteq S /\ IsFiniteSet(0..n) BY <1>1, FS_Interval
  <2>2. top \in T \cap S BY <1>1
  <2> QED BY <2>1, <2>2 DEF FiniteSubsetsOf
<1>4. PICK x \in F : \A y \in F : <<y, x>> \notin StrictSubsetOrdering(S)
  <2> HIDE DEF F, S
  <2> QED BY <1>2, <1>3, WFMin
<1>5. PICK n \in T \cap S : x = 0..n OBVIOUS
<1>6. ASSUME NEW m \in T, m < n PROVE FALSE
  <2>1. m \in S /\ 0..m \subseteq 0..n /\ 0..m # 0..n /\ 0..n \subseteq S BY <1>5, <1>6
  <2>2. <<0..m, 0..n>> \in StrictSubsetOrdering(S) BY <2>1 DEF StrictSubsetOrdering
  <2> QED BY <1>4, <1>5, <2>1, <2>2
<1> QED BY <1>5, <1>6

(* Induction, over the sets of what a claim holds for. *)
LEMMA Induction ==
  ASSUME NEW T, 0 \in T, \A n \in Nat : n \in T => n + 1 \in T
  PROVE  Nat \subseteq T
<1> DEFINE Bad == {n \in Nat : n \notin T}
<1> SUFFICES ASSUME Bad # {} PROVE FALSE OBVIOUS
<1>1. PICK m \in Bad : \A n \in Bad : m <= n BY Least
<1>2. m \in Nat /\ m # 0 OBVIOUS
<1>3. m - 1 \in Nat /\ m - 1 \notin Bad BY <1>1, <1>2
<1> QED BY <1>2, <1>3

LEMMA SequenceInduction ==
  ASSUME NEW Y, NEW T, <<>> \in T, \A s \in Seq(Y), y \in Y : s \in T => Append(s, y) \in T
  PROVE  Seq(Y) \subseteq T
<1> DEFINE Done == {n \in Nat : \A s \in Seq(Y) : Len(s) = n => s \in T}
<1>1. 0 \in Done
  <2>1. \A s \in Seq(Y) : Len(s) = 0 => s = <<>> OBVIOUS
  <2> QED BY <2>1
<1>2. ASSUME NEW n \in Nat, n \in Done PROVE n + 1 \in Done
  <2> SUFFICES ASSUME NEW s \in Seq(Y), Len(s) = n + 1 PROVE s \in T BY <1>2
  <2> DEFINE r == SubSeq(s, 1, n)
  <2>1. r \in Seq(Y) /\ Len(r) = n /\ s[n + 1] \in Y OBVIOUS
  <2>2. s = Append(r, s[n + 1]) BY <2>1
  <2>3. r \in T BY <1>2, <2>1
  <2> QED BY <2>1, <2>2, <2>3
<1>3. Nat \subseteq Done
  <2> HIDE DEF Done
  <2> QED BY <1>1, <1>2, Induction
<1> QED BY <1>3

(* What a function h makes of x, over the members of s one after the other: *)
(* the loops of the codecs. *)
Runs(h, x, s) ==
  LET run[k \in 0..Len(s)] == IF k = 0 THEN x ELSE h[<<run[k - 1], s[k]>>]
  IN  run[Len(s)]

Maps(h, X, Y) == h \in [X \X Y -> X]
IsRun(r, h, x, s, X) ==
  /\ r \in [0..Len(s) -> X] /\ r[0] = x
  /\ \A k \in 1..Len(s) : r[k] = h[<<r[k - 1], s[k]>>]
Tracks(f, h, x, s, X) ==
  f[0] = x /\ \A k \in 1..Len(s) : f[k - 1] \in X => f[k] = h[<<f[k - 1], s[k]>>]

LEMMA RunExists ==
  ASSUME NEW X, NEW Y, NEW h, Maps(h, X, Y), NEW x \in X, NEW s \in Seq(Y)
  PROVE  \E r : IsRun(r, h, x, s, X)
<1> USE DEF Maps, IsRun
<1> DEFINE Run(n, r) == r[0] = x /\ \A k \in 1..n : r[k] = h[<<r[k - 1], s[k]>>]
           T == {n \in Nat : n <= Len(s) => \E r \in [0..n -> X] : Run(n, r)}
<1>1. 0 \in T
  <2>1. [k \in 0..0 |-> x] \in [0..0 -> X] /\ Run(0, [k \in 0..0 |-> x]) OBVIOUS
  <2> QED BY <2>1
<1>2. ASSUME NEW n \in Nat, n \in T PROVE n + 1 \in T
  <2> SUFFICES ASSUME n + 1 <= Len(s) PROVE \E r \in [0..n + 1 -> X] : Run(n + 1, r) OBVIOUS
  <2>1. PICK r \in [0..n -> X] : Run(n, r) BY <1>2
  <2> DEFINE q == [k \in 0..n + 1 |-> IF k <= n THEN r[k] ELSE h[<<r[n], s[n + 1]>>]]
  <2>2. s[n + 1] \in Y /\ r[n] \in X BY <2>1
  <2>3. h[<<r[n], s[n + 1]>>] \in X BY <2>2
  <2>4. q \in [0..n + 1 -> X] BY <2>1, <2>3
  <2>5. q[0] = x BY <2>1
  <2>6. ASSUME NEW k \in 1..n + 1 PROVE q[k] = h[<<q[k - 1], s[k]>>]
    <3>1. CASE k <= n
      <4>1. k - 1 \in 0..n /\ k \in 1..n BY <3>1
      <4>2. q[k] = r[k] /\ q[k - 1] = r[k - 1] BY <4>1
      <4> QED BY <4>1, <4>2, <2>1
    <3>2. CASE k = n + 1
      <4>1. q[n + 1] = h[<<r[n], s[n + 1]>>] /\ q[n] = r[n] OBVIOUS
      <4>2. k - 1 = n BY <3>2
      <4> QED BY <3>2, <4>1, <4>2
    <3> QED BY <3>1, <3>2
  <2> QED BY <2>4, <2>5, <2>6
<1>3. Nat \subseteq T
  <2> HIDE DEF T
  <2> QED BY <1>1, <1>2, Induction
<1>4. Len(s) \in T BY <1>3
<1> QED BY <1>4

(* A function that goes on like it is the same. *)
LEMMA SameRuns ==
  ASSUME NEW X, NEW Y, NEW h, Maps(h, X, Y), NEW x \in X, NEW s \in Seq(Y),
         NEW r, IsRun(r, h, x, s, X), NEW f, Tracks(f, h, x, s, X)
  PROVE  f[Len(s)] = r[Len(s)]
<1> USE DEF Maps, IsRun, Tracks
<1> DEFINE T == {n \in Nat : n <= Len(s) => f[n] = r[n]}
<1>1. 0 \in T OBVIOUS
<1>2. ASSUME NEW n \in Nat, n \in T PROVE n + 1 \in T
  <2> SUFFICES ASSUME n + 1 <= Len(s) PROVE f[n + 1] = r[n + 1] OBVIOUS
  <2>1. f[n] = r[n] /\ r[n] \in X BY <1>2
  <2>2. n + 1 \in 1..Len(s) /\ (n + 1) - 1 = n OBVIOUS
  <2> QED BY <2>1, <2>2
<1>3. Nat \subseteq T
  <2> HIDE DEF T
  <2> QED BY <1>1, <1>2, Induction
<1> QED BY <1>3

LEMMA RunsAre ==
  ASSUME NEW X, NEW Y, NEW h, Maps(h, X, Y), NEW x \in X, NEW s \in Seq(Y),
         NEW r, IsRun(r, h, x, s, X)
  PROVE  Runs(h, x, s) = r[Len(s)]
<1> DEFINE Is(f) == f = [k \in 0..Len(s) |-> IF k = 0 THEN x ELSE h[<<f[k - 1], s[k]>>]]
           run == CHOOSE f : Is(f)
<1>1. Is(r) BY DEF IsRun
<1>2. Is(run) BY <1>1
<1>3. Tracks(run, h, x, s, X)
  <2> HIDE DEF run
  <2>1. run[0] = x BY <1>2
  <2>2. ASSUME NEW k \in 1..Len(s) PROVE run[k] = h[<<run[k - 1], s[k]>>]
    <3>1. k \in 0..Len(s) /\ k # 0 OBVIOUS
    <3> QED BY <1>2, <3>1
  <2> QED BY <2>1, <2>2 DEF Tracks
<1>4. run[Len(s)] = r[Len(s)]
  <2> HIDE DEF run
  <2> QED BY <1>3, SameRuns
<1> QED BY <1>4 DEF Runs

(* Any function that goes on like it comes to the same. *)
LEMMA RunsTo ==
  ASSUME NEW X, NEW Y, NEW h, Maps(h, X, Y), NEW x \in X, NEW s \in Seq(Y),
         NEW f, Tracks(f, h, x, s, X)
  PROVE  f[Len(s)] = Runs(h, x, s)
<1>1. PICK r : IsRun(r, h, x, s, X) BY RunExists
<1>2. f[Len(s)] = r[Len(s)] BY <1>1, SameRuns
<1> QED BY <1>1, <1>2, RunsAre

LEMMA RunsStep ==
  ASSUME NEW X, NEW Y, NEW h, Maps(h, X, Y), NEW x \in X
  PROVE  /\ Runs(h, x, <<>>) = x
         /\ \A s \in Seq(Y) : Runs(h, x, s) \in X
         /\ \A s \in Seq(Y), y \in Y : Runs(h, x, Append(s, y)) = h[<<Runs(h, x, s), y>>]
<1>1. Runs(h, x, <<>>) = x
  <2> DEFINE e == <<>>
  <2>0. e \in Seq(Y) OBVIOUS
  <2>1. Len(e) = 0 OBVIOUS
  <2> HIDE DEF e
  <2>2. PICK r : IsRun(r, h, x, e, X) BY <2>0, RunExists
  <2>3. Runs(h, x, e) = r[Len(e)] BY <2>0, <2>2, RunsAre
  <2>4. Runs(h, x, e) = x BY <2>1, <2>2, <2>3 DEF IsRun
  <2> QED BY <2>4 DEF e
<1>2. ASSUME NEW s \in Seq(Y) PROVE Runs(h, x, s) \in X
  <2>1. PICK r : IsRun(r, h, x, s, X) BY RunExists
  <2>2. Runs(h, x, s) = r[Len(s)] BY <2>1, RunsAre
  <2> QED BY <2>1, <2>2 DEF IsRun
<1>3. ASSUME NEW s \in Seq(Y), NEW y \in Y
      PROVE  Runs(h, x, Append(s, y)) = h[<<Runs(h, x, s), y>>]
  <2> DEFINE t == Append(s, y)
  <2>1. t \in Seq(Y) /\ Len(t) = Len(s) + 1 /\ t[Len(s) + 1] = y
        /\ \A k \in 1..Len(s) : t[k] = s[k] OBVIOUS
  <2> HIDE DEF t
  <2>2. PICK r : IsRun(r, h, x, t, X) BY <2>1, RunExists
  <2>3. Runs(h, x, t) = r[Len(t)] BY <2>1, <2>2, RunsAre
  <2>4. r[Len(s)] = Runs(h, x, s)
    <3>1. Tracks(r, h, x, s, X) BY <2>1, <2>2 DEF Tracks, IsRun
    <3> QED BY <3>1, RunsTo
  <2>5. r[Len(t)] = h[<<r[Len(s)], y>>]
    <3>1. Len(t) \in 1..Len(t) /\ Len(t) - 1 = Len(s) /\ t[Len(t)] = y BY <2>1
    <3> QED BY <2>2, <3>1 DEF IsRun
  <2> QED BY <2>3, <2>4, <2>5 DEF t
<1> QED BY <1>1, <1>2, <1>3

(* A loop, which takes a step until it is in P, is defined for any function *)
(* step, also where it does not end. *)
EndsOf(s, S, P, step) ==
  {t \in S \cap P : \E n \in Nat : \E r \in [0..n -> S] :
     r[0] = s /\ r[n] = t /\ \A k \in 1..n : r[k - 1] \notin P /\ r[k] = step[r[k - 1]]}
AnyOf(E) == CHOOSE t \in E : TRUE

LEMMA LoopExists ==
  ASSUME NEW S, NEW P, NEW step \in [S -> S]
  PROVE  LET f == [s \in S |-> AnyOf(EndsOf(s, S, P, step))]
         IN  \A s \in S : f[s] = IF s \in P THEN s ELSE f[step[s]]
<1> DEFINE f == [s \in S |-> AnyOf(EndsOf(s, S, P, step))]
<1>1. ASSUME NEW s \in S, s \in P PROVE f[s] = s
  <2>1. s \in EndsOf(s, S, P, step)
    <3> DEFINE r == [k \in 0..0 |-> s]
    <3>1. /\ r \in [0..0 -> S] /\ r[0] = s
          /\ \A k \in 1..0 : r[k - 1] \notin P /\ r[k] = step[r[k - 1]] OBVIOUS
    <3> HIDE DEF r
    <3> QED BY <1>1, <3>1 DEF EndsOf
  <2>2. ASSUME NEW t \in EndsOf(s, S, P, step) PROVE t = s
    <3>0. PICK n \in Nat : \E r \in [0..n -> S] :
            r[0] = s /\ r[n] = t /\ \A k \in 1..n : r[k - 1] \notin P /\ r[k] = step[r[k - 1]]
      BY DEF EndsOf
    <3>1. PICK r \in [0..n -> S] :
            r[0] = s /\ r[n] = t /\ \A k \in 1..n : r[k - 1] \notin P /\ r[k] = step[r[k - 1]]
      BY <3>0
    <3>2. n = 0
      <4>1. 1 \notin 1..n BY <1>1, <3>1
      <4> QED BY <4>1
    <3> QED BY <3>1, <3>2
  <2>3. EndsOf(s, S, P, step) = {s} BY <2>1, <2>2
  <2> QED BY <2>3 DEF AnyOf
<1>2. ASSUME NEW s \in S, s \notin P PROVE f[s] = f[step[s]]
  <2>1. ASSUME NEW t \in EndsOf(s, S, P, step) PROVE t \in EndsOf(step[s], S, P, step)
    <3>0. PICK n \in Nat : \E r \in [0..n -> S] :
            r[0] = s /\ r[n] = t /\ \A k \in 1..n : r[k - 1] \notin P /\ r[k] = step[r[k - 1]]
      BY DEF EndsOf
    <3>1. PICK r \in [0..n -> S] :
            r[0] = s /\ r[n] = t /\ \A k \in 1..n : r[k - 1] \notin P /\ r[k] = step[r[k - 1]]
      BY <3>0
    <3>2. t \in S \cap P BY DEF EndsOf
    <3>3. n # 0 BY <1>2, <3>1, <3>2
    <3> DEFINE q == [k \in 0..n - 1 |-> r[k + 1]]
    <3>4. q \in [0..n - 1 -> S] /\ n - 1 \in Nat BY <3>1, <3>3
    <3>5. q[0] = step[s] /\ q[n - 1] = t
      <4>1. q[0] = r[1] /\ q[n - 1] = r[n] /\ 1 \in 1..n BY <3>3
      <4> QED BY <3>1, <4>1
    <3>6. ASSUME NEW k \in 1..n - 1 PROVE q[k - 1] \notin P /\ q[k] = step[q[k - 1]]
      <4>1. q[k] = r[k + 1] /\ q[k - 1] = r[k] /\ k + 1 \in 1..n /\ (k + 1) - 1 = k BY <3>3
      <4> QED BY <3>1, <4>1
    <3> HIDE DEF q
    <3> QED BY <3>2, <3>4, <3>5, <3>6 DEF EndsOf
  <2>2. ASSUME NEW t \in EndsOf(step[s], S, P, step) PROVE t \in EndsOf(s, S, P, step)
    <3>0. PICK n \in Nat : \E r \in [0..n -> S] :
            /\ r[0] = step[s] /\ r[n] = t
            /\ \A k \in 1..n : r[k - 1] \notin P /\ r[k] = step[r[k - 1]] BY DEF EndsOf
    <3>1. PICK r \in [0..n -> S] :
            /\ r[0] = step[s] /\ r[n] = t
            /\ \A k \in 1..n : r[k - 1] \notin P /\ r[k] = step[r[k - 1]] BY <3>0
    <3>2. t \in S \cap P BY DEF EndsOf
    <3> DEFINE q == [k \in 0..n + 1 |-> IF k = 0 THEN s ELSE r[k - 1]]
    <3>4. q \in [0..n + 1 -> S] /\ n + 1 \in Nat BY <3>1
    <3>5. q[0] = s /\ q[n + 1] = t BY <3>1
    <3>6. ASSUME NEW k \in 1..n + 1 PROVE q[k - 1] \notin P /\ q[k] = step[q[k - 1]]
      <4>1. CASE k = 1
        <5>1. q[1] = r[0] /\ q[0] = s OBVIOUS
        <5>2. k - 1 = 0 BY <4>1
        <5> QED BY <1>2, <3>1, <4>1, <5>1, <5>2
      <4>2. CASE k # 1
        <5>1. k - 1 \in 1..n /\ q[k] = r[k - 1] /\ q[k - 1] = r[(k - 1) - 1] BY <4>2
        <5> QED BY <3>1, <5>1
      <4> QED BY <4>1, <4>2
    <3> HIDE DEF q
    <3> QED BY <3>2, <3>4, <3>5, <3>6 DEF EndsOf
  <2>3. EndsOf(s, S, P, step) = EndsOf(step[s], S, P, step) BY <2>1, <2>2
  <2> QED BY <2>3
<1> QED BY <1>1, <1>2

(* Where each step makes a measure smaller, a loop ends, in a set J that its *)
(* steps do not leave. *)
Loops(f, P, J, step, m) ==
  \A s \in J :
    /\ m[s] \in Nat
    /\ s \in P => f[s] = s
    /\ s \notin P => f[s] = f[step[s]] /\ step[s] \in J /\ m[step[s]] < m[s]

LEMMA LoopEnds ==
  ASSUME NEW f, NEW P, NEW J, NEW step, NEW m, Loops(f, P, J, step, m)
  PROVE  \A s \in J : f[s] \in J /\ f[s] \in P
<1> USE DEF Loops
<1> DEFINE Good(s) == f[s] \in J /\ f[s] \in P
           Bad == {n \in Nat : \E s \in J : m[s] = n /\ ~Good(s)}
<1> SUFFICES ASSUME NEW s0 \in J, ~Good(s0) PROVE FALSE OBVIOUS
<1>1. m[s0] \in Bad OBVIOUS
<1>2. PICK n \in Bad : \A k \in Bad : n <= k
  <2> HIDE DEF Bad
  <2>1. Bad \subseteq Nat BY DEF Bad
  <2> QED BY <1>1, <2>1, Least
<1>3. PICK s \in J : m[s] = n /\ ~Good(s) OBVIOUS
<1>4. s \notin P BY <1>3
<1>5. f[s] = f[step[s]] /\ step[s] \in J /\ m[step[s]] < m[s] BY <1>4
<1>6. ~Good(step[s]) /\ m[step[s]] \in Nat BY <1>3, <1>5
<1>7. m[step[s]] \in Bad BY <1>5, <1>6
<1> QED BY <1>2, <1>3, <1>5, <1>7

----------
(* Zork.  v1 is the script, v2 what was sent, v3 leftover_, v4 the mode, v5 *)
(* the lines handled, v6 whether the connection is open, v7 the proxy and v8 *)
(* numOfGetters. *)
Line == Seq(Lines!Word)
Cutting == [lines : Seq(Line), rest : Line]
NoLines == [lines |-> <<>>, rest |-> <<>>]
FedBy == [p \in Cutting \X Lines!Word |-> Lines!Fed(p[1], p[2])]

LEMMA FedType == Maps(FedBy, Cutting, Lines!Word) /\ NoLines \in Cutting
<1>1. ASSUME NEW at \in Cutting, NEW w \in Lines!Word PROVE Lines!Fed(at, w) \in Cutting
  <2>1. at.lines \in Seq(Line) /\ at.rest \in Line BY DEF Cutting
  <2>2. CASE w = "nl"
    <3>1. Append(at.lines, at.rest) \in Seq(Line) /\ <<>> \in Line BY <2>1 DEF Line
    <3> QED BY <2>2, <3>1 DEF Cutting, Lines!Fed
  <2>3. CASE w # "nl"
    <3>1. Append(at.rest, w) \in Line BY <2>1 DEF Line
    <3>2. [at EXCEPT !.rest = Append(@, w)] \in Cutting BY <2>1, <3>1 DEF Cutting
    <3> QED BY <2>3, <3>2 DEF Lines!Fed
  <2> QED BY <2>2, <2>3
<1>2. \A p \in Cutting \X Lines!Word : Lines!Fed(p[1], p[2]) \in Cutting BY <1>1
<1>3. NoLines \in Cutting
  <2>1. <<>> \in Seq(Line) /\ <<>> \in Line BY DEF Line
  <2> QED BY <2>1 DEF NoLines, Cutting
<1> QED BY <1>2, <1>3 DEF Maps, FedBy

(* A line feeder takes a word at a time. *)
LEMMA FeedIs ==
  ASSUME NEW words \in Line
  PROVE  Lines!Feed(words) = Runs(FedBy, NoLines, words)
<1> DEFINE Is(f) == f = [k \in 0..Len(words) |->
             IF k = 0 THEN [lines |-> <<>>, rest |-> <<>>] ELSE Lines!Fed(f[k - 1], words[k])]
           fed == CHOOSE f : Is(f)
<1>0. words \in Seq(Lines!Word) BY DEF Line
<1>1. PICK r : IsRun(r, FedBy, NoLines, words, Cutting) BY <1>0, FedType, RunExists
<1>2. Is(r)
  <2>1. \A k \in 1..Len(words) : r[k - 1] \in Cutting /\ words[k] \in Lines!Word
    BY <1>0, <1>1 DEF IsRun
  <2>2. \A k \in 1..Len(words) : FedBy[<<r[k - 1], words[k]>>] = Lines!Fed(r[k - 1], words[k])
    BY <2>1 DEF FedBy
  <2>3. r = [k \in 0..Len(words) |-> r[k]] BY <1>1 DEF IsRun
  <2> DEFINE g == [k \in 0..Len(words) |->
               IF k = 0 THEN [lines |-> <<>>, rest |-> <<>>] ELSE Lines!Fed(r[k - 1], words[k])]
  <2>4. ASSUME NEW k \in 0..Len(words) PROVE r[k] = g[k]
    <3>1. CASE k = 0
      <4>1. g[0] = NoLines BY <3>1 DEF NoLines
      <4> QED BY <3>1, <4>1, <1>1 DEF IsRun
    <3>2. CASE k # 0
      <4>1. k \in 1..Len(words) BY <3>2
      <4>2. g[k] = Lines!Fed(r[k - 1], words[k]) BY <3>2
      <4>3. r[k] = FedBy[<<r[k - 1], words[k]>>] BY <4>1, <1>1 DEF IsRun
      <4> QED BY <4>1, <4>2, <4>3, <2>2
    <3> QED BY <3>1, <3>2
  <2>5. DOMAIN g = 0..Len(words) /\ g = [k \in 0..Len(words) |-> g[k]] OBVIOUS
  <2> HIDE DEF g
  <2>6. r = g BY <2>3, <2>4, <2>5
  <2> QED BY <2>6 DEF g
<1>3. Is(fed) BY <1>2
<1>4. Tracks(fed, FedBy, NoLines, words, Cutting)
  <2> HIDE DEF fed
  <2>1. fed[0] = NoLines BY <1>3, <1>0 DEF NoLines
  <2>2. ASSUME NEW k \in 1..Len(words), fed[k - 1] \in Cutting
        PROVE  fed[k] = FedBy[<<fed[k - 1], words[k]>>]
    <3>1. k \in 0..Len(words) /\ k # 0 /\ words[k] \in Lines!Word BY <1>0
    <3>2. fed[k] = Lines!Fed(fed[k - 1], words[k]) BY <1>3, <3>1
    <3> QED BY <2>2, <3>1, <3>2 DEF FedBy
  <2> QED BY <2>1, <2>2 DEF Tracks
<1>5. fed[Len(words)] = Runs(FedBy, NoLines, words)
  <2> HIDE DEF fed
  <2> QED BY <1>0, <1>4, FedType, RunsTo
<1> QED BY <1>5 DEF Lines!Feed

LEMMA FeedStep ==
  /\ Lines!Feed(<<>>) = NoLines
  /\ \A s \in Line : Lines!Feed(s) \in Cutting
  /\ \A s \in Line, w \in Lines!Word : Lines!Feed(Append(s, w)) = Lines!Fed(Lines!Feed(s), w)
<1>1. /\ Runs(FedBy, NoLines, <<>>) = NoLines
      /\ \A s \in Seq(Lines!Word) : Runs(FedBy, NoLines, s) \in Cutting
      /\ \A s \in Seq(Lines!Word), w \in Lines!Word :
           Runs(FedBy, NoLines, Append(s, w)) = FedBy[<<Runs(FedBy, NoLines, s), w>>]
  BY FedType, RunsStep
<1>2. <<>> \in Line BY DEF Line
<1>3. \A s \in Line : Lines!Feed(s) \in Cutting BY <1>1, FeedIs DEF Line
<1>4. ASSUME NEW s \in Line, NEW w \in Lines!Word
      PROVE  Lines!Feed(Append(s, w)) = Lines!Fed(Lines!Feed(s), w)
  <2>1. Append(s, w) \in Line BY DEF Line
  <2>2. Lines!Feed(Append(s, w)) = FedBy[<<Lines!Feed(s), w>>]
    BY <2>1, <1>1, FeedIs DEF Line
  <2> QED BY <2>2, <1>3 DEF FedBy
<1> QED BY <1>1, <1>2, <1>3, <1>4, FeedIs

(* What is left over has no end of a line in it. *)
LEMMA RestIsOpen ==
  \A s \in Line :
    /\ \A i \in DOMAIN Lines!Feed(s).rest : Lines!Feed(s).rest[i] # "nl"
    /\ (\A i \in DOMAIN s : s[i] # "nl") => Lines!Feed(s) = [lines |-> <<>>, rest |-> s]
<1> DEFINE T == {s \in Line :
      /\ \A i \in DOMAIN Lines!Feed(s).rest : Lines!Feed(s).rest[i] # "nl"
      /\ (\A i \in DOMAIN s : s[i] # "nl") => Lines!Feed(s) = [lines |-> <<>>, rest |-> s]}
<1>1. <<>> \in T
  <2>1. Lines!Feed(<<>>) = [lines |-> <<>>, rest |-> <<>>] /\ <<>> \in Line
    BY FeedStep DEF NoLines, Line
  <2>2. Lines!Feed(<<>>).rest = <<>> BY <2>1
  <2>3. \A i \in DOMAIN Lines!Feed(<<>>).rest : FALSE BY <2>2
  <2> QED BY <2>1, <2>3
<1>2. ASSUME NEW s \in Line, NEW w \in Lines!Word, s \in T PROVE Append(s, w) \in T
  <2> DEFINE at == Lines!Feed(s)
             t == Append(s, w)
  <2>1. Lines!Feed(t) = Lines!Fed(at, w) /\ at \in Cutting BY FeedStep
  <2>2. t \in Line /\ Len(t) = Len(s) + 1 /\ t[Len(s) + 1] = w /\ \A i \in 1..Len(s) : t[i] = s[i]
    BY DEF Line
  <2>3. at.rest \in Seq(Lines!Word) /\ \A i \in 1..Len(at.rest) : at.rest[i] # "nl"
    BY <1>2, <2>1 DEF Cutting, Line
  <2> HIDE DEF at, t
  <2>4. CASE w = "nl"
    <3>1. Lines!Feed(t).rest = <<>> BY <2>1, <2>4 DEF Lines!Fed
    <3>2. \A i \in DOMAIN Lines!Feed(t).rest : FALSE BY <3>1
    <3>3. Len(s) + 1 \in DOMAIN t BY <2>2 DEF Line
    <3>4. t \in T BY <2>2, <2>4, <3>2, <3>3
    <3> QED BY <3>4 DEF t
  <2>5. CASE w # "nl"
    <3>1. Lines!Feed(t) = [at EXCEPT !.rest = Append(at.rest, w)]
      BY <2>1, <2>5 DEF Lines!Fed
    <3>2. Lines!Feed(t) = [lines |-> at.lines, rest |-> Append(at.rest, w)]
      BY <2>1, <3>1 DEF Cutting
    <3>3. \A i \in 1..Len(at.rest) + 1 : Append(at.rest, w)[i] # "nl" BY <2>3, <2>5
    <3>4. DOMAIN Append(at.rest, w) = 1..Len(at.rest) + 1 BY <2>3
    <3>5. ASSUME \A i \in DOMAIN t : t[i] # "nl" PROVE Lines!Feed(t) = [lines |-> <<>>, rest |-> t]
      <4>1. \A i \in DOMAIN s : s[i] # "nl" BY <2>2, <3>5 DEF Line
      <4>2. at = [lines |-> <<>>, rest |-> s] BY <1>2, <4>1 DEF at
      <4> QED BY <3>2, <4>2 DEF t
    <3>6. \A i \in DOMAIN Lines!Feed(t).rest : Lines!Feed(t).rest[i] # "nl"
      <4>1. Lines!Feed(t).rest = Append(at.rest, w) BY <3>2
      <4> QED BY <4>1, <3>3, <3>4
    <3>8. t \in T BY <2>2, <3>5, <3>6
    <3> QED BY <3>8 DEF t
  <2> QED BY <2>4, <2>5
<1>3. Seq(Lines!Word) \subseteq T
  <2> HIDE DEF T
  <2> QED BY <1>1, <1>2, SequenceInduction DEF Line
<1> QED BY <1>3 DEF Line

(* However a stream is cut, its lines are fed, and the same is left over. *)
LEMMA FeedJoins ==
  ASSUME NEW s \in Line
  PROVE  \A t \in Line :
           /\ Lines!Feed(s \o t).rest = Lines!Feed(Lines!Feed(s).rest \o t).rest
           /\ Lines!Feed(s \o t).lines = Lines!Feed(s).lines \o Lines!Feed(Lines!Feed(s).rest \o t).lines
<1> DEFINE rest == Lines!Feed(s).rest
           had == Lines!Feed(s).lines
           Joins(t) == /\ Lines!Feed(s \o t).rest = Lines!Feed(rest \o t).rest
                       /\ Lines!Feed(s \o t).lines = had \o Lines!Feed(rest \o t).lines
           T == {t \in Line : Joins(t)}
<1>0. rest \in Line /\ had \in Seq(Line) /\ Lines!Feed(s) \in Cutting
  BY FeedStep DEF Cutting
<1>1. <<>> \in T
  <2>1. s \o <<>> = s /\ rest \o <<>> = rest /\ had \o <<>> = had /\ <<>> \in Line
    BY <1>0 DEF Line
  <2>2. Lines!Feed(rest) = [lines |-> <<>>, rest |-> rest] BY <1>0, RestIsOpen
  <2>3. Lines!Feed(rest).rest = rest /\ Lines!Feed(rest).lines = <<>> BY <2>2
  <2>4. Joins(<<>>)
    <3> HIDE DEF rest, had
    <3> QED BY <2>1, <2>3 DEF rest, had
  <2> QED BY <2>1, <2>4
<1>2. ASSUME NEW t \in Line, NEW w \in Lines!Word, t \in T PROVE Append(t, w) \in T
  <2> DEFINE one == Lines!Feed(s \o t)
             two == Lines!Feed(rest \o t)
  <2>0. \A u \in Line : u \o Append(t, w) = Append(u \o t, w) /\ u \o t \in Line BY DEF Line
  <2>1. s \o Append(t, w) = Append(s \o t, w) /\ rest \o Append(t, w) = Append(rest \o t, w)
        /\ s \o t \in Line /\ rest \o t \in Line /\ Append(t, w) \in Line
    <3>1. Append(t, w) \in Line BY DEF Line
    <3> QED BY <1>0, <2>0, <3>1
  <2>2. /\ Lines!Feed(s \o Append(t, w)) = Lines!Fed(one, w)
        /\ Lines!Feed(rest \o Append(t, w)) = Lines!Fed(two, w)
        /\ one \in Cutting /\ two \in Cutting BY <2>1, FeedStep
  <2>3. one.rest = two.rest /\ one.lines = had \o two.lines BY <1>2
  <2> HIDE DEF one, two, rest, had
  <2>4. two.lines \in Seq(Line) /\ two.rest \in Line BY <2>2 DEF Cutting
  <2>5. Append(had \o two.lines, two.rest) = had \o Append(two.lines, two.rest)
    BY <1>0, <2>4
  <2>6. Lines!Fed(one, w).rest = Lines!Fed(two, w).rest
        /\ Lines!Fed(one, w).lines = had \o Lines!Fed(two, w).lines
    BY <2>2, <2>3, <2>5 DEF Lines!Fed, Cutting
  <2> QED BY <2>1, <2>2, <2>6
<1>3. Seq(Lines!Word) \subseteq T
  <2> HIDE DEF T
  <2> QED BY <1>1, <1>2, SequenceInduction DEF Line
<1> QED BY <1>3 DEF Line

(* What a queue of lines comes to. *)
ModeOf == {"command", "signal", "quit"}
Served ==
  [mode : ModeOf, handled : Seq(Line \X ModeOf), proxy : Lines!Proxy, open : BOOLEAN]
ServedBy == [p \in Served \X Line |-> Lines!Step(p[1], p[2])]
HandsOver(line) == Lines!IsHandOver(line)

LEMMA ServedType == Maps(ServedBy, Served, Line)
<1>1. ASSUME NEW at \in Served, NEW line \in Line PROVE Lines!Step(at, line) \in Served
  <2>1. at.mode \in ModeOf /\ at.handled \in Seq(Line \X ModeOf) /\ at.proxy \in Lines!Proxy
        /\ at.open \in BOOLEAN BY DEF Served
  <2>2. \A m \in ModeOf : Append(at.handled, <<line, m>>) \in Seq(Line \X ModeOf) BY <2>1
  <2>3. CASE at.mode # "command"
    <3>1. [at EXCEPT !.handled = IF at.mode = "quit" THEN at.handled
                                 ELSE Append(at.handled, <<line, at.mode>>)] \in Served
      BY <2>1, <2>2 DEF Served
    <3> QED BY <2>3, <3>1 DEF Lines!Step
  <2>4. CASE at.mode = "command"
    <3> DEFINE verb == Lines!Verb(line)
    <3>1. verb \in {"get", "give"} => <<verb, "starting">> \in Lines!Proxy
      BY DEF Lines!Proxy
    <3>2. Append(at.handled, <<line, "command">>) \in Seq(Line \X ModeOf) BY <2>2 DEF ModeOf
    <3> HIDE DEF verb
    <3> DEFINE next == CASE verb \in {"get", "give"} -> "signal"
                         [] verb = "quit" -> "quit" [] OTHER -> "command"
               proxy == IF verb \in {"get", "give"} THEN <<verb, "starting">> ELSE at.proxy
               on == at.open /\ verb # "quit"
    <3>3. next \in ModeOf BY DEF ModeOf
    <3>4. proxy \in Lines!Proxy BY <2>1, <3>1
    <3>5. on \in BOOLEAN BY <2>1
    <3>6. Lines!Step(at, line) = [mode |-> next, handled |-> Append(at.handled, <<line, "command">>),
                                  proxy |-> proxy, open |-> on] BY <2>4 DEF Lines!Step, verb
    <3> HIDE DEF next, proxy, on
    <3> QED BY <3>2, <3>3, <3>4, <3>5, <3>6 DEF Served
  <2> QED BY <2>3, <2>4
<1>2. \A p \in Served \X Line : Lines!Step(p[1], p[2]) \in Served BY <1>1
<1> QED BY <1>2 DEF Maps, ServedBy

(* What was made of the lines so far: while the connection is open, each was *)
(* handled, and is a signal after the line that handed the queue over. *)
InTurn(at, lines) ==
  /\ at.mode = "quit" => ~at.open
  /\ at.open =>
       /\ Len(at.handled) = Len(lines)
       /\ \A i \in 1..Len(lines) :
            /\ at.handled[i][1] = lines[i]
            /\ (at.handled[i][2] = "signal") = (\E j \in 1..i - 1 : HandsOver(lines[j]))
       /\ (at.mode = "signal") = (\E j \in 1..Len(lines) : HandsOver(lines[j]))

LEMMA InTurnStep ==
  ASSUME NEW at \in Served, NEW lines \in Seq(Line), NEW line \in Line, InTurn(at, lines)
  PROVE  InTurn(Lines!Step(at, line), Append(lines, line))
<1> DEFINE n == Len(lines)
           more == Append(lines, line)
           to == Lines!Step(at, line)
<1>1. /\ n \in Nat /\ Len(more) = n + 1 /\ more[n + 1] = line
      /\ \A i \in 1..n : more[i] = lines[i] OBVIOUS
<1>2. at.mode \in ModeOf /\ at.handled \in Seq(Line \X ModeOf) /\ at.open \in BOOLEAN
  BY DEF Served
<1>3. CASE at.mode = "quit"
  <2>1. to.open = at.open /\ ~at.open BY <1>3 DEF Lines!Step, Served, InTurn
  <2> QED BY <2>1 DEF InTurn
<1>4. CASE at.mode # "quit"
  <2> DEFINE verb == Lines!Verb(line)
  <2>1. /\ to.handled = Append(at.handled, <<line, at.mode>>)
        /\ to.mode = IF at.mode = "signal" THEN "signal"
                     ELSE CASE verb \in {"get", "give"} -> "signal"
                            [] verb = "quit" -> "quit" [] OTHER -> "command"
        /\ to.open = (at.open /\ ~(at.mode = "command" /\ verb = "quit"))
    BY <1>2, <1>4 DEF Lines!Step, Served, ModeOf
  <2>2. to.mode = "quit" => ~to.open BY <2>1, <1>2, <1>4 DEF ModeOf
  <2>3. ASSUME to.open
        PROVE  /\ Len(to.handled) = Len(more)
               /\ \A i \in 1..Len(more) :
                    /\ to.handled[i][1] = more[i]
                    /\ (to.handled[i][2] = "signal") = (\E j \in 1..i - 1 : HandsOver(more[j]))
               /\ (to.mode = "signal") = (\E j \in 1..Len(more) : HandsOver(more[j]))
    <3>1. at.open BY <2>1, <2>3
    <3>2. /\ Len(at.handled) = n
          /\ \A i \in 1..n :
               /\ at.handled[i][1] = lines[i]
               /\ (at.handled[i][2] = "signal") = (\E j \in 1..i - 1 : HandsOver(lines[j]))
          /\ (at.mode = "signal") = (\E j \in 1..n : HandsOver(lines[j])) BY <3>1 DEF InTurn
    <3>3. /\ Len(to.handled) = n + 1 /\ to.handled[n + 1] = <<line, at.mode>>
          /\ \A i \in 1..n : to.handled[i] = at.handled[i] BY <2>1, <1>2, <3>2
    <3>4. (to.mode = "signal") = (at.mode = "signal" \/ HandsOver(line))
      BY <2>1, <1>2, <1>4 DEF ModeOf, HandsOver, Lines!IsHandOver
    <3> HIDE DEF to, more, verb, n
    <3>5. \A i \in 1..n + 1 :
            (\E j \in 1..i - 1 : HandsOver(more[j])) = (\E j \in 1..i - 1 : HandsOver(lines[j]))
      BY <1>1
    <3>6. (\E j \in 1..n + 1 : HandsOver(more[j])) = ((\E j \in 1..n : HandsOver(lines[j])) \/ HandsOver(line))
      <4>1. 1..n + 1 = 1..n \cup {n + 1} BY <1>1
      <4> QED BY <1>1, <4>1
    <3>7. ASSUME NEW i \in 1..n + 1
          PROVE  /\ to.handled[i][1] = more[i]
                 /\ (to.handled[i][2] = "signal") = (\E j \in 1..i - 1 : HandsOver(more[j]))
      <4>1. CASE i \in 1..n BY <4>1, <1>1, <3>2, <3>3, <3>5
      <4>2. CASE i = n + 1
        <5>1. to.handled[i][1] = line /\ to.handled[i][2] = at.mode BY <4>2, <3>3
        <5>2. i - 1 = n BY <4>2, <1>1
        <5>3. (\E j \in 1..i - 1 : HandsOver(more[j])) = (\E j \in 1..n : HandsOver(lines[j]))
          BY <3>5, <5>2
        <5> QED BY <4>2, <5>1, <5>3, <1>1, <3>2
      <4>3. i \in 1..n \/ i = n + 1
        <5>1. n \in Nat BY <1>1
        <5> QED BY <5>1
      <4> QED BY <4>1, <4>2, <4>3
    <3> QED BY <1>1, <3>2, <3>3, <3>4, <3>6, <3>7
  <2> HIDE DEF to, more
  <2> QED BY <2>2, <2>3 DEF InTurn, to, more
<1> QED BY <1>3, <1>4

LEMMA InTurnRuns ==
  ASSUME NEW at \in Served, NEW had \in Seq(Line), InTurn(at, had)
  PROVE  \A lines \in Seq(Line) :
           /\ Runs(ServedBy, at, lines) \in Served
           /\ InTurn(Runs(ServedBy, at, lines), had \o lines)
<1> DEFINE T == {lines \in Seq(Line) : InTurn(Runs(ServedBy, at, lines), had \o lines)}
<1>0. /\ Runs(ServedBy, at, <<>>) = at
      /\ \A s \in Seq(Line) : Runs(ServedBy, at, s) \in Served
      /\ \A s \in Seq(Line), y \in Line :
           Runs(ServedBy, at, Append(s, y)) = ServedBy[<<Runs(ServedBy, at, s), y>>]
  BY ServedType, RunsStep
<1>1. <<>> \in T
  <2>1. had \o <<>> = had /\ <<>> \in Seq(Line) OBVIOUS
  <2> QED BY <1>0, <2>1
<1>2. ASSUME NEW lines \in Seq(Line), NEW line \in Line, lines \in T PROVE Append(lines, line) \in T
  <2> DEFINE on == Runs(ServedBy, at, lines)
  <2>1. on \in Served /\ Runs(ServedBy, at, Append(lines, line)) = Lines!Step(on, line)
    BY <1>0 DEF ServedBy
  <2>2. had \o Append(lines, line) = Append(had \o lines, line) /\ had \o lines \in Seq(Line)
        /\ Append(lines, line) \in Seq(Line) OBVIOUS
  <2>3. InTurn(on, had \o lines) BY <1>2
  <2> HIDE DEF on
  <2>4. InTurn(Lines!Step(on, line), Append(had \o lines, line))
    BY <2>1, <2>2, <2>3, InTurnStep
  <2> QED BY <2>1, <2>2, <2>4
<1>3. Seq(Line) \subseteq T
  <2> HIDE DEF T
  <2> QED BY <1>1, <1>2, SequenceInduction
<1> QED BY <1>0, <1>3

(* Handle, by the steps. *)
LEMMA HandleIs ==
  ASSUME NEW c \in Client, NEW lines \in Seq(Line), NEW rest, NEW on \in BOOLEAN,
         Lines!Handle(c, lines, rest, on),
         NEW before, before = [mode |-> v4[c], handled |-> v5[c], proxy |-> v7[c], open |-> on],
         before \in Served
  PROVE  LET at == Runs(ServedBy, before, lines)
         IN  /\ v3' = [v3 EXCEPT ![c] = rest] /\ v4' = [v4 EXCEPT ![c] = at.mode]
             /\ v5' = [v5 EXCEPT ![c] = at.handled] /\ v7' = [v7 EXCEPT ![c] = at.proxy]
             /\ v6' = [v6 EXCEPT ![c] = at.open]
<1> DEFINE Is(f) == f = [k \in 0..Len(lines) |->
             IF k = 0 THEN before ELSE Lines!Step(f[k - 1], lines[k])]
           after == CHOOSE f : Is(f)
<1>1. PICK r : IsRun(r, ServedBy, before, lines, Served) BY ServedType, RunExists
<1>2. Is(r)
  <2>1. \A k \in 1..Len(lines) : ServedBy[<<r[k - 1], lines[k]>>] = Lines!Step(r[k - 1], lines[k])
    <3>1. \A k \in 1..Len(lines) : r[k - 1] \in Served /\ lines[k] \in Line
      BY <1>1 DEF IsRun
    <3> QED BY <3>1 DEF ServedBy
  <2>2. r = [k \in 0..Len(lines) |-> r[k]] BY <1>1 DEF IsRun
  <2> DEFINE g == [k \in 0..Len(lines) |-> IF k = 0 THEN before ELSE Lines!Step(r[k - 1], lines[k])]
  <2>4. ASSUME NEW k \in 0..Len(lines) PROVE r[k] = g[k]
    <3>1. CASE k = 0 BY <3>1, <1>1 DEF IsRun
    <3>2. CASE k # 0
      <4>1. k \in 1..Len(lines) BY <3>2
      <4>2. g[k] = Lines!Step(r[k - 1], lines[k]) BY <3>2
      <4>3. r[k] = ServedBy[<<r[k - 1], lines[k]>>] BY <4>1, <1>1 DEF IsRun
      <4> QED BY <4>1, <4>2, <4>3, <2>1
    <3> QED BY <3>1, <3>2
  <2>5. DOMAIN g = 0..Len(lines) /\ g = [k \in 0..Len(lines) |-> g[k]] OBVIOUS
  <2> HIDE DEF g
  <2>6. r = g BY <2>2, <2>4, <2>5
  <2> QED BY <2>6 DEF g
<1>3. Is(after) BY <1>2
<1>4. Tracks(after, ServedBy, before, lines, Served)
  <2> HIDE DEF after
  <2>1. after[0] = before BY <1>3
  <2>2. ASSUME NEW k \in 1..Len(lines), after[k - 1] \in Served
        PROVE  after[k] = ServedBy[<<after[k - 1], lines[k]>>]
    <3>1. k \in 0..Len(lines) /\ k # 0 /\ lines[k] \in Line OBVIOUS
    <3>2. after[k] = Lines!Step(after[k - 1], lines[k]) BY <1>3, <3>1
    <3> QED BY <2>2, <3>1, <3>2 DEF ServedBy
  <2> QED BY <2>1, <2>2 DEF Tracks
<1>5. after[Len(lines)] = Runs(ServedBy, before, lines)
  <2> HIDE DEF after
  <2> QED BY <1>4, ServedType, RunsTo
<1> QED BY <1>5 DEF Lines!Handle

(* Of a client: what its feeder and its handlers have made of what arrived. *)
Prefix(c) == SubSeq(v1[c], 1, v2[c])
Now(c) == [mode |-> v4[c], handled |-> v5[c], proxy |-> v7[c], open |-> v6[c]]
ZorkTypes ==
  /\ v1 \in [Client -> Script] /\ v2 \in [Client -> Nat] /\ v3 \in [Client -> Line]
  /\ v4 \in [Client -> ModeOf] /\ v5 \in [Client -> Seq(Line \X ModeOf)]
  /\ v6 \in [Client -> BOOLEAN] /\ v7 \in [Client -> Lines!Proxy] /\ v8 \in Int
  /\ \A c \in Client : v2[c] <= Len(v1[c])
ZorkInv ==
  /\ ZorkTypes
  /\ \A c \in Client :
       /\ v6[c] => v3[c] = Lines!Feed(Prefix(c)).rest
       /\ InTurn(Now(c), Lines!Feed(Prefix(c)).lines)

LEMMA ZorkInit == CodecsAssumption /\ Lines!Init => ZorkInv
<1> SUFFICES ASSUME CodecsAssumption, Lines!Init PROVE ZorkInv OBVIOUS
<1>1. <<>> \in Line /\ <<>> \in Seq(Line \X ModeOf) /\ <<"none", "none">> \in Lines!Proxy
      /\ "command" \in ModeOf BY DEF Line, ModeOf, Lines!Proxy
<1>2. \A c \in Client : v1[c] \in Line
  BY DEF Lines!Init, CodecsAssumption, ZorkAssumption, Line
<1>3. ZorkTypes BY <1>1, <1>2 DEF Lines!Init, ZorkTypes, Line
<1>4. ASSUME NEW c \in Client
      PROVE  v3[c] = Lines!Feed(Prefix(c)).rest /\ InTurn(Now(c), Lines!Feed(Prefix(c)).lines)
  <2>1. Prefix(c) = <<>> BY <1>2 DEF Prefix, Lines!Init, Line
  <2>2. Lines!Feed(Prefix(c)).rest = <<>> /\ Lines!Feed(Prefix(c)).lines = <<>>
    BY <2>1, FeedStep DEF NoLines
  <2>3. v3[c] = <<>> /\ Now(c).mode = "command" /\ Now(c).handled = <<>>
    BY DEF Lines!Init, Now
  <2>4. InTurn(Now(c), <<>>)
    <3> DEFINE e == <<>>
    <3>1. Len(e) = 0 /\ 1..0 = {} OBVIOUS
    <3>2. Now(c).handled = e BY <2>3
    <3> HIDE DEF e
    <3>3. InTurn(Now(c), e) BY <2>3, <3>1, <3>2 DEF InTurn
    <3> QED BY <3>3 DEF e
  <2> QED BY <2>2, <2>3, <2>4
<1> QED BY <1>3, <1>4 DEF ZorkInv

(* Handling the lines of a feed keeps it. *)
LEMMA HandleTypes ==
  ASSUME ZorkTypes, NEW c \in Client, NEW lines \in Seq(Line), NEW rest \in Line, NEW on \in BOOLEAN,
         Lines!Handle(c, lines, rest, on)
  PROVE  /\ v3' = [v3 EXCEPT ![c] = rest]
         /\ v4' \in [Client -> ModeOf] /\ v5' \in [Client -> Seq(Line \X ModeOf)]
         /\ v6' \in [Client -> BOOLEAN] /\ v7' \in [Client -> Lines!Proxy]
         /\ \A d \in Client \ {c} : v3'[d] = v3[d] /\ Now(d)' = Now(d)
         /\ v3'[c] = rest
         /\ \E before \in Served :
              /\ before = [mode |-> v4[c], handled |-> v5[c], proxy |-> v7[c], open |-> on]
              /\ Now(c)' = Runs(ServedBy, before, lines)
<1> DEFINE before == [mode |-> v4[c], handled |-> v5[c], proxy |-> v7[c], open |-> on]
           at == Runs(ServedBy, before, lines)
<1>1. before \in Served BY DEF Served, ZorkTypes
<1>2. at \in Served
  <2> HIDE DEF before
  <2> QED BY <1>1, ServedType, RunsStep
<1>3. /\ v3' = [v3 EXCEPT ![c] = rest] /\ v4' = [v4 EXCEPT ![c] = at.mode]
      /\ v5' = [v5 EXCEPT ![c] = at.handled] /\ v7' = [v7 EXCEPT ![c] = at.proxy]
      /\ v6' = [v6 EXCEPT ![c] = at.open] BY <1>1, HandleIs
<1> HIDE DEF at
<1>4. at.mode \in ModeOf /\ at.handled \in Seq(Line \X ModeOf) /\ at.proxy \in Lines!Proxy
      /\ at.open \in BOOLEAN
      /\ at = [mode |-> at.mode, handled |-> at.handled, proxy |-> at.proxy, open |-> at.open]
  BY <1>2 DEF Served
<1>5. /\ v4' \in [Client -> ModeOf] /\ v5' \in [Client -> Seq(Line \X ModeOf)]
      /\ v6' \in [Client -> BOOLEAN] /\ v7' \in [Client -> Lines!Proxy]
  BY <1>3, <1>4 DEF ZorkTypes
<1>6. \A d \in Client \ {c} : v3'[d] = v3[d] /\ Now(d)' = Now(d) BY <1>3 DEF ZorkTypes, Now
<1>7. Now(c)' = at /\ v3'[c] = rest BY <1>3, <1>4 DEF ZorkTypes, Now
<1> QED BY <1>1, <1>3, <1>5, <1>6, <1>7 DEF at

LEMMA ZorkStep == CodecsAssumption /\ ZorkInv /\ [Lines!Next]_(Lines!vars) => ZorkInv'
<1> SUFFICES ASSUME CodecsAssumption, ZorkInv, [Lines!Next]_(Lines!vars) PROVE ZorkInv'
  OBVIOUS
<1>0. ZorkTypes BY DEF ZorkInv
<1>1. ASSUME NEW c \in Client, Lines!Arrives(c) PROVE ZorkInv'
  <2>1. PICK n \in 1..MaxChunk :
          /\ v2[c] + n <= Len(v1[c]) /\ v2' = [v2 EXCEPT ![c] = @ + n]
          /\ LET fed == Lines!Feed(v3[c] \o SubSeq(v1[c], v2[c] + 1, v2[c] + n))
             IN  Lines!Handle(c, fed.lines, fed.rest, TRUE) BY <1>1 DEF Lines!Arrives
  <2> DEFINE chunk == SubSeq(v1[c], v2[c] + 1, v2[c] + n)
             fed == Lines!Feed(v3[c] \o chunk)
  <2>2. v6[c] /\ v1' = v1 /\ v8' = v8 BY <1>1 DEF Lines!Arrives
  <2>3. v1[c] \in Line /\ v2[c] \in Nat /\ n \in Nat /\ v3[c] \in Line
    BY <1>0 DEF ZorkTypes, CodecsAssumption, ZorkAssumption, Line
  <2>4. Prefix(c) \in Line /\ chunk \in Line BY <2>1, <2>3 DEF Prefix, Line
  <2>5. v2'[c] = v2[c] + n /\ \A d \in Client \ {c} : v2'[d] = v2[d]
    BY <2>1, <1>0 DEF ZorkTypes
  <2>6. Prefix(c)' = Prefix(c) \o chunk
    <3>1. \A s \in Line, i, j \in Nat : i + j <= Len(s) =>
            SubSeq(s, 1, i + j) = SubSeq(s, 1, i) \o SubSeq(s, i + 1, i + j) BY DEF Line
    <3>2. SubSeq(v1[c], 1, v2[c] + n) = SubSeq(v1[c], 1, v2[c]) \o chunk BY <3>1, <2>1, <2>3
    <3> QED BY <3>2, <2>2, <2>5 DEF Prefix
  <2>7. v3[c] \o chunk \in Line BY <2>3, <2>4 DEF Line
  <2>8. fed \in Cutting BY <2>7, FeedStep
  <2>9. /\ fed.rest = Lines!Feed(Prefix(c)').rest
        /\ Lines!Feed(Prefix(c)').lines = Lines!Feed(Prefix(c)).lines \o fed.lines
    <3>1. v3[c] = Lines!Feed(Prefix(c)).rest BY <2>2 DEF ZorkInv
    <3> QED BY <3>1, <2>4, <2>6, FeedJoins
  <2>10. Lines!Handle(c, fed.lines, fed.rest, TRUE) BY <2>1
  <2>11. fed.lines \in Seq(Line) /\ fed.rest \in Line /\ Lines!Feed(Prefix(c)).lines \in Seq(Line)
    BY <2>4, <2>8, FeedStep DEF Cutting
  <2> HIDE DEF fed, chunk
  <2>12. /\ v3' = [v3 EXCEPT ![c] = fed.rest]
         /\ v4' \in [Client -> ModeOf] /\ v5' \in [Client -> Seq(Line \X ModeOf)]
         /\ v6' \in [Client -> BOOLEAN] /\ v7' \in [Client -> Lines!Proxy]
         /\ \A d \in Client \ {c} : v3'[d] = v3[d] /\ Now(d)' = Now(d)
         /\ v3'[c] = fed.rest
         /\ \E before \in Served :
              /\ before = [mode |-> v4[c], handled |-> v5[c], proxy |-> v7[c], open |-> TRUE]
              /\ Now(c)' = Runs(ServedBy, before, fed.lines)
    BY <2>10, <2>11, <1>0, HandleTypes
  <2>13. PICK before \in Served :
           /\ before = [mode |-> v4[c], handled |-> v5[c], proxy |-> v7[c], open |-> TRUE]
           /\ Now(c)' = Runs(ServedBy, before, fed.lines) BY <2>12
  <2>14. InTurn(before, Lines!Feed(Prefix(c)).lines)
    <3>1. before = Now(c) BY <2>2, <2>13 DEF Now
    <3> QED BY <3>1 DEF ZorkInv
  <2>15. InTurn(Now(c)', Lines!Feed(Prefix(c)').lines)
    BY <2>9, <2>11, <2>13, <2>14, InTurnRuns
  <2>16. ZorkTypes'
    <3>1. v2' \in [Client -> Nat] /\ \A d \in Client : v2'[d] <= Len(v1'[d])
      BY <2>1, <2>2, <2>3, <2>5, <1>0 DEF ZorkTypes
    <3>2. v3' \in [Client -> Line] BY <2>11, <2>12, <1>0 DEF ZorkTypes
    <3> QED BY <3>1, <3>2, <2>2, <2>12, <1>0 DEF ZorkTypes
  <2>17. ASSUME NEW d \in Client
         PROVE  /\ v6'[d] => v3'[d] = Lines!Feed(Prefix(d)').rest
                /\ InTurn(Now(d)', Lines!Feed(Prefix(d)').lines)
    <3>1. CASE d = c BY <3>1, <2>9, <2>12, <2>15
    <3>2. CASE d # c
      <4>1. Prefix(d)' = Prefix(d) /\ Now(d)' = Now(d) /\ v3'[d] = v3[d]
        BY <3>2, <2>2, <2>5, <2>12 DEF Prefix
      <4>2. v6'[d] = v6[d] BY <4>1 DEF Now
      <4> QED BY <4>1, <4>2 DEF ZorkInv
    <3> QED BY <3>1, <3>2
  <2> QED BY <2>16, <2>17 DEF ZorkInv
<1>2. ASSUME NEW c \in Client, Lines!HangsUp(c) PROVE ZorkInv'
  <2> DEFINE lines == <<v3[c]>>
             rest == <<>>
  <2>1. v1' = v1 /\ v2' = v2 /\ v8' = v8 /\ Lines!Handle(c, lines, rest, FALSE)
    BY <1>2 DEF Lines!HangsUp
  <2>2. lines \in Seq(Line) /\ rest \in Line BY <1>0 DEF ZorkTypes, Line
  <2> HIDE DEF lines, rest
  <2>3. /\ v3' = [v3 EXCEPT ![c] = rest]
        /\ v4' \in [Client -> ModeOf] /\ v5' \in [Client -> Seq(Line \X ModeOf)]
        /\ v6' \in [Client -> BOOLEAN] /\ v7' \in [Client -> Lines!Proxy]
        /\ \A d \in Client \ {c} : v3'[d] = v3[d] /\ Now(d)' = Now(d)
        /\ v3'[c] = rest
        /\ \E before \in Served :
             /\ before = [mode |-> v4[c], handled |-> v5[c], proxy |-> v7[c], open |-> FALSE]
             /\ Now(c)' = Runs(ServedBy, before, lines) BY <2>1, <2>2, <1>0, HandleTypes
  <2>4. PICK before \in Served :
          /\ before = [mode |-> v4[c], handled |-> v5[c], proxy |-> v7[c], open |-> FALSE]
          /\ Now(c)' = Runs(ServedBy, before, lines) BY <2>3
  <2>5. Now(c)'.open = FALSE
    <3> DEFINE T == {s \in Seq(Line) : ~Runs(ServedBy, before, s).open}
    <3>0. /\ Runs(ServedBy, before, <<>>) = before
          /\ \A s \in Seq(Line) : Runs(ServedBy, before, s) \in Served
          /\ \A s \in Seq(Line), y \in Line :
               Runs(ServedBy, before, Append(s, y)) = ServedBy[<<Runs(ServedBy, before, s), y>>]
      BY ServedType, RunsStep
    <3>1. <<>> \in T BY <3>0, <2>4
    <3>2. ASSUME NEW s \in Seq(Line), NEW y \in Line, s \in T PROVE Append(s, y) \in T
      <4>1. Runs(ServedBy, before, Append(s, y)) = Lines!Step(Runs(ServedBy, before, s), y)
        BY <3>0 DEF ServedBy
      <4>2. ~Runs(ServedBy, before, s).open /\ Runs(ServedBy, before, s) \in Served
        BY <3>0, <3>2
      <4>3. ASSUME NEW at \in Served, ~at.open PROVE ~Lines!Step(at, y).open
        BY <4>3 DEF Served, Lines!Step
      <4> QED BY <4>1, <4>2, <4>3
    <3>3. Seq(Line) \subseteq T
      <4> HIDE DEF T
      <4> QED BY <3>1, <3>2, SequenceInduction
    <3>4. Runs(ServedBy, before, lines) \in Served /\ ~Runs(ServedBy, before, lines).open
      BY <2>2, <3>0, <3>3
    <3> QED BY <2>4, <3>4 DEF Served
  <2>6. ZorkTypes'
    <3>1. v3' \in [Client -> Line] BY <2>2, <2>3, <1>0 DEF ZorkTypes
    <3> QED BY <3>1, <2>1, <2>3, <1>0 DEF ZorkTypes
  <2>7. ASSUME NEW d \in Client
        PROVE  /\ v6'[d] => v3'[d] = Lines!Feed(Prefix(d)').rest
               /\ InTurn(Now(d)', Lines!Feed(Prefix(d)').lines)
    <3>1. CASE d = c
      <4>1. v6'[d] = FALSE /\ ~Now(d)'.open BY <3>1, <2>5 DEF Now
      <4> QED BY <4>1 DEF InTurn
    <3>2. CASE d # c
      <4>1. Prefix(d)' = Prefix(d) /\ Now(d)' = Now(d) /\ v3'[d] = v3[d]
        BY <3>2, <2>1, <2>3 DEF Prefix
      <4>2. v6'[d] = v6[d] BY <4>1 DEF Now
      <4> QED BY <4>1, <4>2 DEF ZorkInv
    <3> QED BY <3>1, <3>2
  <2> QED BY <2>6, <2>7 DEF ZorkInv
<1>3. ASSUME NEW c \in Client, Lines!Ready(c) \/ Lines!Stops(c) PROVE ZorkInv'
  <2>1. /\ v1' = v1 /\ v2' = v2 /\ v3' = v3 /\ v4' = v4 /\ v5' = v5
        /\ v6' = [v6 EXCEPT ![c] = FALSE] /\ v8' \in Int
    BY <1>3, <1>0 DEF Lines!Ready, Lines!Stops, ZorkTypes
  <2>2. PICK to \in {"ready", "stopped"} : v7' = [v7 EXCEPT ![c][2] = to]
    BY <1>3 DEF Lines!Ready, Lines!Stops
  <2>3. v7' \in [Client -> Lines!Proxy]
    <3>1. v7[c] \in Lines!Proxy BY <1>0 DEF ZorkTypes
    <3>2. [v7[c] EXCEPT ![2] = to] \in Lines!Proxy BY <3>1 DEF Lines!Proxy
    <3> QED BY <2>2, <3>2, <1>0 DEF ZorkTypes
  <2>4. ZorkTypes' BY <2>1, <2>3, <1>0 DEF ZorkTypes
  <2>5. ASSUME NEW d \in Client
        PROVE  /\ v6'[d] => v3'[d] = Lines!Feed(Prefix(d)').rest
               /\ InTurn(Now(d)', Lines!Feed(Prefix(d)').lines)
    <3>1. Prefix(d)' = Prefix(d) /\ v3'[d] = v3[d] /\ (v6'[d] => v6[d]) /\ v4'[d] = v4[d] /\ v5'[d] = v5[d]
      BY <2>1, <1>0 DEF Prefix, ZorkTypes
    <3>2. InTurn(Now(d), Lines!Feed(Prefix(d)).lines) /\ (v6[d] => v3[d] = Lines!Feed(Prefix(d)).rest)
      BY DEF ZorkInv
    <3>3. InTurn(Now(d)', Lines!Feed(Prefix(d)).lines) BY <3>1, <3>2 DEF InTurn, Now
    <3> QED BY <3>1, <3>2, <3>3
  <2> QED BY <2>4, <2>5 DEF ZorkInv
<1>4. CASE UNCHANGED Lines!vars BY <1>4 DEF ZorkInv, ZorkTypes, Prefix, Now, Lines!vars
<1> QED BY <1>1, <1>2, <1>3, <1>4 DEF Lines!Next

LEMMA ZorkHolds == CodecsAssumption /\ ZorkInv => Lines!TypeOK /\ Lines!LinesInTurn
<1> SUFFICES ASSUME CodecsAssumption, ZorkInv PROVE Lines!TypeOK /\ Lines!LinesInTurn
  OBVIOUS
<1>0. ZorkTypes BY DEF ZorkInv
<1>1. Lines!TypeOK
  <2>1. \A c \in Client : v1[c] \in Line /\ v2[c] \in 0..Len(v1[c])
    BY <1>0 DEF ZorkTypes, CodecsAssumption, ZorkAssumption, Line
  <2> QED BY <2>1, <1>0 DEF ZorkTypes, Lines!TypeOK, ModeOf, Line
<1>2. ASSUME NEW c \in Client, v6[c]
      PROVE  LET lines == Lines!Feed(SubSeq(v1[c], 1, v2[c])).lines
             IN  /\ [i \in DOMAIN v5[c] |-> v5[c][i][1]] = lines
                 /\ \A i \in DOMAIN v5[c] :
                      (v5[c][i][2] = "signal") = (\E j \in 1..i - 1 : Lines!IsHandOver(v5[c][j][1]))
  <2> DEFINE lines == Lines!Feed(Prefix(c)).lines
  <2>1. v1[c] \in Line /\ v2[c] \in 0..Len(v1[c])
    BY <1>0 DEF ZorkTypes, CodecsAssumption, ZorkAssumption, Line
  <2>2. Prefix(c) \in Line BY <2>1 DEF Prefix, Line
  <2>3. lines \in Seq(Line) BY <2>2, FeedStep DEF Cutting
  <2>4. v5[c] \in Seq(Line \X ModeOf) BY <1>0 DEF ZorkTypes
  <2>5. InTurn(Now(c), lines) BY DEF ZorkInv
  <2> HIDE DEF lines
  <2>6. /\ Len(v5[c]) = Len(lines)
        /\ \A i \in 1..Len(lines) :
             /\ v5[c][i][1] = lines[i]
             /\ (v5[c][i][2] = "signal") = (\E j \in 1..i - 1 : HandsOver(lines[j]))
    BY <1>2, <2>5 DEF InTurn, Now
  <2>7. DOMAIN v5[c] = 1..Len(lines) BY <2>4, <2>6
  <2>8. lines = [i \in 1..Len(lines) |-> lines[i]] BY <2>3
  <2>9. [i \in DOMAIN v5[c] |-> v5[c][i][1]] = lines BY <2>6, <2>7, <2>8
  <2>10. ASSUME NEW i \in DOMAIN v5[c]
         PROVE  (v5[c][i][2] = "signal") = (\E j \in 1..i - 1 : Lines!IsHandOver(v5[c][j][1]))
    <3>1. Len(lines) \in Nat BY <2>3
    <3>2. i \in 1..Len(lines) /\ \A j \in 1..i - 1 : j \in 1..Len(lines) BY <2>7, <3>1
    <3>3. \A j \in 1..i - 1 : v5[c][j][1] = lines[j] BY <3>2, <2>6
    <3> QED BY <3>2, <3>3, <2>6 DEF HandsOver
  <2> QED BY <2>9, <2>10 DEF lines, Prefix
<1> QED BY <1>1, <1>2 DEF Lines!LinesInTurn

----------
(* Protean.  v1 is fragments, v2 sent, v3 the output, v4 removeSequences_, v5 *)
(* arrived, v6 passed, v7 losses. *)
Buffer == {"model"} \X (DOMAIN Models) \cup Packet \X (1..MaxFragments)
Fragment == Packet \X (1..MaxFragments)
Stream == Seq(Buffer)
Last == Shaper!lastIndex_
Settled == {s \in Stream : Shaper!At(Len(s)) = {}}
Injecting == [s \in Stream |-> IF s \in Settled THEN s ELSE Append(s, Shaper!Made(Len(s)))]
Injected == [s \in Stream |-> AnyOf(EndsOf(s, Stream, Settled, Injecting))]

LEMMA ModelsAre ==
  ASSUME ProteanAssumption
  PROVE  /\ DOMAIN Models = 1..Len(Models) /\ Len(Models) \in Nat /\ Len(Models) >= 1
         /\ \A i \in DOMAIN Models : Models[i].index \in Nat /\ Models[i].offset \in Nat
         /\ \A i, j \in DOMAIN Models : Models[i].index = Models[j].index => i = j
         /\ Last \in Nat /\ Shaper!firstIndex_ \in Nat
         /\ \A i \in DOMAIN Models : Shaper!firstIndex_ <= Models[i].index /\ Models[i].index <= Last
<1>1. /\ DOMAIN Models = 1..Len(Models) /\ Len(Models) \in Nat /\ Len(Models) >= 1
      /\ \A i \in DOMAIN Models : Models[i].index \in Nat /\ Models[i].offset \in Nat
  <2>1. Models \in Seq([index : Nat, offset : Nat]) /\ Models # <<>>
    BY DEF ProteanAssumption
  <2>2. DOMAIN Models = 1..Len(Models) /\ Len(Models) \in Nat /\ Len(Models) # 0 BY <2>1
  <2> DEFINE Model == [index : Nat, offset : Nat]
  <2>4. \A m \in Model : m.index \in Nat /\ m.offset \in Nat OBVIOUS
  <2>6. Models \in Seq(Model) BY <2>1
  <2> HIDE DEF Model
  <2>3. \A i \in DOMAIN Models : Models[i] \in Model BY <2>6
  <2>5. \A i \in DOMAIN Models : Models[i].index \in Nat /\ Models[i].offset \in Nat
    BY <2>3, <2>4
  <2> QED BY <2>2, <2>5
<1>2. \A i, j \in DOMAIN Models : i < j => Models[i].index < Models[j].index
  BY DEF ProteanAssumption
<1>3. \A i, j \in DOMAIN Models : Models[i].index = Models[j].index => i = j
  <2> SUFFICES ASSUME NEW i \in DOMAIN Models, NEW j \in DOMAIN Models,
                      Models[i].index = Models[j].index, i # j
               PROVE FALSE OBVIOUS
  <2>1. i < j \/ j < i BY <1>1
  <2> QED BY <2>1, <1>1, <1>2
<1>4. 1 \in DOMAIN Models /\ Len(Models) \in DOMAIN Models BY <1>1
<1>5. \A i \in DOMAIN Models : (i = 1 \/ 1 < i) /\ (i = Len(Models) \/ i < Len(Models))
  BY <1>1
<1> QED BY <1>1, <1>2, <1>3, <1>4, <1>5 DEF Shaper!firstIndex_, Shaper!lastIndex_, Last

LEMMA MadeIs ==
  ASSUME ProteanAssumption, NEW n \in Nat, Shaper!At(n) # {}
  PROVE  \E i \in DOMAIN Models : Models[i].index = n /\ Shaper!Made(n) = <<"model", i>>
<1>1. PICK i \in DOMAIN Models : Models[i].index = n BY DEF Shaper!At
<1>2. \A j \in Shaper!At(n) : j = i BY <1>1, ModelsAre DEF Shaper!At
<1>3. i \in Shaper!At(n) /\ i <= i BY <1>1, ModelsAre DEF Shaper!At
<1>4. (CHOOSE k \in Shaper!At(n) : \A j \in Shaper!At(n) : k <= j) = i BY <1>2, <1>3
<1> QED BY <1>1, <1>4 DEF Shaper!Made

LEMMA InjectingType == ProteanAssumption => Injecting \in [Stream -> Stream]
<1> SUFFICES ASSUME ProteanAssumption, NEW s \in Stream, s \notin Settled
             PROVE  Append(s, Shaper!Made(Len(s))) \in Stream BY DEF Injecting
<1>1. Shaper!At(Len(s)) # {} /\ Len(s) \in Nat BY DEF Settled, Stream
<1>2. Shaper!Made(Len(s)) \in Buffer BY <1>1, MadeIs DEF Buffer
<1> QED BY <1>2 DEF Stream

(* inject_ is the loop it is written as. *)
LEMMA InjectIs ==
  ASSUME ProteanAssumption
  PROVE  \E f : /\ \A s \in Stream : f[s] = IF s \in Settled THEN s ELSE f[Injecting[s]]
                /\ \A s \in Stream : Shaper!inject_(s) = f[s]
<1> DEFINE Is(f) == f = [s \in Stream |->
             IF Shaper!At(Len(s)) = {} THEN s ELSE f[Append(s, Shaper!Made(Len(s)))]]
           injected == CHOOSE f : Is(f)
<1>1. \A s \in Stream : Injected[s] = IF s \in Settled THEN s ELSE Injected[Injecting[s]]
  BY InjectingType, LoopExists DEF Injected
<1>2. Is(Injected)
  <2> DEFINE g == [s \in Stream |->
                     IF Shaper!At(Len(s)) = {} THEN s ELSE Injected[Append(s, Shaper!Made(Len(s)))]]
  <2>1. ASSUME NEW s \in Stream PROVE Injected[s] = g[s] BY <1>1 DEF Settled, Injecting
  <2>2. DOMAIN g = Stream /\ g = [s \in Stream |-> g[s]] OBVIOUS
  <2>3. DOMAIN Injected = Stream /\ Injected = [s \in Stream |-> Injected[s]]
    BY DEF Injected
  <2> HIDE DEF g
  <2>4. Injected = g BY <2>1, <2>2, <2>3
  <2> QED BY <2>4 DEF g
<1>3. Is(injected) BY <1>2
<1> HIDE DEF injected
<1>4. \A s \in Stream : injected[s] = IF s \in Settled THEN s ELSE injected[Injecting[s]]
  BY <1>3 DEF Settled, Injecting
<1>5. \A s \in Stream : Shaper!inject_(s) = injected[s]
  BY DEF Shaper!inject_, Stream, Buffer, injected
<1> QED BY <1>4, <1>5

(* What its steps do not leave holds of what comes out. *)
LEMMA InjectLoop ==
  ASSUME ProteanAssumption, NEW J \in SUBSET Stream,
         \A s \in J : s \notin Settled => Append(s, Shaper!Made(Len(s))) \in J
  PROVE  \A s \in J : Shaper!inject_(s) \in J /\ Shaper!inject_(s) \in Settled
<1>1. PICK f : /\ \A s \in Stream : f[s] = IF s \in Settled THEN s ELSE f[Injecting[s]]
               /\ \A s \in Stream : Shaper!inject_(s) = f[s] BY InjectIs
<1> DEFINE m == [s \in Stream |-> IF Len(s) <= Last THEN Last + 1 - Len(s) ELSE 0]
<1>2. \A s \in J : m[s] \in Nat BY ModelsAre DEF Stream
<1>3. \A s \in J : s \in Settled => f[s] = s BY <1>1
<1>4. ASSUME NEW s \in J, s \notin Settled
      PROVE  f[s] = f[Injecting[s]] /\ Injecting[s] \in J /\ m[Injecting[s]] < m[s]
  <2>1. Injecting[s] = Append(s, Shaper!Made(Len(s))) /\ f[s] = f[Injecting[s]]
    BY <1>1, <1>4 DEF Injecting
  <2>2. Injecting[s] \in J BY <1>4, <2>1
  <2>3. Len(s) \in Nat /\ Len(Injecting[s]) = Len(s) + 1 BY <2>1 DEF Stream
  <2>4. Len(s) <= Last
    <3>1. Shaper!At(Len(s)) # {} BY <1>4 DEF Settled
    <3>2. PICK i \in DOMAIN Models : Models[i].index = Len(s) BY <3>1 DEF Shaper!At
    <3> QED BY <3>2, ModelsAre
  <2>5. Last \in Nat BY ModelsAre
  <2>6. m[s] = Last + 1 - Len(s) /\ m[Injecting[s]] \in {Last - Len(s), 0}
    BY <2>2, <2>3, <2>4, <2>5
  <2> QED BY <2>1, <2>2, <2>3, <2>4, <2>5, <2>6
<1>5. \A s \in J : f[s] \in J /\ f[s] \in Settled
  <2> HIDE DEF m
  <2>1. \A s \in J : s \notin Settled =>
          f[s] = f[Injecting[s]] /\ Injecting[s] \in J /\ m[Injecting[s]] < m[s] BY <1>4
  <2>2. Loops(f, Settled, J, Injecting, m) BY <1>2, <1>3, <2>1 DEF Loops
  <2> QED BY <2>2, LoopEnds
<1> QED BY <1>1, <1>5

(* A stream of these fragments: every model at its place and no other there, *)
(* the fragments of a packet in order. *)
Models_(s) ==
  /\ \A i \in DOMAIN Models : Models[i].index < Len(s) => s[Models[i].index + 1] = <<"model", i>>
  /\ \A k \in DOMAIN s : s[k][1] = "model" => /\ s[k][2] \in DOMAIN Models
                                              /\ Models[s[k][2]].index + 1 = k
ListsFragments(s, F) == F = {s[k] : k \in {k \in DOMAIN s : s[k][1] # "model"}}
Ordered(s) ==
  \A i, j \in {k \in DOMAIN s : s[k][1] # "model"} :
    i < j /\ s[i][1] = s[j][1] => s[i][2] < s[j][2]
Flow(s, F) == s \in Stream /\ Models_(s) /\ ListsFragments(s, F) /\ Ordered(s)
ContinuesAs(s, t) == Len(s) <= Len(t) /\ \A k \in 1..Len(s) : t[k] = s[k]

LEMMA FlowModel ==
  ASSUME ProteanAssumption, NEW s, NEW F, Flow(s, F), s \notin Settled
  PROVE  Flow(Append(s, Shaper!Made(Len(s))), F)
<1> DEFINE n == Len(s)
           t == Append(s, Shaper!Made(n))
<1>1. s \in Stream /\ n \in Nat /\ DOMAIN s = 1..n BY DEF Flow, Stream
<1>2. PICK i \in DOMAIN Models : Models[i].index = n /\ Shaper!Made(n) = <<"model", i>>
  BY <1>1, MadeIs DEF Settled
<1>3. t \in Stream BY <1>1, <1>2 DEF Stream, Buffer
<1>4. DOMAIN t = 1..n + 1 /\ Len(t) = n + 1 /\ t[n + 1] = <<"model", i>> /\ \A k \in 1..n : t[k] = s[k]
  BY <1>1, <1>2 DEF Stream
<1> HIDE DEF t, n
<1>5. \A k \in 1..n + 1 : k \in 1..n \/ k = n + 1 BY <1>1
<1>6. {k \in DOMAIN t : t[k][1] # "model"} = {k \in DOMAIN s : s[k][1] # "model"}
  BY <1>1, <1>4, <1>5
<1>7. Models_(t)
  <2>1. ASSUME NEW j \in DOMAIN Models, Models[j].index < Len(t)
        PROVE  t[Models[j].index + 1] = <<"model", j>>
    <3>1. Models[j].index \in Nat BY ModelsAre
    <3>2. CASE Models[j].index < n
      <4>1. s[Models[j].index + 1] = <<"model", j>> BY <3>2 DEF Flow, Models_, n
      <4>2. Models[j].index + 1 \in 1..n BY <3>1, <3>2, <1>1
      <4> QED BY <4>1, <4>2, <1>4
    <3>3. CASE Models[j].index = n
      <4>1. j = i BY <3>3, <1>2, ModelsAre
      <4> QED BY <4>1, <3>3, <1>4
    <3> QED BY <2>1, <3>1, <3>2, <3>3, <1>1, <1>4
  <2>2. ASSUME NEW k \in DOMAIN t, t[k][1] = "model"
        PROVE  t[k][2] \in DOMAIN Models /\ Models[t[k][2]].index + 1 = k
    <3>1. CASE k \in 1..n BY <3>1, <2>2, <1>1, <1>4 DEF Flow, Models_
    <3>2. CASE k = n + 1 BY <3>2, <1>2, <1>4
    <3> QED BY <3>1, <3>2, <1>4, <1>5
  <2> QED BY <2>1, <2>2 DEF Models_
<1>8. \A k \in {k \in DOMAIN s : s[k][1] # "model"} : t[k] = s[k] BY <1>1, <1>4
<1>9. ListsFragments(t, F) /\ Ordered(t) BY <1>6, <1>8 DEF Flow, ListsFragments, Ordered
<1> QED BY <1>3, <1>7, <1>9 DEF Flow, t, n

LEMMA FlowFragment ==
  ASSUME ProteanAssumption, NEW s, NEW F, Flow(s, F), s \in Settled, NEW buf \in Fragment,
         \A x \in F : x[1] = buf[1] => x[2] < buf[2]
  PROVE  Flow(Append(s, buf), F \cup {buf})
<1> DEFINE n == Len(s)
           t == Append(s, buf)
           Real == {k \in DOMAIN s : s[k][1] # "model"}
<1>1. s \in Stream /\ n \in Nat /\ DOMAIN s = 1..n BY DEF Flow, Stream
<1>2. buf \in Buffer /\ buf[1] \in Packet /\ buf[1] # "model"
  BY DEF Buffer, Fragment, ProteanAssumption
<1>3. t \in Stream BY <1>1, <1>2 DEF Stream
<1>4. DOMAIN t = 1..n + 1 /\ Len(t) = n + 1 /\ t[n + 1] = buf /\ \A k \in 1..n : t[k] = s[k]
  BY <1>1, <1>2 DEF Stream
<1> HIDE DEF t, n
<1>5. \A k \in 1..n + 1 : k \in 1..n \/ k = n + 1 BY <1>1
<1>6. {k \in DOMAIN t : t[k][1] # "model"} = Real \cup {n + 1}
  <2>1. n + 1 \in 1..n + 1 /\ \A k \in 1..n : k \in 1..n + 1 BY <1>1
  <2> QED BY <1>1, <1>2, <1>4, <1>5, <2>1
<1>7. Models_(t)
  <2>1. ASSUME NEW j \in DOMAIN Models, Models[j].index < Len(t)
        PROVE  t[Models[j].index + 1] = <<"model", j>>
    <3>1. Models[j].index \in Nat BY ModelsAre
    <3>2. CASE Models[j].index < n
      <4>1. s[Models[j].index + 1] = <<"model", j>> BY <3>2 DEF Flow, Models_, n
      <4>2. Models[j].index + 1 \in 1..n BY <3>1, <3>2, <1>1
      <4> QED BY <4>1, <4>2, <1>4
    <3>3. CASE Models[j].index = n BY <3>3 DEF Settled, Shaper!At, n
    <3> QED BY <2>1, <3>1, <3>2, <3>3, <1>1, <1>4
  <2>2. ASSUME NEW k \in DOMAIN t, t[k][1] = "model"
        PROVE  t[k][2] \in DOMAIN Models /\ Models[t[k][2]].index + 1 = k
    <3>1. k \in 1..n BY <2>2, <1>2, <1>4, <1>5
    <3> QED BY <3>1, <2>2, <1>1, <1>4 DEF Flow, Models_
  <2> QED BY <2>1, <2>2 DEF Models_
<1>8. \A k \in Real : t[k] = s[k] /\ k < n + 1 BY <1>1, <1>4
<1>9. ListsFragments(t, F \cup {buf})
  <2>1. F = {s[k] : k \in Real} BY DEF Flow, ListsFragments
  <2>2. {t[k] : k \in Real \cup {n + 1}} = F \cup {buf} BY <2>1, <1>4, <1>8
  <2> QED BY <2>2, <1>6 DEF ListsFragments
<1>10. Ordered(t)
  <2>1. ASSUME NEW i \in Real \cup {n + 1}, NEW j \in Real \cup {n + 1}, i < j, t[i][1] = t[j][1]
        PROVE  t[i][2] < t[j][2]
    <3>1. CASE i \in Real /\ j \in Real BY <3>1, <2>1, <1>8 DEF Flow, Ordered
    <3>2. CASE i \in Real /\ j = n + 1
      <4>1. s[i] \in F BY <3>2 DEF Flow, ListsFragments
      <4>2. t[i] = s[i] /\ t[j] = buf BY <3>2, <1>4, <1>8
      <4> QED BY <4>1, <4>2, <2>1
    <3>3. CASE i = n + 1 BY <3>3, <2>1, <1>1, <1>8
    <3> QED BY <3>1, <3>2, <3>3
  <2> QED BY <2>1, <1>6 DEF Ordered
<1> QED BY <1>3, <1>7, <1>9, <1>10 DEF Flow, t

LEMMA FlowInjected ==
  ASSUME ProteanAssumption, NEW s, NEW F, Flow(s, F)
  PROVE  /\ Flow(Shaper!inject_(s), F) /\ Shaper!inject_(s) \in Settled
         /\ ContinuesAs(s, Shaper!inject_(s))
<1> DEFINE J == {t \in Stream : Flow(t, F) /\ ContinuesAs(s, t)}
<1>1. s \in J BY DEF Flow, ContinuesAs, Stream
<1>2. ASSUME NEW t \in J, t \notin Settled PROVE Append(t, Shaper!Made(Len(t))) \in J
  <2>1. Flow(Append(t, Shaper!Made(Len(t))), F) BY <1>2, FlowModel
  <2>2. ContinuesAs(s, Append(t, Shaper!Made(Len(t)))) BY <1>1 DEF ContinuesAs, Stream
  <2> QED BY <2>1, <2>2 DEF Flow
<1>3. J \in SUBSET Stream OBVIOUS
<1>4. Shaper!inject_(s) \in J /\ Shaper!inject_(s) \in Settled
  <2> HIDE DEF J
  <2> QED BY <1>1, <1>2, <1>3, InjectLoop
<1> QED BY <1>4

LEMMA FlowShaped ==
  ASSUME ProteanAssumption, NEW s, NEW F, Flow(s, F), NEW buf \in Fragment,
         \A x \in F : x[1] = buf[1] => x[2] < buf[2]
  PROVE  Flow(Shaper!shape(s, buf), F \cup {buf}) /\ ContinuesAs(s, Shaper!shape(s, buf))
<1>0. s \in Stream /\ Len(s) \in Nat BY DEF Flow, Stream
<1>1. CASE Shaper!firstIndex_ <= Len(s) /\ Len(s) <= Shaper!lastIndex_
  <2> DEFINE t == Shaper!inject_(s)
             u == Append(t, buf)
  <2>1. Flow(t, F) /\ t \in Settled /\ ContinuesAs(s, t) BY FlowInjected
  <2> HIDE DEF t
  <2>2. Flow(u, F \cup {buf}) BY <2>1, FlowFragment
  <2>3. ContinuesAs(s, u) BY <2>1, <1>0 DEF ContinuesAs, Flow, Stream
  <2> HIDE DEF u
  <2>4. Flow(Shaper!inject_(u), F \cup {buf}) /\ ContinuesAs(u, Shaper!inject_(u))
    BY <2>2, FlowInjected
  <2>5. ContinuesAs(s, Shaper!inject_(u))
    <3>1. Len(u) \in Nat /\ Len(Shaper!inject_(u)) \in Nat BY <2>2, <2>4 DEF Flow, Stream
    <3> QED BY <2>3, <2>4, <3>1, <1>0 DEF ContinuesAs
  <2>6. Shaper!shape(s, buf) = Shaper!inject_(u) BY <1>1 DEF Shaper!shape, t, u
  <2> QED BY <2>4, <2>5, <2>6
<1>2. CASE ~(Shaper!firstIndex_ <= Len(s) /\ Len(s) <= Shaper!lastIndex_)
  <2>1. Shaper!shape(s, buf) = Append(s, buf) BY <1>2 DEF Shaper!shape
  <2>2. Shaper!At(Len(s)) = {}
    <3>1. \A i \in DOMAIN Models : Models[i].index # Len(s)
      BY <1>0, <1>2, ModelsAre DEF Last
    <3> QED BY <3>1 DEF Shaper!At
  <2>3. s \in Settled BY <1>0, <2>2 DEF Settled
  <2>4. ContinuesAs(s, Append(s, buf)) BY <1>0 DEF ContinuesAs, Stream
  <2> QED BY <2>1, <2>3, <2>4, FlowFragment
<1> QED BY <1>1, <1>2

(* The fragments of the packets sent. *)
SentOf(packets) == UNION {{<<p, k>> : k \in 1..v1[p]} : p \in packets}
PlaceOf(i) == Models[i].index + 1
ProteanTypes ==
  /\ v1 \in [Packet -> 1..MaxFragments] /\ v2 \subseteq Packet
  /\ v5 \subseteq DOMAIN v3 /\ v4 \in Seq(DOMAIN Models) /\ v7 \in 0..MaxLosses
  /\ v6 \in Seq(v5)
ProteanInv ==
  /\ ProteanTypes /\ Flow(v3, SentOf(v2))
  /\ \A k \in DOMAIN v6 : ~Shaper!IsRemoved(v3[v6[k]])
  /\ v7 = 0 => \A place \in v5 : Shaper!IsRemoved(v3[place]) \/ place \in Shaper!Range(v6)
  /\ \A i \in DOMAIN Models : PlaceOf(i) \in v5 \/ i \in Shaper!Range(v4)

LEMMA ProteanInit == CodecsAssumption /\ Shaper!Init => ProteanInv
<1> SUFFICES ASSUME CodecsAssumption, Shaper!Init PROVE ProteanInv OBVIOUS
<1>0. ProteanAssumption BY DEF CodecsAssumption
<1>1. v2 = {} /\ v3 = <<>> /\ v5 = {} /\ v6 = <<>> /\ v7 = 0 /\ v1 \in [Packet -> 1..MaxFragments]
      /\ v4 = [i \in DOMAIN Models |-> i] /\ MaxLosses \in Nat
  BY DEF Shaper!Init, CodecsAssumption, ProteanAssumption
<1>2. v4 \in Seq(DOMAIN Models) /\ \A i \in DOMAIN Models : i \in Shaper!Range(v4)
  <2>1. DOMAIN Models = 1..Len(Models) /\ Len(Models) \in Nat BY <1>0, ModelsAre
  <2>2. v4 \in Seq(DOMAIN Models) BY <1>1, <2>1
  <2> QED BY <1>1, <2>2 DEF Shaper!Range
<1>3. DOMAIN v3 = {} /\ DOMAIN v6 = {} /\ v6 \in Seq(v5) /\ Len(v3) = 0 /\ v3 \in Stream
  BY <1>1 DEF Stream
<1>4. Flow(v3, SentOf(v2))
  <2>1. SentOf(v2) = {} BY <1>1 DEF SentOf
  <2>2. Models_(v3) /\ Ordered(v3) /\ ListsFragments(v3, {})
    BY <1>0, <1>3, ModelsAre DEF Models_, Ordered, ListsFragments
  <2> QED BY <1>3, <2>1, <2>2 DEF Flow
<1> QED BY <1>1, <1>2, <1>3, <1>4 DEF ProteanInv, ProteanTypes

(* Shaping is a loop over the fragments of a packet. *)
LEMMA TransformIs ==
  ASSUME ProteanAssumption, ProteanTypes, NEW F, Flow(v3, F), NEW p \in Packet, Shaper!transform(p),
         \A x \in F : x[1] # p
  PROVE  Flow(v3', F \cup {<<p, k>> : k \in 1..v1[p]}) /\ ContinuesAs(v3, v3')
<1> DEFINE n == v1[p]
           Is(f) == f = [k \in 0..n |-> IF k = 0 THEN v3 ELSE Shaper!shape(f[k - 1], <<p, k>>)]
           shaped == CHOOSE f : Is(f)
           To(k, s) == Flow(s, F \cup {<<p, j>> : j \in 1..k}) /\ ContinuesAs(v3, s)
<1>0. n \in 1..MaxFragments /\ MaxFragments \in Nat /\ v3' = shaped[n]
  BY DEF Shaper!transform, ProteanTypes, ProteanAssumption
<1> HIDE DEF shaped, n
<1>1. To(0, v3)
  <2>1. {<<p, j>> : j \in 1..0} = {} OBVIOUS
  <2>2. ContinuesAs(v3, v3) BY DEF ContinuesAs, Flow, Stream
  <2> QED BY <2>1, <2>2
<1>2. ASSUME NEW k \in 1..n, NEW s, To(k - 1, s) PROVE To(k, Shaper!shape(s, <<p, k>>))
  <2> DEFINE G == F \cup {<<p, j>> : j \in 1..k - 1}
  <2>1. <<p, k>> \in Fragment BY <1>0 DEF Fragment
  <2>2. \A x \in G : x[1] = <<p, k>>[1] => x[2] < <<p, k>>[2]
    <3>1. \A j \in 1..k - 1 : j < k BY <1>0
    <3> QED BY <3>1
  <2>3. G \cup {<<p, k>>} = F \cup {<<p, j>> : j \in 1..k}
    <3>1. 1..k = (1..k - 1) \cup {k} BY <1>0
    <3> QED BY <3>1
  <2>4. Flow(s, G) /\ ContinuesAs(v3, s) BY <1>2
  <2> HIDE DEF G
  <2>5. Flow(Shaper!shape(s, <<p, k>>), G \cup {<<p, k>>}) /\ ContinuesAs(s, Shaper!shape(s, <<p, k>>))
    BY <2>1, <2>2, <2>4, FlowShaped
  <2>6. ContinuesAs(v3, Shaper!shape(s, <<p, k>>))
    <3>1. Len(v3) \in Nat /\ Len(s) \in Nat /\ Len(Shaper!shape(s, <<p, k>>)) \in Nat
      BY <2>4, <2>5 DEF Flow, Stream
    <3> QED BY <2>4, <2>5, <3>1 DEF ContinuesAs
  <2> QED BY <2>3, <2>5, <2>6
<1> DEFINE Step == [x \in Stream \X Fragment |-> Shaper!shape(x[1], x[2])]
           Do(f, k) == f[0] = v3 /\ \A j \in 1..k : f[j] = Shaper!shape(f[j - 1], <<p, j>>)
<1>3. ASSUME NEW f, Do(f, n) PROVE \A k \in 0..n : To(k, f[k])
  <2> DEFINE T == {k \in Nat : k <= n => To(k, f[k])}
  <2>1. 0 \in T BY <1>1, <1>3
  <2>2. ASSUME NEW k \in Nat, k \in T PROVE k + 1 \in T
    <3> SUFFICES ASSUME k + 1 <= n PROVE To(k + 1, f[k + 1]) OBVIOUS
    <3>1. k + 1 \in 1..n /\ (k + 1) - 1 = k /\ To(k, f[k]) BY <1>0, <2>2
    <3>2. f[k + 1] = Shaper!shape(f[k], <<p, k + 1>>) BY <1>3, <3>1
    <3> HIDE DEF To
    <3> QED BY <1>2, <3>1, <3>2
  <2>3. Nat \subseteq T
    <3> HIDE DEF T
    <3> QED BY <2>1, <2>2, Induction
  <2>4. ASSUME NEW k \in 0..n PROVE To(k, f[k])
    <3>1. k \in Nat /\ k <= n BY <1>0
    <3> HIDE DEF To
    <3> QED BY <2>3, <3>1
  <2> QED BY <2>4
<1>4. \E f : DOMAIN f = 0..n /\ f = [k \in 0..n |-> f[k]] /\ Do(f, n)
  <2> DEFINE T == {k \in Nat : k <= n => \E f : DOMAIN f = 0..k /\ f = [j \in 0..k |-> f[j]] /\ Do(f, k)}
  <2>1. 0 \in T
    <3> DEFINE f == [j \in 0..0 |-> v3]
    <3>1. DOMAIN f = 0..0 /\ f = [j \in 0..0 |-> f[j]] /\ Do(f, 0) OBVIOUS
    <3> HIDE DEF f, Do
    <3> QED BY <3>1
  <2>2. ASSUME NEW k \in Nat, k \in T PROVE k + 1 \in T
    <3> SUFFICES ASSUME k + 1 <= n
                 PROVE  \E f : DOMAIN f = 0..k + 1 /\ f = [j \in 0..k + 1 |-> f[j]] /\ Do(f, k + 1)
      OBVIOUS
    <3>1. PICK f : DOMAIN f = 0..k /\ f = [j \in 0..k |-> f[j]] /\ Do(f, k) BY <1>0, <2>2
    <3> DEFINE g == [j \in 0..k + 1 |-> IF j <= k THEN f[j] ELSE Shaper!shape(f[k], <<p, k + 1>>)]
    <3>2. DOMAIN g = 0..k + 1 /\ g = [j \in 0..k + 1 |-> g[j]] OBVIOUS
    <3>3. g[0] = v3 /\ g[k + 1] = Shaper!shape(f[k], <<p, k + 1>>) /\ \A j \in 0..k : g[j] = f[j]
      BY <3>1
    <3> HIDE DEF g
    <3>4. ASSUME NEW j \in 1..k + 1 PROVE g[j] = Shaper!shape(g[j - 1], <<p, j>>)
      <4>1. CASE j \in 1..k
        <5>1. j - 1 \in 0..k /\ j \in 0..k BY <4>1
        <5> QED BY <4>1, <5>1, <3>1, <3>3
      <4>2. CASE j = k + 1
        <5>1. j - 1 = k /\ k \in 0..k BY <4>2
        <5> QED BY <4>2, <5>1, <3>3
      <4> QED BY <4>1, <4>2
    <3> QED BY <3>2, <3>3, <3>4
  <2>3. Nat \subseteq T
    <3> HIDE DEF T
    <3> QED BY <2>1, <2>2, Induction
  <2>4. n \in Nat /\ n <= n BY <1>0
  <2> QED BY <2>3, <2>4
<1>5. \E f : Is(f)
  <2>1. PICK f : DOMAIN f = 0..n /\ f = [k \in 0..n |-> f[k]] /\ Do(f, n) BY <1>4
  <2> DEFINE g == [k \in 0..n |-> IF k = 0 THEN v3 ELSE Shaper!shape(f[k - 1], <<p, k>>)]
  <2>2. ASSUME NEW k \in 0..n PROVE f[k] = g[k]
    <3>1. CASE k = 0 BY <3>1, <2>1
    <3>2. CASE k # 0
      <4>1. k \in 1..n BY <3>2, <1>0
      <4> QED BY <3>2, <4>1, <2>1
    <3> QED BY <3>1, <3>2
  <2>3. g = [k \in 0..n |-> g[k]] OBVIOUS
  <2> HIDE DEF g
  <2>4. f = g BY <2>1, <2>2, <2>3
  <2> QED BY <2>4 DEF g
<1>6. Is(shaped) BY <1>5 DEF shaped
<1>7. Do(shaped, n)
  <2>1. shaped[0] = v3 BY <1>0, <1>6
  <2>2. ASSUME NEW j \in 1..n PROVE shaped[j] = Shaper!shape(shaped[j - 1], <<p, j>>)
    <3>1. j \in 0..n /\ j # 0 BY <1>0
    <3> QED BY <1>6, <3>1
  <2> QED BY <2>1, <2>2
<1>8. To(n, shaped[n])
  <2>1. n \in 0..n BY <1>0
  <2> HIDE DEF To, Do
  <2> QED BY <1>3, <1>7, <2>1
<1> QED BY <1>0, <1>8 DEF n

LEMMA ProteanTransform ==
  ASSUME ProteanAssumption, ProteanInv, NEW p \in Packet, Shaper!transform(p)
  PROVE  ProteanInv'
<1>0. ProteanTypes /\ Flow(v3, SentOf(v2)) BY DEF ProteanInv
<1>1. /\ p \notin v2 /\ v2' = v2 \cup {p}
      /\ v1' = v1 /\ v4' = v4 /\ v5' = v5 /\ v6' = v6 /\ v7' = v7 BY DEF Shaper!transform
<1>2. SentOf(v2)' = SentOf(v2) \cup {<<p, k>> : k \in 1..v1[p]} BY <1>1 DEF SentOf
<1>3. \A x \in SentOf(v2) : x[1] # p BY <1>1 DEF SentOf
<1>4. Flow(v3', SentOf(v2)') /\ ContinuesAs(v3, v3') BY <1>0, <1>2, <1>3, TransformIs
<1>5. DOMAIN v3 \subseteq DOMAIN v3' /\ \A k \in DOMAIN v3 : v3'[k] = v3[k]
  BY <1>0, <1>4 DEF Flow, ContinuesAs, Stream
<1>6. ProteanTypes' BY <1>0, <1>1, <1>5 DEF ProteanTypes
<1>7. \A k \in DOMAIN v6 : v6[k] \in v5 BY <1>0 DEF ProteanTypes
<1>8. \A place \in v5 : v3'[place] = v3[place] BY <1>0, <1>5 DEF ProteanTypes
<1>9. \A k \in DOMAIN v6' : ~Shaper!IsRemoved(v3'[v6'[k]])
  BY <1>1, <1>7, <1>8 DEF ProteanInv
<1>10. v7' = 0 => \A place \in v5' : Shaper!IsRemoved(v3'[place]) \/ place \in Shaper!Range(v6')
  BY <1>1, <1>8 DEF ProteanInv
<1>11. \A i \in DOMAIN Models : PlaceOf(i) \in v5' \/ i \in Shaper!Range(v4')
  BY <1>1 DEF ProteanInv
<1>12. Flow(v3, SentOf(v2))' BY <1>4
<1> QED BY <1>6, <1>9, <1>10, <1>11, <1>12 DEF ProteanInv

(* Taking an entry out of a list leaves the others. *)
LEMMA WithoutType ==
  ASSUME NEW S, NEW s \in Seq(S), NEW i \in DOMAIN s
  PROVE  /\ Shaper!Without(s, i) \in Seq(S)
         /\ \A x \in Shaper!Range(s) : x # s[i] => x \in Shaper!Range(Shaper!Without(s, i))
<1> DEFINE n == Len(s)
           l == SubSeq(s, 1, i - 1)
           r == SubSeq(s, i + 1, n)
<1>0. n \in Nat /\ i \in 1..n /\ DOMAIN s = 1..n OBVIOUS
<1>1. l \in Seq(S) /\ r \in Seq(S) /\ Len(l) = i - 1 /\ Len(r) = n - i
      /\ (\A k \in 1..i - 1 : l[k] = s[k]) /\ (\A k \in 1..n - i : r[k] = s[i + k]) BY <1>0
<1> HIDE DEF l, r
<1>2. l \o r \in Seq(S) /\ Len(l \o r) = n - 1 /\ DOMAIN (l \o r) = 1..n - 1
      /\ (\A k \in 1..i - 1 : (l \o r)[k] = s[k])
      /\ (\A k \in i..n - 1 : (l \o r)[k] = s[k + 1])
  <2>1. l \o r \in Seq(S) /\ Len(l \o r) = n - 1
    <3>1. l \o r \in Seq(S) /\ Len(l \o r) = Len(l) + Len(r) BY <1>1, ConcatProperties
    <3>2. (i - 1) + (n - i) = n - 1 BY <1>0
    <3> QED BY <3>1, <3>2, <1>1
  <2>2. \A k \in 1..i - 1 : (l \o r)[k] = s[k] BY <1>0, <1>1
  <2>3. ASSUME NEW k \in i..n - 1 PROVE (l \o r)[k] = s[k + 1]
    <3>1. k - (i - 1) \in 1..n - i /\ i + (k - (i - 1)) = k + 1 BY <1>0
    <3>2. (l \o r)[k] = r[k - (i - 1)] BY <1>0, <1>1
    <3> QED BY <3>1, <3>2, <1>1
  <2> QED BY <2>1, <2>2, <2>3
<1>3. Shaper!Without(s, i) = l \o r BY DEF Shaper!Without, l, r
<1> DEFINE t == l \o r
<1>4. ASSUME NEW k \in DOMAIN s, s[k] # s[i] PROVE \E j \in DOMAIN t : t[j] = s[k]
  <2>1. CASE k < i
    <3>1. k \in 1..i - 1 /\ k \in 1..n - 1 BY <2>1, <1>0
    <3> QED BY <3>1, <1>2
  <2>2. CASE k > i
    <3>1. k - 1 \in i..n - 1 /\ k - 1 \in 1..n - 1 /\ (k - 1) + 1 = k BY <2>2, <1>0
    <3> QED BY <3>1, <1>2
  <2>3. k # i BY <1>4
  <2> QED BY <2>1, <2>2, <2>3, <1>0
<1> HIDE DEF t
<1>5. \A x \in Shaper!Range(s) : x # s[i] => x \in Shaper!Range(t) BY <1>4 DEF Shaper!Range
<1> QED BY <1>2, <1>3, <1>5 DEF t

LEMMA ProteanRestore ==
  ASSUME ProteanAssumption, ProteanInv, NEW place \in DOMAIN v3, Shaper!restore(place)
  PROVE  ProteanInv'
<1> DEFINE found == Shaper!findMatchingPacket_(v3[place])
<1>0. ProteanTypes /\ Flow(v3, SentOf(v2)) BY DEF ProteanInv
<1>1. /\ place \in DOMAIN v3 /\ place \notin v5 /\ v5' = v5 \cup {place}
      /\ v1' = v1 /\ v2' = v2 /\ v3' = v3 /\ v7' = v7
      /\ found = {} => v6' = Append(v6, place) /\ v4' = v4
      /\ found # {} => /\ v4' = Shaper!Without(v4, CHOOSE i \in found : \A j \in found : i <= j)
                       /\ v6' = v6 BY DEF Shaper!restore
<1>2. found = {i \in DOMAIN v4 : v3[place] = <<"model", v4[i]>> /\ Models[v4[i]].offset = 0}
  <2>1. \A i \in DOMAIN v4 : v4[i] \in DOMAIN Models BY <1>0 DEF ProteanTypes
  <2> QED BY <2>1, ModelsAre DEF Shaper!findMatchingPacket_, Shaper!Matches
<1> HIDE DEF found
<1>3. v4 \in Seq(DOMAIN Models) /\ v6 \in Seq(v5) /\ DOMAIN v4 \subseteq Nat
  BY <1>0 DEF ProteanTypes
<1>4. v3[place] \in Buffer BY <1>0 DEF Flow, Stream
<1>5. v6 \in Seq(v5') /\ DOMAIN v6 = 1..Len(v6) BY <1>1, <1>3
<1>6. Flow(v3, SentOf(v2))' BY <1>0, <1>1 DEF SentOf
<1>7. CASE found = {}
  <2>1. v6' = Append(v6, place) /\ v4' = v4 BY <1>1, <1>7
  <2>2. ~Shaper!IsRemoved(v3[place])
    <3> SUFFICES ASSUME v3[place][1] = "model", Models[v3[place][2]].offset = 0 PROVE FALSE
      BY DEF Shaper!IsRemoved, Shaper!IsModel
    <3>1. v3[place][2] \in DOMAIN Models /\ PlaceOf(v3[place][2]) = place
      BY <1>0 DEF Flow, Models_, PlaceOf
    <3>2. v3[place] = <<"model", v3[place][2]>> BY <1>4 DEF Buffer
    <3>3. v3[place][2] \in Shaper!Range(v4) BY <3>1, <1>1 DEF ProteanInv
    <3>4. PICK i \in DOMAIN v4 : v4[i] = v3[place][2] BY <3>3 DEF Shaper!Range
    <3> QED BY <3>2, <3>4, <1>2, <1>7
  <2>3. /\ v6' \in Seq(v5') /\ DOMAIN v6' = 1..Len(v6) + 1 /\ v6'[Len(v6) + 1] = place
        /\ \A k \in 1..Len(v6) : v6'[k] = v6[k]
    <3>1. place \in v5' BY <1>1
    <3> QED BY <2>1, <3>1, <1>5
  <2>4. \A k \in DOMAIN v6' : k \in 1..Len(v6) \/ k = Len(v6) + 1 BY <2>3, <1>3
  <2>5. \A k \in DOMAIN v6' : ~Shaper!IsRemoved(v3'[v6'[k]])
    BY <2>2, <2>3, <2>4, <1>1, <1>5 DEF ProteanInv
  <2>6. Shaper!Range(v6) \cup {place} \subseteq Shaper!Range(v6')
    <3>1. Len(v6) + 1 \in DOMAIN v6' /\ \A k \in DOMAIN v6 : k \in DOMAIN v6' /\ v6'[k] = v6[k]
      BY <2>3, <1>3, <1>5
    <3> QED BY <3>1, <2>3 DEF Shaper!Range
  <2>7. v7' = 0 => \A q \in v5' : Shaper!IsRemoved(v3'[q]) \/ q \in Shaper!Range(v6')
    BY <2>6, <1>1 DEF ProteanInv
  <2>8. \A i \in DOMAIN Models : PlaceOf(i) \in v5' \/ i \in Shaper!Range(v4')
    BY <2>1, <1>1 DEF ProteanInv
  <2>9. ProteanTypes' BY <2>1, <2>3, <1>0, <1>1 DEF ProteanTypes
  <2> QED BY <2>5, <2>7, <2>8, <2>9, <1>6 DEF ProteanInv
<1>8. CASE found # {}
  <2> DEFINE at == CHOOSE i \in found : \A j \in found : i <= j
  <2>1. \E i \in found : \A j \in found : i <= j
    <3>1. found \subseteq Nat BY <1>2, <1>3
    <3> QED BY <3>1, <1>8, Least
  <2>2. at \in found BY <2>1
  <2> HIDE DEF at
  <2>3. v4' = Shaper!Without(v4, at) /\ v6' = v6 BY <1>1, <1>8 DEF at
  <2>4. at \in DOMAIN v4 /\ v3[place] = <<"model", v4[at]>> /\ Models[v4[at]].offset = 0
    BY <2>2, <1>2
  <2>5. v4' \in Seq(DOMAIN Models)
        /\ \A x \in Shaper!Range(v4) : x # v4[at] => x \in Shaper!Range(v4')
    BY <2>3, <2>4, <1>3, WithoutType
  <2>6. Shaper!IsRemoved(v3[place]) /\ PlaceOf(v4[at]) = place
    BY <2>4, <1>0 DEF Shaper!IsRemoved, Shaper!IsModel, Flow, Models_, PlaceOf
  <2>7. \A i \in DOMAIN Models : PlaceOf(i) \in v5' \/ i \in Shaper!Range(v4')
    BY <2>5, <2>6, <1>1 DEF ProteanInv
  <2>8. v7' = 0 => \A q \in v5' : Shaper!IsRemoved(v3'[q]) \/ q \in Shaper!Range(v6')
    BY <2>3, <2>6, <1>1 DEF ProteanInv
  <2>9. \A k \in DOMAIN v6' : ~Shaper!IsRemoved(v3'[v6'[k]]) BY <2>3, <1>1 DEF ProteanInv
  <2>10. ProteanTypes' BY <2>3, <2>5, <1>0, <1>1, <1>5 DEF ProteanTypes
  <2> QED BY <2>7, <2>8, <2>9, <2>10, <1>6 DEF ProteanInv
<1> QED BY <1>7, <1>8

LEMMA ProteanStep == CodecsAssumption /\ ProteanInv /\ [Shaper!Next]_(Shaper!vars) => ProteanInv'
<1> SUFFICES ASSUME CodecsAssumption, ProteanInv, [Shaper!Next]_(Shaper!vars) PROVE ProteanInv'
  OBVIOUS
<1>0. ProteanAssumption /\ ProteanTypes /\ Flow(v3, SentOf(v2))
  BY DEF CodecsAssumption, ProteanInv
<1>1. ASSUME NEW p \in Packet, Shaper!transform(p) PROVE ProteanInv'
  BY <1>0, <1>1, ProteanTransform
<1>2. ASSUME NEW place \in DOMAIN v3, Shaper!restore(place) PROVE ProteanInv'
  BY <1>0, <1>2, ProteanRestore
<1>3. ASSUME NEW place \in DOMAIN v3, Shaper!Lose(place) PROVE ProteanInv'
  <2>1. /\ v7 < MaxLosses /\ v5' = v5 \cup {place} /\ v7' = v7 + 1
        /\ v1' = v1 /\ v2' = v2 /\ v3' = v3 /\ v4' = v4 /\ v6' = v6 BY <1>3 DEF Shaper!Lose
  <2>2. v7' # 0 /\ v7' \in 0..MaxLosses BY <2>1, <1>0 DEF ProteanTypes, ProteanAssumption
  <2>3. v6 \in Seq(v5') BY <2>1, <1>0 DEF ProteanTypes
  <2>4. ProteanTypes' BY <2>1, <2>2, <2>3, <1>0 DEF ProteanTypes
  <2>5. Flow(v3, SentOf(v2))' BY <2>1, <1>0 DEF SentOf
  <2>6. \A i \in DOMAIN Models : PlaceOf(i) \in v5' \/ i \in Shaper!Range(v4')
    BY <2>1 DEF ProteanInv
  <2>7. \A k \in DOMAIN v6' : ~Shaper!IsRemoved(v3'[v6'[k]]) BY <2>1 DEF ProteanInv
  <2> QED BY <2>2, <2>4, <2>5, <2>6, <2>7 DEF ProteanInv
<1>4. CASE UNCHANGED Shaper!vars
  <2>1. /\ v1' = v1 /\ v2' = v2 /\ v3' = v3 /\ v4' = v4 /\ v5' = v5 /\ v6' = v6 /\ v7' = v7
    BY <1>4 DEF Shaper!vars
  <2> QED BY <2>1 DEF ProteanInv, ProteanTypes, SentOf
<1> QED BY <1>1, <1>2, <1>3, <1>4 DEF Shaper!Next

LEMMA ProteanHolds == CodecsAssumption /\ ProteanInv => Shaper!TypeOK /\ Shaper!ShapersAgree
<1> SUFFICES ASSUME CodecsAssumption, ProteanInv PROVE Shaper!TypeOK /\ Shaper!ShapersAgree
  OBVIOUS
<1>0. ProteanAssumption /\ ProteanTypes /\ Flow(v3, SentOf(v2))
  BY DEF CodecsAssumption, ProteanInv
<1>1. Shaper!TypeOK
  <2>1. Shaper!Range(v4) \subseteq DOMAIN Models /\ Shaper!Range(v6) \subseteq v5
    BY <1>0 DEF ProteanTypes, Shaper!Range
  <2> QED BY <2>1, <1>0 DEF ProteanTypes, Shaper!TypeOK
<1>2. Shaper!WholeRemoved BY DEF ProteanInv, Shaper!WholeRemoved
<1>3. {place \in DOMAIN v3 : ~Shaper!IsModel(v3[place])} = {k \in DOMAIN v3 : v3[k][1] # "model"}
  BY DEF Shaper!IsModel
<1>4. {v3[place] : place \in {k \in DOMAIN v3 : v3[k][1] # "model"}}
        = UNION {{<<p, k>> : k \in 1..v1[p]} : p \in v2}
  BY <1>0 DEF Flow, ListsFragments, SentOf
<1>5. \A i \in DOMAIN Models : Models[i].index < Len(v3) => v3[Models[i].index + 1] = <<"model", i>>
  BY <1>0 DEF Flow, Models_
<1>6. \A i, j \in {k \in DOMAIN v3 : v3[k][1] # "model"} :
        i < j /\ v3[i][1] = v3[j][1] => v3[i][2] < v3[j][2] BY <1>0 DEF Flow, Ordered
<1>7. Shaper!StreamsAgree BY <1>3, <1>4, <1>5, <1>6 DEF Shaper!StreamsAgree
<1> QED BY <1>1, <1>2, <1>7 DEF Shaper!ShapersAgree

----------
(* Fragments.  v1 is the length, v2 sent, v3 the network, v4 tracker_, v5 *)
(* delivered. *)
FitsIn(n) == n + Cut!HEADER_SIZE + Cut!IV_SIZE + Cut!Fill(n) <= maxLength_
FirstOf(n) == maxLength_ - (Cut!HEADER_SIZE + Cut!IV_SIZE + Cut!Fill(n))
Rule(f, n) == IF FitsIn(n) THEN <<n>> ELSE f[FirstOf(n)] \o f[n - FirstOf(n)]
Until(f, m) == f = [k \in 0..m |-> f[k]] /\ \A k \in 0..m : f[k] = Rule(f, k)
Approx(m) == CHOOSE f : Until(f, m)

LEMMA FirstIsLess ==
  ASSUME FragmentsAssumption, NEW n \in Nat
  PROVE  /\ Cut!Fill(n) \in 1..16
         /\ FitsIn(n) = (n + 52 + Cut!Fill(n) <= maxLength_)
         /\ ~FitsIn(n) => FirstOf(n) \in 1..n - 1 /\ n - FirstOf(n) \in 1..n - 1
         /\ FitsIn(0)
<1>1. \A m \in Nat : Cut!Fill(m) \in 1..16
  BY DEF Cut!Fill, Cut!CHUNK_SIZE, Cut!HEADER_SIZE, Cut!IV_SIZE
<1>2. maxLength_ \in Nat /\ maxLength_ > 68 BY DEF FragmentsAssumption
<1>3. \A m \in Nat : FitsIn(m) = (m + 52 + Cut!Fill(m) <= maxLength_)
  BY <1>1 DEF FitsIn, Cut!HEADER_SIZE, Cut!IV_SIZE
<1>4. FirstOf(n) = maxLength_ - (52 + Cut!Fill(n))
  BY DEF FirstOf, Cut!HEADER_SIZE, Cut!IV_SIZE
<1>5. ~FitsIn(n) => FirstOf(n) \in 1..n - 1 /\ n - FirstOf(n) \in 1..n - 1
  <2>1. Cut!Fill(n) \in 1..16 BY <1>1
  <2>2. FitsIn(n) <=> n + 52 + Cut!Fill(n) <= maxLength_ BY <1>3
  <2> DEFINE fill == Cut!Fill(n)
             first == FirstOf(n)
             fits == FitsIn(n)
  <2>3. fill \in 1..16 /\ (fits <=> n + 52 + fill <= maxLength_) /\ first = maxLength_ - (52 + fill)
    BY <2>1, <2>2, <1>4
  <2> HIDE DEF fill, first, fits
  <2>4. ~fits => first \in 1..n - 1 /\ n - first \in 1..n - 1 BY <2>3, <1>2
  <2> QED BY <2>4 DEF first, fits
<1>6. FitsIn(0)
  <2>1. Cut!Fill(0) \in 1..16 BY <1>1
  <2>2. FitsIn(0) <=> 0 + 52 + Cut!Fill(0) <= maxLength_ BY <1>3
  <2> DEFINE fill == Cut!Fill(0)
  <2>3. fill \in 1..16 /\ (FitsIn(0) <=> 0 + 52 + fill <= maxLength_) BY <2>1, <2>2
  <2> HIDE DEF fill
  <2> QED BY <2>3, <1>2
<1> QED BY <1>1, <1>3, <1>5, <1>6

LEMMA RuleLocal ==
  ASSUME FragmentsAssumption, NEW n \in Nat, NEW f, NEW g, \A k \in 0..n - 1 : f[k] = g[k]
  PROVE  Rule(f, n) = Rule(g, n)
<1>1. CASE FitsIn(n) BY <1>1 DEF Rule
<1>2. CASE ~FitsIn(n)
  <2>1. FirstOf(n) \in 0..n - 1 /\ n - FirstOf(n) \in 0..n - 1 BY <1>2, FirstIsLess
  <2> QED BY <1>2, <2>1 DEF Rule
<1> QED BY <1>1, <1>2

LEMMA UntilSame ==
  ASSUME FragmentsAssumption, NEW m \in Nat, NEW n \in Nat, NEW f, NEW g, Until(f, m), Until(g, n)
  PROVE  \A k \in Nat : k <= m /\ k <= n => f[k] = g[k]
<1> DEFINE Bad == {k \in Nat : k <= m /\ k <= n /\ f[k] # g[k]}
<1> SUFFICES ASSUME Bad # {} PROVE FALSE OBVIOUS
<1>1. PICK k \in Bad : \A j \in Bad : k <= j
  <2>1. Bad \subseteq Nat OBVIOUS
  <2> HIDE DEF Bad
  <2> QED BY <2>1, Least
<1>2. k \in 0..m /\ k \in 0..n OBVIOUS
<1>3. \A j \in 0..k - 1 : f[j] = g[j]
  <2> SUFFICES ASSUME NEW j \in 0..k - 1, f[j] # g[j] PROVE FALSE OBVIOUS
  <2>1. j \in Bad /\ j < k BY <1>2
  <2> QED BY <1>1, <2>1
<1>4. Rule(f, k) = Rule(g, k) BY <1>3, RuleLocal
<1> QED BY <1>2, <1>4 DEF Until

LEMMA UntilExists == FragmentsAssumption => \A m \in Nat : \E f : Until(f, m)
<1> SUFFICES ASSUME FragmentsAssumption PROVE \A m \in Nat : \E f : Until(f, m) OBVIOUS
<1> DEFINE T == {m \in Nat : \E f : Until(f, m)}
<1>1. 0 \in T
  <2> DEFINE f == [k \in 0..0 |-> <<0>>]
  <2>1. f = [k \in 0..0 |-> f[k]] /\ f[0] = <<0>> OBVIOUS
  <2> HIDE DEF f
  <2>2. \A k \in 0..0 : k = 0 OBVIOUS
  <2>3. Rule(f, 0) = <<0>> BY FirstIsLess DEF Rule
  <2>4. Until(f, 0) BY <2>1, <2>2, <2>3 DEF Until
  <2> QED BY <2>4
<1>2. ASSUME NEW m \in Nat, m \in T PROVE m + 1 \in T
  <2>1. PICK f : Until(f, m) BY <1>2
  <2> DEFINE g == [k \in 0..m + 1 |-> IF k <= m THEN f[k] ELSE Rule(f, m + 1)]
  <2>2. g = [k \in 0..m + 1 |-> g[k]] /\ g[m + 1] = Rule(f, m + 1) /\ \A k \in 0..m : g[k] = f[k]
    OBVIOUS
  <2> HIDE DEF g
  <2>3. ASSUME NEW k \in 0..m + 1 PROVE g[k] = Rule(g, k)
    <3>1. \A j \in 0..k - 1 : f[j] = g[j]
      <4>1. \A j \in 0..k - 1 : j \in 0..m OBVIOUS
      <4> QED BY <4>1, <2>2
    <3>2. Rule(f, k) = Rule(g, k) BY <3>1, RuleLocal
    <3>3. g[k] = Rule(f, k)
      <4>1. CASE k <= m BY <4>1, <2>1, <2>2 DEF Until
      <4>2. CASE k = m + 1 BY <4>2, <2>2
      <4> QED BY <4>1, <4>2
    <3> QED BY <3>2, <3>3
  <2>4. Until(g, m + 1) BY <2>2, <2>3 DEF Until
  <2> QED BY <2>4
<1>3. Nat \subseteq T
  <2> HIDE DEF T
  <2> QED BY <1>1, <1>2, Induction
<1> QED BY <1>3

(* makeFragments_ does what it says. *)
LEMMA MakesFragments ==
  FragmentsAssumption => \A n \in Nat : Cut!makeFragments_[n] = Rule(Cut!makeFragments_, n)
<1> SUFFICES ASSUME FragmentsAssumption
             PROVE  \A n \in Nat : Cut!makeFragments_[n] = Rule(Cut!makeFragments_, n)
  OBVIOUS
<1> DEFINE Is(f) == f = [n \in Nat |->
             IF n + Cut!HEADER_SIZE + Cut!IV_SIZE + Cut!Fill(n) <= maxLength_ THEN <<n>>
             ELSE LET first == maxLength_ - (Cut!HEADER_SIZE + Cut!IV_SIZE + Cut!Fill(n))
                  IN  f[first] \o f[n - first]]
           all == [n \in Nat |-> Approx(n)[n]]
<1>1. \A n \in Nat : Until(Approx(n), n) BY UntilExists DEF Approx
<1>2. ASSUME NEW n \in Nat PROVE all[n] = Rule(all, n)
  <2>1. ASSUME NEW k \in 0..n - 1 PROVE Approx(n)[k] = all[k]
    <3>1. k \in Nat /\ k <= n /\ k <= k OBVIOUS
    <3> QED BY <3>1, <1>1, UntilSame
  <2>2. Approx(n)[n] = Rule(Approx(n), n)
    <3>1. n \in 0..n OBVIOUS
    <3> QED BY <3>1, <1>1 DEF Until
  <2> HIDE DEF all
  <2>3. Rule(Approx(n), n) = Rule(all, n) BY <2>1, RuleLocal
  <2> QED BY <2>2, <2>3 DEF all
<1>3. Is(all)
  <2> DEFINE g == [n \in Nat |-> Rule(all, n)]
  <2>1. all = [n \in Nat |-> all[n]] /\ g = [n \in Nat |-> g[n]] OBVIOUS
  <2>2. \A n \in Nat : all[n] = g[n] BY <1>2
  <2>3. all = g
    <3> HIDE DEF all, g
    <3> QED BY <2>1, <2>2
  <2> HIDE DEF all
  <2> QED BY <2>3 DEF Rule, FitsIn, FirstOf
<1> HIDE DEF all
<1>4. Is(Cut!makeFragments_) BY <1>3 DEF Cut!makeFragments_
<1> QED BY <1>4 DEF Rule, FitsIn, FirstOf

(* The bytes of a list of lengths. *)
Size == Nat
None_ == 0
Plus == [p \in Size \X Size |-> p[1] + p[2]]

LEMMA PlusType == Maps(Plus, Size, Size) /\ None_ \in Size BY DEF Maps, Plus, Size, None_

LEMMA BytesIs ==
  ASSUME NEW s \in Seq(Size)
  PROVE  Cut!Bytes(s) = Runs(Plus, None_, s)
<1> DEFINE Is(f) == f = [k \in 0..Len(s) |-> IF k = 0 THEN 0 ELSE f[k - 1] + s[k]]
           until == CHOOSE f : Is(f)
<1>0. \A i, j \in Size : Plus[<<i, j>>] = i + j BY DEF Plus
<1>1. PICK r : IsRun(r, Plus, None_, s, Size) BY PlusType, RunExists
<1>2. Is(r)
  <2> DEFINE g == [k \in 0..Len(s) |-> IF k = 0 THEN 0 ELSE r[k - 1] + s[k]]
  <2>1. ASSUME NEW k \in 0..Len(s) PROVE r[k] = g[k]
    <3>1. CASE k = 0 BY <3>1, <1>1 DEF IsRun, None_
    <3>2. CASE k # 0
      <4>1. k \in 1..Len(s) /\ k - 1 \in 0..Len(s) BY <3>2
      <4>2. r[k] = Plus[<<r[k - 1], s[k]>>] /\ r[k - 1] \in Size BY <4>1, <1>1 DEF IsRun
      <4> QED BY <3>2, <4>1, <4>2, <1>0
    <3> QED BY <3>1, <3>2
  <2>2. g = [k \in 0..Len(s) |-> g[k]] /\ r = [k \in 0..Len(s) |-> r[k]] BY <1>1 DEF IsRun
  <2> HIDE DEF g
  <2>3. r = g BY <2>1, <2>2
  <2> QED BY <2>3 DEF g
<1>3. Is(until) BY <1>2
<1> HIDE DEF until
<1>4. Tracks(until, Plus, None_, s, Size)
  <2>1. until[0] = None_ BY <1>3 DEF None_
  <2>2. ASSUME NEW k \in 1..Len(s), until[k - 1] \in Size PROVE until[k] = Plus[<<until[k - 1], s[k]>>]
    <3>1. k \in 0..Len(s) /\ k # 0 /\ s[k] \in Size OBVIOUS
    <3> QED BY <2>2, <3>1, <1>0, <1>3
  <2> QED BY <2>1, <2>2 DEF Tracks
<1>5. until[Len(s)] = Runs(Plus, None_, s) BY PlusType, <1>4, RunsTo
<1> QED BY <1>5 DEF Cut!Bytes, until

LEMMA BytesJoin ==
  /\ \A n \in Nat : Cut!Bytes(<<n>>) = n
  /\ \A s, t \in Seq(Nat) : Cut!Bytes(s \o t) = Cut!Bytes(s) + Cut!Bytes(t)
  /\ \A s \in Seq(Nat) : Cut!Bytes(s) \in Nat
<1>1. /\ Cut!Bytes(<<>>) = 0
      /\ \A s \in Seq(Nat) : Cut!Bytes(s) \in Nat
      /\ \A s \in Seq(Nat), y \in Nat : Cut!Bytes(Append(s, y)) = Cut!Bytes(s) + y
  <2>0. \A i, j \in Size : Plus[<<i, j>>] = i + j BY DEF Plus
  <2>1. /\ Runs(Plus, None_, <<>>) = None_
        /\ \A s \in Seq(Size) : Runs(Plus, None_, s) \in Size
        /\ \A s \in Seq(Size), y \in Size :
             Runs(Plus, None_, Append(s, y)) = Plus[<<Runs(Plus, None_, s), y>>]
    BY PlusType, RunsStep
  <2>2. <<>> \in Seq(Size) /\ \A s \in Seq(Size), y \in Size : Append(s, y) \in Seq(Size)
    OBVIOUS
  <2>3. \A s \in Seq(Size) : Cut!Bytes(s) = Runs(Plus, None_, s) /\ Cut!Bytes(s) \in Size
    BY <2>1, BytesIs
  <2>4. ASSUME NEW s \in Seq(Size), NEW y \in Size PROVE Cut!Bytes(Append(s, y)) = Cut!Bytes(s) + y
    <3>1. Cut!Bytes(Append(s, y)) = Plus[<<Cut!Bytes(s), y>>] BY <2>1, <2>2, <2>3
    <3>2. Cut!Bytes(s) \in Size BY <2>3
    <3> QED BY <3>1, <3>2, <2>0
  <2>5. Cut!Bytes(<<>>) = None_ BY <2>1, <2>2, <2>3
  <2> QED BY <2>3, <2>4, <2>5 DEF Size, None_
<1>2. ASSUME NEW n \in Nat PROVE Cut!Bytes(<<n>>) = n
  <2>1. <<n>> = Append(<<>>, n) /\ <<>> \in Seq(Nat) OBVIOUS
  <2>2. Cut!Bytes(Append(<<>>, n)) = 0 + n BY <2>1, <1>1
  <2> QED BY <2>1, <2>2
<1>3. ASSUME NEW s \in Seq(Nat) PROVE \A t \in Seq(Nat) : Cut!Bytes(s \o t) = Cut!Bytes(s) + Cut!Bytes(t)
  <2> DEFINE T == {t \in Seq(Nat) : Cut!Bytes(s \o t) = Cut!Bytes(s) + Cut!Bytes(t)}
  <2>1. <<>> \in T
    <3>1. s \o <<>> = s OBVIOUS
    <3> QED BY <3>1, <1>1
  <2>2. ASSUME NEW t \in Seq(Nat), NEW y \in Nat, t \in T PROVE Append(t, y) \in T
    <3>1. s \o Append(t, y) = Append(s \o t, y) /\ s \o t \in Seq(Nat) /\ Append(t, y) \in Seq(Nat)
      OBVIOUS
    <3>2. Cut!Bytes(Append(s \o t, y)) = Cut!Bytes(s \o t) + y BY <3>1, <1>1
    <3>3. Cut!Bytes(Append(t, y)) = Cut!Bytes(t) + y /\ Cut!Bytes(s \o t) = Cut!Bytes(s) + Cut!Bytes(t)
      BY <1>1, <2>2
    <3>4. Cut!Bytes(s) \in Nat /\ Cut!Bytes(t) \in Nat BY <1>1
    <3> DEFINE had == Cut!Bytes(s)
               more == Cut!Bytes(t)
    <3>5. Cut!Bytes(s \o Append(t, y)) = (had + more) + y /\ Cut!Bytes(Append(t, y)) = more + y
      BY <3>1, <3>2, <3>3
    <3>6. had \in Nat /\ more \in Nat BY <3>4
    <3> HIDE DEF had, more
    <3>7. (had + more) + y = had + (more + y) BY <3>6
    <3>8. Cut!Bytes(s \o Append(t, y)) = Cut!Bytes(s) + Cut!Bytes(Append(t, y))
      BY <3>5, <3>7 DEF had, more
    <3> QED BY <3>1, <3>8
  <2>3. Seq(Nat) \subseteq T
    <3> HIDE DEF T
    <3> QED BY <2>1, <2>2, SequenceInduction
  <2> QED BY <2>3
<1> QED BY <1>1, <1>2, <1>3

(* Every length is cut into fragments that hold all of it, and fit. *)
Whole(n, s) ==
  /\ s \in Seq(Nat) /\ s # <<>> /\ Cut!Bytes(s) = n
  /\ \A k \in 1..Len(s) : Cut!HEADER_SIZE + s[k] + Cut!Fill(s[k]) <= maxLength_

LEMMA FragmentsWhole == FragmentsAssumption => \A n \in Nat : Whole(n, Cut!makeFragments_[n])
<1> SUFFICES ASSUME FragmentsAssumption PROVE \A n \in Nat : Whole(n, Cut!makeFragments_[n])
  OBVIOUS
<1> DEFINE Bad == {n \in Nat : ~Whole(n, Cut!makeFragments_[n])}
<1> SUFFICES ASSUME Bad # {} PROVE FALSE OBVIOUS
<1>1. PICK n \in Bad : \A j \in Bad : n <= j
  <2>1. Bad \subseteq Nat OBVIOUS
  <2> HIDE DEF Bad
  <2> QED BY <2>1, Least
<1>2. n \in Nat /\ ~Whole(n, Cut!makeFragments_[n]) OBVIOUS
<1>3. \A j \in Nat : j < n => Whole(j, Cut!makeFragments_[j]) BY <1>1, <1>2
<1> HIDE DEF Bad
<1>4. CASE FitsIn(n)
  <2> DEFINE s == <<n>>
  <2>1. Cut!makeFragments_[n] = s BY <1>2, <1>4, MakesFragments DEF Rule
  <2>2. s \in Seq(Nat) /\ s # <<>> /\ Len(s) = 1 /\ s[1] = n BY <1>2
  <2>3. Cut!Bytes(s) = n BY <1>2, BytesJoin
  <2>4. Cut!HEADER_SIZE + n + Cut!Fill(n) <= maxLength_
    <3>1. Cut!Fill(n) \in 1..16 /\ n + 52 + Cut!Fill(n) <= maxLength_
      BY <1>2, <1>4, FirstIsLess
    <3>2. maxLength_ \in Nat BY DEF FragmentsAssumption
    <3> QED BY <3>1, <3>2, <1>2 DEF Cut!HEADER_SIZE
  <2> HIDE DEF s
  <2>5. \A k \in 1..Len(s) : k = 1 BY <2>2
  <2> QED BY <1>2, <2>1, <2>2, <2>3, <2>4, <2>5 DEF Whole
<1>5. CASE ~FitsIn(n)
  <2> DEFINE f == FirstOf(n)
             s == Cut!makeFragments_[f]
             t == Cut!makeFragments_[n - f]
  <2>1. f \in Nat /\ f < n /\ n - f \in Nat /\ n - f < n BY <1>2, <1>5, FirstIsLess
  <2>2. Cut!makeFragments_[n] = s \o t BY <1>2, <1>5, MakesFragments DEF Rule
  <2>3. Whole(f, s) /\ Whole(n - f, t) BY <1>3, <2>1
  <2> HIDE DEF f, s, t
  <2>4. s \in Seq(Nat) /\ t \in Seq(Nat) /\ s # <<>> BY <2>3 DEF Whole
  <2>5. /\ s \o t \in Seq(Nat) /\ Len(s \o t) = Len(s) + Len(t)
        /\ \A i \in 1..Len(s) + Len(t) : (s \o t)[i] = IF i <= Len(s) THEN s[i] ELSE t[i - Len(s)]
    BY <2>4, ConcatProperties
  <2>6. Len(s) \in Nat /\ Len(s) > 0 /\ Len(t) \in Nat BY <2>4
  <2>7. s \o t # <<>> BY <2>5, <2>6
  <2>8. Cut!Bytes(s \o t) = n
    <3>1. Cut!Bytes(s) = f /\ Cut!Bytes(t) = n - f BY <2>3 DEF Whole
    <3>2. Cut!Bytes(s \o t) = f + (n - f) BY <3>1, <2>4, BytesJoin
    <3> QED BY <3>2, <2>1, <1>2
  <2>9. ASSUME NEW k \in 1..Len(s \o t)
        PROVE  Cut!HEADER_SIZE + (s \o t)[k] + Cut!Fill((s \o t)[k]) <= maxLength_
    <3>1. CASE k <= Len(s)
      <4>1. k \in 1..Len(s) /\ (s \o t)[k] = s[k] BY <3>1, <2>5, <2>6
      <4> QED BY <4>1, <2>3 DEF Whole
    <3>2. CASE k > Len(s)
      <4>1. k - Len(s) \in 1..Len(t) /\ (s \o t)[k] = t[k - Len(s)] BY <3>2, <2>5, <2>6
      <4> QED BY <4>1, <2>3 DEF Whole
    <3> QED BY <3>1, <3>2, <2>5, <2>6
  <2> QED BY <1>2, <2>2, <2>5, <2>7, <2>8, <2>9 DEF Whole
<1> QED BY <1>4, <1>5

(* A packet that is being put together: what is missing is counted. *)
Tracked(t, n) ==
  /\ t = [pieces |-> t.pieces, counter |-> t.counter]
  /\ t.pieces \subseteq 1..n /\ t.pieces # {} /\ t.counter \in Nat \ {0}
  /\ t.counter + Cardinality(t.pieces) = n
FragmentsInv ==
  /\ v1 \in [Packet -> Lengths] /\ v2 \subseteq Packet
  /\ \A f \in v3 : f[1] \in Packet /\ f[2] \in 1..Cut!Count(f[1])
  /\ \E D : v4 \in [Packet -> D]
  /\ \A p \in Packet : v4[p] = Cut!Untracked \/ Tracked(v4[p], Cut!Count(p))
  /\ \A d \in v5 : d[1] \in Packet /\ d[2] = 1..Cut!Count(d[1])

LEMMA CountIs ==
  ASSUME FragmentsAssumption, v1 \in [Packet -> Lengths], NEW p \in Packet
  PROVE  Whole(v1[p], Cut!Pieces(p)) /\ Cut!Count(p) \in Nat \ {0}
<1>1. v1[p] \in Nat BY DEF FragmentsAssumption
<1>2. Whole(v1[p], Cut!Pieces(p)) BY <1>1, FragmentsWhole DEF Cut!Pieces
<1> QED BY <1>2 DEF Whole, Cut!Count

LEMMA FragmentsInit == Cut!Init => FragmentsInv
<1> SUFFICES ASSUME Cut!Init PROVE FragmentsInv OBVIOUS
<1>1. v4 \in [Packet -> {Cut!Untracked}] BY DEF Cut!Init
<1> QED BY <1>1 DEF Cut!Init, FragmentsInv

(* One more piece. *)
LEMMA AddsPiece ==
  ASSUME NEW n \in Nat \ {0}, NEW t, t = Cut!Untracked \/ Tracked(t, n), NEW k \in 1..n
  PROVE  LET pieces  == t.pieces \cup {k}
             counter == IF t = Cut!Untracked THEN n - 1 ELSE IF k \in t.pieces THEN t.counter
                        ELSE t.counter - 1
         IN  IF counter = 0 THEN pieces = 1..n
             ELSE Tracked([pieces |-> pieces, counter |-> counter], n)
<1> DEFINE pieces  == t.pieces \cup {k}
           counter == IF t = Cut!Untracked THEN n - 1 ELSE IF k \in t.pieces THEN t.counter
                      ELSE t.counter - 1
<1>0. IsFiniteSet(1..n) /\ Cardinality(1..n) = n BY FS_Interval
<1>1. pieces \subseteq 1..n /\ pieces # {} /\ counter \in Nat /\ counter + Cardinality(pieces) = n
  <2>1. CASE t = Cut!Untracked
    <3>1. t.pieces = {} /\ pieces = {k} BY <2>1 DEF Cut!Untracked
    <3>2. Cardinality({k}) = 1 BY FS_Singleton
    <3>3. counter = n - 1 BY <2>1
    <3> HIDE DEF counter
    <3> QED BY <3>1, <3>2, <3>3
  <2>2. CASE t # Cut!Untracked
    <3>1. Tracked(t, n) BY <2>2
    <3>2. t.pieces \subseteq 1..n /\ t.counter \in Nat \ {0} /\ t.counter + Cardinality(t.pieces) = n
      BY <3>1 DEF Tracked
    <3>3. IsFiniteSet(t.pieces) /\ Cardinality(t.pieces) \in Nat
      BY <3>2, <1>0, FS_Subset, FS_CardinalityType
    <3>4. Cardinality(pieces) = IF k \in t.pieces THEN Cardinality(t.pieces) ELSE Cardinality(t.pieces) + 1
      BY <3>3, FS_AddElement
    <3>5. counter = IF k \in t.pieces THEN t.counter ELSE t.counter - 1 BY <2>2
    <3>6. pieces \subseteq 1..n /\ pieces # {} BY <3>2
    <3> HIDE DEF counter, pieces
    <3> QED BY <3>2, <3>3, <3>4, <3>5, <3>6
  <2> QED BY <2>1, <2>2
<1>2. CASE counter = 0
  <2>1. Cardinality(pieces) = n
    <3>1. Cardinality(pieces) \in Nat BY <1>0, <1>1, FS_Subset, FS_CardinalityType
    <3> HIDE DEF counter, pieces
    <3> QED BY <1>1, <1>2, <3>1
  <2>2. pieces = 1..n
    <3> HIDE DEF pieces
    <3> QED BY <2>1, <1>0, <1>1, FS_Subset
  <2> QED BY <1>2, <2>2
<1>3. CASE counter # 0
  <2> DEFINE u == [pieces |-> pieces, counter |-> counter]
  <2>1. Tracked(u, n)
    <3> HIDE DEF pieces, counter
    <3>1. u.pieces = pieces /\ u.counter = counter /\ u = [pieces |-> u.pieces, counter |-> u.counter]
      OBVIOUS
    <3> HIDE DEF u
    <3> QED BY <3>1, <1>1, <1>3 DEF Tracked
  <2> QED BY <1>3, <2>1
<1> QED BY <1>2, <1>3

LEMMA FragmentsStep == CodecsAssumption /\ FragmentsInv /\ [Cut!Next]_(Cut!vars) => FragmentsInv'
<1> SUFFICES ASSUME CodecsAssumption, FragmentsInv, [Cut!Next]_(Cut!vars) PROVE FragmentsInv'
  OBVIOUS
<1>0. FragmentsAssumption /\ v1 \in [Packet -> Lengths]
  BY DEF CodecsAssumption, FragmentsInv
<1>1. v1' = v1
  BY DEF Cut!Next, Cut!vars, Cut!Transform, Cut!reap_, Cut!restore, Cut!Received, Cut!Lose
<1>2. \A p : Cut!Count(p)' = Cut!Count(p) BY <1>1 DEF Cut!Count, Cut!Pieces
<1>3. ASSUME NEW p \in Packet, Cut!Transform(p) PROVE FragmentsInv'
  <2>1. /\ v2' = v2 \cup {p} /\ v3' = v3 \cup {<<p, k>> : k \in 1..Cut!Count(p)}
        /\ v4' = v4 /\ v5' = v5 BY <1>3 DEF Cut!Transform
  <2>2. \A f \in v3' : f[1] \in Packet /\ f[2] \in 1..Cut!Count(f[1])'
    <3>1. \A f \in v3 : f[1] \in Packet /\ f[2] \in 1..Cut!Count(f[1]) BY DEF FragmentsInv
    <3> QED BY <3>1, <2>1, <1>2
  <2> QED BY <2>1, <2>2, <1>1, <1>2 DEF FragmentsInv
<1>4. ASSUME NEW p \in Packet, Cut!reap_(p) PROVE FragmentsInv'
  <2>1. v2' = v2 /\ v3' = v3 /\ v5' = v5 /\ v4' = [v4 EXCEPT ![p] = Cut!Untracked]
    BY <1>4 DEF Cut!reap_
  <2>2. PICK D : v4 \in [Packet -> D] BY DEF FragmentsInv
  <2>3. v4' \in [Packet -> D \cup {Cut!Untracked}]
        /\ \A q \in Packet : v4'[q] = IF q = p THEN Cut!Untracked ELSE v4[q] BY <2>1, <2>2
  <2>4. \A q \in Packet : v4'[q] = Cut!Untracked \/ Tracked(v4'[q], Cut!Count(q)')
    BY <2>3, <1>2 DEF FragmentsInv
  <2> QED BY <2>1, <2>3, <2>4, <1>1, <1>2 DEF FragmentsInv
<1>5. ASSUME NEW p \in Packet, NEW k \in 1..Cut!Count(p), Cut!Lose(p, k) PROVE FragmentsInv'
  <2>1. v2' = v2 /\ v3' \subseteq v3 /\ v5' = v5 /\ v4' = v4 BY <1>5 DEF Cut!Lose
  <2> QED BY <2>1, <1>1, <1>2 DEF FragmentsInv
<1>6. ASSUME NEW p \in Packet, NEW k \in 1..Cut!Count(p),
             Cut!restore(p, k) \/ Cut!Received(p, k)
      PROVE  FragmentsInv'
  <2>1. v2' = v2 /\ v3' \subseteq v3 BY <1>6 DEF Cut!restore, Cut!Received
  <2>2. (v4' = v4 /\ v5' = v5) \/ Cut!addFragment(p, k)
    BY <1>6 DEF Cut!restore, Cut!Received
  <2>3. CASE v4' = v4 /\ v5' = v5 BY <2>1, <2>3, <1>1, <1>2 DEF FragmentsInv
  <2>4. CASE Cut!addFragment(p, k)
    <3> DEFINE n == Cut!Count(p)
               t == v4[p]
               pieces  == t.pieces \cup {k}
               counter == IF t = Cut!Untracked THEN n - 1 ELSE IF k \in t.pieces THEN t.counter
                          ELSE t.counter - 1
               u == [pieces |-> pieces, counter |-> counter]
    <3>1. n \in Nat \ {0} BY <1>0, CountIs
    <3>2. t = Cut!Untracked \/ Tracked(t, n) BY DEF FragmentsInv
    <3>3. IF counter = 0 THEN pieces = 1..n ELSE Tracked(u, n)
      <4> HIDE DEF t, n
      <4> QED BY <3>1, <3>2, AddsPiece DEF n
    <3>4. IF counter = 0 THEN v4' = [v4 EXCEPT ![p] = Cut!Untracked] /\ v5' = v5 \cup {<<p, pieces>>}
          ELSE v4' = [v4 EXCEPT ![p] = u] /\ v5' = v5 BY <2>4 DEF Cut!addFragment
    <3> HIDE DEF counter, pieces, u, t
    <3>5. PICK D : v4 \in [Packet -> D] BY DEF FragmentsInv
    <3>6. PICK x : /\ v4' = [v4 EXCEPT ![p] = x] /\ (x = Cut!Untracked \/ Tracked(x, n))
                   /\ v5' = v5 \/ v5' = v5 \cup {<<p, 1..n>>} BY <3>3, <3>4
    <3>7. v4' \in [Packet -> D \cup {x}] /\ \A q \in Packet : v4'[q] = IF q = p THEN x ELSE v4[q]
      BY <3>5, <3>6
    <3>8. \A q \in Packet : v4'[q] = Cut!Untracked \/ Tracked(v4'[q], Cut!Count(q)')
      <4> SUFFICES ASSUME NEW q \in Packet
                   PROVE  v4'[q] = Cut!Untracked \/ Tracked(v4'[q], Cut!Count(q)') OBVIOUS
      <4>1. v4[q] = Cut!Untracked \/ Tracked(v4[q], Cut!Count(q)) BY DEF FragmentsInv
      <4>2. Cut!Count(q)' = Cut!Count(q) BY <1>2
      <4>3. CASE q = p BY <4>2, <4>3, <3>6, <3>7
      <4>4. CASE q # p BY <4>1, <4>2, <4>4, <3>7
      <4> QED BY <4>3, <4>4
    <3>9. \A d \in v5' : d[1] \in Packet /\ d[2] = 1..Cut!Count(d[1])'
      <4>1. \A d \in v5 : d[1] \in Packet /\ d[2] = 1..Cut!Count(d[1]) BY DEF FragmentsInv
      <4> QED BY <4>1, <3>6, <1>2
    <3> QED BY <2>1, <3>7, <3>8, <3>9, <1>1, <1>2 DEF FragmentsInv
  <2> QED BY <2>2, <2>3, <2>4
<1>7. CASE UNCHANGED Cut!vars BY <1>7, <1>2 DEF FragmentsInv, Cut!vars
<1> QED BY <1>3, <1>4, <1>5, <1>6, <1>7 DEF Cut!Next

LEMMA FragmentsHold == CodecsAssumption /\ FragmentsInv => Cut!TypeOK /\ Cut!PacketsWhole
<1> SUFFICES ASSUME CodecsAssumption, FragmentsInv PROVE Cut!TypeOK /\ Cut!PacketsWhole
  OBVIOUS
<1>0. FragmentsAssumption /\ v1 \in [Packet -> Lengths]
  BY DEF CodecsAssumption, FragmentsInv
<1>1. \A p \in Packet : Whole(v1[p], Cut!Pieces(p)) /\ Cut!Count(p) \in Nat \ {0}
  BY <1>0, CountIs
<1>2. Cut!PacketsWhole BY <1>1 DEF Cut!PacketsWhole, FragmentsInv, Whole, Cut!Count
<1>3. ASSUME NEW p \in Packet
      PROVE  v4[p].pieces \subseteq 1..Cut!Count(p) /\ v4[p].counter \in 0..Cut!Count(p)
  <2>1. CASE v4[p] = Cut!Untracked BY <2>1, <1>1 DEF Cut!Untracked
  <2>2. CASE Tracked(v4[p], Cut!Count(p))
    <3>1. Cut!Count(p) \in Nat BY <1>1
    <3>2. IsFiniteSet(v4[p].pieces)
      <4> DEFINE n == Cut!Count(p)
      <4>1. n \in Nat /\ v4[p].pieces \subseteq 1..n BY <2>2, <3>1 DEF Tracked
      <4> HIDE DEF n
      <4>2. IsFiniteSet(1..n) BY <4>1, FS_Interval
      <4> QED BY <4>1, <4>2, FS_Subset
    <3>3. Cardinality(v4[p].pieces) \in Nat BY <3>2, FS_CardinalityType
    <3> QED BY <2>2, <3>1, <3>3 DEF Tracked
  <2> QED BY <2>1, <2>2 DEF FragmentsInv
<1>4. Cut!TypeOK BY <1>3 DEF Cut!TypeOK, FragmentsInv
<1> QED BY <1>2, <1>4

----------
(* SocksHeaders.  v1 is the message, v2 its bytes, v3 the result.  What is *)
(* composed is laid out byte by byte, and read so. *)
Octets == Seq(Int)

(* d is made of four parts, and is, byte by byte. *)
Made(d, p, q, r, t) == d = ((p \o q) \o r) \o t
LaidOut(d, p, q, r, t) ==
  /\ d \in Octets /\ Len(d) = ((Len(p) + Len(q)) + Len(r)) + Len(t)
  /\ \A k \in 1..Len(p) : d[k] = p[k]
  /\ \A k \in 1..Len(q) : d[Len(p) + k] = q[k]
  /\ \A k \in 1..Len(r) : d[(Len(p) + Len(q)) + k] = r[k]
  /\ \A k \in 1..Len(t) : d[((Len(p) + Len(q)) + Len(r)) + k] = t[k]

LEMMA JoinedLists ==
  ASSUME NEW p \in Octets, NEW q \in Octets
  PROVE  /\ p \o q \in Octets /\ Len(p \o q) = Len(p) + Len(q)
         /\ \A i \in 1..Len(p) + Len(q) : (p \o q)[i] = IF i <= Len(p) THEN p[i] ELSE q[i - Len(p)]
BY ConcatProperties DEF Octets

LEMMA Layout ==
  ASSUME NEW p \in Octets, NEW q \in Octets, NEW r \in Octets, NEW t \in Octets,
         NEW d, Made(d, p, q, r, t)
  PROVE  LaidOut(d, p, q, r, t)
<1> DEFINE x == p \o q
           y == x \o r
           np == Len(p)
           nq == Len(q)
           nr == Len(r)
           nt == Len(t)
<1>1. np \in Nat /\ nq \in Nat /\ nr \in Nat /\ nt \in Nat BY DEF Octets
<1>2. /\ x \in Octets /\ Len(x) = np + nq
      /\ \A i \in 1..np + nq : x[i] = IF i <= np THEN p[i] ELSE q[i - np] BY JoinedLists
<1> HIDE DEF x
<1>3. /\ y \in Octets /\ Len(y) = Len(x) + nr
      /\ \A i \in 1..Len(x) + nr : y[i] = IF i <= Len(x) THEN x[i] ELSE r[i - Len(x)]
  BY <1>2, JoinedLists
<1> HIDE DEF y
<1>4. /\ d \in Octets /\ Len(d) = Len(y) + nt
      /\ \A i \in 1..Len(y) + nt : d[i] = IF i <= Len(y) THEN y[i] ELSE t[i - Len(y)]
  <2>1. d = y \o t BY DEF y, x, Made
  <2> QED BY <1>3, <2>1, JoinedLists
<1> HIDE DEF np, nq, nr, nt
<1>5. \A i \in 1..(np + nq) + nr : d[i] = y[i] BY <1>1, <1>2, <1>3, <1>4
<1>6. \A i \in 1..np + nq : y[i] = x[i] BY <1>1, <1>2, <1>3
<1>7. ASSUME NEW k \in 1..np PROVE d[k] = p[k]
  <2>1. k \in 1..np + nq /\ k \in 1..(np + nq) + nr /\ k <= np BY <1>1
  <2> QED BY <2>1, <1>2, <1>5, <1>6
<1>8. ASSUME NEW k \in 1..nq PROVE d[np + k] = q[k]
  <2>1. np + k \in 1..np + nq /\ np + k \in 1..(np + nq) + nr /\ ~(np + k <= np) /\ (np + k) - np = k
    BY <1>1
  <2> QED BY <2>1, <1>2, <1>5, <1>6
<1>9. ASSUME NEW k \in 1..nr PROVE d[(np + nq) + k] = r[k]
  <2>1. (np + nq) + k \in 1..(np + nq) + nr /\ ~((np + nq) + k <= np + nq)
        /\ ((np + nq) + k) - (np + nq) = k BY <1>1
  <2> QED BY <2>1, <1>2, <1>3, <1>5
<1>10. ASSUME NEW k \in 1..nt PROVE d[((np + nq) + nr) + k] = t[k]
  <2>1. ((np + nq) + nr) + k \in 1..((np + nq) + nr) + nt
        /\ ~(((np + nq) + nr) + k <= (np + nq) + nr)
        /\ (((np + nq) + nr) + k) - ((np + nq) + nr) = k BY <1>1
  <2>2. Len(y) = (np + nq) + nr BY <1>2, <1>3
  <2> QED BY <2>1, <2>2, <1>4
<1>11. Len(d) = ((np + nq) + nr) + nt BY <1>2, <1>3, <1>4
<1> QED BY <1>4, <1>7, <1>8, <1>9, <1>10, <1>11 DEF np, nq, nr, nt, LaidOut

(* Three bytes before the rest of a message. *)
LEMMA Prefixed ==
  ASSUME NEW h \in Octets, Len(h) = 3, NEW d \in Octets
  PROVE  /\ h \o d \in Octets /\ Len(h \o d) = 3 + Len(d)
         /\ \A k \in 1..3 : (h \o d)[k] = h[k]
         /\ SubSeq(h \o d, 4, Len(h \o d)) = d
<1> DEFINE m == h \o d
<1>0. /\ m \in Octets /\ Len(m) = Len(h) + Len(d)
      /\ \A i \in 1..Len(h) + Len(d) : m[i] = IF i <= Len(h) THEN h[i] ELSE d[i - Len(h)]
  BY JoinedLists
<1>1. /\ m \in Octets /\ Len(m) = 3 + Len(d)
      /\ \A i \in 1..3 + Len(d) : m[i] = IF i <= 3 THEN h[i] ELSE d[i - 3] BY <1>0
<1> HIDE DEF m
<1>2. Len(d) \in Nat /\ d = [i \in 1..Len(d) |-> d[i]] BY DEF Octets
<1>3. \A k \in 1..3 : m[k] = h[k] BY <1>1, <1>2
<1>4. SubSeq(m, 4, Len(m)) = d
  <2> DEFINE s == SubSeq(m, 4, Len(m))
  <2>1. s = [i \in 1..Len(d) |-> m[i + 3]] BY <1>1, <1>2 DEF Octets
  <2>2. ASSUME NEW i \in 1..Len(d) PROVE m[i + 3] = d[i]
    <3>1. i + 3 \in 1..3 + Len(d) /\ ~(i + 3 <= 3) /\ (i + 3) - 3 = i BY <1>2
    <3> QED BY <3>1, <1>1
  <2> HIDE DEF s
  <2>3. s = d BY <2>1, <2>2, <1>2
  <2> QED BY <2>3 DEF s
<1> QED BY <1>1, <1>3, <1>4 DEF m

LEMMA TextIs ==
  ASSUME NEW n \in Nat
  PROVE  Socks!Text(n) \in Octets /\ Len(Socks!Text(n)) = n BY DEF Socks!Text, Octets

LEMMA AddressIs ==
  ASSUME HeadersAssumption, NEW x \in Socks!Address
  PROVE  /\ x = [type |-> x.type, chars |-> x.chars]
         /\ x.chars \in Octets
         /\ \/ x.type = 1 /\ Len(x.chars) = 4
            \/ x.type = 4 /\ Len(x.chars) = 16
            \/ x.type = 3 /\ Len(x.chars) \in 0..255
<1>1. CASE x = [type |-> 1, chars |-> <<10, 0, 0, 255>>] BY <1>1 DEF Octets
<1>2. CASE x = [type |-> 4, chars |-> [k \in 1..16 |-> k]]
  <2>1. [k \in 1..16 |-> k] \in Octets /\ Len([k \in 1..16 |-> k]) = 16 BY DEF Octets
  <2> QED BY <1>2, <2>1
<1>3. CASE \E n \in NameLengths : x = [type |-> 3, chars |-> Socks!Text(n)]
  <2>1. PICK n \in NameLengths : x = [type |-> 3, chars |-> Socks!Text(n)] BY <1>3
  <2>2. n \in 0..255 /\ n \in Nat BY <2>1 DEF HeadersAssumption
  <2>3. PICK t : t = Socks!Text(n) OBVIOUS
  <2>4. t \in Octets /\ Len(t) = n BY <2>2, <2>3, TextIs
  <2>5. x = [type |-> 3, chars |-> t] BY <2>1, <2>3
  <2> QED BY <2>2, <2>4, <2>5
<1> QED BY <1>1, <1>2, <1>3 DEF Socks!Address, Socks!IP_V4, Socks!IP_V6, Socks!DNS

(* An address and a port are read as they were written. *)
Place(d, ty, c, hi, lo) ==
  Made(d, <<ty>>, IF ty = 3 THEN <<Len(c)>> ELSE <<>>, c, <<hi, lo>>)
Shift(ty) == IF ty = 3 THEN 2 ELSE 1
ReadAs(d, ty, c, hi, lo) ==
  Socks!interpretDestination(d) = {[address |-> [type |-> ty, chars |-> c], port |-> hi * 256 + lo]}

LEMMA PlaceLaidOut ==
  ASSUME NEW ty \in Int, NEW c \in Octets, NEW hi \in Int, NEW lo \in Int,
         NEW d, Place(d, ty, c, hi, lo), NEW n, n = Len(c), NEW s, s = Shift(ty)
  PROVE  /\ d \in Octets /\ Len(d) = (s + n) + 2 /\ d[1] = ty /\ (ty = 3 => d[2] = n)
         /\ \A k \in 1..n : d[s + k] = c[k]
         /\ d[(s + n) + 1] = hi /\ d[(s + n) + 2] = lo
<1> DEFINE one == <<ty>>
           l == IF ty = 3 THEN <<n>> ELSE <<>>
           y == <<hi, lo>>
<1>0. n \in Nat BY DEF Octets
<1>1. one \in Octets /\ Len(one) = 1 /\ one[1] = ty BY DEF Octets
<1>2. l \in Octets /\ Len(l) = s - 1 /\ (ty = 3 => l[1] = n)
  <2>1. CASE ty = 3 BY <2>1, <1>0 DEF Octets, Shift
  <2>2. CASE ty # 3 BY <2>2 DEF Octets, Shift
  <2> QED BY <2>1, <2>2
<1>3. y \in Octets /\ Len(y) = 2 /\ y[1] = hi /\ y[2] = lo BY DEF Octets
<1>4. Made(d, one, l, c, y) BY DEF Place
<1> HIDE DEF one, l, y
<1>5. LaidOut(d, one, l, c, y) BY <1>1, <1>2, <1>3, <1>4, Layout
<1>6. s \in {1, 2} /\ (ty = 3 => s = 2) /\ 1 + (s - 1) = s BY DEF Shift
<1>7. Len(one) + Len(l) = s BY <1>1, <1>2, <1>6
<1>8. /\ d \in Octets /\ Len(d) = (s + n) + 2
      /\ \A k \in 1..1 : d[k] = one[k]
      /\ \A k \in 1..s - 1 : d[1 + k] = l[k]
      /\ \A k \in 1..n : d[s + k] = c[k]
      /\ \A k \in 1..2 : d[(s + n) + k] = y[k]
  <2>1. Len(c) = n /\ Len(y) = 2 /\ Len(one) = 1 /\ Len(l) = s - 1 BY <1>1, <1>2, <1>3
  <2>2. (Len(one) + Len(l)) + Len(c) = s + n BY <2>1, <1>7
  <2> QED BY <2>1, <2>2, <1>5, <1>7 DEF LaidOut
<1>9. 1 \in 1..1 /\ 1 \in 1..2 /\ 2 \in 1..2 /\ (ty = 3 => 1 \in 1..s - 1) BY <1>6
<1> QED
  <2>1. d[1] = ty BY <1>1, <1>8, <1>9
  <2>2. ty = 3 => d[2] = n BY <1>2, <1>8, <1>9
  <2>3. d[(s + n) + 1] = hi /\ d[(s + n) + 2] = lo BY <1>3, <1>8, <1>9
  <2> QED BY <1>8, <2>1, <2>2, <2>3

LEMMA PlaceRead ==
  ASSUME NEW ty \in Int, NEW c \in Octets, NEW n \in Nat, n = Len(c), NEW hi \in Int, NEW lo \in Int,
         ty \in {1, 3, 4}, ty = 1 => n = 4, ty = 4 => n = 16,
         NEW d, Place(d, ty, c, hi, lo)
  PROVE  ReadAs(d, ty, c, hi, lo)
<1>0. PICK s : s = Shift(ty) OBVIOUS
<1>1. s \in {1, 2} /\ (ty = 3 => s = 2) BY <1>0 DEF Shift
<1>2. /\ d \in Octets /\ Len(d) = (s + n) + 2 /\ d[1] = ty /\ (ty = 3 => d[2] = n)
      /\ \A k \in 1..n : d[s + k] = c[k]
      /\ d[(s + n) + 1] = hi /\ d[(s + n) + 2] = lo BY <1>0, PlaceLaidOut
<1>3. \A k \in 1..(s + n) + 2 : Socks!At(d, k) = d[k] BY <1>2 DEF Socks!At, Octets
<1>4. /\ Socks!At(d, 1) = ty /\ (ty = 3 => Socks!At(d, 2) = n)
      /\ \A k \in 1..n : Socks!At(d, s + k) = c[k]
      /\ Socks!At(d, (s + n) + 1) = hi /\ Socks!At(d, (s + n) + 2) = lo
  <2>1. /\ 1 \in 1..(s + n) + 2 /\ 2 \in 1..(s + n) + 2
        /\ \A k \in 1..n : s + k \in 1..(s + n) + 2
        /\ (s + n) + 1 \in 1..(s + n) + 2 /\ (s + n) + 2 \in 1..(s + n) + 2 BY <1>1
  <2> QED BY <2>1, <1>2, <1>3
<1>5. [k \in 1..n |-> Socks!At(d, s + k)] = c
  <2>1. c = [k \in 1..n |-> c[k]] BY DEF Octets
  <2> QED BY <1>4, <2>1
<1> DEFINE size == CASE Socks!At(d, 1) = 1 -> 4 [] Socks!At(d, 1) = 4 -> 16 [] OTHER -> Socks!At(d, 2)
           start == IF Socks!At(d, 1) = 3 THEN 2 ELSE 1
<1>6. size = n /\ start = s BY <1>0, <1>4 DEF Shift
<1>7. ~(Len(d) < 1 + n) BY <1>1, <1>2
<1>8. Socks!interpretDestination(d)
        = IF Socks!At(d, 1) \notin {1, 3, 4} \/ (Socks!At(d, 1) # 3 /\ Len(d) < 1 + size) THEN {}
          ELSE {[address |-> [type |-> Socks!At(d, 1), chars |-> [k \in 1..size |-> Socks!At(d, start + k)]],
                 port |-> Socks!At(d, (start + size) + 1) * 256 + Socks!At(d, (start + size) + 2)]}
  BY DEF Socks!interpretDestination, Socks!IP_V4, Socks!IP_V6, Socks!DNS
<1> HIDE DEF size, start
<1>9. ~(Socks!At(d, 1) \notin {1, 3, 4} \/ (Socks!At(d, 1) # 3 /\ Len(d) < 1 + size))
  BY <1>4, <1>6, <1>7
<1>10. [k \in 1..size |-> Socks!At(d, start + k)] = c BY <1>5, <1>6
<1>11. Socks!At(d, (start + size) + 1) = hi /\ Socks!At(d, (start + size) + 2) = lo
  BY <1>4, <1>6
<1> QED BY <1>4, <1>8, <1>9, <1>10, <1>11 DEF ReadAs

LEMMA DestinationRead ==
  ASSUME HeadersAssumption, NEW e \in Socks!Endpoint
  PROVE  /\ Socks!composeDestination(e) \in Octets
         /\ Socks!interpretDestination(Socks!composeDestination(e)) = {e}
<1>1. PICK x \in Socks!Address, port \in Ports : e = [address |-> x, port |-> port]
  BY DEF Socks!Endpoint
<1>2. port \in Nat /\ port < 65536 BY <1>1 DEF HeadersAssumption
<1>3. /\ x = [type |-> x.type, chars |-> x.chars] /\ x.chars \in Octets
      /\ \/ x.type = 1 /\ Len(x.chars) = 4
         \/ x.type = 4 /\ Len(x.chars) = 16
         \/ x.type = 3 /\ Len(x.chars) \in 0..255 BY <1>1, AddressIs
<1>4. PICK ty, c : ty = x.type /\ c = x.chars OBVIOUS
<1>5. PICK n : n = Len(c) OBVIOUS
<1>6. PICK hi, lo : hi = (port \div 256) % 256 /\ lo = port % 256 OBVIOUS
<1>7. /\ x = [type |-> ty, chars |-> c] /\ c \in Octets /\ ty \in {1, 3, 4} /\ n \in 0..255
      /\ (ty = 1 => n = 4) /\ (ty = 4 => n = 16) BY <1>3, <1>4, <1>5
<1>8. hi \in 0..255 /\ lo \in 0..255 /\ hi * 256 + lo = port BY <1>2, <1>6
<1>9. Place(Socks!composeDestination(e), ty, c, hi, lo)
  <2>1. n % 256 = n BY <1>7
  <2>2. e.address.type = ty /\ e.address.chars = c /\ e.port = port BY <1>1, <1>4
  <2>3. Socks!composeDestination(e)
          = ((<<ty>> \o (IF ty = 3 THEN <<n % 256>> ELSE <<>>)) \o c) \o <<hi, lo>>
    BY <2>2, <1>5, <1>6 DEF Socks!composeDestination, Socks!Byte, Socks!DNS
  <2> QED BY <2>1, <2>3, <1>5 DEF Place, Made
<1>10. PICK d : d = Socks!composeDestination(e) OBVIOUS
<1>11. /\ ty \in Int /\ n \in Nat /\ hi \in Int /\ lo \in Int /\ c \in Octets /\ n = Len(c)
       /\ Place(d, ty, c, hi, lo) BY <1>5, <1>7, <1>8, <1>9, <1>10
<1>12. d \in Octets /\ Len(d) = (Shift(ty) + n) + 2 BY <1>11, PlaceLaidOut
<1>13. ReadAs(d, ty, c, hi, lo)
  <2>1. ty \in {1, 3, 4} /\ (ty = 1 => n = 4) /\ (ty = 4 => n = 16) BY <1>7
  <2> QED BY <2>1, <1>11, PlaceRead
<1> QED BY <1>1, <1>7, <1>8, <1>10, <1>12, <1>13 DEF ReadAs

(* What is composed is understood, kind by kind. *)
Understood(m) == Socks!Interpreted(m.kind, Socks!Composed(m)) = {m}
Refused(m, d) == Socks!Interpreted(m.kind, d) = {}

LEMMA AuthRead ==
  ASSUME NEW ms \in {<< 0 >>, <<2, 0>>, << 2 >>}, NEW m, m = [kind |-> "auth", methods |-> ms]
  PROVE  IF ms = <<2>> THEN Refused(m, Socks!Composed(m)) ELSE Understood(m)
<1>0. PICK n : n = Len(ms) OBVIOUS
<1>1. n \in 1..2 /\ n % 256 = n /\ ms \in Octets /\ Socks!Composed(m) = <<5, n>> \o ms
  <2>1. n \in 1..2
    <3>1. CASE ms = <<0>> BY <3>1, <1>0
    <3>2. CASE ms = <<2, 0>> BY <3>2, <1>0
    <3>3. CASE ms = <<2>> BY <3>3, <1>0
    <3> QED BY <3>1, <3>2, <3>3
  <2>2. ms \in Octets
    <3>1. <<0>> \in Seq(Int) /\ <<2, 0>> \in Seq(Int) /\ <<2>> \in Seq(Int) OBVIOUS
    <3> QED BY <3>1 DEF Octets
  <2>3. n % 256 = n BY <2>1
  <2>4. Socks!Composed(m) = <<5, n % 256>> \o ms
    BY <1>0 DEF Socks!Composed, Socks!Byte, Socks!Version
  <2> QED BY <2>1, <2>2, <2>3, <2>4
<1>2. PICK d : d = <<5, n>> \o ms OBVIOUS
<1>3. Socks!Composed(m) = d BY <1>1, <1>2
<1>4. /\ d \in Octets /\ Len(d) = 2 + n /\ d[1] = 5 /\ d[2] = n
      /\ \A k \in 1..n : d[2 + k] = ms[k]
  <2>1. PICK h : h = <<5, n>> OBVIOUS
  <2>2. h \in Octets /\ Len(h) = 2 /\ h[1] = 5 /\ h[2] = n BY <1>1, <2>1 DEF Octets
  <2>3. d = h \o ms BY <1>2, <2>1
  <2> DEFINE j == h \o ms
  <2>31. /\ j \in Octets /\ Len(j) = Len(h) + Len(ms)
         /\ \A i \in 1..Len(h) + Len(ms) : j[i] = IF i <= Len(h) THEN h[i] ELSE ms[i - Len(h)]
    BY <1>1, <2>2, JoinedLists
  <2>32. d = j BY <2>3
  <2> HIDE DEF j
  <2>4. /\ d \in Octets /\ Len(d) = 2 + n
        /\ \A i \in 1..2 + n : d[i] = IF i <= 2 THEN h[i] ELSE ms[i - 2]
    BY <1>0, <2>2, <2>31, <2>32
  <2>5. \A k \in 1..n : 2 + k \in 1..2 + n /\ ~(2 + k <= 2) /\ (2 + k) - 2 = k BY <1>1
  <2> QED BY <1>1, <2>2, <2>4, <2>5
<1>5. Socks!At(d, 1) = 5 /\ Socks!At(d, 2) = n BY <1>1, <1>4 DEF Socks!At, Octets
<1>6. [k \in 1..n |-> IF 2 + k \in DOMAIN d THEN d[2 + k] ELSE -1] = ms
  <2>1. ms = [k \in 1..n |-> ms[k]] /\ DOMAIN d = 1..2 + n BY <1>0, <1>1, <1>4 DEF Octets
  <2> QED BY <1>1, <1>4, <2>1
<1>7. Socks!interpretAuth(d) = IF \E k \in DOMAIN ms : ms[k] = 0 THEN {[kind |-> "auth", methods |-> ms]} ELSE {}
  BY <1>5, <1>6 DEF Socks!interpretAuth, Socks!Version, Socks!NOAUTH
<1>8. Socks!Interpreted(m.kind, Socks!Composed(m)) = Socks!interpretAuth(d)
  BY <1>3 DEF Socks!Interpreted
<1>9. (\E k \in DOMAIN ms : ms[k] = 0) <=> ms # <<2>>
  <2>1. CASE ms = <<0>>
    <3>1. DOMAIN ms = {1} /\ ms[1] = 0 BY <2>1
    <3> QED BY <2>1, <3>1
  <2>2. CASE ms = <<2, 0>>
    <3>1. DOMAIN ms = {1, 2} /\ ms[2] = 0 BY <2>2
    <3> QED BY <2>2, <3>1
  <2>3. CASE ms = <<2>>
    <3>1. DOMAIN ms = {1} /\ ms[1] = 2 BY <2>3
    <3> QED BY <2>3, <3>1
  <2> QED BY <2>1, <2>2, <2>3
<1> QED BY <1>7, <1>8, <1>9 DEF Understood, Refused

LEMMA ShortRead ==
  ASSUME NEW m,
         \/ \E x \in BOOLEAN : m = [kind |-> "userPassResponse", success |-> x]
         \/ \E x \in {0, 2} : m = [kind |-> "authResponse", method |-> x]
  PROVE  Understood(m)
<1>1. CASE \E x \in BOOLEAN : m = [kind |-> "userPassResponse", success |-> x]
  <2>1. PICK x \in BOOLEAN : m = [kind |-> "userPassResponse", success |-> x] BY <1>1
  <2>2. PICK y : y = IF x THEN 0 ELSE 255 OBVIOUS
  <2>3. Socks!Composed(m) = <<1, y>> BY <2>1, <2>2 DEF Socks!Composed, Socks!Version
  <2>4. Socks!Interpreted(m.kind, <<1, y>>) = {[kind |-> "userPassResponse", success |-> y = 0]}
    BY <2>1 DEF Socks!Interpreted
  <2>5. (y = 0) = x BY <2>2
  <2> QED BY <2>1, <2>3, <2>4, <2>5 DEF Understood
<1>2. CASE \E x \in {0, 2} : m = [kind |-> "authResponse", method |-> x]
  <2>1. PICK x \in {0, 2} : m = [kind |-> "authResponse", method |-> x] BY <1>2
  <2>2. Socks!Composed(m) = <<5, x>> BY <2>1 DEF Socks!Composed, Socks!Version
  <2>3. Socks!Interpreted(m.kind, <<5, x>>) = {[kind |-> "authResponse", method |-> x]}
    BY <2>1 DEF Socks!Interpreted, Socks!Version
  <2> QED BY <2>1, <2>2, <2>3 DEF Understood
<1> QED BY <1>1, <1>2

(* A user name and a password, whole or cut by some bytes. *)
UserPass(m, u, p, tu, tp) ==
  /\ u \in 0..255 /\ p \in 0..255 /\ tu \in Octets /\ tp \in Octets
  /\ Len(tu) = u /\ Len(tp) = p /\ m = [kind |-> "userPass", username |-> tu, password |-> tp]
Filled(d, u, p, tu, tp) ==
  /\ d \in Octets /\ Len(d) = (3 + u) + p /\ d[1] = 1 /\ d[2] = u /\ d[3 + u] = p
  /\ \A k \in 1..u : d[2 + k] = tu[k]
  /\ \A k \in 1..p : d[(3 + u) + k] = tp[k]

LEMMA UserPassLaidOut ==
  ASSUME NEW u, NEW p, NEW tu, NEW tp, NEW m, UserPass(m, u, p, tu, tp),
         NEW d, d = Socks!Composed(m)
  PROVE  Filled(d, u, p, tu, tp)
<1>0. /\ u \in 0..255 /\ p \in 0..255 /\ tu \in Octets /\ tp \in Octets
      /\ Len(tu) = u /\ Len(tp) = p /\ m = [kind |-> "userPass", username |-> tu, password |-> tp]
  BY DEF UserPass
<1>1. PICK h, l : h = <<1, u>> /\ l = <<p>> OBVIOUS
<1>2. h \in Octets /\ Len(h) = 2 /\ h[1] = 1 /\ h[2] = u BY <1>0, <1>1 DEF Octets
<1>3. l \in Octets /\ Len(l) = 1 /\ l[1] = p BY <1>0, <1>1 DEF Octets
<1>4. d = ((<<1, u % 256>> \o tu) \o <<p % 256>>) \o tp
  BY <1>0 DEF Socks!Composed, Socks!Byte, Socks!Version
<1>5. u % 256 = u /\ p % 256 = p BY <1>0
<1>6. Made(d, h, tu, l, tp) BY <1>1, <1>4, <1>5 DEF Made
<1>7. LaidOut(d, h, tu, l, tp) BY <1>0, <1>2, <1>3, <1>6, Layout
<1>8. /\ d \in Octets /\ Len(d) = ((2 + u) + 1) + p
      /\ \A k \in 1..2 : d[k] = h[k]
      /\ \A k \in 1..u : d[2 + k] = tu[k]
      /\ \A k \in 1..1 : d[(2 + u) + k] = l[k]
      /\ \A k \in 1..p : d[((2 + u) + 1) + k] = tp[k] BY <1>0, <1>2, <1>3, <1>7 DEF LaidOut
<1>9. (2 + u) + 1 = 3 + u /\ 1 \in 1..1 /\ 1 \in 1..2 /\ 2 \in 1..2 BY <1>0
<1> QED BY <1>2, <1>3, <1>8, <1>9 DEF Filled

LEMMA UserPassRead ==
  ASSUME NEW u, NEW p, NEW tu, NEW tp, NEW m, UserPass(m, u, p, tu, tp)
  PROVE  Understood(m)
<1>0. /\ u \in 0..255 /\ p \in 0..255 /\ tu \in Octets /\ tp \in Octets
      /\ Len(tu) = u /\ Len(tp) = p /\ m = [kind |-> "userPass", username |-> tu, password |-> tp]
  BY DEF UserPass
<1>1. PICK d : d = Socks!Composed(m) OBVIOUS
<1>2. /\ d \in Octets /\ Len(d) = (3 + u) + p /\ d[1] = 1 /\ d[2] = u /\ d[3 + u] = p
      /\ \A k \in 1..u : d[2 + k] = tu[k]
      /\ \A k \in 1..p : d[(3 + u) + k] = tp[k]
  <2>1. UserPass(m, u, p, tu, tp) OBVIOUS
  <2>2. Filled(d, u, p, tu, tp) BY <1>1, <2>1, UserPassLaidOut
  <2> QED BY <2>2 DEF Filled
<1>3. Socks!At(d, 2) = u /\ Socks!At(d, 3 + u) = p BY <1>0, <1>2 DEF Socks!At, Octets
<1>4. SubSeq(d, 3, 2 + u) = tu
  <2>1. tu = [k \in 1..u |-> tu[k]] BY <1>0 DEF Octets
  <2>2. SubSeq(d, 3, 2 + u) = [k \in 1..u |-> d[k + 2]] BY <1>0, <1>2 DEF Octets
  <2>3. \A k \in 1..u : d[k + 2] = tu[k]
    <3>1. \A k \in 1..u : k + 2 = 2 + k BY <1>0
    <3> QED BY <1>2, <3>1
  <2> QED BY <2>1, <2>2, <2>3
<1>5. SubSeq(d, 4 + u, Len(d)) = tp
  <2>1. tp = [k \in 1..p |-> tp[k]] BY <1>0 DEF Octets
  <2>2. SubSeq(d, 4 + u, (3 + u) + p) = [k \in 1..p |-> d[k + (3 + u)]]
    BY <1>0, <1>2 DEF Octets
  <2>3. \A k \in 1..p : d[k + (3 + u)] = tp[k]
    <3>1. \A k \in 1..p : k + (3 + u) = (3 + u) + k BY <1>0
    <3> QED BY <1>2, <3>1
  <2> QED BY <1>2, <2>1, <2>2, <2>3
<1>6. Len(d) >= 3 /\ Len(d) = (3 + Socks!At(d, 2)) + Socks!At(d, 3 + Socks!At(d, 2))
  BY <1>0, <1>2, <1>3
<1>7. Socks!interpretUserPass(d) = {[kind |-> "userPass", username |-> tu, password |-> tp]}
  BY <1>2, <1>3, <1>4, <1>5, <1>6 DEF Socks!interpretUserPass, Socks!Version
<1> QED BY <1>0, <1>1, <1>7 DEF Understood, Socks!Interpreted

LEMMA UserPassCut ==
  ASSUME NEW u, NEW p, NEW tu, NEW tp, NEW m, UserPass(m, u, p, tu, tp),
         NEW size \in Nat, size < Len(Socks!Composed(m)),
         NEW e, e = SubSeq(Socks!Composed(m), 1, size)
  PROVE  Refused(m, e)
<1>0. /\ u \in 0..255 /\ p \in 0..255 /\ tu \in Octets /\ tp \in Octets
      /\ Len(tu) = u /\ Len(tp) = p /\ m = [kind |-> "userPass", username |-> tu, password |-> tp]
  BY DEF UserPass
<1>1. PICK d : d = Socks!Composed(m) OBVIOUS
<1>2. /\ d \in Octets /\ Len(d) = (3 + u) + p /\ d[2] = u /\ d[3 + u] = p
  <2>1. UserPass(m, u, p, tu, tp) OBVIOUS
  <2>2. Filled(d, u, p, tu, tp) BY <1>1, <2>1, UserPassLaidOut
  <2> QED BY <2>2 DEF Filled
<1>3. /\ Len(e) = size /\ DOMAIN e = 1..size /\ size < (3 + u) + p
      /\ \A k \in 1..size : e[k] = d[k] BY <1>0, <1>1, <1>2 DEF Octets
<1>4. size >= 3 => Socks!At(e, 2) = u BY <1>0, <1>2, <1>3 DEF Socks!At
<1>5. Socks!At(e, 3 + u) = IF 3 + u <= size THEN p ELSE 0 BY <1>0, <1>2, <1>3 DEF Socks!At
<1>6. ~(Len(e) >= 3 /\ Len(e) = (3 + Socks!At(e, 2)) + Socks!At(e, 3 + Socks!At(e, 2)))
  BY <1>0, <1>3, <1>4, <1>5
<1>7. Socks!interpretUserPass(e) = {} BY <1>6 DEF Socks!interpretUserPass
<1> QED BY <1>0, <1>7 DEF Refused, Socks!Interpreted

(* A request or a response: three bytes, and the place. *)
Fronted(d, head, place) ==
  /\ d \in Octets /\ Len(d) = 3 + Len(place) /\ d[1] = 5 /\ d[2] = head
  /\ SubSeq(d, 4, Len(d)) = place

LEMMA Fronts ==
  ASSUME HeadersAssumption, NEW head \in Int, NEW e \in Socks!Endpoint,
         NEW d, d = <<5, head, 0>> \o Socks!composeDestination(e)
  PROVE  Fronted(d, head, Socks!composeDestination(e))
<1>1. PICK h, place : h = <<5, head, 0>> /\ place = Socks!composeDestination(e) OBVIOUS
<1>2. h \in Octets /\ Len(h) = 3 /\ h[1] = 5 /\ h[2] = head BY <1>1 DEF Octets
<1>3. place \in Octets BY <1>1, DestinationRead
<1> DEFINE j == h \o place
<1>4. /\ j \in Octets /\ Len(j) = 3 + Len(place) /\ (\A k \in 1..3 : j[k] = h[k])
      /\ SubSeq(j, 4, Len(j)) = place BY <1>2, <1>3, Prefixed
<1>5. d = j BY <1>1
<1> HIDE DEF j
<1>6. 1 \in 1..3 /\ 2 \in 1..3 OBVIOUS
<1> QED BY <1>1, <1>2, <1>4, <1>5, <1>6 DEF Fronted

LEMMA RequestRead ==
  ASSUME HeadersAssumption, NEW c \in {1, 2, 3}, NEW e \in Socks!Endpoint,
         NEW m, m = [kind |-> "request", command |-> c, endpoint |-> e]
  PROVE  IF c \notin {1, 3} \/ Len(Socks!Composed(m)) < 9
         THEN Refused(m, Socks!Composed(m)) ELSE Understood(m)
<1>1. PICK d, place : d = Socks!Composed(m) /\ place = Socks!composeDestination(e) OBVIOUS
<1>2. d = <<5, c, 0>> \o Socks!composeDestination(e)
  BY <1>1 DEF Socks!Composed, Socks!Version
<1>3. Fronted(d, c, place) BY <1>1, <1>2, Fronts
<1>4. Socks!interpretDestination(SubSeq(d, 4, Len(d))) = {e}
  <2>1. Socks!interpretDestination(place) = {e} BY <1>1, DestinationRead
  <2>2. SubSeq(d, 4, Len(d)) = place BY <1>3 DEF Fronted
  <2> QED BY <2>1, <2>2
<1>5. d[1] = 5 /\ d[2] = c BY <1>3 DEF Fronted
<1>6. CASE c \notin {1, 3} \/ Len(d) < 9
  <2>1. Socks!interpretRequest(d) = {}
    BY <1>5, <1>6 DEF Socks!interpretRequest, Socks!Version, Socks!Interpretable
  <2> QED BY <1>1, <1>6, <2>1 DEF Refused, Socks!Interpreted
<1>7. CASE ~(c \notin {1, 3} \/ Len(d) < 9)
  <2> DEFINE r == Socks!interpretDestination(SubSeq(d, 4, Len(d)))
             made(x) == [kind |-> "request", command |-> c, endpoint |-> x]
  <2>1. Socks!interpretRequest(d) = {made(x) : x \in r}
    BY <1>5, <1>7 DEF Socks!interpretRequest, Socks!Version, Socks!Interpretable
  <2>2. r = {e} BY <1>4
  <2> HIDE DEF r
  <2>3. {made(x) : x \in r} = {m} BY <2>2
  <2> QED BY <1>1, <1>7, <2>1, <2>3 DEF Understood, Socks!Interpreted
<1> QED BY <1>1, <1>6, <1>7

LEMMA ResponseRead ==
  ASSUME HeadersAssumption, NEW c \in 0..9, NEW e \in Socks!Endpoint,
         NEW m, m = [kind |-> "response", reply |-> c, endpoint |-> e]
  PROVE  Understood(m)
<1>1. PICK d, place : d = Socks!Composed(m) /\ place = Socks!composeDestination(e) OBVIOUS
<1>2. d = <<5, c, 0>> \o Socks!composeDestination(e)
  BY <1>1 DEF Socks!Composed, Socks!Version
<1>3. Fronted(d, c, place) BY <1>1, <1>2, Fronts
<1>4. Socks!interpretDestination(SubSeq(d, 4, Len(d))) = {e}
  <2>1. Socks!interpretDestination(place) = {e} BY <1>1, DestinationRead
  <2>2. SubSeq(d, 4, Len(d)) = place BY <1>3 DEF Fronted
  <2> QED BY <2>1, <2>2
<1>5. Socks!At(d, 1) = 5 /\ Socks!At(d, 2) = c
  <2>1. d \in Seq(Int) /\ Len(d) = 3 + Len(place) /\ d[1] = 5 /\ d[2] = c
    BY <1>3 DEF Fronted, Octets
  <2>2. Len(place) \in Nat BY <1>1, DestinationRead DEF Octets
  <2>3. 1 \in DOMAIN d /\ 2 \in DOMAIN d BY <2>1, <2>2
  <2> QED BY <2>1, <2>3 DEF Socks!At
<1> DEFINE r == Socks!interpretDestination(SubSeq(d, 4, Len(d)))
           made(x) == [kind |-> "response", reply |-> c, endpoint |-> x]
<1>6. Socks!interpretResponse(d) = {made(x) : x \in r}
  BY <1>5 DEF Socks!interpretResponse, Socks!Version, Socks!Reply
<1>7. r = {e} BY <1>4
<1> HIDE DEF r
<1>8. {made(x) : x \in r} = {m} BY <1>7
<1> QED BY <1>1, <1>6, <1>8 DEF Understood, Socks!Interpreted

(* What a message is, and what becomes of it whole, or cut. *)
LEMMA EachRead ==
  ASSUME HeadersAssumption, NEW m \in Socks!Message
  PROVE  IF \/ m.kind = "auth" /\ m.methods = <<2>>
            \/ m.kind = "request" /\ (m.command \notin {1, 3} \/ Len(Socks!Composed(m)) < 9)
         THEN Refused(m, Socks!Composed(m)) ELSE Understood(m)
<1>1. CASE \E ms \in {<<0>>, <<2, 0>>, <<2>>} : m = [kind |-> "auth", methods |-> ms]
  <2>1. PICK ms \in {<<0>>, <<2, 0>>, <<2>>} : m = [kind |-> "auth", methods |-> ms] BY <1>1
  <2>2. IF ms = <<2>> THEN Refused(m, Socks!Composed(m)) ELSE Understood(m)
    BY <2>1, AuthRead
  <2>3. m.kind = "auth" /\ m.methods = ms BY <2>1
  <2> QED BY <2>2, <2>3
<1>2. CASE \E u \in Texts, p \in Texts :
             m = [kind |-> "userPass", username |-> Socks!Text(u), password |-> Socks!Text(p)]
  <2>1. PICK u \in Texts, p \in Texts :
               m = [kind |-> "userPass", username |-> Socks!Text(u), password |-> Socks!Text(p)]
    BY <1>2
  <2>2. u \in 0..255 /\ p \in 0..255 /\ u \in Nat /\ p \in Nat BY <2>1 DEF HeadersAssumption
  <2>3. PICK tu, tp : tu = Socks!Text(u) /\ tp = Socks!Text(p) OBVIOUS
  <2>4. UserPass(m, u, p, tu, tp) BY <2>1, <2>2, <2>3, TextIs DEF UserPass
  <2>5. Understood(m) BY <2>4, UserPassRead
  <2> QED BY <2>1, <2>5
<1>3. CASE \E x \in BOOLEAN : m = [kind |-> "userPassResponse", success |-> x]
  BY <1>3, ShortRead
<1>4. CASE \E x \in {0, 2} : m = [kind |-> "authResponse", method |-> x] BY <1>4, ShortRead
<1>5. CASE \E c \in {1, 2, 3}, e \in Socks!Endpoint : m = [kind |-> "request", command |-> c, endpoint |-> e]
  <2>1. PICK c \in {1, 2, 3}, e \in Socks!Endpoint : m = [kind |-> "request", command |-> c, endpoint |-> e]
    BY <1>5
  <2>2. IF c \notin {1, 3} \/ Len(Socks!Composed(m)) < 9
        THEN Refused(m, Socks!Composed(m)) ELSE Understood(m) BY <2>1, RequestRead
  <2>3. m.kind = "request" /\ m.command = c BY <2>1
  <2> QED BY <2>2, <2>3
<1>6. CASE \E c \in 0..9, e \in Socks!Endpoint : m = [kind |-> "response", reply |-> c, endpoint |-> e]
  <2>1. PICK c \in 0..9, e \in Socks!Endpoint : m = [kind |-> "response", reply |-> c, endpoint |-> e]
    BY <1>6
  <2>2. Understood(m) BY <2>1, ResponseRead
  <2>3. m.kind = "response" BY <2>1
  <2> QED BY <2>2, <2>3
<1> QED
  BY <1>1, <1>2, <1>3, <1>4, <1>5, <1>6
  DEF Socks!Message, Socks!NOAUTH, Socks!USERPASS, Socks!Command, Socks!Reply

LEMMA CutUserPass ==
  ASSUME HeadersAssumption, NEW m \in Socks!Message, m.kind = "userPass",
         NEW cut \in Nat, NEW d, d = SubSeq(Socks!Composed(m), 1, Len(Socks!Composed(m)) - cut),
         cut < Len(Socks!Composed(m)), d # Socks!Composed(m)
  PROVE  Refused(m, d)
<1>1. PICK u \in Texts, p \in Texts :
             m = [kind |-> "userPass", username |-> Socks!Text(u), password |-> Socks!Text(p)]
  BY DEF Socks!Message
<1>2. u \in 0..255 /\ p \in 0..255 /\ u \in Nat /\ p \in Nat BY <1>1 DEF HeadersAssumption
<1>3. PICK tu, tp : tu = Socks!Text(u) /\ tp = Socks!Text(p) OBVIOUS
<1>4. UserPass(m, u, p, tu, tp) BY <1>1, <1>2, <1>3, TextIs DEF UserPass
<1>5. PICK w, n, size : w = Socks!Composed(m) /\ n = Len(w) /\ size = n - cut OBVIOUS
<1>6. w \in Octets BY <1>4, <1>5, UserPassLaidOut DEF Filled
<1>7. n \in Nat /\ (cut = 0 => SubSeq(w, 1, n - cut) = w) BY <1>5, <1>6 DEF Octets
<1>8. cut # 0 BY <1>5, <1>7
<1>9. size \in Nat /\ size < n BY <1>5, <1>7, <1>8
<1>10. d = SubSeq(w, 1, size) BY <1>5
<1> QED BY <1>4, <1>5, <1>9, <1>10, UserPassCut

(* What was handed over is what was composed, but for some bytes at its end, *)
(* and what became of it is what becomes of those bytes. *)
Verdict(m, d) ==
  IF Socks!Interpreted(m.kind, d) = {} THEN "thrown"
  ELSE IF Socks!Interpreted(m.kind, d) = {m} THEN "same" ELSE "other"
HandedOver(m, d) ==
  \E cut \in Nat : cut < Len(Socks!Composed(m)) /\ d = SubSeq(Socks!Composed(m), 1, Len(Socks!Composed(m)) - cut)
HeadersInv ==
  /\ v1 \in Socks!Message
  /\ \/ v3 = "none"
     \/ v3 = Verdict(v1, v2) /\ HandedOver(v1, v2) /\ v2 # <<>>
  /\ v2 = <<>> \/ HandedOver(v1, v2)

LEMMA HeadersInit == Socks!Init => HeadersInv BY DEF Socks!Init, HeadersInv

LEMMA HeadersStep == CodecsAssumption /\ HeadersInv /\ Socks!Next => HeadersInv'
<1> SUFFICES ASSUME CodecsAssumption, HeadersInv, Socks!Next PROVE HeadersInv' OBVIOUS
<1>1. CASE Socks!Compose
  <2>1. v1' = v1 /\ v3' = v3 /\ v2 = <<>> BY <1>1 DEF Socks!Compose
  <2>2. v3 = "none" BY <2>1 DEF HeadersInv
  <2>3. PICK cut \in Cuts : /\ cut < Len(Socks!Composed(v1))
                           /\ v2' = SubSeq(Socks!Composed(v1), 1, Len(Socks!Composed(v1)) - cut)
    BY <1>1 DEF Socks!Compose
  <2>4. cut \in Nat BY DEF CodecsAssumption, HeadersAssumption
  <2>5. HandedOver(v1, v2') BY <2>3, <2>4 DEF HandedOver
  <2> QED BY <2>1, <2>2, <2>5 DEF HeadersInv, HandedOver
<1>2. CASE Socks!Interpret
  <2>1. v1' = v1 /\ v2' = v2 /\ v2 # <<>> BY <1>2 DEF Socks!Interpret
  <2>2. v3' = Verdict(v1, v2) BY <1>2 DEF Socks!Interpret, Verdict
  <2>3. HandedOver(v1, v2) BY <2>1 DEF HeadersInv
  <2> QED BY <2>1, <2>2, <2>3 DEF HeadersInv, HandedOver, Verdict
<1> QED BY <1>1, <1>2 DEF Socks!Next

LEMMA HeadersHold == CodecsAssumption /\ HeadersInv => Socks!HeadersAgree
<1> SUFFICES ASSUME CodecsAssumption, HeadersInv, v3 # "none"
             PROVE  Socks!HeadersAgree BY DEF Socks!HeadersAgree
<1>0. PICK m, d : m = v1 /\ d = v2 OBVIOUS
<1>1. m \in Socks!Message /\ v3 = Verdict(m, d) /\ HandedOver(m, d) /\ HeadersAssumption
  BY <1>0 DEF HeadersInv, CodecsAssumption
<1>2. CASE d = Socks!Composed(m)
  <2>1. IF \/ m.kind = "auth" /\ m.methods = <<2>>
           \/ m.kind = "request" /\ (m.command \notin {1, 3} \/ Len(d) < 9)
        THEN Refused(m, d) ELSE Understood(m) BY <1>1, <1>2, EachRead
  <2>2. Refused(m, d) => v3 = "thrown" BY <1>1 DEF Refused, Verdict
  <2>3. Understood(m) => v3 = "same" BY <1>1, <1>2 DEF Understood, Verdict
  <2>4. IF \/ m.kind = "auth" /\ m.methods = <<2>>
           \/ m.kind = "request" /\ (m.command \notin {1, 3} \/ Len(d) < 9)
        THEN v3 = "thrown" ELSE v3 = "same" BY <2>1, <2>2, <2>3
  <2>5. Socks!Whole BY <1>0, <1>2 DEF Socks!Whole
  <2>6. CASE m.kind = "auth"
    BY <1>0, <2>4, <2>5, <2>6 DEF Socks!HeadersAgree, Socks!USERPASS
  <2>7. CASE m.kind = "request"
    BY <1>0, <2>4, <2>5, <2>7 DEF Socks!HeadersAgree, Socks!Interpretable
  <2>8. CASE m.kind # "auth" /\ m.kind # "request"
    BY <1>0, <2>4, <2>5, <2>8 DEF Socks!HeadersAgree
  <2> QED BY <2>6, <2>7, <2>8
<1>3. CASE d # Socks!Composed(m)
  <2>1. ~Socks!Whole BY <1>0, <1>3 DEF Socks!Whole
  <2>2. ASSUME m.kind = "userPass" PROVE v3 = "thrown"
    <3>1. PICK cut \in Nat : /\ cut < Len(Socks!Composed(m))
                            /\ d = SubSeq(Socks!Composed(m), 1, Len(Socks!Composed(m)) - cut)
      BY <1>1 DEF HandedOver
    <3>2. Refused(m, d) BY <1>1, <1>3, <2>2, <3>1, CutUserPass
    <3> QED BY <1>1, <3>2 DEF Refused, Verdict
  <2> QED BY <1>0, <2>1, <2>2 DEF Socks!HeadersAgree
<1> QED BY <1>2, <1>3

----------
(* Arithmetic.  v1 is the table, v2 the packet.  Powers of two first. *)
Doubling == [q \in Size \X Size |-> 2 * q[1]]
One_ == 1
Zeros(n) == [k \in 1..n |-> 0]
Twos == [n \in Nat |-> Runs(Doubling, One_, Zeros(n))]

LEMMA TwosAre ==
  /\ Twos \in [Nat -> Nat] /\ Twos[0] = 1
  /\ \A n \in Nat : Twos[n + 1] = 2 * Twos[n]
<1>1. Maps(Doubling, Size, Size) /\ One_ \in Size BY DEF Maps, Doubling, Size, One_
<1>2. /\ Runs(Doubling, One_, <<>>) = One_
      /\ \A s \in Seq(Size) : Runs(Doubling, One_, s) \in Size
      /\ \A s \in Seq(Size), y \in Size :
           Runs(Doubling, One_, Append(s, y)) = Doubling[<<Runs(Doubling, One_, s), y>>]
  BY <1>1, RunsStep
<1>3. \A n \in Nat : Zeros(n) \in Seq(Size) /\ Append(Zeros(n), 0) = Zeros(n + 1)
  <2> TAKE n \in Nat
  <2>1. Zeros(n) \in Seq(Nat) /\ Len(Zeros(n)) = n BY DEF Zeros
  <2> DEFINE g == [k \in 1..n + 1 |-> 0]
             t == Append(Zeros(n), 0)
  <2>2. t \in Seq(Nat) /\ Len(t) = n + 1 BY <2>1
  <2>3. (\A k \in 1..n : t[k] = 0) /\ t[n + 1] = 0
    <3>1. \A k \in 1..n : t[k] = Zeros(n)[k] BY <2>1
    <3>2. \A k \in 1..n : Zeros(n)[k] = 0 BY DEF Zeros
    <3>3. t[n + 1] = 0 BY <2>1
    <3> QED BY <3>1, <3>2, <3>3
  <2> HIDE DEF t
  <2>4. \A k \in 1..n + 1 : t[k] = 0 BY <2>3
  <2>5. t = g
    <3>1. t = [k \in 1..n + 1 |-> t[k]] BY <2>2
    <3> QED BY <2>4, <3>1
  <2> QED BY <2>1, <2>5 DEF Zeros, Size, t
<1>4. Zeros(0) = <<>> BY DEF Zeros
<1>5. \A n \in Nat : Runs(Doubling, One_, Zeros(n + 1)) = 2 * Runs(Doubling, One_, Zeros(n))
  <2> TAKE n \in Nat
  <2>0. 0 \in Size /\ \A i, j \in Size : Doubling[<<i, j>>] = 2 * i BY DEF Doubling, Size
  <2>1. Runs(Doubling, One_, Zeros(n)) \in Size BY <1>2, <1>3
  <2>2. Runs(Doubling, One_, Append(Zeros(n), 0)) = Doubling[<<Runs(Doubling, One_, Zeros(n)), 0>>]
    BY <1>2, <1>3, <2>0
  <2> QED BY <1>3, <2>0, <2>1, <2>2
<1>6. /\ \A n \in Nat : Twos[n] = Runs(Doubling, One_, Zeros(n)) /\ Twos[n] \in Size
      /\ Twos = [n \in Nat |-> Twos[n]] BY <1>2, <1>3 DEF Twos
<1>7. Twos \in [Nat -> Nat] BY <1>6 DEF Size
<1> QED
  <2>1. Twos[0] = 1 BY <1>2, <1>4, <1>6 DEF One_
  <2>2. \A n \in Nat : Twos[n + 1] = 2 * Twos[n] BY <1>5, <1>6
  <2> QED BY <1>7, <2>1, <2>2

LEMMA TwoIs ==
  /\ Code!Two \in [Nat -> Nat] /\ Code!Two[0] = 1
  /\ \A n \in Nat : Code!Two[n + 1] = 2 * Code!Two[n]
<1> DEFINE Is(f) == f = [n \in Nat |-> IF n = 0 THEN 1 ELSE 2 * f[n - 1]]
           two == CHOOSE f : Is(f)
<1>1. Is(Twos)
  <2> DEFINE g == [n \in Nat |-> IF n = 0 THEN 1 ELSE 2 * Twos[n - 1]]
  <2>1. ASSUME NEW n \in Nat PROVE Twos[n] = g[n]
    <3>1. n # 0 => n - 1 \in Nat /\ (n - 1) + 1 = n OBVIOUS
    <3> QED BY <3>1, TwosAre
  <2>2. DOMAIN g = Nat /\ g = [n \in Nat |-> g[n]] /\ DOMAIN Twos = Nat
        /\ Twos = [n \in Nat |-> Twos[n]] BY DEF Twos
  <2> HIDE DEF g
  <2>3. Twos = g BY <2>1, <2>2
  <2> QED BY <2>3 DEF g
<1>2. Is(two) BY <1>1
<1>3. Code!Two = two BY DEF Code!Two
<1> HIDE DEF two
<1>4. two[0] = 1 BY <1>2
<1>5. \A n \in Nat : two[n + 1] = 2 * two[n]
  <2> TAKE n \in Nat
  <2>1. n + 1 \in Nat /\ n + 1 # 0 /\ (n + 1) - 1 = n OBVIOUS
  <2> QED BY <1>2, <2>1
<1>6. \A n \in Nat : two[n] \in Nat
  <2> DEFINE T == {n \in Nat : two[n] \in Nat}
  <2>1. 0 \in T BY <1>4
  <2>2. \A n \in Nat : n \in T => n + 1 \in T BY <1>5
  <2> HIDE DEF T
  <2>3. Nat \subseteq T BY <2>1, <2>2, Induction
  <2> QED BY <2>3 DEF T
<1>7. DOMAIN two = Nat /\ two = [n \in Nat |-> two[n]] BY <1>2
<1> QED BY <1>3, <1>4, <1>5, <1>6, <1>7

LEMMA TwoPositive == \A n \in Nat : Code!Two[n] \in Nat /\ Code!Two[n] >= 1
<1> DEFINE T == {n \in Nat : Code!Two[n] >= 1}
<1>1. 0 \in T BY TwoIs
<1>2. \A n \in Nat : n \in T => n + 1 \in T BY TwoIs
<1> HIDE DEF T
<1>3. Nat \subseteq T BY <1>1, <1>2, Induction
<1> QED BY <1>3, TwoIs DEF T

LEMMA TwoPlus == \A m, n \in Nat : Code!Two[m + n] = Code!Two[m] * Code!Two[n]
<1> TAKE m \in Nat
<1> DEFINE T == {n \in Nat : Code!Two[m + n] = Code!Two[m] * Code!Two[n]}
<1>1. 0 \in T BY TwoIs
<1>2. ASSUME NEW n \in Nat, n \in T PROVE n + 1 \in T
  <2>1. PICK p, q, r : p = Code!Two[m] /\ q = Code!Two[n] /\ r = Code!Two[m + n] OBVIOUS
  <2>2. p \in Nat /\ q \in Nat /\ r \in Nat /\ r = p * q BY <1>2, <2>1, TwoIs
  <2>3. Code!Two[n + 1] = 2 * q BY <2>1, TwoIs
  <2>4. m + (n + 1) = (m + n) + 1 /\ m + n \in Nat OBVIOUS
  <2>5. Code!Two[m + (n + 1)] = 2 * r BY <2>1, <2>4, TwoIs
  <2>6. 2 * (p * q) = p * (2 * q) BY <2>2
  <2> QED BY <2>1, <2>2, <2>3, <2>5, <2>6
<1> HIDE DEF T
<1>3. Nat \subseteq T BY <1>1, <1>2, Induction
<1> QED BY <1>3 DEF T

(* Of two powers of two, the greater is a multiple of the other by one. *)
LEMMA TwoDivides ==
  ASSUME NEW m \in Nat, NEW n \in Nat, Code!Two[m] <= Code!Two[n]
  PROVE  m <= n /\ Code!Two[n] = Code!Two[m] * Code!Two[n - m]
<1>1. m <= n
  <2> SUFFICES ASSUME ~(m <= n) PROVE FALSE OBVIOUS
  <2>1. PICK d \in Nat : m = (n + 1) + d
    <3>1. m - (n + 1) \in Nat /\ m = (n + 1) + (m - (n + 1)) OBVIOUS
    <3> QED BY <3>1
  <2>2. PICK p, q, r : p = Code!Two[m] /\ q = Code!Two[n] /\ r = Code!Two[d] OBVIOUS
  <2>3. p \in Nat /\ q \in Nat /\ r \in Nat /\ q >= 1 /\ r >= 1 /\ p <= q
    BY <2>2, TwoPositive
  <2>4. Code!Two[n + 1] = 2 * q BY <2>2, TwoIs
  <2>5. p = (2 * q) * r BY <2>1, <2>2, <2>4, TwoPlus
  <2>6. (2 * q) * r >= 2 * q BY <2>3
  <2> QED BY <2>3, <2>5, <2>6
<1>2. n - m \in Nat /\ m + (n - m) = n BY <1>1
<1> QED BY <1>1, <1>2, TwoPlus

(* A number is one quotient and one remainder. *)
LEMMA DivIs ==
  ASSUME NEW q \in Nat, NEW d \in Nat, NEW r \in Nat, r < d,
         NEW n, n = q * d + r
  PROVE  n \in Nat /\ n \div d = q /\ n % d = r
<1>1. n \in Nat OBVIOUS
<1>2. PICK p, s : p = n \div d /\ s = n % d OBVIOUS
<1>3. p \in Int /\ s \in 0..d - 1 /\ n = d * p + s BY <1>1, <1>2
<1>4. CASE p < q
  <2>1. PICK e \in Nat : q = (p + 1) + e
    <3>1. q - (p + 1) \in Nat /\ q = (p + 1) + (q - (p + 1)) BY <1>3, <1>4
    <3> QED BY <3>1
  <2>2. q * d = (p * d + d) + e * d BY <2>1, <1>3
  <2>3. e * d \in Nat BY <2>1
  <2>4. p * d \in Int /\ p * d = d * p BY <1>3
  <2> QED BY <1>3, <2>2, <2>3, <2>4
<1>5. CASE q < p
  <2>1. PICK e \in Nat : p = (q + 1) + e
    <3>1. p - (q + 1) \in Nat /\ p = (q + 1) + (p - (q + 1)) BY <1>3, <1>5
    <3> QED BY <3>1
  <2>2. d * p = (q * d + d) + e * d BY <2>1
  <2>3. e * d \in Nat BY <2>1
  <2>4. q * d \in Int OBVIOUS
  <2> QED BY <1>3, <2>2, <2>3, <2>4
<1>6. p = q BY <1>3, <1>4, <1>5
<1> QED BY <1>1, <1>2, <1>3, <1>6

DividesTo(n, q, d, r) == q \in Nat /\ d \in Nat /\ r \in Nat /\ r < d /\ n = q * d + r

LEMMA DivGoes ==
  ASSUME NEW n, NEW q, NEW d, NEW r, DividesTo(n, q, d, r)
  PROVE  n \in Nat /\ n \div d = q /\ n % d = r BY DivIs DEF DividesTo

(* Any number has them. *)
LEMMA DivHas ==
  ASSUME NEW n \in Nat, NEW d \in Nat, d >= 1
  PROVE  \E q, r \in Nat : r < d /\ n = q * d + r /\ n \div d = q /\ n % d = r
<1>1. PICK p, s : p = n \div d /\ s = n % d OBVIOUS
<1>2. p \in Int /\ s \in 0..d - 1 /\ n = d * p + s BY <1>1
<1>3. p >= 0
  <2> SUFFICES ASSUME p < 0 PROVE FALSE BY <1>2
  <2>1. PICK e \in Nat : p = (0 - 1) - e
    <3>1. (0 - 1) - p \in Nat /\ p = (0 - 1) - ((0 - 1) - p) BY <1>2
    <3> QED BY <3>1
  <2>2. d * p = (0 - d) - d * e /\ d * e \in Nat BY <2>1
  <2> QED BY <1>2, <2>2
<1>4. d * p = p * d BY <1>2
<1>5. p \in Nat /\ s \in Nat /\ s < d /\ n = p * d + s /\ n \div d = p /\ n % d = s
  BY <1>1, <1>2, <1>3, <1>4
<1> QED BY <1>5

Half_ == Code!Two[Code!EXTRA_BITS]
Below == Code!Two[Code!SHIFT_BITS - ByteBits]
Bottom == Code!BOTTOM_VALUE

LEMMA Sizes ==
  ASSUME ByteBits \in 2..8
  PROVE  /\ Code!Byte \in Nat /\ Half_ \in Nat /\ Code!Byte = 2 * Half_ /\ Half_ >= 2
         /\ Code!Two[ByteBits - Code!EXTRA_BITS] = 2
         /\ Below \in Nat /\ Below >= 1 /\ Below = Code!Byte * Half_
         /\ Bottom \in Nat /\ Bottom >= 1 /\ Bottom = Code!Byte * Below
         /\ Code!Two[Code!SHIFT_BITS] = Bottom
         /\ Code!TOP_VALUE \in Nat /\ Code!TOP_VALUE = Code!Byte * Bottom
         /\ Code!Word = 2 * Code!TOP_VALUE /\ Code!Header \in Nat
<1> USE DEF Half_, Below, Bottom
<1>0. PICK i, b_, c, w, d, e : /\ i = ByteBits /\ b_ = Code!SHIFT_BITS /\ c = Code!CODE_BITS - 1
                              /\ w = Code!CODE_BITS /\ d = Code!SHIFT_BITS - ByteBits
                              /\ e = Code!EXTRA_BITS OBVIOUS
<1>01. /\ i \in Nat /\ b_ \in Nat /\ c \in Nat /\ d \in Nat /\ e \in Nat /\ e >= 1
       /\ c = i + b_ /\ w = c + 1 /\ b_ = i + d /\ d = i + e /\ i = e + 1
       /\ ByteBits - Code!EXTRA_BITS = 0 + 1 /\ 8 - i \in Nat
  <2>1. i \in 2..8 /\ w = 4 * i /\ c = w - 1 /\ b_ = w - (i + 1) /\ d = b_ - i
        /\ e = ((w - 2) % i) + 1 /\ Code!EXTRA_BITS = e /\ ByteBits = i
    BY <1>0 DEF Code!EXTRA_BITS, Code!CODE_BITS, Code!SHIFT_BITS
  <2>2. e = i - 1
    <3>1. w - 2 = 3 * i + (i - 2) /\ i - 2 \in Nat /\ i - 2 < i /\ i \in Nat BY <2>1
    <3>2. PICK n, r, q : n = w - 2 /\ r = i - 2 /\ q = 3 OBVIOUS
    <3>4. n = q * i + r /\ q \in Nat /\ r \in Nat /\ r < i /\ i \in Nat BY <3>1, <3>2
    <3>5. n % i = r BY <3>4, DivIs
    <3> QED BY <2>1, <3>2, <3>5
  <2> QED BY <2>1, <2>2
<1>1. PICK p, x, y, z, top : /\ p = Code!Two[i] /\ x = Code!Two[e] /\ y = Code!Two[d]
                            /\ z = Code!Two[b_] /\ top = Code!Two[c] OBVIOUS
<1>11. /\ p = Code!Byte /\ x = Half_ /\ y = Below /\ z = Code!Two[Code!SHIFT_BITS]
       /\ top = Code!TOP_VALUE /\ Code!Word = Code!Two[w]
  BY <1>0, <1>1 DEF Code!Byte, Code!TOP_VALUE, Code!Word
<1>2. p \in Nat /\ x \in Nat /\ y \in Nat /\ z \in Nat /\ top \in Nat /\ p >= 1 /\ x >= 1 /\ y >= 1 /\ z >= 1
  BY <1>01, <1>1, TwoPositive
<1>3. p = 2 * x BY <1>01, <1>1, TwoIs
<1>4. x >= 2
  <2>1. PICK k \in Nat : e = k + 1
    <3>1. e - 1 \in Nat /\ e = (e - 1) + 1 BY <1>01
    <3> QED BY <3>1
  <2>2. x = 2 * Code!Two[k] /\ Code!Two[k] \in Nat /\ Code!Two[k] >= 1
    BY <1>1, <2>1, TwoIs, TwoPositive
  <2> QED BY <2>2
<1>5. Code!Two[ByteBits - Code!EXTRA_BITS] = 2
  <2>1. Code!Two[0 + 1] = 2 BY TwoIs
  <2> QED BY <2>1, <1>01
<1>6. y = p * x BY <1>01, <1>1, TwoPlus
<1>7. z = p * y BY <1>01, <1>1, TwoPlus
<1>8. top = p * z BY <1>01, <1>1, TwoPlus
<1>9. Code!Word = 2 * top BY <1>01, <1>1, <1>11, TwoIs
<1>10. Bottom = z
  <2>1. top = z * p + 0 BY <1>2, <1>8
  <2>2. top \div p = z BY <1>2, <2>1, DivIs
  <2> QED BY <1>11, <2>2 DEF Code!BOTTOM_VALUE
<1>12. Code!Header \in Nat
  <2>1. Code!Two[8 - ByteBits] \in Nat /\ Code!Two[8 - ByteBits] >= 1
    BY <1>0, <1>01, TwoPositive
  <2>2. 202 \in Nat OBVIOUS
  <2> QED BY <2>1, <2>2, DivHas DEF Code!Header
<1> QED BY <1>11, <1>2, <1>3, <1>4, <1>5, <1>6, <1>7, <1>8, <1>9, <1>10, <1>12

(* The sum of a list, and of the beginning of one. *)
LEMMA TotalGrows ==
  /\ Code!Total(<<>>) = 0
  /\ \A s \in Seq(Nat) : Code!Total(s) \in Nat
  /\ \A s \in Seq(Nat), y \in Nat : Code!Total(Append(s, y)) = Code!Total(s) + y
<1>1. \A s : Code!Total(s) = Cut!Bytes(s) BY DEF Code!Total, Cut!Bytes
<1>2. \A s \in Seq(Nat), y \in Nat : Code!Total(Append(s, y)) = Code!Total(s) + y
  <2> TAKE s \in Seq(Nat), y \in Nat
  <2>1. Append(s, y) = s \o <<y>> /\ <<y>> \in Seq(Nat) OBVIOUS
  <2>2. Cut!Bytes(s \o <<y>>) = Cut!Bytes(s) + Cut!Bytes(<<y>>) /\ Cut!Bytes(<<y>>) = y
    BY <2>1, BytesJoin
  <2> QED BY <1>1, <2>1, <2>2
<1>3. Code!Total(<<>>) = 0
  <2> DEFINE e == <<>>
  <2>1. e \in Seq(Nat) /\ e \o e = e OBVIOUS
  <2> HIDE DEF e
  <2>2. PICK n : n = Cut!Bytes(e) OBVIOUS
  <2>3. n \in Nat /\ n = n + n BY <2>1, <2>2, BytesJoin
  <2> QED BY <1>1, <2>2, <2>3 DEF e
<1> QED BY <1>1, <1>2, <1>3, BytesJoin

LEMMA PrefixGrows ==
  ASSUME NEW t \in Seq(Nat), NEW n \in Nat, n < Len(t)
  PROVE  /\ SubSeq(t, 1, n) \in Seq(Nat) /\ SubSeq(t, 1, n + 1) \in Seq(Nat)
         /\ SubSeq(t, 1, n + 1) = Append(SubSeq(t, 1, n), t[n + 1]) /\ t[n + 1] \in Nat
<1> DEFINE p == SubSeq(t, 1, n)
           q == SubSeq(t, 1, n + 1)
           y == t[n + 1]
<1>1. /\ p \in Seq(Nat) /\ q \in Seq(Nat) /\ Len(p) = n /\ Len(q) = n + 1 /\ y \in Nat
      /\ (\A k \in 1..n : p[k] = t[k]) /\ (\A k \in 1..n + 1 : q[k] = t[k]) OBVIOUS
<1>2. y = t[n + 1] OBVIOUS
<1> DEFINE r == Append(p, y)
<1>3. /\ r \in Seq(Nat) /\ Len(r) = n + 1 /\ r[n + 1] = y
      /\ \A k \in 1..n : r[k] = p[k] BY <1>1
<1> HIDE DEF p, q, y, r
<1>4. \A k \in 1..n + 1 : r[k] = q[k]
  <2> TAKE k \in 1..n + 1
  <2>1. k \in 1..n \/ k = n + 1 OBVIOUS
  <2> QED BY <2>1, <1>1, <1>2, <1>3
<1>5. r = q
  <2>1. r = [k \in 1..n + 1 |-> r[k]] /\ q = [k \in 1..n + 1 |-> q[k]] BY <1>1, <1>3
  <2> QED BY <1>4, <2>1
<1> QED BY <1>1, <1>5 DEF p, q, y, r

LEMMA TotalPrefix ==
  ASSUME NEW t \in Seq(Nat)
  PROVE  /\ \A n \in 0..Len(t) - 1 :
              /\ Code!Total(SubSeq(t, 1, n)) \in Nat /\ t[n + 1] \in Nat
              /\ Code!Total(SubSeq(t, 1, n + 1)) = Code!Total(SubSeq(t, 1, n)) + t[n + 1]
         /\ \A n \in 0..Len(t) : Code!Total(SubSeq(t, 1, n)) <= Code!Total(t)
<1> DEFINE Sum(n) == Code!Total(SubSeq(t, 1, n))
           all == Code!Total(t)
           len == Len(t)
<1>1. \A n \in 0..len - 1 : Sum(n) \in Nat /\ t[n + 1] \in Nat /\ Sum(n + 1) = Sum(n) + t[n + 1]
  <2> TAKE n \in 0..len - 1
  <2>1. n \in Nat /\ n < Len(t) OBVIOUS
  <2>2. /\ SubSeq(t, 1, n) \in Seq(Nat) /\ SubSeq(t, 1, n + 1) \in Seq(Nat)
        /\ SubSeq(t, 1, n + 1) = Append(SubSeq(t, 1, n), t[n + 1]) /\ t[n + 1] \in Nat
    BY <2>1, PrefixGrows
  <2> QED BY <2>2, TotalGrows
<1>2. len \in Nat /\ Sum(len) = all /\ all \in Nat
  <2>1. SubSeq(t, 1, Len(t)) = t /\ Len(t) \in Nat OBVIOUS
  <2> QED BY <2>1, TotalGrows
<1> HIDE DEF Sum, all, len
<1> DEFINE T == {d \in Nat : \A n \in Nat : n + d = len => Sum(n) <= all}
<1>3. 0 \in T BY <1>2
<1>4. ASSUME NEW d \in Nat, d \in T PROVE d + 1 \in T
  <2> SUFFICES ASSUME NEW n \in Nat, n + (d + 1) = len PROVE Sum(n) <= all OBVIOUS
  <2>1. n \in 0..len - 1 /\ n + 1 \in Nat /\ (n + 1) + d = len BY <1>2
  <2>2. Sum(n + 1) <= all BY <1>4, <2>1
  <2>3. Sum(n) \in Nat /\ t[n + 1] \in Nat /\ Sum(n + 1) = Sum(n) + t[n + 1] BY <1>1, <2>1
  <2> QED BY <1>2, <2>2, <2>3
<1>5. Nat \subseteq T
  <2> HIDE DEF T
  <2> QED BY <1>3, <1>4, Induction
<1>6. ASSUME NEW n \in 0..len PROVE Sum(n) <= all
  <2>1. len - n \in Nat /\ n \in Nat /\ n + (len - n) = len BY <1>2
  <2> QED BY <1>5, <2>1
<1> QED BY <1>1, <1>6 DEF Sum, all, len

(* The number that some digits stand for. *)
Num == [value : Nat, scale : Nat]
Zero_ == [value |-> 0, scale |-> 1]
Reading == [q \in Num \X Size |-> Code!Read(q[1], q[2])]
Val(s) == Code!Number(s).value
Scale(s) == Code!Number(s).scale

LEMMA ReadingType ==
  ASSUME Code!Byte \in Nat
  PROVE  /\ Maps(Reading, Num, Size) /\ Zero_ \in Num
         /\ \A x \in Num, y \in Size : Reading[<<x, y>>] = Code!Read(x, y)
<1>1. \A x \in Num, y \in Size : Code!Read(x, y) \in Num
  <2> TAKE x \in Num, y \in Size
  <2>1. x.value * Code!Byte + y \in Nat /\ x.scale * Code!Byte \in Nat BY DEF Num, Size
  <2> QED BY <2>1 DEF Num, Code!Read
<1>2. Zero_ \in Num BY DEF Zero_, Num
<1>3. \A x \in Num, y \in Size : Reading[<<x, y>>] = Code!Read(x, y) BY DEF Reading
<1>4. \A q \in Num \X Size : Code!Read(q[1], q[2]) \in Num BY <1>1
<1>5. Maps(Reading, Num, Size) BY <1>4 DEF Maps, Reading
<1> QED BY <1>2, <1>3, <1>5

LEMMA NumberIs ==
  ASSUME Code!Byte \in Nat, NEW s \in Seq(Size)
  PROVE  Code!Number(s) = Runs(Reading, Zero_, s)
<1> DEFINE Is(f) == f = [k \in 0..Len(s) |->
                     IF k = 0 THEN [value |-> 0, scale |-> 1] ELSE Code!Read(f[k - 1], s[k])]
           until == CHOOSE f : Is(f)
<1>1. PICK r : IsRun(r, Reading, Zero_, s, Num) BY ReadingType, RunExists
<1>2. Is(r)
  <2> DEFINE g == [k \in 0..Len(s) |->
                     IF k = 0 THEN [value |-> 0, scale |-> 1] ELSE Code!Read(r[k - 1], s[k])]
  <2>1. ASSUME NEW k \in 0..Len(s) PROVE r[k] = g[k]
    <3>1. CASE k = 0 BY <3>1, <1>1 DEF IsRun, Zero_
    <3>2. CASE k # 0
      <4>1. k \in 1..Len(s) /\ k - 1 \in 0..Len(s) /\ s[k] \in Size BY <3>2
      <4>2. r[k] = Reading[<<r[k - 1], s[k]>>] /\ r[k - 1] \in Num BY <4>1, <1>1 DEF IsRun
      <4>3. r[k] = Code!Read(r[k - 1], s[k]) BY <4>1, <4>2, ReadingType
      <4> QED BY <3>2, <4>1, <4>3
    <3> QED BY <3>1, <3>2
  <2>2. g = [k \in 0..Len(s) |-> g[k]] /\ r = [k \in 0..Len(s) |-> r[k]] BY <1>1 DEF IsRun
  <2> HIDE DEF g
  <2>3. r = g BY <2>1, <2>2
  <2> QED BY <2>3 DEF g
<1>3. Is(until) BY <1>2
<1> HIDE DEF until
<1>4. Tracks(until, Reading, Zero_, s, Num)
  <2>1. until[0] = Zero_ BY <1>3 DEF Zero_
  <2>2. ASSUME NEW k \in 1..Len(s), until[k - 1] \in Num PROVE until[k] = Reading[<<until[k - 1], s[k]>>]
    <3>1. k \in 0..Len(s) /\ k # 0 /\ s[k] \in Size OBVIOUS
    <3>2. until[k] = Code!Read(until[k - 1], s[k]) BY <1>3, <3>1
    <3> QED BY <2>2, <3>1, <3>2, ReadingType
  <2> QED BY <2>1, <2>2 DEF Tracks
<1>5. until[Len(s)] = Runs(Reading, Zero_, s) BY ReadingType, <1>4, RunsTo
<1> QED BY <1>5 DEF Code!Number, until

LEMMA NumberGrows ==
  ASSUME Code!Byte \in Nat
  PROVE  /\ Val(<<>>) = 0 /\ Scale(<<>>) = 1
         /\ \A s \in Seq(Nat) : Val(s) \in Nat /\ Scale(s) \in Nat
         /\ \A s \in Seq(Nat), y \in Nat :
              Val(Append(s, y)) = Val(s) * Code!Byte + y /\ Scale(Append(s, y)) = Scale(s) * Code!Byte
<1>1. /\ Runs(Reading, Zero_, <<>>) = Zero_
      /\ \A s \in Seq(Size) : Runs(Reading, Zero_, s) \in Num
      /\ \A s \in Seq(Size), y \in Size :
           Runs(Reading, Zero_, Append(s, y)) = Reading[<<Runs(Reading, Zero_, s), y>>]
  BY ReadingType, RunsStep
<1>2. <<>> \in Seq(Size) /\ \A s \in Seq(Size), y \in Size : Append(s, y) \in Seq(Size)
  OBVIOUS
<1>3. \A s \in Seq(Size) : Code!Number(s) = Runs(Reading, Zero_, s) /\ Code!Number(s) \in Num
  BY <1>1, NumberIs
<1>4. ASSUME NEW s \in Seq(Size), NEW y \in Size
      PROVE  Code!Number(Append(s, y)) = Code!Read(Code!Number(s), y)
  <2>1. Code!Number(Append(s, y)) = Reading[<<Code!Number(s), y>>] BY <1>1, <1>2, <1>3
  <2>2. Code!Number(s) \in Num BY <1>3
  <2> QED BY <2>1, <2>2, ReadingType
<1>5. Code!Number(<<>>) = Zero_ BY <1>1, <1>2, <1>3
<1>6. \A s \in Seq(Size), y \in Size :
        /\ Val(Append(s, y)) = Val(s) * Code!Byte + y /\ Scale(Append(s, y)) = Scale(s) * Code!Byte
        /\ Val(s) \in Nat /\ Scale(s) \in Nat BY <1>3, <1>4 DEF Val, Scale, Code!Read, Num
<1>7. Val(<<>>) = 0 /\ Scale(<<>>) = 1 BY <1>5 DEF Val, Scale, Zero_
<1>8. \A s \in Seq(Size) : Val(s) \in Nat /\ Scale(s) \in Nat BY <1>3 DEF Val, Scale, Num
<1> QED BY <1>6, <1>7, <1>8 DEF Size

(* A byte over and over. *)
LEMMA TimesGrows ==
  ASSUME NEW x \in Nat
  PROVE  /\ Code!Times(0, x) = <<>>
         /\ \A u \in Nat : /\ Code!Times(u, x) \in Seq(Nat) /\ Len(Code!Times(u, x)) = u
                           /\ Code!Times(u + 1, x) = Append(Code!Times(u, x), x)
<1>1. Code!Times(0, x) = <<>> BY DEF Code!Times
<1>2. ASSUME NEW u \in Nat
      PROVE  /\ Code!Times(u, x) \in Seq(Nat) /\ Len(Code!Times(u, x)) = u
             /\ Code!Times(u + 1, x) = Append(Code!Times(u, x), x)
  <2> DEFINE s == Code!Times(u, x)
             t == Append(s, x)
             g == [k \in 1..u + 1 |-> x]
  <2>1. s \in Seq(Nat) /\ Len(s) = u /\ \A k \in 1..u : s[k] = x BY DEF Code!Times
  <2> HIDE DEF s
  <2>2. /\ t \in Seq(Nat) /\ Len(t) = u + 1 /\ t[u + 1] = x
        /\ \A k \in 1..u : t[k] = s[k] BY <2>1
  <2> HIDE DEF t
  <2>3. \A k \in 1..u + 1 : t[k] = x BY <2>1, <2>2
  <2>4. t = g
    <3>1. t = [k \in 1..u + 1 |-> t[k]] BY <2>2
    <3> QED BY <2>3, <3>1
  <2> QED BY <2>1, <2>4 DEF s, t, Code!Times
<1> QED BY <1>1, <1>2

LEMMA TimesAdded ==
  ASSUME NEW s \in Seq(Nat), NEW x \in Nat
  PROVE  /\ s \o Code!Times(0, x) = s
         /\ \A u \in Nat : /\ s \o Code!Times(u, x) \in Seq(Nat)
                           /\ s \o Code!Times(u + 1, x) = Append(s \o Code!Times(u, x), x)
<1>1. s \o Code!Times(0, x) = s
  <2>1. s \o <<>> = s OBVIOUS
  <2> QED BY <2>1, TimesGrows
<1>2. ASSUME NEW u \in Nat
      PROVE  /\ s \o Code!Times(u, x) \in Seq(Nat)
             /\ s \o Code!Times(u + 1, x) = Append(s \o Code!Times(u, x), x)
  <2>1. PICK t : t = Code!Times(u, x) OBVIOUS
  <2>2. t \in Seq(Nat) /\ Code!Times(u + 1, x) = Append(t, x) BY <2>1, TimesGrows
  <2>3. s \o t \in Seq(Nat) /\ s \o Append(t, x) = Append(s \o t, x) BY <2>2
  <2> QED BY <2>1, <2>2, <2>3
<1> QED BY <1>1, <1>2

(* A carry adds one to what the digits stand for. *)
LEMMA CarryAdds ==
  ASSUME Code!Byte \in Nat, Code!Byte >= 1, NEW o \in Seq(Nat), NEW w \in Nat
  PROVE  \A u \in Nat :
           /\ Val(Append(o, w + 1) \o Code!Times(u, 0)) = Val(Append(o, w) \o Code!Times(u, Code!Byte - 1)) + 1
           /\ Scale(Append(o, w + 1) \o Code!Times(u, 0)) = Scale(Append(o, w) \o Code!Times(u, Code!Byte - 1))
<1> DEFINE c(u) == Append(o, w + 1) \o Code!Times(u, 0)
           d(u) == Append(o, w) \o Code!Times(u, Code!Byte - 1)
           base == Code!Byte
<1>0. base \in Nat /\ base >= 1 /\ base - 1 \in Nat /\ 0 \in Nat OBVIOUS
<1>1. Append(o, w + 1) \in Seq(Nat) /\ Append(o, w) \in Seq(Nat) /\ w + 1 \in Nat OBVIOUS
<1>2. /\ c(0) = Append(o, w + 1) /\ d(0) = Append(o, w)
      /\ \A u \in Nat : /\ c(u) \in Seq(Nat) /\ d(u) \in Seq(Nat)
                        /\ c(u + 1) = Append(c(u), 0) /\ d(u + 1) = Append(d(u), base - 1)
  BY <1>0, <1>1, TimesAdded
<1>3. /\ Val(Append(o, w + 1)) = Val(o) * base + (w + 1) /\ Val(Append(o, w)) = Val(o) * base + w
      /\ Scale(Append(o, w + 1)) = Scale(o) * base /\ Scale(Append(o, w)) = Scale(o) * base
      /\ Val(o) \in Nat /\ Scale(o) \in Nat BY <1>1, NumberGrows
<1>4. \A u \in Nat : /\ Val(c(u + 1)) = Val(c(u)) * base + 0 /\ Val(d(u + 1)) = Val(d(u)) * base + (base - 1)
                     /\ Scale(c(u + 1)) = Scale(c(u)) * base /\ Scale(d(u + 1)) = Scale(d(u)) * base
                     /\ Val(c(u)) \in Nat /\ Val(d(u)) \in Nat BY <1>0, <1>2, NumberGrows
<1> HIDE DEF c, d, base
<1> DEFINE T == {u \in Nat : Val(c(u)) = Val(d(u)) + 1 /\ Scale(c(u)) = Scale(d(u))}
<1>5. 0 \in T
  <2>1. PICK v : v = Val(o) * base OBVIOUS
  <2>2. v \in Nat BY <1>0, <1>3, <2>1
  <2>3. Val(c(0)) = v + (w + 1) /\ Val(d(0)) = v + w BY <1>2, <1>3, <2>1
  <2>4. Val(c(0)) = Val(d(0)) + 1 BY <2>2, <2>3
  <2>5. Scale(c(0)) = Scale(d(0)) BY <1>2, <1>3
  <2> QED BY <2>4, <2>5
<1>6. ASSUME NEW u \in Nat, u \in T PROVE u + 1 \in T
  <2>1. PICK p, q : p = Val(c(u)) /\ q = Val(d(u)) OBVIOUS
  <2>2. p \in Nat /\ q \in Nat /\ p = q + 1 /\ Scale(c(u)) = Scale(d(u)) BY <1>4, <1>6, <2>1
  <2>3. p * base + 0 = (q * base + (base - 1)) + 1 BY <1>0, <2>2
  <2>4. Val(c(u + 1)) = Val(d(u + 1)) + 1 BY <1>4, <2>1, <2>3
  <2>5. Scale(c(u + 1)) = Scale(d(u + 1)) BY <1>4, <2>2
  <2> QED BY <2>4, <2>5
<1>7. Nat \subseteq T
  <2> HIDE DEF T
  <2> QED BY <1>5, <1>6, Induction
<1> QED BY <1>7 DEF c, d, base

(* Without its first digit. *)
LEMMA TailsAre ==
  ASSUME NEW s \in Seq(Nat), s # <<>>
  PROVE  /\ Tail(s) \in Seq(Nat) /\ s[1] \in Nat
         /\ \A y \in Nat : /\ Append(s, y) \in Seq(Nat) /\ Append(s, y) # <<>> /\ Append(s, y)[1] = s[1]
                           /\ Tail(Append(s, y)) = Append(Tail(s), y)
         /\ \A t \in Seq(Nat) : /\ s \o t \in Seq(Nat) /\ s \o t # <<>> /\ (s \o t)[1] = s[1]
                                /\ Tail(s \o t) = Tail(s) \o t
<1>1. Tail(s) \in Seq(Nat) /\ s[1] \in Nat /\ Len(s) \in Nat /\ Len(s) >= 1 /\ Len(Tail(s)) = Len(s) - 1
      /\ \A k \in 1..Len(s) - 1 : Tail(s)[k] = s[k + 1] OBVIOUS
<1>2. ASSUME NEW t \in Seq(Nat)
      PROVE  /\ s \o t \in Seq(Nat) /\ s \o t # <<>> /\ (s \o t)[1] = s[1]
             /\ Tail(s \o t) = Tail(s) \o t
  <2> DEFINE m == s \o t
             r == Tail(s)
             v == r \o t
             n == Len(s)
             l == Len(t)
  <2>1. /\ m \in Seq(Nat) /\ Len(m) = n + l /\ n \in Nat /\ l \in Nat /\ n >= 1
        /\ \A i \in 1..n + l : m[i] = IF i <= n THEN s[i] ELSE t[i - n]
    BY <1>1, ConcatProperties
  <2>2. r \in Seq(Nat) /\ Len(r) = n - 1 /\ \A k \in 1..n - 1 : r[k] = s[k + 1] BY <1>1
  <2> HIDE DEF m, r
  <2>3. /\ v \in Seq(Nat) /\ Len(v) = Len(r) + l
        /\ \A i \in 1..Len(r) + l : v[i] = IF i <= Len(r) THEN r[i] ELSE t[i - Len(r)]
    BY <2>2, ConcatProperties
  <2> HIDE DEF v, n, l
  <2>4. m # <<>> /\ m[1] = s[1]
    <3>1. 1 \in 1..n + l /\ 1 <= n /\ Len(m) # 0 BY <2>1
    <3> QED BY <2>1, <3>1
  <2> DEFINE w == Tail(m)
  <2>5. w \in Seq(Nat) /\ Len(w) = (n - 1) + l /\ \A k \in 1..(n - 1) + l : w[k] = m[k + 1]
    BY <2>1, <2>4
  <2> HIDE DEF w
  <2>6. \A k \in 1..(n - 1) + l : w[k] = v[k]
    <3> TAKE k \in 1..(n - 1) + l
    <3>1. k + 1 \in 1..n + l /\ k \in 1..Len(r) + l /\ w[k] = m[k + 1] /\ n - 1 \in Nat
      BY <2>1, <2>2, <2>5
    <3>2. CASE k <= n - 1
      <4>1. k + 1 <= n /\ k \in 1..n - 1 /\ k <= Len(r) BY <2>1, <2>2, <3>2
      <4> QED BY <2>1, <2>2, <2>3, <3>1, <4>1
    <3>3. CASE ~(k <= n - 1)
      <4>1. ~(k + 1 <= n) /\ ~(k <= Len(r)) /\ (k + 1) - n = k - Len(r) BY <2>1, <2>2, <3>3
      <4> QED BY <2>1, <2>3, <3>1, <4>1
    <3> QED BY <3>2, <3>3
  <2>7. w = v
    <3>1. w = [k \in 1..(n - 1) + l |-> w[k]] /\ v = [k \in 1..(n - 1) + l |-> v[k]]
      BY <2>2, <2>3, <2>5
    <3> QED BY <2>6, <3>1
  <2> QED BY <2>1, <2>4, <2>7 DEF m, r, v, w
<1>3. ASSUME NEW y \in Nat
      PROVE  /\ Append(s, y) \in Seq(Nat) /\ Append(s, y) # <<>> /\ Append(s, y)[1] = s[1]
             /\ Tail(Append(s, y)) = Append(Tail(s), y)
  <2>1. <<y>> \in Seq(Nat) /\ s \o <<y>> = Append(s, y) /\ Tail(s) \o <<y>> = Append(Tail(s), y)
    BY <1>1
  <2>2. /\ s \o <<y>> \in Seq(Nat) /\ s \o <<y>> # <<>> /\ (s \o <<y>>)[1] = s[1]
        /\ Tail(s \o <<y>>) = Tail(s) \o <<y>> BY <1>2, <2>1
  <2> QED BY <2>1, <2>2
<1> QED BY <1>1, <1>2, <1>3

(* The encoder.  Digits are those that are out or wait, as if no carry came. *)
Digits(e) == Append(e.output, e.working) \o Code!Times(e.underflow, Code!Byte - 1)
Rest(e) == Tail(Digits(e))
First(e) ==
  IF e.output = <<>> THEN e.working = Code!Header /\ e.low + e.high <= Code!TOP_VALUE
  ELSE e.output[1] = Code!Header
SoundEncoder ==
  {e \in Code!Encoder :
     /\ \E n \in Nat : e.high = Code!Two[n]
     /\ e.high <= Code!TOP_VALUE /\ e.low + e.high <= 2 * Code!TOP_VALUE /\ First(e)}

LEMMA LowParts ==
  ASSUME ByteBits \in 2..8, NEW low \in Nat, low < 2 * Code!TOP_VALUE
  PROVE  \E q, r \in Nat :
           /\ low = q * Bottom + r /\ r < Bottom /\ Code!Top(low) = q
           /\ (low * Code!Byte) % Code!TOP_VALUE = r * Code!Byte
           /\ q < 2 * Code!Byte
           /\ low < (Code!Byte - 1) * Code!Two[Code!SHIFT_BITS] <=> q < Code!Byte - 1
           /\ (low \div Code!TOP_VALUE) % 2 # 0 <=> q >= Code!Byte
           /\ q >= Code!Byte <=> low >= Code!TOP_VALUE
<1>1. PICK p, z, top : p = Code!Byte /\ z = Bottom /\ top = Code!TOP_VALUE OBVIOUS
<1>2. p \in Nat /\ p >= 4 /\ z \in Nat /\ z >= 1 /\ top \in Nat /\ top = p * z /\ Code!Two[Code!SHIFT_BITS] = z
      /\ low < 2 * top BY <1>1, Sizes
<1>3. PICK q \in Nat, r \in Nat : r < z /\ low = q * z + r /\ low \div z = q BY <1>2, DivHas
<1>4. Code!Top(low) = q BY <1>2, <1>3 DEF Code!Top
<1>5. top >= 1 BY <1>2
<1>6. (low * p) % top = r * p
  <2>1. PICK n, s : n = low * p /\ s = r * p OBVIOUS
  <2>2. n \in Nat /\ s \in Nat BY <1>2, <1>3, <2>1
  <2>3. n = q * top + s
    <3>1. (q * z + r) * p = q * (p * z) + r * p BY <1>2, <1>3
    <3> QED BY <1>2, <1>3, <2>1, <3>1
  <2>4. s < top
    <3>1. r * p < z * p BY <1>2, <1>3
    <3> QED BY <1>2, <2>1, <3>1
  <2>5. n % top = s
    <3>1. top \in Nat BY <1>2
    <3>2. DividesTo(n, q, top, s) BY <2>2, <2>3, <2>4, <3>1 DEF DividesTo
    <3> QED BY <3>2, DivGoes
  <2> QED BY <2>1, <2>5
<1>7. ASSUME NEW k \in Nat PROVE q < k <=> low < k * z
  <2>1. CASE q < k
    <3>1. PICK e \in Nat : k = (q + 1) + e
      <4>1. k - (q + 1) \in Nat /\ k = (q + 1) + (k - (q + 1)) BY <2>1
      <4> QED BY <4>1
    <3>2. k * z = (q * z + z) + e * z /\ e * z \in Nat /\ q * z \in Nat BY <1>2, <3>1
    <3> QED BY <1>2, <1>3, <2>1, <3>2
  <2>2. CASE ~(q < k)
    <3>1. PICK e \in Nat : q = k + e
      <4>1. q - k \in Nat /\ q = k + (q - k) BY <2>2
      <4> QED BY <4>1
    <3>2. q * z = k * z + e * z /\ e * z \in Nat /\ k * z \in Nat BY <1>2, <3>1
    <3> QED BY <1>2, <1>3, <2>2, <3>2
  <2> QED BY <2>1, <2>2
<1>8. q < p <=> low < top BY <1>2, <1>7
<1>9. q < 2 * p
  <2>1. 2 * p \in Nat /\ (2 * p) * z = 2 * top BY <1>2
  <2> QED BY <1>2, <1>7, <2>1
<1>10. q < p - 1 <=> low < (p - 1) * z BY <1>2, <1>7
<1>11. (low \div top) % 2 # 0 <=> low >= top
  <2>1. CASE low < top
    <3>1. low = 0 * top + low BY <1>2
    <3>2. low \div top = 0 BY <1>2, <2>1, <3>1, DivIs
    <3> QED BY <1>2, <2>1, <3>2
  <2>2. CASE ~(low < top)
    <3>1. PICK d : d = low - top OBVIOUS
    <3>2. d \in Nat /\ d < top /\ low = 1 * top + d BY <1>2, <2>2, <3>1
    <3>3. low \div top = 1 BY <1>2, <3>2, DivIs
    <3> QED BY <1>2, <2>2, <3>3
  <2> QED BY <2>1, <2>2
<1>12. q >= p <=> low >= top BY <1>2, <1>8
<1> QED BY <1>1, <1>2, <1>3, <1>4, <1>6, <1>9, <1>10, <1>11, <1>12

LEMMA ShiftedFields ==
  ASSUME NEW e \in Code!Encoder
  PROVE  /\ Code!Shifted(e).low = (e.low * Code!Byte) % Code!TOP_VALUE
         /\ Code!Shifted(e).high = (e.high * Code!Byte) % Code!Word
         /\ Code!Shifted(e).working = Code!Settled(e).working
         /\ Code!Shifted(e).underflow = Code!Settled(e).underflow
         /\ Code!Shifted(e).output = Code!Settled(e).output
         /\ Code!Shifted(e) = [low |-> Code!Shifted(e).low, high |-> Code!Shifted(e).high,
              working |-> Code!Shifted(e).working, underflow |-> Code!Shifted(e).underflow,
              output |-> Code!Shifted(e).output]
<1>1. /\ DOMAIN Code!Settled(e) = {"low", "high", "working", "underflow", "output"}
      /\ Code!Settled(e).low = e.low /\ Code!Settled(e).high = e.high
      /\ Code!Settled(e) = [low |-> Code!Settled(e).low, high |-> Code!Settled(e).high,
              working |-> Code!Settled(e).working, underflow |-> Code!Settled(e).underflow,
              output |-> Code!Settled(e).output]
  BY DEF Code!Settled, Code!Written, Code!Encoder
<1>2. PICK g : g = Code!Settled(e) OBVIOUS
<1>21. PICK w, u, o : w = g.working /\ u = g.underflow /\ o = g.output OBVIOUS
<1>22. g = [low |-> e.low, high |-> e.high, working |-> w, underflow |-> u, output |-> o]
  BY <1>1, <1>2, <1>21
<1>23. Code!Shifted(e) = [g EXCEPT !.high = (g.high * Code!Byte) % Code!Word,
                                   !.low = (g.low * Code!Byte) % Code!TOP_VALUE]
  BY <1>2 DEF Code!Shifted
<1>24. [g EXCEPT !.high = (e.high * Code!Byte) % Code!Word, !.low = (e.low * Code!Byte) % Code!TOP_VALUE]
       = [low |-> (e.low * Code!Byte) % Code!TOP_VALUE, high |-> (e.high * Code!Byte) % Code!Word,
          working |-> w, underflow |-> u, output |-> o]
  <2>1. PICK x, y : x = (e.high * Code!Byte) % Code!Word /\ y = (e.low * Code!Byte) % Code!TOP_VALUE
    OBVIOUS
  <2>2. [g EXCEPT !.high = x, !.low = y]
        = [low |-> y, high |-> x, working |-> w, underflow |-> u, output |-> o]
    <3>1. PICK l, h : l = e.low /\ h = e.high OBVIOUS
    <3>2. g = [low |-> l, high |-> h, working |-> w, underflow |-> u, output |-> o]
      BY <1>22, <3>1
    <3>3. [g EXCEPT !.high = x]
          = [low |-> l, high |-> x, working |-> w, underflow |-> u, output |-> o] BY <3>2
    <3>4. PICK k : k = [low |-> l, high |-> x, working |-> w, underflow |-> u, output |-> o]
      OBVIOUS
    <3>5. [k EXCEPT !.low = y] = [low |-> y, high |-> x, working |-> w, underflow |-> u, output |-> o]
      BY <3>4
    <3>6. [g EXCEPT !.high = x, !.low = y] = [[g EXCEPT !.high = x] EXCEPT !.low = y]
      OBVIOUS
    <3> QED BY <3>3, <3>4, <3>5, <3>6
  <2> QED BY <2>1, <2>2
<1>3. Code!Shifted(e) = [low |-> (e.low * Code!Byte) % Code!TOP_VALUE,
         high |-> (e.high * Code!Byte) % Code!Word,
         working |-> g.working, underflow |-> g.underflow, output |-> g.output]
  BY <1>1, <1>2, <1>21, <1>23, <1>24
<1> QED BY <1>2, <1>3

LEMMA SettledFields ==
  ASSUME NEW e \in Code!Encoder
  PROVE  LET quiet == e.low < (Code!Byte - 1) * Code!Two[Code!SHIFT_BITS]
             carry == (e.low \div Code!TOP_VALUE) % 2 # 0
             q == Code!Top(e.low) % Code!Byte
         IN  /\ quiet => /\ Code!Settled(e).output = Digits(e)
                         /\ Code!Settled(e).working = q /\ Code!Settled(e).underflow = 0
             /\ ~quiet /\ carry => /\ Code!Settled(e).output =
                                        Append(e.output, e.working + 1) \o Code!Times(e.underflow, 0)
                                   /\ Code!Settled(e).working = q /\ Code!Settled(e).underflow = 0
             /\ ~quiet /\ ~carry => /\ Code!Settled(e).output = e.output
                                    /\ Code!Settled(e).working = e.working
                                    /\ Code!Settled(e).underflow = e.underflow + 1
BY DEF Code!Settled, Code!Written, Code!Encoder, Digits

Moves(e, f) ==
  /\ f.high = e.high * Code!Byte
  /\ Val(Rest(f)) * Code!TOP_VALUE + f.low = (Val(Rest(e)) * Code!TOP_VALUE + e.low) * Code!Byte
  /\ Scale(Rest(f)) = Scale(Rest(e)) * Code!Byte

LEMMA SoundIs ==
  ASSUME ByteBits \in 2..8, NEW e \in SoundEncoder
  PROVE  /\ e.low \in Nat /\ e.high \in Nat /\ e.high >= 1 /\ e.working \in Nat /\ e.underflow \in Nat
         /\ e.output \in Seq(Nat) /\ e \in Code!Encoder /\ First(e)
         /\ e.low + e.high <= 2 * Code!TOP_VALUE /\ e.high <= Code!TOP_VALUE
         /\ e = [low |-> e.low, high |-> e.high, working |-> e.working, underflow |-> e.underflow,
                 output |-> e.output]
         /\ Digits(e) \in Seq(Nat) /\ Digits(e) # <<>> /\ Rest(e) \in Seq(Nat)
         /\ Digits(e)[1] = Code!Header
         /\ Val(Rest(e)) \in Nat /\ Scale(Rest(e)) \in Nat
<1>1. /\ e.low \in Nat /\ e.high \in Nat /\ e.working \in Nat /\ e.underflow \in Nat
      /\ e.output \in Seq(Nat) /\ e \in Code!Encoder /\ First(e)
      /\ e.low + e.high <= 2 * Code!TOP_VALUE /\ e.high <= Code!TOP_VALUE
      /\ e = [low |-> e.low, high |-> e.high, working |-> e.working, underflow |-> e.underflow,
              output |-> e.output] BY DEF SoundEncoder, Code!Encoder
<1>2. e.high >= 1 BY TwoPositive DEF SoundEncoder
<1>3. Code!Byte \in Nat /\ Code!Byte - 1 \in Nat BY Sizes
<1>4. PICK a_, t : a_ = Append(e.output, e.working) /\ t = Code!Times(e.underflow, Code!Byte - 1)
  OBVIOUS
<1>5. t \in Seq(Nat) BY <1>1, <1>3, <1>4, TimesGrows
<1>6. a_ \in Seq(Nat) /\ a_ # <<>> /\ a_[1] = Code!Header
  <2>1. CASE e.output = <<>> BY <1>1, <1>4, <2>1 DEF First
  <2>2. CASE e.output # <<>> BY <1>1, <1>4, <2>2, TailsAre DEF First
  <2> QED BY <2>1, <2>2
<1>7. Digits(e) = a_ \o t BY <1>4 DEF Digits
<1>8. Digits(e) \in Seq(Nat) /\ Digits(e) # <<>> /\ Digits(e)[1] = Code!Header
  BY <1>5, <1>6, <1>7, TailsAre
<1>9. Rest(e) \in Seq(Nat) BY <1>8, TailsAre DEF Rest
<1> QED BY <1>1, <1>2, <1>3, <1>8, <1>9, NumberGrows

LEMMA ByteIs ==
  ASSUME ByteBits \in 2..8
  PROVE  /\ Code!Byte \in Nat /\ Code!Byte >= 4 /\ Code!Byte - 1 \in Nat /\ 0 \in Nat
         /\ Code!TOP_VALUE \in Nat
<1>1. PICK p, x : p = Code!Byte /\ x = Half_ OBVIOUS
<1>2. p \in Nat /\ x \in Nat /\ p = 2 * x /\ x >= 2 /\ Code!TOP_VALUE \in Nat
  BY <1>1, Sizes
<1>3. p >= 4 /\ p - 1 \in Nat BY <1>2
<1> QED BY <1>1, <1>2, <1>3

Joins(s, t, m) == s \in Seq(Nat) /\ s # <<>> /\ t \in Seq(Nat) /\ m = s \o t

LEMMA JoinsOn ==
  ASSUME NEW s, NEW t, NEW m, Joins(s, t, m)
  PROVE  m \in Seq(Nat) /\ m # <<>> /\ m[1] = s[1] /\ Tail(m) = Tail(s) \o t
BY TailsAre DEF Joins

(* What a record is, of which the rest does not matter. *)
Has(e, o, w, u) == e.output = o /\ e.working = w /\ e.underflow = u
SplitFollows(d, y, t) == d \in Seq(Nat) /\ d # <<>> /\ y \in Nat /\ t = Append(d, y)

LEMMA FollowsOn ==
  ASSUME ByteBits \in 2..8, NEW d, NEW y, NEW t, SplitFollows(d, y, t)
  PROVE  /\ t \in Seq(Nat) /\ Tail(d) \in Seq(Nat) /\ Tail(t) = Append(Tail(d), y)
         /\ Val(Tail(d)) \in Nat /\ Scale(Tail(d)) \in Nat
         /\ Val(Tail(t)) = Val(Tail(d)) * Code!Byte + y
         /\ Scale(Tail(t)) = Scale(Tail(d)) * Code!Byte
<1>0. d \in Seq(Nat) /\ d # <<>> /\ y \in Nat /\ t = Append(d, y) BY DEF SplitFollows
<1>1. t \in Seq(Nat) /\ Tail(d) \in Seq(Nat) /\ Tail(t) = Append(Tail(d), y)
  BY <1>0, TailsAre
<1>2. PICK s : s = Tail(d) OBVIOUS
<1>3. s \in Seq(Nat) BY <1>1, <1>2
<1>4. Code!Byte \in Nat BY Sizes
<1>5. /\ Val(s) \in Nat /\ Scale(s) \in Nat
      /\ Val(Append(s, y)) = Val(s) * Code!Byte + y /\ Scale(Append(s, y)) = Scale(s) * Code!Byte
  BY <1>0, <1>3, <1>4, NumberGrows
<1> QED BY <1>1, <1>2, <1>5

LEMMA WaitsNot ==
  ASSUME ByteBits \in 2..8, NEW e, NEW o, NEW w, Has(e, o, w, 0), o \in Seq(Nat), w \in Nat
  PROVE  Digits(e) = Append(o, w)
<1>1. PICK x, a_ : x = Code!Byte - 1 /\ a_ = Append(o, w) OBVIOUS
<1>2. x \in Nat /\ a_ \in Seq(Nat) BY <1>1, ByteIs
<1>3. a_ \o Code!Times(0, x) = a_ BY <1>2, TimesAdded
<1> QED BY <1>1, <1>3 DEF Digits, Has

LEMMA WaitsMore ==
  ASSUME ByteBits \in 2..8, NEW e, NEW f, NEW o, NEW w, NEW u, Has(e, o, w, u), Has(f, o, w, u + 1),
         o \in Seq(Nat), w \in Nat, u \in Nat
  PROVE  Digits(f) = Append(Digits(e), Code!Byte - 1)
<1>1. PICK x, a_ : x = Code!Byte - 1 /\ a_ = Append(o, w) OBVIOUS
<1>2. x \in Nat /\ a_ \in Seq(Nat) BY <1>1, ByteIs
<1>3. a_ \o Code!Times(u + 1, x) = Append(a_ \o Code!Times(u, x), x) BY <1>2, TimesAdded
<1> QED BY <1>1, <1>3 DEF Digits, Has

TakesCarry(o, w, u, c, d) ==
  /\ o \in Seq(Nat) /\ o # <<>> /\ w \in Nat /\ u \in Nat
  /\ c = Append(o, w + 1) \o Code!Times(u, 0)
  /\ d = Append(o, w) \o Code!Times(u, Code!Byte - 1)

LEMMA CarriesOver ==
  ASSUME ByteBits \in 2..8, NEW o, NEW w, NEW u, NEW c, NEW d,
         TakesCarry(o, w, u, c, d)
  PROVE  /\ c \in Seq(Nat) /\ c # <<>> /\ c[1] = o[1] /\ Tail(c) \in Seq(Nat)
         /\ Val(Tail(c)) = Val(Tail(d)) + 1 /\ Scale(Tail(c)) = Scale(Tail(d))
<1>0. /\ o \in Seq(Nat) /\ o # <<>> /\ w \in Nat /\ u \in Nat
      /\ c = Append(o, w + 1) \o Code!Times(u, 0)
      /\ d = Append(o, w) \o Code!Times(u, Code!Byte - 1) BY DEF TakesCarry
<1>1. PICK x, a_, b_, s, t, r : /\ x = Code!Byte - 1 /\ a_ = Append(o, w + 1) /\ b_ = Append(o, w)
                               /\ s = Code!Times(u, 0) /\ t = Code!Times(u, x) /\ r = Tail(o)
  OBVIOUS
<1>2. x \in Nat /\ Code!Byte \in Nat /\ Code!Byte >= 1 /\ w + 1 \in Nat /\ 0 \in Nat
  BY <1>0, <1>1, ByteIs
<1>3. s \in Seq(Nat) /\ t \in Seq(Nat) BY <1>0, <1>1, <1>2, TimesGrows
<1>4. /\ a_ \in Seq(Nat) /\ a_ # <<>> /\ a_[1] = o[1] /\ Tail(a_) = Append(r, w + 1)
      /\ b_ \in Seq(Nat) /\ b_ # <<>> /\ Tail(b_) = Append(r, w) /\ r \in Seq(Nat)
  BY <1>0, <1>1, <1>2, TailsAre
<1>5. Joins(a_, s, c) /\ Joins(b_, t, d)
  <2>1. Code!Byte - 1 = x /\ Append(o, w + 1) = a_ /\ Append(o, w) = b_ BY <1>1
  <2>2. c = a_ \o s /\ d = b_ \o t BY <1>0, <1>1, <2>1
  <2>3. a_ \in Seq(Nat) /\ a_ # <<>> /\ b_ \in Seq(Nat) /\ b_ # <<>> BY <1>4
  <2>4. Joins(a_, s, c) BY <1>3, <2>2, <2>3 DEF Joins
  <2>5. Joins(b_, t, d) BY <1>3, <2>2, <2>3 DEF Joins
  <2> QED BY <2>4, <2>5
<1>6. c \in Seq(Nat) /\ c # <<>> /\ c[1] = o[1] /\ Tail(c) = Tail(a_) \o s
  <2>1. c \in Seq(Nat) /\ c # <<>> /\ c[1] = a_[1] /\ Tail(c) = Tail(a_) \o s
    BY <1>5, JoinsOn
  <2>2. a_[1] = o[1] BY <1>4
  <2> QED BY <2>1, <2>2
<1>7. Tail(d) = Tail(b_) \o t BY <1>4, <1>5, JoinsOn
<1>8. /\ Tail(c) = Append(r, w + 1) \o Code!Times(u, 0)
      /\ Tail(d) = Append(r, w) \o Code!Times(u, Code!Byte - 1) BY <1>1, <1>4, <1>6, <1>7
<1>9. Tail(c) \in Seq(Nat) BY <1>6, TailsAre
<1>10. /\ Val(Append(r, w + 1) \o Code!Times(u, 0))
            = Val(Append(r, w) \o Code!Times(u, Code!Byte - 1)) + 1
       /\ Scale(Append(r, w + 1) \o Code!Times(u, 0))
            = Scale(Append(r, w) \o Code!Times(u, Code!Byte - 1))
  BY <1>0, <1>2, <1>4, CarryAdds
<1> QED BY <1>6, <1>8, <1>9, <1>10

Splits(low, q, r) ==
  /\ q \in Nat /\ r \in Nat /\ low = q * Bottom + r /\ r < Bottom /\ Code!Top(low) = q
  /\ (low * Code!Byte) % Code!TOP_VALUE = r * Code!Byte
  /\ q < 2 * Code!Byte
  /\ low < (Code!Byte - 1) * Code!Two[Code!SHIFT_BITS] <=> q < Code!Byte - 1
  /\ (low \div Code!TOP_VALUE) % 2 # 0 <=> q >= Code!Byte
  /\ q >= Code!Byte <=> low >= Code!TOP_VALUE

(* A byte that is settled, and what waits. *)
Quiet(e, f, q) == Has(f, Digits(e), q, 0)
Carry(e, f, q) ==
  Has(f, Append(e.output, e.working + 1) \o Code!Times(e.underflow, 0), q - Code!Byte, 0)
Waits(e, f) == Has(f, e.output, e.working, e.underflow + 1)

LEMMA SettlesAs ==
  ASSUME ByteBits \in 2..8, NEW e \in Code!Encoder, NEW q, NEW r, Splits(e.low, q, r),
         NEW f, f = Code!Settled(e)
  PROVE  /\ q < Code!Byte - 1 => Quiet(e, f, q)
         /\ q >= Code!Byte => Carry(e, f, q)
         /\ q = Code!Byte - 1 => Waits(e, f)
<1>1. PICK quiet, carry, m : /\ quiet = (e.low < (Code!Byte - 1) * Code!Two[Code!SHIFT_BITS])
                            /\ carry = ((e.low \div Code!TOP_VALUE) % 2 # 0)
                            /\ m = Code!Top(e.low) % Code!Byte OBVIOUS
<1>2. /\ (e.low < (Code!Byte - 1) * Code!Two[Code!SHIFT_BITS]) => Has(f, Digits(e), m, 0)
      /\ /\ ~(e.low < (Code!Byte - 1) * Code!Two[Code!SHIFT_BITS])
         /\ (e.low \div Code!TOP_VALUE) % 2 # 0
         => Has(f, Append(e.output, e.working + 1) \o Code!Times(e.underflow, 0), m, 0)
      /\ /\ ~(e.low < (Code!Byte - 1) * Code!Two[Code!SHIFT_BITS])
         /\ ~((e.low \div Code!TOP_VALUE) % 2 # 0)
         => Has(f, e.output, e.working, e.underflow + 1) BY <1>1, SettledFields DEF Has
<1>3. /\ q \in Nat /\ Code!Top(e.low) = q /\ q < 2 * Code!Byte
      /\ (e.low < (Code!Byte - 1) * Code!Two[Code!SHIFT_BITS]) <=> q < Code!Byte - 1
      /\ ((e.low \div Code!TOP_VALUE) % 2 # 0) <=> q >= Code!Byte BY DEF Splits
<1>4. /\ q < Code!Byte - 1 => Has(f, Digits(e), m, 0)
      /\ ~(q < Code!Byte - 1) /\ q >= Code!Byte
           => Has(f, Append(e.output, e.working + 1) \o Code!Times(e.underflow, 0), m, 0)
      /\ ~(q < Code!Byte - 1) /\ ~(q >= Code!Byte) => Has(f, e.output, e.working, e.underflow + 1)
  BY <1>2, <1>3
<1>5. Code!Byte \in Nat /\ Code!Byte >= 1 BY Sizes
<1>6. PICK p : p = Code!Byte OBVIOUS
<1>7. p \in Nat /\ p >= 1 /\ q \in Nat /\ q < 2 * p /\ m = q % p BY <1>1, <1>3, <1>5, <1>6
<1>8. (q < p - 1 => m = q) /\ (q >= p => m = q - p)
  <2>1. ASSUME q < p - 1 PROVE m = q
    <3>1. DividesTo(q, 0, p, q) BY <1>7, <2>1 DEF DividesTo
    <3> QED BY <1>7, <3>1, DivGoes
  <2>2. ASSUME q >= p PROVE m = q - p
    <3>1. PICK k : k = q - p OBVIOUS
    <3>2. DividesTo(q, 1, p, k) BY <1>7, <2>2, <3>1 DEF DividesTo
    <3> QED BY <1>7, <3>1, <3>2, DivGoes
  <2> QED BY <2>1, <2>2
<1>9. /\ (q < p - 1) => Has(f, Digits(e), m, 0)
      /\ (q >= p) => Has(f, Append(e.output, e.working + 1) \o Code!Times(e.underflow, 0), m, 0)
      /\ (q = p - 1) => Has(f, e.output, e.working, e.underflow + 1) BY <1>4, <1>6, <1>7
<1> QED BY <1>6, <1>8, <1>9 DEF Quiet, Carry, Waits

Settles(e, f, q) ==
  /\ f.working \in Nat /\ f.underflow \in Nat /\ f.output \in Seq(Nat)
  /\ Val(Rest(f)) = Val(Rest(e)) * Code!Byte + q
  /\ Scale(Rest(f)) = Scale(Rest(e)) * Code!Byte
  /\ \/ f.output # <<>> /\ f.output[1] = Code!Header
     \/ /\ f.output = <<>> /\ f.working = Code!Header /\ q = Code!Byte - 1
        /\ e.low + e.high <= Code!TOP_VALUE

LEMMA RestSettles ==
  ASSUME ByteBits \in 2..8, NEW e \in SoundEncoder, NEW q, NEW r, Splits(e.low, q, r),
         NEW f, f = Code!Settled(e)
  PROVE  Settles(e, f, q)
<1>1. PICK o, w, u, d, p : /\ o = e.output /\ w = e.working /\ u = e.underflow /\ d = Digits(e)
                          /\ p = Code!Byte OBVIOUS
<1>2. w \in Nat /\ u \in Nat /\ o \in Seq(Nat) /\ e \in Code!Encoder /\ First(e)
  BY <1>1, SoundIs
<1>3. d \in Seq(Nat) /\ d # <<>> /\ d[1] = Code!Header /\ Rest(e) = Tail(d)
  <2>1. Digits(e) \in Seq(Nat) /\ Digits(e) # <<>> /\ Digits(e)[1] = Code!Header BY SoundIs
  <2> QED BY <1>1, <2>1 DEF Rest
<1>4. p \in Nat /\ p >= 4 /\ q \in Nat /\ q < 2 * p /\ (q >= p <=> e.low >= Code!TOP_VALUE)
      /\ p - 1 \in Nat /\ Code!TOP_VALUE \in Nat
  <2>1. q \in Nat /\ q < 2 * Code!Byte /\ (q >= Code!Byte <=> e.low >= Code!TOP_VALUE)
    BY DEF Splits
  <2>2. Code!Byte \in Nat /\ Code!Byte = 2 * Half_ /\ Half_ \in Nat /\ Half_ >= 2 /\ Code!TOP_VALUE \in Nat
    BY Sizes
  <2> QED BY <1>1, <2>1, <2>2
<1>5. (q < p - 1 => Quiet(e, f, q)) /\ (q >= p => Carry(e, f, q)) /\ (q = p - 1 => Waits(e, f))
  BY <1>1, <1>2, SettlesAs
<1>6. IF o = <<>> THEN w = Code!Header /\ e.low + e.high <= Code!TOP_VALUE ELSE o[1] = Code!Header
  BY <1>1, <1>2 DEF First
<1>7. CASE q < p - 1
  <2>1. Has(f, d, q, 0) BY <1>1, <1>5, <1>7 DEF Quiet
  <2>2. Digits(f) = Append(d, q) BY <2>1, <1>3, <1>4, WaitsNot
  <2>3. PICK t : t = Append(d, q) OBVIOUS
  <2>4. SplitFollows(d, q, t) BY <1>3, <1>4, <2>3 DEF SplitFollows
  <2>5. Val(Tail(t)) = Val(Tail(d)) * Code!Byte + q /\ Scale(Tail(t)) = Scale(Tail(d)) * Code!Byte
    BY <2>4, FollowsOn
  <2>6. Rest(f) = Tail(t) BY <2>2, <2>3 DEF Rest
  <2>7. f.output = d /\ f.working = q /\ f.underflow = 0 BY <2>1 DEF Has
  <2> QED BY <1>3, <1>4, <2>5, <2>6, <2>7 DEF Settles
<1>8. CASE q >= p
  <2>1. PICK c, k : c = Append(o, w + 1) \o Code!Times(u, 0) /\ k = q - p OBVIOUS
  <2>2. Has(f, c, k, 0) BY <1>1, <1>5, <1>8, <2>1 DEF Carry
  <2>3. k \in Nat /\ q = p + k BY <1>4, <1>8, <2>1
  <2>4. o # <<>> /\ o[1] = Code!Header
    <3>1. e.low >= Code!TOP_VALUE BY <1>4, <1>8
    <3>2. e.low \in Nat /\ e.high \in Nat /\ e.high >= 1 BY SoundIs
    <3>3. ~(e.low + e.high <= Code!TOP_VALUE) BY <1>4, <3>1, <3>2
    <3> QED BY <1>6, <3>3
  <2>5. d = Append(o, w) \o Code!Times(u, Code!Byte - 1) BY <1>1 DEF Digits
  <2>6. /\ c \in Seq(Nat) /\ c # <<>> /\ c[1] = o[1] /\ Tail(c) \in Seq(Nat)
        /\ Val(Tail(c)) = Val(Tail(d)) + 1 /\ Scale(Tail(c)) = Scale(Tail(d))
    <3>1. TakesCarry(o, w, u, c, d) BY <1>2, <2>1, <2>4, <2>5 DEF TakesCarry
    <3> QED BY <3>1, CarriesOver
  <2>7. Digits(f) = Append(c, k) BY <2>2, <2>3, <2>6, WaitsNot
  <2>8. PICK t : t = Append(c, k) OBVIOUS
  <2>9. SplitFollows(c, k, t) BY <2>3, <2>6, <2>8 DEF SplitFollows
  <2>10. Val(Tail(t)) = Val(Tail(c)) * Code!Byte + k /\ Scale(Tail(t)) = Scale(Tail(c)) * Code!Byte
    BY <2>9, FollowsOn
  <2>11. Rest(f) = Tail(t) BY <2>7, <2>8 DEF Rest
  <2>12. f.output = c /\ f.working = k /\ f.underflow = 0 BY <2>2 DEF Has
  <2>13. Val(Tail(c)) * Code!Byte + k = Val(Tail(d)) * Code!Byte + q
    <3>1. PICK v : v = Val(Tail(d)) OBVIOUS
    <3>2. v \in Nat
      <4>1. Val(Rest(e)) \in Nat BY SoundIs
      <4> QED BY <1>3, <3>1, <4>1
    <3>3. (v + 1) * p + k = v * p + q BY <1>4, <2>3, <3>2
    <3> QED BY <1>1, <2>6, <3>1, <3>3
  <2> QED BY <1>3, <2>3, <2>4, <2>6, <2>10, <2>11, <2>12, <2>13 DEF Settles
<1>9. CASE q = p - 1
  <2>1. Has(f, o, w, u + 1) /\ Has(e, o, w, u) BY <1>1, <1>5, <1>9 DEF Waits, Has
  <2>2. Digits(f) = Append(Digits(e), Code!Byte - 1) BY <1>2, <2>1, WaitsMore
  <2>3. PICK t : t = Append(d, q) OBVIOUS
  <2>4. SplitFollows(d, q, t) BY <1>3, <1>4, <2>3 DEF SplitFollows
  <2>5. Val(Tail(t)) = Val(Tail(d)) * Code!Byte + q /\ Scale(Tail(t)) = Scale(Tail(d)) * Code!Byte
    BY <2>4, FollowsOn
  <2>6. Rest(f) = Tail(t) BY <1>1, <1>9, <2>2, <2>3 DEF Rest
  <2>7. f.output = o /\ f.working = w /\ f.underflow = u + 1 BY <2>1 DEF Has
  <2>8. q = Code!Byte - 1 BY <1>1, <1>9
  <2> QED BY <1>2, <1>3, <1>6, <2>5, <2>6, <2>7, <2>8 DEF Settles
<1> QED BY <1>4, <1>7, <1>8, <1>9

LEMMA SplitsIs ==
  ASSUME ByteBits \in 2..8, NEW e \in SoundEncoder
  PROVE  \E q, r \in Nat : Splits(e.low, q, r)
<1>1. PICK l, h, top : l = e.low /\ h = e.high /\ top = Code!TOP_VALUE OBVIOUS
<1>2. l \in Nat /\ h \in Nat /\ h >= 1 /\ l + h <= 2 * top /\ top \in Nat
  BY <1>1, SoundIs, ByteIs
<1>3. l < 2 * top BY <1>2
<1>4. \E q, r \in Nat :
           /\ l = q * Bottom + r /\ r < Bottom /\ Code!Top(l) = q
           /\ (l * Code!Byte) % Code!TOP_VALUE = r * Code!Byte
           /\ q < 2 * Code!Byte
           /\ l < (Code!Byte - 1) * Code!Two[Code!SHIFT_BITS] <=> q < Code!Byte - 1
           /\ (l \div Code!TOP_VALUE) % 2 # 0 <=> q >= Code!Byte
           /\ q >= Code!Byte <=> l >= Code!TOP_VALUE BY <1>1, <1>2, <1>3, LowParts
<1> QED BY <1>1, <1>4 DEF Splits

(* What is written does not depend on the range. *)
LEMMA RestSame ==
  ASSUME NEW f, NEW g, Has(f, g.output, g.working, g.underflow)
  PROVE  Rest(f) = Rest(g) BY DEF Has, Rest, Digits

Shifts(e, f, q, r) ==
  f.low = r * Code!Byte /\ f.high = e.high * Code!Byte
LEMMA RangeShifts ==
  ASSUME ByteBits \in 2..8, NEW e \in SoundEncoder, e.high <= Bottom, NEW q, NEW r, Splits(e.low, q, r),
         NEW f, f = Code!Shifted(e)
  PROVE  /\ Shifts(e, f, q, r)
         /\ f.low \in Nat /\ f.high <= Code!TOP_VALUE /\ f.low + f.high <= 2 * Code!TOP_VALUE
         /\ q = Code!Byte - 1 /\ e.low + e.high <= Code!TOP_VALUE
              => f.low + f.high <= Code!TOP_VALUE
         /\ \E n \in Nat : f.high = Code!Two[n]
<1>1. e \in Code!Encoder /\ e.low \in Nat /\ e.high \in Nat BY SoundIs
<1>2. f.low = (e.low * Code!Byte) % Code!TOP_VALUE /\ f.high = (e.high * Code!Byte) % Code!Word
  BY <1>1, ShiftedFields
<1>3. PICK l, h, p, z, top : l = e.low /\ h = e.high /\ p = Code!Byte /\ z = Bottom /\ top = Code!TOP_VALUE
  OBVIOUS
<1>4. /\ p \in Nat /\ p >= 4 /\ z \in Nat /\ z >= 1 /\ top \in Nat /\ top = p * z /\ Code!Word = 2 * top
      /\ l \in Nat /\ h \in Nat /\ h <= z
  <2>1. Code!Byte >= 4 BY ByteIs
  <2> QED BY <1>1, <1>3, <2>1, Sizes
<1>5. q \in Nat /\ r \in Nat /\ l = q * z + r /\ r < z /\ f.low = r * p
  <2>1. q \in Nat /\ r \in Nat /\ e.low = q * Bottom + r /\ r < Bottom
        /\ (e.low * Code!Byte) % Code!TOP_VALUE = r * Code!Byte BY DEF Splits
  <2> QED BY <1>2, <1>3, <2>1
<1>6. h * p <= top /\ h * p \in Nat
  <2>1. h * p <= z * p BY <1>4
  <2>2. z * p = top BY <1>4
  <2> QED BY <1>4, <2>1, <2>2
<1>7. f.high = h * p
  <2>1. PICK n, d : n = h * p /\ d = 2 * top OBVIOUS
  <2>2. top >= 1 BY <1>4
  <2>3. n \in Nat /\ d \in Nat /\ n < d BY <1>4, <1>6, <2>1, <2>2
  <2>4. DividesTo(n, 0, d, n) BY <2>3 DEF DividesTo
  <2>5. n % d = n BY <2>4, DivGoes
  <2> QED BY <1>2, <1>3, <1>4, <2>1, <2>5
<1>8. r * p \in Nat /\ r * p <= top
  <2>1. r * p <= z * p BY <1>4, <1>5
  <2>2. z * p = top BY <1>4
  <2> QED BY <1>4, <1>5, <2>1, <2>2
<1>9. ASSUME q = p - 1, l + h <= top PROVE f.low + f.high <= top
  <2>1. (p - 1) * z = p * z - z BY <1>4
  <2>2. r + h <= z BY <1>4, <1>5, <1>9, <2>1
  <2>3. (r + h) * p <= z * p BY <1>4, <1>5, <2>2
  <2>4. (r + h) * p = r * p + h * p /\ z * p = top BY <1>4, <1>5
  <2> QED BY <1>5, <1>7, <2>3, <2>4
<1>10. \E n \in Nat : f.high = Code!Two[n]
  <2>1. PICK m \in Nat : e.high = Code!Two[m] BY DEF SoundEncoder
  <2>2. ByteBits \in Nat /\ m + ByteBits \in Nat OBVIOUS
  <2>3. Code!Two[m + ByteBits] = Code!Two[m] * Code!Two[ByteBits] BY <2>2, TwoPlus
  <2>4. f.high = Code!Two[m + ByteBits] BY <1>3, <1>7, <2>1, <2>3 DEF Code!Byte
  <2> QED BY <2>2, <2>4
<1> QED BY <1>3, <1>4, <1>5, <1>6, <1>7, <1>8, <1>9, <1>10 DEF Shifts

LEMMA ShiftedGoes ==
  ASSUME ByteBits \in 2..8, NEW e \in SoundEncoder, e.high <= Bottom, NEW f, f = Code!Shifted(e)
  PROVE  f \in SoundEncoder /\ Moves(e, f)
<1>1. PICK q, r : Splits(e.low, q, r) BY SplitsIs
<1>2. PICK g : g = Code!Settled(e) OBVIOUS
<1>3. Settles(e, g, q) BY <1>1, <1>2, RestSettles
<1>4. e \in Code!Encoder BY SoundIs
<1>5. Has(f, g.output, g.working, g.underflow) BY <1>2, <1>4, ShiftedFields DEF Has
<1>6. Rest(f) = Rest(g) BY <1>5, RestSame
<1>7. /\ Shifts(e, f, q, r)
      /\ f.low \in Nat /\ f.high <= Code!TOP_VALUE /\ f.low + f.high <= 2 * Code!TOP_VALUE
      /\ q = Code!Byte - 1 /\ e.low + e.high <= Code!TOP_VALUE
           => f.low + f.high <= Code!TOP_VALUE
      /\ \E n \in Nat : f.high = Code!Two[n] BY <1>1, RangeShifts
<1>8. f \in SoundEncoder
  <2>1. f.output = g.output /\ f.working = g.working /\ f.underflow = g.underflow
    BY <1>5 DEF Has
  <2>2. /\ g.working \in Nat /\ g.underflow \in Nat /\ g.output \in Seq(Nat)
        /\ \/ g.output # <<>> /\ g.output[1] = Code!Header
           \/ /\ g.output = <<>> /\ g.working = Code!Header /\ q = Code!Byte - 1
              /\ e.low + e.high <= Code!TOP_VALUE BY <1>3 DEF Settles
  <2>3. First(f) BY <1>7, <2>1, <2>2 DEF First
  <2>4. f.high \in Nat BY <1>7, TwoPositive
  <2>5. f = [low |-> f.low, high |-> f.high, working |-> f.working, underflow |-> f.underflow,
             output |-> f.output] BY <1>4, ShiftedFields
  <2>6. f \in Code!Encoder
    <3>1. f.working \in Nat /\ f.underflow \in Nat /\ f.output \in Seq(Nat) BY <2>1, <2>2
    <3> QED BY <1>7, <2>4, <2>5, <3>1 DEF Code!Encoder
  <2> QED BY <1>7, <2>3, <2>6 DEF SoundEncoder
<1>9. Moves(e, f)
  <2>1. PICK v, s, l, p, z, top : /\ v = Val(Rest(e)) /\ s = Scale(Rest(e)) /\ l = e.low /\ p = Code!Byte
                                 /\ z = Bottom /\ top = Code!TOP_VALUE OBVIOUS
  <2>2. Val(Rest(f)) = v * p + q /\ Scale(Rest(f)) = s * p BY <1>3, <1>6, <2>1 DEF Settles
  <2>3. v \in Nat /\ p \in Nat /\ z \in Nat /\ top \in Nat /\ top = p * z
    BY <2>1, SoundIs, Sizes
  <2>4. q \in Nat /\ r \in Nat /\ l = q * z + r BY <1>1, <2>1 DEF Splits
  <2>5. f.low = r * p /\ f.high = e.high * p BY <1>7, <2>1 DEF Shifts
  <2>6. (v * p + q) * top + r * p = (v * top + l) * p
    <3>1. (v * p + q) * top = (v * p) * top + q * top BY <2>3, <2>4
    <3>2. (v * top + l) * p = (v * top) * p + l * p BY <2>3, <2>4
    <3>3. l * p = (q * z) * p + r * p BY <2>3, <2>4
    <3>4. (q * z) * p = q * top BY <2>3, <2>4
    <3>5. (v * p) * top = (v * top) * p BY <2>3
    <3>6. PICK m, n, o : m = (v * p) * top /\ n = q * top /\ o = r * p OBVIOUS
    <3>7. m \in Nat /\ n \in Nat /\ o \in Nat BY <2>3, <2>4, <3>6
    <3>8. (m + n) + o = m + (n + o) BY <3>7
    <3> QED BY <3>1, <3>2, <3>3, <3>4, <3>5, <3>6, <3>8
  <2> QED BY <2>1, <2>2, <2>5, <2>6 DEF Moves
<1> QED BY <1>8, <1>9

(* The loop of renormalize_. *)
Normal == {e \in Code!Encoder : e.high > Bottom}
Shifting == [e \in Code!Encoder |-> Code!Shifted(e)]
Normalized == [e \in Code!Encoder |-> AnyOf(EndsOf(e, Code!Encoder, Normal, Shifting))]

LEMMA ShiftingType == ByteBits \in 2..8 => Shifting \in [Code!Encoder -> Code!Encoder]
<1> SUFFICES ASSUME ByteBits \in 2..8, NEW e \in Code!Encoder
             PROVE  Code!Shifted(e) \in Code!Encoder BY DEF Shifting
<1>1. PICK g, f : g = Code!Settled(e) /\ f = Code!Shifted(e) OBVIOUS
<1>2. PICK o, w, u, x : o = e.output /\ w = e.working /\ u = e.underflow /\ x = Code!Byte - 1
  OBVIOUS
<1>3. o \in Seq(Nat) /\ w \in Nat /\ u \in Nat /\ e.low \in Nat /\ e.high \in Nat /\ x \in Nat
      /\ Code!Byte \in Nat /\ Code!Byte >= 1 /\ Code!TOP_VALUE \in Nat
  BY <1>2, ByteIs DEF Code!Encoder
<1>4. Code!Top(e.low) % Code!Byte \in Nat
  <2>1. PICK z : z = Code!Two[Code!SHIFT_BITS] OBVIOUS
  <2>2. z \in Nat /\ z >= 1 BY <2>1, Sizes
  <2>3. e.low \div z \in Nat BY <1>3, <2>2, DivHas
  <2> QED BY <1>3, <2>1, <2>3, DivHas DEF Code!Top
<1>5. /\ Append(o, w) \o Code!Times(u, x) \in Seq(Nat)
      /\ Append(o, w + 1) \o Code!Times(u, 0) \in Seq(Nat)
  <2>1. PICK a_, b_ : a_ = Append(o, w) /\ b_ = Append(o, w + 1) OBVIOUS
  <2>2. a_ \in Seq(Nat) /\ b_ \in Seq(Nat) /\ 0 \in Nat BY <1>3, <2>1
  <2>3. a_ \o Code!Times(u, x) \in Seq(Nat) /\ b_ \o Code!Times(u, 0) \in Seq(Nat)
    BY <1>3, <2>2, TimesAdded
  <2> QED BY <2>1, <2>3
<1>6. \/ Has(g, Append(o, w) \o Code!Times(u, x), Code!Top(e.low) % Code!Byte, 0)
      \/ Has(g, Append(o, w + 1) \o Code!Times(u, 0), Code!Top(e.low) % Code!Byte, 0)
      \/ Has(g, o, w, u + 1) BY <1>1, <1>2, SettledFields DEF Has, Digits
<1>7. g.working \in Nat /\ g.underflow \in Nat /\ g.output \in Seq(Nat)
  <2>1. u + 1 \in Nat /\ 0 \in Nat BY <1>3
  <2> QED BY <1>3, <1>4, <1>5, <1>6, <2>1 DEF Has
<1>8. f.low \in Nat /\ f.high \in Nat
  <2>1. PICK m, n, w_ : m = e.low * Code!Byte /\ n = e.high * Code!Byte /\ w_ = Code!Word
    OBVIOUS
  <2>2. Code!TOP_VALUE >= 1
    <3>1. PICK p, z : p = Code!Byte /\ z = Bottom OBVIOUS
    <3>2. p \in Nat /\ p >= 1 /\ z \in Nat /\ z >= 1 /\ Code!TOP_VALUE = p * z
      BY <1>3, <3>1, Sizes
    <3> QED BY <3>2
  <2>3. m \in Nat /\ n \in Nat /\ w_ \in Nat /\ w_ >= 1
    <3>1. m \in Nat /\ n \in Nat BY <1>3, <2>1
    <3>2. Code!Word = 2 * Code!TOP_VALUE BY Sizes
    <3> QED BY <1>3, <2>1, <2>2, <3>1, <3>2
  <2>4. f.low = m % Code!TOP_VALUE /\ f.high = n % w_ BY <1>1, <2>1, ShiftedFields
  <2> QED BY <1>3, <2>2, <2>3, <2>4, DivHas
<1>9. f = [low |-> f.low, high |-> f.high, working |-> g.working, underflow |-> g.underflow,
           output |-> g.output] BY <1>1, ShiftedFields
<1> QED BY <1>1, <1>7, <1>8, <1>9 DEF Code!Encoder

LEMMA NormalizeIs ==
  ASSUME ByteBits \in 2..8
  PROVE  \E f : /\ \A e \in Code!Encoder : f[e] = IF e \in Normal THEN e ELSE f[Shifting[e]]
                /\ \A e \in Code!Encoder : Code!renormalize_(e) = f[e]
<1> DEFINE Is(f) == f = [s \in Code!Encoder |->
             IF s.high > Code!BOTTOM_VALUE THEN s ELSE f[Code!Shifted(s)]]
           normal == CHOOSE f : Is(f)
<1>1. \A s \in Code!Encoder :
        Normalized[s] = IF s \in Normal THEN s ELSE Normalized[Shifting[s]]
  BY ShiftingType, LoopExists DEF Normalized
<1>0. \A s \in Code!Encoder : (s \in Normal <=> s.high > Code!BOTTOM_VALUE) /\ Shifting[s] = Code!Shifted(s)
  BY DEF Normal, Shifting, Bottom
<1>2. Is(Normalized)
  <2> DEFINE g == [s \in Code!Encoder |->
                     IF s.high > Code!BOTTOM_VALUE THEN s ELSE Normalized[Code!Shifted(s)]]
  <2>1. ASSUME NEW s \in Code!Encoder PROVE Normalized[s] = g[s] BY <1>0, <1>1
  <2>2. DOMAIN g = Code!Encoder /\ g = [s \in Code!Encoder |-> g[s]] OBVIOUS
  <2>3. DOMAIN Normalized = Code!Encoder /\ Normalized = [s \in Code!Encoder |-> Normalized[s]]
    BY DEF Normalized
  <2> HIDE DEF g
  <2>4. Normalized = g BY <2>1, <2>2, <2>3
  <2> QED BY <2>4 DEF g
<1>3. Is(normal) BY <1>2
<1> HIDE DEF normal
<1>4. \A s \in Code!Encoder : normal[s] = IF s \in Normal THEN s ELSE normal[Shifting[s]]
  BY <1>0, <1>3
<1>5. \A s \in Code!Encoder : Code!renormalize_(s) = normal[s]
  BY DEF Code!renormalize_, normal
<1> QED BY <1>4, <1>5

(* What its steps do not leave holds of what comes out. *)
LEMMA NormalizeLoop ==
  ASSUME ByteBits \in 2..8, NEW J \in SUBSET SoundEncoder,
         \A e \in J : e.high <= Bottom => Code!Shifted(e) \in J
  PROVE  \A e \in J : Code!renormalize_(e) \in J /\ Code!renormalize_(e).high > Bottom
<1>1. PICK f : /\ \A e \in Code!Encoder : f[e] = IF e \in Normal THEN e ELSE f[Shifting[e]]
               /\ \A e \in Code!Encoder : Code!renormalize_(e) = f[e] BY NormalizeIs
<1>2. \A e \in J : e \in Code!Encoder /\ e \in SoundEncoder /\ e.high \in Nat /\ e.high >= 1
                   /\ e.high <= Code!TOP_VALUE BY SoundIs
<1>3. Code!TOP_VALUE \in Nat /\ Bottom \in Nat BY Sizes
<1> DEFINE m == [e \in J |-> Code!TOP_VALUE - e.high]
<1>4. \A e \in J : m[e] \in Nat BY <1>2, <1>3
<1>5. \A e \in J : e \in Normal => f[e] = e BY <1>1, <1>2
<1>6. ASSUME NEW e \in J, e \notin Normal
      PROVE  f[e] = f[Shifting[e]] /\ Shifting[e] \in J /\ m[Shifting[e]] < m[e]
  <2>1. e \in Code!Encoder /\ e \in SoundEncoder BY <1>2
  <2>2. e.high <= Bottom BY <1>2, <1>3, <1>6 DEF Normal
  <2>3. PICK s : s = Code!Shifted(e) OBVIOUS
  <2>4. s \in J /\ Shifting[e] = s /\ f[e] = f[s]
    BY <1>1, <1>6, <2>1, <2>2, <2>3 DEF Shifting
  <2>5. s.high = e.high * Code!Byte BY <2>1, <2>2, <2>3, ShiftedGoes DEF Moves
  <2>6. s.high > e.high
    <3>1. PICK h, p : h = e.high /\ p = Code!Byte OBVIOUS
    <3>2. h \in Nat /\ h >= 1 /\ p \in Nat /\ p >= 4 BY <1>2, <3>1, ByteIs
    <3>3. h * p >= h * 4 BY <3>2
    <3> QED BY <2>5, <3>1, <3>2, <3>3
  <2>7. m[s] < m[e] BY <1>2, <1>3, <2>4, <2>6
  <2> QED BY <2>4, <2>7
<1> HIDE DEF m
<1>7. Loops(f, Normal, J, Shifting, m) BY <1>4, <1>5, <1>6 DEF Loops
<1>8. \A e \in J : f[e] \in J /\ f[e] \in Normal BY <1>7, LoopEnds
<1> QED BY <1>1, <1>2, <1>8 DEF Normal

(* An interval, exactly, and the range that stands for it. *)
Interval == [low : Nat, length : Nat, unit : Nat]
Matches(e, x) ==
  /\ x.unit * (Val(Rest(e)) * Code!TOP_VALUE + e.low) = x.low * (Scale(Rest(e)) * Code!TOP_VALUE)
  /\ x.unit * e.high = x.length * (Scale(Rest(e)) * Code!TOP_VALUE)

LEMMA ShiftedMatches ==
  ASSUME ByteBits \in 2..8, NEW e \in SoundEncoder, e.high <= Bottom, NEW x \in Interval, Matches(e, x)
  PROVE  Code!Shifted(e) \in SoundEncoder /\ Matches(Code!Shifted(e), x)
<1>1. PICK f : f = Code!Shifted(e) OBVIOUS
<1>2. f \in SoundEncoder /\ Moves(e, f) BY <1>1, ShiftedGoes
<1>3. PICK v, s, top, p, h, m, n, y, t :
        /\ v = Val(Rest(e)) /\ s = Scale(Rest(e)) /\ top = Code!TOP_VALUE /\ p = Code!Byte
        /\ h = e.high /\ m = x.unit /\ n = x.low /\ y = x.length /\ t = v * top + e.low
  OBVIOUS
<1>4. /\ v \in Nat /\ s \in Nat /\ top \in Nat /\ p \in Nat /\ h \in Nat /\ m \in Nat /\ n \in Nat /\ y \in Nat
      /\ t \in Nat
  <2>1. v \in Nat /\ s \in Nat /\ h \in Nat /\ e.low \in Nat BY <1>3, SoundIs
  <2>2. top \in Nat /\ p \in Nat BY <1>3, ByteIs
  <2>3. m \in Nat /\ n \in Nat /\ y \in Nat BY <1>3 DEF Interval
  <2> QED BY <1>3, <2>1, <2>2, <2>3
<1>5. m * t = n * (s * top) /\ m * h = y * (s * top) BY <1>3 DEF Matches
<1>6. /\ Val(Rest(f)) * top + f.low = t * p /\ f.high = h * p /\ Scale(Rest(f)) = s * p
  BY <1>2, <1>3 DEF Moves
<1>7. m * (t * p) = n * ((s * p) * top)
  <2>1. m * (t * p) = (m * t) * p BY <1>4
  <2>2. n * ((s * p) * top) = (n * (s * top)) * p BY <1>4
  <2> QED BY <1>5, <2>1, <2>2
<1>8. m * (h * p) = y * ((s * p) * top)
  <2>1. m * (h * p) = (m * h) * p BY <1>4
  <2>2. y * ((s * p) * top) = (y * (s * top)) * p BY <1>4
  <2> QED BY <1>5, <2>1, <2>2
<1>9. Matches(f, x) BY <1>3, <1>6, <1>7, <1>8 DEF Matches
<1> QED BY <1>1, <1>2, <1>9

LEMMA Renormalizes ==
  ASSUME ByteBits \in 2..8, NEW e \in SoundEncoder, NEW x \in Interval, Matches(e, x)
  PROVE  /\ Code!renormalize_(e) \in SoundEncoder /\ Code!renormalize_(e).high > Bottom
         /\ Matches(Code!renormalize_(e), x)
<1> DEFINE J == {s \in SoundEncoder : Matches(s, x)}
<1>1. J \in SUBSET SoundEncoder /\ e \in J OBVIOUS
<1>2. \A s \in J : s.high <= Bottom => Code!Shifted(s) \in J BY ShiftedMatches
<1>3. \A s \in J : s \in SoundEncoder /\ Matches(s, x) OBVIOUS
<1> HIDE DEF J
<1>4. \A s \in J : Code!renormalize_(s) \in J /\ Code!renormalize_(s).high > Bottom
  BY <1>1, <1>2, NormalizeLoop
<1> QED BY <1>1, <1>3, <1>4

(* The table: a symbol's part of the range is a power of two, too. *)
Tabled ==
  /\ ArithmeticAssumption /\ v1 \in Frequencies

LEMMA TwoGrows == ASSUME NEW m \in Nat, NEW n \in Nat, m <= n PROVE Code!Two[m] <= Code!Two[n]
<1>1. PICK d : d = n - m OBVIOUS
<1>2. d \in Nat /\ n = m + d BY <1>1
<1>3. PICK x, y, z : x = Code!Two[m] /\ y = Code!Two[d] /\ z = Code!Two[n] OBVIOUS
<1>4. x \in Nat /\ y \in Nat /\ y >= 1 /\ z = x * y BY <1>2, <1>3, TwoPlus, TwoPositive
<1>5. x * y >= x BY <1>4
<1> QED BY <1>3, <1>4, <1>5

LEMMA TotalIs ==
  ASSUME Tabled
  PROVE  /\ ByteBits \in 2..8
         /\ Code!total_ \in Nat /\ Code!total_ >= 1 /\ Code!total_ <= Bottom
         /\ \E n \in Nat : Code!total_ = Code!Two[n]
         /\ Code!total_ = Code!Total(v1)
         /\ v1 \in Seq(Nat) /\ v1 # <<>>
<1>1. /\ ByteBits \in 2..8 /\ v1 \in Seq(Nat) /\ v1 # <<>> /\ Code!adjustProbs_(v1) = v1
      /\ \E n \in 0..Code!SHIFT_BITS : Code!Total(v1) = Code!Two[n]
  BY DEF Tabled, ArithmeticAssumption
<1>2. Code!total_ = Code!Total(v1) BY <1>1 DEF Code!total_
<1>3. PICK n \in 0..Code!SHIFT_BITS : Code!Total(v1) = Code!Two[n] BY <1>1
<1>4. Code!SHIFT_BITS \in Nat /\ n \in Nat /\ n <= Code!SHIFT_BITS
  <2>1. Code!SHIFT_BITS = 4 * ByteBits - (ByteBits + 1)
    BY DEF Code!SHIFT_BITS, Code!CODE_BITS
  <2> QED BY <1>1, <2>1
<1>5. Code!Two[n] <= Code!Two[Code!SHIFT_BITS] /\ Code!Two[n] \in Nat /\ Code!Two[n] >= 1
  BY <1>4, TwoGrows, TwoPositive
<1>6. Code!Two[Code!SHIFT_BITS] = Bottom BY <1>1, Sizes
<1> QED BY <1>1, <1>2, <1>3, <1>4, <1>5, <1>6

(* Where a symbol's part of the range is. *)
Part(symbol, l, k, t) ==
  /\ Code!Low(symbol) = l /\ Code!Length(symbol) = k /\ Code!total_ = t
  /\ l \in Nat /\ k \in Nat /\ t \in Nat /\ t >= 1 /\ l + k <= t /\ t <= Bottom
  /\ \E n \in Nat : k = Code!Two[n]
  /\ \E n \in Nat : t = Code!Two[n]

LEMMA PartIs ==
  ASSUME Tabled, NEW symbol \in 0..Len(v1) - 1
  PROVE  \E l, k, t : Part(symbol, l, k, t)
<1>1. PICK s, l, k, t : s = v1 /\ l = Code!Low(symbol) /\ k = Code!Length(symbol) /\ t = Code!total_
  OBVIOUS
<1>2. s \in Seq(Nat) /\ symbol \in 0..Len(s) - 1 /\ symbol + 1 \in 0..Len(s) /\ symbol + 1 \in DOMAIN s
  <2>1. s \in Seq(Nat) BY <1>1, TotalIs
  <2>2. symbol \in 0..Len(s) - 1 BY <1>1
  <2> QED BY <2>1, <2>2
<1>3. l = Code!Total(SubSeq(s, 1, symbol)) /\ k = s[symbol + 1]
  BY <1>1 DEF Code!Low, Code!Length
<1>4. /\ Code!Total(SubSeq(s, 1, symbol)) \in Nat /\ s[symbol + 1] \in Nat
      /\ Code!Total(SubSeq(s, 1, symbol + 1)) = Code!Total(SubSeq(s, 1, symbol)) + s[symbol + 1]
      /\ Code!Total(SubSeq(s, 1, symbol + 1)) <= Code!Total(s)
  <2>1. \A n \in 0..Len(s) - 1 :
          /\ Code!Total(SubSeq(s, 1, n)) \in Nat /\ s[n + 1] \in Nat
          /\ Code!Total(SubSeq(s, 1, n + 1)) = Code!Total(SubSeq(s, 1, n)) + s[n + 1]
    BY <1>2, TotalPrefix
  <2>2. \A n \in 0..Len(s) : Code!Total(SubSeq(s, 1, n)) <= Code!Total(s)
    BY <1>2, TotalPrefix
  <2> QED BY <1>2, <2>1, <2>2
<1>5. t \in Nat /\ t >= 1 /\ t <= Bottom /\ (\E n \in Nat : t = Code!Two[n]) /\ t = Code!Total(s)
  BY <1>1, TotalIs
<1>6. \E n \in Nat : s[symbol + 1] = Code!Two[n]
  <2>1. \A i \in DOMAIN s : \E n \in 0..Code!SHIFT_BITS : s[i] = Code!Two[n]
    BY <1>1 DEF Tabled, ArithmeticAssumption
  <2> QED BY <1>2, <2>1
<1>7. Part(symbol, l, k, t) BY <1>1, <1>3, <1>4, <1>5, <1>6 DEF Part
<1> QED BY <1>7

(* The unit divides the range, as both are powers of two. *)
LEMMA UnitIs ==
  ASSUME ByteBits \in 2..8, NEW h, NEW t, h > Bottom, t <= Bottom,
         \E n \in Nat : h = Code!Two[n], \E n \in Nat : t = Code!Two[n]
  PROVE  \E u \in Nat : u >= 1 /\ h = t * u /\ h \div t = u /\ \E n \in Nat : u = Code!Two[n]
<1>1. PICK m \in Nat : h = Code!Two[m] OBVIOUS
<1>2. PICK n \in Nat : t = Code!Two[n] OBVIOUS
<1>3. h \in Nat /\ t \in Nat /\ t >= 1 /\ Bottom \in Nat BY <1>1, <1>2, TwoPositive, Sizes
<1>4. t <= h BY <1>3
<1>5. n <= m /\ h = t * Code!Two[m - n] BY <1>1, <1>2, <1>4, TwoDivides
<1>6. PICK d, u : d = m - n /\ u = Code!Two[d] OBVIOUS
<1>7. d \in Nat BY <1>5, <1>6
<1>8. u \in Nat /\ u >= 1 /\ h = t * u BY <1>5, <1>6, <1>7, TwoPositive
<1>9. h \div t = u
  <2>1. h = u * t + 0 BY <1>3, <1>8
  <2>2. DividesTo(h, u, t, 0) BY <1>3, <1>8, <2>1 DEF DividesTo
  <2> QED BY <2>2, DivGoes
<1> QED BY <1>6, <1>7, <1>8, <1>9

LEMMA NarrowedIs ==
  ASSUME NEW symbol, NEW l, NEW k, NEW t, Part(symbol, l, k, t), NEW h, NEW u \in Nat, h = t * u
  PROVE  /\ Code!Narrowed(h, u, symbol) = u * k
         /\ u * l \in Nat /\ u * k \in Nat /\ u * l + u * k <= h
<1>1. l \in Nat /\ k \in Nat /\ t \in Nat /\ l + k <= t
      /\ Code!Low(symbol) = l /\ Code!Length(symbol) = k /\ Code!total_ = t BY DEF Part
<1>2. Code!Narrowed(h, u, symbol) = IF l + k >= t THEN h - u * l ELSE u * k
  BY <1>1 DEF Code!Narrowed, Code!High
<1>3. u * (l + k) <= u * t /\ u * (l + k) = u * l + u * k /\ u * t = h BY <1>1
<1>4. CASE l + k >= t
  <2>1. l + k = t BY <1>1, <1>4
  <2>2. u * l + u * k = h BY <1>3, <2>1
  <2>3. u * l \in Nat /\ u * k \in Nat BY <1>1
  <2>4. h - u * l = u * k BY <2>2, <2>3
  <2> QED BY <1>2, <1>4, <2>2, <2>3, <2>4
<1>5. CASE ~(l + k >= t)
  <2>1. u * l \in Nat /\ u * k \in Nat BY <1>1
  <2> QED BY <1>2, <1>3, <1>5, <2>1
<1> QED BY <1>4, <1>5

LEMMA NarrowType ==
  ASSUME NEW symbol, NEW l, NEW k, NEW t, Part(symbol, l, k, t), NEW x \in Interval
  PROVE  /\ Code!Narrow(x, symbol) \in Interval
         /\ Code!Narrow(x, symbol).low = x.low * t + x.length * l
         /\ Code!Narrow(x, symbol).length = x.length * k
         /\ Code!Narrow(x, symbol).unit = x.unit * t
<1>1. l \in Nat /\ k \in Nat /\ t \in Nat
      /\ Code!Low(symbol) = l /\ Code!Length(symbol) = k /\ Code!total_ = t BY DEF Part
<1>2. Code!Narrow(x, symbol) =
        [low |-> x.low * t + x.length * l, length |-> x.length * k, unit |-> x.unit * t]
  BY <1>1 DEF Code!Narrow
<1>3. x.low * t + x.length * l \in Nat /\ x.length * k \in Nat /\ x.unit * t \in Nat
  BY <1>1 DEF Interval
<1> QED BY <1>2, <1>3 DEF Interval

(* A symbol is encoded. *)
LEMMA SymbolFields ==
  ASSUME NEW e, NEW g, g = Code!renormalize_(e), g \in Code!Encoder, NEW symbol,
         NEW u, u = g.high \div Code!total_
  PROVE  Code!encodeSymbol_(e, symbol) =
           [low |-> g.low + u * Code!Low(symbol), high |-> Code!Narrowed(g.high, u, symbol),
            working |-> g.working, underflow |-> g.underflow, output |-> g.output]
<1>1. PICK x, y : x = Code!Narrowed(g.high, u, symbol) /\ y = g.low + u * Code!Low(symbol)
  OBVIOUS
<1>2. Code!encodeSymbol_(e, symbol) = [g EXCEPT !.high = x, !.low = y]
  BY <1>1 DEF Code!encodeSymbol_
<1>3. PICK l, h, w, v, o : l = g.low /\ h = g.high /\ w = g.working /\ v = g.underflow /\ o = g.output
  OBVIOUS
<1>4. g = [low |-> l, high |-> h, working |-> w, underflow |-> v, output |-> o]
  BY <1>3 DEF Code!Encoder
<1>5. PICK k : k = [low |-> l, high |-> x, working |-> w, underflow |-> v, output |-> o]
  OBVIOUS
<1>6. [g EXCEPT !.high = x] = k BY <1>4, <1>5
<1>7. [k EXCEPT !.low = y] = [low |-> y, high |-> x, working |-> w, underflow |-> v, output |-> o]
  BY <1>5
<1>8. [g EXCEPT !.high = x, !.low = y] = [[g EXCEPT !.high = x] EXCEPT !.low = y] OBVIOUS
<1> QED BY <1>1, <1>2, <1>3, <1>6, <1>7, <1>8

LEMMA SymbolMatches ==
  ASSUME Tabled, NEW symbol \in 0..Len(v1) - 1, NEW e \in SoundEncoder, NEW x \in Interval, Matches(e, x)
  PROVE  /\ Code!encodeSymbol_(e, symbol) \in SoundEncoder
         /\ Matches(Code!encodeSymbol_(e, symbol), Code!Narrow(x, symbol))
         /\ Code!Narrow(x, symbol) \in Interval
<1>0. ByteBits \in 2..8 BY TotalIs
<1>1. PICK g : g = Code!renormalize_(e) OBVIOUS
<1>2. g \in SoundEncoder /\ g.high > Bottom /\ Matches(g, x) BY <1>0, <1>1, Renormalizes
<1>3. PICK l, k, t : Part(symbol, l, k, t) BY PartIs
<1>4. l \in Nat /\ k \in Nat /\ t \in Nat /\ t >= 1 /\ t <= Bottom /\ (\E n \in Nat : t = Code!Two[n])
      /\ Code!Low(symbol) = l /\ Code!total_ = t /\ (\E n \in Nat : k = Code!Two[n])
  BY <1>3 DEF Part
<1>5. \E n \in Nat : g.high = Code!Two[n] BY <1>2 DEF SoundEncoder
<1>6. PICK u \in Nat : u >= 1 /\ g.high = t * u /\ g.high \div t = u /\ \E n \in Nat : u = Code!Two[n]
  BY <1>0, <1>2, <1>4, <1>5, UnitIs
<1>7. /\ Code!Narrowed(g.high, u, symbol) = u * k
      /\ u * l \in Nat /\ u * k \in Nat /\ u * l + u * k <= g.high
  <2>1. PICK h : h = g.high OBVIOUS
  <2>2. u \in Nat /\ h = t * u BY <1>6, <2>1
  <2>3. /\ Code!Narrowed(h, u, symbol) = u * k
        /\ u * l \in Nat /\ u * k \in Nat /\ u * l + u * k <= h BY <1>3, <2>2, NarrowedIs
  <2> QED BY <2>1, <2>3
<1>8. PICK f : f = Code!encodeSymbol_(e, symbol) OBVIOUS
<1>9. g \in Code!Encoder /\ g.low \in Nat /\ g.high \in Nat /\ g.working \in Nat /\ g.underflow \in Nat
      /\ g.output \in Seq(Nat) /\ First(g) /\ g.low + g.high <= 2 * Code!TOP_VALUE
      /\ g.high <= Code!TOP_VALUE /\ Val(Rest(g)) \in Nat /\ Scale(Rest(g)) \in Nat
      /\ Code!TOP_VALUE \in Nat BY <1>0, <1>2, SoundIs, ByteIs
<1>10. f = [low |-> g.low + u * l, high |-> u * k, working |-> g.working, underflow |-> g.underflow,
            output |-> g.output]
  <2>1. u = g.high \div Code!total_ BY <1>4, <1>6
  <2>2. f = [low |-> g.low + u * Code!Low(symbol), high |-> Code!Narrowed(g.high, u, symbol),
             working |-> g.working, underflow |-> g.underflow, output |-> g.output]
    BY <1>1, <1>8, <1>9, <2>1, SymbolFields
  <2> QED BY <1>4, <1>7, <2>2
<1>11. f.low = g.low + u * l /\ f.high = u * k /\ Has(f, g.output, g.working, g.underflow)
  BY <1>10 DEF Has
<1>12. f \in SoundEncoder
  <2>1. f.low \in Nat /\ f.high \in Nat /\ f.low + f.high <= g.low + g.high /\ f.high <= g.high
    <3>1. PICK m, n, i, j : m = u * l /\ n = u * k /\ i = g.low /\ j = g.high OBVIOUS
    <3>2. m \in Nat /\ n \in Nat /\ i \in Nat /\ j \in Nat /\ m + n <= j /\ f.low = i + m /\ f.high = n
      BY <1>7, <1>9, <1>11, <3>1
    <3>3. (i + m) + n <= i + j /\ n <= j /\ i + m \in Nat BY <3>2
    <3> QED BY <3>1, <3>2, <3>3
  <2>2. f.working = g.working /\ f.underflow = g.underflow /\ f.output = g.output
    BY <1>11 DEF Has
  <2>3. First(f)
    <3>1. CASE g.output = <<>>
      <4>1. g.working = Code!Header /\ g.low + g.high <= Code!TOP_VALUE
        BY <1>9, <3>1 DEF First
      <4>2. f.low + f.high <= Code!TOP_VALUE BY <1>9, <2>1, <4>1
      <4> QED BY <2>2, <3>1, <4>1, <4>2 DEF First
    <3>2. CASE g.output # <<>> BY <1>9, <2>2, <3>2 DEF First
    <3> QED BY <3>1, <3>2
  <2>4. f \in Code!Encoder BY <1>7, <1>9, <1>10 DEF Code!Encoder
  <2>5. \E n \in Nat : f.high = Code!Two[n]
    <3>1. PICK m \in Nat : u = Code!Two[m] BY <1>6
    <3>2. PICK n \in Nat : k = Code!Two[n] BY <1>4
    <3>3. u * k = Code!Two[m + n] /\ m + n \in Nat BY <3>1, <3>2, TwoPlus
    <3> QED BY <1>11, <3>3
  <2>6. f.high <= Code!TOP_VALUE /\ f.low + f.high <= 2 * Code!TOP_VALUE BY <1>9, <2>1
  <2> QED BY <2>3, <2>4, <2>5, <2>6 DEF SoundEncoder
<1>13. PICK y : y = Code!Narrow(x, symbol) OBVIOUS
<1>14. y \in Interval /\ y.low = x.low * t + x.length * l /\ y.length = x.length * k /\ y.unit = x.unit * t
  BY <1>3, <1>13, NarrowType
<1>15. Matches(f, y)
  <2>1. PICK v, s, top, xl, xk, xu, w :
          /\ v = Val(Rest(g)) /\ s = Scale(Rest(g)) * Code!TOP_VALUE /\ top = Code!TOP_VALUE
          /\ xl = x.low /\ xk = x.length /\ xu = x.unit /\ w = v * top + g.low OBVIOUS
  <2>2. /\ v \in Nat /\ s \in Nat /\ top \in Nat /\ xl \in Nat /\ xk \in Nat /\ xu \in Nat /\ w \in Nat
    <3>1. xl \in Nat /\ xk \in Nat /\ xu \in Nat BY <2>1 DEF Interval
    <3>2. v \in Nat /\ top \in Nat BY <1>9, <2>1
    <3>3. s \in Nat /\ w \in Nat
      <4>1. PICK i, j : i = Scale(Rest(g)) /\ j = g.low OBVIOUS
      <4>2. i \in Nat /\ j \in Nat /\ s = i * top /\ w = v * top + j BY <1>9, <2>1, <4>1
      <4> QED BY <3>2, <4>2
    <3> QED BY <3>1, <3>2, <3>3
  <2>3. xu * w = xl * s /\ xu * (t * u) = xk * s BY <1>2, <1>6, <2>1 DEF Matches
  <2>4. Rest(f) = Rest(g) BY <1>11, RestSame
  <2>5. v * top + f.low = w + u * l
    <3>1. PICK n, m : n = v * top /\ m = u * l OBVIOUS
    <3>2. n \in Nat /\ m \in Nat /\ w = n + g.low /\ f.low = g.low + m
      BY <1>7, <1>11, <2>1, <2>2, <3>1
    <3> QED BY <1>9, <3>1, <3>2
  <2>6. (xu * t) * (w + u * l) = (xl * t + xk * l) * s
    <3>1. PICK m : m = u * l OBVIOUS
    <3>2. m \in Nat /\ t \in Nat /\ u \in Nat /\ l \in Nat
      <4>1. t \in Nat /\ u \in Nat /\ l \in Nat BY <1>4, <1>6
      <4> QED BY <3>1, <4>1
    <3>3. (xu * t) * (w + m) = (xu * t) * w + (xu * t) * m BY <2>2, <3>2
    <3>4. (xu * t) * w = (xu * w) * t BY <2>2, <3>2
    <3>5. (xu * t) * m = (xu * (t * u)) * l BY <2>2, <3>1, <3>2
    <3>6. (xl * t + xk * l) * s = (xl * t) * s + (xk * l) * s BY <2>2, <3>2
    <3>7. (xl * t) * s = (xl * s) * t /\ (xk * l) * s = (xk * s) * l BY <2>2, <3>2
    <3> QED BY <2>3, <3>1, <3>3, <3>4, <3>5, <3>6, <3>7
  <2>7. (xu * t) * (u * k) = (xk * k) * s
    <3>0. t \in Nat /\ u \in Nat /\ k \in Nat BY <1>4, <1>6
    <3>1. (xu * t) * (u * k) = (xu * (t * u)) * k BY <2>2, <3>0
    <3>2. (xk * k) * s = (xk * s) * k BY <1>4, <2>2
    <3> QED BY <2>3, <3>1, <3>2
  <2>8. /\ y.unit * (Val(Rest(f)) * Code!TOP_VALUE + f.low) = y.low * (Scale(Rest(f)) * Code!TOP_VALUE)
        /\ y.unit * f.high = y.length * (Scale(Rest(f)) * Code!TOP_VALUE)
    BY <1>11, <1>14, <2>1, <2>4, <2>5, <2>6, <2>7
  <2> QED BY <2>8 DEF Matches
<1> QED BY <1>8, <1>12, <1>13, <1>14, <1>15

(* A packet, symbol by symbol. *)
Symbols == 0..Len(v1) - 1
Coding == [q \in SoundEncoder \X Symbols |-> Code!encodeSymbol_(q[1], q[2])]
Narrowing == [q \in Interval \X Symbols |-> Code!Narrow(q[1], q[2])]
Whole_ == [low |-> 0, length |-> 1, unit |-> 1]

LEMMA StartMatches ==
  ASSUME ByteBits \in 2..8
  PROVE  Code!Start \in SoundEncoder /\ Matches(Code!Start, Whole_) /\ Whole_ \in Interval
<1>1. PICK e, w, top : e = Code!Start /\ w = Code!Header /\ top = Code!TOP_VALUE OBVIOUS
<1>2. w \in Nat /\ top \in Nat /\ top = Code!Two[Code!CODE_BITS - 1] /\ Code!CODE_BITS - 1 \in Nat
  <2>1. Code!CODE_BITS - 1 \in Nat BY DEF Code!CODE_BITS
  <2> QED BY <1>1, <2>1, Sizes DEF Code!TOP_VALUE
<1>3. e = [low |-> 0, high |-> top, working |-> w, underflow |-> 0, output |-> <<>>]
  BY <1>1 DEF Code!Start
<1>4. e.low = 0 /\ e.high = top /\ e.output = <<>> /\ e.working = w /\ e.underflow = 0
      /\ <<>> \in Seq(Nat) /\ Has(e, <<>>, w, 0) BY <1>3 DEF Has
<1>5. First(e) BY <1>1, <1>2, <1>4 DEF First
<1>6. e \in Code!Encoder BY <1>2, <1>3, <1>4 DEF Code!Encoder
<1>7. e \in SoundEncoder
  <2>1. e.high <= Code!TOP_VALUE /\ e.low + e.high <= 2 * Code!TOP_VALUE
    BY <1>1, <1>2, <1>4
  <2>2. \E n \in Nat : e.high = Code!Two[n] BY <1>2, <1>4
  <2> QED BY <1>5, <1>6, <2>1, <2>2 DEF SoundEncoder
<1>8. Rest(e) = <<>>
  <2>1. Digits(e) = Append(<<>>, w)
    <3> DEFINE o == <<>>
    <3>1. o \in Seq(Nat) /\ Has(e, o, w, 0) BY <1>4
    <3> HIDE DEF o
    <3>2. Digits(e) = Append(o, w) BY <1>2, <3>1, WaitsNot
    <3> QED BY <3>2 DEF o
  <2>2. Append(<<>>, w) = <<w>> /\ Tail(<<w>>) = <<>> OBVIOUS
  <2> QED BY <2>1, <2>2 DEF Rest
<1>9. Val(Rest(e)) = 0 /\ Scale(Rest(e)) = 1
  <2>1. Val(<<>>) = 0 /\ Scale(<<>>) = 1 BY ByteIs, NumberGrows
  <2> QED BY <1>8, <2>1
<1>10. Matches(e, Whole_)
  <2>1. 1 * (0 * top + 0) = 0 * (1 * top) /\ 1 * top = 1 * (1 * top) BY <1>2
  <2>2. Whole_.unit = 1 /\ Whole_.low = 0 /\ Whole_.length = 1 BY DEF Whole_
  <2> QED BY <1>1, <1>4, <1>9, <2>1, <2>2 DEF Matches
<1>11. Whole_ \in Interval BY DEF Whole_, Interval
<1> QED BY <1>1, <1>7, <1>10, <1>11

LEMMA SymbolSound ==
  ASSUME Tabled, NEW symbol \in Symbols, NEW e \in SoundEncoder
  PROVE  Code!encodeSymbol_(e, symbol) \in SoundEncoder
<1>1. PICK x : x = [low |-> 0, length |-> 0, unit |-> 0] OBVIOUS
<1>2. x \in Interval /\ x.low = 0 /\ x.length = 0 /\ x.unit = 0 BY <1>1 DEF Interval
<1>3. Matches(e, x)
  <2>0. ByteBits \in 2..8 BY TotalIs
  <2>1. PICK v, s, l, h, top : v = Val(Rest(e)) /\ s = Scale(Rest(e)) /\ l = e.low /\ h = e.high
                             /\ top = Code!TOP_VALUE OBVIOUS
  <2>2. v \in Nat /\ s \in Nat /\ l \in Nat /\ h \in Nat /\ top \in Nat
    BY <2>0, <2>1, SoundIs, ByteIs
  <2>3. 0 * (v * top + l) = 0 * (s * top) /\ 0 * h = 0 * (s * top) BY <2>2
  <2> QED BY <1>2, <2>1, <2>3 DEF Matches
<1> QED BY <1>2, <1>3, SymbolMatches DEF Symbols

LEMMA CodingType ==
  ASSUME Tabled
  PROVE  /\ Maps(Coding, SoundEncoder, Symbols)
         /\ \A e \in SoundEncoder, y \in Symbols : Coding[<<e, y>>] = Code!encodeSymbol_(e, y)
         /\ Code!Start \in SoundEncoder
<1>1. \A q \in SoundEncoder \X Symbols : Code!encodeSymbol_(q[1], q[2]) \in SoundEncoder
  BY SymbolSound
<1>2. Maps(Coding, SoundEncoder, Symbols) BY <1>1 DEF Maps, Coding
<1>3. \A e \in SoundEncoder, y \in Symbols : Coding[<<e, y>>] = Code!encodeSymbol_(e, y)
  BY DEF Coding
<1> QED BY <1>2, <1>3, TotalIs, StartMatches

LEMMA NarrowingType ==
  ASSUME Tabled
  PROVE  /\ Maps(Narrowing, Interval, Symbols)
         /\ \A x \in Interval, y \in Symbols : Narrowing[<<x, y>>] = Code!Narrow(x, y)
         /\ Whole_ \in Interval
<1>1. \A x \in Interval, y \in Symbols : Code!Narrow(x, y) \in Interval
  BY PartIs, NarrowType DEF Symbols
<1>2. \A q \in Interval \X Symbols : Code!Narrow(q[1], q[2]) \in Interval BY <1>1
<1>3. Maps(Narrowing, Interval, Symbols) BY <1>2 DEF Maps, Narrowing
<1>4. \A x \in Interval, y \in Symbols : Narrowing[<<x, y>>] = Code!Narrow(x, y)
  BY DEF Narrowing
<1> QED BY <1>3, <1>4 DEF Whole_, Interval

LEMMA CodedIs ==
  ASSUME Tabled, NEW s \in Seq(Symbols)
  PROVE  Code!Coded(s) = Runs(Coding, Code!Start, s)
<1> DEFINE Is(f) == f = [k \in 0..Len(s) |->
                     IF k = 0 THEN Code!Start ELSE Code!encodeSymbol_(f[k - 1], s[k])]
           until == CHOOSE f : Is(f)
<1>1. PICK r : IsRun(r, Coding, Code!Start, s, SoundEncoder) BY CodingType, RunExists
<1>2. Is(r)
  <2> DEFINE g == [k \in 0..Len(s) |->
                     IF k = 0 THEN Code!Start ELSE Code!encodeSymbol_(r[k - 1], s[k])]
  <2>1. ASSUME NEW k \in 0..Len(s) PROVE r[k] = g[k]
    <3>1. CASE k = 0 BY <3>1, <1>1 DEF IsRun
    <3>2. CASE k # 0
      <4>1. k \in 1..Len(s) /\ k - 1 \in 0..Len(s) /\ s[k] \in Symbols BY <3>2
      <4>2. r[k] = Coding[<<r[k - 1], s[k]>>] /\ r[k - 1] \in SoundEncoder
        BY <4>1, <1>1 DEF IsRun
      <4>3. r[k] = Code!encodeSymbol_(r[k - 1], s[k]) BY <4>1, <4>2, CodingType
      <4> QED BY <3>2, <4>1, <4>3
    <3> QED BY <3>1, <3>2
  <2>2. g = [k \in 0..Len(s) |-> g[k]] /\ r = [k \in 0..Len(s) |-> r[k]] BY <1>1 DEF IsRun
  <2> HIDE DEF g
  <2>3. r = g BY <2>1, <2>2
  <2> QED BY <2>3 DEF g
<1>3. Is(until) BY <1>2
<1> HIDE DEF until
<1>4. Tracks(until, Coding, Code!Start, s, SoundEncoder)
  <2>1. until[0] = Code!Start BY <1>3
  <2>2. ASSUME NEW k \in 1..Len(s), until[k - 1] \in SoundEncoder PROVE until[k] = Coding[<<until[k - 1], s[k]>>]
    <3>1. k \in 0..Len(s) /\ k # 0 /\ s[k] \in Symbols OBVIOUS
    <3>2. until[k] = Code!encodeSymbol_(until[k - 1], s[k]) BY <1>3, <3>1
    <3> QED BY <2>2, <3>1, <3>2, CodingType
  <2> QED BY <2>1, <2>2 DEF Tracks
<1>5. until[Len(s)] = Runs(Coding, Code!Start, s) BY CodingType, <1>4, RunsTo
<1> QED BY <1>5 DEF Code!Coded, until

LEMMA ExactIs ==
  ASSUME Tabled, NEW s \in Seq(Symbols)
  PROVE  Code!Exact(s) = Runs(Narrowing, Whole_, s)
<1> DEFINE Is(f) == f = [k \in 0..Len(s) |->
                     IF k = 0 THEN [low |-> 0, length |-> 1, unit |-> 1] ELSE Code!Narrow(f[k - 1], s[k])]
           until == CHOOSE f : Is(f)
<1>1. PICK r : IsRun(r, Narrowing, Whole_, s, Interval) BY NarrowingType, RunExists
<1>2. Is(r)
  <2> DEFINE g == [k \in 0..Len(s) |->
                     IF k = 0 THEN [low |-> 0, length |-> 1, unit |-> 1] ELSE Code!Narrow(r[k - 1], s[k])]
  <2>1. ASSUME NEW k \in 0..Len(s) PROVE r[k] = g[k]
    <3>1. CASE k = 0 BY <3>1, <1>1 DEF IsRun, Whole_
    <3>2. CASE k # 0
      <4>1. k \in 1..Len(s) /\ k - 1 \in 0..Len(s) /\ s[k] \in Symbols BY <3>2
      <4>2. r[k] = Narrowing[<<r[k - 1], s[k]>>] /\ r[k - 1] \in Interval
        BY <4>1, <1>1 DEF IsRun
      <4>3. r[k] = Code!Narrow(r[k - 1], s[k]) BY <4>1, <4>2, NarrowingType
      <4> QED BY <3>2, <4>1, <4>3
    <3> QED BY <3>1, <3>2
  <2>2. g = [k \in 0..Len(s) |-> g[k]] /\ r = [k \in 0..Len(s) |-> r[k]] BY <1>1 DEF IsRun
  <2> HIDE DEF g
  <2>3. r = g BY <2>1, <2>2
  <2> QED BY <2>3 DEF g
<1>3. Is(until) BY <1>2
<1> HIDE DEF until
<1>4. Tracks(until, Narrowing, Whole_, s, Interval)
  <2>1. until[0] = Whole_ BY <1>3 DEF Whole_
  <2>2. ASSUME NEW k \in 1..Len(s), until[k - 1] \in Interval
        PROVE  until[k] = Narrowing[<<until[k - 1], s[k]>>]
    <3>1. k \in 0..Len(s) /\ k # 0 /\ s[k] \in Symbols OBVIOUS
    <3>2. until[k] = Code!Narrow(until[k - 1], s[k]) BY <1>3, <3>1
    <3> QED BY <2>2, <3>1, <3>2, NarrowingType
  <2> QED BY <2>1, <2>2 DEF Tracks
<1>5. until[Len(s)] = Runs(Narrowing, Whole_, s) BY NarrowingType, <1>4, RunsTo
<1> QED BY <1>5 DEF Code!Exact, until

(* What has been coded is the exact interval, all along. *)
LEMMA CodedMatches ==
  ASSUME Tabled
  PROVE  \A s \in Seq(Symbols) :
           /\ Code!Coded(s) \in SoundEncoder /\ Code!Exact(s) \in Interval /\ Code!Exact(s).unit >= 1
           /\ Matches(Code!Coded(s), Code!Exact(s))
<1> DEFINE C(s) == Code!Coded(s)
           X(s) == Code!Exact(s)
<1>1. /\ C(<<>>) = Code!Start
      /\ \A s \in Seq(Symbols) : C(s) \in SoundEncoder
      /\ \A s \in Seq(Symbols), y \in Symbols : C(Append(s, y)) = Code!encodeSymbol_(C(s), y)
  <2>1. /\ Runs(Coding, Code!Start, <<>>) = Code!Start
        /\ \A s \in Seq(Symbols) : Runs(Coding, Code!Start, s) \in SoundEncoder
        /\ \A s \in Seq(Symbols), y \in Symbols :
             Runs(Coding, Code!Start, Append(s, y)) = Coding[<<Runs(Coding, Code!Start, s), y>>]
    BY CodingType, RunsStep
  <2>2. <<>> \in Seq(Symbols) /\ \A s \in Seq(Symbols), y \in Symbols : Append(s, y) \in Seq(Symbols)
    OBVIOUS
  <2>3. \A s \in Seq(Symbols) : C(s) = Runs(Coding, Code!Start, s) BY CodedIs
  <2> HIDE DEF C
  <2>4. \A s \in Seq(Symbols) : C(s) \in SoundEncoder BY <2>1, <2>3
  <2>5. ASSUME NEW s \in Seq(Symbols), NEW y \in Symbols
        PROVE  C(Append(s, y)) = Code!encodeSymbol_(C(s), y)
    <3>1. PICK c : c = C(s) OBVIOUS
    <3>2. C(Append(s, y)) = Coding[<<c, y>>] /\ c \in SoundEncoder
      BY <2>1, <2>2, <2>3, <2>4, <3>1
    <3>3. Coding[<<c, y>>] = Code!encodeSymbol_(c, y) BY <3>2, CodingType
    <3> QED BY <3>1, <3>2, <3>3
  <2>6. C(<<>>) = Code!Start BY <2>1, <2>2, <2>3
  <2> QED BY <2>4, <2>5, <2>6
<1>2. /\ X(<<>>) = Whole_
      /\ \A s \in Seq(Symbols) : X(s) \in Interval
      /\ \A s \in Seq(Symbols), y \in Symbols : X(Append(s, y)) = Code!Narrow(X(s), y)
  <2>1. /\ Runs(Narrowing, Whole_, <<>>) = Whole_
        /\ \A s \in Seq(Symbols) : Runs(Narrowing, Whole_, s) \in Interval
        /\ \A s \in Seq(Symbols), y \in Symbols :
             Runs(Narrowing, Whole_, Append(s, y)) = Narrowing[<<Runs(Narrowing, Whole_, s), y>>]
    BY NarrowingType, RunsStep
  <2>2. <<>> \in Seq(Symbols) /\ \A s \in Seq(Symbols), y \in Symbols : Append(s, y) \in Seq(Symbols)
    OBVIOUS
  <2>3. \A s \in Seq(Symbols) : X(s) = Runs(Narrowing, Whole_, s) BY ExactIs
  <2> HIDE DEF X
  <2>4. \A s \in Seq(Symbols) : X(s) \in Interval BY <2>1, <2>3
  <2>5. ASSUME NEW s \in Seq(Symbols), NEW y \in Symbols
        PROVE  X(Append(s, y)) = Code!Narrow(X(s), y)
    <3>1. PICK x : x = X(s) OBVIOUS
    <3>2. X(Append(s, y)) = Narrowing[<<x, y>>] /\ x \in Interval
      BY <2>1, <2>2, <2>3, <2>4, <3>1
    <3>3. Narrowing[<<x, y>>] = Code!Narrow(x, y) BY <3>2, NarrowingType
    <3> QED BY <3>1, <3>2, <3>3
  <2>6. X(<<>>) = Whole_ BY <2>1, <2>2, <2>3
  <2> QED BY <2>4, <2>5, <2>6
<1> HIDE DEF C, X
<1> DEFINE T == {s \in Seq(Symbols) : X(s).unit >= 1 /\ Matches(C(s), X(s))}
<1>3. <<>> \in T
  <2> DEFINE o == <<>>
  <2>1. o \in Seq(Symbols) /\ C(o) = Code!Start /\ X(o) = Whole_ BY <1>1, <1>2
  <2> HIDE DEF o
  <2>2. Matches(C(o), X(o)) /\ X(o).unit >= 1 BY <2>1, TotalIs, StartMatches DEF Whole_
  <2>3. o \in T BY <2>1, <2>2
  <2> QED BY <2>3 DEF o
<1>4. ASSUME NEW s \in Seq(Symbols), NEW y \in Symbols, s \in T PROVE Append(s, y) \in T
  <2>1. PICK t, c, x : t = Append(s, y) /\ c = C(s) /\ x = X(s) OBVIOUS
  <2>2. t \in Seq(Symbols) /\ c \in SoundEncoder /\ x \in Interval /\ Matches(c, x) /\ x.unit >= 1
        /\ C(t) = Code!encodeSymbol_(c, y) /\ X(t) = Code!Narrow(x, y)
    <3>1. t \in Seq(Symbols) BY <2>1
    <3> QED BY <1>1, <1>2, <1>4, <2>1, <3>1
  <2>3. Matches(Code!encodeSymbol_(c, y), Code!Narrow(x, y))
    BY <2>2, SymbolMatches DEF Symbols
  <2>4. X(t).unit >= 1
    <3>1. PICK l, k, n : Part(y, l, k, n) BY PartIs DEF Symbols
    <3>2. X(t).unit = x.unit * n /\ n \in Nat /\ n >= 1 BY <2>2, <3>1, NarrowType DEF Part
    <3>3. x.unit \in Nat BY <2>2 DEF Interval
    <3>4. PICK i : i = x.unit OBVIOUS
    <3>5. i * n >= 1 BY <2>2, <3>2, <3>3, <3>4
    <3> QED BY <3>2, <3>4, <3>5
  <2>5. t \in T BY <2>2, <2>3, <2>4
  <2> QED BY <2>1, <2>5
<1>5. Seq(Symbols) \subseteq T
  <2> HIDE DEF T
  <2> QED BY <1>3, <1>4, SequenceInduction
<1> QED BY <1>1, <1>2, <1>5 DEF C, X

(* What flush_ writes: the digits, with the carry, and two of low_. *)
LEMMA LowEnds ==
  ASSUME ByteBits \in 2..8, NEW low, NEW q, NEW r, Splits(low, q, r)
  PROVE  \E t, m \in Nat :
           /\ t < Code!Byte /\ m < Below /\ r = t * Below + m
           /\ Code!TopTwo(low) % Code!Byte = t
           /\ low = (q * Code!Byte + t) * Below + m
<1>1. PICK p, y : p = Code!Byte /\ y = Below OBVIOUS
<1>2. p \in Nat /\ p >= 4 /\ y \in Nat /\ y >= 1 /\ Bottom = p * y BY <1>1, ByteIs, Sizes
<1>3. q \in Nat /\ r \in Nat /\ low = q * (p * y) + r /\ r < p * y BY <1>2 DEF Splits
<1>4. PICK t \in Nat, m \in Nat : m < y /\ r = t * y + m BY <1>2, <1>3, DivHas
<1>5. t < p
  <2> SUFFICES ASSUME ~(t < p) PROVE FALSE OBVIOUS
  <2>1. PICK d \in Nat : t = p + d
    <3>1. t - p \in Nat /\ t = p + (t - p) BY <1>2
    <3> QED BY <3>1
  <2>2. t * y = p * y + d * y /\ d * y \in Nat /\ p * y \in Nat BY <1>2, <2>1
  <2> QED BY <1>3, <1>4, <2>2
<1>6. low = (q * p + t) * y + m
  <2>1. q * (p * y) = (q * p) * y BY <1>2, <1>3
  <2>2. (q * p + t) * y = (q * p) * y + t * y BY <1>2, <1>3, <1>4
  <2>3. PICK i, j : i = (q * p) * y /\ j = t * y OBVIOUS
  <2>4. i \in Nat /\ j \in Nat BY <1>2, <1>3, <1>4, <2>3
  <2>5. i + (j + m) = (i + j) + m BY <1>4, <2>4
  <2> QED BY <1>3, <1>4, <2>1, <2>2, <2>3, <2>5
<1>7. Code!TopTwo(low) = q * p + t
  <2>1. PICK n : n = q * p + t OBVIOUS
  <2>2. n \in Nat BY <1>2, <1>3, <1>4, <2>1
  <2>3. DividesTo(low, n, y, m) BY <1>2, <1>4, <1>6, <2>1, <2>2 DEF DividesTo
  <2>4. low \div y = n BY <2>3, DivGoes
  <2> QED BY <1>1, <2>1, <2>4 DEF Code!TopTwo, Below
<1>8. (q * p + t) % p = t
  <2>1. PICK n : n = q * p + t OBVIOUS
  <2>2. DividesTo(n, q, p, t) BY <1>2, <1>3, <1>4, <1>5, <2>1 DEF DividesTo
  <2> QED BY <2>1, <2>2, DivGoes
<1> QED BY <1>1, <1>4, <1>5, <1>6, <1>7, <1>8

(* The digits that are written when no more come. *)
Final(e, d, q) ==
  /\ d \in Seq(Nat) /\ d # <<>> /\ d[1] = Code!Header
  /\ \/ q < Code!Byte /\ Val(Tail(d)) = Val(Rest(e)) /\ q % Code!Byte = q
     \/ /\ q >= Code!Byte /\ Val(Tail(d)) = Val(Rest(e)) + 1
        /\ q - Code!Byte \in Nat /\ q % Code!Byte = q - Code!Byte
  /\ Scale(Tail(d)) = Scale(Rest(e))
Flushed(e) ==
  LET carry == Code!Top(e.low) >= Code!Byte
  IN  Append(e.output, IF carry THEN e.working + 1 ELSE e.working)
        \o Code!Times(e.underflow, IF carry THEN 0 ELSE Code!Byte - 1)

LEMMA FlushedIs ==
  ASSUME ByteBits \in 2..8, NEW e \in SoundEncoder, NEW q, NEW r, Splits(e.low, q, r)
  PROVE  Final(e, Flushed(e), q)
<1>1. PICK o, w, u, p, d : /\ o = e.output /\ w = e.working /\ u = e.underflow
                          /\ p = Code!Byte /\ d = Flushed(e) OBVIOUS
<1>2. w \in Nat /\ u \in Nat /\ o \in Seq(Nat) /\ First(e) /\ e.low \in Nat /\ e.high \in Nat /\ e.high >= 1
  BY <1>1, SoundIs
<1>3. p \in Nat /\ p >= 4 /\ q \in Nat /\ q < 2 * p /\ (q >= p <=> e.low >= Code!TOP_VALUE)
      /\ Code!TOP_VALUE \in Nat /\ Code!Top(e.low) = q
  <2>1. q \in Nat /\ q < 2 * Code!Byte /\ (q >= Code!Byte <=> e.low >= Code!TOP_VALUE)
        /\ Code!Top(e.low) = q BY DEF Splits
  <2> QED BY <1>1, <2>1, ByteIs
<1>4. CASE q < p
  <2>0. ~(Code!Top(e.low) >= Code!Byte) BY <1>1, <1>3, <1>4
  <2>1. d = Append(o, w) \o Code!Times(u, Code!Byte - 1) BY <1>1, <2>0 DEF Flushed
  <2>2. d = Digits(e) /\ Tail(d) = Rest(e) BY <1>1, <2>1 DEF Digits, Rest
  <2>3. d \in Seq(Nat) /\ d # <<>> /\ d[1] = Code!Header BY <2>2, SoundIs
  <2>4. q % p = q
    <3>1. DividesTo(q, 0, p, q) BY <1>3, <1>4 DEF DividesTo
    <3> QED BY <3>1, DivGoes
  <2> QED BY <1>1, <1>4, <2>2, <2>3, <2>4 DEF Final
<1>5. CASE q >= p
  <2>0. ~(q < p) BY <1>3, <1>5
  <2>1. d = Append(o, w + 1) \o Code!Times(u, 0) BY <1>1, <1>3, <1>5 DEF Flushed
  <2>2. o # <<>> /\ o[1] = Code!Header
    <3>1. ~(e.low + e.high <= Code!TOP_VALUE) BY <1>2, <1>3, <1>5
    <3> QED BY <1>1, <1>2, <3>1 DEF First
  <2>3. PICK g : g = Digits(e) OBVIOUS
  <2>4. TakesCarry(o, w, u, d, g) BY <1>1, <1>2, <2>1, <2>2, <2>3 DEF TakesCarry, Digits
  <2>5. /\ d \in Seq(Nat) /\ d # <<>> /\ d[1] = o[1]
        /\ Val(Tail(d)) = Val(Tail(g)) + 1 /\ Scale(Tail(d)) = Scale(Tail(g))
    BY <2>4, CarriesOver
  <2>6. Tail(g) = Rest(e) BY <2>3 DEF Rest
  <2>7. q % p = q - p /\ q - p \in Nat
    <3>1. PICK k : k = q - p OBVIOUS
    <3>2. k \in Nat /\ k < p /\ q = 1 * p + k BY <1>3, <1>5, <3>1
    <3>3. DividesTo(q, 1, p, k) BY <1>3, <3>2 DEF DividesTo
    <3> QED BY <3>1, <3>2, <3>3, DivGoes
  <2> QED BY <1>1, <1>5, <2>2, <2>5, <2>6, <2>7 DEF Final
<1> QED BY <1>1, <1>3, <1>4, <1>5

(* What is left of a sequence without its first member and its last two. *)
Framed(d, x, y, v, w, f) ==
  /\ d \in Seq(Nat) /\ d # <<>> /\ x \in Nat /\ y \in Nat /\ v \in Nat /\ w \in Nat
  /\ f = (d \o <<x, y>>) \o <<v, w>>

LEMMA FrameIs ==
  ASSUME NEW d, NEW x, NEW y, NEW v, NEW w, NEW f, Framed(d, x, y, v, w, f)
  PROVE  /\ f[1] = d[1] /\ SubSeq(f, 2, Len(f) - 2) = Append(Append(Tail(d), x), y)
         /\ Tail(d) \in Seq(Nat)
<1>1. /\ d \in Seq(Nat) /\ d # <<>> /\ x \in Nat /\ y \in Nat /\ v \in Nat /\ w \in Nat
      /\ f = (d \o <<x, y>>) \o <<v, w>> BY DEF Framed
<1>2. PICK n, t, b_ : n = Len(d) /\ t = Tail(d) /\ b_ = d \o <<x, y>> OBVIOUS
<1>3. n \in Nat /\ n >= 1 /\ t \in Seq(Nat) /\ Len(t) = n - 1 /\ \A k \in 1..n - 1 : t[k] = d[k + 1]
  BY <1>1, <1>2
<1>4. /\ b_ \in Seq(Nat) /\ Len(b_) = n + 2 /\ (\A k \in 1..n : b_[k] = d[k])
      /\ b_[n + 1] = x /\ b_[n + 2] = y
  <2>1. <<x, y>> \in Seq(Nat) /\ Len(<<x, y>>) = 2 /\ <<x, y>>[1] = x /\ <<x, y>>[2] = y
    BY <1>1
  <2>2. PICK z : z = <<x, y>> OBVIOUS
  <2>3. z \in Seq(Nat) /\ Len(z) = 2 /\ z[1] = x /\ z[2] = y /\ b_ = d \o z
    BY <1>2, <2>1, <2>2
  <2>4. /\ b_ \in Seq(Nat) /\ Len(b_) = n + 2
        /\ \A i \in 1..n + 2 : b_[i] = IF i <= n THEN d[i] ELSE z[i - n]
    BY <1>1, <1>2, <2>3, ConcatProperties
  <2>5. \A k \in 1..n : b_[k] = d[k] BY <1>3, <2>4
  <2>6. n + 1 \in 1..n + 2 /\ ~(n + 1 <= n) /\ (n + 1) - n = 1
        /\ n + 2 \in 1..n + 2 /\ ~(n + 2 <= n) /\ (n + 2) - n = 2 BY <1>3
  <2> QED BY <2>3, <2>4, <2>5, <2>6
<1>5. f \in Seq(Nat) /\ Len(f) = n + 4 /\ \A k \in 1..n + 2 : f[k] = b_[k]
  <2>1. <<v, w>> \in Seq(Nat) /\ Len(<<v, w>>) = 2 BY <1>1
  <2>2. PICK z : z = <<v, w>> OBVIOUS
  <2>3. z \in Seq(Nat) /\ Len(z) = 2 /\ f = b_ \o z BY <1>1, <1>2, <2>1, <2>2
  <2>4. /\ f \in Seq(Nat) /\ Len(f) = Len(b_) + Len(z)
        /\ \A i \in 1..Len(b_) + Len(z) : f[i] = IF i <= Len(b_) THEN b_[i] ELSE z[i - Len(b_)]
    BY <1>4, <2>3, ConcatProperties
  <2>5. PICK m : m = n + 2 OBVIOUS
  <2>6. m \in Nat /\ Len(f) = m + 2 /\ \A i \in 1..m + 2 : i <= m => f[i] = b_[i]
    BY <1>3, <1>4, <2>3, <2>4, <2>5
  <2>7. \A k \in 1..m : f[k] = b_[k] BY <2>6
  <2> QED BY <1>3, <2>4, <2>5, <2>6, <2>7
<1>6. f[1] = d[1] BY <1>2, <1>3, <1>4, <1>5
<1> DEFINE s == SubSeq(f, 2, n + 2)
           c == Append(t, x)
           e == Append(c, y)
<1>7. s \in Seq(Nat) /\ Len(s) = n + 1 /\ \A k \in 1..n + 1 : s[k] = f[k + 1] BY <1>3, <1>5
<1>8. /\ c \in Seq(Nat) /\ Len(c) = n /\ c[n] = x /\ \A k \in 1..n - 1 : c[k] = t[k]
  BY <1>1, <1>3
<1> HIDE DEF s, c
<1>9. /\ e \in Seq(Nat) /\ Len(e) = n + 1 /\ e[n + 1] = y /\ \A k \in 1..n : e[k] = c[k]
  BY <1>1, <1>8
<1> HIDE DEF e
<1>10. \A k \in 1..n + 1 : s[k] = e[k]
  <2> TAKE k \in 1..n + 1
  <2>1. s[k] = b_[k + 1]
    <3>1. k + 1 \in 1..n + 2 BY <1>3
    <3> QED BY <1>5, <1>7, <3>1
  <2>2. CASE k = n + 1
    <3>1. k + 1 = n + 2 BY <1>3, <2>2
    <3> QED BY <1>4, <1>9, <2>1, <2>2, <3>1
  <2>3. CASE k = n
    <3>1. k \in 1..n /\ e[k] = c[n] BY <1>3, <1>9, <2>3
    <3> QED BY <1>4, <1>8, <2>1, <2>3, <3>1
  <2>4. CASE k \in 1..n - 1
    <3>1. k \in 1..n /\ k + 1 \in 1..n BY <1>3, <2>4
    <3>2. e[k] = t[k] /\ b_[k + 1] = d[k + 1] BY <1>4, <1>8, <1>9, <2>4, <3>1
    <3> QED BY <1>3, <2>1, <2>4, <3>2
  <2> QED BY <1>3, <2>2, <2>3, <2>4
<1>11. s = e
  <2>1. s = [k \in 1..n + 1 |-> s[k]] /\ e = [k \in 1..n + 1 |-> e[k]] BY <1>7, <1>9
  <2> QED BY <1>10, <2>1
<1>12. Len(f) - 2 = n + 2 BY <1>3, <1>5
<1> QED BY <1>2, <1>3, <1>6, <1>11, <1>12 DEF s, c, e

LEMMA FlushIs ==
  ASSUME ByteBits \in 2..8, NEW s, NEW e, e = Code!renormalize_(s), e \in SoundEncoder,
         NEW q, NEW r, Splits(e.low, q, r)
  PROVE  \E t, v, w \in Nat :
           /\ Framed(Flushed(e), q % Code!Byte, t, v, w, Code!flush_(s))
           /\ t < Code!Byte
           /\ \E m \in Nat : m < Below /\ e.low = (q * Code!Byte + t) * Below + m
<1>1. PICK t, m \in Nat : /\ t < Code!Byte /\ m < Below /\ r = t * Below + m
                          /\ Code!TopTwo(e.low) % Code!Byte = t
                          /\ e.low = (q * Code!Byte + t) * Below + m
  <2>1. PICK l : l = e.low OBVIOUS
  <2>2. Splits(l, q, r) BY <2>1
  <2>3. \E t, m \in Nat :
           /\ t < Code!Byte /\ m < Below /\ r = t * Below + m
           /\ Code!TopTwo(l) % Code!Byte = t
           /\ l = (q * Code!Byte + t) * Below + m BY <2>2, LowEnds
  <2> QED BY <2>1, <2>3
<1>2. PICK d, b_, x, v, w :
        /\ d = Flushed(e) /\ x = q % Code!Byte /\ b_ = d \o <<x, t>>
        /\ v = (Len(b_) \div Code!Byte) % Code!Byte /\ w = (Len(b_) + 1) % Code!Byte
  OBVIOUS
<1>3. Final(e, d, q) BY <1>2, FlushedIs
<1>4. d \in Seq(Nat) /\ d # <<>> /\ x \in Nat
  <2>1. q \in Nat BY DEF Splits
  <2> QED BY <1>2, <1>3, <2>1 DEF Final
<1>5. Len(b_) \in Nat
  <2>1. <<x, t>> \in Seq(Nat) BY <1>4
  <2>2. PICK z : z = <<x, t>> OBVIOUS
  <2>3. d \o z \in Seq(Nat) BY <1>4, <2>1, <2>2
  <2>4. b_ \in Seq(Nat) BY <1>2, <2>2, <2>3
  <2> QED BY <2>4
<1>6. v \in Nat /\ w \in Nat
  <2>1. PICK n, p : n = Len(b_) /\ p = Code!Byte OBVIOUS
  <2>2. n \in Nat /\ n + 1 \in Nat /\ p \in Nat /\ p >= 1 BY <1>5, <2>1, ByteIs
  <2>3. n \div p \in Nat BY <2>2, DivHas
  <2>4. PICK i, j : i = n \div p /\ j = n + 1 OBVIOUS
  <2>5. i % p \in Nat /\ j % p \in Nat BY <2>2, <2>3, <2>4, DivHas
  <2> QED BY <1>2, <2>1, <2>4, <2>5
<1>7. Code!flush_(s) = b_ \o <<v, w>>
  <2>1. Code!Top(e.low) = q BY DEF Splits
  <2>2. b_ = Flushed(e) \o <<Code!Top(e.low) % Code!Byte, Code!TopTwo(e.low) % Code!Byte>>
    BY <1>1, <1>2, <2>1
  <2>3. PICK c : c = Flushed(e) \o <<Code!Top(e.low) % Code!Byte, Code!TopTwo(e.low) % Code!Byte>>
    OBVIOUS
  <2>4. Code!flush_(s) = c \o <<(Len(c) \div Code!Byte) % Code!Byte, (Len(c) + 1) % Code!Byte>>
    BY <2>3 DEF Code!flush_, Flushed
  <2> QED BY <1>2, <2>2, <2>3, <2>4
<1>8. Framed(d, x, t, v, w, Code!flush_(s)) BY <1>2, <1>4, <1>6, <1>7 DEF Framed
<1> QED BY <1>1, <1>2, <1>6, <1>8

(* Its number. *)
Closes(e, d, q, t, s) ==
  /\ e \in SoundEncoder /\ q \in Nat /\ t \in Nat /\ Final(e, d, q)
  /\ s = Append(Append(Tail(d), q % Code!Byte), t)

LEMMA FlushedNumber ==
  ASSUME ByteBits \in 2..8, NEW e, NEW d, NEW q, NEW t, NEW s, Closes(e, d, q, t, s)
  PROVE  /\ Val(s) = (Val(Rest(e)) * Code!Byte + q) * Code!Byte + t
         /\ Scale(s) = (Scale(Rest(e)) * Code!Byte) * Code!Byte
<1>0. /\ e \in SoundEncoder /\ q \in Nat /\ t \in Nat /\ Final(e, d, q)
      /\ s = Append(Append(Tail(d), q % Code!Byte), t) BY DEF Closes
<1>1. PICK x, p, g, v, z : x = q % Code!Byte /\ p = Code!Byte /\ g = Tail(d) /\ v = Val(Rest(e)) /\ z = Scale(Rest(e))
  OBVIOUS
<1>2. p \in Nat /\ v \in Nat /\ z \in Nat BY <1>0, <1>1, ByteIs, SoundIs
<1>3. d \in Seq(Nat) /\ d # <<>> /\ Scale(g) = z
      /\ \/ q < p /\ Val(g) = v /\ x = q
         \/ q >= p /\ Val(g) = v + 1 /\ q - p \in Nat /\ x = q - p BY <1>0, <1>1 DEF Final
<1>4. x \in Nat /\ g \in Seq(Nat)
  <2>1. x \in Nat BY <1>0, <1>3
  <2>2. g \in Seq(Nat) BY <1>1, <1>3
  <2> QED BY <2>1, <2>2
<1>5. PICK c : c = Append(g, x) OBVIOUS
<1>6. c \in Seq(Nat) /\ s = Append(c, t) BY <1>0, <1>1, <1>4, <1>5
<1>7. Val(c) = Val(g) * p + x /\ Scale(c) = Scale(g) * p
  BY <1>1, <1>2, <1>4, <1>5, NumberGrows
<1>8. Val(s) = Val(c) * p + t /\ Scale(s) = Scale(c) * p
  BY <1>0, <1>1, <1>2, <1>6, NumberGrows
<1>9. Val(c) = v * p + q
  <2>1. CASE Val(g) = v /\ x = q BY <1>7, <2>1
  <2>2. CASE Val(g) = v + 1 /\ q - p \in Nat /\ x = q - p
    <3>1. (v + 1) * p + (q - p) = v * p + q BY <1>0, <1>2
    <3> QED BY <1>7, <2>2, <3>1
  <2> QED BY <1>3, <2>1, <2>2
<1> QED BY <1>1, <1>3, <1>7, <1>8, <1>9

(* Where the number of some digits is of an exact one. *)
Cutoff(unit, number, exact, scale) ==
  unit * number <= exact * scale /\ exact * scale < unit * number + unit

LEMMA CutsOff ==
  ASSUME NEW unit \in Nat, unit >= 1, NEW number \in Nat, NEW exact \in Nat, NEW scale \in Nat,
         NEW y \in Nat, NEW m \in Nat, m < y, unit * (number * y + m) = exact * (scale * y)
  PROVE  Cutoff(unit, number, exact, scale)
<1>1. PICK a_, b_, c : a_ = unit * number /\ b_ = exact * scale /\ c = unit * m OBVIOUS
<1>2. a_ \in Nat /\ b_ \in Nat /\ c \in Nat BY <1>1
<1>3. a_ * y + c = b_ * y
  <2>1. unit * (number * y + m) = (unit * number) * y + unit * m OBVIOUS
  <2>2. exact * (scale * y) = (exact * scale) * y OBVIOUS
  <2> QED BY <1>1, <2>1, <2>2
<1>4. a_ <= b_
  <2> SUFFICES ASSUME ~(a_ <= b_) PROVE FALSE OBVIOUS
  <2>1. PICK k \in Nat : a_ = (b_ + 1) + k
    <3>1. a_ - (b_ + 1) \in Nat /\ a_ = (b_ + 1) + (a_ - (b_ + 1)) BY <1>2
    <3> QED BY <3>1
  <2>2. a_ * y = (b_ * y + y) + k * y /\ k * y \in Nat /\ b_ * y \in Nat BY <1>2, <2>1
  <2> QED BY <1>2, <1>3, <2>2
<1>5. b_ < a_ + unit
  <2> SUFFICES ASSUME ~(b_ < a_ + unit) PROVE FALSE OBVIOUS
  <2>1. PICK k \in Nat : b_ = (a_ + unit) + k
    <3>1. b_ - (a_ + unit) \in Nat /\ b_ = (a_ + unit) + (b_ - (a_ + unit)) BY <1>2
    <3> QED BY <3>1
  <2>2. b_ * y = (a_ * y + unit * y) + k * y /\ k * y \in Nat /\ a_ * y \in Nat /\ unit * y \in Nat
    BY <1>2, <2>1
  <2>3. unit * m < unit * y OBVIOUS
  <2> QED BY <1>1, <1>2, <1>3, <2>2, <2>3
<1> QED BY <1>1, <1>4, <1>5 DEF Cutoff

Headed(f, x) ==
  /\ f[1] = Code!Header
  /\ LET s == SubSeq(f, 2, Len(f) - 2)
     IN  /\ Val(s) \in Nat /\ Scale(s) \in Nat
         /\ Cutoff(x.unit, Val(s), x.low, Scale(s))

LEMMA FlushMatches ==
  ASSUME ByteBits \in 2..8, NEW c \in SoundEncoder, NEW x \in Interval, x.unit >= 1, Matches(c, x)
  PROVE  Headed(Code!flush_(c), x)
<1>1. PICK e : e = Code!renormalize_(c) OBVIOUS
<1>2. e \in SoundEncoder /\ Matches(e, x) BY <1>1, Renormalizes
<1>3. PICK q, r \in Nat : Splits(e.low, q, r) BY <1>2, SplitsIs
<1>4. PICK t, v, w \in Nat :
           /\ Framed(Flushed(e), q % Code!Byte, t, v, w, Code!flush_(c))
           /\ t < Code!Byte
           /\ \E m \in Nat : m < Below /\ e.low = (q * Code!Byte + t) * Below + m
  BY <1>1, <1>2, <1>3, FlushIs
<1>5. PICK m \in Nat : m < Below /\ e.low = (q * Code!Byte + t) * Below + m BY <1>4
<1>6. PICK d, f, k : d = Flushed(e) /\ f = Code!flush_(c) /\ k = q % Code!Byte OBVIOUS
<1>7. Final(e, d, q) /\ Framed(d, k, t, v, w, f) BY <1>2, <1>3, <1>4, <1>6, FlushedIs
<1>8. PICK s : s = SubSeq(f, 2, Len(f) - 2) OBVIOUS
<1>9. f[1] = d[1] /\ s = Append(Append(Tail(d), k), t) BY <1>7, <1>8, FrameIs
<1>10. f[1] = Code!Header BY <1>7, <1>9 DEF Final
<1>11. PICK p, y, n, z, top, l : /\ p = Code!Byte /\ y = Below /\ n = Val(Rest(e)) /\ z = Scale(Rest(e))
                                /\ top = Code!TOP_VALUE /\ l = e.low OBVIOUS
<1>12. Val(s) = (n * p + q) * p + t /\ Scale(s) = (z * p) * p
  <2>1. Closes(e, d, q, t, s) BY <1>2, <1>6, <1>7, <1>9 DEF Closes
  <2>2. /\ Val(s) = (Val(Rest(e)) * Code!Byte + q) * Code!Byte + t
        /\ Scale(s) = (Scale(Rest(e)) * Code!Byte) * Code!Byte BY <2>1, FlushedNumber
  <2> QED BY <1>11, <2>2
<1>13. p \in Nat /\ y \in Nat /\ n \in Nat /\ z \in Nat /\ top = p * (p * y)
  <2>1. n \in Nat /\ z \in Nat BY <1>2, <1>11, SoundIs
  <2> QED BY <1>11, <2>1, Sizes
<1>14. n * top + l = ((n * p + q) * p + t) * y + m
  <2>1. ((n * p + q) * p + t) * y = ((n * p) * p) * y + (q * p + t) * y
    <3>1. (n * p + q) * p = (n * p) * p + q * p BY <1>13
    <3>2. PICK i, j : i = (n * p) * p /\ j = q * p OBVIOUS
    <3>3. i \in Nat /\ j \in Nat BY <1>13, <3>2
    <3>4. ((i + j) + t) * y = i * y + (j + t) * y BY <1>13, <3>3
    <3> QED BY <3>1, <3>2, <3>4
  <2>2. n * (p * (p * y)) = ((n * p) * p) * y BY <1>13
  <2>3. PICK i, j : i = ((n * p) * p) * y /\ j = (q * p + t) * y OBVIOUS
  <2>4. i \in Nat /\ j \in Nat BY <1>13, <2>3
  <2>5. i + (j + m) = (i + j) + m BY <2>4
  <2> QED BY <1>5, <1>11, <1>13, <2>1, <2>2, <2>3, <2>5
<1>15. z * top = ((z * p) * p) * y BY <1>13
<1>16. PICK number, scale, unit, exact : /\ number = (n * p + q) * p + t /\ scale = (z * p) * p
                                        /\ unit = x.unit /\ exact = x.low OBVIOUS
<1>17. number \in Nat /\ scale \in Nat /\ unit \in Nat /\ exact \in Nat /\ unit >= 1
  <2>1. unit \in Nat /\ exact \in Nat /\ unit >= 1 BY <1>16 DEF Interval
  <2>2. number \in Nat /\ scale \in Nat BY <1>13, <1>16
  <2> QED BY <2>1, <2>2
<1>18. unit * (number * y + m) = exact * (scale * y)
  <2>1. unit * (n * top + l) = exact * (z * top) BY <1>2, <1>11, <1>16 DEF Matches
  <2> QED BY <1>14, <1>15, <1>16, <2>1
<1>19. Cutoff(unit, number, exact, scale) BY <1>5, <1>11, <1>13, <1>17, <1>18, CutsOff
<1> QED BY <1>6, <1>8, <1>10, <1>12, <1>16, <1>17, <1>19 DEF Headed

LEMMA EncodesLow ==
  ASSUME Tabled, v2 \in Seq(Symbols)
  PROVE  Code!EncodesLowEnd
<1>1. PICK c, x, f : c = Code!Coded(v2) /\ x = Code!Exact(v2) /\ f = Code!flush_(c)
  OBVIOUS
<1>2. c \in SoundEncoder /\ x \in Interval /\ x.unit >= 1 /\ Matches(c, x) /\ ByteBits \in 2..8
  BY <1>1, CodedMatches, TotalIs
<1>3. Headed(f, x) BY <1>1, <1>2, FlushMatches
<1>4. PICK s, n, z : s = SubSeq(f, 2, Len(f) - 2) /\ n = Val(s) /\ z = Scale(s) OBVIOUS
<1>5. f[1] = Code!Header /\ n \in Nat /\ z \in Nat /\ Cutoff(x.unit, n, x.low, z)
  BY <1>3, <1>4 DEF Headed
<1>6. Code!Encoding = [header |-> f[1], unit |-> x.unit, value |-> x.unit * n, exact |-> x.low * z]
  BY <1>1, <1>4 DEF Code!Encoding, Code!encode, Val, Scale
<1> QED BY <1>5, <1>6 DEF Code!EncodesLowEnd, Cutoff

(* The table of the repository's configurations: the same for every byte. *)
Even == Tabled /\ v1 = Code!Times(Code!Byte, 1)

LEMMA OnesTotal == \A n \in Nat : Code!Total(Code!Times(n, 1)) = n
<1> DEFINE T == {n \in Nat : Code!Total(Code!Times(n, 1)) = n}
<1>1. 1 \in Nat OBVIOUS
<1>2. /\ Code!Times(0, 1) = <<>>
      /\ \A u \in Nat : /\ Code!Times(u, 1) \in Seq(Nat)
                        /\ Code!Times(u + 1, 1) = Append(Code!Times(u, 1), 1)
  BY <1>1, TimesGrows
<1>3. 0 \in T BY <1>2, TotalGrows
<1>4. ASSUME NEW n \in Nat, n \in T PROVE n + 1 \in T
  <2>1. PICK s : s = Code!Times(n, 1) OBVIOUS
  <2>2. s \in Seq(Nat) /\ Code!Times(n + 1, 1) = Append(s, 1) /\ Code!Total(s) = n
    BY <1>2, <1>4, <2>1
  <2>3. Code!Total(Append(s, 1)) = n + 1 BY <1>1, <2>2, TotalGrows
  <2>4. Code!Total(Code!Times(n + 1, 1)) = n + 1
    <3>1. PICK t : t = Code!Times(n + 1, 1) OBVIOUS
    <3>2. t = Append(s, 1) BY <2>2, <3>1
    <3>3. Code!Total(t) = n + 1 BY <2>3, <3>2
    <3> QED BY <3>1, <3>3
  <2>5. n + 1 \in Nat OBVIOUS
  <2> QED BY <2>4, <2>5
<1>5. Nat \subseteq T
  <2> HIDE DEF T
  <2> QED BY <1>3, <1>4, Induction
<1> QED BY <1>5

LEMMA EvenPart ==
  ASSUME Even
  PROVE  /\ Symbols = 0..Code!Byte - 1
         /\ \A x \in Symbols : Part(x, x, 1, Code!Byte)
<1>1. PICK p : p = Code!Byte OBVIOUS
<1>2. p \in Nat /\ p >= 4 BY <1>1, TotalIs, ByteIs DEF Even
<1>3. v1 = [i \in 1..p |-> 1] BY <1>1 DEF Even, Code!Times
<1>4. Len(v1) = p BY <1>2, <1>3
<1>5. ASSUME NEW x \in 0..p - 1 PROVE Part(x, x, 1, p)
  <2>1. SubSeq(v1, 1, x) = Code!Times(x, 1)
    <3> DEFINE s == SubSeq(v1, 1, x)
    <3>1. s \in Seq(Nat) /\ Len(s) = x /\ \A k \in 1..x : s[k] = v1[k]
      <4>1. v1 \in Seq(Nat) BY TotalIs DEF Even
      <4> QED BY <1>2, <1>4, <4>1
    <3>2. \A k \in 1..x : v1[k] = 1 BY <1>2, <1>3
    <3> HIDE DEF s
    <3>3. s = [k \in 1..x |-> s[k]] /\ \A k \in 1..x : s[k] = 1 BY <3>1, <3>2
    <3>4. s = [k \in 1..x |-> 1] BY <3>3
    <3> QED BY <3>4 DEF s, Code!Times
  <2>2. Code!Low(x) = x
    <3>1. x \in Nat BY <1>2
    <3>2. Code!Total(Code!Times(x, 1)) = x BY <3>1, OnesTotal
    <3> QED BY <2>1, <3>2 DEF Code!Low
  <2>3. Code!Length(x) = 1 BY <1>2, <1>3 DEF Code!Length
  <2>4. Code!total_ = p
    <3>1. Code!total_ = Code!Total(v1) BY TotalIs DEF Even
    <3> QED BY <1>1, <1>2, <3>1, OnesTotal DEF Even
  <2>5. PICK l, k, t : Part(x, l, k, t) BY <1>4, PartIs DEF Even
  <2>6. l = x /\ k = 1 /\ t = p BY <2>2, <2>3, <2>4, <2>5 DEF Part
  <2> QED BY <2>5, <2>6
<1> QED BY <1>1, <1>4, <1>5 DEF Symbols

(* renormalize_, a step at a time. *)
LEMMA NormalizeStep ==
  ASSUME ByteBits \in 2..8, NEW e \in SoundEncoder
  PROVE  /\ e.high > Bottom => Code!renormalize_(e) = e
         /\ e.high <= Bottom => Code!renormalize_(e) = Code!renormalize_(Code!Shifted(e))
<1>1. PICK f : /\ \A s \in Code!Encoder : f[s] = IF s \in Normal THEN s ELSE f[Shifting[s]]
               /\ \A s \in Code!Encoder : Code!renormalize_(s) = f[s] BY NormalizeIs
<1>2. e \in Code!Encoder /\ e.high \in Nat /\ Bottom \in Nat BY SoundIs, Sizes
<1>3. ASSUME e.high > Bottom PROVE Code!renormalize_(e) = e BY <1>1, <1>2, <1>3 DEF Normal
<1>4. ASSUME e.high <= Bottom PROVE Code!renormalize_(e) = Code!renormalize_(Code!Shifted(e))
  <2>1. e \notin Normal BY <1>2, <1>4 DEF Normal
  <2>2. PICK s : s = Code!Shifted(e) OBVIOUS
  <2>3. s \in Code!Encoder BY <1>4, <2>2, ShiftedGoes, SoundIs
  <2>4. Shifting[e] = s BY <1>2, <2>2 DEF Shifting
  <2> QED BY <1>1, <1>2, <2>1, <2>2, <2>3, <2>4
<1> QED BY <1>3, <1>4

(* A low_ without a remainder becomes a digit. *)
LEMMA DigitSettles ==
  ASSUME ByteBits \in 2..8, NEW e \in SoundEncoder, e.high = Bottom, NEW x \in Nat, x < Code!Byte,
         e.low = x * Bottom, NEW f, f = Code!Shifted(e)
  PROVE  f \in SoundEncoder /\ f.low = 0 /\ f.high = Code!TOP_VALUE /\ Digits(f) = Append(Digits(e), x)
<1>1. PICK q, r \in Nat : Splits(e.low, q, r) BY SplitsIs
<1>2. PICK p, z : p = Code!Byte /\ z = Bottom OBVIOUS
<1>3. p \in Nat /\ p >= 4 /\ z \in Nat /\ z >= 1 /\ Code!TOP_VALUE = p * z
  BY <1>2, ByteIs, Sizes
<1>4. q = x /\ r = 0
  <2>1. PICK n : n = e.low OBVIOUS
  <2>2. n = q * z + r /\ r < z /\ n = x * z BY <1>1, <1>2, <2>1 DEF Splits
  <2>3. DividesTo(n, q, z, r) BY <1>3, <2>2 DEF DividesTo
  <2>4. n = x * z + 0 BY <1>3, <2>2
  <2>5. DividesTo(n, x, z, 0) BY <1>3, <2>4 DEF DividesTo
  <2>6. n \div z = q /\ n % z = r BY <2>3, DivGoes
  <2>7. n \div z = x /\ n % z = 0 BY <2>5, DivGoes
  <2> QED BY <2>6, <2>7
<1>5. e.high <= Bottom BY <1>2, <1>3
<1>6. f \in SoundEncoder BY <1>5, ShiftedGoes
<1>7. f.low = 0 /\ f.high = Code!TOP_VALUE
  <2>0. Shifts(e, f, q, r) BY <1>1, <1>5, RangeShifts
  <2>1. f.low = r * p /\ f.high = e.high * p BY <2>0, <1>2 DEF Shifts
  <2>2. 0 * p = 0 /\ z * p = p * z BY <1>3
  <2> QED BY <1>2, <1>3, <1>4, <2>1, <2>2
<1>8. PICK g : g = Code!Settled(e) OBVIOUS
<1>9. e \in Code!Encoder /\ e.output \in Seq(Nat) /\ e.working \in Nat /\ e.underflow \in Nat
      /\ Digits(e) \in Seq(Nat) BY SoundIs
<1>10. (q < Code!Byte - 1 => Quiet(e, g, q)) /\ (q = Code!Byte - 1 => Waits(e, g))
  BY <1>1, <1>8, <1>9, SettlesAs
<1>11. Has(f, g.output, g.working, g.underflow) BY <1>8, <1>9, ShiftedFields DEF Has
<1>12. Digits(f) = Digits(g) BY <1>11 DEF Digits, Has
<1>13. CASE x < p - 1
  <2>1. Has(g, Digits(e), x, 0) BY <1>2, <1>4, <1>10, <1>13 DEF Quiet
  <2>2. PICK d : d = Digits(e) OBVIOUS
  <2>3. Digits(g) = Append(d, x) BY <1>9, <2>1, <2>2, WaitsNot
  <2> QED BY <1>6, <1>7, <1>12, <2>2, <2>3
<1>14. CASE x = p - 1
  <2>1. PICK o, w, u : o = e.output /\ w = e.working /\ u = e.underflow OBVIOUS
  <2>2. Has(g, o, w, u + 1) /\ Has(e, o, w, u)
    BY <1>2, <1>4, <1>10, <1>14, <2>1 DEF Waits, Has
  <2>3. o \in Seq(Nat) /\ w \in Nat /\ u \in Nat BY <1>9, <2>1
  <2>4. Digits(g) = Append(Digits(e), Code!Byte - 1) BY <2>2, <2>3, WaitsMore
  <2> QED BY <1>2, <1>6, <1>7, <1>12, <1>14, <2>4
<1> QED BY <1>2, <1>3, <1>13, <1>14

(* With it a packet is encoded as it is. *)
Kept_(e, p) ==
  /\ e \in SoundEncoder /\ e.low = 0 /\ e.high = Code!TOP_VALUE
  /\ Digits(e) # <<>> /\ Tail(Digits(e)) = p

LEMMA EvenStart == ASSUME Even PROVE Kept_(Code!renormalize_(Code!Coded(<<>>)), <<>>)
<1>0. Tabled /\ ByteBits \in 2..8 BY TotalIs DEF Even
<1>1. Code!Coded(<<>>) = Code!Start
  <2> DEFINE o == <<>>
  <2>1. o \in Seq(Symbols) OBVIOUS
  <2>2. Code!Coded(o) = Runs(Coding, Code!Start, o) BY <1>0, <2>1, CodedIs
  <2>3. Runs(Coding, Code!Start, <<>>) = Code!Start BY <1>0, CodingType, RunsStep
  <2> QED BY <2>2, <2>3
<1>2. PICK e : e = Code!Start OBVIOUS
<1>3. e \in SoundEncoder BY <1>0, <1>2, StartMatches
<1>4. e.low = 0 /\ e.high = Code!TOP_VALUE BY <1>2 DEF Code!Start
<1>5. e.high > Bottom
  <2>1. PICK p, z : p = Code!Byte /\ z = Bottom OBVIOUS
  <2>2. p \in Nat /\ p >= 4 /\ z \in Nat /\ z >= 1 /\ Code!TOP_VALUE = p * z
    BY <1>0, <2>1, ByteIs, Sizes
  <2>3. p * z > z BY <2>2
  <2> QED BY <1>4, <2>1, <2>2, <2>3
<1>6. Code!renormalize_(e) = e BY <1>0, <1>3, <1>5, NormalizeStep
<1>7. Digits(e) = <<Code!Header>>
  <2>1. PICK w : w = Code!Header OBVIOUS
  <2> DEFINE o == <<>>
  <2>2. Has(e, o, w, 0) /\ o \in Seq(Nat) /\ w \in Nat
    BY <1>0, <1>2, <2>1, Sizes DEF Code!Start, Has
  <2> HIDE DEF o
  <2>3. Digits(e) = Append(o, w) BY <1>0, <2>2, WaitsNot
  <2> QED BY <2>1, <2>3 DEF o
<1>8. Digits(e) # <<>> /\ Tail(Digits(e)) = <<>>
  <2>1. PICK w : w = Code!Header OBVIOUS
  <2>2. <<w>> # <<>> /\ Tail(<<w>>) = <<>> OBVIOUS
  <2> QED BY <1>7, <2>1, <2>2
<1>9. Kept_(e, <<>>) BY <1>3, <1>4, <1>8 DEF Kept_
<1> QED BY <1>1, <1>2, <1>6, <1>9

LEMMA EvenStep ==
  ASSUME Even, NEW c \in SoundEncoder, NEW p \in Seq(Symbols), Kept_(Code!renormalize_(c), p), NEW x \in Symbols
  PROVE  Kept_(Code!renormalize_(Code!encodeSymbol_(c, x)), Append(p, x))
<1>0. Tabled /\ ByteBits \in 2..8 BY TotalIs DEF Even
<1>1. PICK g, f : g = Code!renormalize_(c) /\ f = Code!encodeSymbol_(c, x) OBVIOUS
<1>2. g \in SoundEncoder /\ g.low = 0 /\ g.high = Code!TOP_VALUE /\ Digits(g) # <<>> /\ Tail(Digits(g)) = p
  BY <1>1 DEF Kept_
<1>3. Part(x, x, 1, Code!Byte) BY EvenPart
<1>4. PICK b_, z : b_ = Code!Byte /\ z = Bottom OBVIOUS
<1>5. /\ b_ \in Nat /\ b_ >= 4 /\ z \in Nat /\ z >= 1 /\ Code!TOP_VALUE = b_ * z
      /\ Code!Low(x) = x /\ Code!total_ = b_ /\ x \in Nat /\ x < b_
  <2>1. Code!Low(x) = x /\ Code!total_ = Code!Byte BY <1>3 DEF Part
  <2>2. Symbols = 0..Code!Byte - 1 BY EvenPart
  <2>3. b_ \in Nat /\ b_ >= 4 /\ z \in Nat /\ z >= 1 /\ Code!TOP_VALUE = b_ * z
    BY <1>0, <1>4, ByteIs, Sizes
  <2> QED BY <1>4, <2>1, <2>2, <2>3
<1>6. g.high \div Code!total_ = z
  <2>1. PICK n : n = b_ * z OBVIOUS
  <2>2. n = z * b_ + 0 BY <1>5, <2>1
  <2>3. DividesTo(n, z, b_, 0) BY <1>5, <2>2 DEF DividesTo
  <2>4. n \div b_ = z BY <2>3, DivGoes
  <2> QED BY <1>2, <1>5, <2>1, <2>4
<1>7. Code!Narrowed(g.high, z, x) = z
  <2>1. PICK h : h = g.high OBVIOUS
  <2>2. h = b_ * z BY <1>2, <1>5, <2>1
  <2>3. Part(x, x, 1, b_) BY <1>3, <1>4
  <2>4. Code!Narrowed(h, z, x) = z * 1 BY <1>5, <2>2, <2>3, NarrowedIs
  <2> QED BY <1>5, <2>1, <2>4
<1>8. f = [low |-> g.low + z * Code!Low(x), high |-> Code!Narrowed(g.high, z, x),
           working |-> g.working, underflow |-> g.underflow, output |-> g.output]
  BY <1>1, <1>2, <1>6, SoundIs, <1>0, SymbolFields
<1>9. f.low = x * z /\ f.high = Bottom /\ Has(f, g.output, g.working, g.underflow)
  <2>1. 0 + z * x = x * z BY <1>5
  <2> QED BY <1>2, <1>4, <1>5, <1>7, <1>8, <2>1 DEF Has
<1>10. f \in SoundEncoder BY <1>0, <1>1, SymbolSound
<1>11. Digits(f) = Digits(g) BY <1>9 DEF Has, Digits
<1>12. PICK s : s = Code!Shifted(f) OBVIOUS
<1>13. s \in SoundEncoder /\ s.low = 0 /\ s.high = Code!TOP_VALUE /\ Digits(s) = Append(Digits(f), x)
  BY <1>0, <1>4, <1>5, <1>9, <1>10, <1>12, DigitSettles
<1>14. Code!renormalize_(f) = s
  <2>1. f.high <= Bottom BY <1>4, <1>5, <1>9
  <2>2. Code!renormalize_(f) = Code!renormalize_(s)
    BY <1>0, <1>10, <1>12, <2>1, NormalizeStep
  <2>3. s.high > Bottom
    <3>1. b_ * z > z BY <1>5
    <3> QED BY <1>4, <1>5, <1>13, <3>1
  <2>4. Code!renormalize_(s) = s BY <1>0, <1>13, <2>3, NormalizeStep
  <2> QED BY <2>2, <2>4
<1>15. Tail(Digits(s)) = Append(p, x) /\ Digits(s) # <<>>
  <2>1. PICK d : d = Digits(g) OBVIOUS
  <2>2. d \in Seq(Nat) /\ d # <<>> /\ Tail(d) = p BY <1>0, <1>2, <2>1, SoundIs
  <2>3. Append(d, x) # <<>> /\ Tail(Append(d, x)) = Append(Tail(d), x)
    BY <1>5, <2>2, TailsAre
  <2> QED BY <1>11, <1>13, <2>1, <2>2, <2>3
<1> QED BY <1>1, <1>13, <1>14, <1>15 DEF Kept_

LEMMA EvenCoded ==
  ASSUME Even
  PROVE  \A p \in Seq(Symbols) : Kept_(Code!renormalize_(Code!Coded(p)), p)
<1>0. Tabled BY DEF Even
<1> DEFINE T == {p \in Seq(Symbols) : Kept_(Code!renormalize_(Code!Coded(p)), p)}
<1>1. <<>> \in T
  <2>1. <<>> \in Seq(Symbols) OBVIOUS
  <2> QED BY <2>1, EvenStart
<1>2. ASSUME NEW p \in Seq(Symbols), NEW x \in Symbols, p \in T PROVE Append(p, x) \in T
  <2>1. PICK c, t : c = Code!Coded(p) /\ t = Append(p, x) OBVIOUS
  <2>2. c \in SoundEncoder /\ Kept_(Code!renormalize_(c), p) /\ t \in Seq(Symbols)
    BY <1>0, <1>2, <2>1, CodedMatches
  <2>3. Code!Coded(t) = Code!encodeSymbol_(c, x)
    <3>1. Code!Coded(t) = Runs(Coding, Code!Start, t) /\ c = Runs(Coding, Code!Start, p)
      BY <1>0, <2>1, <2>2, CodedIs
    <3>2. Runs(Coding, Code!Start, Append(p, x)) = Coding[<<Runs(Coding, Code!Start, p), x>>]
      BY <1>0, CodingType, RunsStep
    <3>3. Coding[<<c, x>>] = Code!encodeSymbol_(c, x) BY <1>0, <2>2, CodingType
    <3> QED BY <2>1, <3>1, <3>2, <3>3
  <2>4. Kept_(Code!renormalize_(Code!encodeSymbol_(c, x)), t) BY <2>1, <2>2, EvenStep
  <2> QED BY <2>1, <2>2, <2>3, <2>4
<1>3. Seq(Symbols) \subseteq T
  <2> HIDE DEF T
  <2> QED BY <1>1, <1>2, SequenceInduction
<1> QED BY <1>3

(* What restore cuts off. *)
LEMMA FrameHas ==
  ASSUME NEW d, NEW x, NEW y, NEW v, NEW w, NEW f, Framed(d, x, y, v, w, f)
  PROVE  SubSeq(f, 2, Len(f) - 4) = Tail(d)
<1>1. /\ d \in Seq(Nat) /\ d # <<>> /\ x \in Nat /\ y \in Nat /\ v \in Nat /\ w \in Nat
      /\ f = (d \o <<x, y>>) \o <<v, w>> BY DEF Framed
<1>2. PICK n, t, b_, i, j : n = Len(d) /\ t = Tail(d) /\ b_ = d \o i /\ i = <<x, y>> /\ j = <<v, w>>
  OBVIOUS
<1>3. n \in Nat /\ n >= 1 /\ t \in Seq(Nat) /\ Len(t) = n - 1 /\ \A k \in 1..n - 1 : t[k] = d[k + 1]
  BY <1>1, <1>2
<1>4. i \in Seq(Nat) /\ Len(i) = 2 /\ j \in Seq(Nat) /\ Len(j) = 2 /\ f = b_ \o j
  BY <1>1, <1>2
<1>5. /\ b_ \in Seq(Nat) /\ Len(b_) = n + 2
      /\ \A k \in 1..n + 2 : b_[k] = IF k <= n THEN d[k] ELSE i[k - n]
  BY <1>1, <1>2, <1>4, ConcatProperties
<1>6. PICK m : m = n + 2 OBVIOUS
<1>7. m \in Nat /\ Len(b_) = m BY <1>3, <1>5, <1>6
<1>8. /\ f \in Seq(Nat) /\ Len(f) = m + 2
      /\ \A k \in 1..m + 2 : f[k] = IF k <= m THEN b_[k] ELSE j[k - m]
  <2>1. /\ f \in Seq(Nat) /\ Len(f) = Len(b_) + Len(j)
        /\ \A k \in 1..Len(b_) + Len(j) : f[k] = IF k <= Len(b_) THEN b_[k] ELSE j[k - Len(b_)]
    BY <1>4, <1>5, ConcatProperties
  <2>2. Len(b_) = m /\ Len(j) = 2 BY <1>4, <1>7
  <2> QED BY <2>1, <2>2
<1>9. \A k \in 1..n : f[k] = d[k]
  <2> TAKE k \in 1..n
  <2>1. k \in 1..m + 2 /\ k <= m /\ k \in 1..n + 2 /\ k <= n BY <1>3, <1>6
  <2> QED BY <1>5, <1>8, <2>1
<1>10. Len(f) - 4 = n BY <1>3, <1>6, <1>8
<1> DEFINE s == SubSeq(f, 2, n)
<1>11. s \in Seq(Nat) /\ Len(s) = n - 1 /\ \A k \in 1..n - 1 : s[k] = f[k + 1]
  BY <1>3, <1>6, <1>8
<1> HIDE DEF s
<1>12. \A k \in 1..n - 1 : s[k] = t[k]
  <2> TAKE k \in 1..n - 1
  <2>1. k + 1 \in 1..n BY <1>3
  <2> QED BY <1>3, <1>9, <1>11, <2>1
<1>13. s = t
  <2>1. s = [k \in 1..n - 1 |-> s[k]] /\ t = [k \in 1..n - 1 |-> t[k]] BY <1>3, <1>11
  <2> QED BY <1>12, <2>1
<1> QED BY <1>2, <1>10, <1>13 DEF s

LEMMA EvenRestores == ASSUME Even, NEW p \in Seq(Symbols) PROVE Code!restore(p) = p
<1>0. Tabled /\ ByteBits \in 2..8 BY TotalIs DEF Even
<1>1. PICK c, e, f : c = Code!Coded(p) /\ e = Code!renormalize_(c) /\ f = Code!flush_(c)
  OBVIOUS
<1>2. e \in SoundEncoder /\ e.low = 0 /\ Tail(Digits(e)) = p BY <1>1, EvenCoded DEF Kept_
<1>3. PICK q, r \in Nat : Splits(e.low, q, r) BY <1>0, <1>2, SplitsIs
<1>4. PICK t, v, w \in Nat : Framed(Flushed(e), q % Code!Byte, t, v, w, f)
  BY <1>0, <1>1, <1>2, <1>3, FlushIs
<1>5. PICK d, k : d = Flushed(e) /\ k = q % Code!Byte OBVIOUS
<1>6. SubSeq(f, 2, Len(f) - 4) = Tail(d) BY <1>4, <1>5, FrameHas
<1>7. d = Digits(e)
  <2>1. Code!Top(e.low) = q /\ (q >= Code!Byte <=> e.low >= Code!TOP_VALUE)
    BY <1>3 DEF Splits
  <2>2. ~(e.low >= Code!TOP_VALUE)
    <3>1. PICK b_, z : b_ = Code!Byte /\ z = Bottom OBVIOUS
    <3>2. b_ \in Nat /\ b_ >= 4 /\ z \in Nat /\ z >= 1 /\ Code!TOP_VALUE = b_ * z
      BY <1>0, <3>1, ByteIs, Sizes
    <3>3. b_ * z >= 1 BY <3>2
    <3> QED BY <1>2, <3>2, <3>3
  <2>3. ~(Code!Top(e.low) >= Code!Byte) BY <2>1, <2>2
  <2> QED BY <1>5, <2>3 DEF Flushed, Digits
<1>8. Code!restore(p) = SubSeq(f, 2, Len(f) - 4) BY <1>1 DEF Code!restore, Code!encode
<1> QED BY <1>2, <1>6, <1>7, <1>8

LEMMA HalfIs ==
  ASSUME ByteBits \in 2..8
  PROVE  \E p, x, z, top : /\ p = Code!Byte /\ x = Half_ /\ z = Bottom /\ top = Code!TOP_VALUE
                           /\ p \in Nat /\ x \in Nat /\ z \in Nat /\ top \in Nat
                           /\ p = 2 * x /\ x >= 2 /\ p >= 4 /\ z >= 1 /\ top >= 1
                           /\ z = p * (p * x) /\ top = p * z /\ Code!Word = 2 * top
<1>1. PICK p, x, y, z, top : /\ p = Code!Byte /\ x = Half_ /\ y = Below /\ z = Bottom
                            /\ top = Code!TOP_VALUE OBVIOUS
<1>2. p \in Nat /\ x \in Nat /\ y \in Nat /\ z \in Nat /\ top \in Nat /\ p = 2 * x /\ x >= 2 /\ z >= 1
      /\ y = p * x /\ z = p * y /\ top = p * z /\ Code!Word = 2 * top BY <1>1, Sizes
<1>3. p >= 4 BY <1>2
<1>4. top >= 1 BY <1>2, <1>3
<1> QED BY <1>1, <1>2, <1>3, <1>4

LEMMA HalvesIs == ASSUME NEW d \in Nat PROVE \E i, j \in Nat : j < 2 /\ d = 2 * i + j
<1>1. PICK i \in Nat, j \in Nat : j < 2 /\ d = i * 2 + j
  <2>1. PICK t : t = 2 OBVIOUS
  <2>2. t \in Nat /\ t >= 1 BY <2>1
  <2>3. \E i, j \in Nat : j < t /\ d = i * t + j /\ d \div t = i /\ d % t = j
    BY <2>2, DivHas
  <2> QED BY <2>1, <2>3
<1>2. i * 2 = 2 * i OBVIOUS
<1> QED BY <1>1, <1>2

LEMMA UpperIs ==
  ASSUME ByteBits \in 2..8, NEW e, NEW k \in Nat, NEW l \in Nat, l < 2, e = 2 * k + l
  PROVE  Code!Upper(e) = k
<1>1. e = k * 2 + l OBVIOUS
<1>2. DividesTo(e, k, 2, l) BY <1>1 DEF DividesTo
<1>3. e \div 2 = k BY <1>2, DivGoes
<1>4. Code!Two[ByteBits - Code!EXTRA_BITS] = 2 BY Sizes
<1> QED BY <1>3, <1>4 DEF Code!Upper

LEMMA KeptIs ==
  ASSUME ByteBits \in 2..8, NEW s, NEW i \in Nat, NEW j \in Nat, j < 2, s.working = 2 * i + j,
         NEW k \in Nat, NEW l \in Nat, l < 2, Code!NextByte(s) = 2 * k + l
  PROVE  Code!Kept(s) = j * Half_ + k
<1>1. PICK p, x : p = Code!Byte /\ x = Half_ /\ p \in Nat /\ x \in Nat /\ p = 2 * x /\ x >= 2
  BY HalfIs
<1>2. Code!Upper(Code!NextByte(s)) = k
  <2>1. PICK e : e = Code!NextByte(s) OBVIOUS
  <2>2. e = 2 * k + l BY <2>1
  <2> QED BY <2>1, <2>2, UpperIs
<1>3. (s.working * x) % p = j * x
  <2>1. PICK n, r : n = (2 * i + j) * x /\ r = j * x OBVIOUS
  <2>2. n = i * p + r
    <3>1. (2 * i + j) * x = i * (2 * x) + j * x BY <1>1
    <3> QED BY <1>1, <2>1, <3>1
  <2>3. r \in Nat /\ r < p
    <3>1. j = 0 \/ j = 1 OBVIOUS
    <3>2. 0 * x = 0 /\ 1 * x = x BY <1>1
    <3> QED BY <1>1, <2>1, <3>1, <3>2
  <2>4. DividesTo(n, i, p, r) BY <1>1, <2>2, <2>3 DEF DividesTo
  <2>5. n % p = r BY <2>4, DivGoes
  <2> QED BY <2>1, <2>5
<1>4. Code!Two[Code!EXTRA_BITS] = x BY <1>1 DEF Half_
<1> QED BY <1>1, <1>2, <1>3, <1>4 DEF Code!Kept

LEMMA DecoderIs ==
  ASSUME ByteBits \in 2..8, NEW s \in Code!Decoder
  PROVE  /\ s.low \in Nat /\ s.high \in Nat /\ s.high >= 1
         /\ (\E n \in 0..Code!CODE_BITS - 1 : s.high = Code!Two[n])
         /\ s.working \in Nat /\ s.working < Code!Byte
         /\ s.input \in Seq(0..Code!Byte - 1) /\ s.output \in Seq(0..Code!Byte - 1)
         /\ s = [low |-> s.low, high |-> s.high, working |-> s.working, input |-> s.input,
                 output |-> s.output]
<1>1. PICK p : p = Code!Byte OBVIOUS
<1>2. p \in Nat BY <1>1, ByteIs
<1>3. /\ s.low \in Nat /\ (\E n \in 0..Code!CODE_BITS - 1 : s.high = Code!Two[n])
      /\ s.working \in 0..p - 1
      /\ s.input \in Seq(0..p - 1) /\ s.output \in Seq(0..p - 1)
      /\ s = [low |-> s.low, high |-> s.high, working |-> s.working, input |-> s.input,
              output |-> s.output] BY <1>1 DEF Code!Decoder
<1>4. s.high \in Nat /\ s.high >= 1
  <2>1. PICK n \in 0..Code!CODE_BITS - 1 : s.high = Code!Two[n] BY <1>3
  <2>2. n \in Nat OBVIOUS
  <2> QED BY <2>1, <2>2, TwoPositive
<1>5. s.working \in Nat /\ s.working < p BY <1>2, <1>3
<1> QED BY <1>1, <1>3, <1>4, <1>5

Drop(input) == IF input = <<>> THEN input ELSE Tail(input)

LEMMA GrownFields ==
  ASSUME ByteBits \in 2..8, NEW s \in Code!Decoder
  PROVE  Code!Grown(s) = [low |-> (s.low * Code!Byte + Code!Kept(s)) % Code!Word,
                           high |-> (s.high * Code!Byte) % Code!Word,
                           working |-> Code!NextByte(s), input |-> Drop(s.input), output |-> s.output]
<1>1. PICK a_, b_, c, d : /\ a_ = (s.low * Code!Byte + Code!Kept(s)) % Code!Word
                         /\ b_ = (s.high * Code!Byte) % Code!Word
                         /\ c = Code!NextByte(s) /\ d = Drop(s.input) OBVIOUS
<1>2. Code!Grown(s) = [s EXCEPT !.high = b_, !.low = a_, !.working = c, !.input = d]
  BY <1>1 DEF Code!Grown, Drop
<1>3. PICK l, h, w, i, o : l = s.low /\ h = s.high /\ w = s.working /\ i = s.input /\ o = s.output
  OBVIOUS
<1>4. s = [low |-> l, high |-> h, working |-> w, input |-> i, output |-> o]
  BY <1>3, DecoderIs
<1>5. PICK k1, k2, k3, k4 :
        /\ k1 = [low |-> l, high |-> b_, working |-> w, input |-> i, output |-> o]
        /\ k2 = [low |-> a_, high |-> b_, working |-> w, input |-> i, output |-> o]
        /\ k3 = [low |-> a_, high |-> b_, working |-> c, input |-> i, output |-> o]
        /\ k4 = [low |-> a_, high |-> b_, working |-> c, input |-> d, output |-> o] OBVIOUS
<1>6. [s EXCEPT !.high = b_] = k1 BY <1>4, <1>5
<1>7. [k1 EXCEPT !.low = a_] = k2 BY <1>5
<1>8. [k2 EXCEPT !.working = c] = k3 BY <1>5
<1>9. [k3 EXCEPT !.input = d] = k4 BY <1>5
<1>10. [s EXCEPT !.high = b_, !.low = a_, !.working = c, !.input = d]
       = [[[[s EXCEPT !.high = b_] EXCEPT !.low = a_] EXCEPT !.working = c] EXCEPT !.input = d]
  OBVIOUS
<1> QED BY <1>1, <1>2, <1>3, <1>5, <1>6, <1>7, <1>8, <1>9, <1>10

(* The next byte, and those after it. *)
LEMMA NextIs ==
  ASSUME ByteBits \in 2..8, NEW s \in Code!Decoder
  PROVE  /\ Code!NextByte(s) \in Nat /\ Code!NextByte(s) < Code!Byte
         /\ Code!NextByte(s) \in 0..Code!Byte - 1
         /\ Drop(s.input) \in Seq(0..Code!Byte - 1)
<1>1. PICK p, i : p = Code!Byte /\ i = s.input OBVIOUS
<1>2. p \in Nat /\ p >= 4 /\ i \in Seq(0..p - 1) BY <1>1, ByteIs, DecoderIs
<1>3. CASE i = <<>>
  <2>1. Code!NextByte(s) = 0 /\ Drop(i) = i BY <1>1, <1>3 DEF Code!NextByte, Drop
  <2> QED BY <1>1, <1>2, <2>1
<1>4. CASE i # <<>>
  <2>1. Code!NextByte(s) = i[1] /\ Drop(i) = Tail(i) BY <1>1, <1>4 DEF Code!NextByte, Drop
  <2>2. i[1] \in 0..p - 1 /\ Tail(i) \in Seq(0..p - 1) BY <1>2, <1>4
  <2> QED BY <1>1, <1>2, <2>1, <2>2
<1> QED BY <1>3, <1>4

LEMMA GrownHigh ==
  ASSUME ByteBits \in 2..8, NEW s \in Code!Decoder, s.high <= Bottom
  PROVE  /\ Code!Grown(s).high = s.high * Code!Byte
         /\ \E n \in 0..Code!CODE_BITS - 1 : Code!Grown(s).high = Code!Two[n]
<1>1. PICK p, x, z, top : /\ p = Code!Byte /\ x = Half_ /\ z = Bottom /\ top = Code!TOP_VALUE
                           /\ p \in Nat /\ x \in Nat /\ z \in Nat /\ top \in Nat
                           /\ p = 2 * x /\ x >= 2 /\ p >= 4 /\ z >= 1 /\ top >= 1
                           /\ z = p * (p * x) /\ top = p * z /\ Code!Word = 2 * top
  BY HalfIs
<1>2. PICK h : h = s.high OBVIOUS
<1>3. h \in Nat /\ h <= z /\ \E n \in 0..Code!CODE_BITS - 1 : h = Code!Two[n]
  BY <1>1, <1>2, DecoderIs
<1>4. (h * p) % Code!Word = h * p
  <2>1. PICK n, d : n = h * p /\ d = 2 * top OBVIOUS
  <2>2. h * p <= z * p /\ z * p = p * z /\ h * p \in Nat BY <1>1, <1>3
  <2>3. n \in Nat /\ d \in Nat /\ n < d BY <1>1, <2>1, <2>2
  <2>4. DividesTo(n, 0, d, n) BY <2>3 DEF DividesTo
  <2> QED BY <1>1, <2>1, <2>4, DivGoes
<1>5. Code!Grown(s).high = h * p BY <1>1, <1>2, <1>4, GrownFields
<1>6. PICK n \in 0..Code!CODE_BITS - 1 : h = Code!Two[n] BY <1>3
<1>7. PICK b_, c, i : b_ = Code!SHIFT_BITS /\ c = Code!CODE_BITS - 1 /\ i = ByteBits
  OBVIOUS
<1>8. n \in Nat /\ b_ \in Nat /\ c \in Nat /\ i \in Nat /\ c = b_ + i
  <2>1. b_ = 4 * i - (i + 1) /\ c = 4 * i - 1 /\ i \in 2..8
    BY <1>7 DEF Code!SHIFT_BITS, Code!CODE_BITS
  <2> QED BY <2>1
<1>9. n <= b_
  <2>1. Code!Two[n] <= Code!Two[b_] BY <1>1, <1>3, <1>6, <1>7, Sizes
  <2> QED BY <1>8, <2>1, TwoDivides
<1>10. n + i \in 0..c /\ h * p = Code!Two[n + i]
  <2>1. Code!Two[n + i] = Code!Two[n] * Code!Two[i] BY <1>8, TwoPlus
  <2>2. p = Code!Two[i] BY <1>1, <1>7 DEF Code!Byte
  <2> QED BY <1>6, <1>8, <1>9, <2>1, <2>2
<1> QED BY <1>1, <1>2, <1>5, <1>7, <1>10

LEMMA GrownType ==
  ASSUME ByteBits \in 2..8, NEW s \in Code!Decoder, s.high <= Bottom
  PROVE  Code!Grown(s) \in Code!Decoder
<1>1. PICK p, x, z, top : /\ p = Code!Byte /\ x = Half_ /\ z = Bottom /\ top = Code!TOP_VALUE
                           /\ p \in Nat /\ x \in Nat /\ z \in Nat /\ top \in Nat
                           /\ p = 2 * x /\ x >= 2 /\ p >= 4 /\ z >= 1 /\ top >= 1
                           /\ z = p * (p * x) /\ top = p * z /\ Code!Word = 2 * top
  BY HalfIs
<1>2. PICK l, e, d : l = s.low /\ e = Code!NextByte(s) /\ d = s.working OBVIOUS
<1>3. l \in Nat /\ e \in Nat /\ d \in Nat BY <1>2, DecoderIs, NextIs
<1>4. Code!Kept(s) \in Nat
  <2>1. PICK i, j \in Nat : j < 2 /\ d = 2 * i + j BY <1>3, HalvesIs
  <2>2. PICK k, m \in Nat : m < 2 /\ e = 2 * k + m BY <1>3, HalvesIs
  <2>3. s.working = 2 * i + j /\ Code!NextByte(s) = 2 * k + m BY <1>2, <2>1, <2>2
  <2>4. Code!Kept(s) = j * Half_ + k BY <2>1, <2>2, <2>3, KeptIs
  <2>5. j * x + k \in Nat BY <1>1
  <2> QED BY <1>1, <2>4, <2>5
<1>5. (s.low * Code!Byte + Code!Kept(s)) % Code!Word \in Nat
  <2>1. PICK n, k : n = l * p + k /\ k = Code!Kept(s) OBVIOUS
  <2>2. n \in Nat BY <1>1, <1>3, <1>4, <2>1
  <2>3. PICK d_ : d_ = 2 * top OBVIOUS
  <2>4. d_ \in Nat /\ d_ >= 1 BY <1>1, <2>3
  <2>5. n % d_ \in Nat BY <2>2, <2>4, DivHas
  <2> QED BY <1>1, <1>2, <2>1, <2>3, <2>5
<1>6. PICK g : g = Code!Grown(s) OBVIOUS
<1>7. g = [low |-> (s.low * Code!Byte + Code!Kept(s)) % Code!Word,
           high |-> (s.high * Code!Byte) % Code!Word,
           working |-> Code!NextByte(s), input |-> Drop(s.input), output |-> s.output]
  BY <1>6, GrownFields
<1>8. \E n \in 0..Code!CODE_BITS - 1 : g.high = Code!Two[n] BY <1>6, GrownHigh
<1>9. g.low \in Nat /\ g.working \in 0..Code!Byte - 1 /\ g.input \in Seq(0..Code!Byte - 1)
      /\ g.output \in Seq(0..Code!Byte - 1)
      /\ g = [low |-> g.low, high |-> g.high, working |-> g.working, input |-> g.input,
              output |-> g.output] BY <1>5, <1>7, NextIs, DecoderIs
<1>10. g.high \in {Code!Two[n] : n \in 0..Code!CODE_BITS - 1} BY <1>8
<1>11. g \in Code!Decoder BY <1>9, <1>10 DEF Code!Decoder
<1> QED BY <1>6, <1>11

(* The loop of readBytes_. *)
Read_ == {s \in Code!Decoder : s.high > Bottom}
Growing == [s \in Code!Decoder |-> IF s \in Read_ THEN s ELSE Code!Grown(s)]
Reads == [s \in Code!Decoder |-> AnyOf(EndsOf(s, Code!Decoder, Read_, Growing))]

LEMMA GrowingType == ByteBits \in 2..8 => Growing \in [Code!Decoder -> Code!Decoder]
<1> SUFFICES ASSUME ByteBits \in 2..8, NEW s \in Code!Decoder, s \notin Read_
             PROVE  Code!Grown(s) \in Code!Decoder BY DEF Growing
<1>1. s.high \in Nat /\ Bottom \in Nat BY DecoderIs, Sizes
<1>2. s.high <= Bottom BY <1>1 DEF Read_
<1> QED BY <1>2, GrownType

LEMMA ReadIs ==
  ASSUME ByteBits \in 2..8
  PROVE  \E f : /\ \A s \in Code!Decoder : f[s] = IF s \in Read_ THEN s ELSE f[Growing[s]]
                /\ \A s \in Code!Decoder : Code!readBytes_(s) = f[s]
<1> DEFINE Is(f) == f = [s \in Code!Decoder |->
             IF s.high > Code!BOTTOM_VALUE THEN s ELSE f[Code!Grown(s)]]
           normal == CHOOSE f : Is(f)
<1>1. \A s \in Code!Decoder : Reads[s] = IF s \in Read_ THEN s ELSE Reads[Growing[s]]
  BY GrowingType, LoopExists DEF Reads
<1>0. \A s \in Code!Decoder : /\ s \in Read_ <=> s.high > Code!BOTTOM_VALUE
                              /\ s \notin Read_ => Growing[s] = Code!Grown(s)
  BY DEF Read_, Growing, Bottom
<1>2. Is(Reads)
  <2> DEFINE g == [s \in Code!Decoder |->
                     IF s.high > Code!BOTTOM_VALUE THEN s ELSE Reads[Code!Grown(s)]]
  <2>1. ASSUME NEW s \in Code!Decoder PROVE Reads[s] = g[s] BY <1>0, <1>1
  <2>2. DOMAIN g = Code!Decoder /\ g = [s \in Code!Decoder |-> g[s]] OBVIOUS
  <2>3. DOMAIN Reads = Code!Decoder /\ Reads = [s \in Code!Decoder |-> Reads[s]]
    BY DEF Reads
  <2> HIDE DEF g
  <2>4. Reads = g BY <2>1, <2>2, <2>3
  <2> QED BY <2>4 DEF g
<1>3. Is(normal) BY <1>2
<1> HIDE DEF normal
<1>4. \A s \in Code!Decoder : normal[s] = IF s \in Read_ THEN s ELSE normal[Growing[s]]
  BY <1>0, <1>3
<1>5. \A s \in Code!Decoder : Code!readBytes_(s) = normal[s]
  BY DEF Code!readBytes_, normal
<1> QED BY <1>4, <1>5

LEMMA ReadStep ==
  ASSUME ByteBits \in 2..8, NEW s \in Code!Decoder
  PROVE  /\ s.high > Bottom => Code!readBytes_(s) = s
         /\ s.high <= Bottom => Code!readBytes_(s) = Code!readBytes_(Code!Grown(s))
<1>1. PICK f : /\ \A t \in Code!Decoder : f[t] = IF t \in Read_ THEN t ELSE f[Growing[t]]
               /\ \A t \in Code!Decoder : Code!readBytes_(t) = f[t] BY ReadIs
<1>2. s.high \in Nat /\ Bottom \in Nat BY DecoderIs, Sizes
<1>3. ASSUME s.high > Bottom PROVE Code!readBytes_(s) = s BY <1>1, <1>3 DEF Read_
<1>4. ASSUME s.high <= Bottom PROVE Code!readBytes_(s) = Code!readBytes_(Code!Grown(s))
  <2>1. s \notin Read_ BY <1>2, <1>4 DEF Read_
  <2>2. PICK t : t = Code!Grown(s) OBVIOUS
  <2>3. t \in Code!Decoder BY <1>4, <2>2, GrownType
  <2>4. Growing[s] = t BY <2>1, <2>2 DEF Growing
  <2> QED BY <1>1, <2>1, <2>2, <2>3, <2>4
<1> QED BY <1>3, <1>4

LEMMA ReadType ==
  ASSUME ByteBits \in 2..8
  PROVE  \A s \in Code!Decoder : Code!readBytes_(s) \in Code!Decoder /\ Code!readBytes_(s).high > Bottom
<1>1. PICK f : /\ \A t \in Code!Decoder : f[t] = IF t \in Read_ THEN t ELSE f[Growing[t]]
               /\ \A t \in Code!Decoder : Code!readBytes_(t) = f[t] BY ReadIs
<1> DEFINE m == [s \in Code!Decoder |-> Code!TOP_VALUE - s.high]
           J == Code!Decoder
<1>2. \A s \in J : s.high \in Nat /\ s.high >= 1 /\ s.high <= Code!TOP_VALUE
  <2> TAKE s \in J
  <2>1. PICK n \in 0..Code!CODE_BITS - 1 : s.high = Code!Two[n] BY DecoderIs
  <2>2. PICK c : c = Code!CODE_BITS - 1 OBVIOUS
  <2>3. c \in Nat BY <2>2 DEF Code!CODE_BITS
  <2>4. n \in Nat /\ n <= c BY <2>2, <2>3
  <2>5. Code!Two[n] <= Code!Two[c] BY <2>3, <2>4, TwoGrows
  <2> QED BY <2>1, <2>2, <2>5, DecoderIs DEF Code!TOP_VALUE
<1>3. Code!TOP_VALUE \in Nat /\ Bottom \in Nat BY Sizes
<1>4. \A s \in J : m[s] \in Nat BY <1>2, <1>3
<1>5. \A s \in J : s \in Read_ => f[s] = s BY <1>1
<1>6. ASSUME NEW s \in J, s \notin Read_
      PROVE  f[s] = f[Growing[s]] /\ Growing[s] \in J /\ m[Growing[s]] < m[s]
  <2>1. s.high <= Bottom BY <1>2, <1>3, <1>6 DEF Read_
  <2>2. PICK t : t = Code!Grown(s) OBVIOUS
  <2>3. t \in J /\ Growing[s] = t /\ f[s] = f[t]
    BY <1>1, <1>6, <2>1, <2>2, GrownType DEF Growing
  <2>4. t.high > s.high
    <3>1. PICK h, p : h = s.high /\ p = Code!Byte OBVIOUS
    <3>2. h \in Nat /\ h >= 1 /\ p \in Nat /\ p >= 4 BY <1>2, <3>1, ByteIs
    <3>3. h * p >= h * 4 BY <3>2
    <3>4. t.high = h * p BY <2>1, <2>2, <3>1, GrownHigh
    <3> QED BY <3>1, <3>2, <3>3, <3>4
  <2>5. m[t] < m[s] BY <1>2, <1>3, <2>3, <2>4
  <2> QED BY <2>3, <2>5
<1> HIDE DEF m
<1>7. Loops(f, Read_, J, Growing, m) BY <1>4, <1>5, <1>6 DEF Loops
<1>8. \A s \in J : f[s] \in J /\ f[s] \in Read_
  <2> HIDE DEF J
  <2> QED BY <1>7, LoopEnds
<1> QED BY <1>1, <1>8 DEF Read_

(* A byte is decoded. *)
Symbol(d) ==
  LET temp == d.low \div (d.high \div Code!Byte)
  IN  IF temp >= Code!Byte THEN Code!Byte - 1 ELSE temp

LEMMA DecodedFields ==
  ASSUME ByteBits \in 2..8, NEW s, NEW d, d = Code!readBytes_(s), d \in Code!Decoder,
         NEW u, u = d.high \div Code!Byte, NEW x, x = Symbol(d)
  PROVE  Code!decodeSymbol_(s) =
           [low |-> d.low - u * Code!Low(x), high |-> Code!Narrowed(d.high, u, x),
            working |-> d.working, input |-> d.input, output |-> Append(d.output, x)]
<1>1. PICK a_, b_, c : /\ a_ = d.low - u * Code!Low(x) /\ b_ = Code!Narrowed(d.high, u, x)
                      /\ c = Append(d.output, x) OBVIOUS
<1>2. Code!decodeSymbol_(s) = [d EXCEPT !.output = c, !.low = a_, !.high = b_]
  BY <1>1 DEF Code!decodeSymbol_, Symbol
<1>3. PICK l, h, w, i, o : l = d.low /\ h = d.high /\ w = d.working /\ i = d.input /\ o = d.output
  OBVIOUS
<1>4. d = [low |-> l, high |-> h, working |-> w, input |-> i, output |-> o]
  BY <1>3, DecoderIs
<1>5. PICK k1, k2, k3 :
        /\ k1 = [low |-> l, high |-> h, working |-> w, input |-> i, output |-> c]
        /\ k2 = [low |-> a_, high |-> h, working |-> w, input |-> i, output |-> c]
        /\ k3 = [low |-> a_, high |-> b_, working |-> w, input |-> i, output |-> c] OBVIOUS
<1>6. [d EXCEPT !.output = c] = k1 BY <1>4, <1>5
<1>7. [k1 EXCEPT !.low = a_] = k2 BY <1>5
<1>8. [k2 EXCEPT !.high = b_] = k3 BY <1>5
<1>9. [d EXCEPT !.output = c, !.low = a_, !.high = b_]
       = [[[d EXCEPT !.output = c] EXCEPT !.low = a_] EXCEPT !.high = b_] OBVIOUS
<1> QED BY <1>1, <1>2, <1>3, <1>5, <1>6, <1>7, <1>8, <1>9

LEMMA DecodedType ==
  ASSUME Even, NEW s \in Code!Decoder
  PROVE  Code!decodeSymbol_(s) \in Code!Decoder
<1>0. Tabled /\ ByteBits \in 2..8 BY TotalIs DEF Even
<1>1. PICK d : d = Code!readBytes_(s) OBVIOUS
<1>2. d \in Code!Decoder /\ d.high > Bottom BY <1>0, <1>1, ReadType
<1>3. PICK p, h, l : p = Code!Byte /\ h = d.high /\ l = d.low OBVIOUS
<1>4. p \in Nat /\ p >= 4 /\ h \in Nat /\ l \in Nat /\ h > Bottom
  BY <1>0, <1>2, <1>3, ByteIs, DecoderIs
<1>5. PICK n \in 0..Code!CODE_BITS - 1 : h = Code!Two[n] BY <1>0, <1>2, <1>3, DecoderIs
<1>6. p = Code!Two[ByteBits] /\ ByteBits \in Nat /\ n \in Nat /\ p <= Bottom
  <2>1. 0 \in Symbols BY <1>3, <1>4, EvenPart
  <2>2. Part(0, 0, 1, p) BY <1>3, <2>1, EvenPart
  <2>3. p <= Bottom BY <2>2 DEF Part
  <2> QED BY <1>0, <1>3, <2>3 DEF Code!Byte
<1>7. PICK u \in Nat : u >= 1 /\ h = p * u /\ h \div p = u BY <1>0, <1>4, <1>5, <1>6, UnitIs
<1>8. \E k \in 0..Code!CODE_BITS - 1 : u = Code!Two[k]
  <2>1. p <= h
    <3>1. Bottom \in Nat BY <1>0, Sizes
    <3> QED BY <1>4, <1>6, <3>1
  <2>2. ByteBits <= n /\ h = p * Code!Two[n - ByteBits] BY <1>5, <1>6, <2>1, TwoDivides
  <2>3. PICK k : k = n - ByteBits OBVIOUS
  <2>4. k \in Nat /\ k \in 0..Code!CODE_BITS - 1
    <3>1. Code!CODE_BITS \in Nat BY <1>0 DEF Code!CODE_BITS
    <3> QED BY <1>6, <2>2, <2>3, <3>1
  <2>5. PICK w : w = Code!Two[k] OBVIOUS
  <2>6. w \in Nat /\ p * w = p * u BY <1>7, <2>2, <2>3, <2>4, <2>5, TwoPositive
  <2>7. w = u
    <3>1. u * p = w * p BY <1>4, <1>7, <2>6
    <3>2. PICK z : z = u * p OBVIOUS
    <3>3. z = u * p + 0 /\ z = w * p + 0 BY <1>4, <1>7, <2>6, <3>1, <3>2
    <3>4. DividesTo(z, u, p, 0) /\ DividesTo(z, w, p, 0)
      BY <1>4, <1>7, <2>6, <3>3 DEF DividesTo
    <3>5. z \div p = u BY <3>4, DivGoes
    <3>6. z \div p = w BY <3>4, DivGoes
    <3> QED BY <3>5, <3>6
  <2> QED BY <2>4, <2>5, <2>7
<1>9. PICK t \in Nat, r \in Nat : r < u /\ l = t * u + r /\ l \div u = t
  BY <1>4, <1>7, DivHas
<1>10. PICK x : x = Symbol(d) OBVIOUS
<1>11. x \in Nat /\ x < p /\ x <= t
  <2>1. x = IF t >= p THEN p - 1 ELSE t BY <1>3, <1>7, <1>9, <1>10 DEF Symbol
  <2> QED BY <1>4, <2>1
<1>12. x \in Symbols /\ Part(x, x, 1, p)
  <2>1. x \in 0..p - 1 BY <1>4, <1>11
  <2> QED BY <1>3, <2>1, EvenPart
<1>13. l - u * x \in Nat
  <2>1. PICK k \in Nat : t = x + k
    <3>1. t - x \in Nat /\ t = x + (t - x) BY <1>11
    <3> QED BY <3>1
  <2>2. t * u = u * x + k * u /\ u * x \in Nat /\ k * u \in Nat BY <1>11, <2>1
  <2> QED BY <1>9, <2>2
<1>14. Code!Narrowed(h, u, x) = u
  <2>1. Code!Narrowed(h, u, x) = u * 1 BY <1>7, <1>12, NarrowedIs
  <2> QED BY <1>7, <2>1
<1>15. Code!Low(x) = x BY <1>12 DEF Part
<1>16. PICK f : f = Code!decodeSymbol_(s) OBVIOUS
<1>17. f = [low |-> l - u * x, high |-> u, working |-> d.working, input |-> d.input,
            output |-> Append(d.output, x)]
  <2>1. f = [low |-> d.low - u * Code!Low(x), high |-> Code!Narrowed(d.high, u, x),
            working |-> d.working, input |-> d.input, output |-> Append(d.output, x)]
    BY <1>0, <1>1, <1>2, <1>3, <1>7, <1>10, <1>16, DecodedFields
  <2> QED BY <1>3, <1>14, <1>15, <2>1
<1>18. d.working \in 0..p - 1 /\ d.input \in Seq(0..p - 1) /\ Append(d.output, x) \in Seq(0..p - 1)
  <2>1. d.working \in Nat /\ d.working < p /\ d.input \in Seq(0..p - 1) /\ d.output \in Seq(0..p - 1)
    BY <1>0, <1>2, <1>3, DecoderIs
  <2>2. x \in 0..p - 1 BY <1>4, <1>11
  <2> QED BY <1>4, <2>1, <2>2
<1>19. u \in {Code!Two[k] : k \in 0..Code!CODE_BITS - 1} BY <1>8
<1>20. f \in Code!Decoder BY <1>3, <1>13, <1>17, <1>18, <1>19 DEF Code!Decoder
<1> QED BY <1>16, <1>20

(* What the decoder holds: three bytes, and the upper bits of a fourth. *)
Window(s, b_, c, d, e) ==
  LET p == Code!Byte
  IN  /\ s \in Code!Decoder
      /\ b_ \in Nat /\ b_ < p /\ c \in Nat /\ c < p /\ d \in Nat /\ d < p /\ e \in Nat /\ e < p
      /\ s.working = e
      /\ \E i, j \in Nat : /\ j < 2 /\ e = 2 * i + j
                           /\ s.low = ((b_ * p + c) * p + d) * Half_ + i

LEMMA DigitFits ==
  ASSUME NEW m \in Nat, NEW q \in Nat, m + 1 <= q, NEW p \in Nat, NEW d \in Nat, d + 1 <= p
  PROVE  m * p + d + 1 <= q * p
<1>1. PICK k \in Nat : q = (m + 1) + k
  <2>1. q - (m + 1) \in Nat /\ q = (m + 1) + (q - (m + 1)) OBVIOUS
  <2> QED BY <2>1
<1>2. q * p = m * p + p + k * p /\ k * p \in Nat /\ m * p \in Nat BY <1>1
<1> QED BY <1>2

LEMMA GrownGoes ==
  ASSUME ByteBits \in 2..8, NEW s, NEW c, NEW d, NEW e, Window(s, 0, c, d, e), s.high <= Bottom
  PROVE  /\ Window(Code!Grown(s), c, d, e, Code!NextByte(s))
         /\ Code!Grown(s).high = s.high * Code!Byte
         /\ Code!Grown(s).input = Drop(s.input) /\ Code!Grown(s).output = s.output
<1>1. PICK p, x, z, top : /\ p = Code!Byte /\ x = Half_ /\ z = Bottom /\ top = Code!TOP_VALUE
                         /\ p \in Nat /\ x \in Nat /\ z \in Nat /\ top \in Nat
                         /\ p = 2 * x /\ x >= 2 /\ p >= 4 /\ z >= 1 /\ top >= 1
                         /\ z = p * (p * x) /\ top = p * z /\ Code!Word = 2 * top BY HalfIs
<1>2. /\ s \in Code!Decoder /\ c \in Nat /\ c < p /\ d \in Nat /\ d < p /\ e \in Nat /\ e < p
      /\ s.working = e BY <1>1 DEF Window
<1>3. PICK i \in Nat, j \in Nat : j < 2 /\ e = 2 * i + j /\ s.low = ((0 * p + c) * p + d) * x + i
  BY <1>1 DEF Window
<1>4. PICK f : f = Code!NextByte(s) OBVIOUS
<1>5. f \in Nat /\ f < p BY <1>1, <1>2, <1>4, NextIs
<1>6. PICK k, l \in Nat : l < 2 /\ f = 2 * k + l BY <1>5, HalvesIs
<1>7. Code!Kept(s) = j * x + k
  <2>1. s.working = 2 * i + j /\ Code!NextByte(s) = 2 * k + l BY <1>2, <1>3, <1>4, <1>6
  <2>2. i \in Nat /\ j \in Nat /\ j < 2 /\ k \in Nat /\ l \in Nat /\ l < 2 BY <1>3, <1>6
  <2>3. Code!Kept(s) = j * Half_ + k BY <2>1, <2>2, KeptIs
  <2> QED BY <1>1, <2>3
<1>8. k < x BY <1>1, <1>5, <1>6
<1>9. PICK m : m = c * p + d OBVIOUS
<1>10. PICK n : n = m * p + e OBVIOUS
<1>11. m \in Nat /\ n \in Nat /\ n = (c * p + d) * p + e
  <2>1. m \in Nat BY <1>1, <1>2, <1>9
  <2>2. n \in Nat BY <1>1, <1>2, <1>10, <2>1
  <2> QED BY <1>9, <1>10, <2>1, <2>2
<1>12. s.low = m * x + i
  <2>1. 0 * p + c = c BY <1>1, <1>2
  <2> QED BY <1>3, <1>9, <2>1
<1>13. (m * x + i) * p + (j * x + k) = n * x + k
  <2>1. PICK y : y = m * x OBVIOUS
  <2>2. y \in Nat BY <1>1, <1>11, <2>1
  <2>3. (y + i) * p + (j * x + k) = y * p + (i * p + j * x) + k BY <1>1, <1>3, <1>6, <2>2
  <2>4. i * p + j * x = (2 * i + j) * x BY <1>1, <1>3
  <2>5. y * p = (m * p) * x BY <1>1, <1>11, <2>1
  <2>6. PICK u : u = m * p OBVIOUS
  <2>7. u \in Nat BY <1>1, <1>11, <2>6
  <2>8. (u + e) * x = u * x + e * x BY <1>1, <1>2, <2>7
  <2>9. n = u + e /\ y * p = u * x /\ i * p + j * x = e * x BY <1>3, <1>10, <2>4, <2>5, <2>6
  <2>10. PICK g, h : g = u * x /\ h = e * x OBVIOUS
  <2>11. g \in Nat /\ h \in Nat BY <1>1, <1>2, <2>7, <2>10
  <2>12. (y + i) * p + (j * x + k) = g + h + k BY <2>3, <2>9, <2>10
  <2>13. n * x = g + h BY <2>8, <2>9, <2>10
  <2> QED BY <2>1, <2>12, <2>13
<1>14. n * x + k + 1 <= top
  <2>1. PICK a_, b_ : a_ = p * p /\ b_ = a_ * p OBVIOUS
  <2>2. a_ \in Nat BY <1>1, <2>1
  <2>3. b_ \in Nat BY <1>1, <2>1, <2>2
  <2>4. m + 1 <= a_ BY <1>1, <1>2, <1>9, <2>1, DigitFits
  <2>5. n + 1 <= b_ BY <1>1, <1>2, <1>10, <1>11, <2>1, <2>2, <2>4, DigitFits
  <2>6. n * x + k + 1 <= b_ * x BY <1>1, <1>6, <1>8, <1>11, <2>3, <2>5, DigitFits
  <2>7. b_ * x = top
    <3>1. PICK y : y = p * x OBVIOUS
    <3>2. y \in Nat BY <1>1, <3>1
    <3>3. top = p * (p * y) BY <1>1, <3>1
    <3>4. (a_ * p) * x = a_ * y BY <1>1, <2>2, <3>1
    <3>5. (p * p) * y = p * (p * y) BY <1>1, <3>2
    <3> QED BY <2>1, <3>3, <3>4, <3>5
  <2> QED BY <2>6, <2>7
<1>15. (s.low * Code!Byte + Code!Kept(s)) % Code!Word = n * x + k
  <2>1. PICK w, u : w = n * x + k /\ u = 2 * top OBVIOUS
  <2>2. w \in Nat /\ u \in Nat /\ w < u
    <3>1. PICK y : y = n * x OBVIOUS
    <3>2. y \in Nat BY <1>1, <1>11, <3>1
    <3> QED BY <1>1, <1>6, <1>14, <2>1, <3>1, <3>2
  <2>3. DividesTo(w, 0, u, w) BY <2>2 DEF DividesTo
  <2>4. w % u = w BY <2>3, DivGoes
  <2>5. s.low * p + Code!Kept(s) = w BY <1>7, <1>12, <1>13, <2>1
  <2> QED BY <1>1, <2>1, <2>4, <2>5
<1>16. PICK g : g = Code!Grown(s) OBVIOUS
<1>17. g \in Code!Decoder /\ g.low = n * x + k /\ g.high = s.high * Code!Byte /\ g.working = f
       /\ g.input = Drop(s.input) /\ g.output = s.output
  <2>1. g \in Code!Decoder /\ g.high = s.high * Code!Byte
    BY <1>2, <1>16, GrownType, GrownHigh
  <2>2. g = [low |-> (s.low * Code!Byte + Code!Kept(s)) % Code!Word,
             high |-> (s.high * Code!Byte) % Code!Word,
             working |-> Code!NextByte(s), input |-> Drop(s.input), output |-> s.output]
    BY <1>2, <1>16, GrownFields
  <2>3. g.low = (s.low * Code!Byte + Code!Kept(s)) % Code!Word /\ g.working = Code!NextByte(s)
        /\ g.input = Drop(s.input) /\ g.output = s.output BY <2>2
  <2> QED BY <1>4, <1>15, <2>1, <2>3
<1>18. g.low = ((c * p + d) * p + e) * x + k BY <1>11, <1>17
<1>19. Window(g, c, d, e, f) BY <1>1, <1>2, <1>5, <1>6, <1>17, <1>18 DEF Window
<1> QED BY <1>4, <1>16, <1>17, <1>19

(* A symbol is the first of the three bytes. *)
LEMMA SymbolOf ==
  ASSUME Even, NEW s \in Code!Decoder, NEW g, Code!readBytes_(s) = g,
         NEW b_, NEW c, NEW d, NEW e, Window(g, b_, c, d, e), g.high = Code!TOP_VALUE
  PROVE  LET t == Code!decodeSymbol_(s)
         IN  /\ Window(t, 0, c, d, e) /\ t.high = Bottom
             /\ t.input = g.input /\ t.output = Append(g.output, b_)
<1>0. Tabled /\ ByteBits \in 2..8 BY TotalIs DEF Even
<1>1. PICK p, x, z, top : /\ p = Code!Byte /\ x = Half_ /\ z = Bottom /\ top = Code!TOP_VALUE
                         /\ p \in Nat /\ x \in Nat /\ z \in Nat /\ top \in Nat
                         /\ p = 2 * x /\ x >= 2 /\ p >= 4 /\ z >= 1 /\ top >= 1
                         /\ z = p * (p * x) /\ top = p * z /\ Code!Word = 2 * top
  BY <1>0, HalfIs
<1>2. /\ g \in Code!Decoder /\ b_ \in Nat /\ b_ < p /\ c \in Nat /\ c < p /\ d \in Nat /\ d < p
      /\ e \in Nat /\ e < p /\ g.working = e BY <1>1 DEF Window
<1>3. PICK i \in Nat, j \in Nat : j < 2 /\ e = 2 * i + j /\ g.low = ((b_ * p + c) * p + d) * x + i
  BY <1>1 DEF Window
<1>4. i < x BY <1>1, <1>2, <1>3
<1>5. PICK m, r : m = c * p + d /\ r = m * x + i OBVIOUS
<1>6. m \in Nat BY <1>1, <1>2, <1>5
<1>7. r \in Nat BY <1>1, <1>3, <1>5, <1>6
<1>8. r < z
  <2>1. PICK a_ : a_ = p * p OBVIOUS
  <2>2. a_ \in Nat BY <1>1, <2>1
  <2>3. m + 1 <= a_ BY <1>1, <1>2, <1>5, <2>1, DigitFits
  <2>4. m * x + i + 1 <= a_ * x BY <1>1, <1>3, <1>4, <1>6, <2>2, <2>3, DigitFits
  <2>5. (p * p) * x = p * (p * x) BY <1>1
  <2>6. a_ * x = z BY <1>1, <2>1, <2>5
  <2> QED BY <1>1, <1>5, <1>7, <2>4, <2>6
<1>9. g.low = b_ * z + r
  <2>1. PICK u : u = b_ * p OBVIOUS
  <2>2. u \in Nat BY <1>1, <1>2, <2>1
  <2>3. (u + c) * p + d = u * p + m BY <1>1, <1>2, <1>5, <2>2
  <2>4. PICK w : w = u * p OBVIOUS
  <2>5. w \in Nat BY <1>1, <2>2, <2>4
  <2>6. (w + m) * x = w * x + m * x BY <1>1, <1>6, <2>5
  <2>7. w * x = b_ * z
    <3>1. PICK y : y = p * x OBVIOUS
    <3>2. y \in Nat BY <1>1, <3>1
    <3>3. (u * p) * x = u * y BY <1>1, <2>2, <3>1
    <3>4. (b_ * p) * y = b_ * (p * y) BY <1>1, <1>2, <3>2
    <3> QED BY <1>1, <2>1, <2>4, <3>1, <3>3, <3>4
  <2>8. g.low = (w + m) * x + i BY <1>3, <2>1, <2>3, <2>4
  <2>9. PICK h, q : h = b_ * z /\ q = m * x OBVIOUS
  <2>10. h \in Nat /\ q \in Nat BY <1>1, <1>2, <1>6, <2>9
  <2>11. g.low = (h + q) + i /\ r = q + i BY <1>5, <2>6, <2>7, <2>8, <2>9
  <2> QED BY <1>3, <2>9, <2>10, <2>11
<1>10. DividesTo(g.low, b_, z, r) BY <1>1, <1>2, <1>7, <1>8, <1>9 DEF DividesTo
<1>11. g.low \div z = b_ /\ g.low \in Nat BY <1>10, DivGoes
<1>12. top \div p = z
  <2>1. top = z * p + 0 BY <1>1
  <2>2. DividesTo(top, z, p, 0) BY <1>1, <2>1 DEF DividesTo
  <2> QED BY <2>2, DivGoes
<1>13. Symbol(g) = b_
  <2>1. g.high \div Code!Byte = z BY <1>1, <1>12
  <2>2. Symbol(g) = IF b_ >= p THEN p - 1 ELSE b_ BY <1>1, <1>11, <2>1 DEF Symbol
  <2> QED BY <1>1, <1>2, <2>2
<1>14. b_ \in Symbols /\ Part(b_, b_, 1, p)
  <2>1. b_ \in 0..p - 1 BY <1>1, <1>2
  <2> QED BY <1>1, <2>1, EvenPart
<1>15. Code!Low(b_) = b_ /\ Code!Narrowed(top, z, b_) = z
  <2>1. Code!Narrowed(top, z, b_) = z * 1 BY <1>1, <1>14, NarrowedIs
  <2>2. z * 1 = z BY <1>1
  <2> QED BY <1>14, <2>1, <2>2 DEF Part
<1>16. g.low - z * b_ = r
  <2>1. PICK h : h = b_ * z OBVIOUS
  <2>2. h \in Nat /\ z * b_ = h BY <1>1, <1>2, <2>1
  <2> QED BY <1>7, <1>9, <2>1, <2>2
<1>17. PICK t : t = Code!decodeSymbol_(s) OBVIOUS
<1>18. t = [low |-> r, high |-> z, working |-> g.working, input |-> g.input, output |-> Append(g.output, b_)]
  <2>1. t = [low |-> g.low - z * Code!Low(b_), high |-> Code!Narrowed(g.high, z, b_),
             working |-> g.working, input |-> g.input, output |-> Append(g.output, b_)]
    <3>1. PICK u, y : u = g.high \div Code!Byte /\ y = Symbol(g) OBVIOUS
    <3>2. g = Code!readBytes_(s) /\ g \in Code!Decoder /\ t = Code!decodeSymbol_(s)
      BY <1>2, <1>17
    <3>3. t = [low |-> g.low - u * Code!Low(y), high |-> Code!Narrowed(g.high, u, y),
               working |-> g.working, input |-> g.input, output |-> Append(g.output, y)]
      BY <1>0, <3>1, <3>2, DecodedFields
    <3>4. u = z /\ y = b_
      <4>1. g.high = top BY <1>1
      <4> QED BY <1>1, <1>12, <1>13, <3>1, <4>1
    <3> QED BY <3>3, <3>4
  <2> QED BY <1>1, <1>15, <1>16, <2>1
<1>19. t \in Code!Decoder BY <1>17, DecodedType
<1>20. Window(t, 0, c, d, e)
  <2>1. ((0 * p + c) * p + d) * x + i = r
    <3>1. 0 * p + c = c BY <1>1, <1>2
    <3> QED BY <1>5, <3>1
  <2>2. t.low = ((0 * p + c) * p + d) * x + i /\ t.working = e BY <1>2, <1>18, <2>1
  <2>3. 0 \in Nat /\ 0 < p BY <1>1
  <2> QED BY <1>1, <1>2, <1>3, <1>19, <2>2, <2>3 DEF Window
<1> QED BY <1>1, <1>17, <1>18, <1>20

(* Once it has decoded a byte, the decoder reads one more before the next. *)
LEMMA HeadRead ==
  ASSUME ByteBits \in 2..8, NEW s, NEW c, NEW d, NEW e, Window(s, 0, c, d, e), s.high = Bottom
  PROVE  LET g == Code!Grown(s)
         IN  /\ Code!readBytes_(s) = g /\ Window(g, c, d, e, Code!NextByte(s))
             /\ g.high = Code!TOP_VALUE /\ g.input = Drop(s.input) /\ g.output = s.output
<1>1. PICK p, x, z, top : /\ p = Code!Byte /\ x = Half_ /\ z = Bottom /\ top = Code!TOP_VALUE
                         /\ p \in Nat /\ x \in Nat /\ z \in Nat /\ top \in Nat
                         /\ p = 2 * x /\ x >= 2 /\ p >= 4 /\ z >= 1 /\ top >= 1
                         /\ z = p * (p * x) /\ top = p * z /\ Code!Word = 2 * top BY HalfIs
<1>2. s.high <= Bottom BY <1>1
<1>3. PICK g : g = Code!Grown(s) OBVIOUS
<1>4. Window(g, c, d, e, Code!NextByte(s)) /\ g.high = s.high * Code!Byte
      /\ g.input = Drop(s.input) /\ g.output = s.output BY <1>2, <1>3, GrownGoes
<1>5. g.high = top /\ top > z
  <2>1. z * p = p * z /\ p * z >= 4 * z BY <1>1
  <2>2. g.high = z * p BY <1>1, <1>4
  <2>3. top >= 4 * z /\ g.high = top BY <1>1, <2>1, <2>2
  <2>4. top > z
    <3>1. top \in Nat /\ z \in Nat /\ z >= 1 BY <1>1
    <3> QED BY <2>3, <3>1
  <2> QED BY <2>3, <2>4
<1>6. s \in Code!Decoder /\ g \in Code!Decoder BY <1>4 DEF Window
<1>7. Code!readBytes_(g) = g BY <1>1, <1>5, <1>6, ReadStep
<1>8. Code!readBytes_(s) = Code!readBytes_(g) BY <1>2, <1>3, <1>6, ReadStep
<1> QED BY <1>1, <1>3, <1>4, <1>5, <1>7, <1>8

LEMMA HeadStep ==
  ASSUME Even, NEW s, NEW c, NEW d, NEW e, Window(s, 0, c, d, e), s.high = Bottom
  PROVE  LET t == Code!decodeSymbol_(s)
         IN  /\ Window(t, 0, d, e, Code!NextByte(s)) /\ t.high = Bottom
             /\ t.input = Drop(s.input) /\ t.output = Append(s.output, c)
<1>0. ByteBits \in 2..8 BY TotalIs DEF Even
<1>1. PICK g, f : g = Code!Grown(s) /\ f = Code!NextByte(s) OBVIOUS
<1>2. Code!readBytes_(s) = g /\ Window(g, c, d, e, f)
      /\ g.high = Code!TOP_VALUE /\ g.input = Drop(s.input) /\ g.output = s.output
  BY <1>0, <1>1, HeadRead
<1>3. s \in Code!Decoder BY DEF Window
<1>4. PICK t : t = Code!decodeSymbol_(s) OBVIOUS
<1>5. Window(t, 0, d, e, f) /\ t.high = Bottom /\ t.input = g.input /\ t.output = Append(g.output, c)
  BY <1>2, <1>3, <1>4, SymbolOf
<1> QED BY <1>1, <1>2, <1>4, <1>5

(* What a decoder has left of its input, after n bytes of y. *)
Left(input, y, n) ==
  Len(input) + n = Len(y) /\ \A k \in 1..Len(input) : input[k] = y[n + k]

LEMMA LeftStep ==
  ASSUME ByteBits \in 2..8, NEW s \in Code!Decoder, NEW y, NEW n \in Nat, Left(s.input, y, n), n < Len(y)
  PROVE  Left(Drop(s.input), y, n + 1) /\ Code!NextByte(s) = y[n + 1]
<1>1. PICK i : i = s.input OBVIOUS
<1>2. i \in Seq(0..Code!Byte - 1) BY <1>1, DecoderIs
<1>3. Len(i) \in Nat /\ Len(i) + n = Len(y) /\ \A k \in 1..Len(i) : i[k] = y[n + k]
  BY <1>1, <1>2 DEF Left
<1>4. i # <<>> BY <1>2, <1>3
<1>5. Drop(i) = Tail(i) /\ Code!NextByte(s) = i[1] BY <1>1, <1>4 DEF Drop, Code!NextByte
<1>6. PICK t : t = Tail(i) OBVIOUS
<1>7. Len(t) = Len(i) - 1 /\ \A k \in 1..Len(t) : t[k] = i[k + 1] BY <1>2, <1>4, <1>6
<1>8. Len(i) >= 1 BY <1>2, <1>4
<1>9. Len(t) + (n + 1) = Len(y)
  <2>1. PICK l, m, u : l = Len(i) /\ m = Len(t) /\ u = Len(y) OBVIOUS
  <2>2. l \in Nat /\ l + n = u /\ m = l - 1 BY <1>3, <1>7, <2>1
  <2>3. m + (n + 1) = u BY <2>2
  <2> QED BY <2>1, <2>3
<1>10. ASSUME NEW k \in 1..Len(t) PROVE t[k] = y[(n + 1) + k]
  <2>1. k + 1 \in 1..Len(i) /\ n + (k + 1) = (n + 1) + k BY <1>3, <1>7, <1>8
  <2>2. i[k + 1] = y[n + (k + 1)] BY <1>3, <2>1
  <2> QED BY <1>7, <2>1, <2>2
<1>11. i[1] = y[n + 1] BY <1>3, <1>8
<1> QED BY <1>1, <1>5, <1>6, <1>9, <1>10, <1>11 DEF Left

(* A decoder that has decoded i bytes of y, and reads on. *)
DecodedTo(s, y, i) ==
  /\ i \in Nat /\ i >= 1 /\ Len(y) \in Nat /\ i + 3 <= Len(y)
  /\ Window(s, 0, y[i + 1], y[i + 2], y[i + 3]) /\ s.high = Bottom
  /\ Left(s.input, y, i + 3)
  /\ Len(s.output) = i /\ \A k \in 1..i : s.output[k] = y[k]

LEMMA AfterStep ==
  ASSUME Even, NEW s, NEW y, NEW i, DecodedTo(s, y, i), s.input # <<>>
  PROVE  DecodedTo(Code!decodeSymbol_(s), y, i + 1)
<1>0. ByteBits \in 2..8 BY TotalIs DEF Even
<1>1. PICK c, d, e, n, f, t : c = y[i + 1] /\ d = y[i + 2] /\ e = y[i + 3] /\ n = i + 3
                              /\ f = Code!NextByte(s) /\ t = Code!decodeSymbol_(s) OBVIOUS
<1>2. /\ i \in Nat /\ i >= 1 /\ Len(y) \in Nat /\ n <= Len(y) /\ Window(s, 0, c, d, e) /\ s.high = Bottom
      /\ Left(s.input, y, n) /\ Len(s.output) = i /\ \A k \in 1..i : s.output[k] = y[k]
  BY <1>1 DEF DecodedTo
<1>3. s \in Code!Decoder BY <1>2 DEF Window
<1>4. s.input \in Seq(0..Code!Byte - 1) /\ s.output \in Seq(0..Code!Byte - 1)
  BY <1>0, <1>3, DecoderIs
<1>5. n < Len(y)
  <2>1. PICK x : x = s.input OBVIOUS
  <2>2. x \in Seq(0..Code!Byte - 1) /\ x # <<>> BY <1>4, <2>1
  <2>3. Len(x) \in Nat /\ Len(x) >= 1 BY <2>2
  <2>4. Len(x) + n = Len(y) BY <1>2, <2>1 DEF Left
  <2> QED BY <1>1, <1>2, <2>3, <2>4
<1>6. n \in Nat BY <1>1, <1>2
<1>7. Left(Drop(s.input), y, n + 1) /\ f = y[n + 1]
  BY <1>0, <1>1, <1>2, <1>3, <1>5, <1>6, LeftStep
<1>8. Window(t, 0, d, e, f) /\ t.high = Bottom /\ t.input = Drop(s.input) /\ t.output = Append(s.output, c)
  BY <1>1, <1>2, HeadStep
<1>9. Len(t.output) = i + 1 /\ \A k \in 1..i + 1 : t.output[k] = y[k]
  <2>1. PICK o, q : o = s.output /\ q = t.output OBVIOUS
  <2>2. o \in Seq(0..Code!Byte - 1) /\ q = Append(o, c) /\ Len(o) = i /\ \A k \in 1..i : o[k] = y[k]
    BY <1>2, <1>4, <1>8, <2>1
  <2>3. Len(q) = i + 1 /\ q[i + 1] = c /\ \A k \in 1..i : q[k] = o[k] BY <1>2, <2>2
  <2>4. ASSUME NEW k \in 1..i + 1 PROVE q[k] = y[k]
    <3>1. k \in 1..i \/ k = i + 1 BY <1>2
    <3> QED BY <1>1, <2>2, <2>3, <3>1
  <2> QED BY <2>1, <2>3, <2>4
<1>10. d = y[(i + 1) + 1] /\ e = y[(i + 1) + 2] /\ f = y[(i + 1) + 3] /\ n + 1 = (i + 1) + 3
  <2>1. (i + 1) + 1 = i + 2 /\ (i + 1) + 2 = i + 3 /\ (i + 1) + 3 = n + 1 BY <1>1, <1>2
  <2> QED BY <1>1, <1>7, <2>1
<1>11. i + 1 \in Nat /\ i + 1 >= 1 /\ (i + 1) + 3 <= Len(y) BY <1>1, <1>2, <1>5
<1>12. DecodedTo(t, y, i + 1) BY <1>2, <1>7, <1>8, <1>9, <1>10, <1>11 DEF DecodedTo
<1> QED BY <1>1, <1>12

(* The first byte, which needs three more. *)
Begins(s, y) ==
  /\ Len(y) \in Nat /\ Len(y) >= 4 /\ Window(s, 0, 0, 0, y[1]) /\ s.high = Half_
  /\ Left(s.input, y, 1) /\ s.output = <<>>

LEMMA FirstStep ==
  ASSUME Even, NEW s, NEW y, Begins(s, y)
  PROVE  DecodedTo(Code!decodeSymbol_(s), y, 1)
<1>0. ByteBits \in 2..8 BY TotalIs DEF Even
<1>1. PICK p, x, z, top : /\ p = Code!Byte /\ x = Half_ /\ z = Bottom /\ top = Code!TOP_VALUE
                         /\ p \in Nat /\ x \in Nat /\ z \in Nat /\ top \in Nat
                         /\ p = 2 * x /\ x >= 2 /\ p >= 4 /\ z >= 1 /\ top >= 1
                         /\ z = p * (p * x) /\ top = p * z /\ Code!Word = 2 * top
  BY <1>0, HalfIs
<1>2. PICK w : w = p * x OBVIOUS
<1>3. w \in Nat /\ x <= w /\ w <= z /\ z < top /\ z = p * w /\ x * p = w /\ w * p = z /\ z * p = top
  <2>1. w \in Nat BY <1>1, <1>2
  <2>2. p * x >= 4 * x /\ p * w >= 4 * w /\ p * z >= 4 * z BY <1>1, <2>1
  <2>3. x * p = p * x /\ w * p = p * w /\ z * p = p * z BY <1>1, <2>1
  <2> QED BY <1>1, <1>2, <2>1, <2>2, <2>3
<1>4. /\ Len(y) \in Nat /\ Len(y) >= 4 /\ Window(s, 0, 0, 0, y[1]) /\ s.high = x
      /\ Left(s.input, y, 1) /\ s.output = <<>> BY <1>1 DEF Begins
<1>5. PICK t1, t2, t3 : t1 = Code!Grown(s) /\ t2 = Code!Grown(t1) /\ t3 = Code!Grown(t2)
  OBVIOUS
<1>6. Window(t1, 0, 0, y[1], y[2]) /\ t1.high = w /\ Left(t1.input, y, 2) /\ t1.output = <<>>
      /\ Code!readBytes_(s) = Code!readBytes_(t1)
  <2>0. s.high <= Bottom BY <1>1, <1>3, <1>4
  <2>1. s \in Code!Decoder /\ s.high <= Bottom BY <1>4, <2>0 DEF Window
  <2>2. Left(Drop(s.input), y, 1 + 1) /\ Code!NextByte(s) = y[1 + 1]
    <3>1. PICK n : n = 1 OBVIOUS
    <3>2. n \in Nat /\ n < Len(y) /\ Left(s.input, y, n) BY <1>4, <3>1
    <3>3. Left(Drop(s.input), y, n + 1) /\ Code!NextByte(s) = y[n + 1]
      BY <1>0, <2>1, <3>2, LeftStep
    <3> QED BY <3>1, <3>3
  <2>3. 1 + 1 = 2 OBVIOUS
  <2>4. Window(t1, 0, 0, y[1], Code!NextByte(s)) /\ t1.high = s.high * Code!Byte
        /\ t1.input = Drop(s.input) /\ t1.output = s.output
    BY <1>0, <1>4, <1>5, <2>1, GrownGoes
  <2>5. Code!readBytes_(s) = Code!readBytes_(t1) BY <1>0, <1>5, <2>1, ReadStep
  <2> QED BY <1>1, <1>3, <1>4, <2>2, <2>3, <2>4, <2>5
<1>7. Window(t2, 0, y[1], y[2], y[3]) /\ t2.high = z /\ Left(t2.input, y, 3) /\ t2.output = <<>>
      /\ Code!readBytes_(t1) = Code!readBytes_(t2)
  <2>0. t1.high <= Bottom BY <1>1, <1>3, <1>6
  <2>1. t1 \in Code!Decoder /\ t1.high <= Bottom BY <1>6, <2>0 DEF Window
  <2>2. Left(Drop(t1.input), y, 2 + 1) /\ Code!NextByte(t1) = y[2 + 1]
    <3>1. PICK n : n = 2 OBVIOUS
    <3>2. n \in Nat /\ n < Len(y) /\ Left(t1.input, y, n) BY <1>4, <1>6, <3>1
    <3>3. Left(Drop(t1.input), y, n + 1) /\ Code!NextByte(t1) = y[n + 1]
      BY <1>0, <2>1, <3>2, LeftStep
    <3> QED BY <3>1, <3>3
  <2>3. 2 + 1 = 3 OBVIOUS
  <2>4. Window(t2, 0, y[1], y[2], Code!NextByte(t1)) /\ t2.high = t1.high * Code!Byte
        /\ t2.input = Drop(t1.input) /\ t2.output = t1.output
    BY <1>0, <1>5, <1>6, <2>1, GrownGoes
  <2>5. Code!readBytes_(t1) = Code!readBytes_(t2) BY <1>0, <1>5, <2>1, ReadStep
  <2> QED BY <1>1, <1>3, <1>6, <2>2, <2>3, <2>4, <2>5
<1>8. Window(t3, y[1], y[2], y[3], y[4]) /\ t3.high = top /\ Left(t3.input, y, 4) /\ t3.output = <<>>
      /\ Code!readBytes_(t2) = t3
  <2>1. t2 \in Code!Decoder /\ t2.high = Bottom BY <1>1, <1>7 DEF Window
  <2>2. Left(Drop(t2.input), y, 3 + 1) /\ Code!NextByte(t2) = y[3 + 1]
    <3>1. PICK n : n = 3 OBVIOUS
    <3>2. n \in Nat /\ n < Len(y) /\ Left(t2.input, y, n) BY <1>4, <1>7, <3>1
    <3>3. Left(Drop(t2.input), y, n + 1) /\ Code!NextByte(t2) = y[n + 1]
      BY <1>0, <2>1, <3>2, LeftStep
    <3> QED BY <3>1, <3>3
  <2>3. 3 + 1 = 4 OBVIOUS
  <2>4. Code!readBytes_(t2) = t3 /\ Window(t3, y[1], y[2], y[3], Code!NextByte(t2))
        /\ t3.high = Code!TOP_VALUE /\ t3.input = Drop(t2.input) /\ t3.output = t2.output
    BY <1>0, <1>5, <1>7, <2>1, HeadRead
  <2> QED BY <1>1, <1>7, <2>2, <2>3, <2>4
<1>9. s \in Code!Decoder /\ Code!readBytes_(s) = t3 BY <1>4, <1>6, <1>7, <1>8 DEF Window
<1>10. PICK t, c, d, e, f : t = Code!decodeSymbol_(s) /\ c = y[1] /\ d = y[2] /\ e = y[3] /\ f = y[4]
  OBVIOUS
<1>11. Window(t3, c, d, e, f) /\ t3.high = Code!TOP_VALUE BY <1>1, <1>8, <1>10
<1>12. Window(t, 0, d, e, f) /\ t.high = Bottom /\ t.input = t3.input /\ t.output = Append(t3.output, c)
  BY <1>9, <1>10, <1>11, SymbolOf
<1>13. Len(t.output) = 1 /\ \A k \in 1..1 : t.output[k] = y[k]
  <2>1. t.output = <<c>> BY <1>8, <1>12
  <2> QED BY <1>10, <2>1
<1>14. 1 + 1 = 2 /\ 1 + 2 = 3 /\ 1 + 3 = 4 /\ 1 \in Nat /\ 1 >= 1 /\ 1 + 3 <= Len(y) BY <1>4
<1>15. DecodedTo(t, y, 1) BY <1>4, <1>8, <1>10, <1>12, <1>13, <1>14 DEF DecodedTo
<1> QED BY <1>10, <1>15

(* The loop of decodeSymbols_. *)
Done == {s \in Code!Decoder : s.input = <<>>}
Decoding == [s \in Code!Decoder |-> IF s \in Done THEN s ELSE Code!decodeSymbol_(s)]
Decodes == [s \in Code!Decoder |-> AnyOf(EndsOf(s, Code!Decoder, Done, Decoding))]

LEMMA DecodesIs ==
  ASSUME Even
  PROVE  \E f : /\ \A s \in Code!Decoder : f[s] = IF s \in Done THEN s ELSE f[Decoding[s]]
                /\ \A s \in Code!Decoder : Code!decodeSymbols_(s) = f[s]
<1> DEFINE Is(f) == f = [s \in Code!Decoder |->
             IF s.input = <<>> THEN s ELSE f[Code!decodeSymbol_(s)]]
           normal == CHOOSE f : Is(f)
<1>0. \A s \in Code!Decoder : /\ s \in Done <=> s.input = <<>>
                              /\ s \notin Done => Decoding[s] = Code!decodeSymbol_(s)
  BY DEF Done, Decoding
<1>1. Decoding \in [Code!Decoder -> Code!Decoder]
  <2> SUFFICES ASSUME NEW s \in Code!Decoder, s \notin Done
               PROVE  Code!decodeSymbol_(s) \in Code!Decoder BY DEF Decoding
  <2> QED BY DecodedType
<1>2. \A s \in Code!Decoder : Decodes[s] = IF s \in Done THEN s ELSE Decodes[Decoding[s]]
  BY <1>1, LoopExists DEF Decodes
<1>3. Is(Decodes)
  <2> DEFINE g == [s \in Code!Decoder |->
                     IF s.input = <<>> THEN s ELSE Decodes[Code!decodeSymbol_(s)]]
  <2>1. ASSUME NEW s \in Code!Decoder PROVE Decodes[s] = g[s] BY <1>0, <1>2
  <2>2. DOMAIN g = Code!Decoder /\ g = [s \in Code!Decoder |-> g[s]] OBVIOUS
  <2>3. DOMAIN Decodes = Code!Decoder /\ Decodes = [s \in Code!Decoder |-> Decodes[s]]
    BY DEF Decodes
  <2> HIDE DEF g
  <2>4. Decodes = g BY <2>1, <2>2, <2>3
  <2> QED BY <2>4 DEF g
<1>4. Is(normal) BY <1>3
<1> HIDE DEF normal
<1>5. \A s \in Code!Decoder : normal[s] = IF s \in Done THEN s ELSE normal[Decoding[s]]
  BY <1>0, <1>4
<1>6. \A s \in Code!Decoder : Code!decodeSymbols_(s) = normal[s]
  BY DEF Code!decodeSymbols_, normal
<1> QED BY <1>5, <1>6

Decoded(y) == {s \in Code!Decoder : \E i : DecodedTo(s, y, i)}

(* The bytes of y but for the last three, and where it began, are decoded. *)
LEMMA DecodesAll ==
  ASSUME Even, NEW s, NEW y, Begins(s, y)
  PROVE  LET t == Code!decodeSymbols_(s)
         IN  t \in Code!Decoder /\ t.input = <<>> /\ \E i : DecodedTo(t, y, i)
<1>0. ByteBits \in 2..8 BY TotalIs DEF Even
<1>1. PICK f : /\ \A t \in Code!Decoder : f[t] = IF t \in Done THEN t ELSE f[Decoding[t]]
               /\ \A t \in Code!Decoder : Code!decodeSymbols_(t) = f[t] BY DecodesIs
<1> DEFINE J == Decoded(y)
           m == [t \in J |-> Len(t.input)]
<1>2. \A t \in J : t \in Code!Decoder /\ m[t] = Len(t.input) /\ Len(t.input) \in Nat
  <2> TAKE t \in J
  <2>1. t \in Code!Decoder BY DEF Decoded
  <2>2. t.input \in Seq(0..Code!Byte - 1) BY <1>0, <2>1, DecoderIs
  <2> QED BY <2>1, <2>2
<1>3. \A t \in J : t \in Done => f[t] = t BY <1>1, <1>2
<1>4. ASSUME NEW t \in J, t \notin Done
      PROVE  f[t] = f[Decoding[t]] /\ Decoding[t] \in J /\ m[Decoding[t]] < m[t]
  <2>1. PICK i : DecodedTo(t, y, i) BY DEF Decoded
  <2>2. PICK d : d = Code!decodeSymbol_(t) OBVIOUS
  <2>3. t \in Code!Decoder /\ t.input # <<>> BY <1>2, <1>4 DEF Done
  <2>4. DecodedTo(d, y, i + 1) BY <2>1, <2>2, <2>3, AfterStep
  <2>5. d \in Code!Decoder BY <2>2, <2>3, DecodedType
  <2>6. d \in J /\ Decoding[t] = d /\ f[t] = f[d]
    BY <1>1, <1>4, <2>2, <2>3, <2>4, <2>5 DEF Decoded, Decoding
  <2>7. Len(d.input) < Len(t.input)
    <3>1. PICK u, v, w : u = Len(d.input) /\ v = Len(t.input) /\ w = Len(y) OBVIOUS
    <3>2. u \in Nat /\ v \in Nat BY <1>2, <2>6, <3>1
    <3>3. i \in Nat /\ w \in Nat /\ v + (i + 3) = w /\ u + ((i + 1) + 3) = w
      BY <2>1, <2>4, <3>1 DEF DecodedTo, Left
    <3>4. u < v BY <3>2, <3>3
    <3> QED BY <3>1, <3>4
  <2> QED BY <1>2, <2>6, <2>7
<1>5. Loops(f, Done, J, Decoding, m)
  <2> HIDE DEF J, m
  <2>1. \A t \in J : m[t] \in Nat BY <1>2
  <2> QED BY <1>3, <1>4, <2>1 DEF Loops
<1>6. \A t \in J : f[t] \in J /\ f[t] \in Done
  <2> HIDE DEF J, m
  <2> QED BY <1>5, LoopEnds
<1>7. s \in Code!Decoder /\ s \notin Done
  <2>1. s \in Code!Decoder BY DEF Begins, Window
  <2>2. PICK x, w : x = s.input /\ w = Len(y) OBVIOUS
  <2>3. Len(x) + 1 = w /\ w \in Nat /\ w >= 4 BY <2>2 DEF Begins, Left
  <2>4. x # <<>>
    <3> SUFFICES ASSUME x = <<>> PROVE FALSE OBVIOUS
    <3>1. Len(x) = 0 OBVIOUS
    <3> QED BY <2>3, <3>1
  <2> QED BY <2>1, <2>2, <2>4 DEF Done
<1>8. PICK d : d = Code!decodeSymbol_(s) OBVIOUS
<1>9. d \in Code!Decoder /\ DecodedTo(d, y, 1) /\ Decoding[s] = d
  BY <1>7, <1>8, DecodedType, FirstStep DEF Decoding
<1>10. d \in J BY <1>9 DEF Decoded
<1>11. f[s] = f[d] BY <1>1, <1>7, <1>9
<1>12. f[d] \in Decoded(y) /\ f[d] \in Done BY <1>6, <1>10
<1>13. Code!decodeSymbols_(s) = f[d] BY <1>1, <1>7, <1>11
<1> QED BY <1>12, <1>13 DEF Decoded, Done

(* And one more, for which it reads a zero. *)
LEMMA LastStep ==
  ASSUME Even, NEW s, NEW y, NEW i, DecodedTo(s, y, i), s.input = <<>>
  PROVE  LET o == Code!readBytes_(Code!decodeSymbol_(s)).output
         IN  /\ o \in Seq(0..Code!Byte - 1) /\ Len(o) + 2 = Len(y)
             /\ \A k \in 1..Len(o) : o[k] = y[k]
<1>0. ByteBits \in 2..8 BY TotalIs DEF Even
<1>1. PICK c, d, e, f, t, n : c = y[i + 1] /\ d = y[i + 2] /\ e = y[i + 3] /\ n = i + 3
                           /\ f = Code!NextByte(s) /\ t = Code!decodeSymbol_(s) OBVIOUS
<1>2. /\ i \in Nat /\ Len(y) \in Nat /\ Window(s, 0, c, d, e) /\ s.high = Bottom
      /\ Left(s.input, y, n) /\ Len(s.output) = i /\ \A k \in 1..i : s.output[k] = y[k]
  BY <1>1 DEF DecodedTo
<1>3. s \in Code!Decoder BY <1>2 DEF Window
<1>4. s.output \in Seq(0..Code!Byte - 1) BY <1>0, <1>3, DecoderIs
<1>5. Len(y) = i + 3
  <2>1. PICK x, w : x = s.input /\ w = Len(y) OBVIOUS
  <2>2. x = <<>> BY <2>1
  <2>3. Len(x) = 0 BY <2>2
  <2>4. Len(x) + n = w BY <1>2, <2>1 DEF Left
  <2> QED BY <1>1, <1>2, <2>1, <2>3, <2>4
<1>6. Window(t, 0, d, e, f) /\ t.high = Bottom /\ t.output = Append(s.output, c)
  BY <1>1, <1>2, HeadStep
<1>7. PICK g : g = Code!Grown(t) OBVIOUS
<1>8. Code!readBytes_(t) = g /\ g.output = t.output BY <1>0, <1>6, <1>7, HeadRead
<1>9. t \in Code!Decoder BY <1>6 DEF Window
<1>10. t.output \in Seq(0..Code!Byte - 1) BY <1>0, <1>9, DecoderIs
<1>11. PICK o, q : o = s.output /\ q = t.output OBVIOUS
<1>12. o \in Seq(0..Code!Byte - 1) /\ q = Append(o, c) /\ Len(o) = i /\ \A k \in 1..i : o[k] = y[k]
  BY <1>2, <1>4, <1>6, <1>11
<1>13. Len(q) = i + 1 /\ q[i + 1] = c /\ \A k \in 1..i : q[k] = o[k] BY <1>2, <1>12
<1>14. \A k \in 1..Len(q) : q[k] = y[k]
  <2> TAKE k \in 1..Len(q)
  <2>1. k \in 1..i \/ k = i + 1 BY <1>2, <1>13
  <2> QED BY <1>1, <1>12, <1>13, <2>1
<1>15. Len(q) + 2 = Len(y)
  <2>1. PICK l, w : l = Len(q) /\ w = Len(y) OBVIOUS
  <2>2. l = i + 1 /\ w = i + 3 BY <1>5, <1>13, <2>1
  <2> QED BY <1>2, <2>1, <2>2
<1>16. Code!readBytes_(Code!decodeSymbol_(s)).output = q BY <1>1, <1>8, <1>11
<1> QED BY <1>10, <1>11, <1>14, <1>15, <1>16

(* A header, which the decoder skips, and bytes. *)
PrefixedBy(input, y) ==
  /\ input \in Seq(Nat) /\ y \in Seq(0..Code!Byte - 1) /\ Len(input) = Len(y) + 1 /\ Len(y) >= 4
  /\ \A k \in 1..Len(y) : input[k + 1] = y[k]

DecoderStart(input) ==
  [low |-> Code!Upper(input[2]), high |-> Half_, working |-> input[2],
   input |-> SubSeq(input, 3, Len(input)), output |-> <<>>]

LEMMA StartBegins ==
  ASSUME ByteBits \in 2..8, NEW input, NEW y, PrefixedBy(input, y)
  PROVE  Begins(DecoderStart(input), y)
<1>1. PICK p, x, n, m : p = Code!Byte /\ x = Half_ /\ n = Len(y) /\ m = Len(input) OBVIOUS
<1>2. p \in Nat /\ p >= 4 BY <1>1, ByteIs
<1>3. /\ input \in Seq(Nat) /\ y \in Seq(0..p - 1) /\ m = n + 1 /\ n \in Nat /\ n >= 4
      /\ \A k \in 1..n : input[k + 1] = y[k] BY <1>1 DEF PrefixedBy
<1>4. y[1] \in 0..p - 1 /\ input[2] = y[1]
  <2>1. PICK k : k = 1 OBVIOUS
  <2>2. k \in 1..n /\ k + 1 = 2 BY <1>3, <2>1
  <2>3. input[k + 1] = y[k] BY <1>3, <2>2
  <2>4. y[k] \in 0..p - 1
    <3>1. PICK S : S = 0..p - 1 OBVIOUS
    <3>2. y \in Seq(S) /\ k \in 1..Len(y) BY <1>1, <1>3, <2>2, <3>1
    <3>3. y[k] \in S BY <3>2
    <3> QED BY <3>1, <3>3
  <2> QED BY <2>1, <2>2, <2>3, <2>4
<1>5. PICK e : e = y[1] OBVIOUS
<1>6. e \in Nat /\ e < p BY <1>2, <1>4, <1>5
<1>7. PICK i, j \in Nat : j < 2 /\ e = 2 * i + j BY <1>6, HalvesIs
<1>8. Code!Upper(e) = i BY <1>7, UpperIs
<1>9. PICK r : r = SubSeq(input, 3, m) OBVIOUS
<1>10. Len(r) = n - 1 /\ r \in Seq(0..p - 1) /\ \A k \in 1..n - 1 : r[k] = y[1 + k]
  <2>1. \A k \in 3..m : input[k] \in 0..p - 1
    <3> TAKE k \in 3..m
    <3>1. k - 1 \in 1..n /\ (k - 1) + 1 = k BY <1>3
    <3>2. input[k] = y[k - 1] BY <1>3, <3>1
    <3>3. y[k - 1] \in 0..p - 1
      <4>1. PICK S, l : S = 0..p - 1 /\ l = k - 1 OBVIOUS
      <4>2. y \in Seq(S) /\ l \in 1..Len(y) BY <1>1, <1>3, <3>1, <4>1
      <4>3. y[l] \in S BY <4>2
      <4> QED BY <4>1, <4>3
    <3> QED BY <3>2, <3>3
  <2>2. 3 \in Int /\ m \in Int BY <1>3
  <2>3. PICK S : S = 0..p - 1 OBVIOUS
  <2>4. \A k \in 3..m : input[k] \in S BY <2>1, <2>3
  <2>5. r \in Seq(S) /\ Len(r) = (IF 3 <= m THEN m - 3 + 1 ELSE 0)
        /\ \A k \in 1..m - 3 + 1 : r[k] = input[3 + k - 1]
    BY <1>9, <2>2, <2>4, SubSeqProperties
  <2>6. Len(r) = n - 1 /\ m - 3 + 1 = n - 1 BY <1>3, <2>5
  <2>7. ASSUME NEW k \in 1..n - 1 PROVE r[k] = y[1 + k]
    <3>1. r[k] = input[3 + k - 1] BY <2>5, <2>6
    <3>2. 3 + k - 1 = (1 + k) + 1 /\ 1 + k \in 1..n BY <1>3
    <3> QED BY <1>3, <3>1, <3>2
  <2> QED BY <2>3, <2>5, <2>6, <2>7
<1>11. PICK s, o : s = DecoderStart(input) /\ o = <<>> OBVIOUS
<1>12. s = [low |-> i, high |-> x, working |-> e, input |-> r, output |-> o]
  <2>1. input[2] = e BY <1>4, <1>5
  <2> QED BY <1>1, <1>8, <1>9, <1>11, <2>1 DEF DecoderStart
<1>13. s \in Code!Decoder
  <2>1. Code!EXTRA_BITS \in 0..Code!CODE_BITS - 1
    <3>1. PICK b_ : b_ = ByteBits OBVIOUS
    <3>2. b_ \in 2..8 BY <3>1
    <3>3. (4 * b_ - 2) % b_ \in 0..b_ - 1 BY <3>2
    <3>4. Code!EXTRA_BITS = ((4 * b_ - 2) % b_) + 1 /\ Code!CODE_BITS = 4 * b_
      BY <3>1 DEF Code!EXTRA_BITS, Code!CODE_BITS
    <3> QED BY <3>2, <3>3, <3>4
  <2>2. x \in {Code!Two[k] : k \in 0..Code!CODE_BITS - 1} BY <1>1, <2>1 DEF Half_
  <2>3. i \in Nat /\ e \in 0..p - 1 /\ r \in Seq(0..p - 1) /\ o \in Seq(0..p - 1)
    BY <1>4, <1>5, <1>7, <1>10, <1>11
  <2> QED BY <1>1, <1>12, <2>2, <2>3 DEF Code!Decoder
<1>14. Window(s, 0, 0, 0, e)
  <2>1. 0 \in Nat /\ 0 < p BY <1>2
  <2>2. ((0 * p + 0) * p + 0) * x + i = i
    <3>1. x \in Nat BY <1>1, HalfIs
    <3>2. 0 * p + 0 = 0 BY <1>2
    <3>3. 0 * x + i = i BY <1>7, <3>1
    <3> QED BY <3>2, <3>3
  <2>3. s.low = ((0 * p + 0) * p + 0) * x + i /\ s.working = e BY <1>12, <2>2
  <2> QED BY <1>1, <1>6, <1>7, <1>13, <2>1, <2>3 DEF Window
<1>15. Left(s.input, y, 1)
  <2>1. s.input = r BY <1>12
  <2>2. (n - 1) + 1 = n BY <1>3
  <2> QED BY <1>1, <1>10, <2>1, <2>2 DEF Left
<1>16. s.high = x /\ s.output = <<>> BY <1>11, <1>12
<1> QED BY <1>1, <1>3, <1>5, <1>11, <1>14, <1>15, <1>16 DEF Begins

(* The bytes but for the last two are decoded. *)
LEMMA DecodeIs ==
  ASSUME Even, NEW input, NEW y, PrefixedBy(input, y)
  PROVE  LET o == Code!decode(input)
         IN  /\ o \in Seq(0..Code!Byte - 1) /\ Len(o) + 2 = Len(y)
             /\ \A k \in 1..Len(o) : o[k] = y[k]
<1>0. ByteBits \in 2..8 BY TotalIs DEF Even
<1>1. PICK s : s = DecoderStart(input) OBVIOUS
<1>2. Begins(s, y) BY <1>0, <1>1, StartBegins
<1>3. PICK t : t = Code!decodeSymbols_(s) OBVIOUS
<1>4. t.input = <<>> /\ \E i : DecodedTo(t, y, i) BY <1>2, <1>3, DecodesAll
<1>5. PICK i : DecodedTo(t, y, i) BY <1>4
<1>6. PICK o : o = Code!readBytes_(Code!decodeSymbol_(t)).output OBVIOUS
<1>7. o \in Seq(0..Code!Byte - 1) /\ Len(o) + 2 = Len(y) /\ \A k \in 1..Len(o) : o[k] = y[k]
  BY <1>4, <1>5, <1>6, LastStep
<1>8. Code!decode(input) = o BY <1>1, <1>3, <1>6 DEF Code!decode, DecoderStart, Half_
<1> QED BY <1>7, <1>8

Catenated(s, t, u) == s \in Seq(Nat) /\ t \in Seq(Nat) /\ u = s \o t
JoinedAs(s, t, u) ==
  /\ u \in Seq(Nat) /\ Len(u) = Len(s) + Len(t)
  /\ \A k \in 1..Len(s) : u[k] = s[k]
  /\ \A k \in 1..Len(t) : u[Len(s) + k] = t[k]

LEMMA Concats ==
  ASSUME NEW s, NEW t, NEW u, Catenated(s, t, u)
  PROVE  JoinedAs(s, t, u)
<1>0. s \in Seq(Nat) /\ t \in Seq(Nat) BY DEF Catenated
<1>01. Len(s) \in Nat /\ Len(t) \in Nat BY <1>0
<1>1. PICK n, m : n = Len(s) /\ m = Len(t) /\ n \in Nat /\ m \in Nat BY <1>01
<1>2. /\ u \in Seq(Nat) /\ Len(u) = Len(s) + Len(t)
      /\ \A i \in 1..Len(s) + Len(t) : u[i] = IF i <= Len(s) THEN s[i] ELSE t[i - Len(s)]
  BY <1>0, ConcatProperties DEF Catenated
<1>3. u \in Seq(Nat) /\ Len(u) = n + m /\ \A i \in 1..n + m : u[i] = IF i <= n THEN s[i] ELSE t[i - n]
  BY <1>1, <1>2
<1>4. \A k \in 1..n : u[k] = s[k]
  <2> TAKE k \in 1..n
  <2>1. k \in 1..n + m /\ k <= n BY <1>1
  <2> QED BY <1>3, <2>1
<1>5. \A k \in 1..m : u[n + k] = t[k]
  <2> TAKE k \in 1..m
  <2>1. n + k \in 1..n + m /\ ~(n + k <= n) /\ (n + k) - n = k BY <1>1
  <2> QED BY <1>3, <2>1
<1> QED BY <1>1, <1>3, <1>4, <1>5 DEF JoinedAs

(* What is decoded is put together: two zeros and two bytes of length follow. *)
LEMMA CoderKeeps == ASSUME Even, NEW p \in Seq(Symbols) PROVE Code!transform(p) = p
<1>0. Tabled /\ ByteBits \in 2..8 BY TotalIs DEF Even
<1>1. PICK q, h : q = Code!Byte /\ h = Code!Header OBVIOUS
<1>2. q \in Nat /\ q >= 4 /\ h \in Nat BY <1>0, <1>1, ByteIs, Sizes
<1>3. PICK S : S = 0..q - 1 OBVIOUS
<1>4. p \in Seq(S) /\ 0 \in S /\ S \subseteq Nat BY <1>1, <1>2, <1>3, EvenPart
<1>5. PICK n : n = Len(p) /\ n \in Nat OBVIOUS
<1>6. PICK v, w : v = (Len(p) \div q) % q /\ w = Len(p) % q OBVIOUS
<1>7. v \in S /\ w \in S
  <2>1. q >= 1 BY <1>2
  <2>2. PICK d \in Nat, r \in Nat : r < q /\ n = d * q + r /\ n \div q = d /\ n % q = r
    BY <1>2, <1>5, <2>1, DivHas
  <2>3. PICK d2 \in Nat, r2 \in Nat : r2 < q /\ d = d2 * q + r2 /\ d \div q = d2 /\ d % q = r2
    BY <1>2, <2>1, <2>2, DivHas
  <2>4. v = r2 /\ w = r BY <1>5, <1>6, <2>2, <2>3
  <2> QED BY <1>2, <1>3, <2>2, <2>3, <2>4
<1>8. PICK a_, b_, c : a_ = <<h>> /\ b_ = <<0, 0>> /\ c = <<v, w>> OBVIOUS
<1>9. PICK m1, m2, input : m1 = a_ \o p /\ m2 = m1 \o b_ /\ input = m2 \o c OBVIOUS
<1>10. /\ a_ \in Seq(Nat) /\ Len(a_) = 1 /\ p \in Seq(Nat)
       /\ b_ \in Seq(Nat) /\ Len(b_) = 2 /\ b_[1] = 0 /\ b_[2] = 0
       /\ c \in Seq(Nat) /\ Len(c) = 2 /\ c[1] = v /\ c[2] = w
  <2>1. p \in Seq(Nat)
    <3>1. p \in [1..n -> S] BY <1>4, <1>5
    <3>2. \A k \in 1..n : p[k] \in Nat BY <1>4, <3>1
    <3>3. p \in [1..n -> Nat] BY <3>1, <3>2
    <3> QED BY <1>5, <3>3
  <2>2. v \in Nat /\ w \in Nat BY <1>4, <1>7
  <2> QED BY <1>2, <1>8, <2>1, <2>2
<1>11. /\ m1 \in Seq(Nat) /\ Len(m1) = 1 + n /\ \A k \in 1..n : m1[1 + k] = p[k]
  <2>1. /\ m1 \in Seq(Nat) /\ Len(m1) = Len(a_) + Len(p)
        /\ \A k \in 1..Len(p) : m1[Len(a_) + k] = p[k]
    <3>1. Catenated(a_, p, m1) BY <1>9, <1>10 DEF Catenated
    <3>2. JoinedAs(a_, p, m1) BY <3>1, Concats
    <3> QED BY <3>2 DEF JoinedAs
  <2> QED BY <1>5, <1>10, <2>1
<1>12. /\ m2 \in Seq(Nat) /\ Len(m2) = n + 3 /\ \A k \in 1..n : m2[k + 1] = p[k]
       /\ m2[n + 2] = 0 /\ m2[n + 3] = 0
  <2>1. /\ m2 \in Seq(Nat) /\ Len(m2) = Len(m1) + Len(b_)
        /\ \A k \in 1..Len(m1) : m2[k] = m1[k]
        /\ \A k \in 1..Len(b_) : m2[Len(m1) + k] = b_[k]
    <3>1. Catenated(m1, b_, m2) BY <1>9, <1>10, <1>11 DEF Catenated
    <3>2. JoinedAs(m1, b_, m2) BY <3>1, Concats
    <3> QED BY <3>2 DEF JoinedAs
  <2>2. (1 + n) + 2 = n + 3 /\ (1 + n) + 1 = n + 2 BY <1>5
  <2>3. Len(m2) = n + 3 /\ m2[n + 2] = 0 /\ m2[n + 3] = 0
    <3>1. 1 \in 1..Len(b_) /\ 2 \in 1..Len(b_) BY <1>10
    <3>2. m2[(1 + n) + 1] = 0 /\ m2[(1 + n) + 2] = 0 /\ Len(m2) = (1 + n) + 2
      BY <1>10, <1>11, <2>1, <3>1
    <3> QED BY <2>2, <3>2
  <2>4. ASSUME NEW k \in 1..n PROVE m2[k + 1] = p[k]
    <3>1. k + 1 \in 1..Len(m1) /\ 1 + k = k + 1 BY <1>5, <1>11
    <3>2. m1[1 + k] = p[k] BY <1>11
    <3> QED BY <2>1, <3>1, <3>2
  <2> QED BY <2>1, <2>3, <2>4
<1>13. /\ input \in Seq(Nat) /\ Len(input) = n + 5 /\ \A k \in 1..n : input[k + 1] = p[k]
       /\ input[n + 2] = 0 /\ input[n + 3] = 0 /\ input[n + 4] = v /\ input[n + 5] = w
  <2>1. /\ input \in Seq(Nat) /\ Len(input) = Len(m2) + Len(c)
        /\ \A k \in 1..Len(m2) : input[k] = m2[k]
        /\ \A k \in 1..Len(c) : input[Len(m2) + k] = c[k]
    <3>1. Catenated(m2, c, input) BY <1>9, <1>10, <1>12 DEF Catenated
    <3>2. JoinedAs(m2, c, input) BY <3>1, Concats
    <3> QED BY <3>2 DEF JoinedAs
  <2>2. (n + 3) + 2 = n + 5 /\ (n + 3) + 1 = n + 4 BY <1>5
  <2>3. Len(input) = n + 5 /\ input[n + 4] = v /\ input[n + 5] = w
    <3>1. 1 \in 1..Len(c) /\ 2 \in 1..Len(c) BY <1>10
    <3>2. input[(n + 3) + 1] = v /\ input[(n + 3) + 2] = w /\ Len(input) = (n + 3) + 2
      BY <1>10, <1>12, <2>1, <3>1
    <3> QED BY <2>2, <3>2
  <2>4. n + 2 \in 1..Len(m2) /\ n + 3 \in 1..Len(m2) BY <1>5, <1>12
  <2>5. ASSUME NEW k \in 1..n PROVE input[k + 1] = p[k]
    <3>1. k + 1 \in 1..Len(m2) BY <1>5, <1>12
    <3> QED BY <1>12, <2>1, <3>1
  <2> QED BY <1>12, <2>1, <2>3, <2>4, <2>5
<1> DEFINE y == [k \in 1..n + 4 |-> input[k + 1]]
<1>14. y \in Seq(S) /\ Len(y) = n + 4 /\ \A k \in 1..n + 4 : y[k] = input[k + 1]
  <2>1. n + 4 \in Nat BY <1>5
  <2>2. ASSUME NEW k \in 1..n + 4 PROVE input[k + 1] \in S
    <3>1. CASE k \in 1..n BY <1>4, <1>5, <1>13, <3>1
    <3>2. CASE k \notin 1..n
      <4>1. k + 1 = n + 2 \/ k + 1 = n + 3 \/ k + 1 = n + 4 \/ k + 1 = n + 5 BY <1>5, <3>2
      <4> QED BY <1>4, <1>7, <1>13, <4>1
    <3> QED BY <3>1, <3>2
  <2>3. y \in [1..n + 4 -> S] BY <2>2
  <2> QED BY <2>1, <2>3
<1> HIDE DEF y
<1>15. PrefixedBy(input, y)
  <2>1. Len(input) = Len(y) + 1 /\ Len(y) >= 4
    <3>1. (n + 4) + 1 = n + 5 /\ n + 4 >= 4 BY <1>5
    <3> QED BY <1>13, <1>14, <3>1
  <2> QED BY <1>1, <1>3, <1>13, <1>14, <2>1 DEF PrefixedBy
<1>16. PICK o : o = Code!decode(input) OBVIOUS
<1>17. o \in Seq(S) /\ Len(o) + 2 = n + 4 /\ \A k \in 1..Len(o) : o[k] = y[k]
  BY <1>1, <1>3, <1>14, <1>15, <1>16, DecodeIs
<1>18. Len(o) = n + 2
  <2>1. Len(o) \in Nat BY <1>17
  <2> QED BY <1>5, <1>17, <2>1
<1>19. Code!transform(p) = SubSeq(o, 1, Len(o) - 2)
  BY <1>1, <1>6, <1>8, <1>9, <1>16 DEF Code!transform
<1>20. PICK z : z = SubSeq(o, 1, n) OBVIOUS
<1>21. z \in Seq(S) /\ Len(z) = n /\ \A k \in 1..n : z[k] = o[k]
  BY <1>5, <1>17, <1>18, <1>20
<1>22. \A k \in 1..n : z[k] = p[k]
  <2> TAKE k \in 1..n
  <2>1. k \in 1..Len(o) /\ k \in 1..n + 4 BY <1>5, <1>18
  <2> QED BY <1>13, <1>14, <1>17, <1>21, <2>1
<1>23. z = p BY <1>4, <1>5, <1>21, <1>22
<1>24. Len(o) - 2 = n BY <1>5, <1>18
<1> QED BY <1>19, <1>20, <1>23, <1>24

(* The codec: the symbols of a packet have frequencies. *)
ArithmeticInv == v1 \in Frequencies /\ v2 \in Seq(Symbols)

LEMMA ArithmeticInit == Code!Init => ArithmeticInv BY DEF Code!Init, ArithmeticInv

LEMMA ArithmeticStep == ArithmeticInv /\ [Code!Next]_Code!vars => ArithmeticInv'
<1> SUFFICES ASSUME ArithmeticInv, [Code!Next]_Code!vars PROVE ArithmeticInv' OBVIOUS
<1> USE DEF ArithmeticInv
<1>1. ASSUME NEW symbol \in Symbols, Code!Extend(symbol) PROVE ArithmeticInv'
  <2>1. v1' = v1 /\ v2' = Append(v2, symbol) BY <1>1 DEF Code!Extend
  <2>2. Symbols' = Symbols BY <2>1 DEF Symbols
  <2>3. v2' \in Seq(Symbols) BY <2>1
  <2> QED BY <2>1, <2>2, <2>3
<1>2. CASE UNCHANGED Code!vars BY <1>2 DEF Code!vars, Symbols
<1> QED BY <1>1, <1>2 DEF Code!Next, Symbols

LEMMA ArithmeticHolds == ArithmeticAssumption /\ ArithmeticInv => Code!CodesAgree
<1> SUFFICES ASSUME ArithmeticAssumption, ArithmeticInv PROVE Code!CodesAgree OBVIOUS
<1>1. Tabled /\ v2 \in Seq(Symbols) BY DEF ArithmeticInv, Tabled
<1>2. Code!EncodesLowEnd BY <1>1, EncodesLow
<1>3. Code!Restores
  <2> SUFFICES ASSUME v1 = Code!Times(Code!Byte, 1)
               PROVE  Code!restore(Code!transform(v2)) = v2 BY DEF Code!Restores
  <2>1. Even BY <1>1 DEF Even
  <2>2. Code!transform(v2) = v2 BY <1>1, <2>1, CoderKeeps
  <2>3. Code!restore(v2) = v2 BY <1>1, <2>1, EvenRestores
  <2> QED BY <2>2, <2>3
<1> QED BY <1>2, <1>3 DEF Code!CodesAgree

----------
(* The codecs together: the one that part names has its invariant. *)
CodecInv ==
  /\ part = "arithmetic" => ArithmeticInv
  /\ part = "headers" => HeadersInv
  /\ part = "fragments" => FragmentsInv
  /\ part = "protean" => ProteanInv
  /\ part = "zork" => ZorkInv

LEMMA CodecInitial == CodecsAssumption /\ MCInit => CodecInv
<1> SUFFICES ASSUME CodecsAssumption, MCInit PROVE CodecInv OBVIOUS
<1>1. CASE part \in {"queue", "keys"} BY <1>1 DEF CodecInv
<1>2. CASE CodecInit
  BY <1>2, ArithmeticInit, HeadersInit, FragmentsInit, ProteanInit, ZorkInit DEF CodecInit, CodecInv
<1> QED BY <1>1, <1>2 DEF MCInit

(* A step of a codec, or none that its variables show. *)
LEMMA CodecSteps ==
  ASSUME [MCNext]_allVars
  PROVE  /\ part' = part
         /\ part = "arithmetic" => [Code!Next]_(Code!vars)
         /\ part = "headers" => [Socks!Next]_(Socks!vars)
         /\ part = "fragments" => [Cut!Next]_(Cut!vars)
         /\ part = "protean" => [Shaper!Next]_(Shaper!vars)
         /\ part = "zork" => [Lines!Next]_(Lines!vars)
<1> USE DEF Code!vars, Socks!vars, Cut!vars, Shaper!vars, Lines!vars
<1>1. CASE UNCHANGED <<part, codec>> BY <1>1 DEF codec
<1>2. CASE CodecNext /\ UNCHANGED part BY <1>2 DEF CodecNext
<1> QED BY <1>1, <1>2 DEF MCNext, allVars

LEMMA CodecStep == CodecsAssumption /\ CodecInv /\ [MCNext]_allVars => CodecInv'
<1> SUFFICES ASSUME CodecsAssumption, CodecInv, [MCNext]_allVars PROVE CodecInv' OBVIOUS
<1>0. part' = part BY CodecSteps
<1>1. part = "arithmetic" => ArithmeticInv' BY CodecSteps, ArithmeticStep DEF CodecInv
<1>2. part = "headers" => HeadersInv'
  <2>1. CASE UNCHANGED Socks!vars
    BY <2>1 DEF Socks!vars, CodecInv, HeadersInv, Verdict, HandedOver
  <2>2. CASE Socks!Next BY <2>2, HeadersStep DEF CodecInv
  <2> QED BY <2>1, <2>2, CodecSteps
<1>3. part = "fragments" => FragmentsInv' BY CodecSteps, FragmentsStep DEF CodecInv
<1>4. part = "protean" => ProteanInv' BY CodecSteps, ProteanStep DEF CodecInv
<1>5. part = "zork" => ZorkInv' BY CodecSteps, ZorkStep DEF CodecInv
<1> QED BY <1>0, <1>1, <1>2, <1>3, <1>4, <1>5 DEF CodecInv

LEMMA CodecsHold == CodecsAssumption /\ CodecInv => CodecsAgree
<1> SUFFICES ASSUME CodecsAssumption, CodecInv PROVE CodecsAgree OBVIOUS
<1>1. part = "arithmetic" => Code!Restores /\ Code!EncodesLowEnd
  BY ArithmeticHolds DEF CodecInv, CodecsAssumption, Code!CodesAgree
<1>2. part = "headers" => Socks!HeadersAgree BY HeadersHold DEF CodecInv
<1>3. part = "fragments" => Cut!TypeOK /\ Cut!PacketsWhole BY FragmentsHold DEF CodecInv
<1>4. part = "protean" => Shaper!TypeOK /\ Shaper!ShapersAgree BY ProteanHolds DEF CodecInv
<1>5. part = "zork" => Lines!TypeOK /\ Lines!LinesInTurn BY ZorkHolds DEF CodecInv
<1> QED BY <1>1, <1>2, <1>3, <1>4, <1>5 DEF CodecsAgree

(* What a codec of the transformers, of the socks headers or of zork writes is *)
(* read as it was meant, for packets and messages of any length (headers.ts, *)
(* fragmentationShaper.ts, protean.ts, byteSequenceShaper.ts, arithmetic.ts, *)
(* linefeeder.ts). *)
THEOREM Codecs == MCSpec => []CodecsAgree
<1>1. MCInit => CodecInv BY CodecInitial, CodecsAssumed
<1>2. CodecInv /\ [MCNext]_allVars => CodecInv' BY CodecStep, CodecsAssumed
<1>3. CodecInv => CodecsAgree BY CodecsHold, CodecsAssumed
<1> QED BY <1>1, <1>2, <1>3, PTL DEF MCSpec
=============================================================================
