---------------------------- MODULE HandlerQueue ----------------------------
(***************************************************************************)
(* src/lib/handler/queue.ts: a queue of events that are handled by whatever *)
(* handler is installed, now or later.                                      *)
(*                                                                          *)
(* The program is single threaded but re-entrant: the body of a handler may *)
(* itself call the queue, and processQueue_ and setNextHandler go on after  *)
(* the calls nested in them return.  `calls' is that stack of calls in      *)
(* progress; the operations BodyCalls lists are those a handler body makes. *)
(***************************************************************************)
EXTENDS Naturals, Sequences

CONSTANTS
  Event,      \* the things passed to handle(), each once
  Promise,    \* the promises setNextHandler returns, one per call
  None,       \* null
  BodyCalls,  \* the operations a handler body calls
  MaxSets,    \* bound: calls of setHandler and setNextHandler
  MaxDepth    \* bound: calls in progress

ASSUME HandlerQueueAssumption ==
  /\ None \notin Event \cup Promise \cup {"standing"}
  /\ "standing" \notin Promise
  /\ MaxSets \in Nat
  /\ MaxDepth \in Nat

VARIABLES
  queue_,     \* events waiting, oldest first
  handler_,   \* None, "standing" (setHandler), or the promise of a next-handler
  rejectFn_,  \* the promise whose reject function is kept, or None
  stats_,     \* HandlerQueueStats
  outcome,    \* what became of each event
  settled,    \* what became of each promise of setNextHandler
  calls       \* the stack of calls in progress, innermost first

vars == <<queue_, handler_, rejectFn_, stats_, outcome, settled, calls>>

Counter == {"total_events", "queued_events", "immediately_handled_events",
            "queued_handled_events", "rejected_events", "handler_set_count",
            "handler_change_count", "handler_clear_count", "handler_rejections"}

(* The calls in progress: processQueue_, setNextHandler after its           *)
(* setHandler, and the body of handler h with event e.                      *)
Loop == [kind |-> "loop"]
Next_(p) == [kind |-> "next", promise |-> p]
Body(e, h) == [kind |-> "body", event |-> e, handler |-> h]

Handler == Promise \cup {"standing"}
Frame == {Loop} \cup {Next_(p) : p \in Promise} \cup {Body(e, h) : e \in Event, h \in Handler}

TypeOK ==
  /\ queue_ \in Seq(Event)
  /\ handler_ \in Handler \cup {None}
  /\ rejectFn_ \in Promise \cup {None}
  /\ stats_ \in [Counter -> Nat]
  /\ outcome \in [Event -> {"new", "queued", "running", "handled", "rejected"}]
  /\ settled \in [Promise -> {"new", "armed", "taken", "fulfilled", "rejected"}]
  /\ calls \in Seq(Frame)

Init ==
  /\ queue_ = <<>>
  /\ handler_ = None
  /\ rejectFn_ = None
  /\ stats_ = [c \in Counter |-> 0]
  /\ outcome = [e \in Event |-> "new"]
  /\ settled = [p \in Promise |-> "new"]
  /\ calls = <<>>

isHandling == handler_ # None

(* The counters with c counted once more; the stack with frame f pushed. *)
Count(s, c) == [s EXCEPT ![c] = @ + 1]
Push(f) == <<f>> \o calls

(* A call comes from the event loop, or from the body of a running handler. *)
MayCall(op) ==
  /\ Len(calls) < MaxDepth
  /\ calls # <<>> => Head(calls).kind = "body" /\ op \in BodyCalls

(* The innermost call in progress is of this kind. *)
Running(kind) == calls # <<>> /\ Head(calls).kind = kind

(* Mutant: a next-handler that leaves without being counted. *)
Invoke_uncounted(e, counted) ==
  /\ calls' = Push(Body(e, handler_))
  /\ outcome' = [outcome EXCEPT ![e] = "running"]
  /\ stats_' = counted
  /\ IF handler_ \in Promise
     THEN /\ handler_' = None
          /\ rejectFn_' = None
          /\ settled' = [settled EXCEPT ![handler_] = "taken"]
     ELSE UNCHANGED <<handler_, rejectFn_, settled>>

(* Entering the handler with event e.  A next-handler first uninstalls      *)
(* itself, so it takes one event only.                                      *)
Invoke(e, counted) ==
  /\ calls' = Push(Body(e, handler_))
  /\ outcome' = [outcome EXCEPT ![e] = "running"]
  /\ IF handler_ \in Promise
     THEN /\ handler_' = None
          /\ rejectFn_' = None
          /\ stats_' = Count(counted, "handler_clear_count")
          /\ settled' = [settled EXCEPT ![handler_] = "taken"]
     ELSE /\ stats_' = counted
          /\ UNCHANGED <<handler_, rejectFn_, settled>>

HandleNow(e) ==
  /\ MayCall("handle")
  /\ outcome[e] = "new"
  /\ isHandling
  /\ Invoke(e, Count(Count(stats_, "total_events"), "immediately_handled_events"))
  /\ UNCHANGED queue_

HandleLater(e) ==
  /\ MayCall("handle")
  /\ outcome[e] = "new"
  /\ ~isHandling
  /\ queue_' = Append(queue_, e)
  /\ outcome' = [outcome EXCEPT ![e] = "queued"]
  /\ stats_' = Count(Count(stats_, "total_events"), "queued_events")
  /\ UNCHANGED <<handler_, rejectFn_, settled, calls>>

(* One turn of the loop of processQueue_, and its end. *)
ProcessNext ==
  /\ Running("loop")
  /\ isHandling
  /\ queue_ # <<>>
  /\ queue_' = Tail(queue_)
  /\ Invoke(Head(queue_), Count(stats_, "queued_handled_events"))

ProcessEnd ==
  /\ Running("loop")
  /\ ~isHandling \/ queue_ = <<>>
  /\ calls' = Tail(calls)
  /\ UNCHANGED <<queue_, handler_, rejectFn_, stats_, outcome, settled>>

clear ==
  /\ MayCall("clear")
  /\ queue_' = <<>>
  /\ outcome' = [e \in Event |-> IF outcome[e] = "queued" THEN "rejected" ELSE outcome[e]]
  /\ stats_' = [stats_ EXCEPT !["rejected_events"] = @ + Len(queue_)]
  /\ UNCHANGED <<handler_, rejectFn_, settled, calls>>

(* The kept reject function, if any, is called and forgotten.  A promise    *)
(* that has been settled already ignores it.                                *)
RejectKept(counted) ==
  /\ rejectFn_' = None
  /\ IF rejectFn_ = None
     THEN stats_' = counted
     ELSE stats_' = Count(counted, "handler_rejections")

(* Mutant: the reject function is forgotten without being called. *)
AfterReject_forgets == settled

AfterReject ==
  [p \in Promise |-> IF p = rejectFn_ /\ settled[p] \in {"armed", "taken"}
                     THEN "rejected" ELSE settled[p]]

CountSet ==
  Count(stats_, IF isHandling THEN "handler_change_count" ELSE "handler_set_count")

MaySet(op) ==
  /\ MayCall(op)
  /\ stats_["handler_set_count"] + stats_["handler_change_count"] < MaxSets

(* Mutant: the new handler is not given the events that wait. *)
setHandler_leavesQueue ==
  /\ MaySet("set")
  /\ RejectKept(CountSet)
  /\ settled' = AfterReject
  /\ handler_' = "standing"
  /\ UNCHANGED <<queue_, outcome, calls>>

setHandler ==
  /\ MaySet("set")
  /\ RejectKept(CountSet)
  /\ settled' = AfterReject
  /\ handler_' = "standing"
  /\ calls' = Push(Loop)
  /\ UNCHANGED <<queue_, outcome>>

setNextHandler(p) ==
  /\ MaySet("next")
  /\ settled[p] = "new"
  /\ RejectKept(CountSet)
  /\ settled' = [AfterReject EXCEPT ![p] = "armed"]
  /\ handler_' = p
  /\ calls' = <<Loop, Next_(p)>> \o calls
  /\ UNCHANGED <<queue_, outcome>>

(* setNextHandler after its setHandler has returned. *)
KeepRejectFn ==
  /\ Running("next")
  /\ rejectFn_' = IF isHandling THEN Head(calls).promise ELSE rejectFn_
  /\ calls' = Tail(calls)
  /\ UNCHANGED <<queue_, handler_, stats_, outcome, settled>>

stopHandling ==
  /\ MayCall("stop")
  /\ RejectKept(IF isHandling THEN Count(stats_, "handler_clear_count") ELSE stats_)
  /\ settled' = AfterReject
  /\ handler_' = None
  /\ UNCHANGED <<queue_, outcome, calls>>

(* The body of a handler returns its result to the caller of handle(). *)
BodyReturns ==
  /\ Running("body")
  /\ outcome' = [outcome EXCEPT ![Head(calls).event] = "handled"]
  /\ calls' = Tail(calls)
  /\ UNCHANGED <<queue_, handler_, rejectFn_, stats_, settled>>

(* The result of a next-handler is there: its promise is fulfilled, in a    *)
(* later turn of the event loop, unless it has been rejected.               *)
Fulfil(p) ==
  /\ calls = <<>>
  /\ settled[p] = "taken"
  /\ settled' = [settled EXCEPT ![p] = "fulfilled"]
  /\ UNCHANGED <<queue_, handler_, rejectFn_, stats_, outcome, calls>>

Next ==
  \/ \E e \in Event : HandleNow(e) \/ HandleLater(e)
  \/ ProcessNext \/ ProcessEnd \/ KeepRejectFn \/ BodyReturns
  \/ clear \/ setHandler \/ stopHandling
  \/ \E p \in Promise : setNextHandler(p) \/ Fulfil(p)

Spec == Init /\ [][Next]_vars

-----------------------------------------------------------------------------
(* HandlerQueueStats: "queued_events - queued_handled_events -              *)
(* rejected_events = number of events in queue right now", and a handler is *)
(* installed exactly when it was set once more than it was unset, whatever  *)
(* the nesting of calls.                                                    *)
StatsMatchQueue ==
  /\ stats_["queued_events"]
       = stats_["queued_handled_events"] + stats_["rejected_events"] + Len(queue_)
  /\ stats_["total_events"]
       = stats_["queued_events"] + stats_["immediately_handled_events"]
  /\ stats_["handler_set_count"]
       = stats_["handler_clear_count"] + (IF isHandling THEN 1 ELSE 0)

(* No event is left waiting while a handler is installed: between calls the *)
(* queue is empty or nobody handles it, however bodies stop, set and        *)
(* re-enter the queue.                                                      *)
NoIdleHandler == calls = <<>> /\ isHandling => queue_ = <<>>

(* The counters and the types together, in every state of nested calls.     *)
QueueCounted == TypeOK /\ StatsMatchQueue

(* setNextHandler: a next-handler that is uninstalled has taken an event or *)
(* has had its promise rejected ("calling setHandler rejects the old        *)
(* promise"), so no caller waits for ever for a handler that is gone; and   *)
(* once it has taken an event the promise is fulfilled with the result,     *)
(* never rejected ("we don't call stopHandling() within this handler        *)
(* because that would reject the promise we're about to fulfill").          *)
PromisesKept ==
  [][\A p \in Promise :
       /\ handler_ = p /\ handler_' # p => settled'[p] \in {"taken", "rejected"}
       /\ settled[p] = "taken" => settled'[p] # "rejected"]_vars
=============================================================================
