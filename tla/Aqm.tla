----------------------------------- MODULE Aqm ----------------------------------
(* The queue manager of a churn pipe (lib/aqm/aqm.ts, CoDelIsh): some sends    *)
(* are traced, that is answered when the packet has left; at the first answer  *)
(* to a packet sent after the end of an interval, the shortest delay of the    *)
(* interval decides whether the next packet is dropped.                        *)
EXTENDS Naturals, FiniteSets, FiniteSetsExt

CONSTANTS
  TargetDelay,    \* targetDelay_
  BaseInterval,   \* BASE_INTERVAL_, in the same ticks
  Tracing,        \* one packet of Tracing is traced
  MaxTime, MaxSends, MaxTraced, MaxLevel   \* bounds

VARIABLES
  now, dropLevel_, dropNext_, deadline_, sent_, minDelay_,
  traceCounter_,  \* in parts of Tracing
  traced,         \* the times of the traced sends not answered
  inInterval,     \* sends since the interval began (model only)
  until,          \* the deadline when a packet was last dropped (model only)
  began           \* when the packet was sent whose answer began the interval (model only)

vars == <<now, dropLevel_, dropNext_, deadline_, sent_, minDelay_, traceCounter_, traced,
          inInterval, until, began>>

Infinity == MaxTime + 1

TypeOK ==
  /\ now \in 0..MaxTime /\ dropLevel_ \in 1..MaxLevel
  /\ dropNext_ \in BOOLEAN /\ deadline_ \in 0..(MaxTime + BaseInterval)
  /\ sent_ \in 0..MaxSends /\ minDelay_ \in 0..Infinity
  /\ traceCounter_ \in 0..(2 * Tracing) /\ traced \subseteq 1..MaxTime
  /\ inInterval \in 0..sent_ /\ until \in 0..deadline_
  /\ began \in 0..now

Init ==
  /\ now = 1 /\ dropLevel_ = 1 /\ dropNext_ = FALSE /\ deadline_ = 0
  /\ sent_ = 0 /\ minDelay_ = Infinity /\ traceCounter_ = Tracing
  /\ traced = {} /\ inInterval = 0 /\ until = 0 /\ began = 0

(* send: a packet is dropped, traced, or sent fast. *)
send ==
  /\ sent_ < MaxSends /\ Cardinality(traced) < MaxTraced
  /\ sent_' = sent_ + 1 /\ inInterval' = inInterval + 1
  /\ IF dropNext_
     THEN /\ dropNext_' = FALSE /\ until' = deadline_
          /\ UNCHANGED <<traceCounter_, traced>>
     ELSE /\ IF traceCounter_ >= Tracing
             THEN traced' = traced \cup {now} /\ traceCounter_' = traceCounter_ - Tracing + 1
             ELSE traceCounter_' = traceCounter_ + 1 /\ UNCHANGED traced
          /\ UNCHANGED <<dropNext_, until>>
  /\ UNCHANGED <<now, dropLevel_, deadline_, minDelay_, began>>

(* BASE_INTERVAL_ / sqrt(level), in whole ticks. *)
Interval(level) == Max({d \in 0..BaseInterval : d * d * level <= BaseInterval * BaseInterval})

(* endOfInterval_: judged by the shortest delay, unless there was one packet. *)
endOfInterval_(minDelay) ==
  /\ IF sent_ <= 1 \/ minDelay <= TargetDelay
     THEN /\ dropLevel_' = IF dropLevel_ > 2 THEN dropLevel_ - 2 ELSE 1
          /\ dropNext_' = FALSE
     ELSE dropLevel_' = dropLevel_ + 1 /\ dropNext_' = TRUE
  /\ dropLevel_' <= MaxLevel
  /\ minDelay_' = Infinity /\ traceCounter_' = Tracing
  /\ deadline_' = now + Interval(dropLevel_')
  /\ inInterval' = 0

(* Mutant: the first answer after the deadline ends the interval, whenever the *)
(* packet was sent.                                                            *)
Left_late(t) ==
  /\ t \in traced /\ traced' = traced \ {t}
  /\ LET minDelay == Min({minDelay_, now - t})
     IN  IF now > deadline_ THEN endOfInterval_(minDelay) /\ began' = t
         ELSE /\ minDelay_' = minDelay
              /\ UNCHANGED <<dropLevel_, dropNext_, traceCounter_, deadline_, inInterval, began>>
  /\ UNCHANGED <<now, sent_, until>>

(* A traced packet has left; one that failed is only logged. *)
Left(t) ==
  /\ t \in traced /\ traced' = traced \ {t}
  /\ LET minDelay == Min({minDelay_, now - t})
     IN  IF t > deadline_ THEN endOfInterval_(minDelay) /\ began' = t
         ELSE /\ minDelay_' = minDelay
              /\ UNCHANGED <<dropLevel_, dropNext_, traceCounter_, deadline_, inInterval, began>>
  /\ UNCHANGED <<now, sent_, until>>

Failed(t) ==
  /\ t \in traced /\ traced' = traced \ {t}
  /\ UNCHANGED <<now, dropLevel_, dropNext_, deadline_, sent_, minDelay_, traceCounter_,
                 inInterval, until, began>>

Tick ==
  /\ now < MaxTime /\ now' = now + 1
  /\ UNCHANGED <<dropLevel_, dropNext_, deadline_, sent_, minDelay_, traceCounter_, traced,
                 inInterval, until, began>>

Next == send \/ Tick \/ \E t \in traced : Left(t) \/ Failed(t)

Spec == Init /\ [][Next]_vars

(* Congestion is answered by shorter intervals, never by a row of drops:       *)
(* between two dropped packets the whole interval of the first goes by, and    *)
(* the second is marked on account of a packet that was sent after it, however *)
(* late or out of order traced ones are answered (aqm.ts:158-176, 184-213).    *)
OneDropAnInterval == dropNext_ => until < began

(* sent_ is "The number of send calls so far in this interval." (aqm.ts:147),  *)
(* a substitute for CoDel's threshold of one packet (159): the end of an       *)
(* interval in which one packet was sent never has the next one dropped.  The  *)
(* code never sets sent_ back.                                                 *)
SinglePacketSpared == [][(~dropNext_ /\ dropNext_') => inInterval > 1]_vars
==================================================================================
