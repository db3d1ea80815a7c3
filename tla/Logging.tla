-------------------------------- MODULE Logging --------------------------------
(* The logging provider (lib/loggingprovider): the filters of its two          *)
(* destinations, the buffer, the listeners that are told the lowest level      *)
(* their tag is kept at, and the Log objects of other modules                  *)
(* (lib/logging), which drop what is below the level they were last told.      *)
EXTENDS Integers, Sequences, FiniteSets

CONSTANTS
  Destination,    \* console and buffered
  Buffered,       \* of them, the one with the buffer
  Tag,
  Client,         \* Log objects, each with the tag ClientTag
  ClientTag,
  None,
  Used,           \* of the levels, those that filters and messages take
  MAX_BUFFERED_LOG,
  Trimmed,        \* a tenth of it
  MaxChanges, MaxLogs    \* bounds

VARIABLES
  default_, filters_,    \* of a destination; None for a tag without a filter
  logBuffer,             \* the numbers of the messages recorded in it
  recorded,              \* how many were, since clearLogs
  enabled,
  listeners,             \* the clients whose listener exists
  minLevel,              \* of a client
  events,                \* levelchange, under way to a client
  calls,                 \* messages of a client, under way to the provider
  changes, logs

vars == <<default_, filters_, logBuffer, recorded, enabled, listeners, minLevel,
          events, calls, changes, logs>>
filtering == <<default_, filters_>>
buffering == <<logBuffer, recorded>>

(* debug, info, warn and error *)
Level == 0..3

TypeOK ==
  /\ default_ \in [Destination -> Level]
  /\ filters_ \in [Destination -> [Tag -> Level \union {None}]]
  /\ Len(logBuffer) <= MAX_BUFFERED_LOG + 1 /\ recorded \in 0..MaxLogs
  /\ enabled \in BOOLEAN /\ listeners \subseteq Client
  /\ minLevel \in [Client -> Level]
  /\ \A c \in Client : events[c] \in Seq(Level) /\ calls[c] \in Seq(Level)
  /\ changes \in 0..MaxChanges /\ logs \in 0..MaxLogs

Init ==
  /\ default_ = [d \in Destination |-> IF d = Buffered THEN 3 ELSE 0]
  /\ filters_ = [d \in Destination |-> [t \in Tag |-> None]]
  /\ logBuffer = <<>> /\ recorded = 0 /\ enabled = TRUE /\ listeners = {}
  /\ minLevel = [c \in Client |-> 0]
  /\ events = [c \in Client |-> <<>>] /\ calls = [c \in Client |-> <<>>]
  /\ changes = 0 /\ logs = 0

getLevelForTag(default, filters, d, t) ==
  IF filters[d][t] = None THEN default[d] ELSE filters[d][t]
getMinLevel(default, filters, t) ==
  CHOOSE m \in Level :
    /\ \A d \in Destination : m <= getLevelForTag(default, filters, d, t)
    /\ m = 3 \/ \E d \in Destination : m = getLevelForTag(default, filters, d, t)

(* Mutant: only the tags with a filter are looked at. *)
doFilterChanges__filtered(default, filters) ==
  /\ changes < MaxChanges /\ changes' = changes + 1
  /\ default_' = default /\ filters_' = filters
  /\ events' = [c \in Client |->
       LET level == getMinLevel(default, filters, ClientTag[c])
       IN  IF /\ c \in listeners /\ level # getMinLevel(default_, filters_, ClientTag[c])
              /\ \E d \in Destination : filters[d][ClientTag[c]] # None
           THEN Append(events[c], level) ELSE events[c]]
  /\ UNCHANGED <<buffering, enabled, listeners, minLevel, calls, logs>>

(* doFilterChanges_: the listeners of the tags whose lowest level changes are  *)
(* told of it.                                                                 *)
doFilterChanges_(default, filters) ==
  /\ changes < MaxChanges /\ changes' = changes + 1
  /\ default_' = default /\ filters_' = filters
  /\ events' = [c \in Client |->
       LET level == getMinLevel(default, filters, ClientTag[c])
       IN  IF c \in listeners /\ level # getMinLevel(default_, filters_, ClientTag[c])
           THEN Append(events[c], level) ELSE events[c]]
  /\ UNCHANGED <<buffering, enabled, listeners, minLevel, calls, logs>>

setDefaultFilter(d, l) == doFilterChanges_([default_ EXCEPT ![d] = l], filters_)
setFilters(d, filters) == doFilterChanges_(default_, [filters_ EXCEPT ![d] = filters])
(* setFilter, or without a level its removal. *)
setFilter(d, t, l) == doFilterChanges_(default_, [filters_ EXCEPT ![d][t] = l])

(* LoggingListener, of a Log object: it is told its level at once. *)
Listens(c) ==
  /\ c \notin listeners /\ listeners' = listeners \union {c}
  /\ events' = [events EXCEPT ![c] = Append(@, getMinLevel(default_, filters_, ClientTag[c]))]
  /\ UNCHANGED <<filtering, buffering, enabled, minLevel, calls, changes, logs>>

setMinLevel_(c) ==
  /\ events[c] # <<>>
  /\ minLevel' = [minLevel EXCEPT ![c] = Head(events[c])]
  /\ events' = [events EXCEPT ![c] = Tail(@)]
  /\ UNCHANGED <<filtering, buffering, enabled, listeners, calls, changes, logs>>

(* Log.log_ of a module: below the level nothing is sent. *)
log_(c, l) ==
  /\ logs < MaxLogs /\ logs' = logs + 1
  /\ calls' = IF l < minLevel[c] THEN calls ELSE [calls EXCEPT ![c] = Append(@, l)]
  /\ UNCHANGED <<filtering, buffering, enabled, listeners, minLevel, events, changes>>

(* log_ of the buffered destination: a tenth goes when the buffer is full. *)
Push(b, m) ==
  LET kept == IF Len(b) > MAX_BUFFERED_LOG
              THEN SubSeq(b, 1 + Trimmed, Len(b)) ELSE b
  IN  Append(kept, m)

(* Log.log_ of the provider: to every destination whose filter lets it pass. *)
Logged(c) ==
  /\ calls[c] # <<>> /\ calls' = [calls EXCEPT ![c] = Tail(@)]
  /\ IF enabled /\ Head(calls[c]) >= getLevelForTag(default_, filters_, Buffered, ClientTag[c])
     THEN recorded' = recorded + 1 /\ logBuffer' = Push(logBuffer, recorded + 1)
     ELSE UNCHANGED buffering
  /\ UNCHANGED <<filtering, enabled, listeners, minLevel, events, changes, logs>>

clearLogs ==
  /\ logBuffer # <<>> /\ logBuffer' = <<>>
  /\ UNCHANGED <<filtering, recorded, enabled, listeners, minLevel, events, calls, changes, logs>>
enable(on) ==
  /\ enabled # on /\ enabled' = on
  /\ UNCHANGED <<filtering, buffering, listeners, minLevel, events, calls, changes, logs>>

Next ==
  \/ \E d \in Destination :
       \/ \E l \in Used : setDefaultFilter(d, l)
       \/ \E t \in Tag, l \in Used \union {None} : setFilter(d, t, l)
       \/ \E filters \in [Tag -> Used \union {None}] : setFilters(d, filters)
  \/ \E c \in Client : Listens(c) \/ setMinLevel_(c) \/ Logged(c) \/ \E l \in Used : log_(c, l)
  \/ clearLogs
  \/ \E on \in BOOLEAN : enable(on)

Spec == Init /\ [][Next]_vars

(* Whatever filters change, and when, the level last told to a listener is the *)
(* lowest its tag is kept at, so that a module drops no message for good that  *)
(* a destination wants.                                                        *)
LevelIsTold ==
  \A c \in listeners :
    (IF events[c] = <<>> THEN minLevel[c] ELSE events[c][Len(events[c])])
      = getMinLevel(default_, filters_, ClientTag[c])

(* "This is the maximum number of buffered log before it is trimmed"           *)
(* (loggingprovider.ts:9): it is exceeded by one.                              *)
BufferFits == Len(logBuffer) <= MAX_BUFFERED_LOG
===============================================================================
