--------------------------------- MODULE Metrics --------------------------------
(* What the core counts and reports of itself (generic_core/metrics.ts): the   *)
(* week buffers of FreedomMetrics, their load and save, and the daily reporter *)
(* that schedules itself.  The obfuscation of the report is left out.          *)
EXTENDS Integers, Sequences, FiniteSets, Functions

CONSTANTS
  Counter,      \* of "success", "attempt" and "stop"
  User,         \* accounts whose friends are counted
  Day, Week,    \* ONE_DAY_MS in steps of the clock, and the 7 of the code
  MaxTimeout,   \* the longest wait for the next report
  Revived,      \* whether a loaded buffer can have its methods: {FALSE} for JSON.parse
  MaxTime, MaxCount, MaxRestarts    \* bounds

VARIABLES
  now,
  buffer,          \* successes, attempts and stops: buckets of a time and a value
  counts,          \* on_gmail and the others: the friends of each account, 0 when unknown
  stored,          \* under 'metrics': nothing yet, or what save_ wrote
  loading,         \* onceLoaded_ is pending
  reporter,        \* of DailyMetricsReporter: loading, waiting, asking or reporting
  nextSendTimestamp, storedTimestamp,
  restarts

vars == <<now, buffer, counts, stored, loading, reporter, nextSendTimestamp,
          storedTimestamp, restarts>>
reporting == <<reporter, nextSendTimestamp, storedTimestamp>>

Empty == [buffer |-> [c \in Counter |-> <<>>], counts |-> [u \in User |-> 0]]
Bucket == [at : 0..MaxTime, value : 1..MaxCount]

TypeOK ==
  /\ now \in 0..MaxTime /\ loading \in BOOLEAN /\ restarts \in 0..MaxRestarts
  /\ \A c \in Counter : /\ Len(buffer[c]) <= Week + 1
                        /\ \A i \in DOMAIN buffer[c] : buffer[c][i] \in Bucket
  /\ counts \in [User -> 0..2] /\ Cardinality(stored) <= 1
  /\ reporter \in {"loading", "waiting", "asking", "reporting"}
  /\ nextSendTimestamp \in 0..MaxTime + MaxTimeout
  /\ storedTimestamp \subseteq 0..MaxTime + MaxTimeout

Init ==
  /\ now = 0 /\ restarts = 0 /\ loading = TRUE /\ stored = {}
  /\ buffer = Empty.buffer /\ counts = Empty.counts
  /\ reporter = "loading" /\ nextSendTimestamp = 0 /\ storedTimestamp = {}

(* WeekBuffer.trim drops buckets from the front, while they are too old.       *)
firstKept(b) ==
  CHOOSE i \in 1..Len(b) + 1 :
    /\ i <= Len(b) => b[i].at >= now - Week * Day
    /\ \A j \in 1..i - 1 : b[j].at < now - Week * Day
trim(b) == SubSeq(b, firstKept(b), Len(b))
reduce(b) == FoldFunction(LAMBDA k, sum : sum + k.value, 0, b)

(* Mutant: an event a day after the last bucket opens one of its own. *)
update_sameDay(b) ==
  IF b = <<>> \/ now - b[Len(b)].at >= Day THEN Append(b, [at |-> now, value |-> 1])
  ELSE [b EXCEPT ![Len(b)].value = @ + 1]

(* WeekBuffer.update, of a trimmed buffer.                                     *)
update(b) ==
  IF b = <<>> \/ now - b[Len(b)].at > Day THEN Append(b, [at |-> now, value |-> 1])
  ELSE [b EXCEPT ![Len(b)].value = @ + 1]

(* WeekBuffer.merge: of two buffers with entries the stored one is dropped. *)
merge(b, other) ==
  IF trim(other) # <<>> /\ trim(b) = <<>> THEN trim(other) ELSE trim(b)

max(a, b) == IF a > b THEN a ELSE b
mergeNet(first, second) == [u \in User |-> max(first[u], second[u])]

(* load and the handler of onceLoaded_.  A buffer read back from JSON has no   *)
(* methods: the first merge throws, and the rejection passes for no data.      *)
Loaded ==
  /\ loading /\ loading' = FALSE
  /\ \E revived \in Revived :
       IF revived /\ stored # {}
       THEN LET data == CHOOSE d \in stored : TRUE
            IN  /\ buffer' = [c \in Counter |-> merge(buffer[c], data.buffer[c])]
                /\ counts' = mergeNet(counts, data.counts)
       ELSE UNCHANGED <<buffer, counts>>
  /\ UNCHANGED <<now, stored, reporting, restarts>>

(* increment: a stop is not saved by itself. *)
increment(c) ==
  /\ LET b == update(trim(buffer[c])) IN
     b[Len(b)].value <= MaxCount /\ buffer' = [buffer EXCEPT ![c] = b]
  /\ stored' = IF c = "stop" THEN stored ELSE {[buffer |-> buffer', counts |-> counts]}
  /\ UNCHANGED <<now, counts, loading, reporting, restarts>>

userCount(u, friends) ==
  /\ counts' = [counts EXCEPT ![u] = max(@, friends)]
  /\ UNCHANGED <<now, buffer, stored, loading, reporting, restarts>>

(* runNowOrLater_: a time that has passed reports at once. *)
runNowOrLater_(at) == reporter' = IF at <= now THEN "asking" ELSE "waiting"

(* getNextSendTimestamp_ *)
NextTimes == now..now + MaxTimeout

(* The reporter's load: without a stored time one is drawn and saved. *)
TimeLoaded ==
  /\ reporter = "loading"
  /\ \/ storedTimestamp # {} /\ nextSendTimestamp' \in storedTimestamp
        /\ UNCHANGED storedTimestamp
     \/ /\ storedTimestamp = {} /\ nextSendTimestamp' \in NextTimes
        /\ storedTimestamp' = {nextSendTimestamp'}
  /\ runNowOrLater_(nextSendTimestamp')
  /\ UNCHANGED <<now, buffer, counts, stored, loading, restarts>>

report_ ==
  /\ reporter = "waiting" /\ nextSendTimestamp <= now
  /\ reporter' = "asking"
  /\ UNCHANGED <<now, buffer, counts, stored, loading, nextSendTimestamp, storedTimestamp, restarts>>

(* sendReport_, once the network's properties are known or failed to be: the   *)
(* report waits for the stored data, like getReport.                           *)
sendReport_ ==
  /\ reporter = "asking" /\ ~loading
  /\ reporter' = "reporting"
  /\ UNCHANGED <<now, buffer, counts, stored, loading, nextSendTimestamp, storedTimestamp, restarts>>

(* getReport settles, well or not: the next report is drawn and saved. *)
Reported ==
  /\ reporter = "reporting"
  /\ nextSendTimestamp' \in NextTimes
  /\ storedTimestamp' = {nextSendTimestamp'}
  /\ runNowOrLater_(nextSendTimestamp')
  /\ UNCHANGED <<now, buffer, counts, stored, loading, restarts>>

Tick ==
  /\ now < MaxTime /\ now' = now + 1
  /\ UNCHANGED <<buffer, counts, stored, loading, reporting, restarts>>

Restart ==
  /\ restarts < MaxRestarts /\ restarts' = restarts + 1
  /\ buffer' = Empty.buffer /\ counts' = Empty.counts
  /\ loading' = TRUE /\ reporter' = "loading" /\ nextSendTimestamp' = 0
  /\ UNCHANGED <<now, stored, storedTimestamp>>

Next ==
  \/ Loaded \/ TimeLoaded \/ report_ \/ sendReport_ \/ Reported \/ Tick \/ Restart
  \/ \E c \in Counter : increment(c)
  \/ \E u \in User, friends \in 1..2 : userCount(u, friends)

Spec == Init /\ [][Next]_vars

(* The case the code says can not happen: an eighth bucket.  A bucket opens    *)
(* more than a day after the last one and lives seven days, the ends included, *)
(* so that at most seven are there at a time, whatever was merged into them    *)
(* after a restart (metrics.ts:35-55, 59-79).                                  *)
BufferFits == \A c \in Counter : Len(buffer[c]) <= Week

(* calcQuantile, of a positive denominator. *)
calcQuantile(numerator, denominator) == 20 * ((5 * numerator) \div denominator)

(* The stop rate that is reported is one of 0, 20, ..., 100 (metrics.ts:204):  *)
(* not so, more stops than successes can be in the buffers, as each is trimmed *)
(* by itself, and 0 of 0 is no number (metrics.ts:141-143, 335-337).           *)
PercentageReported ==
  reporter = "reporting" =>
    LET successes == reduce(buffer["success"])
    IN  /\ successes > 0
        /\ calcQuantile(reduce(buffer["stop"]), successes) \in {0, 20, 40, 60, 80, 100}

(* What was saved is counted again after a restart: not so, see Loaded and     *)
(* merge (metrics.ts:239-256).                                                 *)
StoredIsCounted ==
  [][(loading /\ ~loading') =>
       \A data \in stored, c \in Counter :
         reduce(buffer'[c]) >= reduce(trim(data.buffer[c]))]_vars
==================================================================================
