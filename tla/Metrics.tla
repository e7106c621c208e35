------------------------------- MODULE Metrics -------------------------------
(***************************************************************************)
(* Metrics (src/src/common/metrics.cpp): the process-wide registry of      *)
(* counters, gauges, latency statistics and throughput, every operation of *)
(* which takes the one std::mutex mutex_.                                  *)
(*                                                                         *)
(* An operation that holds the mutex from start to end without calling out *)
(* is one atomic step.  toString is split where it calls                   *)
(* getBytesPerSecond while holding the mutex: that call locks mutex_       *)
(* again, and a second lock() of a non-recursive std::mutex by its owner   *)
(* never returns (undefined behaviour; glibc's default mutex deadlocks), so *)
(* no step leaves that point.  Throughput start times are left out: no     *)
(* property here depends on the clock.                                     *)
(***************************************************************************)
EXTENDS Integers, FiniteSets

CONSTANTS
    Threads,
    Names,          \* metric names
    Values,         \* counter increments and gauge values
    Durations,      \* latencies in microseconds
    ByteCounts,     \* byte counts passed to recordBytes
    MaxOps,         \* operations per thread
    NoThread,
    Int64Max        \* INT64_MAX, above every duration

VARIABLES
    owner,          \* the thread holding mutex_, or NoThread
    pc,             \* per thread: "idle", "ts_body", "ts_bps"
    ops,            \* per thread: operations started
    counters_,      \* name -> value, for the names present in the map
    gauges_,
    latencies_,     \* name -> [count, sum_us, min_us, max_us]
    throughput_     \* name -> total_bytes

vars == <<owner, pc, ops, counters_, gauges_, latencies_, throughput_>>

mapVars == <<counters_, gauges_, latencies_, throughput_>>

\* m[n] with unordered_map::operator[]: a missing entry is value-initialised.
At(m, n, zero) == IF n \in DOMAIN m THEN m[n] ELSE zero
Put(m, n, x) == [k \in DOMAIN m \cup {n} |-> IF k = n THEN x ELSE m[k]]

NewLatency == [count |-> 0, sum_us |-> 0, min_us |-> Int64Max, max_us |-> 0]

\* The body of recordLatency on one entry: count, sum and the two CAS loops,
\* which under the mutex run once each.
RecordInto(s, us) ==
    [count  |-> s.count + 1,
     sum_us |-> s.sum_us + us,
     min_us |-> IF us < s.min_us THEN us ELSE s.min_us,
     max_us |-> IF us > s.max_us THEN us ELSE s.max_us]

-----------------------------------------------------------------------------
\* std::lock_guard<std::mutex> lock(mutex_): an idle thread takes the free mutex.
Free(t) == owner = NoThread /\ pc[t] = "idle" /\ ops[t] < MaxOps
Started(t) == ops' = [ops EXCEPT ![t] = @ + 1]

incrementCounter(t, n, v) ==
    /\ Free(t) /\ Started(t)
    /\ counters_' = Put(counters_, n, At(counters_, n, 0) + v)
    /\ UNCHANGED <<owner, pc, gauges_, latencies_, throughput_>>

setGauge(t, n, v) ==
    /\ Free(t) /\ Started(t)
    /\ gauges_' = Put(gauges_, n, v)
    /\ UNCHANGED <<owner, pc, counters_, latencies_, throughput_>>

recordLatency(t, n, us) ==
    /\ Free(t) /\ Started(t)
    /\ latencies_' = Put(latencies_, n, RecordInto(At(latencies_, n, NewLatency), us))
    /\ UNCHANGED <<owner, pc, counters_, gauges_, throughput_>>

recordBytes(t, n, b) ==
    /\ Free(t) /\ Started(t)
    /\ throughput_' = Put(throughput_, n, At(throughput_, n, 0) + b)
    /\ UNCHANGED <<owner, pc, counters_, gauges_, latencies_>>

reset(t) ==
    /\ Free(t) /\ Started(t)
    /\ counters_' = <<>> /\ gauges_' = <<>> /\ latencies_' = <<>> /\ throughput_' = <<>>
    /\ UNCHANGED <<owner, pc>>

\* toString: lock mutex_ and format counters, gauges and latencies.
toStringLock(t) ==
    /\ Free(t) /\ Started(t)
    /\ owner' = t
    /\ pc' = [pc EXCEPT ![t] = "ts_body"]
    /\ UNCHANGED mapVars

\* With no throughput entry toString returns and unlocks; otherwise it calls
\* getBytesPerSecond for the first one, still holding mutex_.
toStringThroughput(t) ==
    /\ pc[t] = "ts_body"
    /\ IF DOMAIN throughput_ = {}
       THEN /\ owner' = NoThread
            /\ pc' = [pc EXCEPT ![t] = "idle"]
       ELSE /\ pc' = [pc EXCEPT ![t] = "ts_bps"]
            /\ UNCHANGED owner
    /\ UNCHANGED <<ops, counters_, gauges_, latencies_, throughput_>>

\* Every thread's step.
ThreadStep(t) ==
    \/ \E n \in Names, v \in Values : incrementCounter(t, n, v) \/ setGauge(t, n, v)
    \/ \E n \in Names, us \in Durations : recordLatency(t, n, us)
    \/ \E n \in Names, b \in ByteCounts : recordBytes(t, n, b)
    \/ reset(t)
    \/ toStringLock(t)
    \/ toStringThroughput(t)

Init ==
    /\ owner = NoThread
    /\ pc = [t \in Threads |-> "idle"]
    /\ ops = [t \in Threads |-> 0]
    /\ counters_ = <<>> /\ gauges_ = <<>> /\ latencies_ = <<>> /\ throughput_ = <<>>

Next == \E t \in Threads : ThreadStep(t)

Spec == Init /\ [][Next]_vars

\* A thread inside toString is scheduled.
FairSpec == Spec /\ \A t \in Threads : WF_vars(toStringThroughput(t))

-----------------------------------------------------------------------------
TypeOK ==
    /\ owner \in Threads \cup {NoThread}
    /\ pc \in [Threads -> {"idle", "ts_body", "ts_bps"}]
    /\ \A t \in Threads : pc[t] # "idle" <=> owner = t
    /\ ops \in [Threads -> 0 .. MaxOps]
    /\ DOMAIN counters_ \subseteq Names /\ DOMAIN latencies_ \subseteq Names

\* toString returns: a thread that took the mutex to format the metrics
\* gives it back.
ToStringReturns ==
    \A t \in Threads : pc[t] = "ts_body" ~> pc[t] = "idle"

=============================================================================
