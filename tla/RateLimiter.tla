----------------------------- MODULE RateLimiter -----------------------------
(***************************************************************************)
(* RateLimiter (src/src/common/rate_limiter.cpp): a token bucket shared by     *)
(* threads that call acquire(bytes), and an owner that calls setRate.      *)
(*                                                                         *)
(* Time is counted in whole units and rates in tokens per unit, so tokens_ *)
(* stays an integer.  elapsed is now - last_refill_, capped at MaxElapsed: *)
(* a refill after MaxElapsed units fills the bucket whatever the rate, so  *)
(* longer gaps are indistinguishable.  The length of a sleep is not        *)
(* modelled, only that the thread retries after it, except for the sleep   *)
(* acquire computes from a wrapped size_t, which does not end.             *)
(***************************************************************************)
EXTENDS Integers, FiniteSets

CONSTANTS
    Threads,        \* threads calling acquire
    Requests,       \* byte counts they ask for
    Rates,          \* rates setRate may install
    InitRate,       \* bytes_per_second given to the constructor
    InitBurst,      \* burst_size given to it (0: the rate)
    MaxCalls,       \* acquire calls per thread
    MaxSetRate,     \* setRate calls
    MaxElapsed

VARIABLES
    tokens,         \* tokens_
    rate,           \* bytes_per_second_
    burst,          \* burst_size_
    elapsed,        \* now - last_refill_, capped
    pc,             \* per thread: "idle", "try", "wait", "sleep", "hung"
    want,           \* per thread: the bytes of its current acquire
    calls,          \* per thread: acquire calls made
    setRates        \* setRate calls made

vars == <<tokens, rate, burst, elapsed, pc, want, calls, setRates>>

-----------------------------------------------------------------------------
\* refill(): add elapsed * rate, capped at burst_size_; last_refill_ = now.
refill == LET t == tokens + elapsed * rate IN IF t < burst THEN t ELSE burst

Init ==
    /\ burst = IF InitBurst > 0 THEN InitBurst ELSE InitRate
    /\ rate = InitRate
    /\ tokens = burst
    /\ elapsed = 0
    /\ pc = [t \in Threads |-> "idle"]
    /\ want = [t \in Threads |-> 0]
    /\ calls = [t \in Threads |-> 0]
    /\ setRates = 0

\* The steady clock advances.
Tick ==
    /\ elapsed < MaxElapsed
    /\ elapsed' = elapsed + 1
    /\ UNCHANGED <<tokens, rate, burst, pc, want, calls, setRates>>

\* A thread calls acquire(bytes).
acquire(t, b) ==
    /\ pc[t] = "idle" /\ calls[t] < MaxCalls
    /\ pc' = [pc EXCEPT ![t] = "try"]
    /\ want' = [want EXCEPT ![t] = b]
    /\ calls' = [calls EXCEPT ![t] = @ + 1]
    /\ UNCHANGED <<tokens, rate, burst, elapsed, setRates>>

\* tryAcquire, under mutex_: refill, then take the tokens if there are
\* enough; acquire returns on success and goes on to compute a wait if not.
tryAcquire(t) ==
    /\ pc[t] = "try"
    /\ elapsed' = 0
    /\ IF refill >= want[t]
       THEN /\ tokens' = refill - want[t]
            /\ pc' = [pc EXCEPT ![t] = "idle"]
       ELSE /\ tokens' = refill
            /\ pc' = [pc EXCEPT ![t] = "wait"]
    /\ UNCHANGED <<rate, burst, want, calls, setRates>>

\* tokens_needed = bytes - available(), read without the mutex.  In size_t
\* the difference wraps when another thread's refill has meanwhile raised
\* tokens_ above bytes: the wait is then about 1.8e19 / rate seconds, which
\* for a rate of a few KB/s or more is a sleep of centuries, and for smaller
\* rates overflows the conversion to milliseconds (undefined; on x86 it is
\* clamped to the 1 ms minimum).  Otherwise the thread sleeps and retries.
computeWait(t) ==
    /\ pc[t] = "wait"
    /\ IF want[t] < tokens
       THEN pc' \in {[pc EXCEPT ![t] = "hung"], [pc EXCEPT ![t] = "sleep"]}
       ELSE pc' = [pc EXCEPT ![t] = "sleep"]
    /\ UNCHANGED <<tokens, rate, burst, elapsed, want, calls, setRates>>

wake(t) ==
    /\ pc[t] = "sleep"
    /\ pc' = [pc EXCEPT ![t] = "try"]
    /\ UNCHANGED <<tokens, rate, burst, elapsed, want, calls, setRates>>

\* setRate, under mutex_: the rate and the burst both become r; tokens_ is
\* left as it is.
setRate(r) ==
    /\ setRates < MaxSetRate
    /\ rate' = r
    /\ burst' = r
    /\ setRates' = setRates + 1
    /\ UNCHANGED <<tokens, elapsed, pc, want, calls>>

ThreadStep(t) == tryAcquire(t) \/ computeWait(t) \/ wake(t)

Next ==
    \/ Tick
    \/ \E r \in Rates : setRate(r)
    \/ \E t \in Threads : ThreadStep(t) \/ \E b \in Requests : acquire(t, b)

Spec == Init /\ [][Next]_vars

\* Each thread inside acquire keeps running, and the clock keeps advancing.
FairSpec == Spec /\ WF_vars(Tick) /\ \A t \in Threads : WF_vars(ThreadStep(t))

-----------------------------------------------------------------------------
TypeOK ==
    /\ tokens \in Int /\ tokens >= 0 /\ rate \in Nat /\ burst \in Nat
    /\ elapsed \in 0 .. MaxElapsed
    /\ pc \in [Threads -> {"idle", "try", "wait", "sleep", "hung"}]
    /\ want \in [Threads -> {0} \cup Requests]
    /\ calls \in [Threads -> 0 .. MaxCalls]

\* Every call of acquire returns ("blocks if necessary": it waits, but not
\* forever).
AcquireReturns ==
    \A t \in Threads : pc[t] # "idle" ~> pc[t] = "idle"

=============================================================================
