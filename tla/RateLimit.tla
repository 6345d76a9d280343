------------------------------ MODULE RateLimit ------------------------------
(***************************************************************************)
(* The per-address and per-port rate limiter                               *)
(* (src/internal/ratelimit/ratelimit.go).                                  *)
(*                                                                         *)
(* A rate is a number of thousandths of a packet per second; the averages, *)
(* floating point in the code, are rounded down.  The byte rate is the     *)
(* same average of packet sizes and is left out, with the cap of 1e12 on a *)
(* rate, which these instances do not reach.                               *)
(*                                                                         *)
(* The packet goroutine calls Allow and then AllowPort, each under the     *)
(* lock; the engine's maintenance goroutine calls Cleanup between any two. *)
(***************************************************************************)
EXTENDS Clock, Integers, FiniteSets, Functions

CONSTANTS
    Addrs,            \* source addresses as the parser spells them
    normalizeIP,      \* spelling -> canonical spelling
    Ports,
    MaxEntries,       \* Limiter.MaxEntries
    EvictionSampleSize,
    TicksPerSecond,
    ClampTicks,       \* 0.001 s, used when no time has passed
    IdleThreshold,    \* Cleanup's argument, in ticks
    MaxRated          \* bound: packets rated

ASSUME RateLimitConstants ==
    /\ normalizeIP \in [Addrs -> Addrs]
    /\ {MaxEntries, EvictionSampleSize, TicksPerSecond, ClampTicks} \subseteq Nat \ {0}
    /\ IdleThreshold \in Nat /\ MaxRated \in Nat

PerSecond == 1000     \* one packet per second

VARIABLES
    buckets,          \* Limiter.buckets
    rating,           \* the packet between Allow and AllowPort, if any
    rated,            \* packets rated so far
    arrivals          \* history: key -> the last of its packets and the gaps
                      \* between any two that followed each other

rateVars == <<buckets, rating, rated, arrivals>>

RateInit ==
    buckets = [k \in {} |-> 0] /\ rating = {} /\ rated = 0 /\ arrivals = [k \in {} |-> 0]

ipKey(a) == <<"ip", normalizeIP[a]>>
portKey(a, p) == <<"port", normalizeIP[a], p>>

-----------------------------------------------------------------------------
\* Mutant: no guard, the rate of two packets at once is infinite.
InstPPSUnguarded(dt) ==
    IF dt <= 0 THEN 1000 * PerSecond ELSE (PerSecond * TicksPerSecond) \div dt

\* The time between two packets as it is rated.
Span(dt) == IF dt <= 0 THEN ClampTicks ELSE dt

InstPPS(dt) == (PerSecond * TicksPerSecond) \div Span(dt)

\* alpha = 0.3
Smoothed(inst, pps) == (3 * inst + 7 * pps) \div 10

\* A bucket with pps 0 is new: its first packet counts as one per second.
updateBucket(b) ==
    [pps |-> IF b.pps = 0 THEN PerSecond ELSE Smoothed(InstPPS(now - b.lastTime), b.pps),
     lastTime |-> now]

newBucket == [pps |-> 0, lastTime |-> now]

Lesser(x, y) == IF x < y THEN x ELSE y
Greater(x, y) == IF x > y THEN x ELSE y

\* The first EvictionSampleSize keys of the map's iteration, any of them.
Samples ==
    {s \in SUBSET DOMAIN buckets :
        Cardinality(s) = Lesser(EvictionSampleSize, Cardinality(DOMAIN buckets))}

\* Mutant: After for Before.
evictNewestSampled ==
    {k \in DOMAIN buckets :
        \E s \in Samples : k \in s /\ \A j \in s : buckets[k].lastTime >= buckets[j].lastTime}

evictOneSampledLocked ==
    {k \in DOMAIN buckets :
        \E s \in Samples : k \in s /\ \A j \in s : buckets[k].lastTime <= buckets[j].lastTime}

\* What the map keeps when getOrCreateBucket(key) returns.
Survivors(key) ==
    IF key \in DOMAIN buckets \/ Cardinality(DOMAIN buckets) < MaxEntries
    THEN {DOMAIN buckets}
    ELSE {DOMAIN buckets \ {k} : k \in evictOneSampledLocked}

Arrived(key) ==
    [k \in DOMAIN arrivals \cup {key} |->
        IF k # key THEN arrivals[k]
        ELSE [last |-> now,
              gaps |-> IF key \notin DOMAIN arrivals THEN {}
                       ELSE arrivals[key].gaps \cup {now - arrivals[key].last}]]

Record(key) ==
    /\ \E kept \in Survivors(key) :
          buckets' = [k \in kept \cup {key} |->
                         IF k # key THEN buckets[k]
                         ELSE updateBucket(IF key \in kept THEN buckets[key] ELSE newBucket)]
    /\ arrivals' = Arrived(key)

-----------------------------------------------------------------------------
Allow(a, p) ==
    /\ rating = {} /\ rated < MaxRated
    /\ Record(ipKey(a))
    /\ rating' = {<<a, p>>}
    /\ rated' = rated + 1

AllowPort(a, p) ==
    /\ rating = {<<a, p>>}
    /\ Record(portKey(a, p))
    /\ rating' = {}
    /\ UNCHANGED rated

Cleanup ==
    /\ buckets' = Restrict(buckets, {k \in DOMAIN buckets :
                                        now - buckets[k].lastTime <= IdleThreshold})
    /\ UNCHANGED <<rating, rated, arrivals>>

RateNext ==
    \/ /\ \/ \E a \in Addrs, p \in Ports : Allow(a, p) \/ AllowPort(a, p)
          \/ Cleanup
       /\ UNCHANGED now
    \/ Tick /\ UNCHANGED rateVars

RateSpec == RateInit /\ now = 0 /\ [][RateNext]_<<rateVars, now>>

-----------------------------------------------------------------------------
\* A source is never rated faster than the closest two of its packets that
\* followed each other, or than the one per second of a first packet, whatever
\* was evicted, cleaned up and rated anew in between and under either spelling
\* of its address; packets at one instant count as ClampTicks apart
\* (updateBucket, ratelimit.go:74-98).
NeverOverrated ==
    \A k \in DOMAIN buckets :
        \/ buckets[k].pps <= PerSecond
        \/ \E g \in arrivals[k].gaps :
              buckets[k].pps * Span(g) <= PerSecond * TicksPerSecond

\* The limiter forgets a source only when it was idle beyond the threshold,
\* or from a full map of which at most MaxEntries - EvictionSampleSize
\* buckets were older: churn of new keys does not wash out the bucket of a
\* source that keeps sending (ratelimit.go:115, 136).
BudgetsKept ==
    [][\A k \in DOMAIN buckets \ DOMAIN buckets' :
          \/ now - buckets[k].lastTime > IdleThreshold
          \/ /\ Cardinality(DOMAIN buckets) >= MaxEntries
             /\ Cardinality({j \in DOMAIN buckets : buckets[j].lastTime < buckets[k].lastTime})
                    <= Greater(0, MaxEntries - EvictionSampleSize)]_rateVars

=============================================================================
