------------------------------ MODULE RequestProofs ------------------------------
(***************************************************************************)
(* Proofs about the parts a request passes through, for any value of their  *)
(* constants: the circuit breaker, the rate limiter, the timing wheel of    *)
(* TTLs, a shard of the cache, and the batch processor.                     *)
(***************************************************************************)
EXTENDS CircuitBreaker, RateLimiter, TTLWheel, CacheShard, BatchProcessor, TLAPS

\* Leaves that name no prover are for Zenon.
USE Zenon

-----------------------------------------------------------------------------
(* CircuitBreaker *)

BreakerInv == BreakerTypeOK /\ CountsBelowThresholds

(* What is recorded into a half-open breaker closes it at the threshold, so *)
(* the invariant holds of the record RecordSuccess leaves.                  *)
LEMMA SuccessKeepsCounts ==
  ASSUME BreakerInv, NEW c \in Callers, RecordSuccess(c)
  PROVE  BreakerInv'
<1>1. CASE circuit.state # "halfOpen"
  BY SMT, <1>1, ThresholdAssumption
     DEF BreakerInv, BreakerTypeOK, CircuitState, CountsBelowThresholds, RecordSuccess, RecordSuccessOf
<1>2. CASE circuit.state = "halfOpen"
  BY SMT, <1>2, ThresholdAssumption
     DEF BreakerInv, BreakerTypeOK, CircuitState, CountsBelowThresholds, RecordSuccess, RecordSuccessOf
<1> QED BY SMT, <1>1, <1>2

(* Every request, outcome and tick keeps the circuit consistent.            *)
LEMMA BreakerStep == BreakerInv /\ [BreakerNext]_breakerVars => BreakerInv'
<1> SUFFICES ASSUME BreakerInv, [BreakerNext]_breakerVars PROVE BreakerInv'
  BY SMT
<1> USE ThresholdAssumption DEF BreakerInv, BreakerTypeOK, CircuitState, CountsBelowThresholds
<1>1. CASE BreakerClock BY SMT, <1>1 DEF BreakerClock
<1>2. CASE ResetBreaker BY SMT, <1>2 DEF ResetBreaker
<1>3. ASSUME NEW c \in Callers, AllowRequest(c) PROVE BreakerInv'
  BY <1>3 DEF AllowRequest
<1>4. ASSUME NEW c \in Callers, HalfOpen(c) PROVE BreakerInv'
  <2> USE <1>4
  <2>1. CASE circuit.state = "open"
    <3>1. circuit' = [state |-> "halfOpen", failures |-> circuit.failures, successes |-> 0]
      BY <2>1 DEF HalfOpen
    <3> QED BY SMT, <2>1, <3>1 DEF HalfOpen
  <2>2. CASE circuit.state # "open" BY <2>2 DEF HalfOpen
  <2> QED BY <2>1, <2>2
<1>5. ASSUME NEW c \in Callers, RecordSuccess(c) PROVE BreakerInv'
  BY <1>5, SuccessKeepsCounts
<1>6. ASSUME NEW c \in Callers, RecordFailure(c) PROVE BreakerInv'
  <2> USE <1>6
  <2>1. CASE Trips
    <3>1. circuit' = [state |-> "open", failures |-> circuit.failures + 1,
                      successes |-> circuit.successes]
      BY <2>1 DEF RecordFailure
    <3> QED BY SMT, <2>1, <3>1 DEF RecordFailure
  <2>2. CASE ~Trips
    <3>1. circuit' = [state |-> circuit.state, failures |-> circuit.failures + 1,
                      successes |-> circuit.successes]
      BY <2>2 DEF RecordFailure
    <3> QED BY SMT, <2>2, <3>1 DEF RecordFailure, Trips
  <2> QED BY <2>1, <2>2
<1>7. CASE UNCHANGED breakerVars BY <1>7 DEF breakerVars
<1> QED BY SMT, <1>1, <1>2, <1>3, <1>4, <1>5, <1>6, <1>7 DEF BreakerNext

(* For any number of concurrent calls and any thresholds of at least one,   *)
(* a closed breaker is below its failure threshold and a half-open one      *)
(* below its success threshold (RecordFailure, RecordSuccess, AllowRequest). *)
THEOREM BreakerCounts == BreakerSpec => []CountsBelowThresholds
<1>1. BreakerInit => BreakerInv
  BY SMT, ThresholdAssumption
     DEF BreakerInit, BreakerInv, BreakerTypeOK, CircuitState, CountsBelowThresholds
<1>2. BreakerInv => CountsBelowThresholds
  BY DEF BreakerInv
<1> QED BY <1>1, <1>2, BreakerStep, PTL DEF BreakerSpec

-----------------------------------------------------------------------------
(* RateLimiter *)

Bucket == [tokens : 0..BurstSize, lastRefill : Nat]

LimiterTypeOK ==
    /\ second \in 0..LimiterTime
    /\ heap \in Seq(Bucket) /\ \A b \in DOMAIN heap : heap[b].lastRefill <= second
    /\ buckets \in [Clients -> {0} \cup DOMAIN heap]
    /\ asking \in [Requesters -> [client : Clients \cup {"none"}, bucket : {0} \cup DOMAIN heap]]
    /\ granted \in [Clients -> Nat] /\ mark \in [Clients -> [0..LimiterTime -> Nat]]

(* A bucket of the map belongs to one client, in the map and in the calls.  *)
BucketsOwned ==
    /\ \A c, d \in Clients : buckets[c] # 0 /\ buckets[c] = buckets[d] => c = d
    /\ \A r \in Requesters : asking[r].bucket # 0 =>
          /\ asking[r].client \in Clients
          /\ \A c \in Clients : buckets[c] = asking[r].bucket => c = asking[r].client

(* What the client could take at once.  RateHolds is kept because what was  *)
(* granted since any moment and what is there together stay below it.       *)
Potential(c) == IF buckets[c] = 0 THEN BurstSize ELSE Refilled(buckets[c])

RateInv ==
    \A c \in Clients, s \in 0..second :
        granted[c] - mark[c][s] + Potential(c) <= BurstSize + MaxRate * (second - s)

LimiterInv == LimiterTypeOK /\ BucketsOwned /\ RateInv

(* Multiples of the rate, and why an idle bucket is full when cleanup       *)
(* removes it.                                                              *)
LEMMA RateAlgebra ==
  /\ \A d \in Int : MaxRate * d \in Int /\ d * MaxRate = MaxRate * d
  /\ \A d \in Int : MaxRate * (d + 1) = MaxRate * d + MaxRate
  /\ \A d \in Nat : MaxRate * d \in Nat
  /\ \A d \in Nat : d > IdleLimit => MaxRate * d >= BurstSize
<1>1. MaxRate \in Nat /\ BurstSize \in Nat /\ IdleLimit \in Nat /\ MaxRate * IdleLimit >= BurstSize
  BY LimiterAssumption
<1> USE <1>1
<1>2. \A d \in Int : MaxRate * d \in Int /\ d * MaxRate = MaxRate * d BY SMT
<1>3. \A d \in Int : MaxRate * (d + 1) = MaxRate * d + MaxRate BY SMT
<1>4. \A d \in Nat : MaxRate * d \in Nat BY SMT
<1>5. ASSUME NEW d \in Nat, d > IdleLimit PROVE MaxRate * d >= BurstSize
  <2>1. MaxRate * (d - IdleLimit) \in Nat BY SMT, <1>4, <1>5
  <2>2. MaxRate * d = MaxRate * (d - IdleLimit) + MaxRate * IdleLimit BY SMT, <1>5
  <2> QED BY SMT, <1>2, <2>1, <2>2
<1> QED BY <1>2, <1>3, <1>4, <1>5

(* A bucket of n tokens after d units of time, and what the clock, a taken   *)
(* token and a long rest do to it.                                          *)
Level(n, d) == IF n + d * MaxRate > BurstSize THEN BurstSize ELSE n + d * MaxRate

(* The level of a bucket stays within the burst and gains at most the rate  *)
(* in a second.                                                             *)
LEMMA LevelFacts ==
  ASSUME NEW n \in 0..BurstSize
  PROVE  /\ \A d \in Nat : Level(n, d) \in 0..BurstSize
         /\ \A d \in Nat : Level(n, d + 1) <= Level(n, d) + MaxRate
         /\ Level(n, 0) = n
         /\ \A d \in Nat : d > IdleLimit => Level(n, d) = BurstSize
<1>1. MaxRate \in Nat /\ BurstSize \in Nat /\ IdleLimit \in Nat BY LimiterAssumption
<1>2. \A d \in Nat : d * MaxRate \in Nat /\ (d + 1) * MaxRate = d * MaxRate + MaxRate
  BY SMT, RateAlgebra
<1>3. 0 * MaxRate = 0 BY SMT, <1>1
<1>4. \A d \in Nat : d > IdleLimit => d * MaxRate >= BurstSize BY SMT, RateAlgebra
<1> QED BY SMT, <1>1, <1>2, <1>3, <1>4 DEF Level

(* refill computes the level.                                               *)
LEMMA RefilledLevel ==
  LimiterTypeOK => \A b \in DOMAIN heap : /\ second - heap[b].lastRefill \in Nat
                                          /\ heap[b].tokens \in 0..BurstSize
                                          /\ Refilled(b) = Level(heap[b].tokens, second - heap[b].lastRefill)
<1> SUFFICES ASSUME LimiterTypeOK, NEW b \in DOMAIN heap
             PROVE  /\ second - heap[b].lastRefill \in Nat
                    /\ heap[b].tokens \in 0..BurstSize
                    /\ Refilled(b) = Level(heap[b].tokens, second - heap[b].lastRefill)
  BY SMT
<1>1. heap[b] \in Bucket /\ heap[b].lastRefill <= second /\ second \in Nat
  BY SMT, LimiterAssumption DEF LimiterTypeOK
<1>2. second - heap[b].lastRefill \in Nat /\ heap[b].tokens \in 0..BurstSize
  BY SMT, <1>1 DEF Bucket
<1> QED BY <1>2 DEF Refilled, Level

PotentialBounded == \A c \in Clients : Potential(c) \in 0..BurstSize

(* A client can take at most the burst at once.                             *)
LEMMA PotentialBounds == LimiterTypeOK => PotentialBounded
<1> SUFFICES ASSUME LimiterTypeOK, NEW c \in Clients PROVE Potential(c) \in 0..BurstSize
  BY DEF PotentialBounded
<1>1. BurstSize \in Nat BY LimiterAssumption
<1>2. CASE buckets[c] = 0 BY SMT, <1>1, <1>2 DEF Potential
<1>3. CASE buckets[c] # 0
  <2>1. buckets[c] \in DOMAIN heap BY <1>3 DEF LimiterTypeOK
  <2> QED BY SMT, <1>3, <2>1, RefilledLevel, LevelFacts DEF Potential
<1> QED BY <1>2, <1>3

(* RateInv again, from how a step changes what was granted and what is      *)
(* there, when the clock stands.                                            *)
LEMMA RateKept ==
  ASSUME LimiterInv, LimiterTypeOK', UNCHANGED <<second, mark>>,
         \A c \in Clients : granted'[c] + Potential(c)' <= granted[c] + Potential(c)
  PROVE  RateInv'
<1> SUFFICES ASSUME NEW c \in Clients, NEW s \in 0..second
             PROVE  granted'[c] - mark[c][s] + Potential(c)' <= BurstSize + MaxRate * (second - s)
  BY DEF RateInv
<1>1. granted[c] - mark[c][s] + Potential(c) <= BurstSize + MaxRate * (second - s)
  BY DEF LimiterInv, RateInv
<1>2. granted[c] \in Int /\ granted'[c] \in Int /\ mark[c][s] \in Int /\ second - s \in Int
  <2>1. second \in 0..LimiterTime /\ LimiterTime \in Nat BY LimiterAssumption DEF LimiterInv, LimiterTypeOK
  <2>2. s \in 0..LimiterTime /\ second - s \in Int BY SMT, <2>1
  <2>3. mark[c] \in [0..LimiterTime -> Nat] /\ granted[c] \in Nat /\ granted'[c] \in Nat
    BY DEF LimiterInv, LimiterTypeOK
  <2>4. mark[c][s] \in Nat BY <2>2, <2>3
  <2> QED BY SMT, <2>2, <2>3, <2>4
<1>3. Potential(c) \in Int /\ Potential(c)' \in Int
  <2>1. PotentialBounded /\ PotentialBounded' BY PotentialBounds, PTL DEF LimiterInv
  <2> QED BY SMT, <2>1 DEF PotentialBounded
<1>4. MaxRate * (second - s) \in Int /\ BurstSize \in Int BY SMT, <1>2, RateAlgebra, LimiterAssumption
<1> QED BY SMT, <1>1, <1>2, <1>3, <1>4

(* A second passes: the grants so far are noted for the windows that start  *)
(* here.                                                                    *)
LEMMA ClockKeepsRate ==
  ASSUME LimiterInv, LimiterClock PROVE LimiterInv'
<1> USE DEF LimiterInv
<1>1. second \in Nat /\ second' = second + 1 /\ LimiterTime \in Nat /\ second + 1 \in 0..LimiterTime
      /\ MaxRate \in Nat /\ BurstSize \in Nat
  BY SMT, LimiterAssumption DEF LimiterClock, LimiterTypeOK
<1>2. UNCHANGED <<heap, buckets, asking, granted>> BY DEF LimiterClock
<1>3. /\ mark' \in [Clients -> [0..LimiterTime -> Nat]]
      /\ \A c \in Clients : /\ mark'[c][second + 1] = granted[c]
                            /\ \A s \in 0..second : mark'[c][s] = mark[c][s]
  BY SMT, <1>1 DEF LimiterClock, LimiterTypeOK
<1>4. LimiterTypeOK'
  <2>1. \A b \in DOMAIN heap : heap[b].lastRefill <= second /\ heap[b] \in Bucket
    BY SMT DEF LimiterTypeOK
  <2>2. \A b \in DOMAIN heap : heap[b].lastRefill <= second + 1
    BY SMT, <1>1, <2>1 DEF Bucket
  <2> QED BY <1>1, <1>2, <1>3, <2>2 DEF LimiterTypeOK
<1>5. BucketsOwned' BY <1>2 DEF BucketsOwned
<1>6. PotentialBounded /\ PotentialBounded' BY <1>4, PotentialBounds, PTL
<1>7. ASSUME NEW c \in Clients PROVE Potential(c)' <= Potential(c) + MaxRate
  <2>1. CASE buckets[c] = 0 BY SMT, <1>1, <1>2, <2>1 DEF Potential
  <2>2. CASE buckets[c] # 0
    <3> DEFINE b == buckets[c]
               n == heap[b].tokens
               d == second - heap[b].lastRefill
    <3>1. b \in DOMAIN heap BY <2>2 DEF LimiterTypeOK
    <3>2. d \in Nat /\ n \in 0..BurstSize /\ Refilled(b) = Level(n, d)
      BY <3>1, RefilledLevel
    <3>3. Refilled(b)' = Level(n, d + 1)
      <4>0. heap[b] \in Bucket BY SMT, <3>1 DEF LimiterTypeOK
      <4>1. second' - heap[b].lastRefill = d + 1 BY SMT, <1>1, <4>0 DEF Bucket
      <4> QED BY <1>2, <4>1 DEF Refilled, Level
    <3>4. Potential(c) = Refilled(b) /\ Potential(c)' = Refilled(b)'
      BY <1>2, <2>2 DEF Potential, Refilled
    <3> HIDE DEF b, n, d
    <3> QED BY ZenonT(30), <3>2, <3>3, <3>4, LevelFacts
  <2> QED BY <2>1, <2>2
<1>8. RateInv'
  <2> SUFFICES ASSUME NEW c \in Clients, NEW s \in 0..(second + 1)
               PROVE  granted[c] - mark'[c][s] + Potential(c)' <= BurstSize + MaxRate * (second + 1 - s)
    BY SMT, <1>1, <1>2 DEF RateInv
  <2>1. Potential(c) \in 0..BurstSize /\ Potential(c)' \in 0..BurstSize /\ granted[c] \in Nat
    BY <1>6 DEF PotentialBounded, LimiterTypeOK
  <2>2. CASE s = second + 1
    <3>1. MaxRate * (second + 1 - s) = 0 BY SMT, <1>1, <2>2
    <3>2. mark'[c][s] = granted[c] BY <1>3, <2>2
    <3> QED BY SMT, <1>1, <2>1, <3>1, <3>2
  <2>3. CASE s \in 0..second
    <3>1. granted[c] - mark[c][s] + Potential(c) <= BurstSize + MaxRate * (second - s)
      BY <2>3 DEF RateInv
    <3>2. mark'[c][s] = mark[c][s] /\ mark[c][s] \in Nat
      <4>1. s \in 0..LimiterTime BY SMT, <1>1, <2>3
      <4>2. mark[c] \in [0..LimiterTime -> Nat] BY DEF LimiterTypeOK
      <4> QED BY <1>3, <2>3, <4>1, <4>2
    <3>3. second - s \in Int /\ second + 1 - s = (second - s) + 1 BY SMT, <1>1, <2>3
    <3>4. MaxRate * (second + 1 - s) = MaxRate * (second - s) + MaxRate /\ MaxRate * (second - s) \in Int
      BY <3>3, RateAlgebra
    <3> HIDE DEF PotentialBounded
    <3> QED BY SMT, <1>1, <1>7, <2>1, <3>1, <3>2, <3>4
  <2> QED BY SMT, <1>1, <2>2, <2>3
<1> QED BY <1>4, <1>5, <1>8

(* A bucket found in the map, or a new one, which is full.                  *)
LEMMA AllowKeepsRate ==
  ASSUME LimiterInv, NEW r \in Requesters, NEW c \in Clients, Allow(r, c) PROVE LimiterInv'
<1> USE DEF LimiterInv
<1>0. UNCHANGED <<second, granted, mark>> BY DEF Allow
<1>1. CASE buckets[c] # 0
  <2>1. /\ UNCHANGED <<heap, buckets>>
        /\ asking' = [asking EXCEPT ![r] = [client |-> c, bucket |-> buckets[c]]]
    BY <1>1 DEF Allow
  <2> USE <2>1
  <2>2. LimiterTypeOK' BY <1>0 DEF LimiterTypeOK
  <2>3. BucketsOwned' BY SMT, <1>0, <1>1 DEF BucketsOwned, LimiterTypeOK
  <2>4. RateInv' BY <1>0 DEF RateInv, Potential, Refilled
  <2> QED BY <2>2, <2>3, <2>4
<1>2. CASE buckets[c] = 0
  <2>b. PICK b : b = Len(heap) + 1 BY SMT
  <2> DEFINE new == [tokens |-> BurstSize, lastRefill |-> second]
  <2>1. /\ heap' = Append(heap, new) /\ buckets' = [buckets EXCEPT ![c] = b]
        /\ asking' = [asking EXCEPT ![r] = [client |-> c, bucket |-> b]]
    BY <1>2, <2>b DEF Allow
  <2>2. second \in Nat /\ BurstSize \in Nat BY SMT, LimiterAssumption DEF LimiterTypeOK
  <2>3. new \in Bucket /\ new.lastRefill = second /\ new.tokens = BurstSize
    BY SMT, <2>2 DEF Bucket
  <2> HIDE DEF new
  <2>4. /\ heap \in Seq(Bucket) /\ heap' \in Seq(Bucket) /\ DOMAIN heap' = DOMAIN heap \cup {b}
        /\ \A k \in DOMAIN heap : heap'[k] = heap[k]
        /\ heap'[b] = new /\ b \notin DOMAIN heap /\ b # 0 /\ 0 \notin DOMAIN heap
    BY SMT, <2>1, <2>3, <2>b DEF LimiterTypeOK
  <2>5. LimiterTypeOK'
    <3>1. second <= second BY SMT, <2>2
    <3>2. \A k \in DOMAIN heap' : heap'[k].lastRefill <= second
      BY <2>3, <2>4, <3>1 DEF LimiterTypeOK
    <3>3. buckets' \in [Clients -> {0} \cup DOMAIN heap'] BY <2>1, <2>4 DEF LimiterTypeOK
    <3>4. asking' \in [Requesters -> [client : Clients \cup {"none"}, bucket : {0} \cup DOMAIN heap']]
      BY <2>1, <2>4 DEF LimiterTypeOK
    <3> QED BY <1>0, <2>4, <3>2, <3>3, <3>4 DEF LimiterTypeOK
  <2>6. /\ \A d \in Clients : buckets[d] \in {0} \cup DOMAIN heap
        /\ \A q \in Requesters : asking[q].bucket \in {0} \cup DOMAIN heap
    BY DEF LimiterTypeOK
  <2>7. BucketsOwned'
    BY SMT, <2>1, <2>4, <2>6 DEF BucketsOwned, LimiterTypeOK
  <2>8. ASSUME NEW d \in Clients PROVE Potential(d)' = Potential(d)
    <3>1. CASE d = c
      <4>1. Potential(c) = BurstSize BY <1>2 DEF Potential
      <4>2. buckets'[c] = b BY <2>1 DEF LimiterTypeOK
      <4>3. Refilled(b)' = Level(BurstSize, 0)
        <5>1. second - second = 0 BY SMT, <2>2
        <5> QED BY <1>0, <2>3, <2>4, <5>1 DEF Refilled, Level
      <4>4. Potential(c)' = Refilled(b)'
        BY <2>4, <4>2 DEF Potential, Refilled
      <4>5. Level(BurstSize, 0) = BurstSize BY SMT, <2>2, LevelFacts
      <4> QED BY <3>1, <4>1, <4>3, <4>4, <4>5
    <3>2. CASE d # c
      <4>1. buckets'[d] = buckets[d] BY <2>1, <3>2 DEF LimiterTypeOK
      <4>2. buckets[d] # 0 => heap'[buckets[d]] = heap[buckets[d]] BY <2>4, <2>6
      <4> QED BY <1>0, <4>1, <4>2 DEF Potential, Refilled
    <3> QED BY <3>1, <3>2
  <2>9. RateInv'
    BY <1>0, <2>8 DEF RateInv
  <2> QED BY <2>5, <2>7, <2>9
<1> QED BY <1>1, <1>2

(* A dropped bucket was full, and so is the one that would be made.         *)
LEMMA DropKeepsRate ==
  ASSUME LimiterInv, NEW c \in Clients, DropIdleBucket(c) PROVE LimiterInv'
<1> USE DEF LimiterInv
<1>1. /\ UNCHANGED <<second, heap, asking, granted, mark>> /\ buckets[c] # 0
      /\ buckets' = [buckets EXCEPT ![c] = 0] /\ second - heap[buckets[c]].lastRefill > IdleLimit
  BY DEF DropIdleBucket
<1> USE <1>1
<1>2. buckets[c] \in DOMAIN heap BY DEF LimiterTypeOK
<1>3. Potential(c) = BurstSize
  BY <1>2, RefilledLevel, LevelFacts DEF Potential
<1>4. \A d \in Clients : Potential(d)' = Potential(d)
  BY <1>3 DEF Potential, Refilled, LimiterTypeOK
<1>5. LimiterTypeOK' BY DEF LimiterTypeOK
<1>6. BucketsOwned'
  BY SMT, <1>2 DEF BucketsOwned, LimiterTypeOK
<1>7. RateInv' BY <1>4 DEF RateInv
<1> QED BY <1>5, <1>6, <1>7

(* A token that is granted was there; a call whose bucket is no longer in   *)
(* the map takes from a bucket that nobody has.                             *)
LEMMA TakeKeepsRate ==
  ASSUME LimiterInv, NEW r \in Requesters, Take(r) PROVE LimiterInv'
<1> USE DEF LimiterInv
<1>1. PICK b, c, t, n : b = asking[r].bucket /\ c = asking[r].client /\ t = Refilled(b)
                        /\ n = IF t >= 1 THEN 1 ELSE 0
  BY SMTT(20)
<1>2. /\ b # 0 /\ heap' = [heap EXCEPT ![b] = [tokens |-> t - n, lastRefill |-> second]]
      /\ granted' = [granted EXCEPT ![c] = granted[c] + (IF buckets[c] = b THEN n ELSE 0)]
      /\ asking' = [asking EXCEPT ![r] = NoCall] /\ UNCHANGED <<second, buckets, mark>>
  BY <1>1 DEF Take
<1>3. c \in Clients /\ b \in DOMAIN heap /\ \A d \in Clients : buckets[d] = b => d = c
  BY <1>1, <1>2 DEF BucketsOwned, LimiterTypeOK
<1>4. second \in Nat /\ BurstSize \in Nat /\ granted[c] \in Nat
  BY SMT, <1>3, LimiterAssumption DEF LimiterTypeOK
<1>5. t \in 0..BurstSize /\ n \in {0, 1} /\ t - n \in 0..BurstSize
  <2>1. /\ second - heap[b].lastRefill \in Nat /\ heap[b].tokens \in 0..BurstSize
        /\ t = Level(heap[b].tokens, second - heap[b].lastRefill)
    BY <1>1, <1>3, RefilledLevel
  <2>2. t \in 0..BurstSize BY <2>1, LevelFacts
  <2> QED BY SMT, <1>1, <1>4, <2>2
<1> DEFINE new == [tokens |-> t - n, lastRefill |-> second]
<1>6. new \in Bucket /\ new.tokens = t - n /\ new.lastRefill = second
  BY <1>4, <1>5 DEF Bucket
<1> HIDE DEF new
<1>7. /\ heap' \in Seq(Bucket) /\ DOMAIN heap' = DOMAIN heap /\ heap'[b] = new
      /\ \A k \in DOMAIN heap : k # b => heap'[k] = heap[k]
  BY SMT, <1>2, <1>3, <1>6 DEF LimiterTypeOK, new
<1>8. LimiterTypeOK'
  <2>1. second <= second BY SMT, <1>4
  <2>2. \A k \in DOMAIN heap' : heap'[k].lastRefill <= second
    BY <1>6, <1>7, <2>1 DEF LimiterTypeOK
  <2>3. asking' \in [Requesters -> [client : Clients \cup {"none"}, bucket : {0} \cup DOMAIN heap']]
    BY <1>2, <1>7 DEF LimiterTypeOK, NoCall
  <2>4. granted' \in [Clients -> Nat]
    <3>1. granted[c] + (IF buckets[c] = b THEN n ELSE 0) \in Nat BY SMT, <1>4, <1>5
    <3> QED BY <1>2, <3>1 DEF LimiterTypeOK
  <2> QED BY <1>2, <1>7, <2>2, <2>3, <2>4 DEF LimiterTypeOK
<1>9. BucketsOwned'
  BY SMT, <1>2 DEF BucketsOwned, LimiterTypeOK, NoCall
<1>10. ASSUME NEW d \in Clients PROVE granted'[d] + Potential(d)' <= granted[d] + Potential(d)
  <2>1. CASE buckets[d] = b
    <3>1. d = c /\ buckets'[d] = b BY <1>2, <1>3, <2>1
    <3>2. Potential(d) = t BY <1>1, <1>2, <2>1 DEF Potential
    <3>3. Potential(d)' = t - n
      <4>1. Potential(d)' = Refilled(b)' BY <1>2, <3>1 DEF Potential
      <4>2. Refilled(b)' = Level(t - n, 0)
        <5>1. second - second = 0 BY SMT, <1>4
        <5> QED BY SMT, <1>2, <1>6, <1>7, <5>1 DEF Refilled, Level
      <4> QED BY <1>5, <4>1, <4>2, LevelFacts
    <3>4. granted'[d] = granted[d] + n BY <1>2, <1>3, <2>1, <3>1 DEF LimiterTypeOK
    <3> QED BY SMT, <1>4, <1>5, <3>1, <3>2, <3>3, <3>4
  <2>2. CASE buckets[d] # b
    <3>1. granted'[d] = granted[d] /\ granted[d] \in Nat
      BY SMT, <1>2, <1>4, <2>2 DEF LimiterTypeOK
    <3>2. buckets[d] # 0 => heap'[buckets[d]] = heap[buckets[d]]
      BY <1>7, <2>2 DEF LimiterTypeOK
    <3>3. Potential(d)' = Potential(d)
      <4>1. buckets' = buckets /\ second' = second BY <1>2
      <4> QED BY <3>2, <4>1 DEF Potential, Refilled
    <3>4. Potential(d) \in 0..BurstSize BY PotentialBounds DEF PotentialBounded
    <3> QED BY SMT, <1>4, <3>1, <3>3, <3>4
  <2> QED BY <2>1, <2>2
<1>11. RateInv' BY <1>2, <1>8, <1>10, RateKept
<1> QED BY <1>8, <1>9, <1>11

(* Every request, refill, grant and cleanup keeps every window within the   *)
(* rate.                                                                    *)
LEMMA LimiterStep == LimiterInv /\ [LimiterNext]_limiterVars => LimiterInv'
<1> SUFFICES ASSUME LimiterInv, [LimiterNext]_limiterVars PROVE LimiterInv'
  BY SMT
<1>1. CASE UNCHANGED limiterVars
  BY <1>1 DEF limiterVars, LimiterInv, LimiterTypeOK, BucketsOwned, RateInv, Potential, Refilled
<1> QED BY <1>1, ClockKeepsRate, AllowKeepsRate, DropKeepsRate, TakeKeepsRate DEF LimiterNext

(* For any rate, burst and idle limit after which a bucket is full, any     *)
(* number of clients and concurrent calls: in no stretch of time does a     *)
(* client get more tokens from the map's buckets than a burst and the rate  *)
(* allow (Allow, Take, cleanup).                                            *)
THEOREM LimiterHoldsRate == LimiterSpec => []RateHolds
<1>1. LimiterInit => LimiterInv
  <2> SUFFICES ASSUME LimiterInit PROVE LimiterInv BY SMT
  <2>1. BurstSize \in Nat /\ LimiterTime \in Nat /\ MaxRate \in Nat BY LimiterAssumption
  <2>2. LimiterTypeOK BY SMT, <2>1 DEF LimiterInit, LimiterTypeOK, NoCall
  <2>3. BucketsOwned BY DEF LimiterInit, BucketsOwned, NoCall
  <2>4. RateInv BY SMTT(20), <2>1 DEF LimiterInit, RateInv, Potential
  <2> QED BY <2>2, <2>3, <2>4 DEF LimiterInv
<1>2. LimiterInv => RateHolds
  <2> SUFFICES ASSUME LimiterInv, NEW c \in Clients, NEW s \in 0..second
               PROVE  granted[c] - mark[c][s] <= BurstSize + MaxRate * (second - s)
    BY DEF RateHolds
  <2>1. granted[c] - mark[c][s] + Potential(c) <= BurstSize + MaxRate * (second - s)
    BY DEF LimiterInv, RateInv
  <2>2. Potential(c) \in 0..BurstSize BY PotentialBounds DEF PotentialBounded, LimiterInv
  <2>3. second \in 0..LimiterTime /\ LimiterTime \in Nat BY LimiterAssumption DEF LimiterInv, LimiterTypeOK
  <2>4. mark[c] \in [0..LimiterTime -> Nat] /\ granted[c] \in Nat
    BY DEF LimiterInv, LimiterTypeOK
  <2>5. s \in 0..LimiterTime /\ second - s \in Int BY SMT, <2>3
  <2>6. mark[c][s] \in Nat BY <2>4, <2>5
  <2>7. MaxRate * (second - s) \in Int /\ BurstSize \in Nat BY <2>5, RateAlgebra, LimiterAssumption
  <2> QED BY SMT, <2>1, <2>2, <2>4, <2>6, <2>7
<1> QED BY <1>1, <1>2, LimiterStep, PTL DEF LimiterSpec

(* The members of a sequence.                                               *)
LEMMA SeqMembers == \A S : \A s \in Seq(S) : \A i \in DOMAIN s : s[i] \in S
BY SMT

-----------------------------------------------------------------------------
(* TTLManager *)

Count == WheelShape[1].slots
Interval == WheelShape[1].interval

(* When the ticker fires next, and how many ticks it takes to the tick that *)
(* empties a slot of the first wheel.                                       *)
NextTick == IF ticked THEN instant + (Interval - (instant % Interval)) ELSE instant
TicksTo(s) == IF s >= current THEN s - current ELSE s - current + Count

WheelTypeOK ==
    /\ instant \in Nat /\ ticked \in BOOLEAN /\ current \in Slots(1)
    /\ DOMAIN wheels = Levels /\ DOMAIN wheels[1] = Slots(1)
    /\ wheels = [l \in Levels |-> wheels[l]] /\ wheels[1] = [s \in Slots(1) |-> wheels[1][s]]
    /\ \A e \in handling \cup expiring : e.expire \in Nat

(* The tick that comes to an entry of the first wheel is at most an         *)
(* interval late; AddKey counts its slots from the instant, and addToWheel  *)
(* from the slot of the tick that comes next.                               *)
TickInTime(e, s) == NextTick + TicksTo(s) * Interval <= e.expire + Interval
SlotsInTime(p) == p.slots \in Slots(1) /\ instant + p.slots * Interval <= p.entry.expire
SlotsOnTime == \A s \in Slots(1) : \A e \in wheels[1][s] : e.expire \in Nat /\ TickInTime(e, s)

WheelInv ==
    /\ WheelTypeOK /\ SlotsOnTime
    /\ ~ticked => instant % Interval = 0
    /\ \A e \in expiring : e.expire <= instant
    /\ \A p \in adding :
          /\ p.level \in Levels /\ p.entry.expire \in Nat
          /\ p.level = 1 => SlotsInTime(p)

(* The first wheel has at least one slot and an interval of at least one.   *)
LEMMA FirstWheel ==
    /\ 1 \in Levels /\ Count \in Nat \ {0} /\ Interval \in Nat \ {0}
    /\ Slots(1) = 0..(Count - 1)
<1>1. 1 \in Levels
    BY SMT, WheelAssumption DEF Levels
<1>2. WheelShape[1] \in [slots : Nat \ {0}, interval : Nat \ {0}]
    BY <1>1, WheelAssumption, SeqMembers DEF Levels
<1> QED
    BY <1>1, <1>2 DEF Count, Interval, Slots

(* currentSlot goes round: what is less than two rounds, modulo one.        *)
LEMMA GoRound ==
    \A n \in Nat \ {0} : \A c \in 0..(2 * n - 1) : c % n = IF c < n THEN c ELSE c - n
BY SMT

(* The remainder of a multiple of the interval and a rest.                  *)
LEMMA Remainder ==
    \A i \in Nat \ {0} : \A q \in Nat : \A r \in 0..(i - 1) : (i * q + r) % i = r
BY SMT

(* The phase of the ticker one instant later.                               *)
LEMMA NextPhase ==
    \A i \in Nat \ {0} : \A t \in Nat :
        /\ t % i \in 0..(i - 1)
        /\ (t + 1) % i = IF (t % i) + 1 = i THEN 0 ELSE (t % i) + 1
<1> SUFFICES ASSUME NEW i \in Nat \ {0}, NEW t \in Nat
             PROVE  /\ t % i \in 0..(i - 1)
                    /\ (t + 1) % i = IF (t % i) + 1 = i THEN 0 ELSE (t % i) + 1
    OBVIOUS
<1>1. PICK q \in Nat : t = i * q + (t % i)
    <2>1. t \div i \in Nat /\ t = i * (t \div i) + (t % i)
        BY SMT
    <2> QED
        BY <2>1
<1>2. PICK r : r = t % i
    BY SMT
<1> USE <1>2
<1>3. r \in 0..(i - 1)
    BY SMT
<1> USE <1>3
<1>4. CASE r + 1 = i
    <2>1. t + 1 = i * (q + 1) + 0
        BY SMT, <1>1, <1>4
    <2>2. (i * (q + 1) + 0) % i = 0
        BY SMT, Remainder, q + 1 \in Nat, 0 \in 0..(i - 1)
    <2> QED
        BY <2>1, <2>2, <1>4
<1>5. CASE r + 1 # i
    <2>1. t + 1 = i * q + (r + 1) /\ r + 1 \in 0..(i - 1)
        BY SMT, <1>1, <1>5
    <2>2. (i * q + (r + 1)) % i = r + 1
        BY <2>1, Remainder
    <2> QED
        BY <2>1, <2>2, <1>5
<1> QED
    BY <1>4, <1>5

(* The slots that fit in a delay take no longer than the delay.             *)
LEMMA WholeSlots ==
    \A i \in Nat \ {0} : \A t \in Nat : t \div i \in Nat /\ (t \div i) * i <= t
BY SMT

(* The next tick is at most an interval away.                               *)
LEMMA NextTickFacts ==
    ASSUME WheelTypeOK
    PROVE  NextTick \in Nat /\ instant <= NextTick /\ NextTick <= instant + Interval
BY SMTT(20), FirstWheel, NextPhase DEF NextTick, WheelTypeOK

(* The distance to a slot is a position of the wheel.                       *)
LEMMA TicksToFacts ==
    ASSUME WheelTypeOK, NEW s \in Slots(1)
    PROVE  TicksTo(s) \in Slots(1)
BY SMT, FirstWheel DEF TicksTo, WheelTypeOK

(* Multiples of the interval: what the steps below need of them.            *)
LEMMA Multiples ==
    \A n, i \in Nat : n * i \in Nat /\ (n > 0 => (n - 1) * i + i = n * i)
BY SMT

(* addToWheel under the lock: the tick that comes to the slot of a place    *)
(* counted from an earlier instant is the one the place meant.              *)
LEMMA PutOnTime ==
    ASSUME WheelTypeOK, SlotsOnTime, UNCHANGED <<instant, ticked, current>>,
           NEW p, Put(p), p.level \in Levels, p.entry.expire \in Nat,
           p.level = 1 => SlotsInTime(p)
    PROVE  /\ SlotsOnTime'
           /\ DOMAIN wheels' = Levels /\ DOMAIN wheels'[1] = Slots(1)
           /\ wheels' = [l \in Levels |-> wheels'[l]]
           /\ wheels'[1] = [s \in Slots(1) |-> wheels'[1][s]]
<1>1. PICK t : t = TargetSlot(p)
    BY SMT
<1>2. wheels' = [wheels EXCEPT ![p.level] = [wheels[p.level] EXCEPT ![t] = wheels[p.level][t] \cup {p.entry}]]
    BY SMT, <1>1 DEF Put
<1>3. \A s \in Slots(1) : \A e : TickInTime(e, s)' = TickInTime(e, s)
    BY DEF TickInTime, NextTick, TicksTo
<1>4. CASE p.level # 1
    <2>1. wheels'[1] = wheels[1] /\ DOMAIN wheels' = Levels
        BY <1>2, <1>4, FirstWheel DEF WheelTypeOK
    <2>2. wheels' = [l \in Levels |-> wheels'[l]]
        BY <1>2 DEF WheelTypeOK
    <2> QED
        BY <2>1, <2>2, <1>3 DEF WheelTypeOK, SlotsOnTime
<1>5. CASE p.level = 1
    <2>1. t \in Slots(1) /\ TicksTo(t) = p.slots
        <3>1. PICK x : x = current + p.slots /\ t = x % Count
            BY <1>1, <1>5 DEF TargetSlot, Count
        <3> USE <3>1
        <3>2. /\ Count \in Nat \ {0} /\ current \in 0..(Count - 1) /\ p.slots \in 0..(Count - 1)
            BY FirstWheel, <1>5 DEF WheelTypeOK, SlotsInTime
        <3> USE <3>2
        <3>3. x \in 0..(2 * Count - 1)
            BY SMT
        <3>4. t = IF x < Count THEN x ELSE x - Count
            BY <3>3, GoRound
        <3>5. t \in Slots(1)
            <4>1. t \in 0..(Count - 1)
                BY SMT, <3>3, <3>4
            <4> QED
                BY <4>1, FirstWheel
        <3>6. (IF t >= current THEN t - current ELSE t - current + Count) = p.slots
            BY SMT, <3>4
        <3> QED
            BY <3>5, <3>6 DEF TicksTo
    <2>2. TickInTime(p.entry, t)
        <3>1. p.slots \in Nat /\ p.slots * Interval \in Nat
              /\ instant + p.slots * Interval <= p.entry.expire
            BY SMTT(20), <1>5, FirstWheel, Multiples DEF SlotsInTime
        <3>2. PICK x : x = p.slots * Interval
            BY SMT
        <3>3. /\ instant \in Nat /\ NextTick \in Nat /\ NextTick <= instant + Interval
              /\ Interval \in Nat
            BY NextTickFacts, FirstWheel DEF WheelTypeOK
        <3>4. x \in Nat /\ instant + x <= p.entry.expire
            BY <3>1, <3>2
        <3>5. NextTick + x <= p.entry.expire + Interval
            BY SMT, <3>3, <3>4
        <3> QED
            BY <2>1, <3>2, <3>5 DEF TickInTime
    <2>3. /\ wheels'[1] = [wheels[1] EXCEPT ![t] = wheels[1][t] \cup {p.entry}]
          /\ DOMAIN wheels' = Levels /\ wheels' = [l \in Levels |-> wheels'[l]]
        BY <1>2, <1>5, FirstWheel DEF WheelTypeOK
    <2>4. /\ DOMAIN wheels'[1] = Slots(1) /\ wheels'[1] = [s \in Slots(1) |-> wheels'[1][s]]
          /\ \A s \in Slots(1) : \/ wheels'[1][s] = wheels[1][s]
                                 \/ s = t /\ wheels'[1][s] = wheels[1][s] \cup {p.entry}
        <3>1. PICK w : w = wheels[1]
            BY SMT
        <3> USE <3>1
        <3>2. DOMAIN w = Slots(1)
            BY DEF WheelTypeOK
        <3>3. wheels'[1] = [w EXCEPT ![t] = w[t] \cup {p.entry}]
            BY <2>3
        <3>4. DOMAIN wheels'[1] = Slots(1) /\ wheels'[1] = [s \in Slots(1) |-> wheels'[1][s]]
            BY <3>2, <3>3
        <3>5. ASSUME NEW s \in Slots(1)
              PROVE  wheels'[1][s] = w[s] \/ (s = t /\ wheels'[1][s] = w[s] \cup {p.entry})
            BY <3>2, <3>3
        <3> QED
            BY <3>4, <3>5
    <2>5. \A s \in Slots(1) : \A e \in wheels'[1][s] : e.expire \in Nat /\ TickInTime(e, s)
        <3> SUFFICES ASSUME NEW s \in Slots(1), NEW e \in wheels'[1][s]
                     PROVE  e.expire \in Nat /\ TickInTime(e, s)
            BY SMTT(20)
        <3>1. e \in wheels[1][s] \/ (s = t /\ e = p.entry)
            BY SMT, <2>4
        <3> QED
            BY <2>2, <3>1 DEF SlotsOnTime
    <2> QED
        BY <2>3, <2>4, <2>5, <1>3 DEF SlotsOnTime
<1> QED
    BY SMT, <1>4, <1>5

(* addToWheel's choice of a place: the slots of the first wheel are those   *)
(* that fit in the entry's delay.                                           *)
LEMMA PlacesInTime ==
    ASSUME WheelTypeOK, NEW e, e.expire \in Nat, instant <= e.expire, NEW p \in Places(e)
    PROVE  /\ p.level \in Levels /\ p.entry = e
           /\ p.level = 1 => SlotsInTime(p)
<1>1. PICK l \in Fitting(e) : p = [entry |-> e, level |-> l, slots |-> SlotsAway(e, l)]
    BY DEF Places
<1>2. l \in Levels /\ p.level = l /\ p.entry = e /\ p.slots = SlotsAway(e, l)
    BY <1>1 DEF Fitting
<1>3. CASE l = 1
    <2>1. p.slots = (e.expire - instant) \div Interval /\ p.slots < Count
        BY <1>1, <1>2, <1>3 DEF Fitting, SlotsAway, Interval, Count
    <2>2. PICK t, x : t = e.expire - instant /\ x = p.slots * Interval
        BY SMT
    <2> USE <2>2
    <2>3. t \in Nat
        BY SMT DEF WheelTypeOK
    <2>4. p.slots \in Nat /\ x <= t /\ x \in Nat
        BY ZenonT(30), <2>1, <2>3, WholeSlots, Multiples, FirstWheel
    <2>5. instant + x <= e.expire
        BY SMT, <2>4 DEF WheelTypeOK
    <2>6. p.slots \in Slots(1)
        BY SMT, <2>1, <2>4, FirstWheel
    <2> QED
        BY <2>5, <2>6, <1>2 DEF SlotsInTime
<1> QED
    BY ZenonT(30), <1>2, <1>3

(* tick: the list of the current slot is taken off and every other slot     *)
(* comes one tick closer, an interval later.                                *)
LEMMA TickOnTime ==
    ASSUME WheelInv, Tick
    PROVE  WheelInv'
<1>1. PICK n, i, t, c : n = Count /\ i = Interval /\ t = instant /\ c = current
    BY SMT
<1>2. n \in Nat \ {0} /\ i \in Nat \ {0} /\ t \in Nat /\ c \in 0..(n - 1) /\ Slots(1) = 0..(n - 1)
    BY <1>1, FirstWheel DEF WheelInv, WheelTypeOK
<1>3. current' = (IF c + 1 = n THEN 0 ELSE c + 1) /\ current' \in 0..(n - 1)
    <2>1. current' = (c + 1) % n
        BY <1>1 DEF Tick, Count
    <2>2. (c + 1) % n = IF c + 1 < n THEN c + 1 ELSE c + 1 - n
        <3>1. c + 1 \in 0..(2 * n - 1)
            BY SMT, <1>2
        <3> QED
            BY SMT, <1>2, <3>1
    <2> QED
        BY SMT, <2>1, <2>2, <1>2
<1>4. NextTick = t /\ NextTick' = t + i
    BY SMT, <1>1, <1>2 DEF Tick, WheelInv, NextTick
<1>5. wheels' = [wheels EXCEPT ![1] = [wheels[1] EXCEPT ![c] = {}]]
    BY <1>1 DEF Tick
<1>6. /\ wheels'[1] = [wheels[1] EXCEPT ![c] = {}]
      /\ DOMAIN wheels' = Levels /\ wheels' = [l \in Levels |-> wheels'[l]]
    BY <1>5, FirstWheel DEF WheelInv, WheelTypeOK
<1>7. /\ DOMAIN wheels'[1] = Slots(1) /\ wheels'[1] = [s \in Slots(1) |-> wheels'[1][s]]
      /\ wheels'[1][c] = {}
      /\ \A s \in Slots(1) : s # c => wheels'[1][s] = wheels[1][s]
    BY <1>2, <1>6 DEF WheelInv, WheelTypeOK
<1>8. SlotsOnTime'
    <2> SUFFICES ASSUME NEW s \in Slots(1), NEW e \in wheels'[1][s]
                 PROVE  e.expire \in Nat /\ TickInTime(e, s)'
        BY DEF SlotsOnTime
    <2>1. s # c /\ e \in wheels[1][s]
        BY <1>7
    <2>2. e.expire \in Nat /\ NextTick + TicksTo(s) * i <= e.expire + i
        BY <2>1, <1>1 DEF WheelInv, SlotsOnTime, TickInTime
    <2>3. PICK d : d = TicksTo(s)
        BY SMT
    <2>4. d \in Nat \ {0} /\ TicksTo(s)' = d - 1
        <3>1. d = IF s >= c THEN s - c ELSE s - c + n
            BY <2>3, <1>1 DEF TicksTo
        <3>2. TicksTo(s)' = IF s >= current' THEN s - current' ELSE s - current' + n
            BY <1>1 DEF TicksTo, Count
        <3>3. s \in 0..(n - 1) /\ c \in 0..(n - 1) /\ n \in Nat /\ s # c
            BY <2>1, <1>2
        <3> QED
            BY SMT, <3>1, <3>2, <3>3, <1>3
    <2>5. (d - 1) * i + i = d * i /\ d * i \in Nat /\ (d - 1) * i \in Nat
        <3>1. d \in Nat /\ d - 1 \in Nat /\ d > 0 /\ i \in Nat
            BY SMT, <2>4, <1>2
        <3> QED
            BY <3>1, Multiples
    <2>6. t + i + (d - 1) * i <= e.expire + i
        BY SMT, <2>2, <2>3, <2>5, <1>2, <1>4
    <2> QED
        BY <2>2, <2>4, <2>6, <1>1, <1>4 DEF TickInTime
<1>9. \A e \in handling' : e.expire \in Nat
    <2>1. \A e \in wheels[1][current] : e.expire \in Nat
        BY DEF WheelInv, SlotsOnTime, WheelTypeOK
    <2> QED
        BY <2>1 DEF Tick, WheelInv, WheelTypeOK
<1>10. WheelTypeOK'
    BY <1>2, <1>3, <1>6, <1>7, <1>9 DEF Tick, WheelInv, WheelTypeOK
<1> QED
    BY <1>8, <1>10 DEF Tick, WheelInv, SlotsInTime

(* The clock: an instant later the ticker's next time is still the same.    *)
LEMMA ClockOnTime ==
    ASSUME WheelInv, WheelClock
    PROVE  WheelInv'
<1>1. instant \in Nat /\ Interval \in Nat \ {0} /\ instant' = instant + 1
    BY FirstWheel DEF WheelInv, WheelTypeOK, WheelClock
<1> USE <1>1
<1>2. ticked /\ ticked' = ((instant + 1) % Interval # 0)
    BY DEF WheelClock, Interval
<1> USE <1>2
<1>3. /\ instant % Interval \in 0..(Interval - 1)
      /\ (instant + 1) % Interval = IF (instant % Interval) + 1 = Interval
                                    THEN 0 ELSE (instant % Interval) + 1
    BY NextPhase
<1>4. NextTick' = NextTick
    <2>1. PICK r, q : r = instant % Interval /\ q = (instant + 1) % Interval
        BY SMT
    <2> USE <2>1
    <2>2. NextTick = instant + (Interval - r)
        BY DEF NextTick
    <2>3. NextTick' = IF q # 0 THEN instant + 1 + (Interval - q) ELSE instant + 1
        BY DEF NextTick, Interval
    <2>4. r \in 0..(Interval - 1) /\ q = IF r + 1 = Interval THEN 0 ELSE r + 1
        BY <1>3
    <2> QED
        BY SMT, <2>2, <2>3, <2>4
<1>5. SlotsOnTime'
    BY <1>4 DEF WheelClock, WheelInv, SlotsOnTime, TickInTime, TicksTo
<1>6. WheelTypeOK' /\ (~ticked' => instant' % Interval = 0)
    <2>1. instant' \in Nat /\ ticked' \in BOOLEAN
        BY SMT
    <2> QED
        BY <2>1 DEF WheelClock, WheelInv, WheelTypeOK
<1>7. ASSUME NEW e \in expiring
      PROVE  e.expire <= instant'
    BY SMT DEF WheelInv, WheelTypeOK
<1> QED
    BY <1>5, <1>6, <1>7 DEF WheelClock, WheelInv

(* RemoveKey: the slots keep some of their entries.                         *)
LEMMA RemoveOnTime ==
    ASSUME WheelInv, NEW k, RemoveKey(k)
    PROVE  WheelInv'
<1>1. wheels' = [l \in Levels |-> Removed(wheels[l], k)]
    BY DEF RemoveKey
<1>2. wheels'[1] = Removed(wheels[1], k)
    BY <1>1, FirstWheel
<1>3. /\ DOMAIN wheels' = Levels /\ wheels' = [l \in Levels |-> wheels'[l]]
      /\ DOMAIN wheels'[1] = Slots(1) /\ wheels'[1] = [s \in Slots(1) |-> wheels'[1][s]]
    <2>1. DOMAIN wheels' = Levels /\ wheels' = [l \in Levels |-> wheels'[l]]
        BY <1>1
    <2>2. DOMAIN wheels[1] = Slots(1)
        BY DEF WheelInv, WheelTypeOK
    <2>3. wheels'[1] = [s \in Slots(1) |-> {e \in wheels[1][s] : e.key # k}]
        BY <1>2, <2>2 DEF Removed
    <2>4. DOMAIN wheels'[1] = Slots(1) /\ wheels'[1] = [s \in Slots(1) |-> wheels'[1][s]]
        BY <2>3
    <2> QED
        BY <2>1, <2>4
<1>4. \A s \in Slots(1) : wheels'[1][s] \subseteq wheels[1][s]
    BY <1>2 DEF Removed, WheelInv, WheelTypeOK
<1>5. SlotsOnTime'
    BY <1>4 DEF RemoveKey, WheelInv, SlotsOnTime, TickInTime, NextTick, TicksTo
<1>6. WheelTypeOK'
    BY <1>3 DEF RemoveKey, WheelInv, WheelTypeOK
<1> QED
    BY <1>5, <1>6 DEF RemoveKey, WheelInv, SlotsInTime

(* handleEntry after the unlock: an entry whose time has come expires, and  *)
(* another goes to the place it has by now.                                 *)
LEMMA HandleOnTime ==
    ASSUME WheelInv, NEW e, HandleEntry(e)
    PROVE  WheelInv'
<1>1. e.expire \in Nat /\ instant \in Nat /\ UNCHANGED <<instant, ticked, current, adding>>
    BY DEF HandleEntry, WheelInv, WheelTypeOK
<1> USE <1>1
<1>2. handling' \subseteq handling
    BY DEF HandleEntry
<1> USE <1>2
<1>3. CASE expiring' = expiring \cup {e} /\ UNCHANGED wheels /\ e.expire <= instant
    <2> USE <1>3
    <2>1. WheelTypeOK'
        BY DEF WheelInv, WheelTypeOK
    <2>2. SlotsOnTime' 
        BY DEF WheelInv, SlotsOnTime, TickInTime, NextTick, TicksTo
    <2>3. \A x \in expiring' : x.expire <= instant
        BY DEF WheelInv
    <2> QED
        BY <2>1, <2>2, <2>3 DEF WheelInv, SlotsInTime
<1>4. CASE UNCHANGED <<expiring, wheels>>
    <2> USE <1>4
    <2>1. WheelTypeOK'
        BY DEF WheelInv, WheelTypeOK
    <2>2. SlotsOnTime' 
        BY DEF WheelInv, SlotsOnTime, TickInTime, NextTick, TicksTo
    <2> QED
        BY <2>1, <2>2 DEF WheelInv, SlotsInTime
<1>5. CASE UNCHANGED expiring /\ e.expire > instant /\ \E p \in Places(e) : Put(p)
    <2> USE <1>5
    <2>1. PICK p \in Places(e) : Put(p)
        BY SMT
    <2>2. p.level \in Levels /\ p.entry.expire \in Nat /\ (p.level = 1 => SlotsInTime(p))
        <3>1. instant <= e.expire
            BY SMT
        <3> QED
            BY <3>1, PlacesInTime DEF WheelInv
    <2>3. /\ SlotsOnTime'
          /\ DOMAIN wheels' = Levels /\ DOMAIN wheels'[1] = Slots(1)
          /\ wheels' = [l \in Levels |-> wheels'[l]]
          /\ wheels'[1] = [s \in Slots(1) |-> wheels'[1][s]]
        BY <2>1, <2>2, PutOnTime DEF WheelInv
    <2>4. WheelTypeOK'
        BY <2>3 DEF WheelInv, WheelTypeOK
    <2> QED
        BY <2>3, <2>4 DEF WheelInv, SlotsInTime
<1>6. instant > e.expire => e.expire <= instant
    BY SMT
<1> QED
    BY <1>3, <1>4, <1>5, <1>6 DEF HandleEntry, AddToWheel

(* AddKey finds a place from the instant at which it runs.                  *)
LEMMA AddKeyOnTime ==
    ASSUME WheelInv, NEW k, NEW ttl \in Nat, AddKey(k, ttl)
    PROVE  WheelInv'
<1>1. PICK e : e = [key |-> k, expire |-> instant + ttl]
    OBVIOUS
<1>2. e.expire \in Nat /\ instant <= e.expire
    BY SMT, <1>1 DEF WheelInv, WheelTypeOK
<1>3. adding' = adding \cup Places(e) /\ UNCHANGED <<instant, ticked, wheels, current, handling, expiring>>
    BY <1>1 DEF AddKey
<1> USE <1>3
<1>4. \A p \in adding' : /\ p.level \in Levels /\ p.entry.expire \in Nat
                         /\ p.level = 1 => SlotsInTime(p)
    BY <1>2, PlacesInTime DEF WheelInv
<1>5. SlotsOnTime' /\ WheelTypeOK'
    BY DEF WheelInv, SlotsOnTime, TickInTime, NextTick, TicksTo, WheelTypeOK
<1> QED
    BY <1>4, <1>5 DEF WheelInv, SlotsInTime

(* addToWheel puts the entry into the slot that was computed for it.        *)
LEMMA PutEntryOnTime ==
    ASSUME WheelInv, NEW p, PutEntry(p)
    PROVE  WheelInv'
<1>1. p \in adding /\ adding' = adding \ {p} /\ Put(p)
      /\ UNCHANGED <<instant, ticked, current, handling, expiring>>
    BY DEF PutEntry
<1> USE <1>1
<1>2. /\ SlotsOnTime'
      /\ DOMAIN wheels' = Levels /\ DOMAIN wheels'[1] = Slots(1)
      /\ wheels' = [l \in Levels |-> wheels'[l]]
      /\ wheels'[1] = [s \in Slots(1) |-> wheels'[1][s]]
    BY PutOnTime DEF WheelInv
<1>3. WheelTypeOK'
    BY <1>2 DEF WheelInv, WheelTypeOK
<1> QED
    BY <1>2, <1>3 DEF WheelInv, SlotsInTime

(* Every step of the wheel keeps its entries on time.                       *)
LEMMA WheelStep ==
    ASSUME WheelInv, [WheelNext]_wheelVars
    PROVE  WheelInv'
<1>1. CASE UNCHANGED wheelVars
    BY <1>1 DEF wheelVars, WheelInv, WheelTypeOK, SlotsOnTime, TickInTime,
                       NextTick, TicksTo, SlotsInTime
<1>2. ASSUME NEW e \in expiring, ExpireKey(e)
      PROVE  WheelInv'
    BY <1>2 DEF ExpireKey, WheelInv, WheelTypeOK, SlotsOnTime, TickInTime,
                       NextTick, TicksTo, SlotsInTime
<1>3. ASSUME NEW k \in WheelKeys, NEW ttl \in WheelTTLs, AddKey(k, ttl)
      PROVE  WheelInv'
    BY <1>3, AddKeyOnTime, WheelAssumption
<1> QED
    BY <1>1, <1>2, <1>3, RemoveOnTime, TickOnTime, ClockOnTime, PutEntryOnTime,
       HandleOnTime DEF WheelNext

(* The time wheel never expires a key early, nor more than an interval      *)
(* late, for every shape of the wheels, every TTL and every interleaving of *)
(* AddKey and RemoveKey with a tick (ttl_manager.go).                       *)
THEOREM WheelIsOnTime == WheelSpec => []WheelOnTime
<1>1. WheelInit => WheelInv
    <2> SUFFICES ASSUME WheelInit
                 PROVE  WheelInv
        BY SMT
    <2>1. wheels[1] = [s \in Slots(1) |-> {}]
        BY FirstWheel DEF WheelInit
    <2>2. DOMAIN wheels = Levels /\ wheels = [l \in Levels |-> wheels[l]]
        BY DEF WheelInit
    <2>3. 0 \in Slots(1)
        BY SMT, FirstWheel
    <2>4. WheelTypeOK
        <3>1. DOMAIN wheels[1] = Slots(1) /\ wheels[1] = [s \in Slots(1) |-> wheels[1][s]]
            BY <2>1
        <3>2. instant \in Nat /\ ticked \in BOOLEAN
            BY DEF WheelInit
        <3> QED
            BY <2>2, <2>3, <3>1, <3>2 DEF WheelInit, WheelTypeOK
    <2>5. \A s \in Slots(1) : wheels[1][s] = {}
        BY <2>1
    <2> QED
        BY <2>4, <2>5 DEF WheelInit, WheelInv, SlotsOnTime
<1>2. WheelInv => WheelOnTime
    <2> SUFFICES ASSUME WheelInv, NEW s \in Slots(1), NEW e \in wheels[1][s]
                 PROVE  instant <= e.expire + Interval
        BY DEF WheelInv, WheelOnTime, Interval
    <2>1. PICK d : d = TicksTo(s)
        BY SMT
    <2>2. d \in Nat
        BY SMT, <2>1, TicksToFacts, FirstWheel DEF WheelInv
    <2>3. d * Interval \in Nat /\ Interval \in Nat /\ instant \in Nat
        BY <2>2, Multiples, FirstWheel DEF WheelInv, WheelTypeOK
    <2>4. NextTick + d * Interval <= e.expire + Interval /\ e.expire \in Nat
        BY <2>1 DEF WheelInv, SlotsOnTime, TickInTime
    <2>5. instant <= NextTick /\ NextTick \in Nat
        BY NextTickFacts DEF WheelInv
    <2> QED
        BY SMT, <2>3, <2>4, <2>5
<1> QED
    BY <1>1, <1>2, WheelStep, PTL DEF WheelSpec

-----------------------------------------------------------------------------
(* CacheShard *)

(* Division with remainder, as the provers need it.                         *)
LEMMA Division ==
    ASSUME NEW d \in Int, NEW t \in Int, t > 0
    PROVE  d = t * (d \div t) + (d % t)
  BY Z3T(30)

(* int64(ttl.Seconds()) loses nothing of a TTL of whole seconds, and is     *)
(* zero only for no TTL.                                                    *)
LEMMA SecondsExact ==
    ASSUME WholeSeconds, NEW d \in TTLs
    PROVE  /\ d \in Nat /\ d \div TPS \in Nat
           /\ (d \div TPS) * TPS = d
           /\ d \div TPS = 0 <=> d = 0
  <1>1. d \in Nat /\ TPS \in Nat /\ TPS > 0 /\ d % TPS = 0
    BY SMT, TimeAssumption DEF WholeSeconds
  <1> USE <1>1
  <1>2. d = TPS * (d \div TPS) + (d % TPS)
    BY SMT, Division
  <1>3. d \div TPS \in Nat
    BY SMT
  <1> DEFINE q == d \div TPS
  <1>4. q \in Nat /\ d = TPS * q
    BY SMT, <1>2, <1>3
  <1> HIDE DEF q
  <1>5. q * TPS = d /\ (q = 0 <=> d = 0)
    BY SMT, <1>4
  <1> QED
    BY <1>4, <1>5 DEF q

(* Truncated or not, the stored seconds are a natural number.               *)
LEMMA SecondsNat == ASSUME NEW d \in TTLs PROVE d \in Nat /\ d \div TPS \in Nat
  <1>1. d \in Nat /\ TPS \in Nat /\ TPS > 0
    BY SMTT(20), TimeAssumption
  <1> QED
    BY SMT, <1>1

(* CacheShard starts empty.                                                 *)
LEMMA IndInvInit == Init => IndInv
  BY SMT, NoneAssumption DEF Init, IndInv, TypeOK, StoredInv, PendingInv, NoSet, Live

(* No step writes a state of the wrong type.                                *)
LEMMA TypeStep == ASSUME TypeOK, [Next]_vars PROVE TypeOK'
  <1> USE TimeAssumption DEF TypeOK
  <1>1. CASE TimePasses BY SMT, <1>1 DEF TimePasses, engine
  <1>2. ASSUME NEW k \in Keys, NEW v \in Values, NEW d \in TTLs, SetStore(k, v, d)
        PROVE  TypeOK'
    <2>1. d \in Nat /\ d \div TPS \in Nat
      BY SecondsNat
    <2> USE <2>1
    <2>2. [data |-> v, ttl |-> d \div TPS, created |-> now] \in CacheValue
      BY ZenonT(30) DEF CacheValue
    <2>3. [data |-> v, until |-> IF d = 0 THEN NoTime ELSE now + d] \in Promise
      BY SMTT(20) DEF Promise
    <2> QED
      BY <1>2, <2>2, <2>3 DEF SetStore
  <1>3. CASE SetIndex BY SMTT(20), <1>3 DEF SetIndex, NoSet
  <1>4. ASSUME NEW k \in Keys, GetExpired(k) PROVE TypeOK' BY SMT, <1>4 DEF GetExpired
  <1>5. ASSUME NEW k \in Keys, Delete(k) PROVE TypeOK' BY <1>5 DEF Delete, Erase
  <1>6. ASSUME NEW k \in Keys, LazyDelete(k) PROVE TypeOK' BY SMT, <1>6 DEF LazyDelete, Erase
  <1>7. ASSUME NEW k \in Keys, SweepDelete(k) PROVE TypeOK' BY <1>7 DEF SweepDelete, Erase
  <1>8. CASE SweepCollect BY <1>8 DEF SweepCollect
  <1>9. CASE Restart BY SMT, <1>9 DEF Restart
  <1>10. CASE UNCHANGED vars BY <1>10 DEF vars
  <1> QED
    BY ZenonT(30), <1>1, <1>2, <1>3, <1>4, <1>5, <1>6, <1>7, <1>8, <1>9, <1>10 DEF Next

(* A stored value stays the promised one.                                   *)
LEMMA StoredStep ==
    ASSUME WholeSeconds, TypeOK, StoredInv, [Next]_vars
    PROVE  StoredInv'
  <1> USE NoneAssumption, TimeAssumption DEF TypeOK, StoredInv
  <1>1. CASE TimePasses
    <2>1. now' = now + 1 /\ now \in Nat
      BY <1>1 DEF TimePasses
    <2>2. UNCHANGED <<db, promised, setting>>
      BY <1>1 DEF TimePasses, engine
    <2>3. \A k \in Keys : setting.key = k /\ setting.ttl > 0 /\ promised[k] # NoValue =>
                promised[k].until \in Nat /\ promised[k].until <= now' + setting.ttl
      BY SMTT(20), <2>1 DEF NoSet
    <2> QED
      BY <2>2, <2>3
  <1>2. ASSUME NEW k \in Keys, NEW v \in Values, NEW d \in TTLs, SetStore(k, v, d)
        PROVE  StoredInv'
    <2>1. /\ d \in Nat /\ d \div TPS \in Nat
          /\ (d \div TPS) * TPS = d
          /\ d \div TPS = 0 <=> d = 0
      BY SecondsExact
    <2>2. PICK q \in Nat : q = d \div TPS
      BY <2>1
    <2>3. q * TPS = d /\ (q = 0 <=> d = 0)
      BY <2>1, <2>2
    <2>4. /\ db' = [db EXCEPT ![k] = [data |-> v, ttl |-> q, created |-> now]]
          /\ promised' = [promised EXCEPT
               ![k] = [data |-> v, until |-> IF d = 0 THEN NoTime ELSE now + d]]
          /\ setting' = [key |-> k, ttl |-> d] /\ now' = now
      BY ZenonT(30), <1>2, <2>2 DEF SetStore
    <2>5. [data |-> v, until |-> IF d = 0 THEN NoTime ELSE now + d] \in Promise
      BY SMT, <2>1 DEF Promise
    <2> DEFINE end == IF d = 0 THEN NoTime ELSE now + d
    <2>6. db'[k] = [data |-> v, ttl |-> q, created |-> now] /\ promised'[k] = [data |-> v, until |-> end]
      BY <2>4
    <2>7. \A x \in Keys : x # k => db'[x] = db[x] /\ promised'[x] = promised[x] /\ setting'.key # x
      BY <2>4
    <2>8. promised'[k] # NoValue /\ promised'[k].data = v /\ promised'[k].until = end
      <3> HIDE DEF TypeOK, StoredInv
      <3>1. promised'[k] \in Promise /\ NoValue \notin Promise
        BY <2>5, <2>6
      <3>2. promised'[k] # NoValue
        BY <3>1
      <3> HIDE DEF end
      <3>3. promised'[k].data = v /\ promised'[k].until = end
        BY SMT, <2>6
      <3> QED BY <3>2, <3>3
    <2>9. db'[k].data = v /\ db'[k].ttl = q /\ db'[k].created = now /\ setting'.ttl = d
      BY <2>4, <2>6
    <2>10. end = IF q = 0 THEN NoTime ELSE now + q * TPS
      BY <2>3
    <2>11. d > 0 => end \in Nat /\ end <= now + d
      BY SMT, <2>1
    <2> HIDE DEF end
    <2> SUFFICES ASSUME NEW x \in Keys
        PROVE /\ db'[x] # NoValue =>
                   /\ promised'[x] # NoValue /\ promised'[x].data = db'[x].data
                   /\ promised'[x].until = IF db'[x].ttl = 0 THEN NoTime
                                           ELSE db'[x].created + db'[x].ttl * TPS
              /\ setting'.key = x /\ setting'.ttl > 0 /\ promised'[x] # NoValue =>
                   promised'[x].until \in Nat /\ promised'[x].until <= now' + setting'.ttl
      OBVIOUS
    <2>12. CASE x = k
      <3> HIDE DEF TypeOK, StoredInv
      <3> QED BY <2>4, <2>8, <2>9, <2>10, <2>11, <2>12
    <2>13. CASE x # k
      BY <2>7, <2>13
    <2> QED
      BY <2>12, <2>13
  <1>3. CASE SetIndex BY <1>3 DEF SetIndex, NoSet
  <1>4. ASSUME NEW k \in Keys, GetExpired(k) PROVE StoredInv'
    BY <1>4 DEF GetExpired
  <1>5. ASSUME NEW k \in Keys, Delete(k) PROVE StoredInv'
    BY ZenonT(30), <1>5 DEF Delete, Erase, NoSet
  <1>6. ASSUME NEW k \in Keys, LazyDelete(k) PROVE StoredInv'
    BY <1>6 DEF LazyDelete, Erase
  <1>7. ASSUME NEW k \in Keys, SweepDelete(k) PROVE StoredInv'
    BY <1>7 DEF SweepDelete, Erase
  <1>8. CASE SweepCollect BY <1>8 DEF SweepCollect
  <1>9. CASE Restart BY <1>9 DEF Restart, NoSet
  <1>10. CASE UNCHANGED vars BY <1>10 DEF vars
  <1> QED
    BY <1>1, <1>2, <1>3, <1>4, <1>5, <1>6, <1>7, <1>8, <1>9, <1>10 DEF Next

(* Nothing gets to be pending against a live, unexposed value: Get starts a *)
(* deletion, and the sweep collects a key, only past the promised time.     *)
LEMMA PendingStep ==
    ASSUME TypeOK, StoredInv, PendingInv, [Next]_vars
    PROVE  PendingInv'
  <1> USE NoneAssumption, TimeAssumption DEF TypeOK, PendingInv, Live
  <1>1. CASE TimePasses
    <2>1. now' = now + 1 /\ now \in Nat
      BY <1>1 DEF TimePasses
    <2>2. UNCHANGED <<db, lazy, todo, ttlIndex, promised, exposed>>
      BY ZenonT(30), <1>1 DEF TimePasses, engine
    <2>3. \A k \in Keys : Live(k)' => Live(k)
      BY SMT, <2>1, <2>2 DEF Promise
    <2> QED
      BY <2>2, <2>3
  <1>2. ASSUME NEW k \in Keys, NEW v \in Values, NEW d \in TTLs, SetStore(k, v, d)
        PROVE  PendingInv'
    <2>1. d \in Nat /\ d \div TPS \in Nat
      BY SecondsNat
    <2>2. [data |-> v, ttl |-> d \div TPS, created |-> now] \in CacheValue
      BY <2>1 DEF CacheValue
    <2>3. db'[k] # NoValue
      BY <1>2, <2>2 DEF SetStore
    <2>4. exposed' = [exposed EXCEPT ![k] = ttlIndex[k] # NoTime \/ lazy[k] > 0 \/ k \in todo]
      BY <1>2 DEF SetStore
    <2>5. exposed'[k] = (ttlIndex[k] # NoTime \/ lazy[k] > 0 \/ k \in todo)
      BY <2>4
    <2>6. ~exposed'[k] => ttlIndex[k] = NoTime /\ ~(lazy[k] > 0) /\ k \notin todo
      BY <2>5
    <2>7. /\ db'[k] # NoValue
          /\ ~exposed'[k] => ttlIndex[k] = NoTime /\ lazy[k] = 0 /\ k \notin todo
      BY SMT, <2>3, <2>6
    <2>8. \A j \in Keys \ {k} : /\ db'[j] = db[j] /\ promised'[j] = promised[j]
                                /\ exposed'[j] = exposed[j]
      BY ZenonT(30), <1>2 DEF SetStore
    <2>9. UNCHANGED <<now, ttlIndex, lazy, todo>>
      BY ZenonT(30), <1>2 DEF SetStore
    <2> QED
      BY <2>7, <2>8, <2>9
  <1>3. CASE SetIndex
    <2> USE <1>3
    <2>1. UNCHANGED <<now, db, lazy, todo, promised, exposed>>
      BY DEF SetIndex
    <2>2. \A k \in Keys : k = setting.key /\ setting.ttl > 0 /\ promised[k] # NoValue =>
             /\ ttlIndex'[k] = now + setting.ttl
             /\ promised[k].until \in Nat /\ promised[k].until <= now + setting.ttl
      BY DEF SetIndex, StoredInv, NoSet
    <2>3. \A k \in Keys : ~(k = setting.key /\ setting.ttl > 0) => ttlIndex'[k] = ttlIndex[k]
      BY DEF SetIndex, NoSet
    <2> QED
      BY SMT, <2>1, <2>2, <2>3
  <1>4. ASSUME NEW k \in Keys, GetExpired(k) PROVE PendingInv'
    <2>1. db[k] # NoValue /\ db[k].ttl > 0 /\ now > db[k].created + db[k].ttl * TPS
      BY ZenonT(30), <1>4 DEF GetExpired, Expired
    <2>2. db[k].ttl \in Nat /\ db[k].created \in Nat /\ db[k].ttl * TPS \in Nat
      BY SMTT(20), <2>1 DEF CacheValue
    <2>3. ~Live(k)
      BY SMT, <2>1, <2>2 DEF StoredInv
    <2> QED
      BY ZenonT(30), <1>4, <2>3 DEF GetExpired
  <1>5. ASSUME NEW k \in Keys, Delete(k) PROVE PendingInv'
    BY ZenonT(30), <1>5 DEF Delete, Erase
  <1>6. ASSUME NEW k \in Keys, LazyDelete(k) PROVE PendingInv'
    BY SMT, <1>6 DEF LazyDelete, Erase
  <1>7. ASSUME NEW k \in Keys, SweepDelete(k) PROVE PendingInv'
    BY ZenonT(30), <1>7 DEF SweepDelete, Erase
  <1>8. CASE SweepCollect
    <2>1. \A k \in Keys : Live(k) /\ ~exposed[k] => ~Overdue(k)
      BY SMT DEF Overdue, Promise
    <2> QED
      BY ZenonT(30), <1>8, <2>1 DEF SweepCollect
  <1>9. CASE Restart BY <1>9 DEF Restart
  <1>10. CASE UNCHANGED vars BY <1>10 DEF vars
  <1> QED
    BY <1>1, <1>2, <1>3, <1>4, <1>5, <1>6, <1>7, <1>8, <1>9, <1>10 DEF Next

(* IndInv is an invariant of CacheShard when TTLs are whole seconds.        *)
THEOREM ShardInvariance == ASSUME WholeSeconds PROVE Spec => []IndInv
  <1>1. IndInv /\ [Next]_vars => IndInv'
    BY TypeStep, StoredStep, PendingStep DEF IndInv
  <1> QED
    BY IndInvInit, <1>1, PTL DEF Spec

(* IndInv tells the expiry test of Get from the promise.                    *)
LEMMA FoundIsLive ==
    ASSUME IndInv, NEW k \in Keys, db[k] # NoValue
    PROVE  Found(k) <=> Live(k)
  <1>1. /\ db[k].ttl \in Nat /\ db[k].created \in Nat
        /\ TPS \in Nat /\ db[k].ttl * TPS \in Nat /\ now \in Nat
    BY SMT, TimeAssumption DEF IndInv, TypeOK, CacheValue
  <1>2. /\ promised[k] # NoValue
        /\ promised[k].until = IF db[k].ttl = 0 THEN NoTime
                                              ELSE db[k].created + db[k].ttl * TPS
    BY DEF IndInv, StoredInv
  <1> QED
    BY SMTT(20), <1>1, <1>2, NoneAssumption DEF Found, Expired, Live

(* Get finds only what the last Set promised, and only in its time.         *)
THEOREM GetIsFaithful == ASSUME WholeSeconds PROVE Spec => []ServedAsPromised
  <1>1. IndInv => ServedAsPromised
    BY FoundIsLive DEF ServedAsPromised, Found, IndInv, StoredInv
  <1> QED
    BY <1>1, ShardInvariance, PTL

(* A value written with no deletion of its key pending is found for as long *)
(* as its TTL says.                                                         *)
THEOREM WritesAreKept == ASSUME WholeSeconds PROVE Spec => []SafeWritesKept
  <1>1. IndInv => SafeWritesKept
    BY FoundIsLive DEF SafeWritesKept, IndInv, PendingInv
  <1> QED
    BY <1>1, ShardInvariance, PTL

-----------------------------------------------------------------------------
(* BatchProcessor *)

Groups == {Group(i) : i \in Items}
Batch == [op : {"get", "set", "delete"}, ttl : BOOLEAN, items : SUBSET Items,
          todo : SUBSET Items, groups : SUBSET Groups, failed : SUBSET Items,
          unread : SUBSET Items, written : SUBSET Items,
          results : [BatchKeys -> {"none", "ok", "error", "missing"}]]

(* The results so far: the keys of the groups that are done, and no other,  *)
(* have an answer unless their value could not be read, and the successes   *)
(* of a writing batch were written.                                         *)
Answered(b) == {i \in b.items \ b.unread : Group(i) \notin b.groups}
Backed(b) ==
    /\ b \in Batch /\ \A i \in b.unread : Group(i) \notin b.groups
    /\ \A k \in BatchKeys :
          /\ b.results[k] # "none" <=> \E i \in Answered(b) : i[2] = k
          /\ b.op # "get" /\ b.results[k] = "ok" => \E i \in b.written : i[2] = k

BatchInv ==
    /\ batch = [c \in BatchCallers |-> batch[c]]
    /\ \A c \in BatchCallers : batch[c] = NoBatch \/ Backed(batch[c])

(* One caller's batch changes and the others do not.                        *)
LEMMA OneBatch ==
    ASSUME BatchInv, NEW c \in BatchCallers, NEW m, m = NoBatch \/ Backed(m),
           batch' = [batch EXCEPT ![c] = m]
    PROVE  BatchInv'
<1>1. batch' = [d \in BatchCallers |-> batch'[d]]
    BY DEF BatchInv
<1>2. ASSUME NEW d \in BatchCallers
      PROVE  batch'[d] = NoBatch \/ Backed(batch'[d])
    <2>1. batch'[d] = m \/ batch'[d] = batch[d]
        BY DEF BatchInv
    <2> QED
        BY <2>1 DEF BatchInv
<1> QED
    BY <1>1, <1>2 DEF BatchInv

(* The answers of a group: each item of it that was read has one, the other *)
(* keys keep theirs, and the successes are among what was written.          *)
Merged(b, m, g) ==
    /\ m \in Batch /\ m.op = b.op /\ m.items = b.items /\ m.groups = b.groups \ {g}
    /\ b.written \subseteq m.written /\ b.unread \subseteq m.unread
    /\ \A j \in m.unread : j \in b.unread \/ Group(j) = g
    /\ \A k \in BatchKeys :
          LET i == <<g[1], k>>
          IN  IF i \in b.items \ m.unread /\ Group(i) = g
              THEN m.results[k] # "none" /\ (m.results[k] = "ok" /\ m.op # "get" => i \in m.written)
              ELSE m.results[k] = b.results[k]

(* A group merged into the answer leaves the answers of the other groups as *)
(* they were.                                                               *)
LEMMA MergeIsBacked ==
    ASSUME NEW b, Backed(b), NEW m, NEW g \in b.groups, Merged(b, m, g)
    PROVE  Backed(m)
<1>1. ASSUME NEW k \in BatchKeys
      PROVE  /\ m.results[k] # "none" <=> \E i \in Answered(m) : i[2] = k
             /\ m.op # "get" /\ m.results[k] = "ok" => \E i \in m.written : i[2] = k
    <2>1. PICK i : i = <<g[1], k>>
        OBVIOUS
    <2>2. i[2] = k
        BY <2>1
    <2>3. Answered(b) \subseteq Answered(m)
        BY DEF Answered, Merged
    <2>4. CASE i \in b.items \ m.unread /\ Group(i) = g
        <3>1. i \in Answered(m)
            BY <2>4 DEF Answered, Merged
        <3>2. m.results[k] # "none" /\ (m.results[k] = "ok" /\ m.op # "get" => i \in m.written)
            BY <2>1, <2>4 DEF Merged
        <3> QED
            BY <3>1, <3>2, <2>2
    <2>5. CASE ~(i \in b.items \ m.unread /\ Group(i) = g)
        <3>1. m.results[k] = b.results[k]
            BY <2>1, <2>5 DEF Merged
        <3>2. ASSUME NEW j \in Answered(m), j[2] = k
              PROVE  j \in Answered(b)
            <4>1. j \in b.items \ m.unread /\ b.items \subseteq Items
                BY DEF Answered, Merged, Backed, Batch
            <4> USE <4>1
            <4>2. j = <<j[1], j[2]>>
                BY SMT, BatchAssumption
            <4>3. Group(j) # g
                <5> SUFFICES ASSUME Group(j) = g
                             PROVE  FALSE
                    OBVIOUS
                <5>1. g[1] = j[1]
                    BY DEF Group
                <5>2. j = i
                    BY <5>1, <4>2, <3>2, <2>1
                <5> QED
                    BY <5>2, <2>5
            <4> QED
                BY ZenonT(30), <4>3 DEF Answered, Merged
        <3>3. b.results[k] # "none" <=> \E j \in Answered(b) : j[2] = k
            BY DEF Backed
        <3>4. m.op # "get" /\ m.results[k] = "ok" => \E j \in b.written : j[2] = k
            BY <3>1 DEF Backed, Merged
        <3> QED
            BY <3>1, <3>2, <3>3, <3>4, <2>3 DEF Merged
    <2> QED
        BY <2>4, <2>5
<1>2. \A i \in m.unread : Group(i) \notin m.groups
    BY DEF Backed, Merged
<1> QED
    BY <1>1, <1>2 DEF Backed, Merged

(* The merge of a group's answers, with what the group wrote or could not   *)
(* read.                                                                    *)
LEMMA MergeKeepsInv ==
    ASSUME BatchInv, NEW c \in BatchCallers, batch[c] # NoBatch, NEW g \in batch[c].groups,
           NEW W \in SUBSET Items, NEW U \in SUBSET InGroup(batch[c].items, g),
           NEW a \in [InGroup(batch[c].items, g) \ U -> {"ok", "error", "missing"}],
           \A i \in DOMAIN a : a[i] = "ok" /\ batch[c].op # "get" => i \in W,
           NEW m, \/ m = Merge(c, g, a) /\ W = {} /\ U = {}
                  \/ m = [Merge(c, g, a) EXCEPT !.written = @ \cup W] /\ U = {}
                  \/ m = [Merge(c, g, a) EXCEPT !.unread = @ \cup U] /\ W = {},
           batch' = [batch EXCEPT ![c] = m]
    PROVE  BatchInv'
<1>1. PICK b, n : b = batch[c] /\ n = Merge(c, g, a)
    BY SMT
<1>2. Backed(b) /\ g \in b.groups /\ b \in Batch
    BY <1>1 DEF BatchInv, Backed
<1> DEFINE res == [k \in BatchKeys |-> IF <<g[1], k>> \in DOMAIN a THEN a[<<g[1], k>>]
                                       ELSE b.results[k]]
<1>3. n = [b EXCEPT !.groups = b.groups \ {g}, !.todo = Without(b.todo, g), !.results = res]
    BY <1>1 DEF Merge
<1>4. res \in [BatchKeys -> {"none", "ok", "error", "missing"}]
    BY <1>2 DEF Batch
<1>5. ASSUME NEW k \in BatchKeys, NEW i, i = <<g[1], k>>
      PROVE  IF i \in b.items \ U /\ Group(i) = g
             THEN res[k] # "none" /\ (res[k] = "ok" /\ b.op # "get" => i \in W)
             ELSE res[k] = b.results[k]
    <2>1. i \in DOMAIN a <=> i \in b.items \ U /\ Group(i) = g
        BY <1>1 DEF InGroup
    <2>2. res[k] = IF i \in DOMAIN a THEN a[i] ELSE b.results[k]
        BY <1>5
    <2>3. i \in DOMAIN a => a[i] # "none" /\ (a[i] = "ok" /\ b.op # "get" => i \in W)
        BY <1>1
    <2> QED
        BY <2>1, <2>2, <2>3
<1> HIDE DEF res
<1>6. /\ n \in Batch /\ n.op = b.op /\ n.items = b.items /\ n.groups = b.groups \ {g}
      /\ n.results = res /\ n.written = b.written /\ n.unread = b.unread
    BY ZenonT(30), <1>2, <1>3, <1>4 DEF Batch, Without
<1>7. /\ m \in Batch /\ m.op = b.op /\ m.items = b.items /\ m.groups = b.groups \ {g}
      /\ m.results = res /\ m.written = b.written \cup W /\ m.unread = b.unread \cup U
    <2>0. U \in SUBSET Items
        BY <1>1, <1>2 DEF Batch, InGroup
    <2>1. CASE m = n /\ W = {} /\ U = {}
        BY <1>6, <2>1, \A S : S \cup {} = S
    <2>2. CASE m = [n EXCEPT !.written = n.written \cup W] /\ U = {}
        BY <1>6, <2>2, \A S : S \cup {} = S DEF Batch
    <2>3. CASE m = [n EXCEPT !.unread = n.unread \cup U] /\ W = {}
        BY <1>6, <2>0, <2>3, \A S : S \cup {} = S DEF Batch
    <2> QED
        BY <2>1, <2>2, <2>3, <1>1
<1>8. Merged(b, m, g)
    <2>1. /\ b.written \subseteq m.written /\ b.unread \subseteq m.unread
          /\ \A j \in m.unread : j \in b.unread \/ Group(j) = g
        BY <1>1, <1>7 DEF InGroup
    <2>2. ASSUME NEW k \in BatchKeys, NEW i, i = <<g[1], k>>
          PROVE  IF i \in b.items \ m.unread /\ Group(i) = g
                 THEN res[k] # "none" /\ (res[k] = "ok" /\ b.op # "get" => i \in m.written)
                 ELSE res[k] = b.results[k]
        <3>1. b.items \ m.unread \subseteq b.items \ U
            BY <1>7
        <3>2. i \in b.items \ U /\ Group(i) = g => i \in b.items \ m.unread
            <4>1. \A j \in b.unread : Group(j) # g
                BY <1>2 DEF Backed
            <4>2. m.unread = b.unread \cup U
                BY <1>7
            <4> QED
                BY <4>1, <4>2
        <3> QED
            BY <1>5, <1>7, <2>2, <3>1, <3>2
    <2> QED
        BY <1>7, <2>1, <2>2 DEF Merged
<1> QED
    BY <1>1, <1>2, <1>8, MergeIsBacked, OneBatch

(* getShard finds no database: no answer is a success.                      *)
LEMMA NotFoundKeepsInv ==
    ASSUME BatchInv, NEW c \in BatchCallers, batch[c] # NoBatch, NEW g \in batch[c].groups,
           ShardNotFound(c, g)
    PROVE  BatchInv'
<1>1. PICK a : a = Errors(InGroup(batch[c].items, g))
    OBVIOUS
<1>2. /\ a \in [InGroup(batch[c].items, g) \ {} -> {"ok", "error", "missing"}]
      /\ \A i \in DOMAIN a : a[i] = "error"
    BY <1>1 DEF Errors
<1>3. batch' = [batch EXCEPT ![c] = Merge(c, g, a)]
    BY <1>1 DEF ShardNotFound
<1>4. {} \in SUBSET Items /\ {} \in SUBSET InGroup(batch[c].items, g)
    OBVIOUS
<1> QED
    BY <1>2, <1>3, <1>4, "error" # "ok", MergeKeepsInv

(* batchGetFromShard: a View of the group.                                  *)
LEMMA ViewKeepsInv ==
    ASSUME BatchInv, NEW c \in BatchCallers, batch[c] # NoBatch, NEW g \in batch[c].groups,
           View(c, g)
    PROVE  BatchInv'
<1>0. PICK all : all = InGroup(batch[c].items, g)
    OBVIOUS
<1>a. PICK bad \in SUBSET all : \E U \in SUBSET {i \in all \ bad : cell[i] # "none"} :
         batch' = [batch EXCEPT ![c] =
            [Merge(c, g, Seen(all \ U, bad)) EXCEPT !.unread = @ \cup U]]
    BY <1>0 DEF View
<1>1. PICK U \in SUBSET {i \in all \ bad : cell[i] # "none"} :
         batch' = [batch EXCEPT ![c] =
            [Merge(c, g, Seen(all \ U, bad)) EXCEPT !.unread = @ \cup U]]
    BY <1>a
<1>2. PICK a : a = Seen(all \ U, bad)
    OBVIOUS
<1>3. a \in [all \ U -> {"ok", "error", "missing"}]
    BY <1>2 DEF Seen
<1>4. batch[c].op = "get"
    BY DEF View
<1>5. {} \in SUBSET Items /\ U \in SUBSET all
    OBVIOUS
<1> QED
    BY <1>0, <1>1, <1>2, <1>3, <1>4, <1>5, MergeKeepsInv

(* Flush: the successes noted before stand if it succeeds, and none does if *)
(* it fails.                                                                *)
LEMMA FlushKeepsInv ==
    ASSUME BatchInv, NEW c \in BatchCallers, batch[c] # NoBatch, NEW g \in batch[c].groups,
           Flush(c, g)
    PROVE  BatchInv'
<1>1. PICK all, buffered : all = InGroup(batch[c].items, g) /\ buffered = all \ batch[c].failed
    OBVIOUS
<1> USE <1>1
<1>2. PICK a, W :
         /\ W \in SUBSET buffered
         /\ \/ a = Successes(all, buffered) /\ W = buffered
            \/ a = Errors(all)
         /\ batch' = [batch EXCEPT ![c] = [Merge(c, g, a) EXCEPT !.written = @ \cup W]]
    BY DEF Flush
<1> USE <1>2
<1>3. buffered \subseteq Items
    BY DEF BatchInv, Backed, Batch, InGroup
<1>4. /\ a \in [all \ {} -> {"ok", "error", "missing"}]
      /\ \A i \in DOMAIN a : a[i] = "ok" => i \in W
    BY SMT DEF Errors, Successes
<1>5. W \in SUBSET Items /\ {} \in SUBSET all
    BY <1>3
<1> QED
    BY <1>4, <1>5, MergeKeepsInv

(* batchSetToShard and batchDeleteFromShard, one item.                      *)
LEMMA BufferKeepsInv ==
    ASSUME BatchInv, NEW c \in BatchCallers, batch[c] # NoBatch, NEW i \in batch[c].todo,
           Buffered(c, i) \/ Refused(c, i)
    PROVE  BatchInv'
<1>1. PICK b : b = batch[c]
    BY SMT
<1>2. Backed(b) /\ b \in Batch
    BY <1>1 DEF BatchInv, Backed
<1> USE <1>2
<1>3. PICK f : /\ f = b.failed \/ f = b.failed \cup {i}
               /\ batch' = [batch EXCEPT ![c] = [b EXCEPT !.todo = b.todo \ {i}, !.failed = f]]
    <2>1. CASE Buffered(c, i)
        <3>1. batch' = [batch EXCEPT ![c] = [b EXCEPT !.todo = b.todo \ {i}]]
            BY <1>1, <2>1 DEF Buffered
        <3>2. [b EXCEPT !.todo = b.todo \ {i}] = [b EXCEPT !.todo = b.todo \ {i}, !.failed = b.failed]
            BY DEF Batch
        <3> QED
            BY <3>1, <3>2
    <2>2. CASE Refused(c, i)
        BY <1>1, <2>2 DEF Refused
    <2> QED
        BY <2>1, <2>2
<1>4. PICK m : m = [b EXCEPT !.todo = b.todo \ {i}, !.failed = f]
    BY SMT
<1>5. /\ m \in Batch /\ m.op = b.op /\ m.items = b.items /\ m.groups = b.groups
      /\ m.results = b.results /\ m.written = b.written /\ m.unread = b.unread
    <2>1. f \in SUBSET Items /\ b.todo \ {i} \in SUBSET Items
        BY <1>1, <1>3 DEF Batch
    <2> QED
        BY <1>4, <2>1 DEF Batch
<1>6. Backed(m)
    BY ZenonT(30), <1>5 DEF Backed, Answered
<1> QED
    BY <1>3, <1>4, <1>6, OneBatch

(* MGet, MSet and MDelete: no group is done and no key has an answer.       *)
LEMMA StartKeepsInv ==
    ASSUME BatchInv, NEW c \in BatchCallers, NEW op \in {"get", "set", "delete"},
           NEW S \in SUBSET Items, NEW ttl \in BOOLEAN, StartBatch(c, op, S, ttl)
    PROVE  BatchInv'
<1>1. PICK m : m = [op |-> op, ttl |-> ttl, items |-> S, todo |-> S,
                    groups |-> {Group(i) : i \in S}, failed |-> {}, unread |-> {},
                    written |-> {}, results |-> [k \in BatchKeys |-> "none"]]
    OBVIOUS
<1> USE <1>1
<1>2. batch' = [batch EXCEPT ![c] = m]
    BY DEF StartBatch
<1>3. /\ m \in Batch /\ m.groups = {Group(i) : i \in S} /\ m.items = S
      /\ m.unread = {}
    <2>1. /\ S \in SUBSET Items /\ {} \in SUBSET Items /\ {Group(i) : i \in S} \in SUBSET Groups
          /\ [k \in BatchKeys |-> "none"] \in [BatchKeys -> {"none", "ok", "error", "missing"}]
        BY DEF Groups
    <2> QED
        BY <2>1 DEF Batch
<1>4. \A k \in BatchKeys : m.results[k] = "none"
    BY SMT
<1>5. Answered(m) = {}
    BY ZenonT(30), <1>3 DEF Answered
<1>6. Backed(m)
    BY <1>3, <1>4, <1>5 DEF Backed
<1> QED
    BY <1>2, <1>6, OneBatch

(* Every step of a batch and of the shards it writes to.                    *)
LEMMA BatchStep ==
    ASSUME BatchInv, [BatchNext]_batchVars
    PROVE  BatchInv'
<1>1. CASE UNCHANGED batch
    BY <1>1 DEF BatchInv
<1>2. ASSUME NEW c \in BatchCallers, NEW S \in SUBSET Items,
             MGet(c, S) \/ MDelete(c, S) \/ \E ttl \in BOOLEAN : MSet(c, S, ttl)
      PROVE  BatchInv'
    <2>1. PICK op \in {"get", "set", "delete"}, ttl \in BOOLEAN : StartBatch(c, op, S, ttl)
        BY <1>2 DEF MGet, MDelete, MSet
    <2> QED
        BY <2>1, StartKeepsInv
<1>3. ASSUME NEW c \in BatchCallers, EndBatch(c)
      PROVE  BatchInv'
    BY <1>3, OneBatch DEF EndBatch
<1>4. ASSUME NEW c \in BatchCallers, batch[c] # NoBatch, NEW i \in batch[c].todo,
             BufferSet(c, i) \/ BufferDelete(c, i)
      PROVE  BatchInv'
    BY <1>4, BufferKeepsInv DEF BufferSet, BufferDelete
<1> QED
    BY <1>1, <1>2, <1>3, <1>4, NotFoundKeepsInv, FlushKeepsInv, ViewKeepsInv
       DEF BatchNext, batchVars, DropDatabase, ExpireItem, AsyncDelete

(* Every batch returns one answer for each key it names and could read, for *)
(* no other, and every success of MSet or MDelete was written, for all databases,     *)
(* keys, shards and callers and all interleavings of the groups' goroutines *)
(* (store/batch.go).                                                        *)
THEOREM BatchesAreBacked == BatchSpec => []BatchAnswersBacked
<1>1. BatchInit => BatchInv
    BY DEF BatchInit, BatchInv
<1>2. BatchInv => BatchAnswersBacked
    <2> SUFFICES ASSUME BatchInv, NEW c \in BatchCallers, NEW b, b = batch[c],
                        b # NoBatch, b.groups = {}, NEW k \in BatchKeys
                 PROVE  /\ b.results[k] # "none" <=> \E i \in Answerable(b) : i[2] = k
                        /\ b.op # "get" /\ b.results[k] = "ok" => \E i \in b.written : i[2] = k
        BY DEF BatchAnswersBacked
    <2>1. Backed(b)
        BY DEF BatchInv
    <2>2. Answered(b) = Answerable(b)
        BY DEF Answered, Answerable
    <2>3. /\ b.results[k] # "none" <=> \E i \in Answered(b) : i[2] = k
          /\ b.op # "get" /\ b.results[k] = "ok" => \E i \in b.written : i[2] = k
        BY <2>1 DEF Backed
    <2> QED
        BY <2>2, <2>3
<1> QED
    BY <1>1, <1>2, BatchStep, PTL DEF BatchSpec
==================================================================================
