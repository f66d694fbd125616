------------------------------- MODULE RateLimiter -------------------------------
(***************************************************************************)
(* RateLimiter and TokenBucket of business/middleware.go.  Allow finds or   *)
(* makes the client's bucket under rl.mu and takes a token from it under    *)
(* the bucket's own lock, later; in between the cleanup goroutine may drop  *)
(* the bucket from the map, and the call goes on with a bucket nobody else  *)
(* will find.  Tokens are whole: the clock counts in units in which the     *)
(* refill is a whole number.                                               *)
(***************************************************************************)
EXTENDS Integers, Sequences

CONSTANTS
    Requesters,     \* goroutines calling Allow
    Clients,
    MaxRate,        \* tokens added per unit of time
    BurstSize,
    IdleLimit,      \* a bucket not used for longer is dropped (10 minutes)
    MaxBuckets,     \* bound: buckets ever made
    LimiterTime     \* bound: the clock stops here

(* A bucket left alone for IdleLimit is full again, so that a new one, made *)
(* full, gives nothing away.                                               *)
ASSUME LimiterAssumption ==
    /\ {MaxRate, BurstSize, IdleLimit, MaxBuckets, LimiterTime} \subseteq Nat
    /\ MaxRate * IdleLimit >= BurstSize

VARIABLES
    second,     \* the clock
    heap,       \* every bucket made: tokens and lastRefill
    buckets,    \* rl.buckets: the client's bucket, 0 if it has none
    asking,     \* the client and the bucket each Allow in progress holds
    granted,    \* history: tokens each client got from buckets in the map
    mark        \* history: granted when the clock reached each second

limiterVars == <<second, heap, buckets, asking, granted, mark>>

NoCall == [client |-> "none", bucket |-> 0]

LimiterInit ==
    /\ second = 0 /\ heap = << >>
    /\ buckets = [c \in Clients |-> 0]
    /\ asking = [r \in Requesters |-> NoCall]
    /\ granted = [c \in Clients |-> 0]
    /\ mark = [c \in Clients |-> [s \in 0..LimiterTime |-> 0]]

-----------------------------------------------------------------------------

LimiterClock ==
    /\ second < LimiterTime
    /\ second' = second + 1
    /\ mark' = [c \in Clients |-> [mark[c] EXCEPT ![second + 1] = granted[c]]]
    /\ UNCHANGED <<heap, buckets, asking, granted>>

(* Allow, under rl.mu: a new bucket is full.                                *)
Allow(r, c) ==
    /\ asking[r] = NoCall
    /\ \/ /\ buckets[c] # 0
          /\ asking' = [asking EXCEPT ![r] = [client |-> c, bucket |-> buckets[c]]]
          /\ UNCHANGED <<heap, buckets>>
       \/ LET b == Len(heap) + 1
          IN  /\ buckets[c] = 0 /\ b <= MaxBuckets
              /\ heap' = Append(heap, [tokens |-> BurstSize, lastRefill |-> second])
              /\ buckets' = [buckets EXCEPT ![c] = b]
              /\ asking' = [asking EXCEPT ![r] = [client |-> c, bucket |-> b]]
    /\ UNCHANGED <<second, granted, mark>>

RefilledNoCap(b) == heap[b].tokens + (second - heap[b].lastRefill) * MaxRate

Refilled(b) ==
    LET full == heap[b].tokens + (second - heap[b].lastRefill) * MaxRate
    IN  IF full > BurstSize THEN BurstSize ELSE full

(* Take, under the bucket's lock.                                           *)
Take(r) ==
    LET b == asking[r].bucket
        c == asking[r].client
        t == Refilled(b)
        n == IF t >= 1 THEN 1 ELSE 0
    IN  /\ b # 0
        /\ heap' = [heap EXCEPT ![b] = [tokens |-> t - n, lastRefill |-> second]]
        /\ granted' = [granted EXCEPT ![c] = @ + (IF buckets[c] = b THEN n ELSE 0)]
        /\ asking' = [asking EXCEPT ![r] = NoCall]
        /\ UNCHANGED <<second, buckets, mark>>

(* cleanup drops the bucket of a client that has not called for long.       *)
DropIdleBucket(c) ==
    /\ buckets[c] # 0
    /\ second - heap[buckets[c]].lastRefill > IdleLimit
    /\ buckets' = [buckets EXCEPT ![c] = 0]
    /\ UNCHANGED <<second, heap, asking, granted, mark>>

LimiterNext ==
    \/ LimiterClock
    \/ \E r \in Requesters : Take(r) \/ \E c \in Clients : Allow(r, c)
    \/ \E c \in Clients : DropIdleBucket(c)

LimiterSpec == LimiterInit /\ [][LimiterNext]_limiterVars

-----------------------------------------------------------------------------

(* In no stretch of time does a client get more tokens than one burst and   *)
(* the rate allow (Take), not even when its bucket is dropped as idle and   *)
(* made again, full, while calls are on their way.  What such a call takes  *)
(* from the dropped bucket is not counted.                                  *)
RateHolds ==
    \A c \in Clients, s \in 0..second :
        granted[c] - mark[c][s] <= BurstSize + MaxRate * (second - s)

=============================================================================
