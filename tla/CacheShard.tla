------------------------------ MODULE CacheShard ------------------------------
(***************************************************************************)
(* One shard of the cache engine (store/cache.go): a Badger database that   *)
(* holds each value with its TTL and creation time, and beside it ttlIndex, *)
(* an in-memory map from key to expiry time.  Three parties delete keys:    *)
(* callers, the goroutine a Get starts when it meets an expired value, and  *)
(* the periodic sweep over ttlIndex.                                        *)
(*                                                                         *)
(* Time is counted in ticks, TPS of them to a second: CacheValue.TTL is a   *)
(* whole number of seconds while ttlIndex keeps the full duration.          *)
(***************************************************************************)
EXTENDS Integers, FiniteSets

CONSTANTS
    Keys,          \* the keys of this shard
    Values,        \* what may be stored
    TTLs,          \* the durations, in ticks, that Set is called with (0: none)
    TPS,           \* ticks per second
    InMemory,      \* config.InMemory: Badger keeps nothing across a restart
    LastSet,       \* bound: no Set starts after this time
    MaxTime,       \* bound: the clock stops here
    MaxLazy,       \* bound: outstanding asynchronous deletes per key
    MaxRestarts,   \* bound: restarts of the process
    NoValue, NoTime, NoKey

ASSUME TimeAssumption ==
    /\ TPS \in Nat \ {0}
    /\ TTLs \subseteq Nat
    /\ {LastSet, MaxTime, MaxLazy, MaxRestarts} \subseteq Nat
    /\ InMemory \in BOOLEAN

(* CacheValue: TTL in seconds.  Data is checked by a CRC that Set computes  *)
(* over the same bytes, so it is left out.                                  *)
CacheValue == [data : Values, ttl : Nat, created : Nat]

(* What Set promises: this value, until then (NoTime: for ever).            *)
Promise == [data : Values, until : Nat \cup {NoTime}]

ASSUME NoneAssumption ==
    NoTime \notin Nat /\ NoKey \notin Keys /\ NoValue \notin CacheValue \cup Promise

(* Every TTL a client sends arrives in whole seconds: the Raft command      *)
(* carries int64(ttl.Seconds()) and its callback multiplies by time.Second. *)
WholeSeconds == \A d \in TTLs : d % TPS = 0

VARIABLES
    now,        \* time.Now()
    db,         \* Badger: the stored CacheValue of each key, or NoValue
    ttlIndex,   \* s.ttlIndex: the expiry of each key, or NoTime
    setting,    \* the Set that holds s.mu between its two writes, or none
    lazy,       \* per key, the "go s.Delete(key)" goroutines not yet run
    spc, todo,  \* the sweep: idle or deleting, and its expiredKeys
    restarts,
    promised,   \* history: what the last Set of each key promised its caller
    exposed,    \* history: the key was Set while a deletion of it was pending
    fresh       \* history: the key was Set since the process started

engine == <<db, ttlIndex, setting, lazy, spc, todo>>
vars == <<now, db, ttlIndex, setting, lazy, spc, todo, restarts, promised, exposed, fresh>>

NoSet == [key |-> NoKey, ttl |-> 0]

Init ==
    /\ now = 0
    /\ db = [k \in Keys |-> NoValue]
    /\ ttlIndex = [k \in Keys |-> NoTime]
    /\ setting = NoSet
    /\ lazy = [k \in Keys |-> 0]
    /\ spc = "idle" /\ todo = {}
    /\ restarts = 0
    /\ promised = [k \in Keys |-> NoValue]
    /\ exposed = [k \in Keys |-> FALSE]
    /\ fresh = [k \in Keys |-> FALSE]

-----------------------------------------------------------------------------

(* The two expiry tests: of Get on the stored value, of the sweep on the    *)
(* index.                                                                  *)
ExpiredInSeconds(v) == v.ttl > 0 /\ (now - v.created) \div TPS > v.ttl

Expired(v) == v.ttl > 0 /\ now > v.created + v.ttl * TPS

OverdueAtExpiry(k) == ttlIndex[k] # NoTime /\ now >= ttlIndex[k]

Overdue(k) == ttlIndex[k] # NoTime /\ now > ttlIndex[k]

(* What Get(k) returns as found.                                            *)
Found(k) == db[k] # NoValue /\ ~Expired(db[k])

(* Up to MaxTime; a Set that started by LastSet is not held back beyond it. *)
TimePasses ==
    /\ now < MaxTime
    /\ setting = NoSet \/ now <= LastSet
    /\ now' = now + 1
    /\ UNCHANGED <<engine, restarts, promised, exposed, fresh>>

(* Set under s.mu: first the Badger write ...                               *)
SetStore(k, v, d) ==
    /\ setting = NoSet /\ now <= LastSet
    /\ db' = [db EXCEPT ![k] = [data |-> v, ttl |-> d \div TPS, created |-> now]]
    /\ setting' = [key |-> k, ttl |-> d]
    /\ promised' = [promised EXCEPT
            ![k] = [data |-> v, until |-> IF d = 0 THEN NoTime ELSE now + d]]
    /\ exposed' = [exposed EXCEPT
            ![k] = ttlIndex[k] # NoTime \/ lazy[k] > 0 \/ k \in todo]
    /\ fresh' = [fresh EXCEPT ![k] = TRUE]
    /\ UNCHANGED <<now, ttlIndex, lazy, spc, todo, restarts>>

SetIndexLong ==
    /\ setting # NoSet
    /\ ttlIndex' = IF setting.ttl > TPS
                     THEN [ttlIndex EXCEPT ![setting.key] = now + setting.ttl]
                     ELSE ttlIndex
    /\ setting' = NoSet
    /\ UNCHANGED <<now, db, lazy, spc, todo, restarts, promised, exposed, fresh>>

(* ... then, only when there is a TTL, the index, with a second reading of  *)
(* the clock.                                                              *)
SetIndex ==
    /\ setting # NoSet
    /\ ttlIndex' = IF setting.ttl > 0
                     THEN [ttlIndex EXCEPT ![setting.key] = now + setting.ttl]
                     ELSE ttlIndex
    /\ setting' = NoSet
    /\ UNCHANGED <<now, db, lazy, spc, todo, restarts, promised, exposed, fresh>>

(* Get of an expired value answers "not found" and starts a deletion of the *)
(* key.  Every other Get changes nothing.                                   *)
GetExpired(k) ==
    /\ setting = NoSet
    /\ db[k] # NoValue /\ Expired(db[k])
    /\ lazy[k] < MaxLazy
    /\ lazy' = [lazy EXCEPT ![k] = @ + 1]
    /\ UNCHANGED <<now, db, ttlIndex, setting, spc, todo, restarts, promised, exposed, fresh>>

(* CacheShard.Delete: both writes happen under s.mu.                        *)
Erase(k) ==
    /\ setting = NoSet
    /\ db' = [db EXCEPT ![k] = NoValue]
    /\ ttlIndex' = [ttlIndex EXCEPT ![k] = NoTime]

Delete(k) ==
    /\ Erase(k)
    /\ promised' = [promised EXCEPT ![k] = NoValue]
    /\ UNCHANGED <<now, setting, lazy, spc, todo, restarts, exposed, fresh>>

LazyDelete(k) ==
    /\ lazy[k] > 0
    /\ Erase(k)
    /\ lazy' = [lazy EXCEPT ![k] = @ - 1]
    /\ UNCHANGED <<now, setting, spc, todo, restarts, promised, exposed, fresh>>

(* cleanupExpiredKeys: collect the overdue keys under ttlMu alone ...       *)
SweepCollect ==
    /\ spc = "idle"
    /\ \E k \in Keys : Overdue(k)
    /\ todo' = {k \in Keys : Overdue(k)}
    /\ spc' = "deleting"
    /\ UNCHANGED <<now, db, ttlIndex, setting, lazy, restarts, promised, exposed, fresh>>

(* ... then delete them one by one, each under s.mu, without looking again. *)
SweepDelete(k) ==
    /\ spc = "deleting" /\ k \in todo
    /\ Erase(k)
    /\ todo' = todo \ {k}
    /\ spc' = IF todo' = {} THEN "idle" ELSE "deleting"
    /\ UNCHANGED <<now, setting, lazy, restarts, promised, exposed, fresh>>

(* The process stops, cleanly or not, and starts again: NewShardedCacheEngine *)
(* opens Badger and makes an empty ttlIndex.                                *)
Restart ==
    /\ restarts < MaxRestarts
    /\ restarts' = restarts + 1
    /\ ttlIndex' = [k \in Keys |-> NoTime]
    /\ setting' = NoSet
    /\ lazy' = [k \in Keys |-> 0]
    /\ spc' = "idle" /\ todo' = {}
    /\ db' = IF InMemory THEN [k \in Keys |-> NoValue] ELSE db
    /\ promised' = IF InMemory THEN [k \in Keys |-> NoValue] ELSE promised
    /\ fresh' = [k \in Keys |-> FALSE]
    /\ UNCHANGED <<now, exposed>>

Next ==
    \/ TimePasses
    \/ \E k \in Keys, v \in Values, d \in TTLs : SetStore(k, v, d)
    \/ SetIndex
    \/ \E k \in Keys : GetExpired(k) \/ Delete(k) \/ LazyDelete(k) \/ SweepDelete(k)
    \/ SweepCollect
    \/ Restart

Spec == Init /\ [][Next]_vars

(* The ticker runs the sweep for as long as the engine does, a Set in       *)
(* progress finishes, and so does a started deletion: none of them waits    *)
(* for anything but s.mu, which Go grants in turn.                          *)
Fairness ==
    /\ WF_vars(TimePasses)
    /\ WF_vars(SetIndex)
    /\ WF_vars(SweepCollect)
    /\ \A k \in Keys : SF_vars(SweepDelete(k)) /\ SF_vars(LazyDelete(k))

FairSpec == Spec /\ Fairness

-----------------------------------------------------------------------------

TypeOK ==
    /\ now \in Nat /\ restarts \in Nat
    /\ db \in [Keys -> CacheValue \cup {NoValue}]
    /\ ttlIndex \in [Keys -> Nat \cup {NoTime}]
    /\ setting \in [key : Keys, ttl : Nat] \cup {NoSet}
    /\ lazy \in [Keys -> Nat]
    /\ spc \in {"idle", "deleting"} /\ todo \subseteq Keys
    /\ promised \in [Keys -> Promise \cup {NoValue}]
    /\ exposed \in [Keys -> BOOLEAN] /\ fresh \in [Keys -> BOOLEAN]

(* The last Set of k still binds the cache: its TTL has not run out.        *)
Live(k) == promised[k] # NoValue /\ (promised[k].until = NoTime \/ now <= promised[k].until)

(* Get finds only what the last Set of the key wrote, never after a Delete  *)
(* and never past its TTL, whatever the sweep, late deletions and restarts  *)
(* did in between (for TTLs of whole seconds).                              *)
ServedAsPromised == \A k \in Keys : Found(k) => Live(k) /\ db[k].data = promised[k].data

(* A value written when no deletion of its key was pending -- no entry in   *)
(* ttlIndex, no goroutine of an earlier Get, not in the sweep's list -- is  *)
(* found until its TTL ends, and for ever if it has none: the two background *)
(* deleters never take a key by themselves before its time.                 *)
SafeWritesKept == \A k \in Keys : Live(k) /\ ~exposed[k] => Found(k)

(* While the process runs, a value set in this run whose TTL is over does   *)
(* not stay in Badger: the sweep reaches it although callers may never read *)
(* it again.  (A value set before the last restart is not in ttlIndex and   *)
(* goes only when it is read.)                                              *)
Stays(k) == db[k] # NoValue /\ Expired(db[k]) /\ fresh[k]

ExpiredRemoved == \A k \in Keys : Stays(k) ~> ~Stays(k)

(* What the code does not keep: a value whose TTL has not ended, or that    *)
(* has none, is found -- whatever was written to its key before.            *)
LiveKept == \A k \in Keys : Live(k) => Found(k)

-----------------------------------------------------------------------------

(* The inductive invariant.  A stored value is the promised one; an index   *)
(* entry never precedes the end of the promise it was made for; and a live, *)
(* unexposed value is stored with nothing pending against it.               *)
StoredInv == \A k \in Keys :
    /\ db[k] # NoValue =>
         /\ promised[k] # NoValue /\ promised[k].data = db[k].data
         /\ promised[k].until = IF db[k].ttl = 0 THEN NoTime
                                              ELSE db[k].created + db[k].ttl * TPS
    /\ setting.key = k /\ setting.ttl > 0 /\ promised[k] # NoValue =>
         promised[k].until \in Nat /\ promised[k].until <= now + setting.ttl

PendingInv == \A k \in Keys : Live(k) /\ ~exposed[k] =>
    /\ db[k] # NoValue
    /\ lazy[k] = 0 /\ k \notin todo
    /\ ttlIndex[k] # NoTime =>
         promised[k].until \in Nat /\ promised[k].until <= ttlIndex[k]

IndInv == TypeOK /\ StoredInv /\ PendingInv
=============================================================================
