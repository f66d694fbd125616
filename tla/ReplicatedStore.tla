---------------------------- MODULE ReplicatedStore ----------------------------
(***************************************************************************)
(* The replicated write path (consensus/fsm.go, consensus/node.go,          *)
(* business/engine.go and cache_handlers.go).  A command goes into the Raft *)
(* log; every node applies the committed log to its FSM, and FSM.Apply      *)
(* hands each write on to the node's cache engine through a callback.  GET  *)
(* reads the cache engine, transactions read the FSM.                       *)
(*                                                                         *)
(* Raft is external: one committed log that only grows, applied in order    *)
(* on each node, snapshots that replace a prefix of it.  A restart rebuilds *)
(* the FSM from the node's snapshot and replays the log after it; the cache *)
(* engine keeps its Badger files.  Engine.Start sets the callbacks after    *)
(* NewRaft has begun to apply.                                              *)
(***************************************************************************)
EXTENDS Integers, Sequences, FiniteSets

CONSTANTS
    Nodes, Keys, Values,
    TTLs,          \* the "ttl" of set commands, in seconds (0: none)
    MaxLog,        \* bound: length of the committed log
    MaxTime,       \* bound: the clock stops here
    MaxRestarts,   \* bound: restarts over all nodes
    NoValue, NoTime, NoKey

ASSUME BoundAssumption ==
    TTLs \subseteq Nat /\ {MaxLog, MaxTime, MaxRestarts} \subseteq Nat

ASSUME NoneAssumption == NoTime \notin Nat /\ NoValue \notin Values /\ NoKey \notin Keys

(* What the log holds: a delete writes NoValue; "other" stands for the      *)
(* commands that leave store and ttl alone (sync_node_metadata, geoadd, the *)
(* database commands).  async marks a delete sent by an expired read.       *)
Command ==
    [op : {"set"}, key : Keys, val : Values, ttl : TTLs, async : {FALSE}]
      \cup [op : {"delete"}, key : Keys, val : {NoValue}, ttl : {0}, async : BOOLEAN]
      \cup [op : {"other"}, key : {NoKey}, val : {NoValue}, ttl : {0}, async : {FALSE}]

VARIABLES
    now,
    log,          \* the committed Raft log
    store, ttl,   \* f.store and f.ttl of each node
    applied,      \* the index up to which each FSM has applied the log
    wired,        \* the callbacks of each FSM are set
    cache,        \* the value and deadline each node's cache engine holds
    snap,         \* the latest Raft snapshot on each node's disk
    expiring,     \* "go n.DeleteValueWithDatabase" goroutines not yet run
    restarts,
    base, top, missed   \* history, for LocalReadsCatchUp; see there

fsmVars == <<store, ttl, applied>>
historyVars == <<base, top, missed>>
vars == <<now, log, fsmVars, wired, cache, snap, expiring, restarts, historyVars>>

Empty == [k \in Keys |-> NoValue]
NoTtl == [k \in Keys |-> NoTime]

Init ==
    /\ now = 0 /\ log = << >> /\ restarts = 0
    /\ store = [n \in Nodes |-> Empty]
    /\ ttl = [n \in Nodes |-> NoTtl]
    /\ applied = [n \in Nodes |-> 0]
    /\ wired = [n \in Nodes |-> FALSE]
    /\ cache = [n \in Nodes |-> [k \in Keys |-> [val |-> NoValue, until |-> NoTime]]]
    /\ snap = [n \in Nodes |-> [index |-> 0, store |-> Empty, ttl |-> NoTtl]]
    /\ expiring = {}
    /\ base = [n \in Nodes |-> 0]
    /\ top = [n \in Nodes |-> 0]
    /\ missed = [n \in Nodes |-> FALSE]

-----------------------------------------------------------------------------

TimePasses ==
    /\ now < MaxTime
    /\ now' = now + 1
    /\ UNCHANGED <<log, fsmVars, wired, cache, snap, expiring, restarts, historyVars>>

(* ApplyCommand, SetValueWithDatabase, DeleteValueWithDatabase: Raft commits *)
(* the command.  A node that is not the leader gets an error and the log    *)
(* stays as it is.                                                         *)
Commit(c) ==
    /\ Len(log) < MaxLog
    /\ log' = Append(log, c)

Submit(c) ==
    /\ ~c.async
    /\ Commit(c)
    /\ UNCHANGED <<now, fsmVars, wired, cache, snap, expiring, restarts, historyVars>>

(* FSM.Apply on f.store ...                                                 *)
ApplyStoreKeepsDeleted(s, c) ==
    IF c.op = "set" THEN [s EXCEPT ![c.key] = c.val] ELSE s

ApplyStore(s, c) ==
    IF c.op = "other" THEN s ELSE [s EXCEPT ![c.key] = c.val]

(* ... on f.ttl: the deadline counts from the moment of applying; a set     *)
(* without TTL leaves an older deadline in place ...                        *)
ApplyTtlAlways(t, c) ==
    CASE c.op = "set"    -> [t EXCEPT ![c.key] = now + c.ttl]
      [] c.op = "delete" -> [t EXCEPT ![c.key] = NoTime]
      [] c.op = "other"  -> t

ApplyTtl(t, c) ==
    CASE c.op = "set" /\ c.ttl > 0 -> [t EXCEPT ![c.key] = now + c.ttl]
      [] c.op = "set" /\ c.ttl = 0 -> t
      [] c.op = "delete"           -> [t EXCEPT ![c.key] = NoTime]
      [] c.op = "other"            -> t

(* ... and, through the callbacks, on the cache engine.                     *)
CallbackSetOnly(s, c) ==
    IF c.op # "set" THEN s
    ELSE [s EXCEPT ![c.key] = [val |-> c.val,
            until |-> IF c.ttl > 0 THEN now + c.ttl ELSE NoTime]]

Callback(s, c) ==
    IF c.op = "other" THEN s
    ELSE [s EXCEPT ![c.key] = [val |-> c.val,
            until |-> IF c.ttl > 0 THEN now + c.ttl ELSE NoTime]]

Apply(n) ==
    LET i == applied[n] + 1
        c == log[i]
    IN  /\ i <= Len(log)
        /\ applied' = [applied EXCEPT ![n] = i]
        /\ store' = [store EXCEPT ![n] = ApplyStore(store[n], c)]
        /\ ttl' = [ttl EXCEPT ![n] = ApplyTtl(ttl[n], c)]
        /\ cache' = [cache EXCEPT ![n] = IF wired[n] THEN Callback(cache[n], c) ELSE cache[n]]
        /\ top' = [top EXCEPT ![n] = IF i > top[n] THEN i ELSE top[n]]
        /\ missed' = [missed EXCEPT ![n] = missed[n] \/ (~wired[n] /\ i > base[n])]
        /\ UNCHANGED <<now, log, wired, snap, expiring, restarts, base>>

(* Engine.Start, once consensusNode.Start has returned.                     *)
SetCallbacks(n) ==
    /\ ~wired[n]
    /\ wired' = [wired EXCEPT ![n] = TRUE]
    /\ UNCHANGED <<now, log, fsmVars, cache, snap, expiring, restarts, historyVars>>

(* FSM.Snapshot and Persist: Raft keeps the copy with the applied index.    *)
Snapshot(n) ==
    /\ applied[n] > snap[n].index
    /\ snap' = [snap EXCEPT
            ![n] = [index |-> applied[n], store |-> store[n], ttl |-> ttl[n]]]
    /\ UNCHANGED <<now, log, fsmVars, wired, cache, expiring, restarts, historyVars>>

(* FSM.Restore replaces both maps and calls nothing back.                   *)
Restore(n, s) ==
    /\ store' = [store EXCEPT ![n] = s.store]
    /\ ttl' = [ttl EXCEPT ![n] = s.ttl]
    /\ applied' = [applied EXCEPT ![n] = s.index]

(* The leader sends its snapshot to a node that lags behind it.             *)
InstallSnapshot(n, m) ==
    /\ snap[m].index > applied[n]
    /\ Restore(n, snap[m])
    /\ snap' = [snap EXCEPT ![n] = snap[m]]
    /\ top' = [top EXCEPT ![n] = IF snap[m].index > top[n] THEN snap[m].index ELSE top[n]]
    /\ missed' = [missed EXCEPT ![n] = TRUE]
    /\ UNCHANGED <<now, log, wired, cache, expiring, restarts, base>>

(* The process stops and starts: NewNode makes an empty FSM, NewRaft        *)
(* restores the latest snapshot into it, the callbacks are not set yet.     *)
Restart(n) ==
    /\ restarts < MaxRestarts
    /\ restarts' = restarts + 1
    /\ Restore(n, snap[n])
    /\ wired' = [wired EXCEPT ![n] = FALSE]
    /\ expiring' = {e \in expiring : e[1] # n}
    /\ base' = [base EXCEPT ![n] = IF wired[n] THEN applied[n] ELSE base[n]]
    /\ UNCHANGED <<now, log, cache, snap, top, missed>>

(* GetValueWithDatabase meets a key past its deadline: "not found", and a   *)
(* goroutine that deletes the key through Raft.                             *)
ReadExpired(n, k) ==
    /\ store[n][k] # NoValue
    /\ ttl[n][k] # NoTime /\ now > ttl[n][k]
    /\ expiring' = expiring \cup {<<n, k>>}
    /\ UNCHANGED <<now, log, fsmVars, wired, cache, snap, restarts, historyVars>>

(* The goroutine runs: the delete is committed, or refused and forgotten.   *)
AsyncDelete(n, k) ==
    /\ <<n, k>> \in expiring
    /\ expiring' = expiring \ {<<n, k>>}
    /\ \/ Commit([op |-> "delete", key |-> k, val |-> NoValue, ttl |-> 0, async |-> TRUE])
       \/ UNCHANGED log
    /\ UNCHANGED <<now, fsmVars, wired, cache, snap, restarts, historyVars>>

Next ==
    \/ TimePasses
    \/ \E c \in Command : Submit(c)
    \/ \E n \in Nodes :
         \/ Apply(n) \/ SetCallbacks(n) \/ Snapshot(n) \/ Restart(n)
         \/ \E m \in Nodes \ {n} : InstallSnapshot(n, m)
         \/ \E k \in Keys : ReadExpired(n, k) \/ AsyncDelete(n, k)

Spec == Init /\ [][Next]_vars

-----------------------------------------------------------------------------

TypeOK ==
    /\ now \in Nat /\ restarts \in Nat
    /\ log \in Seq(Command)
    /\ store \in [Nodes -> [Keys -> Values \cup {NoValue}]]
    /\ ttl \in [Nodes -> [Keys -> Nat \cup {NoTime}]]
    /\ applied \in [Nodes -> Nat]
    /\ wired \in [Nodes -> BOOLEAN]
    /\ cache \in [Nodes -> [Keys -> [val : Values \cup {NoValue}, until : Nat \cup {NoTime}]]]
    /\ snap \in [Nodes -> [index : Nat, store : [Keys -> Values \cup {NoValue}],
                           ttl : [Keys -> Nat \cup {NoTime}]]]
    /\ expiring \subseteq Nodes \X Keys
    /\ base \in [Nodes -> Nat] /\ top \in [Nodes -> Nat]
    /\ missed \in [Nodes -> BOOLEAN]

(* v is what the first i commands of the log q leave in key k.              *)
Reflects(q, v, k, i) ==
    \/ v = NoValue /\ \A j \in 1..i : q[j].key # k
    \/ \E j \in 1..i : /\ q[j].key = k /\ q[j].val = v
                       /\ \A l \in (j + 1)..i : q[l].key # k

(* Every FSM holds exactly what the log says up to its applied index, after *)
(* any mixture of replays, snapshots taken and snapshots installed.         *)
StoreReflectsLog == \A n \in Nodes, k \in Keys : Reflects(log, store[n][k], k, applied[n])

(* Two FSMs at the same index hold the same data.                           *)
StoresAgree == \A m, n \in Nodes : applied[m] = applied[n] => store[m] = store[n]

(* Where GET may rely on the cache engine.  top is the highest index the    *)
(* node ever applied; base is the index down to which its cache is known to *)
(* reach when the process starts; missed is set when a command beyond base  *)
(* is applied with no callback, or a snapshot is installed.  A node that    *)
(* missed nothing serves, once replay after a restart has caught up, what   *)
(* its FSM holds, although replay first took its cache back in time.        *)
LocalReadsCatchUp ==
    \A n \in Nodes : wired[n] /\ ~missed[n] /\ applied[n] = top[n] =>
        \A k \in Keys : cache[n][k].val = store[n][k]

(* Reading an expired key deletes it through Raft.  Such a delete hits only *)
(* keys that some earlier set gave a TTL: data never given one is safe from *)
(* the asynchronous deleter.                                                *)
OnlyTtlKeysDeleted ==
    \A j \in 1..Len(log) : log[j].async =>
        \E i \in 1..(j - 1) : log[i].key = log[j].key /\ log[i].ttl > 0

(* What GET answers.                                                        *)
CacheGet(n, k) ==
    IF cache[n][k].until # NoTime /\ now > cache[n][k].until THEN NoValue ELSE cache[n][k].val

(* Not kept by the code: nodes that run and have applied the same log       *)
(* answer GET alike.                                                        *)
NodesAgree ==
    \A m, n \in Nodes : wired[m] /\ wired[n] /\ applied[m] = applied[n] =>
        \A k \in Keys : CacheGet(m, k) = CacheGet(n, k)

-----------------------------------------------------------------------------

(* The inductive invariant.                                                 *)
IndexInv == \A n \in Nodes :
    /\ snap[n].index <= applied[n] /\ applied[n] <= top[n]
    /\ base[n] <= top[n] /\ top[n] <= Len(log)

SnapReflectsLog == \A n \in Nodes, k \in Keys : Reflects(log, snap[n].store[k], k, snap[n].index)

(* Before the callbacks are set, the cache of a node that missed nothing    *)
(* shows each key as of some index from base up; afterwards, as of the      *)
(* applied index or, until replay touches the key, of a later one.          *)
CacheInv == \A n \in Nodes : ~missed[n] => \A k \in Keys :
    IF wired[n]
      THEN \/ Reflects(log, cache[n][k].val, k, applied[n])
           \/ \E j \in base[n]..top[n] : j >= applied[n] /\ Reflects(log, cache[n][k].val, k, j)
      ELSE applied[n] <= base[n] /\ \E j \in base[n]..top[n] : Reflects(log, cache[n][k].val, k, j)

(* A deadline, and a deletion under way, come from a set with a TTL.        *)
GaveTtl(q, k) == \E j \in 1..Len(q) : q[j].key = k /\ q[j].ttl > 0

TtlInv ==
    /\ \A n \in Nodes, k \in Keys :
         /\ ttl[n][k] # NoTime => GaveTtl(log, k)
         /\ snap[n].ttl[k] # NoTime => GaveTtl(log, k)
    /\ \A e \in expiring : GaveTtl(log, e[2])

IndInv ==
    /\ TypeOK /\ IndexInv /\ StoreReflectsLog /\ SnapReflectsLog
    /\ CacheInv /\ TtlInv /\ OnlyTtlKeysDeleted
=============================================================================
