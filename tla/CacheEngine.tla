------------------------------ MODULE CacheEngine ------------------------------
(***************************************************************************)
(* The databases of the cache engine (store/cache.go): a map from database  *)
(* name to shards, each shard a Badger directory with an open handle.       *)
(* Requests run in goroutines.  They find their database under e.mu, let    *)
(* the lock go, and use the shards afterwards; any access creates a missing *)
(* database.  A shard is chosen by the range its key's hash falls in.       *)
(*                                                                         *)
(* Badger is external: a directory has at most one open handle, and an      *)
(* operation on a closed handle is an error.  What one shard does with a    *)
(* key over time is in CacheShard; here a key is in a shard or it is not.   *)
(***************************************************************************)
EXTENDS Integers, FiniteSets

CONSTANTS
    Procs,         \* goroutines that serve requests
    Databases,     \* database names
    Builtin,       \* those made when the engine starts, which cannot be dropped
    Keys,
    Hash,          \* hashKey: the hash of each key
    Requests,      \* what clients ask: [kind, db, key]
    MaxHash,       \* the largest hash (0xFFFFFFFF)
    ShardCount,    \* config.ShardCount
    MaxGens,       \* bound: how often shards are opened
    MaxFaults,     \* bound: how often badger.Open fails by itself
    NoKey

Kinds == {"set", "get", "delete", "create", "drop", "count"}

KeyKinds == {"set", "get", "delete"}

(* Key operations name a key, the others do not.                            *)
WellFormed == {r \in [kind : Kinds, db : Databases, key : Keys \cup {NoKey}] :
                  r.kind \in KeyKinds <=> r.key # NoKey}

ASSUME EngineAssumption ==
    /\ MaxHash \in Nat /\ ShardCount \in Nat \ {0}
    /\ Hash \in [Keys -> 0..MaxHash]
    /\ Builtin \subseteq Databases
    /\ Requests \subseteq WellFormed
    /\ MaxGens \in Nat /\ MaxFaults \in Nat
    /\ NoKey \notin Keys /\ IsFiniteSet(Keys)

-----------------------------------------------------------------------------
(* Shard ranges *)

Shards == 0..(ShardCount - 1)

hashRangePerShard == MaxHash \div ShardCount

startHash(i) == i * hashRangePerShard

endHash(i) == IF i = ShardCount - 1 THEN MaxHash ELSE startHash(i) + hashRangePerShard

InRange(h, i) == h >= startHash(i) /\ h <= endHash(i)

(* The first shard whose range holds the hash; shard 0 if there were none.  *)
ShardOf(h) ==
    IF \E i \in Shards : InRange(h, i)
      THEN CHOOSE i \in Shards : InRange(h, i) /\ \A j \in Shards : InRange(h, j) => i <= j
      ELSE 0

-----------------------------------------------------------------------------

VARIABLES
    databases,   \* e.databases: the generation of the shards, 0 if absent
    gens,        \* generations made so far
    open,        \* open handles <<database, shard, generation>>
    disk,        \* the keys in each shard's directory
    faults,
    pc, req,     \* of each goroutine: where it is and what it serves
    got,         \* the generation its lookup returned
    next, sum,   \* of a count: the next shard to scan, the keys counted
    always, ever, \* history, of a count: keys present all along, at some time
    leaked,      \* history: handles opened by a creation that failed
    stopped, toClose   \* Shutdown has begun; the handles it has yet to close

proc == <<pc, req, got, next, sum>>
scan == <<always, ever>>
down == <<stopped, toClose>>
vars == <<databases, gens, open, disk, faults, proc, scan, leaked, down>>

Handles(db, g) == {<<db, i, g>> : i \in Shards}

NoReq == [kind |-> "none", db |-> NoKey, key |-> NoKey]

(* NewShardedCacheEngine: generation 1 is that of the built-in databases.   *)
Init ==
    /\ databases = [d \in Databases |-> IF d \in Builtin THEN 1 ELSE 0]
    /\ gens = 1
    /\ open = UNION {Handles(d, 1) : d \in Builtin}
    /\ disk = [d \in Databases |-> [i \in Shards |-> {}]]
    /\ faults = 0
    /\ pc = [p \in Procs |-> "idle"]
    /\ req = [p \in Procs |-> NoReq]
    /\ got = [p \in Procs |-> 0]
    /\ next = [p \in Procs |-> 0]
    /\ sum = [p \in Procs |-> 0]
    /\ always = [p \in Procs |-> {}]
    /\ ever = [p \in Procs |-> {}]
    /\ leaked = {}
    /\ stopped = FALSE /\ toClose = {}

Stored(db) == UNION {disk[db][i] : i \in Shards}

Goto(p, l) == pc' = [pc EXCEPT ![p] = l]

(* The request is answered; what the goroutine knew is gone with it.        *)
Answer(p) ==
    /\ Goto(p, "idle")
    /\ req' = [req EXCEPT ![p] = NoReq]
    /\ got' = [got EXCEPT ![p] = 0]
    /\ next' = [next EXCEPT ![p] = 0]
    /\ sum' = [sum EXCEPT ![p] = 0]

Forget(p) ==
    /\ always' = [always EXCEPT ![p] = {}]
    /\ ever' = [ever EXCEPT ![p] = {}]

(* It goes on with its next step.                                           *)
Continue(p, l) == Goto(p, l) /\ UNCHANGED <<req, got, next, sum>>

-----------------------------------------------------------------------------

(* A request arrives.                                                       *)
Receive(p, r) ==
    /\ pc[p] = "idle"
    /\ req' = [req EXCEPT ![p] = r]
    /\ Goto(p, CASE r.kind \in KeyKinds -> "init"
                 [] r.kind = "create" -> "check"
                 [] r.kind = "drop"   -> "drop"
                 [] r.kind = "count"  -> "lookup")
    /\ UNCHANGED <<databases, gens, open, disk, faults, got, next, sum, scan, leaked, down>>

(* CreateDatabase tests the map, lets e.mu go, then initialises.            *)
CreateCheck(p) ==
    /\ pc[p] = "check"
    /\ IF databases[req[p].db] # 0 THEN Answer(p) ELSE Continue(p, "init")
    /\ UNCHANGED <<databases, gens, open, disk, faults, scan, leaked, down>>

(* After initDatabaseShards: CreateDatabase is done, the others look up.    *)
AfterInit(p) == IF req[p].kind = "create" THEN Answer(p) ELSE Continue(p, "lookup")

InitFound(p) ==
    /\ pc[p] = "init" /\ databases[req[p].db] # 0
    /\ AfterInit(p)
    /\ UNCHANGED <<databases, gens, open, disk, faults, scan, leaked, down>>

Locked(db, i) == \E h \in open : h[1] = db /\ h[2] = i

(* initDatabaseShards opens the shards one by one under e.mu ...            *)
InitShards(p) ==
    LET db == req[p].db
        g  == gens + 1
    IN  /\ pc[p] = "init" /\ databases[db] = 0 /\ gens < MaxGens
        /\ \A i \in Shards : ~Locked(db, i)
        /\ gens' = g
        /\ open' = open \cup Handles(db, g)
        /\ databases' = [databases EXCEPT ![db] = g]
        /\ AfterInit(p)
        /\ UNCHANGED <<disk, faults, scan, leaked, down>>

(* ... and gives up at the first that fails, because its directory is       *)
(* locked or by itself.  The shards opened before stay open.                *)
InitFailsMapped(p) ==
    LET db == req[p].db
        g  == gens + 1
    IN  /\ pc[p] = "init" /\ databases[db] = 0 /\ gens < MaxGens
        /\ \E i \in Shards :
             LET mine == {h \in Handles(db, g) : h[2] < i}
             IN  /\ \A j \in 0..(i - 1) : ~Locked(db, j)
                 /\ IF Locked(db, i) THEN UNCHANGED faults
                    ELSE faults < MaxFaults /\ faults' = faults + 1
                 /\ open' = open \cup mine
                 /\ leaked' = leaked \cup mine
        /\ gens' = g
        /\ databases' = [databases EXCEPT ![db] = g]
        /\ Answer(p)
        /\ UNCHANGED <<disk, scan, down>>

InitFails(p) ==
    LET db == req[p].db
        g  == gens + 1
    IN  /\ pc[p] = "init" /\ databases[db] = 0 /\ gens < MaxGens
        /\ \E i \in Shards :
             LET mine == {h \in Handles(db, g) : h[2] < i}
             IN  /\ \A j \in 0..(i - 1) : ~Locked(db, j)
                 /\ IF Locked(db, i) THEN UNCHANGED faults
                    ELSE faults < MaxFaults /\ faults' = faults + 1
                 /\ open' = open \cup mine
                 /\ leaked' = leaked \cup mine
        /\ gens' = g
        /\ Answer(p)
        /\ UNCHANGED <<databases, disk, scan, down>>

(* The shards are read from the map under e.mu.RLock and used without it.   *)
Lookup(p) ==
    LET db == req[p].db
        g  == databases[db]
    IN  /\ pc[p] = "lookup"
        /\ IF g = 0 THEN Answer(p) /\ UNCHANGED scan
           ELSE /\ Goto(p, IF req[p].kind = "count" THEN "scan" ELSE "use")
                /\ got' = [got EXCEPT ![p] = g]
                /\ IF req[p].kind = "count"
                     THEN /\ always' = [always EXCEPT ![p] = Stored(db)]
                          /\ ever' = [ever EXCEPT ![p] = Stored(db)]
                     ELSE UNCHANGED scan
                /\ UNCHANGED <<req, next, sum>>
        /\ UNCHANGED <<databases, gens, open, disk, faults, leaked, down>>

Handle(p, i) == <<req[p].db, i, got[p]>>

(* What a write does to the histories of the counts that are under way.     *)
Observe(db, keys) ==
    /\ always' = [q \in Procs |-> IF pc[q] = "scan" /\ req[q].db = db
                                  THEN always[q] \cap keys ELSE always[q]]
    /\ ever' = [q \in Procs |-> IF pc[q] = "scan" /\ req[q].db = db
                                THEN ever[q] \cup keys ELSE ever[q]]

(* CacheShard.Set, Get and Delete on the handle, open or not.               *)
UseShard(p) ==
    LET r == req[p]
        i == ShardOf(Hash[r.key])
        after == CASE r.kind = "set"    -> disk[r.db][i] \cup {r.key}
                   [] r.kind = "delete" -> disk[r.db][i] \ {r.key}
                   [] OTHER             -> disk[r.db][i]
    IN  /\ pc[p] = "use" /\ Handle(p, i) \in open
        /\ disk' = [disk EXCEPT ![r.db] = [disk[r.db] EXCEPT ![i] = after]]
        /\ Observe(r.db, (Stored(r.db) \ disk[r.db][i]) \cup after)
        /\ Answer(p)
        /\ UNCHANGED <<databases, gens, open, faults, leaked, down>>

UseClosed(p) ==
    /\ pc[p] = "use" /\ Handle(p, ShardOf(Hash[req[p].key])) \notin open
    /\ Answer(p)
    /\ UNCHANGED <<databases, gens, open, disk, faults, scan, leaked, down>>

ScanShardSkipsClosed(p) ==
    LET i == next[p] IN
    /\ pc[p] = "scan" /\ i < ShardCount
    /\ sum' = [sum EXCEPT ![p] =
            @ + IF Handle(p, i) \in open THEN Cardinality(disk[req[p].db][i]) ELSE 0]
    /\ next' = [next EXCEPT ![p] = i + 1]
    /\ UNCHANGED <<databases, gens, open, disk, faults, pc, req, got, scan, leaked, down>>

(* GetDatabaseKeyCount, CountKeys and ListKeys visit the shards in turn; a  *)
(* closed one ends them with an error.                                      *)
ScanShard(p) ==
    LET i == next[p] IN
    /\ pc[p] = "scan" /\ i < ShardCount /\ Handle(p, i) \in open
    /\ sum' = [sum EXCEPT ![p] = @ + Cardinality(disk[req[p].db][i])]
    /\ next' = [next EXCEPT ![p] = i + 1]
    /\ UNCHANGED <<databases, gens, open, disk, faults, pc, req, got, scan, leaked, down>>

ScanEnds(p) ==
    LET i == next[p] IN
    /\ pc[p] = "scan"
    /\ i = ShardCount \/ Handle(p, i) \notin open
    /\ Answer(p) /\ Forget(p)
    /\ UNCHANGED <<databases, gens, open, disk, faults, leaked, down>>

DropKeepsHandles(p) ==
    LET db == req[p].db IN
    /\ pc[p] = "drop"
    /\ databases' = [databases EXCEPT ![db] = IF db \in Builtin THEN @ ELSE 0]
    /\ Answer(p)
    /\ UNCHANGED <<gens, open, disk, faults, scan, leaked, down>>

(* DeleteDatabase closes the handles and forgets the shards; the files of   *)
(* the directories stay.                                                    *)
Drop(p) ==
    LET db == req[p].db IN
    /\ pc[p] = "drop"
    /\ IF db \in Builtin \/ databases[db] = 0
         THEN UNCHANGED <<databases, open>>
         ELSE /\ open' = open \ Handles(db, databases[db])
              /\ databases' = [databases EXCEPT ![db] = 0]
    /\ Answer(p)
    /\ UNCHANGED <<gens, disk, faults, scan, leaked, down>>

Mapped == UNION {Handles(d, databases[d]) : d \in {e \in Databases : databases[e] # 0}}

(* Shutdown: the background tasks stop, the shards are listed, then closed  *)
(* one by one.  The map keeps them.                                         *)
ShutdownCollect ==
    /\ ~stopped
    /\ stopped' = TRUE
    /\ toClose' = Mapped
    /\ UNCHANGED <<databases, gens, open, disk, faults, proc, scan, leaked>>

ShutdownClose(h) ==
    /\ h \in toClose
    /\ toClose' = toClose \ {h}
    /\ open' = open \ {h}
    /\ UNCHANGED <<databases, gens, disk, faults, proc, scan, leaked, stopped>>

Step(p) ==
    \/ CreateCheck(p) \/ InitFound(p) \/ InitShards(p) \/ InitFails(p) \/ Lookup(p)
    \/ UseShard(p) \/ UseClosed(p) \/ ScanShard(p) \/ ScanEnds(p) \/ Drop(p)

Next ==
    \/ \E p \in Procs : Step(p)
    \/ \E p \in Procs, r \in Requests : Receive(p, r)
    \/ ShutdownCollect
    \/ \E h \in toClose : ShutdownClose(h)

Spec == Init /\ [][Next]_vars

-----------------------------------------------------------------------------

TypeOK ==
    /\ databases \in [Databases -> Nat] /\ gens \in Nat /\ faults \in Nat
    /\ open \subseteq Databases \X Shards \X Nat
    /\ leaked \subseteq Databases \X Shards \X Nat
    /\ toClose \subseteq Databases \X Shards \X Nat
    /\ disk \in [Databases -> [Shards -> SUBSET Keys]]
    /\ pc \in [Procs -> {"idle", "check", "init", "lookup", "use", "scan", "drop"}]
    /\ req \in [Procs -> WellFormed \cup {NoReq}]
    /\ \A p \in Procs :
          /\ pc[p] # "idle" => req[p] \in WellFormed
          /\ pc[p] = "check" => req[p].kind = "create"
          /\ pc[p] = "init" => req[p].kind \in KeyKinds \cup {"create"}
          /\ pc[p] = "lookup" => req[p].kind \in KeyKinds \cup {"count"}
          /\ pc[p] = "use" => req[p].kind \in KeyKinds
    /\ got \in [Procs -> Nat] /\ next \in [Procs -> Nat] /\ sum \in [Procs -> Nat]
    /\ always \in [Procs -> SUBSET Keys] /\ ever \in [Procs -> SUBSET Keys]
    /\ stopped \in BOOLEAN

(* Until Shutdown the open handles are those of the databases in the map,   *)
(* all of them, and what failed creations left behind: a database that is   *)
(* listed can be served, whatever was created, used and dropped at the same *)
(* time; Shutdown only closes.                                              *)
HandlesAccounted ==
    /\ open \subseteq Mapped \cup leaked
    /\ ~stopped => Mapped \subseteq open

(* A request that looked its shards up before the database was dropped gets *)
(* an error; it never works on the files of a database dropped, or dropped  *)
(* and made again, behind its back.                                         *)
StaleNeverServed ==
    \A p \in Procs : pc[p] \in {"use", "scan"} =>
        \A i \in Shards : Handle(p, i) \in open => databases[req[p].db] = got[p]

(* A count goes over the shards without a common lock.  Its result lies     *)
(* between the number of keys that were there all along and the number of   *)
(* keys that were there at some time: no key is counted twice and none that *)
(* stayed is missed.                                                        *)
CountInRange ==
    \A p \in Procs : pc[p] = "scan" /\ next[p] = ShardCount =>
        Cardinality(always[p]) <= sum[p] /\ sum[p] <= Cardinality(ever[p])

(* What makes the two handle invariants inductive: generations are never    *)
(* used twice, so what a failed creation left open is never what a database *)
(* in the map, or a request under way, holds.                               *)
IndInv ==
    /\ TypeOK
    /\ HandlesAccounted
    /\ ~stopped => toClose = {}
    /\ \A d \in Databases : databases[d] <= gens
    /\ \A h \in leaked : h[3] <= gens
    /\ Mapped \cap leaked = {}
    /\ \A p \in Procs : got[p] <= gens
    /\ \A p \in Procs : pc[p] \in {"use", "scan"} =>
          /\ got[p] # 0
          /\ \A i \in Shards : Handle(p, i) \notin leaked
=============================================================================
