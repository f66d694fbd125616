------------------------------- MODULE GeoStore -------------------------------
(***************************************************************************)
(* GEO data (store/geo.go, business/geo_handlers.go).  The members of one  *)
(* GEO key are kept on each node as a coordinate key and a metadata key    *)
(* per member and an index key with the number of members, spread over     *)
(* shards and written one after the other without a common lock.           *)
(*                                                                         *)
(* GEOADD stores the members locally, then sends them through Raft; every  *)
(* node, the sender included, stores them again when it applies the        *)
(* command.  GEODEL is local.  Raft is external: a committed log.          *)
(***************************************************************************)
EXTENDS Integers, Sequences, FiniteSets, FiniteSetsExt

CONSTANTS Nodes, Procs, Members, Positions, Metas, None,
          NShards,      \* shards of the GEO database
          ShardOf,      \* the shard of a member's coordinate key
          Batches,      \* the member lists of requests
          MaxReqs, MaxTroubles \* requests; failures, elections and restarts

GeoMember == [member : Members, pos : Positions, meta : Metas \cup {None}]

ASSUME GeoAssumption ==
    /\ Nodes \cap Procs = {} /\ IsFiniteSet(Members)
    /\ None \notin Positions \cup Metas \cup Nat
    /\ NShards \in Nat \ {0} /\ ShardOf \in [Members -> 1 .. NShards]
    /\ Batches \subseteq Seq(GeoMember) \ {<< >>}

\* The goroutines that run SetGeo or DeleteGeo: requests, and on every node the
\* one that applies the log, which bears the node's name.
Workers == Procs \cup Nodes

VARIABLES
    coord, meta, index,          \* the three kinds of keys, per node
    log, applied, wired,         \* Raft's log; applied entries; callback is set
    leader, isLeader,            \* Raft's leader; Node.isLeader, polled
    pc, node, op, batch, i,      \* a worker: where, doing what, at which member
    shard, cnt, old, at,         \* its scan, the count it read, its log index
    alone, raced, strayed,       \* history, see below
    reqs, troubles

store  == <<coord, meta, index>>
raft   == <<log, applied, wired, leader, isLeader>>
work   == <<pc, node, op, batch, i, shard, cnt, old, at, alone>>
hist   == <<raced, strayed>>
bounds == <<reqs, troubles>>
vars   == <<store, raft, work, hist, bounds>>

Init ==
    /\ coord = [n \in Nodes |-> [m \in Members |-> None]]
    /\ meta  = [n \in Nodes |-> [m \in Members |-> None]]
    /\ index = [n \in Nodes |-> None]
    /\ log = << >> /\ applied = [n \in Nodes |-> 0]
    /\ wired = [n \in Nodes |-> FALSE]
    /\ leader \in Nodes /\ isLeader = [n \in Nodes |-> FALSE]
    /\ pc = [w \in Workers |-> "idle"] /\ node = [w \in Workers |-> None]
    /\ op = [w \in Workers |-> "none"] /\ batch = [w \in Workers |-> << >>]
    /\ i = [w \in Workers |-> 1] /\ shard = [w \in Workers |-> 1]
    /\ cnt = [w \in Workers |-> 0] /\ old = [w \in Workers |-> 0]
    /\ at = [w \in Workers |-> 0]
    /\ alone = [w \in Workers |-> FALSE] /\ raced = [n \in Nodes |-> FALSE]
    /\ strayed = [n \in Nodes |-> {}]
    /\ reqs = 0 /\ troubles = 0

Trouble == troubles < MaxTroubles /\ troubles' = troubles + 1 /\ UNCHANGED reqs

Named(b) == {b[j].member : j \in DOMAIN b}

\* w is inside SetGeo or DeleteGeo.
Writing(w) == pc[w] \in {"coord", "meta", "scan", "index", "update"}

-----------------------------------------------------------------------------
(* SetGeo and DeleteGeo, one step per access to a shard *)

\* SetGeo reads the index first: the count is the one it falls back on.
\* alone[w]: no other worker has been writing on the node since w began.
Start(w, n, o, b) ==
    /\ pc' = [pc EXCEPT ![w] = "coord"] /\ node' = [node EXCEPT ![w] = n]
    /\ op' = [op EXCEPT ![w] = o] /\ batch' = [batch EXCEPT ![w] = b]
    /\ i' = [i EXCEPT ![w] = 1]
    /\ old' = [old EXCEPT ![w] = IF index[n] = None THEN 0 ELSE index[n]]
    /\ LET others == {v \in Workers \ {w} : Writing(v) /\ node[v] = n}
       IN alone' = [v \in Workers |-> IF v = w THEN others = {}
                                      ELSE alone[v] /\ v \notin others]
    /\ UNCHANGED <<shard, cnt, at>>

\* The workers of W are done: they answer, return from FSM.Apply, or die.
Stop(W) ==
    /\ pc' = [w \in Workers |-> IF w \in W THEN "idle" ELSE pc[w]]
    /\ node' = [w \in Workers |-> IF w \in W THEN None ELSE node[w]]
    /\ op' = [w \in Workers |-> IF w \in W THEN "none" ELSE op[w]]
    /\ batch' = [w \in Workers |-> IF w \in W THEN << >> ELSE batch[w]]
    /\ i' = [w \in Workers |-> IF w \in W THEN 1 ELSE i[w]]
    /\ shard' = [w \in Workers |-> IF w \in W THEN 1 ELSE shard[w]]
    /\ cnt' = [w \in Workers |-> IF w \in W THEN 0 ELSE cnt[w]]
    /\ old' = [w \in Workers |-> IF w \in W THEN 0 ELSE old[w]]
    /\ at' = [w \in Workers |-> IF w \in W THEN 0 ELSE at[w]]
    /\ alone' = [w \in Workers |-> w \notin W /\ alone[w]]

\* The next member, or the count of the members.
Advance(w) ==
    IF i[w] < Len(batch[w])
    THEN /\ i' = [i EXCEPT ![w] = @ + 1] /\ pc' = [pc EXCEPT ![w] = "coord"]
         /\ UNCHANGED <<shard, cnt>>
    ELSE /\ pc' = [pc EXCEPT ![w] = "scan"] /\ shard' = [shard EXCEPT ![w] = 1]
         /\ cnt' = [cnt EXCEPT ![w] = 0] /\ UNCHANGED i

\* Set or Delete of the member's coordinate key.
\* strayed[n]: members whose position on n no longer comes from the log.
WriteCoord(w) ==
    LET n == node[w]
        b == batch[w][i[w]]
    IN /\ pc[w] = "coord"
       /\ coord' = [coord EXCEPT ![n] =
              [@ EXCEPT ![b.member] = IF op[w] = "add" THEN b.pos ELSE None]]
       /\ IF op[w] = "add" /\ b.meta = None
          THEN Advance(w)
          ELSE pc' = [pc EXCEPT ![w] = "meta"] /\ UNCHANGED <<i, shard, cnt>>
       /\ strayed' = [strayed EXCEPT ![n] =
              IF op[w] = "del" THEN @ \cup {b.member}
              ELSE IF w \in Nodes THEN @ \ {b.member} ELSE @]
       /\ UNCHANGED <<meta, index, raft, node, op, batch, old, at, alone, raced,
                      bounds>>

\* Set or Delete of the metadata key.
WriteMeta(w) ==
    LET n == node[w]
        b == batch[w][i[w]]
    IN /\ pc[w] = "meta"
       /\ meta' = [meta EXCEPT ![n] =
              [@ EXCEPT ![b.member] = IF op[w] = "add" THEN b.meta ELSE None]]
       /\ Advance(w)
       /\ UNCHANGED <<coord, index, raft, node, op, batch, old, at, alone, hist,
                      bounds>>

\* One shard's part of the scan for coordinate keys.
scanKeysWithPrefix(n, s) ==
    {m \in Members : coord[n][m] # None /\ ShardOf[m] = s}

ScanShardMissesLast(w) ==
    /\ pc[w] = "scan"
    /\ cnt' = [cnt EXCEPT
                 ![w] = @ + Cardinality(scanKeysWithPrefix(node[w], shard[w]))]
    /\ IF shard[w] < NShards - 1
       THEN shard' = [shard EXCEPT ![w] = @ + 1] /\ UNCHANGED pc
       ELSE pc' = [pc EXCEPT ![w] = "index"] /\ UNCHANGED shard
    /\ UNCHANGED <<store, raft, node, op, batch, i, old, at, alone, hist, bounds>>

ScanShard(w) ==
    /\ pc[w] = "scan"
    /\ cnt' = [cnt EXCEPT
                 ![w] = @ + Cardinality(scanKeysWithPrefix(node[w], shard[w]))]
    /\ IF shard[w] < NShards
       THEN shard' = [shard EXCEPT ![w] = @ + 1] /\ UNCHANGED pc
       ELSE pc' = [pc EXCEPT ![w] = "index"] /\ UNCHANGED shard
    /\ UNCHANGED <<store, raft, node, op, batch, i, old, at, alone, hist, bounds>>

\* SetGeo writes the index and returns: GEOADD goes on to Raft, the FSM is done
\* with its entry.  raced[n]: the last worker to write the index was not alone.
WriteIndex(w) ==
    /\ pc[w] = "index" /\ op[w] = "add"
    /\ index' = [index EXCEPT ![node[w]] = cnt[w]]
    /\ raced' = [raced EXCEPT ![node[w]] = ~alone[w]]
    /\ IF w \in Nodes
       THEN Stop({w}) /\ applied' = [applied EXCEPT ![w] = @ + 1]
       ELSE /\ pc' = [pc EXCEPT ![w] = "raft"]
            /\ UNCHANGED <<applied, node, op, batch, i, shard, cnt, old, at, alone>>
    /\ UNCHANGED <<coord, meta, log, wired, leader, isLeader, strayed, bounds>>

\* DeleteGeo removes the index of an empty key, and otherwise reads it first.
DeleteIndex(w) ==
    /\ pc[w] = "index" /\ op[w] = "del" /\ cnt[w] = 0
    /\ index' = [index EXCEPT ![node[w]] = None]
    /\ raced' = [raced EXCEPT ![node[w]] = ~alone[w]]
    /\ Stop({w})
    /\ UNCHANGED <<coord, meta, raft, strayed, bounds>>

ReadIndex(w) ==
    /\ pc[w] = "index" /\ op[w] = "del" /\ cnt[w] > 0
    /\ IF index[node[w]] = None
       THEN Stop({w}) /\ raced' = [raced EXCEPT ![node[w]] = @ \/ ~alone[w]]
       ELSE /\ pc' = [pc EXCEPT ![w] = "update"]
            /\ UNCHANGED <<raced, node, op, batch, i, shard, cnt, old, at, alone>>
    /\ UNCHANGED <<store, raft, strayed, bounds>>

UpdateIndex(w) ==
    /\ pc[w] = "update"
    /\ index' = [index EXCEPT ![node[w]] = cnt[w]]
    /\ raced' = [raced EXCEPT ![node[w]] = ~alone[w]]
    /\ Stop({w})
    /\ UNCHANGED <<coord, meta, raft, strayed, bounds>>

-----------------------------------------------------------------------------
(* Failures of the store *)

\* A failed Set ends SetGeo with what it has written so far.
SetFails(w) ==
    /\ Trouble
    /\ op[w] = "add" /\ pc[w] \in {"coord", "meta", "index"}
    /\ Stop({w})
    /\ applied' = IF w \in Nodes THEN [applied EXCEPT ![w] = @ + 1] ELSE applied
    /\ raced' = [raced EXCEPT ![node[w]] = TRUE]
    /\ strayed' = [strayed EXCEPT ![node[w]] = @ \cup Named(batch[w])]
    /\ UNCHANGED <<store, log, wired, leader, isLeader>>

\* DeleteGeo ignores a failed Delete of a member's keys and of the index, and a
\* failed Set of the index.
DeleteFails(w) ==
    /\ Trouble
    /\ op[w] = "del"
    /\ raced' = [raced EXCEPT ![node[w]] = TRUE]
    /\ \/ pc[w] = "coord" /\ pc' = [pc EXCEPT ![w] = "meta"]
          /\ UNCHANGED <<node, op, batch, i, shard, cnt, old, at, alone>>
       \/ pc[w] = "meta" /\ Advance(w)
          /\ UNCHANGED <<node, op, batch, old, at, alone>>
       \/ pc[w] \in {"index", "update"} /\ Stop({w})
    /\ UNCHANGED <<store, raft, strayed>>

\* A failed scan: SetGeo writes the count it read at the start, DeleteGeo leaves
\* the index alone.
ScanFails(w) ==
    /\ Trouble
    /\ pc[w] = "scan"
    /\ raced' = [raced EXCEPT ![node[w]] = TRUE]
    /\ IF op[w] = "add"
       THEN /\ cnt' = [cnt EXCEPT ![w] = old[w]]
            /\ pc' = [pc EXCEPT ![w] = "index"]
            /\ alone' = [alone EXCEPT ![w] = FALSE]
            /\ UNCHANGED <<node, op, batch, i, shard, old, at>>
       ELSE Stop({w})
    /\ UNCHANGED <<store, raft, strayed>>

-----------------------------------------------------------------------------
(* Requests *)

\* The handlers, up to their call of the store; requests they turn down change
\* nothing.
handleGeoAdd(p, n, b) == Start(p, n, "add", b)
handleGeoDel(p, n, b) == Start(p, n, "del", b)

Request(p, n, b) ==
    /\ pc[p] = "idle" /\ reqs < MaxReqs /\ reqs' = reqs + 1
    /\ handleGeoAdd(p, n, b) \/ handleGeoDel(p, n, b)
    /\ UNCHANGED <<store, raft, hist, troubles>>

\* A node that does not take itself for the leader sends writes on to it.
handleGeoCommands(p, n, b) == isLeader[n] /\ Request(p, n, b)

\* The cluster's GEO command runs the same handlers on whatever node it reaches.
handleGeoCluster(p, n, b) == Request(p, n, b)

\* handleGeoAdd after SetGeo, on a node that takes itself for the leader and is:
\* ApplyCommand commits the members.  A call that fails and commits later is this
\* action taken later.
Replicate(p) ==
    /\ pc[p] = "raft" /\ isLeader[node[p]] /\ leader = node[p]
    /\ log' = Append(log, batch[p])
    /\ pc' = [pc EXCEPT ![p] = "wait"] /\ at' = [at EXCEPT ![p] = Len(log) + 1]
    /\ UNCHANGED <<store, applied, wired, leader, isLeader, node, op, batch, i,
                   shard, cnt, old, alone, hist, bounds>>

\* Not the leader, or Raft refuses (the node lost the leadership it believes in):
\* the members stay on this node only, and the answer is success all the same.
KeepLocal(p) ==
    /\ pc[p] = "raft" /\ (~isLeader[node[p]] \/ leader # node[p])
    /\ Stop({p})
    /\ strayed' = [strayed EXCEPT ![node[p]] = @ \cup Named(batch[p])]
    /\ UNCHANGED <<store, raft, raced, bounds>>

\* ApplyCommand returns once the node's own FSM has applied the entry, or with an
\* error when the leadership is lost; the answer is success in both cases.
Answer(p) ==
    /\ pc[p] = "wait" /\ (applied[node[p]] >= at[p] \/ leader # node[p])
    /\ Stop({p})
    /\ UNCHANGED <<store, raft, hist, bounds>>

-----------------------------------------------------------------------------
(* FSM, leadership, restarts *)

\* The leader relies on what its handler stored before.
ApplyGeoAddNotOnLeader(n) ==
    /\ pc[n] = "idle" /\ applied[n] < Len(log) /\ wired[n]
    /\ IF isLeader[n]
       THEN applied' = [applied EXCEPT ![n] = @ + 1] /\ UNCHANGED work
       ELSE Start(n, n, "add", log[applied[n] + 1]) /\ UNCHANGED applied
    /\ UNCHANGED <<store, log, wired, leader, isLeader, hist, bounds>>

\* FSM.Apply of a geoadd command: SetGeo through the callback.
ApplyGeoAdd(n) ==
    /\ pc[n] = "idle" /\ applied[n] < Len(log) /\ wired[n]
    /\ Start(n, n, "add", log[applied[n] + 1])
    /\ UNCHANGED <<store, raft, hist, bounds>>

\* Without the callback the command is applied to nothing.
SkipGeoAdd(n) ==
    /\ pc[n] = "idle" /\ applied[n] < Len(log) /\ ~wired[n]
    /\ applied' = [applied EXCEPT ![n] = @ + 1]
    /\ strayed' = [strayed EXCEPT ![n] = @ \cup Named(log[applied[n] + 1])]
    /\ UNCHANGED <<store, log, wired, leader, isLeader, work, raced, bounds>>

SetFSMGeoAddCallback(n) ==
    /\ ~wired[n] /\ wired' = [wired EXCEPT ![n] = TRUE]
    /\ UNCHANGED <<store, log, applied, leader, isLeader, work, hist, bounds>>

Elect(n) ==
    /\ Trouble
    /\ n # leader /\ leader' = n
    /\ UNCHANGED <<store, log, applied, wired, isLeader, work, hist>>

monitorLeadership(n) ==
    /\ isLeader[n] # (leader = n)
    /\ isLeader' = [isLeader EXCEPT ![n] = (leader = n)]
    /\ UNCHANGED <<store, log, applied, wired, leader, work, hist, bounds>>

\* A crash.  The files keep what was written; Raft applies again what follows its
\* snapshot, which holds no GEO data; the callback is not yet set.
Restart(n) ==
    /\ Trouble
    /\ LET here == {w \in Workers : node[w] = n /\ pc[w] # "idle"}
       IN /\ Stop(here)
          /\ raced' = [raced EXCEPT ![n] = @ \/ \E w \in here : Writing(w)]
          /\ strayed' = [strayed EXCEPT ![n] = @ \cup
                UNION {Named(batch[w]) : w \in {p \in here \cap Procs : pc[p] # "wait"}}]
    /\ \E snap \in 0 .. applied[n] : applied' = [applied EXCEPT ![n] = snap]
    /\ wired' = [wired EXCEPT ![n] = FALSE]
    /\ isLeader' = [isLeader EXCEPT ![n] = FALSE]
    /\ UNCHANGED <<store, log, leader>>

-----------------------------------------------------------------------------
Worker(w) ==
    \/ WriteCoord(w) \/ WriteMeta(w) \/ ScanShard(w)
    \/ WriteIndex(w) \/ DeleteIndex(w) \/ ReadIndex(w) \/ UpdateIndex(w)
    \/ SetFails(w) \/ DeleteFails(w) \/ ScanFails(w)

Next ==
    \/ \E w \in Workers : Worker(w)
    \/ \E p \in Procs, n \in Nodes, b \in Batches :
           handleGeoCommands(p, n, b) \/ handleGeoCluster(p, n, b)
    \/ \E p \in Procs : Replicate(p) \/ KeepLocal(p) \/ Answer(p)
    \/ \E n \in Nodes : \/ ApplyGeoAdd(n) \/ SkipGeoAdd(n)
                        \/ SetFSMGeoAddCallback(n)
                        \/ Elect(n) \/ monitorLeadership(n) \/ Restart(n)

Spec == Init /\ [][Next]_vars

-----------------------------------------------------------------------------
(* Properties *)

\* GetGeo and GEOPOS for one member, which is what a client sees of it.
GetGeo(n, m) == [found |-> coord[n][m] # None, pos |-> coord[n][m],
                 metadata |-> meta[n][m]]
handleGeoPos(n, m) == LET d == GetGeo(n, m) IN IF d.found THEN d.pos ELSE None

\* The places of member m in a list, and the positions it is given there.
Places(b, m) == {j \in DOMAIN b : b[j].member = m}
Given(b, m) == {b[j].pos : j \in Places(b, m)}

\* A GEOADD that is on its way on node n and not in the log.
Unlogged(p, n) == node[p] = n /\ op[p] = "add" /\ pc[p] \notin {"idle", "wait"}

\* What node n may hold for member m if it has kept up with the log to entry k:
\* the last position the log gives up to k, one that it gives later, or one that
\* a GEOADD under way has brought.
LastGiven(m, k) ==
    LET es == {e \in 1 .. k : Places(log[e], m) # {}}
        b  == log[Max(es)]
    IN IF es = {} THEN {None} ELSE {b[Max(Places(b, m))].pos}
GivenAfter(m, k) ==
    {pos \in Positions : \E e \in DOMAIN log : e > k /\ pos \in Given(log[e], m)}
OnTheWay(n, m) ==
    {pos \in Positions :
        \E p \in Procs : Unlogged(p, n) /\ pos \in Given(batch[p], m)}

\* A node that has applied the log up to some entry never shows a position of a
\* member older than that, whatever requests write beside it and however often
\* the log is replayed.  In particular a GEOADD that ApplyCommand confirmed is
\* visible on its node until a later one replaces it, and nodes that have applied
\* everything agree.  Excepted are members that a GEODEL, a GEOADD kept local, a
\* failed write, or an entry applied before the callback was set has touched on
\* the node since the FSM last stored them.
PositionsFollowLog ==
    \A n \in Nodes : \A m \in Members \ strayed[n] :
        handleGeoPos(n, m) \in LastGiven(m, applied[n])
                   \cup GivenAfter(m, applied[n]) \cup OnTheWay(n, m)

\* The members a node has for the key, as getAllGeoMembers collects them.
getAllGeoMembers(n) == UNION {scanKeysWithPrefix(n, s) : s \in 1 .. NShards}

\* The index counts the stored members whenever nobody is writing and the last
\* worker to write the index was not disturbed: a GEOADD that runs alone, or the
\* FSM's copy of it, repairs any count that concurrent writes, failures or a
\* crash left wrong, and GEODEL never leaves an index for an empty key.
IndexCountsMembers ==
    \A n \in Nodes :
        (~raced[n] /\ ~\E w \in Workers : Writing(w) /\ node[w] = n) =>
            LET all == getAllGeoMembers(n)
            IN index[n] = IF all = {} THEN None ELSE Cardinality(all)
=============================================================================
