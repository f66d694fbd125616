# Burin verification

TLA+ models of Burin, a Raft-based distributed cache: what TLC checks on small
instances and what TLAPS proves for all. Module and definition names follow the
source where TLA+ allows it; `PROJECT.json` maps every definition to the lines it
models.

## 1. The system

| Part | Source | State it keeps | Operations |
|---|---|---|---|
| Cache engine | `store/cache.go` | map database -> shards, each an open Badger directory | create on first access, CreateDatabase, DeleteDatabase, Set/Get/Delete, counts and listings, Shutdown |
| Cache shard | `store/cache.go` | values with TTL and creation time; `ttlIndex` in memory | Set, Get (deletes what it finds expired, later), Delete, periodic sweep |
| Consensus | `consensus/node.go`, `fsm.go` | Raft log; `store` and `ttl` maps of the FSM | ApplyCommand, FSM.Apply, Snapshot, Restore, reads with asynchronous expiry |
| Write path | `business/engine.go`, `cache_handlers.go` | callbacks from FSM to cache engine | SET/DELETE via Raft, GET from the local engine |
| Transactions | `transaction/manager.go`, `business/transaction_handlers.go` | map of transactions, their operations and status | begin, execute, commit, rollback, cleanup of expired ones, Shutdown |
| Coordinator, MVCC | `transaction/coordinator.go`, `mvcc.go` | distributed transactions; version chains | prepare/commit/abort; read, write, garbage collection (neither is used with data by the server) |
| GEO | `store/geo.go`, `business/geo_handlers.go` | per member a coordinate key and a metadata key, per key an index | GEOADD (local, then Raft), GEODEL (local), reads |
| Authentication | `auth/*`, `business/auth_handler.go` | users and permissions as JSON in the system database | login, user and permission management, checks |
| Connections | `cProtocol/server.go`, `client.go`, `client/pool.go` | connection table; one socket per client; idle channel of the pool | accept, serve, close; send and receive; get, put, clean up |
| Cluster | `business/engine.go`, `cluster_handlers.go`, `consensus/data_sync.go`, `health.go` | node table, polled leadership, synchronisations under way | forward to leader, join, leave, full and incremental sync, health checks |
| Transaction client | `client/internal/transaction/client.go` | read, write and delete set of a transaction, its status | get, set, delete on the sets; commit and rollback on the server |
| Beside the request path | `store/batch.go`, `ttl_manager.go`, `consensus/snapshot.go`, `business/middleware.go` | batches; time wheels; captures; breakers and buckets | batch get, set, delete; expiry; capture and restore; admit and record |
| Front ends | `cli/`, the rest of `client/internal/`, `examples/` | none of their own | encode a request, decode the answer |

How they interact: a client request arrives on a connection and is served by a
goroutine of its own. Writes go to the leader's Raft log; every node applies the
log to its FSM and, through callbacks, to its cache engine. GET reads the local
cache engine, transactions read the FSM. A transaction's commit issues one Raft
command per write. A write that reaches a follower is forwarded to the node it takes
for the leader, by the client addresses nodes announce through the log.

What is hard here: goroutines that look something up under one lock and use it
under another (transactions, databases, shards); deletions decided now and done
later (expired reads, sweeps, cleanup); Raft calls that fail after having taken
effect; restarts that rebuild the FSM but find the cache engine's files as they
were; callbacks set after Raft has begun to apply; nodes that apply the same
command at different times. `PROJECT.json` lists each hazard at its line.

## 2. Plan

In order of importance. All ten are modelled.

1. `TransactionManager`: life of a transaction under concurrent requests, cleanup,
   Raft failures. Invariant proved.
2. `CacheShard`: TTL, the three deleters, restart. Invariant proved.
3. `ReplicatedStore`: log, FSM, snapshots, callbacks, cache engine on every node.
   Invariant proved.
4. `CacheEngine`: databases created, used and dropped concurrently; routing.
   Invariant and totality of the routing proved.
5. `GeoStore`: members, metadata and index under concurrent GEOADD and GEODEL, the
   local-then-replicated order, agreement of nodes. Positions and index proved.
6. `ClientPool`, `ProtocolServer`: request/response pairing on a client connection
   across timeouts and reconnects, the pool's limits, the server's connection table
   and Stop. Everything about the pool proved.
7. `AuthManager`, `AuthServer`: read-modify-write of users, logins, permissions of
   dropped databases. Every safety property of server and commands proved.
8. `Cluster`, `Forwarding`: what nodes know of one another, joins and restarts, and on
   top of it writes forwarded with stale leadership. Views and answers proved.
9. `Coordinator`, `AtomicCommit`: two-phase commit, and the abstract commit it
   implements. Refinement and lock discipline proved.
10. `TxnClient`, `CircuitBreaker`, `RateLimiter`, `TTLWheel`, `BatchProcessor`, `DataSync`,
    `SnapshotManager`, `ErrorRecovery`, `MVCCStore`. All proved.

Every safety property that a run checks and that holds is proved for all instances;
what is left to TLC alone is liveness.

## 3. Modules

Every component has a module `X`, an instance `MCX` with `X.cfg`, and, where
something is proved, `XProofs`. The small components share the instance `MCServices`,
and proof modules by what they serve: `RequestProofs` (what a request meets on one
node, `CacheShard` included), `NodeProofs` (what a node does for itself: `ReplicatedStore`,
`DataSync`, `SnapshotManager`, `ErrorRecovery`), `ClusterProofs` (what takes two parties),
`CacheEngineProofs` (also `MVCCStore`) and `AuthProofs` (`ProtocolServer`, `AuthManager`,
`AuthServer`). Definitions named like another with a suffix (`DropKeepsHandles` before
`Drop`) are deliberate bugs, kept to show that the properties notice them; nothing
else uses them.

### TransactionManager

`transactions` is the manager's map, `status`, `type`, `ops`, `expired` the fields of
each transaction. A goroutine `p` serving a request has a program counter `pc[p]`,
its request `req[p]`, `has[p]` (it holds the pointer it looked up) and `idx[p]` (the
commit loop's position). One action per step between lock operations: `Lookup`
(under `tm.mu`), then `AddOperation`, `ExecuteGet`, `CommitLocal`, `AbortTransaction`
... (under `txn.mu`). Only the commit loop holds `txn.mu` over several steps, one Raft
call each; `ApplyOp`, `ApplyOpFails`, and `LateCommit`/`LateDrop` for a call whose
outcome was in doubt. `Cleanup*` is the janitor, `Shutdown*` the shutdown, which
aborts what is left. Raft is external: a log of applied commands.

### CacheShard

`db` is Badger, `ttlIndex` the in-memory index, `setting` a Set between its two writes
(it holds `s.mu`), `lazy` the goroutines started by expired reads, `spc`/`todo` the
sweep. Time is in ticks, `TPS` to a second, because a value stores its TTL in whole
seconds and the index the full duration. `promised`, `exposed` and `fresh` are
history: what the last Set of a key promised, whether a deletion of the key was
pending when it was set, and whether it was set in this run of the process.

### ReplicatedStore

`log` is Raft's committed log (external). Each node has `store`/`ttl` (FSM), `applied`,
`wired` (the callbacks are set), `cache` (the cache engine's files, which survive a
restart), `snap`. `Apply` is FSM.Apply with its callback; `Snapshot`,
`InstallSnapshot`, `Restart` with `Restore`; `ReadExpired` and `AsyncDelete` are the
read that finds an expired key and the goroutine it starts. Deadlines count from the
time of applying. `base`, `top`, `missed` are history for `LocalReadsCatchUp`.

### CacheEngine

`databases` is `e.databases`; each time shards are opened they get a new generation, so
that `open` (the open Badger handles) can tell the shards of a dropped database from
those of its successor. A request is `Receive`, then `CreateCheck`/`Init*` (under
`e.mu`), `Lookup` (under `e.mu.RLock`), then `UseShard` or one `ScanShard` per shard
without the lock. `Drop` is DeleteDatabase; `InitFails` leaves the handles opened so
far open, as the code does; Badger refuses to open a locked directory (`Locked`,
external). What a key's shard does with time is left to `CacheShard`: here a key is
stored or not.

### GeoStore

`coord`, `meta` and `index` are the three kinds of keys of one GEO key on each node.
SetGeo and DeleteGeo are one step per access to a shard (`WriteCoord`, `WriteMeta`,
`ScanShard` for the count, `WriteIndex`, `ReadIndex`, `UpdateIndex`), run by request
goroutines and, when the log is applied, by the FSM's goroutine of the node. GEOADD
then goes to `Replicate`, or to `KeepLocal` where the polled `isLeader` says so.
`raced`, `strayed` and `alone` are history: who wrote beside whom, and which members
a node has changed outside the log.

### ClientPool

`channel` is the pool's channel of idle clients. A user takes a client (`Take`,
`Probe`, `Discard`, or `createNewClient` and `Dial`), calls the server, and puts it back
(`Put`, then `Push`); `Cleanup*` and `Close*` run beside it. A connection counts its
requests `sent`, `answered` and `read`: an answer belongs to a request only by its
place, so `AnswersInStep` says how far behind an answer may be, namely by the receives
that timed out on that connection and no others. A send on the closed channel panics
(`UserPanics`, `CleanupPanics`), which ends the behaviour.

### ProtocolServer, AuthManager, AuthServer

`ProtocolServer` has the accept loop of each Start (`apc`, `acc`), a handler goroutine
per connection (`hpc`), and the tables `conns`, `connAuth` and the counter `connCount`.
The counter is apart from the tables, as in the code. The loop of an earlier
Start may still run after the next one, since it only looks at `running`.
`AuthManager` keeps `users` and `perms`, the keys of the system database. A
command is one step per access to the store: `OperatorAllowed`, `ReadUser`,
`CheckUser` (UpdateUser's second look), `Write`, and for lists `ListKeys` and one
`FetchPerm` per key. Reads and writes may fail (`GetFails`, `WriteFails`) and a write may
come late (`WriteInDoubt`, `LateWrite`). `AuthServer` composes the two by EXTENDS: a
handler at `route` starts a command and a login ends with
`MarkConnectionAuthenticated`; it adds USE and DELETE of databases. `base` and `touched`
are history: the target's data when the command began, and the users that somebody
else changed, or that could not be read or written, since. `NoValue` declares the
`None` they share.

### Cluster, Forwarding

`raftLog` is Raft's committed log of members, metadata and writes (external); `have` and
`applied` are each node's copy of it and how far its FSM came. `seen` is the leader
Raft knows of on a node, `isLeader` and `peers` what `monitorLeadership` has polled from
it; the configuration may be an entry old, because `updatePeerInfo` reads it before it
takes `n.mu`. `clientAddrs` and `peerAddrs` come from metadata commands and joins; a restart
keeps only what the log holds after the snapshot. `replica` is the replicator's node
list. `Forwarding` EXTENDS `Cluster` with writes: `work` says where a write is handled
and after how many hops, `answer` what its client was told. A node may forward to a
node that is no longer leader, which forwards again; connections are lost and waits
time out at every hop while the work further on continues.

### Coordinator, AtomicCommit

`txn` is the one distributed transaction, `mu` the holder of `txn.mu`, `call` the place of
each caller in PrepareTransaction, CommitTransaction, AbortTransaction, the manager's
Commit and AbortTransaction, or the cleanup. Answers of participants come in any
order; a caller's context may be done first. `AtomicCommit` is what callers may rely
on: participants agree one by one, a commit needs all of them, a decision is final.
The mapping takes `txn.prepared` for `agreed` and a final status for `decision`.

### TxnClient

One transaction of the client library shared by goroutines, from the return of Begin.
`requests` and `answers` are the connection, which SendRequest uses without a lock, so
that the next answer goes to any goroutine that waits; `server` is the transaction at
the other end, as far as a client can tell its states apart. `crossed` is history: a
receive has timed out, or two calls have been on the connection at once.

### The other parts of Services

- `CircuitBreaker`: AllowRequest's read lock and write lock are two steps; the function
  runs with no lock and is recorded into whatever state there is by then.
- `RateLimiter`: Allow finds the bucket and takes the token in two steps, between
  which cleanup may drop the bucket. `granted` and `mark` are history.
- `MVCCStore`: a write takes its version, finds its chain and appends in three steps;
  Commit, Abort and GC run in between. `Filter` is the loop of Abort and of GC that
  copies the entries to keep, in order.
- `TTLWheel`: AddKey computes a slot before it locks; tick detaches a list and
  handles it after the unlock.
- `BatchProcessor`: a batch is split into groups by database and shard; a group fills
  its badger batch and flushes it; a flush may fail with part of it written. `unread`
  is history: the items of an MGet whose value could not be read.
- `DataSync`: sessions with their slots; each unlocked `++` is a load and a store.
- `SnapshotManager`: a checksum is of the data and of the order in which its maps were
  met, so that equal data may have different checksums.
- `ErrorRecovery`: attempts that overlap, on a record that may be replaced meanwhile.

`Services` puts these beside one another: they share no state, and `part` says which of
them a behaviour is about. Nothing is lost by this, since a step of one part neither
reads nor writes another's variables.

## 4. Runs

| Run | Instance | What it shows |
|---|---|---|
| `txn` | 1 transaction, 2 goroutines, up to 3 operations, batches that set, read and delete | log entries of a transaction are a prefix of its writes, in order; a committed one is there in full; nothing before commit, and nothing ever of a read-only one; cleanup removes only finished ones; reads see own writes |
| `txn_live` | the same with single writes, fairness | expired transactions are removed, every request returns |
| `txn_atomicity` | violation | README.md:29 says "ACID transaction processing capabilities"; a commit that fails half-way leaves a part of its writes |
| `shard` | 2 keys, TTLs 0 and 1 s at 2 ticks a second, 7 ticks, 1 restart, fairness | reads return what was promised and only in its time; values with nothing pending against them stay; expired ones go |
| `shard_lost_value` | violation | a deletion decided for an earlier value of the key takes a live one |
| `store` | 2 nodes, 1 key, 2 values, 2 log entries, 2 time steps, 2 restarts | FSMs reflect the log through replay and snapshots; local reads catch up where no command was missed; asynchronous deletes only hit keys that were given a TTL |
| `store_nodes` | violation | nodes that have applied the same log answer GET differently |
| `engine` | 2 goroutines, 2 databases, 2 shards, a key on the border of the two ranges, 4 generations, 1 Badger failure, Shutdown | handles match the map; a request never works on shards dropped behind its back; counts are bounded by what was there all along and at some time |
| `geo` | 2 nodes, 2 request goroutines, 2 members on different shards, 2 requests, 1 failure, election or restart | a node never shows a position older than what it has applied, apart from members changed outside the log; the index counts the members once its last writer was alone |
| `pool` | 2 users, 3 clients, maxSize 1, minSize 1, 4 requests a connection, 1 timeout, break or expiry, cleanup, Close | a client has one owner, the size counts the clients, no client is left open, answers keep their distance |
| `auth` | 2 connections, maxConns 1, 2 Starts, 2 users, 2 databases, 2 requests, 1 failure of the store; from the first Start, and from a state with two users logged in and every command | tables and counter fit the goroutines; a command nobody disturbed is all or nothing; a login's copy fits the store; a drop respects the permissions it could see; Stop drains |
| `services` | every part of `Services` from its initial state, bounds in `Services.cfg` | one property a part, below |

`services` shows: `ForwardedOnce` (a write is committed at most once, exactly once if its
client was told 200, never if it was told 403 or 503); `ViewsFollowLog` (peers, addresses
and node lists are what the log says, with polls, joins and restarts writing them);
`LockIsFreed` (only a call that will free it holds `txn.mu`, but for the self-deadlock of
section 6); `ImplementsAtomicCommit` (the refinement); `EndingsAreTrue` (what Commit and
Rollback of the client returned is what the server did, unless calls crossed on the
connection); `ReadsMoveByCommit` (what a read of the present sees changes only by a
commit); `CountsBelowThresholds` (a breaker's counters fit its state); `RateHolds` (no
stretch of time gives a client more than a burst and the rate); `WheelOnTime` (the first
wheel expires nothing early and keeps nothing more than an interval late);
`BatchAnswersBacked` (each key that could be read is answered, and a success is a write); `SyncsAccounted` (slots, history and counters fit the sessions);
`StoreWasApplied` (a damaged snapshot never replaces the store); `AttemptsBounded`
(overlapping attempts keep to the limit).

Bounds. Two goroutines reach every pairwise race; a third adds no new kind of
conflict because conflicts are over one transaction, key or database at a time
(`engine` was also explored with three). Three operations allow a
read between two writes, two log entries a value overwritten during replay, two
restarts a restart during replay. Generations 4 allow drop, re-creation and a failed
creation in one behaviour. Time bounds let a TTL end and the sweep run afterwards.
In `geo` two requests are two GEOADDs, or a GEOADD and a GEODEL, beside the copies the
log brings; in `pool` `maxSize` 1 makes every second user meet the limit. `auth` has two
requests so that every command meets every other; Stop is left out of
its second scenario, which needs neither Start nor Stop. `Requests` is the set of
requests clients may send, and a behaviour draws on a subset of it, `requests`.
In `services` two nodes with two elections give every stale view of who leads, and two
hops a write that bounces; two callers and two participants let every call of the
coordinator meet every other in every phase; three callers of the breaker let a
result of each earlier state arrive in a later one; GC's threshold is 1 so that it
runs; the wheels are small enough to turn more than once; three sessions compete for
two slots; two goroutines end one transaction in every order, with one lost receive.

Deadlock is checked in `txn`, `txn_live` and `shard`. `store` and `engine` stop when their
bounded log or their Shutdown is used up, `geo` with its requests, `pool` when it is
closed or has panicked, `auth` when the server is stopped for good, `services` at the
bounds of its parts and at the deadlock of section 6, which `LockIsFreed` accounts for.

Symmetry: goroutines, and nodes and values, are used alike and no liveness property
is checked in runs that use it.

Fairness. `txn_live`: weak fairness of each goroutine's steps and the janitor's (Go
schedules runnable goroutines; tickers fire), strong fairness of taking `txn.mu`
(Go's mutex hands over to a starving waiter after 1 ms), weak fairness of Raft
settling what is in doubt. `shard`: weak fairness of the clock, of finishing a Set and
of the sweep's ticker, strong fairness of the deleters' taking `s.mu`.
`auth`: weak fairness of Stop's steps and, while the server is stopped, of each accept
loop and each handler goroutine (runnable goroutines are scheduled, and a read returns
at its deadline); none for clients, Start or Raft.

## 5. Proofs

All theorems hold for every value of the constants (any number of goroutines, nodes,
keys, TTLs, shards, clients), under the ASSUMEs of the modules. Most say that sizes are
natural numbers, that sets of keys, members, connections or participants are finite, and
that markers such as `None` are not values. Some say what the constructors see to
(`minSize` at most `maxSize`, at least one shard) or what a sensible configuration has
(thresholds of the breaker at least one, a wheel with a slot). One is a condition on the
configuration that the code does not check: a bucket idle for the time after which
cleanup drops it is full again (with ten minutes, `600 * maxRate >= burstSize`);
otherwise dropping it would hand out more than the rate allows. 36 of the 39 properties
the passing runs check are proved: all the invariants and action properties and the
refinement. The other three are liveness.

Each proof has the same shape. The checked property is strengthened to an invariant that
every action preserves on its own, there is one lemma or case for each action, and the
theorem combines them. What the strengthening adds is the reason why the code is right:

- `TransactionManagerProofs`. `IndInv`: a goroutine that holds a pointer looked up an
  existing transaction (`CallInv`), at most one goroutine is in a transaction's commit
  loop (`OneCommitter`), the log entries of a transaction are the writes before the
  loop's position (`LoopInv`), what is in doubt is the next write of an aborting
  transaction (`DoubtInv`). From it: `LogHoldsPrefixes`, `CommitsAreComplete`,
  `NoWriteBeforeCommit`, `CleanupIsSafe`, and the action properties `FinalityHolds` and
  `OperationsFrozen`. For `ReadsSeeOwnWrites`, `ReadsInv`: a read was answered from a prefix
  of the operations, which only grow, and the backward scan finds the last match in it.
- `CacheEngineProofs`. `IndInv`: generations are never reused, so what a failed creation
  left open is never what a listed database or a request holds. `HandlesMatchMap`,
  `DroppedIsGone`, and `RoutingTotal` (integer division leaves no hash without a shard,
  for every shard count). For `CountsInRange`, `ScanInv`: the sum so far lies between
  the number of keys of the shards passed that were there all along and of those that
  were there at some time; keys have one shard, so that no shard counts them again.
  `ReadsFollowCommits`, about `MVCCStore`. `MVCCInv`: every version in a chain is at most
  the clock, so that a read of the present looks at all of them; writers under way
  have different versions; and no committed entry has the version of one of them, so
  that an abort only takes out what is uncommitted. What is read is then the last
  committed entry (`Latest`). An append adds an uncommitted one; `Filter` keeps the last
  committed one and the order (`FilterKeepsLatest`, by the pigeonhole principle every
  entry to keep has its place); a commit changes it only to the entry it marks.
- `GeoStoreProofs`. `GeoInv`, for `GeoIndexCounts`: a worker that was alone on its node
  since it began to count has counted the members of the shards it passed, and an index
  written by one that was alone counts all (`Lone`, `Settled`). `PosInv`, for
  `GeoPositionsFollow`: the FSM's goroutine works at the entry after the applied one
  (`Applying`); a member not excepted has a position from the last entry applied, from
  a later one or from a request under way (`Follows`); and once the FSM's
  goroutine has written a member of its entry, from that entry or from what is still
  ahead (`Leads`), which is what makes the end of the entry safe. Steps of others are
  dealt with once, by what they leave alone (`Frame`, `Quiet`).
- `AuthProofs`, from a server before its first Start, for every set of requests (the
  second scenario of `auth` starts a few commands later, with the counters of its bounds
  at zero).
  `AuthInv`: the counter is the number of live handlers, and with the accept loops that
  have passed the limit stays within it and the number of starts (`TableCore`); a
  command is at a step of its kind (`CallFits`) and, if nobody touched its user,
  has read and written of it what it would have alone (`Undisturbed`); a login has
  collected the user's stored data (`LoginFits`, `LoginDone`); a drop has seen every holder
  it has not excused (`HoldersSeen`). What is known of one goroutine is kept by every
  step of another, because each write marks the user as touched for all others (`Quiet`).
  `ServerTables`, `CommandsAtomic`, `LoginsCopyTheStore`, and the action property
  `DropsLookAtGrants`.
- `ClientPoolProofs`. `PoolInv`: the places a client can be in, the
  channel, cleanup's two lists, the client cleanup is making and the users' hands, are
  apart, without repetition (`Apart`); the program counters of users, cleanup and Close
  say who holds something (`Phases`); and the open connections are exactly those of the
  clients in some place. `ClientsHaveOneOwner` and `ConnectionsDoNotLeak` follow. For
  `SizeIsTheClients` every step is shown to count in one of seven ways
  (`CountsOneWay`: a client closed, a dial counted, a dial that became a client ...)
  unless the pool is closed, and each way to keep `currentSize` equal to the clients and
  dials there are; cleanup's client between its creation and its `currentSize++` is the
  one that is there and not counted. The bound `maxSize + minSize` needs that what cleanup has still to add is
  part of it. For `AnswersStayInStep`, `InStep`: on a connection nobody waits on, the
  requests sent are those read and those given up on; whoever waits, waits for the
  last one sent.
- `RequestProofs`.
  - `BreakerCounts`, for any thresholds and callers.
  - `LimiterHoldsRate`. What a client was granted since any moment, together with what
    it could take now (`Potential`), is within burst and rate: refills move between the
    two, and a dropped bucket was full.
  - `WheelIsOnTime`. An entry's slot comes up within an interval of its expiry
    (`TickInTime`): a turn of the wheel brings every slot one tick closer and time one
    interval on. A tick that comes between AddKey's computation and its lock delays the
    entry by one slot, and the interval of slack covers it; this is where the model's
    assumption enters that no AddKey takes as long as a second.
  - `GetIsFaithful` and `WritesAreKept`, about `CacheShard`. A stored value is the
    promised one, and a live value set with nothing pending has nothing pending: an
    index entry for it is never earlier than its promise. Both assume TTLs of whole
    seconds, which is what the Raft command carries.
  - `BatchesAreBacked`. The results so far are those of the groups that are done, the
    keys that could not be read left out (`Backed`).
- `NodeProofs`.
  - About `ReplicatedStore`, `IndInv`: stores and snapshots reflect the log up to their
    index, the cache of a node that missed nothing reflects it at some index not before
    the applied one, and deadlines come from commands with a TTL. `StateMachineSafety`,
    `Agreement`, `LocalReads`, `NoTtlNoLoss`.
  - `RecoveryIsBounded`: the record's count is the number of attempts since the reset.
  - `RestoresWhatWasApplied`: what is on its way carries the checksum of a store the FSM
    had, whatever has become of the data.
  - `SyncsAreAccounted`: a counter is at most the number of sessions past their
    increment, and so is a value loaded and not yet stored; the history
    holds no session twice and, until it is full, each that has ended; the slots
    hold the others.
- `ClusterProofs`.
  - `ForwardsOnce`: a write has no entry in the log while some node still handles it;
    whoever commits it is the last one to have it.
  - `ViewsAreOfTheLog`: counts of a node stay within the log, its peers are members, its
    addresses include what was announced between its snapshot and the entry it has
    applied, and a join whose AddVoter succeeded is in the log.
  - `LockFreed`, and `CommitImplements`: a transaction past its prepare phase has every
    participant's vote, and who is no longer waited for has voted. The initial state
    maps to an initial state of `AtomicCommit`, every step to one of its steps or a
    stutter.
  - `ClientEndingsAreTrue`: while nothing has crossed there is one call on the connection,
    with one request or one answer, and an answer that says yes is true of the server,
    which does not go back on an end (`Truth`).

Proved and not in a run's cfg: the inductive invariants, `RoutingTotal`, `Agreement`,
`FinalityHolds` and `OperationsFrozen`.

The provers have no induction over data. The proofs do without: a set of natural numbers
that is not empty has a least element, and one that is bounded a greatest, by the
library's theorem that the natural numbers are well-founded. So there is a first shard
whose range holds a hash, a last entry that gives a member a position, and a last
committed version. Facts from the libraries enter as one named hypothesis (`Counting`,
`CountingFacts`, `MembersCount`, `Ranking`), discharged at the end of the module.

Only model-checked: `RequestsReturn`, `ExpiredRemoved` (of `TransactionManager` and of
`CacheShard`) and `StopDrains`. They are liveness, and with it fairness and ENABLED, which is
out of the provers' reach.

## 6. Where code and documents disagree

Runs with expected violations show three of them (section 4). Further behaviour met
while modelling, not given a run:

- A creation that fails half-way leaves Badger handles open, and their directories
  locked, until the process ends: the database cannot be created again
  (`store/cache.go:249`; `leaked` in `CacheEngine`).
- DeleteDatabase keeps the files; the next access, even a GET, brings the database back
  with its old contents on that node (`store/cache.go:360`).
- GEORADIUS decodes the stored wrapper instead of the coordinates in it, so every
  member is compared at (0, 0) (`store/geo.go:385`).
- GEODEL is not replicated (`business/geo_handlers.go:501`).
- A read-only transaction accepts writes and drops them at commit
  (`transaction/manager.go:505`).
- GEOADD answers success when the members were stored locally but not replicated
  (`business/geo_handlers.go:93`).
- The pool's cleanup may create clients beyond maxSize (`client/pool.go:353`), which
  `client/pool_test.go:184` reports as an error; `SizeCountsClients` gives the bound that
  holds, maxSize + minSize.
- Put and cleanup may send on the channel Close has closed, which panics
  (`client/pool.go:206`).
- The connection limit may be passed by one for each accept loop an earlier Start left
  running (`cProtocol/server.go:503`).
- DeleteUser answers success when permissions could not be revoked; a later user of
  the same name has them (`auth/manager.go:201`).
- handleDeleteDB goes on when the permissions cannot be listed
  (`business/db_handlers.go:246`).
- Committing a distributed transaction locks `txn.mu` twice and waits for ever
  (`transaction/manager.go:466`); no handler begins one.
- A Rollback that began while a Commit ran sets the client's status to aborted after
  the Commit has returned nil, and either may take the other's answer
  (`client/internal/transaction/client.go:520`).
- handleClusterForward puts its mark in Meta, isForwardedRequest looks in Data: a
  forwarded write is forwarded again by a node that is not leader
  (`business/engine.go:1130`).
- Client addresses, called persistent in a comment, are lost by a restart from a
  snapshot that is newer than their announcement (`consensus/node.go:501`).
- Wheels other than the first are never turned (`store/ttl_manager.go:126`).
- Read of the version store returns the last committed entry in chain order, which is
  not always the newest version, as its comment has it (`transaction/mvcc.go:139`).
- An undamaged snapshot may be refused, because maps are encoded in any order
  (`consensus/snapshot.go:240`).
- A synchronisation whose peer never answers keeps its slot for ever
  (`consensus/data_sync.go:360`).
- The back-off of recovery, called exponential, is linear (`consensus/health.go:331`).
- A batch that names a key in two databases has one answer for both
  (`store/batch.go:57`).
- MGet drops the error of a value that cannot be read: the key is missing from the
  answer, not an error in it (`store/batch.go:234`).

## 7. Not modelled

Raft itself and Badger are external: modelled from how the code uses them. Metrics,
logging, formatting of answers, configuration and the command line client have no
state worth a property. Floating-point distances are outside TLA+'s arithmetic, and
the identifiers of `cid/` are made of 48-bit times, outside TLC's integers. The
replicator's ReplicateSet and ReplicateDelete, RemoveNodeFromCluster and ParticipantImpl
have no caller; NodeLeave answers 501. The health checker only reads. Of the
transaction client, Begin's limit on concurrent transactions is left out, and of
snapshots and synchronisation the statistics that nothing but a status report reads.
The remaining source is the client's encoding of requests, the command line and
examples. `PROJECT.json` gives the reason for each part left out.
