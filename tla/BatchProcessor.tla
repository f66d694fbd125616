----------------------------- MODULE BatchProcessor -----------------------------
(***************************************************************************)
(* BatchProcessor of store/batch.go: MGet, MSet and MDelete split a batch   *)
(* into groups, one per database and shard, and run a goroutine for each.   *)
(* A group that writes fills a badger WriteBatch item by item and flushes   *)
(* it; the answers of all groups are merged in one map by key alone.        *)
(***************************************************************************)
EXTENDS Integers, FiniteSets

CONSTANTS
    BatchCallers, BatchDatabases, BatchKeys,
    Items,      \* the pairs of a database and a key that batches name
    ShardOf,    \* getShardID: the shard of each key
    MaxBatches  \* bound: the batches that are run

ASSUME BatchAssumption == Items \subseteq BatchDatabases \X BatchKeys

VARIABLES
    open,           \* the databases of engine.databases
    cell,           \* what badger holds: "none", "perm", "ttl" or "expired"
    indexed,        \* the items in the shards' ttlIndex
    batch,          \* the batch of each caller
    asyncDeletes,   \* the deletes of expired items that MGet started
    batches         \* batches started, for the bound

batchVars == <<open, cell, indexed, batch, asyncDeletes, batches>>

Group(i) == <<i[1], ShardOf[i[2]]>>
InGroup(S, g) == {i \in S : Group(i) = g}
Without(S, g) == {i \in S : Group(i) # g}
NoBatch == [op |-> "none"]

BatchInit ==
    /\ open = BatchDatabases /\ indexed = {} /\ asyncDeletes = {} /\ batches = 0
    /\ cell = [i \in Items |-> "none"]
    /\ batch = [c \in BatchCallers |-> NoBatch]

-----------------------------------------------------------------------------

(* The environment: a database is dropped, an item's TTL runs out.          *)
DropDatabase(d) ==
    /\ open' = open \ {d}
    /\ UNCHANGED <<cell, indexed, batch, asyncDeletes, batches>>

ExpireItem(i) ==
    /\ cell[i] = "ttl"
    /\ cell' = [cell EXCEPT ![i] = "expired"]
    /\ UNCHANGED <<open, indexed, batch, asyncDeletes, batches>>

(* MGet, MSet and MDelete put their items into groups; MGet and MDelete     *)
(* name one database.                                                       *)
StartBatch(c, op, items, ttl) ==
    /\ batch[c] = NoBatch
    /\ batches < MaxBatches /\ batches' = batches + 1
    /\ batch' = [batch EXCEPT ![c] =
          [op |-> op, ttl |-> ttl, items |-> items, todo |-> items,
           groups |-> {Group(i) : i \in items}, failed |-> {}, unread |-> {},
           written |-> {}, results |-> [k \in BatchKeys |-> "none"]]]
    /\ UNCHANGED <<open, cell, indexed, asyncDeletes>>

OneDatabase(items) == \A i, j \in items : i[1] = j[1]

MGet(c, items) == OneDatabase(items) /\ StartBatch(c, "get", items, FALSE)
MSet(c, items, ttl) == StartBatch(c, "set", items, ttl)
MDelete(c, items) == OneDatabase(items) /\ StartBatch(c, "delete", items, FALSE)

(* The merge of a group's answers into the results, under resultsMu.        *)
Merge(c, g, answers) ==
    [batch[c] EXCEPT !.groups = @ \ {g}, !.todo = Without(@, g),
                     !.results = [k \in BatchKeys |->
                         IF <<g[1], k>> \in DOMAIN answers THEN answers[<<g[1], k>>] ELSE @[k]]]

Errors(S) == [i \in S |-> "error"]

Untouched(c, g) == InGroup(batch[c].todo, g) = InGroup(batch[c].items, g)

(* getShard finds no database: every item of the group is an error.         *)
ShardNotFound(c, g) ==
    /\ g[1] \notin open /\ Untouched(c, g)
    /\ batch' = [batch EXCEPT ![c] = Merge(c, g, Errors(InGroup(batch[c].items, g)))]
    /\ UNCHANGED <<open, cell, indexed, asyncDeletes, batches>>

(* batchSetToShard and batchDeleteFromShard, one item: into the WriteBatch, *)
(* and into or out of ttlIndex at once; or refused.                         *)
CanBuffer(c, op, i) ==
    /\ batch[c].op = op /\ i \in batch[c].todo
    /\ i[1] \in open \/ ~Untouched(c, Group(i))
    /\ UNCHANGED <<open, cell, asyncDeletes, batches>>

Buffered(c, i) == batch' = [batch EXCEPT ![c].todo = @ \ {i}]
Refused(c, i) ==
    /\ batch' = [batch EXCEPT ![c].todo = @ \ {i}, ![c].failed = @ \cup {i}]
    /\ UNCHANGED indexed

BufferSet(c, i) ==
    /\ CanBuffer(c, "set", i)
    /\ \/ /\ Buffered(c, i)
          /\ indexed' = IF batch[c].ttl THEN indexed \cup {i} ELSE indexed
       \/ Refused(c, i)

BufferDelete(c, i) ==
    /\ CanBuffer(c, "delete", i)
    /\ \/ Buffered(c, i) /\ indexed' = indexed \ {i}
       \/ Refused(c, i)

WriteItems(c, S) ==
    cell' = [i \in Items |->
        IF i \notin S THEN cell[i]
        ELSE IF batch[c].op = "delete" THEN "none"
        ELSE IF batch[c].ttl THEN "ttl" ELSE "perm"]

(* Flush: all the buffered items, or an error, after which the items of the *)
(* transactions that badger had already committed stay written.             *)
Successes(all, buffered) == [i \in all |-> IF i \in buffered THEN "ok" ELSE "error"]

FlushKeepsSuccess(c, g) ==
    LET b == batch[c]
        all == InGroup(b.items, g)
    IN  /\ b.op # "get" /\ InGroup(b.todo, g) = {}
        /\ \E S \in SUBSET (all \ b.failed) :
              /\ S = all \ b.failed => g[1] \in open
              /\ WriteItems(c, S)
              /\ batch' = [batch EXCEPT ![c] =
                     [Merge(c, g, Successes(all, all \ b.failed)) EXCEPT !.written = @ \cup S]]
        /\ UNCHANGED <<open, indexed, asyncDeletes, batches>>

Flush(c, g) ==
    LET b == batch[c]
        all == InGroup(b.items, g)
        buffered == all \ b.failed
    IN  /\ b.op # "get" /\ InGroup(b.todo, g) = {}
        /\ \/ /\ g[1] \in open
              /\ WriteItems(c, buffered)
              /\ batch' = [batch EXCEPT ![c] =
                     [Merge(c, g, Successes(all, buffered)) EXCEPT !.written = @ \cup buffered]]
           \/ \E S \in SUBSET buffered :
                 /\ WriteItems(c, S)
                 /\ batch' = [batch EXCEPT ![c] =
                        [Merge(c, g, Errors(all)) EXCEPT !.written = @ \cup S]]
        /\ UNCHANGED <<open, indexed, asyncDeletes, batches>>

(* batchGetFromShard: one View of the group; bad are the items it fails to  *)
(* find or decode.  An expired item is missing, and deleted later.  The     *)
(* error of item.Value is dropped: an item whose value cannot be read gets  *)
(* no answer at all.                                                        *)
Seen(all, bad) ==
    [i \in all |-> IF i \in bad THEN "error"
                   ELSE IF cell[i] \in {"perm", "ttl"} THEN "ok" ELSE "missing"]

View(c, g) ==
    LET all == InGroup(batch[c].items, g)
    IN  /\ batch[c].op = "get" /\ g[1] \in open
        /\ \E bad \in SUBSET all : \E unread \in SUBSET {i \in all \ bad : cell[i] # "none"} :
              /\ batch' = [batch EXCEPT ![c] =
                     [Merge(c, g, Seen(all \ unread, bad)) EXCEPT !.unread = @ \cup unread]]
              /\ asyncDeletes' = asyncDeletes \cup
                                   {i \in all \ (bad \cup unread) : cell[i] = "expired"}
        /\ UNCHANGED <<open, cell, indexed, batches>>

(* go shard.Delete(key), whatever the item holds by now; its error is       *)
(* dropped.                                                                 *)
AsyncDelete(i) ==
    /\ i \in asyncDeletes /\ asyncDeletes' = asyncDeletes \ {i}
    /\ \/ cell' = [cell EXCEPT ![i] = "none"] /\ indexed' = indexed \ {i}
       \/ UNCHANGED <<cell, indexed>>
    /\ UNCHANGED <<open, batch, batches>>

(* wg.Wait is over and the results are returned.                            *)
EndBatch(c) ==
    /\ batch[c].groups = {}
    /\ batch' = [batch EXCEPT ![c] = NoBatch]
    /\ UNCHANGED <<open, cell, indexed, asyncDeletes, batches>>

BatchNext ==
    \/ \E d \in BatchDatabases : DropDatabase(d)
    \/ \E i \in Items : ExpireItem(i) \/ AsyncDelete(i)
    \/ \E c \in BatchCallers :
          \/ \E S \in SUBSET Items :
                MGet(c, S) \/ MDelete(c, S) \/ \E ttl \in BOOLEAN : MSet(c, S, ttl)
          \/ /\ batch[c] # NoBatch
             /\ \/ EndBatch(c)
                \/ \E i \in batch[c].todo : BufferSet(c, i) \/ BufferDelete(c, i)
                \/ \E g \in batch[c].groups :
                      ShardNotFound(c, g) \/ Flush(c, g) \/ View(c, g)

BatchSpec == BatchInit /\ [][BatchNext]_batchVars

-----------------------------------------------------------------------------

Answerable(b) == b.items \ b.unread

(* When a batch returns, each key of it whose value could be read has an    *)
(* answer and no other key has, and a key answered with success by MSet or  *)
(* MDelete was written in a database of the batch: a flush that fails takes *)
(* back the successes noted before it.  (In one database only: the answers  *)
(* of a key named in two databases replace each other.)                     *)
BatchAnswersBacked ==
    \A c \in BatchCallers :
        LET b == batch[c]
        IN  b # NoBatch /\ b.groups = {} =>
                \A k \in BatchKeys :
                    /\ b.results[k] # "none" <=> \E i \in Answerable(b) : i[2] = k
                    /\ b.op # "get" /\ b.results[k] = "ok" => \E i \in b.written : i[2] = k

=============================================================================
