-------------------------- MODULE TransactionManager --------------------------
(***************************************************************************)
(* The transaction manager of one node (transaction/manager.go) together   *)
(* with the request handlers that drive it                                 *)
(* (business/transaction_handlers.go).                                     *)
(*                                                                         *)
(* Every request is served by its own goroutine; the janitor goroutine     *)
(* (runBackgroundTasks) and Shutdown run beside them.  Two locks matter:   *)
(*   - tm.mu protects the map of transactions and is held for single steps *)
(*     only (looking a transaction up, inserting it, deleting it);         *)
(*   - txn.mu protects one transaction.  Only Commit keeps it across more  *)
(*     than one step: commitLocalTransaction waits for one Raft Apply per  *)
(*     write while holding it.                                             *)
(* A call first looks its transaction up and then waits for txn.mu, so the *)
(* transaction may be finished, aborted or removed from the map in between.*)
(*                                                                         *)
(* The consensus layer is external: an Apply succeeds and appends to the   *)
(* log of applied commands, or fails with no effect, or fails in doubt and *)
(* takes effect later or never.                                            *)
(***************************************************************************)
EXTENDS Naturals, Sequences, FiniteSets

CONSTANTS
    Txns,       \* transaction ids that Begin may hand out
    Procs,      \* request goroutines
    Batches,    \* lists of commands a request may carry
    MaxOps,     \* a client stops sending commands at this many operations
    Databases, Keys, Values,    \* what the commands are made of
    NoVal,      \* "not found"
    NoTxn       \* no transaction

Kinds == {"get", "set", "delete"}

Command == [type : Kinds, db : Databases \cup {"", "default"}, key : Keys,
            value : Values \cup {NoVal}]

ASSUME BatchesAssumption == Batches \subseteq Seq(Command)

ASSUME MaxOpsAssumption == MaxOps \in Nat

ASSUME NoTxnAssumption == NoTxn \notin Txns

VARIABLES
    transactions,   \* keys of tm.transactions
    type,           \* Transaction.Type
    status,         \* Transaction.Status, "None" before Begin
    ops,            \* Transaction.Operations
    expired,        \* time.Since(StartTime) > Timeout
    log,            \* commands applied by consensus: [txn, idx] names ops[txn][idx]
    inDoubt,        \* commands whose Apply failed but which may still be committed
    pc,             \* what the goroutine is about to do
    req,            \* the request it serves: kind, transaction, commands left
    has,            \* it holds the *Transaction its current call looked up
    idx,            \* position of the commit loop in Operations
    reads,          \* values the reads of a transaction returned (history)
    jpc, jtodo, jcur,   \* cleanupExpiredTransactions: step, ids left, id at work
    spc, stodo          \* Shutdown: step, ids left

txnVars  == <<transactions, type, status, ops, expired>>
raftVars == <<log, inDoubt>>
procVars == <<pc, req, has, idx>>
bgVars   == <<jpc, jtodo, jcur, spc, stodo>>
vars     == <<txnVars, raftVars, procVars, reads, bgVars>>

Statuses == {"None", "Pending", "Committing", "Committed", "Aborting", "Aborted",
             "Timeout"}
Final    == {"Committed", "Aborted"}
Types    == {"ReadOnly", "ReadWrite"}
NoReq    == [kind |-> "none", txn |-> NoTxn, cmds |-> << >>]

Init ==
    /\ transactions = {}
    /\ type    = [t \in Txns |-> "ReadWrite"]
    /\ status  = [t \in Txns |-> "None"]
    /\ ops     = [t \in Txns |-> << >>]
    /\ expired = [t \in Txns |-> FALSE]
    /\ log = << >> /\ inDoubt = {}
    /\ pc  = [p \in Procs |-> "idle"]
    /\ req = [p \in Procs |-> NoReq]
    /\ has = [p \in Procs |-> FALSE]
    /\ idx = [p \in Procs |-> 0]
    /\ reads = [t \in Txns |-> {}]
    /\ jpc = "wait" /\ jtodo = {} /\ jcur = NoTxn
    /\ spc = "up" /\ stodo = {}

-----------------------------------------------------------------------------
(* Helpers *)

IsWrite(op) == op.type \in {"set", "delete"}

\* An operation with no database belongs to "default".
OpDatabase(db) == IF db = "" THEN "default" ELSE db

\* The operation a log entry stands for.
OpOf(e) == ops[e.txn][e.idx]

\* txn.mu is held across steps exactly while the commit loop runs.
Locked(t) == \E p \in Procs : pc[p] = "applying" /\ req[p].txn = t

MaxOf(S) == CHOOSE n \in S : \A m \in S : m <= n

ValueOf(op) == IF op.type = "set" THEN op.value ELSE NoVal

\* Node.GetValueWithDatabase on the state machine that applied the log.
FsmValue(db, key) ==
    LET hits == {n \in DOMAIN log : /\ OpDatabase(OpOf(log[n]).db) = db
                                    /\ OpOf(log[n]).key = key}
    IN  IF hits = {} THEN NoVal ELSE ValueOf(OpOf(log[MaxOf(hits)]))

\* The writes of t that the backward scan over the first n operations matches.
OwnWrites(t, n, db, key) ==
    {i \in 1..n : /\ IsWrite(ops[t][i])
                  /\ OpDatabase(ops[t][i].db) = db
                  /\ ops[t][i].key = key}

\* Mutant: the scan runs forwards and stops at the oldest write.
GetTransactionValueOldest(t, db, key) ==
    LET own == OwnWrites(t, Len(ops[t]), db, key)
    IN  IF own = {} THEN FsmValue(db, key)
        ELSE ValueOf(ops[t][CHOOSE n \in own : \A m \in own : n <= m])

GetTransactionValueWithDatabase(t, db, key) ==
    LET own == OwnWrites(t, Len(ops[t]), db, key)
    IN  IF own = {} THEN FsmValue(db, key) ELSE ValueOf(ops[t][MaxOf(own)])

-----------------------------------------------------------------------------
(* Requests *)

\* Begin: a fresh transaction enters the map; handleTransactionBegin only
\* starts read-only and read-write ones.
Begin(t, ty) ==
    /\ status[t] = "None"
    /\ transactions' = transactions \cup {t}
    /\ type'   = [type   EXCEPT ![t] = ty]
    /\ status' = [status EXCEPT ![t] = "Pending"]
    /\ UNCHANGED <<ops, expired, raftVars, procVars, reads, bgVars>>

\* elapsed > txn.Timeout becomes true at any moment and stays true.
TimePasses(t) ==
    /\ status[t] # "None" /\ ~expired[t]
    /\ expired' = [expired EXCEPT ![t] = TRUE]
    /\ UNCHANGED <<transactions, type, status, ops, raftVars, procVars, reads, bgVars>>

FirstStep(kind, cmds) ==
    IF kind = "rollback" THEN "abort" ELSE IF cmds = << >> THEN "commit" ELSE "add"

\* A goroutine starts serving "execute", "commit" or "rollback"; the handlers
\* answer 400 to an execute without commands.
Receive(p, t, kind, cmds) ==
    /\ pc[p] = "idle" /\ status[t] # "None"
    /\ kind = "execute" => cmds # << >>
    /\ kind = "rollback" => cmds = << >>
    /\ cmds # << >> => Len(ops[t]) + Len(cmds) <= MaxOps
    /\ pc'  = [pc  EXCEPT ![p] = FirstStep(kind, cmds)]
    /\ req' = [req EXCEPT ![p] = [kind |-> kind, txn |-> t, cmds |-> cmds]]
    /\ UNCHANGED <<txnVars, raftVars, has, idx, reads, bgVars>>

\* The request is answered.
Done(p) ==
    /\ pc'  = [pc  EXCEPT ![p] = "idle"]
    /\ req' = [req EXCEPT ![p] = NoReq]
    /\ has' = [has EXCEPT ![p] = FALSE]
    /\ idx' = [idx EXCEPT ![p] = 0]

\* The request goes on with its next command, or with the commit itself.
NextCommand(p) ==
    LET rest == Tail(req[p].cmds)
    IN  IF rest = << >> /\ req[p].kind = "execute"
        THEN Done(p)
        ELSE /\ req' = [req EXCEPT ![p] =
                           [kind |-> req[p].kind, txn |-> req[p].txn, cmds |-> rest]]
             /\ pc'  = [pc  EXCEPT ![p] = IF rest = << >> THEN "commit" ELSE "add"]
             /\ has' = [has EXCEPT ![p] = FALSE]
             /\ idx' = idx

\* execute records a command's error and goes on; commit and rollback give up.
CallFailed(p) ==
    IF req[p].kind = "execute" THEN NextCommand(p) ELSE Done(p)

\* handleTransactionCommit passes over a command that is neither set nor delete.
Unsupported(p) ==
    pc[p] = "add" /\ req[p].kind = "commit" /\ ~IsWrite(Head(req[p].cmds))

SkipCommand(p) ==
    /\ Unsupported(p)
    /\ NextCommand(p)
    /\ UNCHANGED <<txnVars, raftVars, reads, bgVars>>

\* Mutant: a transaction that is not found is looked up again and again.
LookupRetried(p) ==
    /\ pc[p] \in {"add", "read", "commit", "abort"} /\ ~has[p]
    /\ has' = [has EXCEPT ![p] = req[p].txn \in transactions]
    /\ UNCHANGED <<txnVars, raftVars, pc, req, idx, reads, bgVars>>

\* The lookup every call of the manager starts with, under tm.mu.RLock.
Lookup(p) ==
    /\ pc[p] \in {"add", "read", "commit", "abort"} /\ ~has[p]
    /\ ~Unsupported(p)
    /\ IF req[p].txn \in transactions
       THEN has' = [has EXCEPT ![p] = TRUE] /\ UNCHANGED <<pc, req, idx>>
       ELSE CallFailed(p)
    /\ UNCHANGED <<txnVars, raftVars, reads, bgVars>>

\* The call has found its transaction and acquires txn.mu.
Holds(p, what) ==
    pc[p] = what /\ has[p] /\ ~Locked(req[p].txn)

-----------------------------------------------------------------------------
(* AddOperation and reads *)

\* The operation built from a command: execute fills in the database, commit
\* keeps the one the client sent.
OpFrom(p) ==
    LET cmd == Head(req[p].cmds)
    IN  [type |-> cmd.type, key |-> cmd.key, value |-> cmd.value,
         db |-> IF req[p].kind = "execute" THEN OpDatabase(cmd.db) ELSE cmd.db]

AddOperation(p) ==
    LET t == req[p].txn IN
    /\ Holds(p, "add")
    /\ IF status[t] # "Pending"
       THEN CallFailed(p) /\ UNCHANGED ops
       ELSE /\ ops' = [ops EXCEPT ![t] = Append(@, OpFrom(p))]
            /\ IF Head(req[p].cmds).type = "get"
               THEN /\ pc'  = [pc  EXCEPT ![p] = "read"]
                    /\ has' = [has EXCEPT ![p] = FALSE]
                    /\ UNCHANGED <<req, idx>>
               ELSE NextCommand(p)
    /\ UNCHANGED <<transactions, type, status, expired, raftVars, reads, bgVars>>

\* The value an execute "get" answers: the handler passes on the database as
\* the client sent it.
ReadValue(p) ==
    LET cmd == Head(req[p].cmds)
    IN  GetTransactionValueWithDatabase(req[p].txn, cmd.db, cmd.key)

ExecuteGet(p) ==
    LET t   == req[p].txn
        cmd == Head(req[p].cmds)
    IN
    /\ Holds(p, "read")
    /\ reads' = [reads EXCEPT ![t] = @ \cup
                   {[db |-> cmd.db, key |-> cmd.key, value |-> ReadValue(p),
                     after |-> Len(ops[t])]}]
    /\ NextCommand(p)
    /\ UNCHANGED <<txnVars, raftVars, bgVars>>

-----------------------------------------------------------------------------
(* Commit *)

CommitRejected(p) ==
    /\ Holds(p, "commit") /\ status[req[p].txn] # "Pending"
    /\ Done(p)
    /\ UNCHANGED <<txnVars, raftVars, reads, bgVars>>

SetStatus(t, s) == status' = [status EXCEPT ![t] = s]

\* The deadline is tested on entry and again in commitLocalTransaction, under
\* the same lock and with the same outcome.
CommitTimedOut(p) ==
    LET t == req[p].txn IN
    /\ Holds(p, "commit") /\ status[t] = "Pending" /\ expired[t]
    /\ SetStatus(t, "Timeout")
    /\ Done(p)
    /\ UNCHANGED <<transactions, type, ops, expired, raftVars, reads, bgVars>>

CommitReadOnly(p) ==
    LET t == req[p].txn IN
    /\ Holds(p, "commit") /\ status[t] = "Pending" /\ ~expired[t]
    /\ type[t] = "ReadOnly"
    /\ SetStatus(t, "Committed")
    /\ Done(p)
    /\ UNCHANGED <<transactions, type, ops, expired, raftVars, reads, bgVars>>

\* Mutant: the status is not tested.
CommitLocalUnchecked(p) ==
    LET t == req[p].txn IN
    /\ Holds(p, "commit") /\ ~expired[t]
    /\ type[t] = "ReadWrite"
    /\ SetStatus(t, "Committing")
    /\ pc'  = [pc  EXCEPT ![p] = "applying"]
    /\ idx' = [idx EXCEPT ![p] = 1]
    /\ UNCHANGED <<transactions, type, ops, expired, raftVars, req, has, reads, bgVars>>

\* From here on the goroutine keeps txn.mu until the loop below is over.
CommitLocal(p) ==
    LET t == req[p].txn IN
    /\ Holds(p, "commit") /\ status[t] = "Pending" /\ ~expired[t]
    /\ type[t] = "ReadWrite"
    /\ SetStatus(t, "Committing")
    /\ pc'  = [pc  EXCEPT ![p] = "applying"]
    /\ idx' = [idx EXCEPT ![p] = 1]
    /\ UNCHANGED <<transactions, type, ops, expired, raftVars, req, has, reads, bgVars>>

Applying(p) == pc[p] = "applying" /\ idx[p] <= Len(ops[req[p].txn])

Entry(p) == [txn |-> req[p].txn, idx |-> idx[p]]

\* "Skipping non-write operation".
SkipRead(p) ==
    /\ Applying(p) /\ ~IsWrite(ops[req[p].txn][idx[p]])
    /\ idx' = [idx EXCEPT ![p] = @ + 1]
    /\ UNCHANGED <<txnVars, raftVars, pc, req, has, reads, bgVars>>

\* Raft commits in log order, so a command in doubt is settled first.
ApplyOp(p) ==
    /\ Applying(p) /\ IsWrite(ops[req[p].txn][idx[p]])
    /\ inDoubt = {}
    /\ log' = Append(log, Entry(p))
    /\ idx' = [idx EXCEPT ![p] = @ + 1]
    /\ UNCHANGED <<txnVars, inDoubt, pc, req, has, reads, bgVars>>

\* Mutant: the error is logged and the loop goes on.
ApplyOpFailsIgnored(p) ==
    /\ Applying(p) /\ IsWrite(ops[req[p].txn][idx[p]])
    /\ idx' = [idx EXCEPT ![p] = @ + 1]
    /\ UNCHANGED <<txnVars, raftVars, pc, req, has, reads, bgVars>>

\* Mutant: the transaction goes back to Pending so that it can be retried.
ApplyOpFailsRetryable(p) ==
    /\ Applying(p) /\ IsWrite(ops[req[p].txn][idx[p]])
    /\ inDoubt' \in {inDoubt, inDoubt \cup {Entry(p)}}
    /\ SetStatus(req[p].txn, "Pending")
    /\ Done(p)
    /\ UNCHANGED <<transactions, type, ops, expired, log, reads, bgVars>>

\* The Apply returns an error; the loop stops where it is.  The earlier writes
\* stay applied, and this one may still be committed.
ApplyOpFails(p) ==
    /\ Applying(p) /\ IsWrite(ops[req[p].txn][idx[p]])
    /\ inDoubt' \in {inDoubt, inDoubt \cup {Entry(p)}}
    /\ SetStatus(req[p].txn, "Aborting")
    /\ Done(p)
    /\ UNCHANGED <<transactions, type, ops, expired, log, reads, bgVars>>

CommitDone(p) ==
    /\ pc[p] = "applying" /\ idx[p] > Len(ops[req[p].txn])
    /\ SetStatus(req[p].txn, "Committed")
    /\ Done(p)
    /\ UNCHANGED <<transactions, type, ops, expired, raftVars, reads, bgVars>>

\* Raft settles a command whose Apply ended in an error.
LateCommit(e) ==
    /\ e \in inDoubt
    /\ log' = Append(log, e) /\ inDoubt' = inDoubt \ {e}
    /\ UNCHANGED <<txnVars, procVars, reads, bgVars>>

LateDrop(e) ==
    /\ e \in inDoubt
    /\ inDoubt' = inDoubt \ {e}
    /\ UNCHANGED <<txnVars, log, procVars, reads, bgVars>>

-----------------------------------------------------------------------------
(* AbortTransaction: rollback requests, the janitor and Shutdown *)

AbortStatus(t) == IF status[t] \in Final THEN status[t] ELSE "Aborted"

AbortTransaction(p) ==
    LET t == req[p].txn IN
    /\ Holds(p, "abort")
    /\ SetStatus(t, AbortStatus(t))
    /\ Done(p)
    /\ UNCHANGED <<transactions, type, ops, expired, raftVars, reads, bgVars>>

\* Mutant: finished transactions are not collected.
CleanupCollectUnfinished ==
    /\ jpc = "wait"
    /\ jtodo' = {t \in transactions : expired[t] /\ status[t] \notin Final}
    /\ jpc' = IF jtodo' = {} THEN "wait" ELSE "abort"
    /\ UNCHANGED <<txnVars, raftVars, procVars, reads, jcur, spc, stodo>>

\* One tick of the cleanup ticker: the expired ids are collected under
\* tm.mu.RLock, whatever the status of their transactions.
CleanupCollect ==
    /\ jpc = "wait"
    /\ jtodo' = {t \in transactions : expired[t]}
    /\ jpc' = IF jtodo' = {} THEN "wait" ELSE "abort"
    /\ UNCHANGED <<txnVars, raftVars, procVars, reads, jcur, spc, stodo>>

\* Mutant: a transaction whose lock is taken is not waited for.
CleanupAbortTryLock(t) ==
    /\ jpc = "abort" /\ t \in jtodo
    /\ IF Locked(t) THEN UNCHANGED status ELSE SetStatus(t, AbortStatus(t))
    /\ jpc' = "delete" /\ jcur' = t /\ jtodo' = jtodo \ {t}
    /\ UNCHANGED <<transactions, type, ops, expired, raftVars, procVars, reads, spc, stodo>>

\* AbortTransaction of one of them waits for txn.mu; its error is ignored.
CleanupAbort(t) ==
    /\ jpc = "abort" /\ t \in jtodo /\ ~Locked(t)
    /\ SetStatus(t, AbortStatus(t))
    /\ jpc' = "delete" /\ jcur' = t /\ jtodo' = jtodo \ {t}
    /\ UNCHANGED <<transactions, type, ops, expired, raftVars, procVars, reads, spc, stodo>>

CleanupDelete ==
    /\ jpc = "delete"
    /\ transactions' = transactions \ {jcur}
    /\ jpc' = IF jtodo = {} THEN "wait" ELSE "abort"
    /\ jcur' = NoTxn
    /\ UNCHANGED <<type, status, ops, expired, raftVars, procVars, reads, jtodo, spc, stodo>>

\* The janitor sees the closed stopCh only between two cleanups.
CleanupStop ==
    /\ jpc = "wait" /\ spc = "closing"
    /\ jpc' = "stopped"
    /\ UNCHANGED <<txnVars, raftVars, procVars, reads, jtodo, jcur, spc, stodo>>

ShutdownClose ==
    /\ spc = "up"
    /\ spc' = "closing"
    /\ UNCHANGED <<txnVars, raftVars, procVars, reads, jpc, jtodo, jcur, stodo>>

\* After <-tm.doneCh the ids in the map are copied.
ShutdownCollect ==
    /\ spc = "closing" /\ jpc = "stopped"
    /\ stodo' = transactions
    /\ spc' = IF transactions = {} THEN "down" ELSE "aborting"
    /\ UNCHANGED <<txnVars, raftVars, procVars, reads, jpc, jtodo, jcur>>

ShutdownAbort(t) ==
    /\ spc = "aborting" /\ t \in stodo /\ ~Locked(t)
    /\ SetStatus(t, AbortStatus(t))
    /\ stodo' = stodo \ {t}
    /\ spc' = IF stodo' = {} THEN "down" ELSE "aborting"
    /\ UNCHANGED <<transactions, type, ops, expired, raftVars, procVars, reads, jpc, jtodo, jcur>>

-----------------------------------------------------------------------------
(* The specification *)

\* What a goroutine that serves a request does next.
Work(p) ==
    \/ SkipCommand(p) \/ Lookup(p)
    \/ AddOperation(p) \/ ExecuteGet(p)
    \/ CommitRejected(p) \/ CommitTimedOut(p) \/ CommitReadOnly(p) \/ CommitLocal(p)
    \/ SkipRead(p) \/ ApplyOp(p) \/ ApplyOpFails(p) \/ CommitDone(p)
    \/ AbortTransaction(p)

Janitor ==
    \/ CleanupCollect \/ CleanupDelete \/ CleanupStop
    \/ \E t \in Txns : CleanupAbort(t)

Shutdown ==
    \/ ShutdownCollect
    \/ \E t \in Txns : ShutdownAbort(t)

Settle == \E e \in inDoubt : LateCommit(e) \/ LateDrop(e)

Next ==
    \/ \E t \in Txns : \/ \E ty \in Types : Begin(t, ty)
                       \/ TimePasses(t)
    \/ \E p \in Procs, t \in Txns, kind \in {"execute", "commit", "rollback"},
          cmds \in Batches : Receive(p, t, kind, cmds)
    \/ \E p \in Procs : Work(p)
    \/ Janitor
    \/ ShutdownClose
    \/ Shutdown
    \/ Settle

Spec == Init /\ [][Next]_vars

\* Goroutines are scheduled, the ticker fires and every Raft future completes.
Fairness ==
    /\ \A p \in Procs : WF_vars(Work(p))
    /\ WF_vars(Janitor) /\ WF_vars(Shutdown) /\ WF_vars(Settle)

FairSpec == Spec /\ Fairness

-----------------------------------------------------------------------------
(* Properties *)

\* Every variable stays within the values the code can give it.
TypeOK ==
    /\ transactions \in SUBSET Txns
    /\ type    \in [Txns -> Types]
    /\ status  \in [Txns -> Statuses]
    /\ ops     \in [Txns -> Seq(Command)]
    /\ expired \in [Txns -> BOOLEAN]
    /\ log \in Seq([txn : Txns, idx : Nat])
    /\ inDoubt \subseteq [txn : Txns, idx : Nat]
    /\ pc  \in [Procs -> {"idle", "add", "read", "commit", "applying", "abort"}]
    /\ req \in [Procs -> [kind : {"none", "execute", "commit", "rollback"},
                          txn : Txns \cup {NoTxn}, cmds : Seq(Command)]]
    /\ has \in [Procs -> BOOLEAN]
    /\ idx \in [Procs -> Nat]
    /\ jpc \in {"wait", "abort", "delete", "stopped"}
    /\ jtodo \subseteq Txns /\ jcur \in Txns \cup {NoTxn}
    /\ spc \in {"up", "closing", "aborting", "down"} /\ stodo \subseteq Txns

InLog(t, i) == \E n \in DOMAIN log : log[n] = [txn |-> t, idx |-> i]

\* Whatever the interleaving of commits, retries and failed Applies, the log
\* holds the writes of a transaction in the order they were added, each at most
\* once, and with no earlier write of the same transaction missing
\* (commitLocalTransaction runs once per transaction and stops at an error).
AppliedAsPrefix ==
    /\ \A m, n \in DOMAIN log :
          m < n /\ log[m].txn = log[n].txn => log[m].idx < log[n].idx
    /\ \A n \in DOMAIN log : \A i \in 1 .. log[n].idx :
          IsWrite(ops[log[n].txn][i]) => InLog(log[n].txn, i)

\* A read-write transaction reported as committed has every one of its writes
\* in the replicated log.
CommittedInFull ==
    \A t \in Txns : status[t] = "Committed" /\ type[t] = "ReadWrite" =>
        \A i \in 1 .. Len(ops[t]) : IsWrite(ops[t][i]) => InLog(t, i)

\* A transaction that is still pending, that ran into its deadline, or that is
\* read-only, although AddOperation takes its sets and deletes too and Commit
\* reports success, has written nothing, and nothing of it is on its way
\* through Raft.
UncommittedLeavesNothing ==
    \A t \in Txns : status[t] \in {"None", "Pending", "Timeout"} \/ type[t] = "ReadOnly" =>
        /\ \A n \in DOMAIN log : log[n].txn # t
        /\ \A e \in inDoubt : e.txn # t

\* cleanupExpiredTransactions drops a transaction from the map only once it is
\* committed or aborted, although it decides on the age alone and a commit may
\* be running when it does.
RemovedIsFinal ==
    \A t \in Txns : status[t] # "None" /\ t \notin transactions => status[t] \in Final

\* Committed and aborted are final: no late rollback, cleanup, shutdown or
\* second commit turns one into something else.
FinalStays == [][\A t \in Txns : status[t] \in Final => status'[t] = status[t]]_vars

\* Once a transaction has left Pending no request adds to its operations, even
\* one that looked it up before.
OpsFrozen ==
    [][\A t \in Txns : status[t] \notin {"None", "Pending"} => ops'[t] = ops[t]]_vars

\* An expired transaction is eventually removed, whatever it is doing when the
\* janitor comes by, unless the manager is shut down.
ExpiredRemoved ==
    \A t \in Txns : (t \in transactions /\ expired[t])
                        ~> (t \notin transactions \/ spc # "up")

\* Every request is answered: no goroutine waits for txn.mu for ever.
RequestsReturn == \A p \in Procs : (pc[p] # "idle") ~> (pc[p] = "idle")

\* GetTransactionValueWithDatabase looks at the write set first (its comment):
\* a read that follows a write of the same transaction to the same key of the
\* same database returns what was written.  (Only if the read names the
\* database: executeTransactionCommand passes an empty one on as it is, and it
\* never equals the default filled in for the write.)
ReadsOwnWrites ==
    \A t \in Txns : \A r \in reads[t] : r.db # "" =>
        LET own == OwnWrites(t, r.after, OpDatabase(r.db), r.key)
        IN  own # {} => r.value = ValueOf(ops[t][MaxOf(own)])

-----------------------------------------------------------------------------
(* The inductive strengthening of the safety properties *)

\* A goroutine serves a transaction that was begun, and has a command left
\* where it is about to use one.
CallInv ==
    \A p \in Procs :
        /\ pc[p] # "idle" => req[p].txn \in Txns /\ status[req[p].txn] # "None"
        /\ pc[p] \in {"add", "read"} => req[p].cmds # << >>
        /\ pc[p] \in {"commit", "applying", "abort"} => req[p].kind # "execute"

\* What the janitor and Shutdown have collected was begun, and what the janitor
\* is about to delete is final.
SweepInv ==
    /\ \A t \in transactions : status[t] # "None"
    /\ jtodo \subseteq transactions
    /\ stodo \subseteq transactions
    /\ jpc = "delete" => jcur \in transactions \ jtodo /\ status[jcur] \in Final
    /\ jpc \in {"wait", "stopped"} => jtodo = {}
    /\ IF spc = "aborting" THEN jpc = "stopped" ELSE stodo = {}

\* txn.mu: one goroutine at a time runs the commit loop of a transaction.
OneCommitter ==
    \A p, q \in Procs :
        pc[p] = "applying" /\ pc[q] = "applying" /\ req[p].txn = req[q].txn => p = q

\* The log and the commands in doubt name operations that exist.
EntryInv ==
    /\ \A n \in DOMAIN log : log[n].idx \in DOMAIN ops[log[n].txn]
    /\ \A e \in inDoubt : e.idx \in DOMAIN ops[e.txn]

\* Entry idx of t comes right after everything of t that is in the log.
Follows(t, i) ==
    /\ \A n \in DOMAIN log : log[n].txn = t => log[n].idx < i
    /\ \A j \in 1 .. Len(ops[t]) : j < i /\ IsWrite(ops[t][j]) => InLog(t, j)

\* The commit loop has put exactly the writes before idx into the log.
LoopInv ==
    \A p \in Procs : pc[p] = "applying" =>
        /\ status[req[p].txn] = "Committing" /\ type[req[p].txn] = "ReadWrite"
        /\ idx[p] \in 1 .. Len(ops[req[p].txn]) + 1
        /\ Follows(req[p].txn, idx[p])
        /\ \A e \in inDoubt : e.txn # req[p].txn

\* At most one command of a transaction is in doubt: the one it failed on.
DoubtInv ==
    \A e \in inDoubt :
        /\ status[e.txn] \in {"Aborting", "Aborted"}
        /\ Follows(e.txn, e.idx)
        /\ \A f \in inDoubt : f.txn = e.txn => f = e

IndInv ==
    /\ TypeOK /\ CallInv /\ SweepInv /\ OneCommitter /\ EntryInv /\ LoopInv /\ DoubtInv
    /\ AppliedAsPrefix /\ CommittedInFull /\ UncommittedLeavesNothing /\ RemovedIsFinal

-----------------------------------------------------------------------------
(* What the documentation says and the code does not do *)

\* "ACID transaction processing capabilities" (README.md): once nothing of an
\* aborted transaction is in doubt any more, either all of its writes are in
\* the log or none is.
AllOrNothing ==
    \A t \in Txns : status[t] = "Aborted" /\ (\A e \in inDoubt : e.txn # t) =>
        LET writes == {i \in DOMAIN ops[t] : IsWrite(ops[t][i])}
        IN  (\A i \in writes : InLog(t, i)) \/ (\A i \in writes : ~InLog(t, i))

=============================================================================
