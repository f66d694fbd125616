----------------------- MODULE TransactionManagerProofs -----------------------
(***************************************************************************)
(* Proofs about TransactionManager for every set of transactions, request  *)
(* goroutines and commands, and every bound MaxOps.                        *)
(***************************************************************************)
EXTENDS TransactionManager, TLAPS

\* Leaves that name no prover are for Zenon.
USE Zenon

-----------------------------------------------------------------------------
(* Type correctness, and the invariants of a single goroutine, of the janitor  *)
(* and of shutdown.                                                            *)

\* A goroutine that a step brings to, or leaves in, the commit loop was there
\* before and has not moved: what the bookkeeping of a request never does is
\* start a commit loop.
NoNewLoop ==
    \A p \in Procs : pc'[p] = "applying" =>
        pc[p] = "applying" /\ req'[p] = req[p] /\ idx'[p] = idx[p]

\* The well-formedness of the goroutines' own variables.
ProcType ==
    /\ pc  \in [Procs -> {"idle", "add", "read", "commit", "applying", "abort"}]
    /\ req \in [Procs -> [kind : {"none", "execute", "commit", "rollback"},
                          txn : Txns \cup {NoTxn}, cmds : Seq(Command)]]
    /\ has \in [Procs -> BOOLEAN]
    /\ idx \in [Procs -> Nat]

\* NoReq is a request with no commands.
LEMMA NoReqType ==
    /\ NoReq \in [kind : {"none", "execute", "commit", "rollback"},
                  txn : Txns \cup {NoTxn}, cmds : Seq(Command)]
    /\ NoReq.cmds = << >>
  BY SMT DEF NoReq

\* Answering a request (every early return and the final reply of the handlers)
\* keeps the goroutines well formed and starts no commit loop.
LEMMA DoneStep ==
    ASSUME ProcType, CallInv, NEW p \in Procs, Done(p), status' = status \/
           \E t \in Txns, s \in Statuses : s # "None" /\ status' = [status EXCEPT ![t] = s],
           status \in [Txns -> Statuses]
    PROVE  ProcType' /\ CallInv' /\ NoNewLoop
<1>1. ProcType'
  BY NoReqType DEF ProcType, Done
<1>2. NoNewLoop
  BY DEF ProcType, Done, NoNewLoop
<1>3. CallInv'
  BY DEF ProcType, Done, CallInv
<1> QED BY <1>1, <1>2, <1>3

\* Going on to the next command keeps the goroutines well formed and starts no
\* commit loop.
LEMMA NextCommandStep ==
    ASSUME ProcType, CallInv, NEW p \in Procs, pc[p] \in {"add", "read"}, NextCommand(p),
           status' = status, status \in [Txns -> Statuses]
    PROVE  ProcType' /\ CallInv' /\ NoNewLoop
<1>1. CASE Done(p)
  BY <1>1, DoneStep
<1>2. CASE /\ ~(Tail(req[p].cmds) = << >> /\ req[p].kind = "execute")
           /\ req' = [req EXCEPT ![p] = [kind |-> req[p].kind, txn |-> req[p].txn,
                                          cmds |-> Tail(req[p].cmds)]]
           /\ pc'  = [pc  EXCEPT ![p] = IF Tail(req[p].cmds) = << >> THEN "commit" ELSE "add"]
           /\ has' = [has EXCEPT ![p] = FALSE]
           /\ idx' = idx
  <2> USE <1>2
  <2>1. req[p].cmds \in Seq(Command) /\ req[p].cmds # << >>
    BY DEF ProcType, CallInv
  <2>2. Tail(req[p].cmds) \in Seq(Command)
    BY SMT, <2>1
  <2>3. ProcType'
    BY <2>2 DEF ProcType
  <2>4. NoNewLoop
    BY DEF ProcType, NoNewLoop
  <2>5. CallInv'
    BY DEF ProcType, CallInv
  <2> QED BY <2>3, <2>4, <2>5
<1> QED BY <1>1, <1>2 DEF NextCommand

\* A failed call either goes on or ends the request.
LEMMA CallFailedStep ==
    ASSUME ProcType, CallInv, NEW p \in Procs, pc[p] \in {"add", "read", "commit", "abort"},
           CallFailed(p),
           status' = status, status \in [Txns -> Statuses]
    PROVE  ProcType' /\ CallInv' /\ NoNewLoop
<1>1. CASE req[p].kind = "execute"
  BY <1>1, NextCommandStep DEF CallFailed, CallInv
<1>2. CASE req[p].kind # "execute"
  BY <1>2, DoneStep DEF CallFailed
<1> QED BY <1>1, <1>2

\* The type invariant is inductive together with CallInv: one step per action of
\* the module.
LEMMA TypeStep ==
    ASSUME TypeOK, CallInv, [Next]_vars
    PROVE  TypeOK' /\ CallInv'
<1> USE DEF TypeOK, CallInv
<1>0. ProcType /\ status \in [Txns -> Statuses]
  BY DEF ProcType
<1>1. ASSUME NEW t \in Txns, NEW ty \in Types, Begin(t, ty)
      PROVE  TypeOK' /\ CallInv'
  BY <1>1 DEF Begin, raftVars, procVars, bgVars, Statuses
<1>2. ASSUME NEW t \in Txns, TimePasses(t)
      PROVE  TypeOK' /\ CallInv'
  BY <1>2 DEF TimePasses, raftVars, procVars, bgVars
<1>3. ASSUME NEW p \in Procs, NEW t \in Txns, NEW kind \in {"execute", "commit", "rollback"},
             NEW cmds \in Batches, Receive(p, t, kind, cmds)
      PROVE  TypeOK' /\ CallInv'
  BY <1>3, BatchesAssumption DEF Receive, FirstStep, txnVars, raftVars, bgVars
<1>4. ASSUME NEW p \in Procs, SkipCommand(p)
      PROVE  TypeOK' /\ CallInv'
  BY <1>0, <1>4, NextCommandStep DEF SkipCommand, Unsupported, ProcType, txnVars, raftVars, bgVars
<1>5. ASSUME NEW p \in Procs, Lookup(p)
      PROVE  TypeOK' /\ CallInv'
  <2>1. CASE req[p].txn \in transactions
    BY <1>5, <2>1 DEF Lookup, txnVars, raftVars, bgVars
  <2>2. CASE req[p].txn \notin transactions
    BY <1>0, <1>5, <2>2, CallFailedStep DEF Lookup, ProcType, txnVars, raftVars, bgVars
  <2> QED BY <2>1, <2>2
<1>6. ASSUME NEW p \in Procs, AddOperation(p)
      PROVE  TypeOK' /\ CallInv'
  <2> USE <1>6
  <2>1. req[p].txn \in Txns /\ Head(req[p].cmds) \in Command
    BY SMT DEF AddOperation, Holds
  <2>2. CASE status[req[p].txn] # "Pending"
    BY <1>0, <2>2, CallFailedStep DEF AddOperation, Holds, ProcType, raftVars, bgVars
  <2>3. CASE status[req[p].txn] = "Pending"
    <3> USE <2>3
    <3> DEFINE cmd == Head(req[p].cmds)
               db  == IF req[p].kind = "execute" THEN OpDatabase(cmd.db) ELSE cmd.db
    <3>0. db \in Databases \cup {"", "default"} /\ cmd.type \in Kinds /\ cmd.key \in Keys
            /\ cmd.value \in Values \cup {NoVal}
      BY <2>1 DEF Command, OpDatabase
    <3>1. OpFrom(p) \in Command
      BY <3>0 DEF OpFrom, Command
    <3>2. ops' \in [Txns -> Seq(Command)]
      <4>1. ops' = [ops EXCEPT ![req[p].txn] = Append(ops[req[p].txn], OpFrom(p))]
        BY DEF AddOperation
      <4>2. Append(ops[req[p].txn], OpFrom(p)) \in Seq(Command)
        BY SMT, <2>1, <3>1
      <4> QED BY <4>1, <4>2
    <3>3. CASE Head(req[p].cmds).type = "get"
      <4>1. /\ pc' = [pc EXCEPT ![p] = "read"] /\ has' = [has EXCEPT ![p] = FALSE]
            /\ UNCHANGED <<req, idx, transactions, type, status, expired, raftVars, bgVars>>
            /\ pc[p] = "add"
        BY <3>3 DEF AddOperation, Holds
      <4> QED BY <3>2, <4>1 DEF raftVars, bgVars
    <3>4. CASE Head(req[p].cmds).type # "get"
      BY <1>0, <3>2, <3>4, NextCommandStep
         DEF AddOperation, Holds, ProcType, raftVars, bgVars
    <3> QED BY <3>3, <3>4
  <2> QED BY <2>2, <2>3
<1>7. ASSUME NEW p \in Procs, ExecuteGet(p)
      PROVE  TypeOK' /\ CallInv'
  BY <1>0, <1>7, NextCommandStep DEF ExecuteGet, Holds, ProcType, txnVars, raftVars, bgVars
<1>8. ASSUME NEW p \in Procs, CommitRejected(p)
      PROVE  TypeOK' /\ CallInv'
  BY <1>0, <1>8, DoneStep DEF CommitRejected, ProcType, txnVars, raftVars, bgVars
<1>9. ASSUME NEW p \in Procs, NEW s \in Statuses \ {"None"}, pc[p] # "idle",
             SetStatus(req[p].txn, s), Done(p),
             UNCHANGED <<transactions, type, ops, expired, log, reads, bgVars>>,
             inDoubt' \subseteq [txn : Txns, idx : Nat]
      PROVE  TypeOK' /\ CallInv'
  <2> USE <1>9
  <2>1. req[p].txn \in Txns
    OBVIOUS
  <2>2. ProcType' /\ CallInv'
    BY <1>0, <2>1, DoneStep DEF SetStatus
  <2> QED
    BY <2>1, <2>2 DEF SetStatus, ProcType, bgVars
<1>10. ASSUME NEW p \in Procs, CommitTimedOut(p)
      PROVE  TypeOK' /\ CallInv'
  BY <1>9, <1>10 DEF CommitTimedOut, Holds, Statuses, raftVars
<1>11. ASSUME NEW p \in Procs, CommitReadOnly(p)
      PROVE  TypeOK' /\ CallInv'
  BY <1>9, <1>11 DEF CommitReadOnly, Holds, Statuses, raftVars
<1>12. ASSUME NEW p \in Procs, CommitLocal(p)
      PROVE  TypeOK' /\ CallInv'
  BY <1>12 DEF CommitLocal, Holds, SetStatus, Statuses, raftVars, bgVars
<1>13. ASSUME NEW p \in Procs, SkipRead(p)
      PROVE  TypeOK' /\ CallInv'
  BY SMT, <1>13 DEF SkipRead, txnVars, raftVars, bgVars
<1>14. ASSUME NEW p \in Procs, Applying(p)
      PROVE  Entry(p) \in [txn : Txns, idx : Nat]
  BY <1>14 DEF Applying, Entry
<1>15. ASSUME NEW p \in Procs, ApplyOp(p)
      PROVE  TypeOK' /\ CallInv'
  BY SMT, <1>14, <1>15 DEF ApplyOp, txnVars, bgVars
<1>16. ASSUME NEW p \in Procs, ApplyOpFails(p)
      PROVE  TypeOK' /\ CallInv'
  BY <1>9, <1>14, <1>16 DEF ApplyOpFails, Applying, Statuses
<1>17. ASSUME NEW p \in Procs, CommitDone(p)
      PROVE  TypeOK' /\ CallInv'
  BY <1>9, <1>17 DEF CommitDone, Statuses, raftVars
<1>18. ASSUME NEW p \in Procs, AbortTransaction(p)
      PROVE  TypeOK' /\ CallInv'
  BY <1>9, <1>18 DEF AbortTransaction, Holds, AbortStatus, Final, Statuses, raftVars
<1>19. ASSUME Janitor
      PROVE  TypeOK' /\ CallInv'
  <2>1. CASE CleanupCollect
    BY <2>1 DEF CleanupCollect, txnVars, raftVars, procVars
  <2>2. CASE CleanupDelete
    BY <2>2 DEF CleanupDelete, raftVars, procVars
  <2>3. CASE CleanupStop
    BY <2>3 DEF CleanupStop, txnVars, raftVars, procVars
  <2>4. ASSUME NEW t \in Txns, CleanupAbort(t)
        PROVE  TypeOK' /\ CallInv'
    BY <2>4 DEF CleanupAbort, SetStatus, AbortStatus, Final, Statuses, raftVars, procVars
  <2> QED BY <1>19, <2>1, <2>2, <2>3, <2>4 DEF Janitor
<1>20. ASSUME ShutdownClose \/ Shutdown
      PROVE  TypeOK' /\ CallInv'
  <2>1. CASE ShutdownClose
    BY <2>1 DEF ShutdownClose, txnVars, raftVars, procVars
  <2>2. CASE ShutdownCollect
    BY <2>2 DEF ShutdownCollect, txnVars, raftVars, procVars
  <2>3. ASSUME NEW t \in Txns, ShutdownAbort(t)
        PROVE  TypeOK' /\ CallInv'
    BY <2>3 DEF ShutdownAbort, SetStatus, AbortStatus, Final, Statuses, raftVars, procVars
  <2> QED BY <1>20, <2>1, <2>2, <2>3 DEF Shutdown
<1>21. ASSUME Settle
      PROVE  TypeOK' /\ CallInv'
  <2>1. PICK e \in inDoubt : LateCommit(e) \/ LateDrop(e)
    BY <1>21 DEF Settle
  <2> USE <2>1
  <2>2. CASE LateCommit(e)
    BY SMT, <2>2 DEF LateCommit, txnVars, procVars, bgVars
  <2>3. CASE LateDrop(e)
    BY <2>3 DEF LateDrop, txnVars, procVars, bgVars
  <2> QED BY <2>2, <2>3
<1>22. CASE UNCHANGED vars
  BY <1>22 DEF vars, txnVars, raftVars, procVars, bgVars
<1> QED
  BY <1>1, <1>2, <1>3, <1>4, <1>5, <1>6, <1>7, <1>8, <1>10, <1>11, <1>12, <1>13, <1>15,
     <1>16, <1>17, <1>18, <1>19, <1>20, <1>21, <1>22 DEF Next, Work

-----------------------------------------------------------------------------
(* The life of a transaction *)

\* What a step may do to the status of transactions.
StatusMoves ==
    \A t \in Txns :
        /\ status[t] \in Final => status'[t] = status[t]
        /\ status[t] # "None" => status'[t] # "None"
        /\ status[t] = "None" /\ status'[t] # "None" => t \in transactions'

\* Setting the status of a transaction that is begun and not final.
LEMMA SetStatusMoves ==
    ASSUME TypeOK, NEW t \in Txns, NEW s \in Statuses \ {"None"},
           status[t] # "None", status[t] \in Final => s = status[t], SetStatus(t, s)
    PROVE  StatusMoves
  BY DEF TypeOK, SetStatus, StatusMoves

\* Every action of the module keeps to StatusMoves: commits start from Pending,
\* the commit loop from Committing, and AbortTransaction tests for final ones.
LEMMA StatusStep ==
    ASSUME TypeOK, CallInv, SweepInv, LoopInv, [Next]_vars
    PROVE  StatusMoves
<1>1. CASE status' = status
  BY <1>1 DEF StatusMoves
<1> USE <1>1
<1>2. ASSUME NEW t \in Txns, NEW ty \in Types, Begin(t, ty)
      PROVE  StatusMoves
  BY <1>2 DEF TypeOK, Begin, StatusMoves, Final
<1>3. ASSUME NEW p \in Procs, CommitTimedOut(p) \/ CommitReadOnly(p) \/ CommitLocal(p)
      PROVE  StatusMoves
  BY <1>3, SetStatusMoves
     DEF CommitTimedOut, CommitReadOnly, CommitLocal, Holds, CallInv, Final, Statuses
<1>4. ASSUME NEW p \in Procs, ApplyOpFails(p) \/ CommitDone(p)
      PROVE  StatusMoves
  BY <1>4, SetStatusMoves
     DEF ApplyOpFails, CommitDone, Applying, CallInv, LoopInv, Final, Statuses
<1>5. ASSUME NEW t \in Txns, status[t] # "None", SetStatus(t, AbortStatus(t))
      PROVE  StatusMoves
  BY <1>5, SetStatusMoves DEF AbortStatus, Final, Statuses
<1>6. ASSUME NEW p \in Procs, AbortTransaction(p)
      PROVE  StatusMoves
  BY <1>5, <1>6 DEF AbortTransaction, Holds, CallInv
<1>7. ASSUME NEW t \in Txns, CleanupAbort(t) \/ ShutdownAbort(t)
      PROVE  StatusMoves
  BY <1>5, <1>7 DEF CleanupAbort, ShutdownAbort, SweepInv
<1>8. ASSUME NEW p \in Procs, Work(p)
      PROVE  StatusMoves
  BY <1>3, <1>4, <1>6, <1>8
     DEF Work, SkipCommand, Lookup, AddOperation, ExecuteGet, CommitRejected, SkipRead,
         ApplyOp, txnVars
<1>9. CASE Janitor
  BY <1>7, <1>9 DEF Janitor, CleanupCollect, CleanupDelete, CleanupStop, txnVars
<1>10. CASE ShutdownClose \/ Shutdown
  BY <1>7, <1>10 DEF Shutdown, ShutdownClose, ShutdownCollect, txnVars
<1>11. CASE Settle
  BY <1>11 DEF Settle, LateCommit, LateDrop, txnVars
<1> QED
  BY <1>2, <1>8, <1>9, <1>10, <1>11 DEF Next, TimePasses, Receive, txnVars, vars

\* What the janitor and Shutdown rely on is inductive.
LEMMA SweepStep ==
    ASSUME TypeOK, CallInv, SweepInv, LoopInv, RemovedIsFinal, [Next]_vars
    PROVE  SweepInv' /\ RemovedIsFinal'
<1>0. StatusMoves
  BY StatusStep
<1> USE <1>0
<1>1. CASE UNCHANGED <<transactions, jpc, jtodo, jcur, spc, stodo>>
  BY <1>1 DEF TypeOK, SweepInv, RemovedIsFinal, StatusMoves, Final
<1>2. ASSUME NEW t \in Txns, NEW ty \in Types, Begin(t, ty)
      PROVE  SweepInv' /\ RemovedIsFinal'
  BY <1>2 DEF TypeOK, SweepInv, RemovedIsFinal, StatusMoves, Final, Begin, bgVars
<1>3. CASE CleanupCollect
  BY <1>3 DEF TypeOK, SweepInv, RemovedIsFinal, StatusMoves, Final, CleanupCollect, txnVars
<1>4. ASSUME NEW t \in Txns, CleanupAbort(t)
      PROVE  SweepInv' /\ RemovedIsFinal'
  BY <1>4 DEF TypeOK, SweepInv, RemovedIsFinal, StatusMoves, Final, CleanupAbort,
                    SetStatus, AbortStatus
<1>5. CASE CleanupDelete
  BY <1>5 DEF TypeOK, SweepInv, RemovedIsFinal, StatusMoves, Final, CleanupDelete
<1>6. CASE CleanupStop
  BY <1>6 DEF TypeOK, SweepInv, RemovedIsFinal, StatusMoves, Final, CleanupStop, txnVars
<1>7. CASE ShutdownClose
  BY <1>7 DEF TypeOK, SweepInv, RemovedIsFinal, StatusMoves, Final, ShutdownClose, txnVars
<1>8. CASE ShutdownCollect
  BY <1>8 DEF TypeOK, SweepInv, RemovedIsFinal, StatusMoves, Final, ShutdownCollect, txnVars
<1>9. ASSUME NEW t \in Txns, ShutdownAbort(t)
      PROVE  SweepInv' /\ RemovedIsFinal'
  BY <1>9 DEF TypeOK, SweepInv, RemovedIsFinal, StatusMoves, Final, ShutdownAbort
<1>10. ASSUME NEW p \in Procs, Work(p)
      PROVE  UNCHANGED <<transactions, jpc, jtodo, jcur, spc, stodo>>
  BY <1>10
     DEF Work, SkipCommand, Lookup, AddOperation, ExecuteGet, CommitRejected, SkipRead,
         ApplyOp, CommitTimedOut, CommitReadOnly, CommitLocal, ApplyOpFails, CommitDone,
         AbortTransaction, txnVars, bgVars
<1> QED
  BY <1>1, <1>2, <1>3, <1>4, <1>5, <1>6, <1>7, <1>8, <1>9, <1>10
     DEF Next, Janitor, Shutdown, Settle, TimePasses, Receive, LateCommit, LateDrop,
         txnVars, bgVars, vars

-----------------------------------------------------------------------------
(* The commit loop *)

\* What TypeOK says of the variables the commit loop works on.
LEMMA LoopTypes ==
    ASSUME TypeOK
    PROVE  /\ ProcType
           /\ pc \in [Procs -> {"idle", "add", "read", "commit", "applying", "abort"}]
           /\ idx \in [Procs -> Nat]
  BY DEF TypeOK, ProcType

(* What TypeOK says of the type and the status of a transaction.            *)
LEMMA StatusTypes ==
    ASSUME TypeOK
    PROVE  type \in [Txns -> Types] /\ status \in [Txns -> Statuses]
  BY DEF TypeOK

(* What TypeOK says of the writes in doubt.                                 *)
LEMMA DoubtTypes ==
    ASSUME TypeOK
    PROVE  /\ inDoubt \subseteq [txn : Txns, idx : Nat]
           /\ \A e \in inDoubt : e.txn \in Txns /\ e.idx \in Nat
<1>1. inDoubt \subseteq [txn : Txns, idx : Nat]
  BY DEF TypeOK
<1> QED BY <1>1

-----------------------------------------------------------------------------
(* The commit loop and the log *)

LogInv ==
    /\ OneCommitter /\ EntryInv /\ LoopInv /\ DoubtInv
    /\ AppliedAsPrefix /\ CommittedInFull /\ UncommittedLeavesNothing

\* All writes of t are in the log.
AllInLog(t) == \A i \in 1 .. Len(ops[t]) : IsWrite(ops[t][i]) => InLog(t, i)

\* A change of status that no commit loop and no log entry contradicts.
HarmlessMove(t) ==
    \/ status'[t] = status[t] /\ type'[t] = type[t]
    \/ /\ \A p \in Procs : pc'[p] = "applying" => req'[p].txn # t
       /\ status[t] \in {"Aborting", "Aborted"} => status'[t] \in {"Aborting", "Aborted"}
       /\ status'[t] = "Committed" /\ type'[t] = "ReadWrite" => AllInLog(t)
       /\ status'[t] \in {"None", "Pending", "Timeout"} =>
             status[t] \in {"None", "Pending", "Timeout"}
       /\ type'[t] = type[t] \/ status[t] = "None"

\* A step that leaves log, operations and commit loops alone and moves statuses
\* harmlessly keeps LogInv.
LEMMA QuietStep ==
    ASSUME TypeOK, TypeOK', LogInv, NoNewLoop, UNCHANGED <<ops, log, inDoubt>>,
           \A t \in Txns : HarmlessMove(t), CallInv
    PROVE  LogInv'
<1>1. \A t \in Txns, i \in Nat : InLog(t, i)' = InLog(t, i)
  BY DEF InLog
<1>2. \A t \in Txns, i \in Nat : Follows(t, i) => Follows(t, i)'
  BY DEF Follows, InLog
<1>3. OneCommitter'
  BY SMT DEF LogInv, OneCommitter, NoNewLoop
<1>4. EntryInv'
  BY DEF LogInv, EntryInv
<1>5. LoopInv'
  <2> SUFFICES ASSUME NEW p \in Procs, pc'[p] = "applying"
               PROVE  /\ status'[req'[p].txn] = "Committing" /\ type'[req'[p].txn] = "ReadWrite"
                      /\ idx'[p] \in 1 .. Len(ops'[req'[p].txn]) + 1
                      /\ Follows(req[p].txn, idx[p])'
                      /\ \A e \in inDoubt' : e.txn # req'[p].txn
    BY DEF LoopInv
  <2>1. pc[p] = "applying" /\ req'[p] = req[p] /\ idx'[p] = idx[p] /\ req[p].txn \in Txns
    BY DEF NoNewLoop, CallInv
  <2> USE <2>1
  <2>2. HarmlessMove(req[p].txn)
    OBVIOUS
  <2>3. status'[req[p].txn] = status[req[p].txn] /\ type'[req[p].txn] = type[req[p].txn]
    BY <2>2 DEF HarmlessMove
  <2>4. Follows(req[p].txn, idx[p])'
    BY SMT DEF LogInv, LoopInv, Follows, InLog
  <2> QED BY <2>3, <2>4 DEF LogInv, LoopInv
<1>6. DoubtInv'
  <2> SUFFICES ASSUME NEW e \in inDoubt
               PROVE  /\ status'[e.txn] \in {"Aborting", "Aborted"}
                      /\ Follows(e.txn, e.idx)'
                      /\ \A f \in inDoubt : f.txn = e.txn => f = e
    BY DEF DoubtInv
  <2>1. e.txn \in Txns /\ e.idx \in Nat
    BY DoubtTypes
  <2>2. HarmlessMove(e.txn)
    BY <2>1
  <2> QED BY <1>2, <2>1, <2>2 DEF LogInv, DoubtInv, HarmlessMove
<1>7. AppliedAsPrefix'
  BY DEF LogInv, AppliedAsPrefix, InLog
<1>8. CommittedInFull'
  BY SMT DEF LogInv, CommittedInFull, HarmlessMove, AllInLog, InLog
<1>9. UncommittedLeavesNothing'
  BY DEF LogInv, UncommittedLeavesNothing, HarmlessMove
<1> QED BY <1>3, <1>4, <1>5, <1>6, <1>7, <1>8, <1>9 DEF LogInv

\* The elements of a sequence over S are in S.
LEMMA SeqElement ==
    ASSUME NEW S, NEW q \in Seq(S)
    PROVE  \A n \in 1 .. Len(q) : q[n] \in S
  BY SMT

\* The entries of the log are typed.
LEMMA LogElements ==
    ASSUME TypeOK
    PROVE  /\ log \in Seq([txn : Txns, idx : Nat])
           /\ DOMAIN log = 1 .. Len(log) /\ Len(log) \in Nat
           /\ \A n \in DOMAIN log : log[n].txn \in Txns /\ log[n].idx \in Nat
<1>1. log \in Seq([txn : Txns, idx : Nat])
  BY DEF TypeOK
<1> USE <1>1
<1>2. DOMAIN log = 1 .. Len(log) /\ Len(log) \in Nat
  BY SMT
<1>3. \A n \in 1 .. Len(log) : log[n] \in [txn : Txns, idx : Nat]
  BY SeqElement
<1> QED BY <1>2, <1>3

\* The operations of a transaction are a sequence.
LEMMA OpsElement ==
    ASSUME TypeOK, NEW t \in Txns
    PROVE  DOMAIN ops = Txns /\ Len(ops[t]) \in Nat /\ DOMAIN ops[t] = 1 .. Len(ops[t])
<1>1. ops \in [Txns -> Seq(Command)]
  BY DEF TypeOK
<1> QED BY SMT, <1>1

\* Append adds one element at the end.
LEMMA AppendShape ==
    ASSUME NEW S, NEW q \in Seq(S), NEW x \in S
    PROVE  /\ DOMAIN Append(q, x) = 1 .. Len(q) + 1
           /\ \A n \in 1 .. Len(q) : Append(q, x)[n] = q[n]
           /\ Append(q, x)[Len(q) + 1] = x
  BY SMT

\* Appending the next write of a transaction to the log keeps every
\* transaction's entries a prefix of its writes.
LEMMA AppendEntry ==
    ASSUME TypeOK, EntryInv, AppliedAsPrefix, NEW t \in Txns, NEW i \in DOMAIN ops[t],
           Follows(t, i), UNCHANGED ops, log' = Append(log, [txn |-> t, idx |-> i])
    PROVE  /\ \A n \in DOMAIN log' : log'[n].idx \in DOMAIN ops[log'[n].txn]
           /\ AppliedAsPrefix'
           /\ Follows(t, i + 1)'
           /\ \A u \in Txns, j \in Nat : u # t /\ Follows(u, j) => Follows(u, j)'
           /\ \A u \in Txns, j \in Nat : InLog(u, j) => InLog(u, j)'
           /\ InLog(t, i)'
           /\ \A n \in DOMAIN log' : log'[n].txn = t \/ (n \in DOMAIN log /\ log'[n] = log[n])
<1> DEFINE e == [txn |-> t, idx |-> i]
<1>0. i \in Nat /\ e \in [txn : Txns, idx : Nat]
  BY SMT, OpsElement
<1>1. /\ DOMAIN log' = 1 .. Len(log) + 1 /\ DOMAIN log = 1 .. Len(log) /\ Len(log) \in Nat
      /\ \A n \in 1 .. Len(log) : log'[n] = log[n]
      /\ \A n \in 1 .. Len(log) : log[n].txn \in Txns /\ log[n].idx \in Nat
      /\ log'[Len(log) + 1] = e /\ e.txn = t /\ e.idx = i
  <2>1. log \in Seq([txn : Txns, idx : Nat])
    BY LogElements
  <2>2. /\ DOMAIN log' = 1 .. Len(log) + 1
        /\ \A n \in 1 .. Len(log) : log'[n] = log[n]
        /\ log'[Len(log) + 1] = e
    <3> HIDE DEF e
    <3> QED BY SMT, <1>0, <2>1, AppendShape DEF e
  <2> QED BY <2>2, LogElements
<1>2. \A u \in Txns, j \in Nat : InLog(u, j) => InLog(u, j)'
  BY SMT, <1>1 DEF InLog
<1>3. InLog(t, i)'
  BY SMT, <1>1 DEF InLog
<1>4. \A n \in DOMAIN log' : log'[n].txn = t \/ (n \in DOMAIN log /\ log'[n] = log[n])
  BY SMT, <1>1
<1>5. \A n \in DOMAIN log' : log'[n].idx \in DOMAIN ops[log'[n].txn]
  BY SMT, <1>1 DEF EntryInv
<1>6. Follows(t, i + 1)'
  <2>1. \A n \in DOMAIN log' : log'[n].txn = t => log'[n].idx < i + 1
    BY SMT, <1>0, <1>1 DEF Follows
  <2>2. ASSUME NEW j \in 1 .. Len(ops[t]), j < i + 1, IsWrite(ops[t][j])
        PROVE  InLog(t, j)'
    <3>1. j \in Nat /\ (j = i \/ j < i)
      BY SMT, <1>0, <2>2, OpsElement
    <3>2. j < i => InLog(t, j)
      BY <2>2 DEF Follows
    <3> QED BY <1>2, <1>3, <3>1, <3>2
  <2> QED BY <2>1, <2>2 DEF Follows
<1>7. \A u \in Txns, j \in Nat : u # t /\ Follows(u, j) => Follows(u, j)'
  <2> SUFFICES ASSUME NEW u \in Txns, NEW j \in Nat, u # t, Follows(u, j)
               PROVE  Follows(u, j)'
    OBVIOUS
  <2>1. \A n \in DOMAIN log' : log'[n].txn = u => log'[n].idx < j
    BY <1>4 DEF Follows
  <2>2. \A k \in 1 .. Len(ops[u]) : j > k /\ IsWrite(ops[u][k]) => InLog(u, k)'
    BY SMT, <1>2, OpsElement DEF Follows
  <2> QED BY <2>1, <2>2, OpsElement DEF Follows
<1>8. AppliedAsPrefix'
  <2>1. \A m, n \in DOMAIN log' :
           m < n /\ log'[m].txn = log'[n].txn => log'[m].idx < log'[n].idx
    <3> SUFFICES ASSUME NEW m \in DOMAIN log', NEW n \in DOMAIN log',
                        m < n, log'[m].txn = log'[n].txn
                 PROVE  log'[m].idx < log'[n].idx
      OBVIOUS
    <3>1. m \in 1 .. Len(log) /\ log'[m] = log[m]
      BY SMT, <1>1
    <3>2. CASE n \in 1 .. Len(log)
      BY <1>1, <3>1, <3>2 DEF AppliedAsPrefix
    <3>3. CASE n = Len(log) + 1
      BY <1>1, <3>1, <3>3 DEF Follows
    <3> QED BY SMT, <1>1, <3>2, <3>3
  <2>2. ASSUME NEW n \in DOMAIN log', NEW j \in 1 .. log'[n].idx,
               IsWrite(ops[log'[n].txn][j])
        PROVE  InLog(log[n].txn, j)'
    <3>1. CASE n \in DOMAIN log
      <4>1. log'[n] = log[n] /\ log[n].txn \in Txns /\ j \in Nat
        BY SMT, <1>1, <3>1
      <4> QED BY <1>2, <2>2, <3>1, <4>1 DEF AppliedAsPrefix
    <3>2. CASE n = Len(log) + 1
      <4>1. log'[n] = e /\ j \in 1 .. Len(ops[t])
        BY SMT, <1>0, <1>1, <3>2
      <4>2. InLog(t, j)'
        BY SMT, <1>6, <2>2, <4>1 DEF Follows
      <4> QED BY SMT, <4>1, <4>2
    <3> QED BY SMT, <1>1, <3>1, <3>2
  <2> QED BY <2>1, <2>2 DEF AppliedAsPrefix
<1> QED BY <1>2, <1>3, <1>4, <1>5, <1>6, <1>7, <1>8

\* The actions that QuietStep covers: everything but adding an operation, the
\* commit loop itself and the settling of commands in doubt.
LEMMA QuietActions ==
    ASSUME TypeOK, TypeOK', CallInv, SweepInv, LogInv,
           \/ \E t \in Txns : (\E ty \in Types : Begin(t, ty)) \/ TimePasses(t)
           \/ \E p \in Procs, t \in Txns, kind \in {"execute", "commit", "rollback"},
                 cmds \in Batches : Receive(p, t, kind, cmds)
           \/ \E p \in Procs :
                 \/ SkipCommand(p) \/ Lookup(p) \/ ExecuteGet(p) \/ CommitRejected(p)
                 \/ CommitTimedOut(p) \/ CommitReadOnly(p) \/ CommitDone(p)
                 \/ AbortTransaction(p)
           \/ Janitor \/ ShutdownClose \/ Shutdown
           \/ UNCHANGED vars
    PROVE  LogInv'
<1>0. ProcType /\ status \in [Txns -> Statuses]
  BY LoopTypes, StatusTypes
<1> USE <1>0
<1>1. ASSUME UNCHANGED <<type, status, ops, log, inDoubt>>, NoNewLoop
      PROVE  LogInv'
  BY <1>1, QuietStep DEF HarmlessMove
<1> USE <1>1
<1>2. ASSUME NEW t \in Txns, NEW ty \in Types, Begin(t, ty)
      PROVE  LogInv'
  <2> USE <1>2
  <2>1. NoNewLoop
    BY DEF Begin, procVars, NoNewLoop
  <2>2. \A p \in Procs : pc'[p] = "applying" => req'[p].txn # t
    BY DEF Begin, procVars, CallInv
  <2>3. \A u \in Txns : HarmlessMove(u)
    BY <2>2, StatusTypes DEF Begin, HarmlessMove
  <2> QED BY <2>1, <2>3, QuietStep DEF Begin, raftVars
<1>3. ASSUME NEW p \in Procs, NEW t \in Txns, NEW kind \in {"execute", "commit", "rollback"},
             NEW cmds \in Batches, Receive(p, t, kind, cmds)
      PROVE  LogInv'
  <2>1. NoNewLoop
    BY <1>3 DEF Receive, FirstStep, NoNewLoop, ProcType
  <2> QED BY <1>3, <2>1 DEF Receive, txnVars, raftVars
<1>4. ASSUME NEW p \in Procs, SkipCommand(p) \/ ExecuteGet(p)
      PROVE  LogInv'
  <2>1. NoNewLoop
    BY <1>4, NextCommandStep DEF SkipCommand, ExecuteGet, Unsupported, Holds, txnVars
  <2> QED BY <1>4, <2>1 DEF SkipCommand, ExecuteGet, txnVars, raftVars
<1>5. ASSUME NEW p \in Procs, Lookup(p)
      PROVE  LogInv'
  <2> USE <1>5
  <2>1. CASE req[p].txn \in transactions
    BY <2>1 DEF Lookup, NoNewLoop, txnVars, raftVars
  <2>2. CASE req[p].txn \notin transactions
    <3>1. NoNewLoop
      BY <2>2, CallFailedStep DEF Lookup, txnVars
    <3> QED BY <3>1 DEF Lookup, txnVars, raftVars
  <2> QED BY <2>1, <2>2
<1>6. ASSUME NEW p \in Procs, CommitRejected(p)
      PROVE  LogInv'
  <2>1. NoNewLoop
    BY <1>6, DoneStep DEF CommitRejected, txnVars
  <2> QED BY <1>6, <2>1 DEF CommitRejected, txnVars, raftVars
<1>7. ASSUME NEW p \in Procs, pc[p] # "idle", NEW s \in Statuses \ {"None"},
             SetStatus(req[p].txn, s), Done(p), UNCHANGED <<type, ops, log, inDoubt>>,
             ~ \E q \in Procs : q # p /\ pc[q] = "applying" /\ req[q].txn = req[p].txn,
             status[req[p].txn] \in {"Aborting", "Aborted"} => s \in {"Aborting", "Aborted"},
             s = "Committed" => \/ type[req[p].txn] = "ReadOnly"
                                \/ AllInLog(req[p].txn),
             s \in {"Pending", "Timeout"} => status[req[p].txn] = "Pending"
      PROVE  LogInv'
  <2> USE <1>7
  <2>1. req[p].txn \in Txns
    BY DEF CallInv
  <2>2. NoNewLoop
    BY <2>1, DoneStep DEF SetStatus
  <2>3. \A q \in Procs : pc'[q] = "applying" => req'[q].txn # req[p].txn
    BY <2>2 DEF NoNewLoop, Done, ProcType
  <2>4. \A u \in Txns : HarmlessMove(u)
    BY <2>1, <2>3 DEF SetStatus, HarmlessMove
  <2> QED BY <2>2, <2>4, QuietStep
<1> USE <1>7
<1>8. ASSUME NEW p \in Procs, CommitTimedOut(p) \/ CommitReadOnly(p)
      PROVE  LogInv'
  BY <1>8 DEF CommitTimedOut, CommitReadOnly, Holds, Locked, Statuses, raftVars
<1>9. ASSUME NEW p \in Procs, CommitDone(p)
      PROVE  LogInv'
  <2> USE <1>9
  <2>1. AllInLog(req[p].txn) /\ status[req[p].txn] = "Committing"
    <3>1. Follows(req[p].txn, idx[p]) /\ status[req[p].txn] = "Committing"
      BY DEF CommitDone, LogInv, LoopInv
    <3>2. req[p].txn \in Txns /\ idx[p] \in Nat
      BY LoopTypes DEF CommitDone, CallInv
    <3> USE <3>2
    <3>3. Len(ops[req[p].txn]) \in Nat /\ Len(ops[req[p].txn]) < idx[p]
      BY OpsElement DEF CommitDone
    <3>4. \A j \in 1 .. Len(ops[req[p].txn]) : j < idx[p]
      BY SMT, <3>3
    <3> QED BY <3>1, <3>4, OpsElement DEF Follows, AllInLog
  <2>2. ~ \E q \in Procs : q # p /\ pc[q] = "applying" /\ req[q].txn = req[p].txn
    BY DEF CommitDone, LogInv, OneCommitter
  <2> QED BY <2>1, <2>2 DEF CommitDone, Statuses, raftVars
<1>10. ASSUME NEW p \in Procs, AbortTransaction(p)
      PROVE  LogInv'
  <2>1. req[p].txn \in Txns /\ status[req[p].txn] # "None"
    BY <1>10 DEF AbortTransaction, Holds, CallInv
  <2>2. status[req[p].txn] = "Committed" =>
           type[req[p].txn] = "ReadOnly" \/ AllInLog(req[p].txn)
    BY <2>1, StatusTypes DEF LogInv, CommittedInFull, AllInLog, Types
  <2> QED
    BY <1>10, <2>1, <2>2
       DEF AbortTransaction, Holds, Locked, AbortStatus, Final, Statuses, raftVars
<1>11. ASSUME NEW t \in Txns, status[t] # "None", ~Locked(t), SetStatus(t, AbortStatus(t)),
              UNCHANGED <<type, ops, raftVars, procVars>>
      PROVE  LogInv'
  <2> USE <1>11
  <2>1. NoNewLoop
    BY DEF procVars, NoNewLoop
  <2>2. \A p \in Procs : pc'[p] = "applying" => req'[p].txn # t
    BY DEF procVars, Locked
  <2>3. status[t] = "Committed" => type[t] = "ReadOnly" \/ AllInLog(t)
    BY StatusTypes DEF LogInv, CommittedInFull, AllInLog, Types
  <2>4. \A u \in Txns : HarmlessMove(u)
    BY <2>2, <2>3 DEF SetStatus, AbortStatus, Final, HarmlessMove
  <2> QED BY <2>1, <2>4, QuietStep DEF raftVars
<1>12. ASSUME NEW t \in Txns, CleanupAbort(t) \/ ShutdownAbort(t)
      PROVE  LogInv'
  BY <1>11, <1>12 DEF CleanupAbort, ShutdownAbort, SweepInv
<1>13. ASSUME UNCHANGED <<type, status, ops, raftVars, procVars>>
      PROVE  LogInv'
  BY <1>13 DEF raftVars, procVars, NoNewLoop
<1>14. CASE Janitor \/ ShutdownClose \/ Shutdown \/ UNCHANGED vars
  BY <1>12, <1>13, <1>14
     DEF Janitor, CleanupCollect, CleanupDelete, CleanupStop, ShutdownClose, Shutdown,
         ShutdownCollect, vars, txnVars
<1>15. ASSUME NEW t \in Txns, TimePasses(t)
      PROVE  LogInv'
  BY <1>13, <1>15 DEF TimePasses
<1> QED
  BY <1>2, <1>3, <1>4, <1>5, <1>6, <1>8, <1>9, <1>10, <1>14, <1>15

\* AddOperation touches only a pending transaction, of which the log holds
\* nothing and which no commit loop is working on.
LEMMA AddOperationStep ==
    ASSUME TypeOK, TypeOK', CallInv, LogInv, NEW p \in Procs, AddOperation(p)
    PROVE  LogInv'
<1>0. ProcType /\ status \in [Txns -> Statuses]
  BY LoopTypes, StatusTypes
<1> DEFINE t == req[p].txn
<1>1. t \in Txns /\ UNCHANGED <<type, status, log, inDoubt>>
  BY DEF AddOperation, Holds, CallInv, raftVars
<1>2. CASE status[t] # "Pending"
  <2>1. NoNewLoop
    BY <1>0, <1>1, <1>2, CallFailedStep DEF AddOperation, Holds
  <2> QED BY <1>1, <1>2, <2>1, QuietStep DEF AddOperation, HarmlessMove
<1>3. CASE status[t] = "Pending"
  <2>1. NoNewLoop
    <3>1. CASE Head(req[p].cmds).type = "get"
      BY <1>0, <1>3, <3>1 DEF AddOperation, NoNewLoop, ProcType
    <3>2. CASE Head(req[p].cmds).type # "get"
      BY <1>0, <1>1, <1>3, <3>2, NextCommandStep DEF AddOperation, Holds
    <3> QED BY <3>1, <3>2
  <2>2. /\ \A u \in Txns : u # t => ops'[u] = ops[u]
    BY <1>1, <1>3, OpsElement DEF AddOperation
  <2>3. /\ \A n \in DOMAIN log : log[n].txn # t /\ log[n].txn \in Txns
        /\ \A e \in inDoubt : e.txn # t /\ e.txn \in Txns
    <3>1. \A n \in DOMAIN log : log[n].txn \in Txns
      BY LogElements
    <3> QED BY <1>1, <1>3, <3>1, DoubtTypes DEF LogInv, UncommittedLeavesNothing
  <2>4. \A u \in Txns, i \in Nat : u # t /\ Follows(u, i) => Follows(u, i)'
    BY <1>1, <2>2 DEF Follows, InLog
  <2>5. OneCommitter'
    BY <2>1 DEF LogInv, OneCommitter, NoNewLoop
  <2>6. EntryInv'
    BY <1>1, <2>2, <2>3 DEF LogInv, EntryInv
  <2>7. LoopInv'
    <3> SUFFICES ASSUME NEW q \in Procs, pc'[q] = "applying"
                 PROVE  /\ status'[req'[q].txn] = "Committing"
                        /\ type'[req'[q].txn] = "ReadWrite"
                        /\ idx'[q] \in 1 .. Len(ops'[req'[q].txn]) + 1
                        /\ Follows(req[q].txn, idx[q])'
                        /\ \A e \in inDoubt' : e.txn # req'[q].txn
      BY DEF LoopInv
    <3>1. pc[q] = "applying" /\ req'[q] = req[q] /\ idx'[q] = idx[q]
          /\ req[q].txn \in Txns /\ idx[q] \in Nat
      BY <2>1, LoopTypes DEF NoNewLoop, CallInv
    <3> USE <3>1
    <3>2. req[q].txn # t
      BY <1>3 DEF LogInv, LoopInv
    <3>3. Follows(req[q].txn, idx[q])'
      <4>1. Follows(req[q].txn, idx[q])
        BY DEF LogInv, LoopInv
      <4> QED BY <2>4, <3>2, <4>1
    <3> QED BY SMT, <1>1, <2>2, <3>2, <3>3 DEF LogInv, LoopInv
  <2>8. DoubtInv'
    BY <1>1, <2>3, <2>4, DoubtTypes DEF LogInv, DoubtInv
  <2>9. AppliedAsPrefix'
    <3>1. AppliedAsPrefix
      BY DEF LogInv
    <3>2. log' = log /\ \A n \in DOMAIN log : ops'[log[n].txn] = ops[log[n].txn]
      BY <1>1, <2>2, <2>3
    <3> QED BY SMT, <3>1, <3>2 DEF AppliedAsPrefix, InLog
  <2>10. CommittedInFull'
    BY <1>1, <1>3, <2>2 DEF LogInv, CommittedInFull, InLog
  <2>11. UncommittedLeavesNothing'
    BY <1>1 DEF LogInv, UncommittedLeavesNothing
  <2> QED BY <2>5, <2>6, <2>7, <2>8, <2>9, <2>10, <2>11 DEF LogInv
<1> QED BY <1>2, <1>3

\* The start of the commit loop of a pending read-write transaction.
LEMMA CommitLocalStep ==
    ASSUME TypeOK, TypeOK', CallInv, LogInv, NEW p \in Procs, CommitLocal(p)
    PROVE  LogInv'
<1> DEFINE t == req[p].txn
<1>1. /\ t \in Txns /\ status[t] = "Pending" /\ type[t] = "ReadWrite"
      /\ UNCHANGED <<type, ops, log, inDoubt, req>>
      /\ status' = [status EXCEPT ![t] = "Committing"]
      /\ pc' = [pc EXCEPT ![p] = "applying"] /\ idx' = [idx EXCEPT ![p] = 1]
      /\ \A q \in Procs : pc[q] = "applying" => req[q].txn # t
  BY DEF CommitLocal, Holds, Locked, SetStatus, CallInv, raftVars
<1> USE <1>1
<1>2. \A q \in Procs : pc'[q] = "applying" =>
         (q = p /\ idx'[q] = 1) \/ (q # p /\ pc[q] = "applying" /\ idx'[q] = idx[q])
  BY LoopTypes
<1>3. /\ \A n \in DOMAIN log : log[n].txn # t
      /\ \A e \in inDoubt : e.txn # t
  BY DEF LogInv, UncommittedLeavesNothing
<1>4. \A u \in Txns : u # t => status'[u] = status[u]
  BY StatusTypes
<1>5. status'[t] = "Committing"
  BY StatusTypes
<1>6. OneCommitter'
  BY SMT, <1>2 DEF LogInv, OneCommitter
<1>7. EntryInv'
  BY DEF LogInv, EntryInv
<1>8. LoopInv'
  <2> SUFFICES ASSUME NEW q \in Procs, pc'[q] = "applying"
               PROVE  /\ status'[req[q].txn] = "Committing"
                      /\ type[req[q].txn] = "ReadWrite"
                      /\ idx'[q] \in 1 .. Len(ops[req[q].txn]) + 1
                      /\ Follows(req[q].txn, idx[q])'
                      /\ \A e \in inDoubt : e.txn # req[q].txn
    BY DEF LoopInv
  <2>1. CASE q = p
    <3>1. Follows(t, 1)'
      BY SMT, <1>3 DEF Follows
    <3>2. idx'[p] = 1 /\ 1 \in 1 .. Len(ops[t]) + 1
      <4>1. idx'[p] = 1
        BY LoopTypes
      <4> QED BY SMT, <4>1, OpsElement
    <3> QED BY <1>3, <1>5, <2>1, <3>1, <3>2
  <2>2. CASE q # p
    <3>1. pc[q] = "applying" /\ idx'[q] = idx[q] /\ req[q].txn # t /\ req[q].txn \in Txns
      BY <1>2, <2>2 DEF CallInv
    <3>2. Follows(req[q].txn, idx[q])'
      BY <3>1 DEF LogInv, LoopInv, Follows, InLog
    <3> QED BY <1>4, <3>1, <3>2 DEF LogInv, LoopInv
  <2> QED BY <2>1, <2>2
<1>9. DoubtInv'
  <2>1. \A u \in Txns, j \in Nat : Follows(u, j) => Follows(u, j)'
    BY DEF Follows, InLog
  <2> QED BY <1>3, <1>4, <2>1, DoubtTypes DEF LogInv, DoubtInv
<1>10. AppliedAsPrefix'
  BY DEF LogInv, AppliedAsPrefix, InLog
<1>11. CommittedInFull'
  BY ZenonT(30), <1>4, <1>5 DEF LogInv, CommittedInFull, InLog
<1>12. UncommittedLeavesNothing'
  BY <1>4, <1>5 DEF LogInv, UncommittedLeavesNothing
<1> QED BY <1>6, <1>7, <1>8, <1>9, <1>10, <1>11, <1>12 DEF LogInv

\* One more turn of the commit loop, whether it skips a read (the log stays) or
\* applies a write (the log grows by it).
LEMMA LoopStep ==
    ASSUME TypeOK, TypeOK', CallInv, LogInv, NEW p \in Procs, SkipRead(p) \/ ApplyOp(p)
    PROVE  LogInv'
<1>0. PICK t \in Txns, i \in Nat : t = req[p].txn /\ i = idx[p]
  BY LoopTypes DEF SkipRead, ApplyOp, Applying, CallInv
<1>1. /\ pc[p] = "applying" /\ i \in DOMAIN ops[t]
      /\ status[t] = "Committing" /\ Follows(t, i) /\ \A e \in inDoubt : e.txn # t
      /\ UNCHANGED <<type, status, ops, inDoubt, pc, req>>
      /\ idx' = [idx EXCEPT ![p] = i + 1] /\ idx'[p] = i + 1
      /\ \A q \in Procs : q # p => idx'[q] = idx[q]
  <2>1. pc[p] = "applying" /\ i <= Len(ops[t])
    BY <1>0 DEF SkipRead, ApplyOp, Applying
  <2>2. i \in DOMAIN ops[t]
    BY SMT, <1>0, <2>1, OpsElement DEF LogInv, LoopInv
  <2> QED
    <3>1. /\ UNCHANGED <<type, status, ops, inDoubt, pc, req>>
          /\ idx' = [idx EXCEPT ![p] = i + 1]
      BY <1>0 DEF SkipRead, ApplyOp, txnVars, raftVars
    <3>2. idx'[p] = i + 1 /\ \A q \in Procs : q # p => idx'[q] = idx[q]
      BY <3>1, LoopTypes
    <3> QED BY <1>0, <2>1, <2>2, <3>1, <3>2 DEF LogInv, LoopInv
<1> USE <1>1
<1>2. /\ EntryInv' /\ AppliedAsPrefix' /\ Follows(t, i + 1)'
      /\ \A u \in Txns, j \in Nat : u # t /\ Follows(u, j) => Follows(u, j)'
      /\ \A u \in Txns, j \in Nat : InLog(u, j) => InLog(u, j)'
      /\ \A n \in DOMAIN log' : log'[n].txn = t \/ (n \in DOMAIN log /\ log'[n] = log[n])
  <2>1. CASE SkipRead(p)
    <3>1. UNCHANGED <<ops, log, inDoubt>> /\ ~IsWrite(ops[t][i])
      BY <1>0, <2>1 DEF SkipRead, txnVars, raftVars
    <3>2. Follows(t, i + 1)'
      <4>1. \A n \in DOMAIN log : log[n].txn = t => log[n].idx < i + 1
        BY SMT, <1>0, LogElements DEF Follows
      <4>2. ASSUME NEW j \in 1 .. Len(ops[t]), j < i + 1, IsWrite(ops[t][j])
            PROVE  InLog(t, j)
        <5> USE <4>2
        <5>1. j \in Nat /\ (j = i \/ j < i)
          BY SMT, <1>0, OpsElement
        <5>2. j # i
          BY <3>1
        <5> QED BY <5>1, <5>2 DEF Follows
      <4> QED BY <3>1, <4>1, <4>2 DEF Follows, InLog
    <3>3. EntryInv' /\ AppliedAsPrefix'
      BY SMT, <3>1 DEF LogInv, EntryInv, AppliedAsPrefix, InLog
    <3>4. \A u \in Txns, j \in Nat : Follows(u, j) => Follows(u, j)'
      BY <3>1 DEF Follows, InLog
    <3>5. \A u \in Txns, j \in Nat : InLog(u, j) => InLog(u, j)'
      BY <3>1 DEF InLog
    <3> QED BY <3>1, <3>2, <3>3, <3>4, <3>5
  <2>2. CASE ApplyOp(p)
    <3>1. log' = Append(log, [txn |-> t, idx |-> i])
      BY <1>0, <2>2 DEF ApplyOp, Entry
    <3> QED BY <3>1, AppendEntry DEF LogInv, EntryInv
  <2> QED BY <2>1, <2>2
<1>3. OneCommitter'
  BY DEF LogInv, OneCommitter
<1>4. LoopInv'
  <2> SUFFICES ASSUME NEW q \in Procs, pc[q] = "applying"
               PROVE  /\ status[req[q].txn] = "Committing"
                      /\ type[req[q].txn] = "ReadWrite"
                      /\ idx'[q] \in 1 .. Len(ops[req[q].txn]) + 1
                      /\ Follows(req[q].txn, idx[q])'
                      /\ \A e \in inDoubt : e.txn # req[q].txn
    BY DEF LoopInv
  <2>1. CASE q = p
    <3>1. Follows(req[q].txn, idx[q])'
      BY ZenonT(30), <1>0, <1>2, <2>1
    <3>2. i + 1 \in 1 .. Len(ops[t]) + 1
      BY SMT, <1>0, OpsElement
    <3> QED BY <1>0, <2>1, <3>1, <3>2 DEF LogInv, LoopInv
  <2>2. CASE q # p
    <3>1. req[q].txn # t /\ req[q].txn \in Txns /\ idx[q] \in Nat /\ idx'[q] = idx[q]
      BY <1>0, <2>2, LoopTypes DEF LogInv, OneCommitter, CallInv
    <3>2. Follows(req[q].txn, idx[q])
      BY DEF LogInv, LoopInv
    <3>3. Follows(req[q].txn, idx[q])'
      BY <1>2, <3>1, <3>2
    <3> QED BY <3>1, <3>3 DEF LogInv, LoopInv
  <2> QED BY <2>1, <2>2
<1>5. DoubtInv'
  BY <1>2, DoubtTypes DEF LogInv, DoubtInv
<1>6. CommittedInFull'
  <2>1. \A u \in Txns : DOMAIN ops[u] \subseteq Nat
    BY SMT, OpsElement
  <2> QED BY SMT, <1>2, <2>1 DEF LogInv, CommittedInFull
<1>7. UncommittedLeavesNothing'
  <2>1. type[t] # "ReadOnly"
    BY <1>0 DEF LogInv, LoopInv
  <2> QED BY SMT, <1>2, <2>1 DEF LogInv, UncommittedLeavesNothing
<1> QED BY <1>2, <1>3, <1>4, <1>5, <1>6, <1>7 DEF LogInv

\* A failed Apply ends the loop and leaves at most the write it failed on in
\* doubt.
LEMMA ApplyOpFailsStep ==
    ASSUME TypeOK, TypeOK', CallInv, LogInv, NEW p \in Procs, ApplyOpFails(p)
    PROVE  LogInv'
<1>0. PICK t \in Txns, i \in Nat : t = req[p].txn /\ i = idx[p]
  BY LoopTypes DEF ApplyOpFails, Applying, CallInv
<1>1. /\ pc[p] = "applying" /\ i \in DOMAIN ops[t]
      /\ status[t] = "Committing" /\ Follows(t, i) /\ \A e \in inDoubt : e.txn # t
      /\ UNCHANGED <<type, ops, log>>
      /\ status' = [status EXCEPT ![t] = "Aborting"]
      /\ inDoubt' \in {inDoubt, inDoubt \cup {[txn |-> t, idx |-> i]}}
  <2>1. pc[p] = "applying" /\ i <= Len(ops[t])
    BY <1>0 DEF ApplyOpFails, Applying
  <2>2. i \in DOMAIN ops[t]
    BY SMT, <1>0, <2>1, OpsElement DEF LogInv, LoopInv
  <2> QED BY <1>0, <2>1, <2>2 DEF ApplyOpFails, SetStatus, Entry, LogInv, LoopInv
<1>2. NoNewLoop
  <2>1. \E u \in Txns, s \in Statuses : s # "None" /\ status' = [status EXCEPT ![u] = s]
    BY <1>1 DEF Statuses
  <2> QED BY <2>1, DoneStep, LoopTypes, StatusTypes DEF ApplyOpFails
<1>3. \A q \in Procs : pc'[q] = "applying" =>
         /\ pc[q] = "applying" /\ req'[q] = req[q] /\ idx'[q] = idx[q]
         /\ req[q].txn # t /\ req[q].txn \in Txns /\ idx[q] \in Nat
  <2>1. pc'[p] # "applying"
    BY LoopTypes DEF ApplyOpFails, Done
  <2> SUFFICES ASSUME NEW q \in Procs, pc'[q] = "applying"
               PROVE  /\ pc[q] = "applying" /\ req'[q] = req[q] /\ idx'[q] = idx[q]
                      /\ req[q].txn # t /\ req[q].txn \in Txns /\ idx[q] \in Nat
    OBVIOUS
  <2>2. q # p /\ pc[q] = "applying" /\ req'[q] = req[q] /\ idx'[q] = idx[q]
    BY <1>2, <2>1 DEF NoNewLoop
  <2> USE <2>2
  <2>3. req[q].txn # t
    BY <1>0, <1>1 DEF LogInv, OneCommitter
  <2>4. req[q].txn \in Txns
    BY DEF CallInv
  <2>5. idx[q] \in Nat
    BY LoopTypes
  <2> QED BY <2>3, <2>4, <2>5
<1>4. /\ status'[t] = "Aborting" /\ \A u \in Txns : u # t => status'[u] = status[u]
  BY <1>1, StatusTypes
<1>5. \A u \in Txns, j \in Nat : Follows(u, j) => Follows(u, j)'
  BY <1>1 DEF Follows, InLog
<1>6. \A e \in inDoubt' : e \in inDoubt \/ (e.txn = t /\ e.idx = i)
  BY SMT, <1>1
<1>7. OneCommitter'
  BY SMT, <1>3 DEF LogInv, OneCommitter
<1>8. EntryInv'
  BY <1>1, <1>6 DEF LogInv, EntryInv
<1>9. LoopInv'
  <2> SUFFICES ASSUME NEW q \in Procs, pc'[q] = "applying"
               PROVE  /\ status'[req'[q].txn] = "Committing"
                      /\ type'[req'[q].txn] = "ReadWrite"
                      /\ idx'[q] \in 1 .. Len(ops'[req'[q].txn]) + 1
                      /\ Follows(req[q].txn, idx[q])'
                      /\ \A e \in inDoubt' : e.txn # req'[q].txn
    BY DEF LoopInv
  <2>1. Follows(req[q].txn, idx[q])
    BY <1>3 DEF LogInv, LoopInv
  <2>2. Follows(req[q].txn, idx[q])'
    BY <1>3, <1>5, <2>1
  <2>3. /\ pc[q] = "applying" /\ req'[q] = req[q] /\ idx'[q] = idx[q]
        /\ req[q].txn # t /\ req[q].txn \in Txns
    BY <1>3
  <2>4. /\ status[req[q].txn] = "Committing" /\ type[req[q].txn] = "ReadWrite"
        /\ idx[q] \in 1 .. Len(ops[req[q].txn]) + 1
        /\ \A e \in inDoubt : e.txn # req[q].txn
    BY <2>3 DEF LogInv, LoopInv
  <2> QED BY <1>1, <1>4, <1>6, <2>2, <2>3, <2>4
<1>10. DoubtInv'
  <2> SUFFICES ASSUME NEW e \in inDoubt'
               PROVE  /\ status'[e.txn] \in {"Aborting", "Aborted"}
                      /\ Follows(e.txn, e.idx)'
                      /\ \A f \in inDoubt' : f.txn = e.txn => f = e
    BY DEF DoubtInv
  <2>1. CASE e \in inDoubt
    <3>1. e.txn \in Txns /\ e.idx \in Nat /\ e.txn # t
      BY <1>1, <2>1, DoubtTypes
    <3> QED BY <1>4, <1>5, <1>6, <2>1, <3>1 DEF LogInv, DoubtInv
  <2>2. CASE e \notin inDoubt
    <3>1. e = [txn |-> t, idx |-> i] /\ inDoubt' = inDoubt \cup {e}
      BY <1>1, <2>2
    <3> USE <3>1
    <3>2. Follows(e.txn, e.idx)'
      BY <1>1, <1>5
    <3>3. \A f \in inDoubt' : f.txn = e.txn => f = e
      BY <1>1
    <3> QED BY <1>4, <3>2, <3>3
  <2> QED BY <2>1, <2>2
<1>11. AppliedAsPrefix'
  BY <1>1 DEF LogInv, AppliedAsPrefix, InLog
<1>12. CommittedInFull'
  BY SMT, <1>1, <1>4 DEF LogInv, CommittedInFull, InLog
<1>13. UncommittedLeavesNothing'
  <2>1. type[t] # "ReadOnly"
    BY <1>0, <1>1 DEF LogInv, LoopInv
  <2> QED BY <1>1, <1>4, <1>6, <2>1 DEF LogInv, UncommittedLeavesNothing
<1> QED BY <1>7, <1>8, <1>9, <1>10, <1>11, <1>12, <1>13 DEF LogInv

\* Raft commits or drops a command in doubt.
LEMMA SettleStep ==
    ASSUME TypeOK, TypeOK', CallInv, LogInv, Settle
    PROVE  LogInv'
<1>1. PICK e \in inDoubt : LateCommit(e) \/ LateDrop(e)
  BY DEF Settle
<1>2. PICK t \in Txns, i \in Nat : e = [txn |-> t, idx |-> i]
  BY DoubtTypes
<1>3. /\ UNCHANGED <<type, status, ops, pc, req, idx>> /\ inDoubt' = inDoubt \ {e}
      /\ i \in DOMAIN ops[t] /\ Follows(t, i)
      /\ status[t] \in {"Aborting", "Aborted"} /\ \A f \in inDoubt' : f.txn # t
  BY <1>1, <1>2 DEF LateCommit, LateDrop, txnVars, procVars, LogInv, EntryInv, DoubtInv
<1> USE <1>3
<1>4. /\ \A n \in DOMAIN log' : log'[n].idx \in DOMAIN ops[log'[n].txn]
      /\ AppliedAsPrefix'
      /\ \A u \in Txns, j \in Nat : u # t /\ Follows(u, j) => Follows(u, j)'
      /\ \A u \in Txns, j \in Nat : InLog(u, j) => InLog(u, j)'
      /\ \A n \in DOMAIN log' : log'[n].txn = t \/ (n \in DOMAIN log /\ log'[n] = log[n])
  <2>1. CASE LateCommit(e)
    <3>1. log' = Append(log, [txn |-> t, idx |-> i])
      BY <1>2, <2>1 DEF LateCommit
    <3> QED BY <3>1, AppendEntry DEF LogInv
  <2>2. CASE LateDrop(e)
    <3>1. UNCHANGED log
      BY <2>2 DEF LateDrop
    <3> QED BY SMT, <3>1 DEF LogInv, EntryInv, AppliedAsPrefix, InLog, Follows
  <2> QED BY <1>1, <2>1, <2>2
<1> USE <1>4
<1>5. OneCommitter'
  BY DEF LogInv, OneCommitter
<1>6. EntryInv'
  BY DEF LogInv, EntryInv
<1>7. LoopInv'
  <2> SUFFICES ASSUME NEW q \in Procs, pc[q] = "applying"
               PROVE  /\ status[req[q].txn] = "Committing"
                      /\ type[req[q].txn] = "ReadWrite"
                      /\ idx[q] \in 1 .. Len(ops[req[q].txn]) + 1
                      /\ Follows(req[q].txn, idx[q])'
                      /\ \A f \in inDoubt' : f.txn # req[q].txn
    BY DEF LoopInv
  <2>1. req[q].txn \in Txns /\ idx[q] \in Nat /\ Follows(req[q].txn, idx[q])
        /\ req[q].txn # t
    BY LoopTypes DEF LogInv, LoopInv, CallInv
  <2>2. Follows(req[q].txn, idx[q])'
    BY <2>1
  <2> QED BY <2>2 DEF LogInv, LoopInv
<1>8. DoubtInv'
  <2> SUFFICES ASSUME NEW f \in inDoubt'
               PROVE  /\ status[f.txn] \in {"Aborting", "Aborted"}
                      /\ Follows(f.txn, f.idx)'
                      /\ \A g \in inDoubt' : g.txn = f.txn => g = f
    BY DEF DoubtInv
  <2>1. f \in inDoubt /\ f.txn \in Txns /\ f.idx \in Nat /\ f.txn # t
    BY DoubtTypes
  <2> QED BY <2>1 DEF LogInv, DoubtInv
<1>9. CommittedInFull'
  <2>1. \A u \in Txns : DOMAIN ops[u] \subseteq Nat
    BY SMT, OpsElement
  <2> QED BY SMT, <2>1 DEF LogInv, CommittedInFull
<1>10. UncommittedLeavesNothing'
  <2>1. type[t] # "ReadOnly"
    BY <1>2 DEF LogInv, UncommittedLeavesNothing
  <2> QED BY <2>1 DEF LogInv, UncommittedLeavesNothing
<1> QED BY <1>5, <1>6, <1>7, <1>8, <1>9, <1>10 DEF LogInv

-----------------------------------------------------------------------------
(* The theorems *)

(* NewTransactionManager establishes the inductive invariant.               *)
LEMMA IndInvInit == Init => IndInv
<1> SUFFICES ASSUME Init PROVE IndInv
  OBVIOUS
<1> USE DEF Init
<1>1. TypeOK
  BY SMT, NoReqType DEF TypeOK, Types, Statuses
<1>2. CallInv /\ SweepInv /\ OneCommitter /\ DOMAIN log = {}
  BY SMT DEF CallInv, SweepInv, OneCommitter
<1> USE <1>2
<1>3. EntryInv /\ LoopInv /\ DoubtInv
  BY DEF EntryInv, LoopInv, DoubtInv
<1>4. AppliedAsPrefix /\ CommittedInFull /\ UncommittedLeavesNothing /\ RemovedIsFinal
  BY DEF AppliedAsPrefix, CommittedInFull, UncommittedLeavesNothing, RemovedIsFinal
<1> QED BY <1>1, <1>3, <1>4 DEF IndInv

(* Every step of a handler, the cleanup, Shutdown or Raft keeps it.          *)
LEMMA IndInvStep == IndInv /\ [Next]_vars => IndInv'
<1> SUFFICES ASSUME IndInv, [Next]_vars PROVE IndInv'
  OBVIOUS
<1>0. LogInv /\ TypeOK /\ CallInv /\ SweepInv /\ LoopInv /\ RemovedIsFinal
  BY DEF IndInv, LogInv
<1> USE <1>0
<1>1. TypeOK' /\ CallInv'
  BY TypeStep
<1> USE <1>1
<1>2. SweepInv' /\ RemovedIsFinal'
  BY SweepStep
<1>3. LogInv'
  <2>1. ASSUME NEW p \in Procs, AddOperation(p) PROVE LogInv'
    BY <2>1, AddOperationStep
  <2>2. ASSUME NEW p \in Procs, CommitLocal(p) PROVE LogInv'
    BY <2>2, CommitLocalStep
  <2>3. ASSUME NEW p \in Procs, SkipRead(p) \/ ApplyOp(p) PROVE LogInv'
    BY <2>3, LoopStep
  <2>4. ASSUME NEW p \in Procs, ApplyOpFails(p) PROVE LogInv'
    BY <2>4, ApplyOpFailsStep
  <2>5. CASE Settle
    BY <2>5, SettleStep
  <2> QED
    BY <2>1, <2>2, <2>3, <2>4, <2>5, QuietActions DEF Next, Work
<1> QED BY <1>2, <1>3 DEF IndInv, LogInv

\* The transaction manager's invariants hold in every reachable state.
THEOREM Invariance == Spec => []IndInv
  BY IndInvInit, IndInvStep, PTL DEF Spec

\* Whatever requests, failures, cleanups and shutdowns do, the replicated log
\* holds of every transaction a prefix of its writes, in order and without
\* repetition (commitLocalTransaction).
THEOREM LogHoldsPrefixes == Spec => []AppliedAsPrefix
<1>1. IndInv => AppliedAsPrefix
  BY DEF IndInv
<1> QED BY <1>1, Invariance, PTL

\* A read-write transaction that Commit reported as committed has all of its
\* writes in the replicated log.
THEOREM CommitsAreComplete == Spec => []CommittedInFull
<1>1. IndInv => CommittedInFull
  BY DEF IndInv
<1> QED BY <1>1, Invariance, PTL

\* A pending, timed-out or read-only transaction has written nothing.
THEOREM NoWriteBeforeCommit == Spec => []UncommittedLeavesNothing
<1>1. IndInv => UncommittedLeavesNothing
  BY DEF IndInv
<1> QED BY <1>1, Invariance, PTL

\* The janitor removes only transactions that are committed or aborted.
THEOREM CleanupIsSafe == Spec => []RemovedIsFinal
<1>1. IndInv => RemovedIsFinal
  BY DEF IndInv
<1> QED BY <1>1, Invariance, PTL

\* Committed and aborted are final statuses.
THEOREM FinalityHolds == Spec => FinalStays
<1>1. IndInv /\ [Next]_vars => [\A t \in Txns : status[t] \in Final => status'[t] = status[t]]_vars
  BY StatusStep DEF IndInv, StatusMoves
<1> QED BY <1>1, Invariance, PTL DEF Spec, FinalStays

\* No request adds an operation to a transaction that has left Pending.
THEOREM OperationsFrozen == Spec => OpsFrozen
<1>1. ASSUME IndInv, Next, NEW t \in Txns, status[t] \notin {"None", "Pending"}
      PROVE  ops'[t] = ops[t]
  <2>1. CASE \E p \in Procs : AddOperation(p)
    BY SMT, <1>1, <2>1, OpsElement DEF AddOperation, IndInv
  <2>2. CASE UNCHANGED ops
    BY <2>2
  <2> QED
    BY <1>1, <2>1, <2>2
       DEF Next, Work, Janitor, Shutdown, Settle, Begin, TimePasses, Receive, SkipCommand,
           Lookup, ExecuteGet, CommitRejected, CommitTimedOut, CommitReadOnly, CommitLocal,
           SkipRead, ApplyOp, ApplyOpFails, CommitDone, AbortTransaction, CleanupCollect,
           CleanupAbort, CleanupDelete, CleanupStop, ShutdownClose, ShutdownCollect,
           ShutdownAbort, LateCommit, LateDrop, txnVars
<1>2. IndInv /\ [Next]_vars =>
        [\A t \in Txns : status[t] \notin {"None", "Pending"} => ops'[t] = ops[t]]_vars
  BY <1>1
<1> QED BY <1>2, Invariance, PTL DEF Spec, OpsFrozen

-----------------------------------------------------------------------------
(* Reads *)

\* What the backward scan of GetTransactionValueWithDatabase matches in the first
\* n operations of q.
Matches(q, n, db, key) ==
    {i \in 1 .. n : IsWrite(q[i]) /\ OpDatabase(q[i].db) = db /\ q[i].key = key}

\* The scan ends at a match if there is one.
Finds(q, n, db, key) ==
    Matches(q, n, db, key) # {} => MaxOf(Matches(q, n, db, key)) \in Matches(q, n, db, key)

\* What a read of q's first n operations returns.
Answer(v, q, n, db, key) ==
    Matches(q, n, db, key) # {} => v = ValueOf(q[MaxOf(Matches(q, n, db, key))])

\* Every scan ends, and a read was answered from a prefix of the operations.
ReadsInv ==
    /\ DOMAIN reads = Txns /\ reads = [t \in Txns |-> reads[t]]
    /\ \A t \in Txns : \A db, key : Finds(ops[t], Len(ops[t]), db, key)
    /\ \A t \in Txns : \A r \in reads[t] :
          /\ r.after \in 0 .. Len(ops[t])
          /\ Finds(ops[t], r.after, OpDatabase(r.db), r.key)
          /\ r.db # "" => Answer(r.value, ops[t], r.after, OpDatabase(r.db), r.key)

(* The scan looks at the operations of one transaction.                      *)
LEMMA ScanMatches ==
    ASSUME NEW t, NEW n, NEW db, NEW key
    PROVE  OwnWrites(t, n, db, key) = Matches(ops[t], n, db, key)
  BY DEF OwnWrites, Matches

(* What a read saw is still there when operations have been appended.        *)
LEMMA PrefixStays ==
    ASSUME NEW q, NEW w, NEW m \in Nat, NEW n \in 0 .. m, NEW db, NEW key, NEW v,
           \A i \in 1 .. m : w[i] = q[i], Finds(q, n, db, key)
    PROVE  /\ Finds(w, n, db, key)
           /\ Answer(v, q, n, db, key) => Answer(v, w, n, db, key)
<1>1. \A i \in 1 .. n : i \in 1 .. m
  BY SMT
<1>2. Matches(w, n, db, key) = Matches(q, n, db, key)
  BY <1>1 DEF Matches
<1>3. Matches(q, n, db, key) \subseteq 1 .. m
  BY <1>1 DEF Matches
<1> QED BY <1>2, <1>3 DEF Finds, Answer

(* An appended operation is the last match, or no match.                     *)
LEMMA AppendFinds ==
    ASSUME NEW q \in Seq(Command), NEW x \in Command, NEW db, NEW key,
           Finds(q, Len(q), db, key)
    PROVE  Finds(Append(q, x), Len(q) + 1, db, key)
<1> DEFINE w == Append(q, x)
           n == Len(q)
<1>1. n \in Nat /\ \A i \in 1 .. n : w[i] = q[i]
  BY SMT, AppendShape
<1> USE <1>1
<1>2. 1 .. (n + 1) = (1 .. n) \cup {n + 1} /\ n \in 0 .. n
  BY SMT
<1>3. Finds(w, n, db, key)
  BY <1>2, PrefixStays
<1> SUFFICES Finds(w, n + 1, db, key)
  BY SMT
<1> HIDE DEF w, n
<1>4. CASE n + 1 \in Matches(w, n + 1, db, key)
  <2>1. \A i \in Matches(w, n + 1, db, key) : i <= n + 1 /\ i \in Nat
    BY SMT DEF Matches
  <2> QED BY <1>4, <2>1 DEF Finds, MaxOf
<1>5. CASE n + 1 \notin Matches(w, n + 1, db, key)
  <2>1. Matches(w, n + 1, db, key) = Matches(w, n, db, key)
    BY <1>2, <1>5 DEF Matches
  <2> QED BY <1>3, <2>1 DEF Finds
<1> QED BY <1>4, <1>5

(* No step takes an operation back.                                         *)
LEMMA OpsGrow ==
    ASSUME IndInv, IndInv', [Next]_vars, NEW t \in Txns
    PROVE  /\ Len(ops[t]) \in Nat /\ Len(ops'[t]) \in Nat /\ Len(ops[t]) <= Len(ops'[t])
           /\ \A i \in 1 .. Len(ops[t]) : ops'[t][i] = ops[t][i]
           /\ ops'[t] = ops[t] \/ \E x \in Command : ops'[t] = Append(ops[t], x)
                                                  /\ Len(ops'[t]) = Len(ops[t]) + 1
<1>0. Len(ops[t]) \in Nat /\ Len(ops'[t]) \in Nat
  BY SMT, OpsElement DEF IndInv
<1> USE <1>0
<1>1. CASE \E p \in Procs : AddOperation(p)
  <2>1. ops \in [Txns -> Seq(Command)] /\ ops' \in [Txns -> Seq(Command)]
    BY DEF IndInv, TypeOK
  <2> USE <2>1
  <2>2. PICK p \in Procs : AddOperation(p)
    BY <1>1
  <2>3. CASE req[p].txn = t /\ status[t] = "Pending"
    <3>1. ops'[t] = Append(ops[t], OpFrom(p))
      BY <2>2, <2>3 DEF AddOperation
    <3>2. OpFrom(p) \in Command
      BY SMT, <3>1
    <3> QED BY SMT, <3>1, <3>2
  <2>4. CASE ~ (req[p].txn = t /\ status[t] = "Pending")
    <3>1. ops'[t] = ops[t]
      BY <2>2, <2>4 DEF AddOperation
    <3> QED BY SMT, <3>1
  <2> QED BY <2>3, <2>4
<1>2. CASE UNCHANGED ops
  BY SMT, <1>2
<1> QED
  BY <1>1, <1>2
     DEF Next, Work, Janitor, Shutdown, Settle, Begin, TimePasses, Receive, SkipCommand,
         Lookup, ExecuteGet, CommitRejected, CommitTimedOut, CommitReadOnly, CommitLocal,
         SkipRead, ApplyOp, ApplyOpFails, CommitDone, AbortTransaction, CleanupCollect,
         CleanupAbort, CleanupDelete, CleanupStop, ShutdownClose, ShutdownCollect,
         ShutdownAbort, LateCommit, LateDrop, txnVars, vars

(* Only ExecuteGet records a read, of the value its scan returned.           *)
LEMMA ReadsGrow ==
    ASSUME IndInv, ReadsInv, [Next]_vars
    PROVE  /\ DOMAIN reads' = Txns /\ reads' = [t \in Txns |-> reads'[t]]
           /\ \A t \in Txns : \A r \in reads'[t] :
                 \/ r \in reads[t]
                 \/ /\ r.after = Len(ops[t])
                    /\ Answer(r.value, ops[t], r.after, r.db, r.key)
<1>1. CASE \E p \in Procs : ExecuteGet(p)
  <2>1. PICK p \in Procs : ExecuteGet(p)
    BY <1>1
  <2> DEFINE t == req[p].txn
             cmd == Head(req[p].cmds)
             new == [db |-> cmd.db, key |-> cmd.key, value |-> ReadValue(p), after |-> Len(ops[t])]
  <2>2. t \in Txns
    BY <2>1 DEF ExecuteGet, Holds, IndInv, CallInv
  <2>3. reads' = [reads EXCEPT ![t] = @ \cup {new}]
    BY <2>1 DEF ExecuteGet
  <2>4. /\ new.after = Len(ops[t]) /\ new.db = cmd.db /\ new.key = cmd.key
        /\ new.value = ReadValue(p)
    OBVIOUS
  <2>5. Answer(ReadValue(p), ops[t], Len(ops[t]), cmd.db, cmd.key)
    BY ScanMatches DEF ReadValue, GetTransactionValueWithDatabase, Answer
  <2> HIDE DEF new
  <2>6. /\ DOMAIN reads' = Txns /\ reads' = [u \in Txns |-> reads'[u]]
        /\ reads'[t] = reads[t] \cup {new} /\ \A u \in Txns : u # t => reads'[u] = reads[u]
    BY <2>2, <2>3 DEF ReadsInv
  <2>7. Answer(new.value, ops[t], new.after, new.db, new.key) /\ new.after = Len(ops[t])
    BY <2>4, <2>5
  <2> HIDE DEF t
  <2> QED BY <2>6, <2>7
<1>2. CASE UNCHANGED reads
  BY <1>2 DEF ReadsInv
<1> QED
  BY <1>1, <1>2
     DEF Next, Work, Janitor, Shutdown, Settle, Begin, TimePasses, Receive, SkipCommand,
         Lookup, AddOperation, CommitRejected, CommitTimedOut, CommitReadOnly, CommitLocal,
         SkipRead, ApplyOp, ApplyOpFails, CommitDone, AbortTransaction, CleanupCollect,
         CleanupAbort, CleanupDelete, CleanupStop, ShutdownClose, ShutdownCollect,
         ShutdownAbort, LateCommit, LateDrop, vars

(* Every step keeps what the reads returned in line with the writes.         *)
LEMMA ReadsStep ==
    ASSUME IndInv, IndInv', ReadsInv, [Next]_vars
    PROVE  ReadsInv'
<1>0. \A m, k \in Nat : m \in 0 .. m /\ \A n \in 0 .. m : m <= k => n \in 0 .. k
  BY SMT
<1>1. ASSUME NEW t \in Txns, NEW db, NEW key
      PROVE  Finds(ops'[t], Len(ops'[t]), db, key)
  <2>1. Finds(ops[t], Len(ops[t]), db, key) /\ ops[t] \in Seq(Command)
    BY DEF ReadsInv, IndInv, TypeOK
  <2> QED BY <2>1, OpsGrow, AppendFinds
<1>2. ASSUME NEW t \in Txns, NEW r \in reads'[t]
      PROVE  /\ r.after \in 0 .. Len(ops'[t])
             /\ Finds(ops'[t], r.after, OpDatabase(r.db), r.key)
             /\ r.db # "" => Answer(r.value, ops'[t], r.after, OpDatabase(r.db), r.key)
  <2>1. /\ r.after \in 0 .. Len(ops[t])
        /\ Finds(ops[t], r.after, OpDatabase(r.db), r.key)
        /\ r.db # "" => Answer(r.value, ops[t], r.after, OpDatabase(r.db), r.key)
    <3>1. CASE r \in reads[t]
      BY <3>1 DEF ReadsInv
    <3>2. CASE r.after = Len(ops[t]) /\ Answer(r.value, ops[t], r.after, r.db, r.key)
      <4> USE <3>2
      <4>1. r.after \in 0 .. Len(ops[t])
        BY <1>0, OpsGrow
      <4>2. Finds(ops[t], r.after, OpDatabase(r.db), r.key)
        BY DEF ReadsInv
      <4>3. r.db # "" => OpDatabase(r.db) = r.db
        BY DEF OpDatabase
      <4> QED BY <4>1, <4>2, <4>3
    <3>3. \/ r \in reads[t]
          \/ r.after = Len(ops[t]) /\ Answer(r.value, ops[t], r.after, r.db, r.key)
      BY <1>2, ReadsGrow
    <3> QED BY <3>1, <3>2, <3>3
  <2>2. /\ Len(ops[t]) \in Nat /\ r.after \in 0 .. Len(ops'[t])
        /\ \A i \in 1 .. Len(ops[t]) : ops'[t][i] = ops[t][i]
    BY <1>0, <2>1, OpsGrow
  <2> QED BY <2>1, <2>2, PrefixStays
<1> QED BY <1>1, <1>2, ReadsGrow DEF ReadsInv

\* A read of a transaction that names its database returns what the same
\* transaction last wrote to the key before it, and no later operation of the
\* transaction, of another one or of Raft changes that
\* (GetTransactionValueWithDatabase).
THEOREM ReadsSeeOwnWrites == Spec => []ReadsOwnWrites
<1>1. Init => ReadsInv
  <2>1. Init => \A t \in Txns : \A db, key : Matches(ops[t], Len(ops[t]), db, key) = {}
    BY SMT DEF Init, Matches
  <2> QED BY <2>1 DEF Init, ReadsInv, Finds
<1>2. IndInv /\ IndInv' /\ ReadsInv /\ [Next]_vars => ReadsInv'
  BY ReadsStep
<1>3. ReadsInv => ReadsOwnWrites
  BY ScanMatches DEF ReadsInv, ReadsOwnWrites, Answer
<1> QED BY <1>1, <1>2, <1>3, Invariance, PTL DEF Spec
===============================================================================
