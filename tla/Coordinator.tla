------------------------------- MODULE Coordinator -------------------------------
(***************************************************************************)
(* The two-phase commit of transaction/coordinator.go on one distributed    *)
(* transaction, with the calls of transaction/manager.go that meet it: tm's *)
(* own Commit and AbortTransaction and the cleanup of expired transactions. *)
(* The calls interleave between their uses of txn.mu.  The participants are *)
(* the code's simulated ones: every answer is a success, in any order, or   *)
(* late, so that the caller's context is done first.  txn.LockSet is never  *)
(* filled, so releaseLocks changes nothing; nobody waits on txn.ctx.        *)
(***************************************************************************)
EXTENDS Integers, FiniteSets

CONSTANTS TxnCallers, Participants

ASSUME CoordinatorAssumption ==
    /\ IsFiniteSet(Participants) /\ Cardinality(Participants) \in Nat
    /\ "free" \notin TxnCallers

VARIABLES
    txn,        \* the Transaction, and whether tm.transactions holds it
    mu,         \* the holder of txn.mu, or "free"
    expired,    \* StartTime is more than Timeout ago
    call,       \* where each caller is in its call
    cancelled   \* the callers whose ctx is done

coordinatorVars == <<txn, mu, expired, call, cancelled>>

Final == {"committed", "aborted"}
Ops == {"prepare", "commit", "abort", "tmCommit", "tmAbort", "cleanup"}
Returned == [op |-> "none", at |-> "idle", waiting |-> {}, left |-> 0]

CoordinatorInit ==
    /\ txn = [exists |-> FALSE, status |-> "none", prepared |-> {}, committed |-> {}]
    /\ mu = "free" /\ expired = FALSE
    /\ call = [c \in TxnCallers |-> Returned] /\ cancelled = {}

Calls == [op : Ops \cup {"none"},
          at : {"idle", "tmCommit", "prepare", "preparing", "commit", "committing",
                "abort", "aborting", "tmAbort", "delete"},
          waiting : SUBSET Participants, left : Nat]

CoordinatorTypeOK ==
    /\ txn \in [exists : BOOLEAN,
                status : {"none", "pending", "preparing", "prepared", "committing",
                          "committed", "aborting", "aborted", "timeout"},
                prepared : SUBSET Participants, committed : SUBSET Participants]
    /\ mu \in TxnCallers \cup {"free"} /\ expired \in BOOLEAN
    /\ call \in [TxnCallers -> Calls]
    /\ cancelled \subseteq TxnCallers

Goto(c, at) == call' = [call EXCEPT ![c].at = at] /\ UNCHANGED cancelled
Return(c) == call' = [call EXCEPT ![c] = Returned] /\ cancelled' = cancelled \ {c}
Gather(c, at) ==
    /\ call' = [call EXCEPT ![c].at = at, ![c].waiting = Participants,
                            ![c].left = Cardinality(Participants)]
    /\ UNCHANGED cancelled

-----------------------------------------------------------------------------

(* StartTransaction: Begin, then the participants.                          *)
StartTransaction ==
    /\ txn.status = "none"
    /\ txn' = [txn EXCEPT !.exists = TRUE, !.status = "pending"]
    /\ UNCHANGED <<mu, expired, call, cancelled>>

Expire ==
    /\ txn.status # "none" /\ ~expired /\ expired' = TRUE
    /\ UNCHANGED <<txn, mu, call, cancelled>>

CancelContext(c) ==
    /\ call[c].at # "idle"
    /\ cancelled' = cancelled \cup {c}
    /\ UNCHANGED <<txn, mu, expired, call>>

(* Every call starts by looking the transaction up in tm.transactions; the  *)
(* cleanup is one goroutine and takes expired transactions only.            *)
StartCall(c, op) ==
    /\ call[c].at = "idle" /\ txn.exists
    /\ op = "cleanup" => expired /\ \A d \in TxnCallers : call[d].op # "cleanup"
    /\ call' = [call EXCEPT ![c].op = op,
                            ![c].at = CASE op \in {"prepare", "commit"} -> "prepare"
                                        [] op \in {"tmAbort", "cleanup"} -> "tmAbort"
                                        [] OTHER -> op]
    /\ UNCHANGED <<txn, mu, expired, cancelled>>

(* TransactionManager.Commit up to coordinator.Commit, which it calls with  *)
(* txn.mu held.                                                             *)
TMCommit(c) ==
    /\ call[c].at = "tmCommit" /\ mu = "free"
    /\ \/ txn.status # "pending" /\ Return(c) /\ UNCHANGED <<txn, mu>>
       \/ /\ txn.status = "pending" /\ expired
          /\ txn' = [txn EXCEPT !.status = "timeout"]
          /\ Return(c) /\ UNCHANGED mu
       \/ /\ txn.status = "pending" /\ ~expired
          /\ mu' = c /\ Goto(c, "prepare") /\ UNCHANGED txn
    /\ UNCHANGED expired

(* A failed prepare ends a call of PrepareTransaction; Commit goes on to    *)
(* abort the transaction.                                                   *)
PrepareFailed(c) == IF call[c].op = "prepare" THEN Return(c) ELSE Goto(c, "abort")

PrepareTransaction(c) ==
    /\ call[c].at = "prepare" /\ mu = "free"
    /\ \/ txn.status # "pending" /\ PrepareFailed(c) /\ UNCHANGED <<txn, mu>>
       \/ /\ txn.status = "pending"
          /\ txn' = [txn EXCEPT !.status = "preparing"]
          /\ mu' = c /\ Gather(c, "preparing")
    /\ UNCHANGED expired

(* One answer of the prepare phase.                                         *)
CollectPrepare(c, p) ==
    /\ call[c].at = "preparing" /\ p \in call[c].waiting
    /\ txn' = [txn EXCEPT !.prepared = @ \cup {p}]
    /\ call' = [call EXCEPT ![c].waiting = @ \ {p}]
    /\ UNCHANGED <<mu, expired, cancelled>>

(* ctx.Done in the prepare phase: the status stays Preparing.               *)
PrepareTimeoutKeepsLock(c) ==
    /\ call[c].at = "preparing" /\ call[c].waiting # {} /\ c \in cancelled
    /\ PrepareFailed(c)
    /\ UNCHANGED <<txn, expired, mu>>

PrepareTimeout(c) ==
    /\ call[c].at = "preparing" /\ call[c].waiting # {} /\ c \in cancelled
    /\ mu' = "free" /\ PrepareFailed(c)
    /\ UNCHANGED <<txn, expired>>

PrepareDone(c) ==
    /\ call[c].at = "preparing" /\ call[c].waiting = {}
    /\ txn' = [txn EXCEPT !.status = "prepared"]
    /\ mu' = "free"
    /\ IF call[c].op = "prepare" THEN Return(c) ELSE Goto(c, "commit")
    /\ UNCHANGED expired

(* Commit looks the transaction up and locks it again: in between it may    *)
(* have been aborted, or aborted and deleted.                               *)
CommitPhaseUnchecked(c) ==
    /\ call[c].at = "commit" /\ mu = "free"
    /\ txn' = [txn EXCEPT !.status = "committing"]
    /\ mu' = c /\ Gather(c, "committing")
    /\ UNCHANGED expired

CommitPhase(c) ==
    /\ call[c].at = "commit" /\ mu = "free"
    /\ \/ ~(txn.exists /\ txn.status = "prepared") /\ Return(c) /\ UNCHANGED <<txn, mu>>
       \/ /\ txn.exists /\ txn.status = "prepared"
          /\ txn' = [txn EXCEPT !.status = "committing"]
          /\ mu' = c /\ Gather(c, "committing")
    /\ UNCHANGED expired

(* One turn of the commit phase's loop: an answer, or ctx.Done, which only  *)
(* uses the turn up.                                                        *)
CollectCommit(c) ==
    /\ call[c].at = "committing" /\ call[c].left > 0
    /\ \/ \E p \in call[c].waiting :
             /\ txn' = [txn EXCEPT !.committed = @ \cup {p}]
             /\ call' = [call EXCEPT ![c].waiting = call[c].waiting \ {p},
                                     ![c].left = call[c].left - 1]
       \/ /\ c \in cancelled
          /\ call' = [call EXCEPT ![c].left = call[c].left - 1] /\ UNCHANGED txn
    /\ UNCHANGED <<mu, expired, cancelled>>

CommitDone(c) ==
    /\ call[c].at = "committing" /\ call[c].left = 0
    /\ txn' = [txn EXCEPT !.status = IF call[c].waiting = {} THEN "committed" ELSE "aborted"]
    /\ mu' = "free" /\ Return(c)
    /\ UNCHANGED expired

(* CoordinatorImpl.AbortTransaction, and the end of its round: an answer or *)
(* a timeout for each participant.                                          *)
CoordinatorAbort(c) ==
    /\ call[c].at = "abort" /\ mu = "free"
    /\ \/ (~txn.exists \/ txn.status \in Final) /\ Return(c) /\ UNCHANGED <<txn, mu>>
       \/ /\ txn.exists /\ txn.status \notin Final
          /\ txn' = [txn EXCEPT !.status = "aborting"]
          /\ mu' = c /\ Goto(c, "aborting")
    /\ UNCHANGED expired

AbortDone(c) ==
    /\ call[c].at = "aborting"
    /\ txn' = [txn EXCEPT !.status = "aborted"]
    /\ mu' = "free" /\ Return(c)
    /\ UNCHANGED expired

(* TransactionManager.AbortTransaction; the cleanup deletes the transaction *)
(* next, whatever the abort returned.                                       *)
TMAbort(c) ==
    /\ call[c].at = "tmAbort" /\ mu = "free"
    /\ txn' = [txn EXCEPT !.status = IF @ \in Final THEN @ ELSE "aborted"]
    /\ IF call[c].op = "cleanup" THEN Goto(c, "delete") ELSE Return(c)
    /\ UNCHANGED <<mu, expired>>

DeleteExpired(c) ==
    /\ call[c].at = "delete"
    /\ txn' = [txn EXCEPT !.exists = FALSE]
    /\ Return(c) /\ UNCHANGED <<mu, expired>>

CallStep(c) ==
    \/ TMCommit(c) \/ PrepareTransaction(c) \/ PrepareTimeout(c) \/ PrepareDone(c)
    \/ \E p \in Participants : CollectPrepare(c, p)
    \/ CommitPhase(c) \/ CollectCommit(c) \/ CommitDone(c)
    \/ CoordinatorAbort(c) \/ AbortDone(c) \/ TMAbort(c) \/ DeleteExpired(c)

CoordinatorNext ==
    \/ StartTransaction \/ Expire
    \/ \E c \in TxnCallers :
          CallStep(c) \/ CancelContext(c) \/ \E op \in Ops : StartCall(c, op)

CoordinatorSpec == CoordinatorInit /\ [][CoordinatorNext]_coordinatorVars

-----------------------------------------------------------------------------

(* The decision a caller can see: only Committed and Aborted are final.     *)
Decision == IF txn.status \in Final THEN txn.status ELSE "open"

Promise == INSTANCE AtomicCommit WITH agreed <- txn.prepared, decision <- Decision

(* The two-phase commit implements AtomicCommit, however PrepareTransaction, *)
(* Commit, the aborts of coordinator.go and manager.go and the cleanup       *)
(* interleave: a transaction is committed only when every participant is     *)
(* prepared, and what was decided stands.                                    *)
ImplementsAtomicCommit == Promise!AtomicCommitSpec

(* The one way a call hangs: TransactionManager.Commit holds txn.mu when it *)
(* calls coordinator.Commit, whose PrepareTransaction locks it again.       *)
WaitsOnItself(c) == call[c].op = "tmCommit" /\ call[c].at = "prepare" /\ mu = c

(* The calls that collect answers, with txn.mu held.                        *)
Holds(c) == call[c].at \in {"preparing", "committing", "aborting"}

(* txn.mu is held by at most the call that collects answers, in the status  *)
(* of its phase, from where it goes on to free the lock: no path but        *)
(* TransactionManager.Commit on a distributed transaction leaves the lock   *)
(* held for ever (the unlocks of coordinator.go and manager.go).            *)
LockIsFreed ==
    /\ \A c \in TxnCallers : Holds(c) => mu = c /\ txn.status = call[c].at
    /\ mu # "free" => Holds(mu) \/ WaitsOnItself(mu)

(* The inductive invariant of ClusterProofs: what the two properties        *)
(* need besides themselves is that a call knows who has not answered, and   *)
(* that nobody but the holder moves the status out of the prepare phase.    *)
CoordinatorInv ==
    /\ CoordinatorTypeOK /\ LockIsFreed
    /\ txn.status \in {"prepared", "committing", "committed"} => txn.prepared = Participants
    /\ \A c \in TxnCallers : call[c].at = "tmCommit" => call[c].op = "tmCommit"
    /\ \A c \in TxnCallers :
          call[c].at = "preparing" => Participants \ call[c].waiting \subseteq txn.prepared

=============================================================================
