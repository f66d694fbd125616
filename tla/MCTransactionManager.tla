------------------------ MODULE MCTransactionManager ------------------------
(* Instances of TransactionManager for TLC. *)
EXTENDS TransactionManager, TLC

SetK    == [type |-> "set",    db |-> "default", key |-> "k", value |-> "v"]
DeleteK == [type |-> "delete", db |-> "default", key |-> "k", value |-> NoVal]
GetK    == [type |-> "get",    db |-> "default", key |-> "k", value |-> NoVal]

\* Every kind of command, in lists of up to two.
OneTxnBatches == {<< >>, <<SetK>>, <<GetK, SetK>>, <<DeleteK, GetK>>}

\* Commit and rollback without commands, and a write.
WriteBatches == {<< >>, <<SetK>>}

Symmetry == Permutations(Procs) \cup Permutations(Txns)

=============================================================================
