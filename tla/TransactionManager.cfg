SPECIFICATION Spec
CONSTANTS
    Txns = {t1}
    Procs = {p1, p2}
    Batches <- OneTxnBatches
    Databases = {"default"}
    Keys = {"k"}
    Values = {"v"}
    MaxOps = 3
    NoVal = NoVal
    NoTxn = NoTxn
SYMMETRY Symmetry
INVARIANTS AppliedAsPrefix CommittedInFull UncommittedLeavesNothing RemovedIsFinal ReadsOwnWrites
