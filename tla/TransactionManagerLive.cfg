SPECIFICATION FairSpec
CONSTANTS
    Txns = {t1}
    Procs = {p1, p2}
    Batches <- WriteBatches
    Databases = {"default"}
    Keys = {"k"}
    Values = {"v"}
    MaxOps = 1
    NoVal = NoVal
    NoTxn = NoTxn
PROPERTIES ExpiredRemoved RequestsReturn
