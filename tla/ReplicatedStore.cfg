SPECIFICATION Spec
CONSTANTS
    Nodes = {n1, n2}
    Keys = {k1}
    Values = {v1, v2}
    TTLs <- SomeTTLs
    MaxLog = 2
    MaxTime = 2
    MaxRestarts = 2
    NoValue = NoValue
    NoTime = NoTime
    NoKey = NoKey
CHECK_DEADLOCK FALSE
SYMMETRY Symmetry
INVARIANTS StoreReflectsLog  OnlyTtlKeysDeleted
