SPECIFICATION Spec
CONSTANTS
    Nodes = {n1, n2}
    Keys = {k1}
    Values = {v1}
    TTLs <- SomeTTLs
    MaxLog = 2
    MaxTime = 2
    MaxRestarts = 1
    NoValue = NoValue
    NoTime = NoTime
    NoKey = NoKey
CHECK_DEADLOCK FALSE
INVARIANTS NodesAgree
