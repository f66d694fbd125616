SPECIFICATION Spec
CONSTANTS
    Procs = {p1, p2}
    default = default
    users = users
    Databases = {default, users}
    Builtin = {default}
    k1 = k1
    k2 = k2
    Keys = {k1, k2}
    Hash <- BorderHash
    Requests <- SomeRequests
    MaxHash = 3
    ShardCount = 2
    MaxGens = 4
    MaxFaults = 1
    NoKey = NoKey
CHECK_DEADLOCK FALSE
SYMMETRY Symmetry
INVARIANTS HandlesAccounted StaleNeverServed CountInRange
