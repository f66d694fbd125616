SPECIFICATION Spec
CONSTANTS
    Callers = {c1, c2, c3}
    FailureThreshold = 2
    SuccessThreshold = 2
    OpenTimeout = 1
    MaxFailures = 4
    Requesters = {r1, r2}
    Clients = {cl1}
    MaxRate = 1
    BurstSize = 2
    IdleLimit = 2
    MaxBuckets = 2
    LimiterTime = 6
    Writers = {w1, w2}
    VersionedKeys = {k1}
    GCThreshold = 1
    MaxClock = 4
    TxnCallers = {t1, t2}
    Participants = {p1, p2}
    WheelKeys = {h1, h2}
    WheelTTLs = {1, 3, 7}
    MaxEntries = 2
    WheelShape <- MCWheelShape
    WheelTime = 8
    BatchCallers = {b1}
    BatchDatabases = {"db1", "db2"}
    Items <- MCItems
    MaxBatches = 2
    BatchKeys = {"bk1", "bk2"}
    ShardOf <- MCShardOf
    Sessions = {s1, s2, s3}
    MaxConcurrentSyncs = 2
    MaxHistory = 2
    Chunks = 1
    SnapKeys = {sk1, sk2}
    SnapValues = {sv1}
    MaxChanges = 3
    Recoverers = {e1, e2, e3}
    MaxAttempts = 2
    Backoff = 1
    MaxGenerations = 2
    Node = {n1, n2}
    Boot = n1
    MaxElections = 2
    MaxRestarts = 1
    MaxLog = 3
    Writes = {x1}
    MaxHops = 2
    TxUsers = {u1, u2}
    TxKeys = {tk1, tk2}
    MaxTxTimeouts = 1
INVARIANTS LockIsFreed CountsBelowThresholds RateHolds WheelOnTime BatchAnswersBacked  StoreWasApplied  ForwardedOnce  EndingsAreTrue
PROPERTIES ReadsMoveByCommit ImplementsAtomicCommit
CHECK_DEADLOCK FALSE
