SPECIFICATION FairSpec
CONSTANTS
    Keys = {k1, k2}
    Values = {v1}
    TTLs <- SecondTTLs
    TPS = 2
    InMemory = FALSE
    LastSet = 3
    MaxTime = 7
    MaxLazy = 1
    MaxRestarts = 1
    NoValue = NoValue
    NoTime = NoTime
    NoKey = NoKey
INVARIANTS ServedAsPromised SafeWritesKept
PROPERTIES ExpiredRemoved
