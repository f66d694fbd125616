SPECIFICATION Spec
CONSTANTS
    Keys = {k1}
    Values = {v1}
    TTLs <- SecondTTLs
    TPS = 2
    InMemory = FALSE
    LastSet = 3
    MaxTime = 7
    MaxLazy = 1
    MaxRestarts = 0
    NoValue = NoValue
    NoTime = NoTime
    NoKey = NoKey
INVARIANTS LiveKept
