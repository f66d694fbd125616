SPECIFICATION Spec
CONSTANTS
    u1 = u1  u2 = u2  c1 = c1  c2 = c2  c3 = c3
    None = None
    Users = {u1, u2}
    Clients = {c1, c2, c3}
    maxSize = 1
    minSize = 1
    MaxSent = 4
    MaxTroubles = 1
SYMMETRY Symmetry
CHECK_DEADLOCK FALSE
INVARIANTS
    OneOwner
    SizeCountsClients
    
    
