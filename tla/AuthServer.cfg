SPECIFICATION Spec
CONSTANTS
    c1 = c1  c2 = c2  root = root  ann = ann  pw1 = pw1  pw2 = pw2  d1 = d1  d2 = d2
    None = None
    Conns = {c1, c2}
    Procs = {c1, c2}
    maxConns = 1
    MaxStarts = 2
    Users = {root, ann}
    Databases = {d1, d2}
    Passwords = {pw1, pw2}
    Roles = {"superadmin", "admin", "readonly"}
    PermSets = {{"read"}, {"all"}}
    SuperAdminUser = root
    SuperAdminPass = pw1
    MaxTroubles = 1
    Requests <- AllRequests
    MaxRequests = 2
CHECK_DEADLOCK FALSE
INVARIANTS
    TableMatchesConnections
    
    
PROPERTIES
    
    StopDrains
