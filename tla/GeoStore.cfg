SPECIFICATION Spec
CONSTANTS
    n1 = n1  n2 = n2  p1 = p1  p2 = p2
    m1 = m1  m2 = m2  east = east  west = west  tag = tag
    None = None
    Nodes = {n1, n2}
    Procs = {p1, p2}
    Members = {m1, m2}
    Positions = {east, west}
    Metas = {tag}
    NShards = 2
    ShardOf <- Shards
    Batches <- Lists
    MaxReqs = 2
    MaxTroubles = 1
SYMMETRY Symmetry
CHECK_DEADLOCK FALSE
INVARIANTS
    
    IndexCountsMembers
