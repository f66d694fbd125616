------------------------------ MODULE MCGeoStore ------------------------------
EXTENDS GeoStore, TLC

CONSTANTS n1, n2, p1, p2, m1, m2, east, west, tag

Shards == (m1 :> 1) @@ (m2 :> 2)
Add(m, pos, md) == [member |-> m, pos |-> pos, meta |-> md]
Lists == { <<Add(m1, west, tag), Add(m1, east, None)>>,
           <<Add(m1, west, None), Add(m2, west, None)>> }
Symmetry == Permutations({n1, n2}) \cup Permutations({p1, p2})
=============================================================================
