-------------------------- MODULE MCReplicatedStore --------------------------
(* Small instances of ReplicatedStore for TLC.                              *)
EXTENDS ReplicatedStore, TLC

(* No TTL, and one second.                                                  *)
SomeTTLs == {0, 1}

Symmetry == Permutations(Nodes) \cup Permutations(Keys) \cup Permutations(Values)
=============================================================================
