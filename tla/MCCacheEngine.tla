---------------------------- MODULE MCCacheEngine ----------------------------
(* A small instance of CacheEngine for TLC.                                 *)
EXTENDS CacheEngine, TLC

CONSTANTS k1, k2, default, users

(* Two shards, [0, 1] and [1, 3]: one key on the common border, one beyond. *)
BorderHash == k1 :> 1 @@ k2 :> 3

(* Everything on the users database, and a drop of the built-in one.        *)
SomeRequests ==
    {r \in WellFormed : r.db = users}
        \cup {[kind |-> "drop", db |-> default, key |-> NoKey]}

Symmetry == Permutations(Procs)
=============================================================================
