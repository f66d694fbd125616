------------------------------- MODULE MCServices -------------------------------
(* The instance of Services for TLC. *)
EXTENDS Services

\* Two keys of one shard, in two databases that share a key's name.
MCItems == {<<"db1", "bk1">>, <<"db1", "bk2">>, <<"db2", "bk1">>}
MCShardOf == [k \in BatchKeys |-> 0]

\* A first wheel whose interval is longer than the clock's step, and a second one.
MCWheelShape == <<[slots |-> 3, interval |-> 2], [slots |-> 2, interval |-> 6]>>

=============================================================================
