----------------------------- MODULE MCCacheShard -----------------------------
(* Small instances of CacheShard for TLC.                                   *)
EXTENDS CacheShard, TLC

(* Two ticks to a second: no TTL, one second.                               *)
SecondTTLs == {0, 2}
=============================================================================
