-------------------------------- MODULE MVCCStore --------------------------------
(***************************************************************************)
(* MVCCStore of transaction/mvcc.go: a chain of versions per key.  Write and *)
(* Delete take a version from the clock, find or make the key's chain under *)
(* ms.mu, and append under the chain's lock, three steps between which      *)
(* other writers and GC run: versions may enter a chain out of order, and   *)
(* GC may drop a chain that a writer holds and has not appended to yet.     *)
(***************************************************************************)
EXTENDS Integers, Sequences, FiniteSets, FiniteSetsExt

CONSTANTS
    Writers, VersionedKeys,
    GCThreshold,    \* ms.gcThreshold (100 in the code)
    MaxClock        \* bound: versions given out

ASSUME MVCCAssumption == GCThreshold \in Nat /\ MaxClock \in Nat

VARIABLES
    clock,      \* ms.clock
    chains,     \* the keys of ms.versions
    chain,      \* the versions of each chain; empty for keys without one
    writer      \* the version each writer works on

mvccVars == <<clock, chains, chain, writer>>

Idle == [at |-> "idle"]

MVCCInit ==
    /\ clock = 0 /\ chains = {}
    /\ chain = [k \in VersionedKeys |-> << >>]
    /\ writer = [w \in Writers |-> Idle]

-----------------------------------------------------------------------------

(* Write and Delete, first clock.Tick ...                                   *)
TickVersion(w, k, deleted) ==
    /\ writer[w] = Idle
    /\ clock < MaxClock
    /\ clock' = clock + 1
    /\ writer' = [writer EXCEPT ![w] = [at |-> "find", key |-> k, version |-> clock + 1,
                                        deleted |-> deleted, orphan |-> FALSE]]
    /\ UNCHANGED <<chains, chain>>

Write(w, k) == TickVersion(w, k, FALSE)
Delete(w, k) == TickVersion(w, k, TRUE)

(* ... then the chain, made if the key has none ...                         *)
FindChain(w) ==
    /\ writer[w].at = "find"
    /\ chains' = chains \cup {writer[w].key}
    /\ writer' = [writer EXCEPT ![w].at = "append"]
    /\ UNCHANGED <<clock, chain>>

(* ... then the append, lost if GC has dropped the chain.                   *)
AppendVersion(w) ==
    LET x == writer[w]
        v == [version |-> x.version, deleted |-> x.deleted, committed |-> FALSE]
    IN  /\ x.at = "append"
        /\ chain' = IF x.orphan THEN chain ELSE [chain EXCEPT ![x.key] = Append(@, v)]
        /\ writer' = [writer EXCEPT ![w].at = "open"]
        /\ UNCHANGED <<clock, chains>>

Finish(w) == writer' = [writer EXCEPT ![w] = Idle] /\ UNCHANGED <<clock, chains>>

(* Commit; a version that is not in the chain is an error.                  *)
CommitVersion(w) ==
    LET x == writer[w]
    IN  /\ x.at = "open"
        /\ chain' = [chain EXCEPT ![x.key] =
                [i \in DOMAIN @ |-> IF @[i].version = x.version
                                    THEN [@[i] EXCEPT !.committed = TRUE] ELSE @[i]]]
        /\ Finish(w)

(* The entries of s at the places in K, in their order: the n-th of them is *)
(* the one with n places of K up to it.                                     *)
Nth(K, n) == CHOOSE i \in K : Cardinality({j \in K : j <= i}) = n
Filter(s, K) == [n \in 1..Cardinality(K) |-> s[Nth(K, n)]]

(* Abort takes the version out of the chain.                                *)
AbortVersion(w) ==
    LET x == writer[w]
    IN  /\ x.at = "open"
        /\ chain' = [chain EXCEPT ![x.key] =
                Filter(@, {i \in DOMAIN @ : @[i].version # x.version})]
        /\ Finish(w)

(* What GC keeps of a chain: the uncommitted versions, those at or above    *)
(* the threshold, and the last committed one.                               *)
KeptByAge(s, i) == ~s[i].committed \/ s[i].version >= clock - GCThreshold

Kept(s, i) ==
    \/ ~s[i].committed
    \/ s[i].version >= clock - GCThreshold
    \/ \A j \in (i + 1)..Len(s) : ~s[j].committed

(* GC of one chain, which it takes out of the map when nothing is left; a   *)
(* writer about to append keeps its pointer to the dropped chain.           *)
GC(k) ==
    LET s == chain[k]
        left == Filter(s, {i \in DOMAIN s : Kept(s, i)})
    IN  /\ k \in chains
        /\ chain' = [chain EXCEPT ![k] = left]
        /\ IF left # << >> THEN UNCHANGED <<chains, writer>>
           ELSE /\ chains' = chains \ {k}
                /\ writer' = [w \in Writers |->
                       IF writer[w].at = "append" /\ writer[w].key = k
                       THEN [writer[w] EXCEPT !.orphan = TRUE] ELSE writer[w]]
        /\ UNCHANGED clock

MVCCNext ==
    \/ \E w \in Writers :
          \/ \E k \in VersionedKeys : Write(w, k) \/ Delete(w, k)
          \/ FindChain(w) \/ AppendVersion(w) \/ CommitVersion(w) \/ AbortVersion(w)
    \/ \E k \in VersionedKeys : GC(k)

MVCCSpec == MVCCInit /\ [][MVCCNext]_mvccVars

-----------------------------------------------------------------------------

(* Read: the committed version nearest the end of the chain that is not     *)
(* newer than asked for, 0 if there is none.                                *)
Read(k, v) ==
    LET hits == {i \in DOMAIN chain[k] : chain[k][i].version <= v /\ chain[k][i].committed}
    IN  IF hits = {} THEN 0 ELSE chain[k][Max(hits)].version

(* What a read of the present sees changes only when a version that was     *)
(* uncommitted is committed: an append, an abort of another version and GC  *)
(* never show, hide or bring back a version (Read with CreateSnapshot's     *)
(* version, against Write, Abort and GC).                                   *)
ReadsMoveByCommit ==
    [][\A k \in VersionedKeys :
          Read(k, clock)' # Read(k, clock)
            => \E i \in DOMAIN chain[k] : /\ chain[k][i].version = Read(k, clock)'
                                          /\ ~chain[k][i].committed]_mvccVars

=============================================================================
