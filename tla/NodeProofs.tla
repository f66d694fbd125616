------------------------------- MODULE NodeProofs -------------------------------
(***************************************************************************)
(* Proofs about a node's replicated state, for any value of the constants:  *)
(* the FSM, the log and the cache behind it (ReplicatedStore), the recovery *)
(* of errors, snapshots, and the synchronisation of joining nodes.          *)
(***************************************************************************)
EXTENDS ReplicatedStore, ErrorRecovery, SnapshotManager, DataSync, TLAPS

\* Leaves that name no prover are for Zenon.
USE Zenon

-----------------------------------------------------------------------------
(* ReplicatedStore.  FSMs agree with the log and with each other, local     *)
(* reads catch up after a restart, and only keys that had a TTL are deleted *)
(* by reads.                                                                *)

(* The elements of the log are commands.                                    *)
LEMMA LogElements ==
    ASSUME TypeOK, NEW j \in 1..Len(log)
    PROVE  /\ log[j] \in Command
           /\ log[j].key \in Keys \cup {NoKey} /\ log[j].val \in Values \cup {NoValue}
           /\ log[j].ttl \in Nat
           /\ log[j].op \in {"set", "delete", "other"}
           /\ log[j].op = "other" => log[j].key = NoKey
           /\ log[j].op # "other" => log[j].key \in Keys
  <1>1. log[j] \in Command
    BY SMT DEF TypeOK
  <1> USE <1>1
  <1>2. PICK c : c = log[j]
    OBVIOUS
  <1> USE <1>2
  <1>3. CASE c \in [op : {"set"}, key : Keys, val : Values, ttl : TTLs, async : {FALSE}]
    BY <1>3, BoundAssumption
  <1>4. CASE c \in [op : {"delete"}, key : Keys, val : {NoValue}, ttl : {0}, async : BOOLEAN]
    BY SMT, <1>4
  <1>5. CASE c \in [op : {"other"}, key : {NoKey}, val : {NoValue}, ttl : {0}, async : {FALSE}]
    <2>1. c.op = "other" /\ c.key = NoKey /\ c.val = NoValue /\ c.ttl = 0
      BY <1>5
    <2> QED
      BY SMT, <2>1
  <1> QED
    BY <1>3, <1>4, <1>5 DEF Command

(* The log only grows, and keeps what it holds.                             *)
LEMMA LogGrows ==
    ASSUME NEW S, NEW q \in Seq(S), NEW c \in S
    PROVE  /\ Append(q, c) \in Seq(S) /\ Len(Append(q, c)) = Len(q) + 1
           /\ \A j \in 1..Len(q) : Append(q, c)[j] = q[j]
           /\ Append(q, c)[Len(q) + 1] = c
  BY SMT

(* What a prefix leaves in a key does not depend on the rest of the log.    *)
LEMMA ReflectsPrefix ==
    ASSUME NEW q, NEW r, NEW v, NEW k, NEW i \in Nat,
           \A j \in 1..i : r[j] = q[j],
           Reflects(q, v, k, i)
    PROVE  Reflects(r, v, k, i)
  BY SMT DEF Reflects

(* A command on another key leaves the key as it was ...                    *)
LEMMA ReflectsOther ==
    ASSUME NEW q, NEW v, NEW k, NEW i \in Nat,
           Reflects(q, v, k, i), q[i + 1].key # k
    PROVE  Reflects(q, v, k, i + 1)
  <1>1. CASE v = NoValue /\ \A j \in 1..i : q[j].key # k
    <2>1. \A j \in 1..(i + 1) : q[j].key # k
      BY SMT, <1>1
    <2> QED BY <1>1, <2>1 DEF Reflects
  <1>2. ASSUME NEW j \in 1..i, q[j].key = k, q[j].val = v, \A l \in (j + 1)..i : q[l].key # k
        PROVE  Reflects(q, v, k, i + 1)
    <2>1. \A l \in (j + 1)..(i + 1) : q[l].key # k
      BY SMT, <1>2
    <2>2. j \in 1..(i + 1)
      BY SMT
    <2> QED BY <1>2, <2>1, <2>2 DEF Reflects
  <1> QED
    BY <1>1, <1>2 DEF Reflects

(* ... and a command on the key leaves its value there.                     *)
LEMMA ReflectsWrite ==
    ASSUME NEW q, NEW k, NEW i \in Nat, q[i + 1].key = k
    PROVE  Reflects(q, q[i + 1].val, k, i + 1)
  <1>1. \A l \in ((i + 1) + 1)..(i + 1) : q[l].key # k
    BY SMT
  <1>2. i + 1 \in 1..(i + 1)
    BY SMT
  <1> QED
    BY <1>1, <1>2 DEF Reflects

(* A prefix of the log leaves one value in each key.                        *)
LEMMA ReflectsOnce ==
    ASSUME NEW q, NEW v, NEW w, NEW k, NEW i \in Nat,
           Reflects(q, v, k, i), Reflects(q, w, k, i)
    PROVE  v = w
  <1>1. CASE \A j \in 1..i : q[j].key # k
    BY SMT, <1>1 DEF Reflects
  <1>2. CASE \E j \in 1..i : q[j].key = k
    <2>1. PICK a \in 1..i : q[a].key = k /\ q[a].val = v /\ \A l \in (a + 1)..i : q[l].key # k
      BY <1>2 DEF Reflects
    <2>2. PICK b \in 1..i : q[b].key = k /\ q[b].val = w /\ \A l \in (b + 1)..i : q[l].key # k
      BY <1>2 DEF Reflects
    <2>3. a = b
      BY SMT, <2>1, <2>2
    <2> QED BY <2>1, <2>2, <2>3
  <1> QED BY <1>1, <1>2

-----------------------------------------------------------------------------

(* The commands a step can add to the log.                                  *)
LEMMA AsyncIsCommand ==
    ASSUME NEW k \in Keys
    PROVE  [op |-> "delete", key |-> k, val |-> NoValue, ttl |-> 0, async |-> TRUE] \in Command
  BY DEF Command

(* FSM.Apply yields well-typed maps.                                        *)
LEMMA ApplyTypes ==
    ASSUME TypeOK, NEW n \in Nodes, NEW j \in 1..Len(log)
    PROVE  /\ ApplyStore(store[n], log[j]) \in [Keys -> Values \cup {NoValue}]
           /\ ApplyTtl(ttl[n], log[j]) \in [Keys -> Nat \cup {NoTime}]
           /\ Callback(cache[n], log[j]) \in
                [Keys -> [val : Values \cup {NoValue}, until : Nat \cup {NoTime}]]
  <1>1. PICK c : c = log[j]
    OBVIOUS
  <1>2. /\ c.key \in Keys \cup {NoKey} /\ c.val \in Values \cup {NoValue} /\ c.ttl \in Nat
        /\ c.op \in {"set", "delete", "other"} /\ (c.op # "other" => c.key \in Keys)
    BY <1>1, LogElements
  <1> USE <1>2
  <1>3. /\ store[n] \in [Keys -> Values \cup {NoValue}]
        /\ ttl[n] \in [Keys -> Nat \cup {NoTime}]
        /\ cache[n] \in [Keys -> [val : Values \cup {NoValue}, until : Nat \cup {NoTime}]]
        /\ now \in Nat
    BY DEF TypeOK
  <1> USE <1>3
  <1>4. ApplyStore(store[n], c) \in [Keys -> Values \cup {NoValue}]
    BY DEF ApplyStore
  <1>5. ApplyTtl(ttl[n], c) \in [Keys -> Nat \cup {NoTime}]
    <2>1. CASE c.op = "set" /\ c.ttl > 0
      BY SMT, <2>1 DEF ApplyTtl
    <2>2. CASE c.op = "set" /\ c.ttl = 0
      BY SMT, <2>2 DEF ApplyTtl
    <2>3. CASE c.op = "delete"
      BY <2>3 DEF ApplyTtl
    <2>4. CASE c.op = "other"
      BY <2>4 DEF ApplyTtl
    <2> QED BY SMT, <2>1, <2>2, <2>3, <2>4
  <1>6. Callback(cache[n], c) \in
          [Keys -> [val : Values \cup {NoValue}, until : Nat \cup {NoTime}]]
    BY SMT DEF Callback
  <1> QED
    BY <1>1, <1>4, <1>5, <1>6

(* What an Apply step does, with the command it applies named.              *)
LEMMA ApplyStep ==
    ASSUME TypeOK, NEW n \in Nodes, Apply(n)
    PROVE  \E i \in 1..Len(log) :
             /\ i = applied[n] + 1 /\ log' = log
             /\ applied' = [applied EXCEPT ![n] = i]
             /\ store' = [store EXCEPT ![n] = ApplyStore(store[n], log[i])]
             /\ ttl' = [ttl EXCEPT ![n] = ApplyTtl(ttl[n], log[i])]
             /\ cache' = [cache EXCEPT ![n] = IF wired[n] THEN Callback(cache[n], log[i]) ELSE cache[n]]
             /\ top' = [top EXCEPT ![n] = IF i > top[n] THEN i ELSE top[n]]
             /\ missed' = [missed EXCEPT ![n] = missed[n] \/ (~wired[n] /\ i > base[n])]
             /\ UNCHANGED <<now, log, wired, snap, expiring, restarts, base>>
  <1>1. applied[n] + 1 \in 1..Len(log)
    BY SMT DEF TypeOK, Apply
  <1> QED
    BY <1>1 DEF Apply

(* No step writes a state of the wrong type.                                *)
LEMMA TypeStep == ASSUME TypeOK, [Next]_vars PROVE TypeOK'
  <1>1. CASE TimePasses BY SMT, <1>1 DEF TimePasses, TypeOK, fsmVars, historyVars
  <1>2. ASSUME NEW c \in Command, Submit(c) PROVE TypeOK'
    <2>1. log' \in Seq(Command)
      BY <1>2, LogGrows DEF Submit, Commit, TypeOK
    <2> QED BY <1>2, <2>1 DEF Submit, TypeOK, fsmVars, historyVars
  <1>3. ASSUME NEW n \in Nodes, Apply(n) PROVE TypeOK'
    <2>1. PICK i \in 1..Len(log) :
             /\ i = applied[n] + 1 /\ log' = log
             /\ applied' = [applied EXCEPT ![n] = i]
             /\ store' = [store EXCEPT ![n] = ApplyStore(store[n], log[i])]
             /\ ttl' = [ttl EXCEPT ![n] = ApplyTtl(ttl[n], log[i])]
             /\ cache' = [cache EXCEPT ![n] = IF wired[n] THEN Callback(cache[n], log[i]) ELSE cache[n]]
             /\ top' = [top EXCEPT ![n] = IF i > top[n] THEN i ELSE top[n]]
             /\ missed' = [missed EXCEPT ![n] = missed[n] \/ (~wired[n] /\ i > base[n])]
             /\ UNCHANGED <<now, log, wired, snap, expiring, restarts, base>>
      BY <1>3, ApplyStep
    <2>2. /\ ApplyStore(store[n], log[i]) \in [Keys -> Values \cup {NoValue}]
          /\ ApplyTtl(ttl[n], log[i]) \in [Keys -> Nat \cup {NoTime}]
          /\ Callback(cache[n], log[i]) \in
                [Keys -> [val : Values \cup {NoValue}, until : Nat \cup {NoTime}]]
      BY ApplyTypes
    <2>3. missed' \in [Nodes -> BOOLEAN]
      BY <2>1 DEF TypeOK
    <2>4. i \in Nat
      BY SMT
    <2> QED BY <2>1, <2>2, <2>3, <2>4 DEF TypeOK
  <1>4. ASSUME NEW n \in Nodes, SetCallbacks(n) PROVE TypeOK'
    BY <1>4 DEF SetCallbacks, TypeOK, fsmVars, historyVars
  <1>5. ASSUME NEW n \in Nodes, Snapshot(n) PROVE TypeOK'
    BY <1>5 DEF Snapshot, TypeOK, fsmVars, historyVars
  <1>6. ASSUME NEW n \in Nodes, Restart(n) PROVE TypeOK'
    BY SMTT(20), <1>6 DEF Restart, Restore, TypeOK
  <1>7. ASSUME NEW n \in Nodes, NEW m \in Nodes \ {n}, InstallSnapshot(n, m) PROVE TypeOK'
    BY <1>7 DEF InstallSnapshot, Restore, TypeOK
  <1>8. ASSUME NEW n \in Nodes, NEW k \in Keys, ReadExpired(n, k) PROVE TypeOK'
    BY SMTT(20), <1>8 DEF ReadExpired, TypeOK, fsmVars, historyVars
  <1>9. ASSUME NEW n \in Nodes, NEW k \in Keys, AsyncDelete(n, k) PROVE TypeOK'
    <2>1. PICK c \in Command : log' = Append(log, c) \/ log' = log
      BY <1>9, AsyncIsCommand DEF AsyncDelete, Commit
    <2>2. log' \in Seq(Command)
      <3>1. log \in Seq(Command)
        BY DEF TypeOK
      <3>2. Append(log, c) \in Seq(Command)
        BY <3>1, LogGrows
      <3> QED BY <2>1, <3>1, <3>2
    <2> QED BY <1>9, <2>2 DEF AsyncDelete, TypeOK, fsmVars, historyVars
  <1>10. CASE UNCHANGED vars BY <1>10 DEF vars, TypeOK, fsmVars, historyVars
  <1> QED
    BY <1>1, <1>2, <1>3, <1>4, <1>5, <1>6, <1>7, <1>8, <1>9, <1>10 DEF Next

(* A step adds at most one command to the log and changes none; what it adds *)
(* on its own account is a delete of a key whose deletion was under way.    *)
LEMMA LogStep ==
    ASSUME TypeOK, [Next]_vars
    PROVE  \/ log' = log
           \/ \E c \in Command : /\ log' = Append(log, c)
                                 /\ c.async => \E n \in Nodes : <<n, c.key>> \in expiring
                                 /\ UNCHANGED <<store, ttl, applied, wired, cache, snap, base, top, missed>>
                                 /\ expiring' \subseteq expiring
  <1>1. CASE TimePasses BY <1>1 DEF TimePasses
  <1>2. ASSUME NEW c \in Command, Submit(c)
        PROVE  /\ log' = Append(log, c) /\ ~c.async
               /\ UNCHANGED <<store, ttl, applied, wired, cache, snap, base, top, missed>>
               /\ expiring' \subseteq expiring
    BY <1>2 DEF Submit, Commit, fsmVars, historyVars
  <1>3. ASSUME NEW n \in Nodes,
               Apply(n) \/ SetCallbacks(n) \/ Snapshot(n) \/ Restart(n)
                 \/ \E m \in Nodes \ {n} : InstallSnapshot(n, m)
        PROVE  log' = log
    BY <1>3 DEF Apply, SetCallbacks, Snapshot, Restart, InstallSnapshot
  <1>4. ASSUME NEW n \in Nodes, NEW k \in Keys, ReadExpired(n, k) PROVE log' = log
    BY <1>4 DEF ReadExpired
  <1>5. ASSUME NEW n \in Nodes, NEW k \in Keys, AsyncDelete(n, k)
        PROVE  \/ log' = log
               \/ \E c \in Command : /\ log' = Append(log, c)
                                     /\ c.async => \E m \in Nodes : <<m, c.key>> \in expiring
                                     /\ UNCHANGED <<store, ttl, applied, wired, cache, snap, base, top, missed>>
                                     /\ expiring' \subseteq expiring
    <2> USE <1>5
    <2> DEFINE d == [op |-> "delete", key |-> k, val |-> NoValue, ttl |-> 0, async |-> TRUE]
    <2>1. d \in Command /\ d.key = k
      BY AsyncIsCommand
    <2>2. <<n, k>> \in expiring /\ expiring' \subseteq expiring
      BY DEF AsyncDelete
    <2>3. log' = Append(log, d) \/ log' = log
      BY DEF AsyncDelete, Commit
    <2>4. UNCHANGED <<store, ttl, applied, wired, cache, snap, base, top, missed>>
      BY DEF AsyncDelete, fsmVars, historyVars
    <2> HIDE DEF d
    <2> QED BY <2>1, <2>2, <2>3, <2>4
  <1>6. CASE UNCHANGED vars BY <1>6 DEF vars
  <1> QED
    BY <1>1, <1>2, <1>3, <1>4, <1>5, <1>6 DEF Next

(* The part of the log a node has applied stays as it is.                   *)
LEMMA LogKept ==
    ASSUME TypeOK, [Next]_vars
    PROVE  /\ Len(log) \in Nat /\ Len(log') \in Nat /\ Len(log) <= Len(log')
           /\ \A j \in 1..Len(log) : log'[j] = log[j]
  <1>1. log \in Seq(Command)
    BY DEF TypeOK
  <1>2. CASE log' = log BY SMT, <1>1, <1>2
  <1>3. ASSUME NEW c \in Command, log' = Append(log, c)
        PROVE  /\ Len(log) \in Nat /\ Len(log') \in Nat /\ Len(log) <= Len(log')
               /\ \A j \in 1..Len(log) : log'[j] = log[j]
    BY SMT, <1>1, <1>3, LogGrows
  <1>4. log' = log \/ \E c \in Command : log' = Append(log, c)
    BY LogStep
  <1> QED BY <1>2, <1>3, <1>4

-----------------------------------------------------------------------------

(* The indices stay in order.                                               *)
LEMMA IndexStep == ASSUME TypeOK, IndexInv, [Next]_vars PROVE IndexInv'
  <1> USE DEF TypeOK, IndexInv
  <1>1. Len(log) \in Nat /\ Len(log') \in Nat /\ Len(log) <= Len(log')
    BY LogKept
  <1> USE <1>1
  <1>2. CASE UNCHANGED <<snap, applied, base, top>>
    BY SMT, <1>2
  <1>3. ASSUME NEW n \in Nodes, Apply(n) PROVE IndexInv'
    BY SMT, <1>3 DEF Apply
  <1>4. ASSUME NEW n \in Nodes, Snapshot(n) PROVE IndexInv'
    BY SMT, <1>4 DEF Snapshot, fsmVars, historyVars
  <1>5. ASSUME NEW n \in Nodes, Restart(n) PROVE IndexInv'
    BY SMT, <1>5 DEF Restart, Restore
  <1>6. ASSUME NEW n \in Nodes, NEW m \in Nodes \ {n}, InstallSnapshot(n, m) PROVE IndexInv'
    BY SMT, <1>6 DEF InstallSnapshot, Restore
  <1>7. ASSUME \/ TimePasses \/ \E c \in Command : Submit(c)
               \/ \E n \in Nodes : SetCallbacks(n)
               \/ \E n \in Nodes, k \in Keys : ReadExpired(n, k) \/ AsyncDelete(n, k)
               \/ UNCHANGED vars
        PROVE  UNCHANGED <<snap, applied, base, top>>
    BY <1>7 DEF TimePasses, Submit, SetCallbacks, ReadExpired, AsyncDelete, vars, fsmVars, historyVars
  <1> QED
    BY <1>2, <1>3, <1>4, <1>5, <1>6, <1>7 DEF Next

(* Reflects survives a step for every index the log had reached.            *)
LEMMA ReflectsKept ==
    ASSUME TypeOK, [Next]_vars,
           NEW v, NEW k, NEW i \in 0..Len(log), Reflects(log, v, k, i)
    PROVE  Reflects(log', v, k, i)
  <1>1. \A j \in 1..Len(log) : log'[j] = log[j]
    BY LogKept
  <1>2. Len(log) \in Nat
    BY LogKept
  <1>3. i \in Nat /\ \A j \in 1..i : log'[j] = log[j]
    BY SMT, <1>1, <1>2
  <1> QED BY <1>3, ReflectsPrefix

(* One application of a command moves a key from index i to i + 1.          *)
LEMMA ReflectsApply ==
    ASSUME TypeOK, NEW i \in Nat, i + 1 \in 1..Len(log), NEW k \in Keys,
           NEW s \in [Keys -> Values \cup {NoValue}], Reflects(log, s[k], k, i)
    PROVE  Reflects(log, ApplyStore(s, log[i + 1])[k], k, i + 1)
  <1>1. PICK c : c = log[i + 1]
    OBVIOUS
  <1> USE <1>1
  <1>2. /\ c.op = "other" => c.key = NoKey
        /\ c.op # "other" => c.key \in Keys
    BY LogElements
  <1>3. CASE c.key = k
    <2>1. ApplyStore(s, c)[k] = c.val
      BY <1>2, <1>3, NoneAssumption DEF ApplyStore
    <2> QED BY <1>3, <2>1, ReflectsWrite
  <1>4. CASE c.key # k
    <2>1. ApplyStore(s, c)[k] = s[k]
      BY <1>2, <1>4 DEF ApplyStore
    <2> QED BY <1>4, <2>1, ReflectsOther
  <1> QED BY <1>3, <1>4

(* FSMs and snapshots stay in step with the log.                            *)
LEMMA StoreStep ==
    ASSUME TypeOK, IndexInv, StoreReflectsLog, SnapReflectsLog, [Next]_vars
    PROVE  StoreReflectsLog' /\ SnapReflectsLog'
  <1>1. \A n \in Nodes : applied[n] \in 0..Len(log) /\ snap[n].index \in 0..Len(log)
    <2>1. Len(log) \in Nat BY LogKept
    <2> QED BY SMT, <2>1 DEF TypeOK, IndexInv
  <1>2. \A n \in Nodes, k \in Keys : /\ Reflects(log', store[n][k], k, applied[n])
                                    /\ Reflects(log', snap[n].store[k], k, snap[n].index)
    BY <1>1, ReflectsKept DEF StoreReflectsLog, SnapReflectsLog
  <1> USE <1>2
  <1>3. CASE UNCHANGED <<store, applied, snap>>
    BY <1>3 DEF StoreReflectsLog, SnapReflectsLog
  <1>4. ASSUME NEW n \in Nodes, Apply(n) PROVE StoreReflectsLog' /\ SnapReflectsLog'
    <2>1. PICK i \in Nat : i = applied[n]
      BY DEF TypeOK
    <2>2. /\ i + 1 \in 1..Len(log) /\ log' = log /\ snap' = snap
          /\ applied' = [applied EXCEPT ![n] = i + 1]
          /\ store' = [store EXCEPT ![n] = ApplyStore(store[n], log[i + 1])]
      BY SMT, <1>4, <2>1 DEF Apply, TypeOK
    <2> USE <2>2
    <2>3. ASSUME NEW k \in Keys
          PROVE  Reflects(log, ApplyStore(store[n], log[i + 1])[k], k, i + 1)
      <3>1. store[n] \in [Keys -> Values \cup {NoValue}] /\ Reflects(log, store[n][k], k, i)
        BY <2>1 DEF TypeOK, StoreReflectsLog
      <3> QED BY <3>1, ReflectsApply
    <2>4. \A m \in Nodes, k \in Keys : Reflects(log', store'[m][k], k, applied'[m])
      <3> TAKE m \in Nodes, k \in Keys
      <3>1. CASE m = n
        <4>1. store'[m] = ApplyStore(store[n], log[i + 1]) /\ applied'[m] = i + 1
          BY <3>1 DEF TypeOK
        <4> QED BY <2>3, <4>1
      <3>2. CASE m # n
        <4>1. store'[m] = store[m] /\ applied'[m] = applied[m]
          BY <3>2 DEF TypeOK
        <4> QED BY <4>1
      <3> QED BY <3>1, <3>2
    <2> QED BY <2>4 DEF StoreReflectsLog, SnapReflectsLog
  <1>5. ASSUME NEW n \in Nodes, Snapshot(n) PROVE StoreReflectsLog' /\ SnapReflectsLog'
    <2>1. UNCHANGED <<store, applied>>
      BY <1>5 DEF Snapshot, fsmVars
    <2>2. \A m \in Nodes : \/ snap'[m] = snap[m]
                           \/ snap'[m].store = store[m] /\ snap'[m].index = applied[m]
      BY <1>5 DEF Snapshot, TypeOK
    <2> QED BY <2>1, <2>2 DEF StoreReflectsLog, SnapReflectsLog
  <1>6. ASSUME NEW n \in Nodes, NEW m \in Nodes, Restore(n, snap[m]),
               snap' = snap \/ snap' = [snap EXCEPT ![n] = snap[m]]
        PROVE  StoreReflectsLog' /\ SnapReflectsLog'
    <2>1. \A p \in Nodes : \/ store'[p] = store[p] /\ applied'[p] = applied[p]
                           \/ store'[p] = snap[m].store /\ applied'[p] = snap[m].index
      BY <1>6 DEF Restore, TypeOK
    <2>2. \A p \in Nodes : snap'[p] = snap[p] \/ snap'[p] = snap[m]
      BY <1>6 DEF TypeOK
    <2> QED BY <2>1, <2>2 DEF StoreReflectsLog, SnapReflectsLog
  <1>7. ASSUME NEW n \in Nodes, Restart(n) PROVE StoreReflectsLog' /\ SnapReflectsLog'
    BY <1>6, <1>7 DEF Restart
  <1>8. ASSUME NEW n \in Nodes, NEW m \in Nodes \ {n}, InstallSnapshot(n, m)
        PROVE  StoreReflectsLog' /\ SnapReflectsLog'
    BY <1>6, <1>8 DEF InstallSnapshot
  <1>9. ASSUME \/ TimePasses \/ \E c \in Command : Submit(c)
               \/ \E n \in Nodes : SetCallbacks(n)
               \/ \E n \in Nodes, k \in Keys : ReadExpired(n, k) \/ AsyncDelete(n, k)
               \/ UNCHANGED vars
        PROVE  UNCHANGED <<store, applied, snap>>
    BY <1>9 DEF TimePasses, Submit, SetCallbacks, ReadExpired, AsyncDelete, vars, fsmVars, historyVars
  <1> QED
    BY <1>3, <1>4, <1>5, <1>7, <1>8, <1>9 DEF Next

-----------------------------------------------------------------------------

(* CacheInv of one node and key, for the values its five variables have.    *)
Mirrors(q, w, v, k, a, b, t) ==
    IF w
      THEN \/ Reflects(q, v, k, a)
           \/ \E j \in b..t : j >= a /\ Reflects(q, v, k, j)
      ELSE a <= b /\ \E j \in b..t : Reflects(q, v, k, j)

(* Mirrors survives the growth of the log and of top.                       *)
LEMMA MirrorsKept ==
    ASSUME TypeOK, IndexInv, [Next]_vars,
           NEW n \in Nodes, NEW k \in Keys, NEW v, NEW t \in Nat, top[n] <= t,
           Mirrors(log, wired[n], v, k, applied[n], base[n], top[n])
    PROVE  Mirrors(log', wired[n], v, k, applied[n], base[n], t)
  <1>1. Len(log) \in Nat
    BY LogKept
  <1>2. /\ applied[n] \in 0..Len(log) /\ base[n] \in Nat /\ top[n] \in 0..Len(log)
        /\ base[n]..top[n] \subseteq 0..Len(log) /\ base[n]..top[n] \subseteq base[n]..t
    BY SMT, <1>1 DEF TypeOK, IndexInv
  <1>3. \A i \in 0..Len(log) : Reflects(log, v, k, i) => Reflects(log', v, k, i)
    BY ReflectsKept
  <1> QED
    BY <1>2, <1>3 DEF Mirrors

(* The cache of a node that missed nothing stays in step.                   *)
LEMMA CacheStep ==
    ASSUME TypeOK, IndexInv, CacheInv, [Next]_vars
    PROVE  CacheInv'
  <1> DEFINE M(n, k) == Mirrors(log, wired[n], cache[n][k].val, k, applied[n], base[n], top[n])
  <1>1. \A n \in Nodes : ~missed[n] => \A k \in Keys : M(n, k)
    BY DEF CacheInv, Mirrors
  <1> USE <1>1
  <1>2. \A n \in Nodes : ~missed[n] => \A k \in Keys :
            Mirrors(log', wired[n], cache[n][k].val, k, applied[n], base[n], top[n])
    <2>1. \A n \in Nodes : top[n] \in Nat /\ top[n] <= top[n]
      BY SMT DEF TypeOK
    <2> QED BY <2>1, MirrorsKept
  <1> USE <1>2
  <1>3. SUFFICES \A n \in Nodes : ~missed'[n] => \A k \in Keys :
            Mirrors(log', wired'[n], cache'[n][k].val, k, applied'[n], base'[n], top'[n])
    BY DEF CacheInv, Mirrors
  <1> HIDE DEF M
  <1>4. CASE UNCHANGED <<wired, cache, applied, base, top, missed>>
    BY <1>4
  <1>5. ASSUME NEW n \in Nodes, Apply(n)
        PROVE  \A m \in Nodes : ~missed'[m] => \A k \in Keys :
            Mirrors(log', wired'[m], cache'[m][k].val, k, applied'[m], base'[m], top'[m])
    <2>1. PICK i \in Nat : i = applied[n]
      BY DEF TypeOK
    <2> USE <2>1
    <2>2. /\ i + 1 \in 1..Len(log) /\ log' = log /\ wired' = wired /\ base' = base
          /\ applied' = [applied EXCEPT ![n] = i + 1]
          /\ cache' = [cache EXCEPT ![n] = IF wired[n] THEN Callback(cache[n], log[i + 1]) ELSE cache[n]]
          /\ top' = [top EXCEPT ![n] = IF i + 1 > top[n] THEN i + 1 ELSE top[n]]
          /\ missed' = [missed EXCEPT ![n] = missed[n] \/ (~wired[n] /\ i + 1 > base[n])]
      BY SMT, <1>5 DEF Apply, TypeOK
    <2> USE <2>2
    <2>3. \A m \in Nodes \ {n} : /\ missed'[m] = missed[m] /\ cache'[m] = cache[m]
                                 /\ applied'[m] = applied[m] /\ top'[m] = top[m]
      BY DEF TypeOK
    <2>4. missed'[n] = (missed[n] \/ (~wired[n] /\ i + 1 > base[n]))
      BY DEF TypeOK
    <2>5. /\ applied'[n] = i + 1 /\ top'[n] \in Nat /\ top'[n] >= top[n] /\ base[n] \in Nat
          /\ cache'[n] = IF wired[n] THEN Callback(cache[n], log[i + 1]) ELSE cache[n]
          /\ top[n] \in Nat
      BY SMT DEF TypeOK
    <2> USE <2>5
    <2>6. ASSUME ~missed'[n], NEW k \in Keys
          PROVE  Mirrors(log, wired[n], cache'[n][k].val, k, i + 1, base[n], top'[n])
      <3>1. ~missed[n] /\ (wired[n] \/ i + 1 <= base[n])
        <4>1. ~missed[n] /\ ~(~wired[n] /\ i + 1 > base[n])
          BY <2>4, <2>6
        <4> QED BY SMT, <4>1
      <3>2. M(n, k)
        BY <3>1
      <3>3. CASE ~wired[n]
        <4>1. cache'[n] = cache[n] /\ i + 1 <= base[n]
          BY <3>1, <3>3
        <4> QED BY SMT, <3>2, <3>3, <4>1 DEF M, Mirrors
      <3>4. CASE wired[n] /\ log[i + 1].key = k
        <4> USE <3>4
        <4>1. cache'[n][k].val = log[i + 1].val
          <5>1. log[i + 1].op # "other"
            BY LogElements, NoneAssumption
          <5>2. cache[n] \in [Keys -> [val : Values \cup {NoValue}, until : Nat \cup {NoTime}]]
            BY DEF TypeOK
          <5> QED BY SMT, <5>1, <5>2 DEF Callback
        <4>2. Reflects(log, log[i + 1].val, k, i + 1)
          BY ReflectsWrite
        <4> QED BY <4>1, <4>2 DEF Mirrors
      <3>5. CASE wired[n] /\ log[i + 1].key # k
        <4> USE <3>5
        <4>1. cache'[n][k] = cache[n][k]
          BY SMT DEF Callback, TypeOK
        <4>2. PICK v : v = cache[n][k].val
          OBVIOUS
        <4> USE <4>2
        <4>3. CASE Reflects(log, v, k, i)
          BY <4>1, <4>3, ReflectsOther DEF Mirrors
        <4>4. CASE ~Reflects(log, v, k, i)
          <5>1. PICK j \in base[n]..top[n] : j >= i /\ Reflects(log, v, k, j)
            BY <3>2, <4>4 DEF M, Mirrors
          <5>2. j # i /\ j \in base[n]..top'[n] /\ j >= i + 1
            BY SMT, <4>4, <5>1
          <5> QED BY <4>1, <5>1, <5>2 DEF Mirrors
        <4> QED BY <4>3, <4>4
      <3> QED BY <3>3, <3>4, <3>5
    <2> QED
      BY SMT, <2>3, <2>6
  <1>6. ASSUME NEW n \in Nodes, SetCallbacks(n)
        PROVE  \A m \in Nodes : ~missed'[m] => \A k \in Keys :
            Mirrors(log', wired'[m], cache'[m][k].val, k, applied'[m], base'[m], top'[m])
    <2>1. /\ UNCHANGED <<cache, applied, base, top, missed>>
          /\ ~wired[n] /\ wired' = [wired EXCEPT ![n] = TRUE]
      BY <1>6 DEF SetCallbacks, fsmVars, historyVars
    <2> USE <2>1
    <2>2. \A m \in Nodes \ {n} : wired'[m] = wired[m]
      BY DEF TypeOK
    <2>3. ASSUME ~missed[n], NEW k \in Keys
          PROVE  Mirrors(log', TRUE, cache[n][k].val, k, applied[n], base[n], top[n])
      <3>1. Mirrors(log', wired[n], cache[n][k].val, k, applied[n], base[n], top[n])
        BY <2>3
      <3>2. /\ applied[n] <= base[n]
            /\ \E j \in base[n]..top[n] : Reflects(log', cache[n][k].val, k, j)
        BY <3>1 DEF Mirrors
      <3>3. applied[n] \in Nat /\ base[n] \in Nat /\ top[n] \in Nat
        BY DEF TypeOK
      <3> QED BY SMT, <3>2, <3>3 DEF Mirrors
    <2>4. wired'[n] = TRUE
      BY DEF TypeOK
    <2> QED BY <2>2, <2>3, <2>4
  <1>7. ASSUME NEW n \in Nodes, Restart(n)
        PROVE  \A m \in Nodes : ~missed'[m] => \A k \in Keys :
            Mirrors(log', wired'[m], cache'[m][k].val, k, applied'[m], base'[m], top'[m])
    <2>1. /\ log' = log /\ cache' = cache /\ top' = top /\ missed' = missed
          /\ wired' = [wired EXCEPT ![n] = FALSE]
          /\ applied' = [applied EXCEPT ![n] = snap[n].index]
          /\ base' = [base EXCEPT ![n] = IF wired[n] THEN applied[n] ELSE base[n]]
      BY <1>7 DEF Restart, Restore
    <2> USE <2>1
    <2>2. \A m \in Nodes \ {n} : /\ wired'[m] = wired[m] /\ applied'[m] = applied[m]
                                 /\ base'[m] = base[m]
      BY DEF TypeOK
    <2>3. /\ wired'[n] = FALSE /\ applied'[n] = snap[n].index
          /\ base'[n] = IF wired[n] THEN applied[n] ELSE base[n]
          /\ snap[n].index \in Nat /\ applied[n] \in Nat /\ base[n] \in Nat /\ top[n] \in Nat
          /\ snap[n].index <= applied[n] /\ applied[n] <= top[n]
      BY DEF TypeOK, IndexInv
    <2> USE <2>3
    <2>4. ASSUME ~missed[n], NEW k \in Keys
          PROVE  Mirrors(log, FALSE, cache[n][k].val, k, applied'[n], base'[n], top[n])
      <3>1. M(n, k)
        BY <2>4
      <3>2. PICK v : v = cache[n][k].val
        OBVIOUS
      <3> USE <3>2
      <3>3. CASE wired[n]
        <4>1. \E j \in applied[n]..top[n] : Reflects(log, v, k, j)
          BY SMT, <3>1, <3>3 DEF M, Mirrors
        <4> QED BY <3>3, <4>1 DEF Mirrors
      <3>4. CASE ~wired[n]
        BY SMT, <3>1, <3>4 DEF M, Mirrors
      <3> QED BY <3>3, <3>4
    <2>5. \A m \in Nodes \ {n} : ~missed'[m] => \A k \in Keys :
            Mirrors(log', wired'[m], cache'[m][k].val, k, applied'[m], base'[m], top'[m])
      BY <2>2
    <2>6. ~missed'[n] => \A k \in Keys :
            Mirrors(log', wired'[n], cache'[n][k].val, k, applied'[n], base'[n], top'[n])
      <3> SUFFICES ASSUME ~missed[n], NEW k \in Keys
                   PROVE  Mirrors(log, wired'[n], cache[n][k].val, k, applied'[n], base'[n], top[n])
        OBVIOUS
      <3> QED BY <2>4
    <2> QED BY <2>5, <2>6
  <1>8. ASSUME NEW n \in Nodes, NEW m \in Nodes \ {n}, InstallSnapshot(n, m)
        PROVE  \A p \in Nodes : ~missed'[p] => \A k \in Keys :
            Mirrors(log', wired'[p], cache'[p][k].val, k, applied'[p], base'[p], top'[p])
    <2>1. UNCHANGED <<wired, cache, base>> /\ missed'[n]
      BY <1>8 DEF InstallSnapshot, TypeOK
    <2>2. \A p \in Nodes \ {n} : /\ missed'[p] = missed[p] /\ applied'[p] = applied[p]
                                 /\ top'[p] = top[p]
      BY <1>8 DEF InstallSnapshot, Restore, TypeOK
    <2> QED BY <2>1, <2>2
  <1>9. ASSUME \/ TimePasses \/ \E c \in Command : Submit(c)
               \/ \E n \in Nodes : Snapshot(n)
               \/ \E n \in Nodes, k \in Keys : ReadExpired(n, k) \/ AsyncDelete(n, k)
               \/ UNCHANGED vars
        PROVE  UNCHANGED <<wired, cache, applied, base, top, missed>>
    BY <1>9 DEF TimePasses, Submit, Snapshot, ReadExpired, AsyncDelete, vars, fsmVars, historyVars
  <1> QED
    BY <1>4, <1>5, <1>6, <1>7, <1>8, <1>9 DEF Next

-----------------------------------------------------------------------------

(* A key the log once gave a TTL stays such a key.                          *)
LEMMA GaveKept ==
    ASSUME TypeOK, [Next]_vars, NEW k, GaveTtl(log, k)
    PROVE  GaveTtl(log', k)
  <1>1. /\ Len(log) \in Nat /\ Len(log') \in Nat /\ Len(log) <= Len(log')
        /\ \A j \in 1..Len(log) : log'[j] = log[j]
    BY LogKept
  <1>2. PICK j \in 1..Len(log) : log[j].key = k /\ log[j].ttl > 0
    BY DEF GaveTtl
  <1>3. j \in 1..Len(log') /\ log'[j] = log[j]
    BY SMT, <1>1
  <1> QED BY <1>2, <1>3 DEF GaveTtl

(* Applying a command leaves deadlines only on keys that had a TTL.         *)
LEMMA ApplyTtlGave ==
    ASSUME TypeOK, NEW n \in Nodes, NEW i \in 1..Len(log), NEW k \in Keys,
           ttl[n][k] # NoTime => GaveTtl(log, k),
           ApplyTtl(ttl[n], log[i])[k] # NoTime
    PROVE  GaveTtl(log, k)
  <1>1. PICK c : c = log[i]
    OBVIOUS
  <1> USE <1>1
  <1>2. /\ c.ttl \in Nat /\ c.op \in {"set", "delete", "other"}
        /\ c.op # "other" => c.key \in Keys
    BY LogElements
  <1> USE <1>2
  <1>3. ttl[n] \in [Keys -> Nat \cup {NoTime}]
    BY DEF TypeOK
  <1> USE <1>3
  <1>4. CASE c.op = "set" /\ c.ttl > 0 /\ c.key = k
    BY <1>4 DEF GaveTtl
  <1>5. CASE c.op = "set" /\ c.ttl > 0 /\ c.key # k
    <2>1. ApplyTtl(ttl[n], c)[k] = ttl[n][k]
      BY <1>5 DEF ApplyTtl
    <2> QED BY <2>1
  <1>6. CASE c.op = "set" /\ c.ttl = 0
    <2>1. ApplyTtl(ttl[n], c) = ttl[n]
      BY SMT, <1>6 DEF ApplyTtl
    <2> QED BY <2>1
  <1>7. CASE c.op = "delete"
    <2>1. ApplyTtl(ttl[n], c)[k] = ttl[n][k] \/ ApplyTtl(ttl[n], c)[k] = NoTime
      BY <1>7 DEF ApplyTtl
    <2> QED BY <2>1
  <1>8. CASE c.op = "other"
    <2>1. ApplyTtl(ttl[n], c) = ttl[n]
      BY <1>8 DEF ApplyTtl
    <2> QED BY <2>1
  <1> QED BY SMT, <1>4, <1>5, <1>6, <1>7, <1>8

(* Deadlines and pending deletions come from a set with a TTL.              *)
LEMMA TtlStep ==
    ASSUME TypeOK, TtlInv, [Next]_vars
    PROVE  TtlInv'
  <1>1. /\ \A n \in Nodes, k \in Keys :
              /\ ttl[n][k] # NoTime => GaveTtl(log', k)
              /\ snap[n].ttl[k] # NoTime => GaveTtl(log', k)
        /\ \A e \in expiring : GaveTtl(log', e[2])
    BY GaveKept DEF TtlInv
  <1> USE <1>1
  <1>2. ASSUME UNCHANGED <<ttl, snap>>, expiring' \subseteq expiring PROVE TtlInv'
    BY <1>2 DEF TtlInv
  <1>3. ASSUME NEW n \in Nodes, Apply(n) PROVE TtlInv'
    <2>1. PICK i \in 1..Len(log) :
            /\ log' = log /\ snap' = snap /\ expiring' = expiring
            /\ ttl' = [ttl EXCEPT ![n] = ApplyTtl(ttl[n], log[i])]
      BY <1>3, ApplyStep
    <2>2. \A k \in Keys : ApplyTtl(ttl[n], log[i])[k] # NoTime => GaveTtl(log, k)
      BY ApplyTtlGave DEF TtlInv
    <2>3. \A m \in Nodes : ttl'[m] = ttl[m] \/ ttl'[m] = ApplyTtl(ttl[n], log[i])
      BY <2>1 DEF TypeOK
    <2> QED BY SMT, <2>1, <2>2, <2>3 DEF TtlInv
  <1>4. ASSUME NEW n \in Nodes, Snapshot(n) PROVE TtlInv'
    <2>1. UNCHANGED <<ttl, expiring>>
      BY <1>4 DEF Snapshot, fsmVars
    <2>2. \A m \in Nodes : snap'[m] = snap[m] \/ snap'[m].ttl = ttl[m]
      BY <1>4 DEF Snapshot, TypeOK
    <2> QED BY SMT, <2>1, <2>2 DEF TtlInv
  <1>5. ASSUME NEW n \in Nodes, NEW m \in Nodes, Restore(n, snap[m]),
               snap' = snap \/ snap' = [snap EXCEPT ![n] = snap[m]],
               expiring' \subseteq expiring
        PROVE  TtlInv'
    <2> USE <1>5
    <2>1. \A p \in Nodes : ttl'[p] = ttl[p] \/ ttl'[p] = snap[m].ttl
      BY DEF Restore, TypeOK
    <2>2. \A p \in Nodes : snap'[p] = snap[p] \/ snap'[p] = snap[m]
      BY DEF TypeOK
    <2> QED BY SMT, <2>1, <2>2 DEF TtlInv
  <1>6. ASSUME NEW n \in Nodes, Restart(n) PROVE TtlInv'
    BY <1>5, <1>6 DEF Restart
  <1>7. ASSUME NEW n \in Nodes, NEW m \in Nodes \ {n}, InstallSnapshot(n, m) PROVE TtlInv'
    BY <1>5, <1>7 DEF InstallSnapshot
  <1>8. ASSUME NEW n \in Nodes, NEW k \in Keys, ReadExpired(n, k) PROVE TtlInv'
    <2>1. UNCHANGED <<ttl, snap>> /\ ttl[n][k] # NoTime /\ expiring' = expiring \cup {<<n, k>>}
      BY <1>8 DEF ReadExpired, fsmVars
    <2> QED BY SMT, <2>1 DEF TtlInv
  <1>9. ASSUME NEW n \in Nodes, NEW k \in Keys, AsyncDelete(n, k) PROVE TtlInv'
    BY <1>2, <1>9 DEF AsyncDelete, fsmVars
  <1>10. ASSUME TimePasses \/ (\E c \in Command : Submit(c))
               \/ (\E n \in Nodes : SetCallbacks(n)) \/ UNCHANGED vars
         PROVE  TtlInv'
    BY <1>2, <1>10 DEF TimePasses, Submit, SetCallbacks, vars, fsmVars
  <1> QED
    BY <1>3, <1>4, <1>6, <1>7, <1>8, <1>9, <1>10 DEF Next

(* So a delete that a read sends names a key that was given a TTL.          *)
LEMMA DeleteStep ==
    ASSUME TypeOK, TtlInv, OnlyTtlKeysDeleted, [Next]_vars
    PROVE  OnlyTtlKeysDeleted'
  <1>1. log \in Seq(Command)
    BY DEF TypeOK
  <1>2. CASE log' = log BY <1>2 DEF OnlyTtlKeysDeleted
  <1>3. ASSUME NEW c \in Command, log' = Append(log, c),
               c.async => \E n \in Nodes : <<n, c.key>> \in expiring
        PROVE  OnlyTtlKeysDeleted'
    <2> USE <1>3
    <2>1. PICK q : q = log'
      OBVIOUS
    <2> USE <2>1
    <2>2. /\ Len(log) \in Nat /\ Len(q) = Len(log) + 1
          /\ \A j \in 1..Len(log) : q[j] = log[j] /\ q[Len(log) + 1] = c
      BY SMT, <1>1, LogGrows
    <2> USE <2>2
    <2>3. q[Len(log) + 1] = c
      BY ZenonT(30), <1>1, LogGrows
    <2>4. ASSUME NEW j \in 1..Len(log), q[j].async
          PROVE  \E i \in 1..(j - 1) : q[i].key = q[j].key /\ q[i].ttl > 0
      <3>1. PICK i \in 1..(j - 1) : log[i].key = log[j].key /\ log[i].ttl > 0
        BY <2>4 DEF OnlyTtlKeysDeleted
      <3>2. i \in 1..Len(log)
        BY SMT
      <3> QED BY <3>1, <3>2
    <2>5. ASSUME c.async
          PROVE  \E i \in 1..Len(log) : q[i].key = c.key /\ q[i].ttl > 0
      <3>1. PICK n \in Nodes : <<n, c.key>> \in expiring
        BY <2>5
      <3>2. GaveTtl(log, c.key)
        BY <3>1 DEF TtlInv
      <3> QED BY <3>2 DEF GaveTtl
    <2>6. \A j \in 1..Len(q) : q[j].async =>
             \E i \in 1..(j - 1) : q[i].key = q[j].key /\ q[i].ttl > 0
      <3> SUFFICES ASSUME NEW j \in 1..Len(q), q[j].async
                   PROVE  \E i \in 1..(j - 1) : q[i].key = q[j].key /\ q[i].ttl > 0
        OBVIOUS
      <3>1. CASE j \in 1..Len(log) BY <2>4, <3>1
      <3>2. CASE j = Len(log) + 1
        <4>1. j - 1 = Len(log) /\ q[j] = c
          BY SMT, <2>3, <3>2
        <4> QED BY <2>5, <4>1
      <3> QED BY SMT, <3>1, <3>2
    <2> QED BY <2>6 DEF OnlyTtlKeysDeleted
  <1>4. \/ log' = log
        \/ \E c \in Command : /\ log' = Append(log, c)
                              /\ c.async => \E n \in Nodes : <<n, c.key>> \in expiring
    BY LogStep
  <1> QED BY <1>2, <1>3, <1>4

-----------------------------------------------------------------------------

(* All nodes start empty at index 0.                                        *)
LEMMA IndInvInit == Init => IndInv
  <1> SUFFICES ASSUME Init PROVE IndInv
    OBVIOUS
  <1>1. log = << >> /\ Len(log) = 0
    BY DEF Init
  <1>2. TypeOK
    BY SMT DEF Init, TypeOK, Empty, NoTtl
  <1>3. \A k \in Keys : Reflects(log, NoValue, k, 0)
    BY SMT DEF Reflects
  <1>4. IndexInv /\ StoreReflectsLog /\ SnapReflectsLog
    BY SMT, <1>1, <1>3 DEF Init, IndexInv, StoreReflectsLog, SnapReflectsLog, Empty
  <1>5. CacheInv
    BY SMT, <1>3 DEF Init, CacheInv
  <1>6. TtlInv
    BY DEF Init, TtlInv, NoTtl
  <1>7. OnlyTtlKeysDeleted
    BY SMT, <1>1 DEF OnlyTtlKeysDeleted
  <1> QED BY <1>2, <1>4, <1>5, <1>6, <1>7 DEF IndInv

(* IndInv is an invariant of ReplicatedStore.                               *)
THEOREM Invariance == Spec => []IndInv
  <1>1. IndInv /\ [Next]_vars => IndInv'
    BY TypeStep, IndexStep, StoreStep, CacheStep, TtlStep, DeleteStep DEF IndInv
  <1> QED
    BY IndInvInit, <1>1, PTL DEF Spec

(* Every FSM is what the log says up to its applied index.                  *)
THEOREM StateMachineSafety == Spec => []StoreReflectsLog
  <1>1. IndInv => StoreReflectsLog
    BY DEF IndInv
  <1> QED BY <1>1, Invariance, PTL

(* FSMs at the same index are equal.                                        *)
THEOREM Agreement == Spec => []StoresAgree
  <1>1. IndInv => StoresAgree
    <2> SUFFICES ASSUME IndInv, NEW m \in Nodes, NEW n \in Nodes, applied[m] = applied[n]
                 PROVE  store[m] = store[n]
      BY DEF StoresAgree
    <2>1. /\ store[m] \in [Keys -> Values \cup {NoValue}]
          /\ store[n] \in [Keys -> Values \cup {NoValue}]
          /\ applied[n] \in Nat
      BY DEF IndInv, TypeOK
    <2>2. \A k \in Keys : store[m][k] = store[n][k]
      BY <2>1, ReflectsOnce DEF IndInv, StoreReflectsLog
    <2> QED BY SMT, <2>1, <2>2
  <1> QED BY <1>1, Invariance, PTL

(* A node that missed nothing and has caught up serves what its FSM holds.  *)
THEOREM LocalReads == Spec => []LocalReadsCatchUp
  <1>1. IndInv => LocalReadsCatchUp
    <2> SUFFICES ASSUME IndInv, NEW n \in Nodes, wired[n], ~missed[n],
                        applied[n] = top[n], NEW k \in Keys
                 PROVE  cache[n][k].val = store[n][k]
      BY DEF LocalReadsCatchUp
    <2>1. applied[n] \in Nat /\ base[n] \in Nat /\ top[n] \in Nat
      BY DEF IndInv, TypeOK
    <2>2. PICK v : v = cache[n][k].val
      OBVIOUS
    <2>3. \/ Reflects(log, v, k, applied[n])
          \/ \E j \in base[n]..top[n] : j >= applied[n] /\ Reflects(log, v, k, j)
      BY <2>2 DEF IndInv, CacheInv
    <2>4. Reflects(log, v, k, applied[n])
      BY SMT, <2>1, <2>3
    <2>5. Reflects(log, store[n][k], k, applied[n])
      BY DEF IndInv, StoreReflectsLog
    <2> QED BY <2>1, <2>2, <2>4, <2>5, ReflectsOnce
  <1> QED BY <1>1, Invariance, PTL

(* A read deletes only keys that some set gave a TTL.                       *)
THEOREM NoTtlNoLoss == Spec => []OnlyTtlKeysDeleted
  <1>1. IndInv => OnlyTtlKeysDeleted
    BY DEF IndInv
  <1> QED BY <1>1, Invariance, PTL
-----------------------------------------------------------------------------
(* Members, extensions and tails of a sequence.                             *)
LEMMA SeqMembers ==
  ASSUME NEW S, NEW q \in Seq(S)
  PROVE  Len(q) \in Nat /\ DOMAIN q = 1..Len(q) /\ \A k \in DOMAIN q : q[k] \in S
BY SMT

(* Append puts one entry last and leaves the others where they are.         *)
LEMMA SeqAppend ==
  ASSUME NEW S, NEW q \in Seq(S), NEW e \in S
  PROVE  /\ Append(q, e) \in Seq(S) /\ Len(Append(q, e)) = Len(q) + 1
         /\ \A k \in DOMAIN q : Append(q, e)[k] = q[k] /\ k \in DOMAIN Append(q, e)
         /\ Append(q, e)[Len(q) + 1] = e /\ Len(q) + 1 \in DOMAIN Append(q, e)
         /\ \A k \in DOMAIN Append(q, e) : k \in DOMAIN q \/ k = Len(q) + 1
         /\ Len(q) + 1 \notin DOMAIN q
BY SMT

(* Tail drops the first entry and moves the others down by one.             *)
LEMMA SeqTail ==
  ASSUME NEW S, NEW q \in Seq(S), q # << >>
  PROVE  /\ Tail(q) \in Seq(S) /\ Len(Tail(q)) = Len(q) - 1
         /\ \A k \in DOMAIN Tail(q) : k + 1 \in DOMAIN q /\ Tail(q)[k] = q[k + 1]
         /\ \A j, k \in DOMAIN Tail(q) : j # k => j + 1 # k + 1
BY SMT

-----------------------------------------------------------------------------
(* ErrorRecovery *)

(* The record's count is the number of attempts since the last reset.       *)
RecoveryInv ==
    /\ attempt \in [generation : Nat, count : 0..MaxAttempts, wait : Int]
    /\ started = attempt.count

(* Every registration, attempt and reset keeps the count at the attempts    *)
(* that were started.                                                       *)
LEMMA RecoveryStep == RecoveryInv /\ [RecoveryNext]_recoveryVars => RecoveryInv'
<1> SUFFICES ASSUME RecoveryInv, [RecoveryNext]_recoveryVars PROVE RecoveryInv'
  BY SMT
<1> USE RecoveryAssumption DEF RecoveryInv
<1>1. CASE RegisterRecovery BY SMT, <1>1 DEF RegisterRecovery
<1>2. CASE BackoffPasses BY SMT, <1>2 DEF BackoffPasses
<1>3. CASE ResetAttempts
  <2>1. attempt' = [generation |-> attempt.generation, count |-> 0, wait |-> 0]
    BY <1>3 DEF ResetAttempts
  <2> QED BY SMT, <1>3, <2>1 DEF ResetAttempts
<1>4. ASSUME NEW r \in Recoverers, StartAttempt(r) PROVE RecoveryInv'
  BY SMT, <1>4 DEF StartAttempt
<1>5. ASSUME NEW r \in Recoverers, NEW ok \in BOOLEAN, EndAttempt(r, ok) PROVE RecoveryInv'
  <2>1. attempt.count * Backoff \in Int BY SMT
  <2> QED BY SMT, <1>5, <2>1 DEF EndAttempt
<1>6. CASE UNCHANGED recoveryVars BY <1>6 DEF recoveryVars
<1> QED BY <1>1, <1>2, <1>3, <1>4, <1>5, <1>6 DEF RecoveryNext

(* For any goroutines, limit and backoff, and any overlap of the attempts,  *)
(* the recovery function is started at most maxAttempts times between two   *)
(* resets: AttemptRecovery counts under the lock that it checks under.      *)
THEOREM RecoveryIsBounded == RecoverySpec => []AttemptsBounded
<1>1. RecoveryInit => RecoveryInv
  BY SMT, RecoveryAssumption DEF RecoveryInit, RecoveryInv
<1>2. RecoveryInv => AttemptsBounded
  BY SMT, RecoveryAssumption DEF RecoveryInv, AttemptsBounded
<1> QED BY <1>1, <1>2, RecoveryStep, PTL DEF RecoverySpec

-----------------------------------------------------------------------------
(* SnapshotManager *)

(* What is on its way carries the checksum of a store the FSM had, whatever *)
(* has become of the data.                                                  *)
SnapInv ==
    /\ fsm \in states
    /\ \A c \in sent : \E x \in states, o \in {1, 2} :
          c = [store |-> c.store, checksum |-> Checksum(x, o)]

(* Every apply, capture, damage and restore keeps the checksums on their    *)
(* way to stores the FSM had.                                               *)
LEMMA SnapStep == SnapInv /\ [SnapNext]_snapVars => SnapInv'
<1> SUFFICES ASSUME SnapInv, [SnapNext]_snapVars PROVE SnapInv'
  BY SMT
<1>1. ASSUME UNCHANGED <<fsm, states, sent>> PROVE SnapInv'
  BY <1>1 DEF SnapInv
<1>2. ASSUME NEW k \in SnapKeys, NEW new, ApplyChange(k, new) PROVE SnapInv'
  BY <1>2 DEF ApplyChange, SnapInv
<1>3. CASE \/ SnapEnvironment \/ CreateSnapshot \/ StartAutoSnapshot \/ CaptureState
           \/ \E ok \in BOOLEAN : SnapshotTaken(ok)
  BY <1>1, <1>3 DEF SnapEnvironment, CreateSnapshot, StartAutoSnapshot, CaptureState,
                           SnapshotTaken
<1>4. CASE InstallSnapshotToNode
  <2>1. PICK o \in {1, 2} : sent' = {[store |-> fsm, checksum |-> Checksum(fsm, o)]}
    BY <1>4 DEF InstallSnapshotToNode, SendSnapshotData, Captures, Orders
  <2>2. \A d \in sent' : d = [store |-> d.store, checksum |-> Checksum(fsm, o)]
    BY SMT, <2>1
  <2> QED BY <1>4, <2>2 DEF InstallSnapshotToNode, SnapInv
<1>5. CASE DamageSnapshot
  <2>1. PICK c \in sent : \E x : sent' = {[c EXCEPT !.store = x]}
    BY <1>5 DEF DamageSnapshot
  <2>0. PICK y : sent' = {[c EXCEPT !.store = y]}
    BY <2>1
  <2>2. PICK x \in states, o \in {1, 2} : c = [store |-> c.store, checksum |-> Checksum(x, o)]
    BY DEF SnapInv
  <2>3. [c EXCEPT !.store = y] = [store |-> y, checksum |-> Checksum(x, o)]
    BY SMT, <2>2
  <2>4. \A d \in sent' : d = [store |-> d.store, checksum |-> Checksum(x, o)]
    BY <2>0, <2>3
  <2> QED BY <1>5, <2>4 DEF DamageSnapshot, SnapInv
<1>6. ASSUME NEW c \in sent, RestoreFromSnapshot(c) PROVE SnapInv'
  <2>1. PICK x \in states, o \in {1, 2} : c = [store |-> c.store, checksum |-> Checksum(x, o)]
    BY DEF SnapInv
  <2>2. ASSUME NEW p, Checksum(c.store, p) = c.checksum PROVE c.store \in states
    BY SMT, <2>1, <2>2 DEF Checksum
  <2> QED BY <1>6, <2>2 DEF RestoreFromSnapshot, SnapInv
<1>7. CASE UNCHANGED snapVars BY <1>1, <1>7 DEF snapVars
<1> QED BY <1>2, <1>3, <1>4, <1>5, <1>6, <1>7 DEF SnapNext

(* For any keys and values, any captures, damage on the way and restores in *)
(* any order, the FSM holds a store that applying commands had led to       *)
(* (RestoreFromSnapshot checks before it replaces the store).               *)
THEOREM RestoresWhatWasApplied == SnapSpec => []StoreWasApplied
<1>1. SnapInit => SnapInv BY DEF SnapInit, SnapInv
<1>2. SnapInv => StoreWasApplied BY DEF SnapInv, StoreWasApplied
<1> QED BY <1>1, <1>2, SnapStep, PTL DEF SnapSpec

-----------------------------------------------------------------------------
(* DataSyncManager *)

Outcomes == {"completed", "failed"}
Phases == {"run", "captured", "sending", "sent", "counting", "counted", "totalling", "ended"}
Ending == {"counting", "counted", "totalling", "ended", "gone"}
SyncSession ==
    [at : Phases \cup {"none", "gone"}, strategy : Strategies \cup {"none"},
     status : {"idle", "in progress"} \cup Outcomes, sent : Nat, seen : Nat]

(* How finite sets are counted.  The library is drawn on once, where the    *)
(* invariant is shown of the initial states.                                *)
FiniteSetFacts ==
    /\ IsFiniteSet({}) /\ Cardinality({}) = 0
    /\ \A S : IsFiniteSet(S) => Cardinality(S) \in Nat
    /\ \A S, T : IsFiniteSet(T) /\ S \in SUBSET T =>
          /\ IsFiniteSet(S) /\ Cardinality(S) <= Cardinality(T)
          /\ Cardinality(S) = Cardinality(T) => S = T
    /\ \A S, T : IsFiniteSet(S) /\ IsFiniteSet(T) => IsFiniteSet(S \cup T)
    /\ \A S, x : IsFiniteSet(S) =>
          /\ IsFiniteSet(S \cup {x}) /\ IsFiniteSet(S \ {x})
          /\ x \notin S => Cardinality(S \cup {x}) = Cardinality(S) + 1
          /\ x \in S => Cardinality(S \ {x}) = Cardinality(S) - 1

(* The sessions whose store to the counter of a status, or to the total, is *)
(* done: each counter, and each value loaded from it and not stored yet, is *)
(* at most their number.                                                    *)
Counted(status) == {s \in Sessions : session[s].status = status /\ session[s].at # "counting"}
Totalled == {s \in Sessions : session[s].at \in {"ended", "gone"}}

SyncTypeOK ==
    /\ FiniteSetFacts
    /\ session \in [Sessions -> SyncSession]
    /\ \A s \in Sessions : session[s].status \in Outcomes <=> session[s].at \in Ending
    /\ stats \in [completed : Nat, failed : Nat, total : Nat]
    /\ history \in Seq([session : Sessions, status : Outcomes])

FiniteOutcomes == \A o \in Outcomes : IsFiniteSet(With(o))

CountersInv ==
    /\ FiniteOutcomes
    /\ \A o \in Outcomes : stats[o] <= Cardinality(Counted(o))
    /\ stats.total <= Cardinality(Totalled)
    /\ \A s \in Sessions :
          /\ \A o \in Outcomes : session[s].at = "counting" /\ session[s].status = o =>
                session[s].seen <= Cardinality(Counted(o))
          /\ session[s].at = "totalling" => session[s].seen <= Cardinality(Totalled)

SlotsInv ==
    /\ IsFiniteSet(active) /\ Cardinality(active) <= MaxConcurrentSyncs
    /\ active = {s \in Sessions : session[s].at \in Phases}


HistoryInv ==
    /\ Len(history) <= MaxHistory
    /\ \A i \in DOMAIN history : session[history[i].session].at = "gone"
    /\ Len(history) < MaxHistory =>
          \A s \in Sessions : session[s].at = "gone" => \E i \in DOMAIN history : history[i].session = s
    /\ \A i, j \in DOMAIN history : i # j => history[i].session # history[j].session

SyncInv == SyncTypeOK /\ CountersInv /\ SlotsInv /\ HistoryInv

(* What the type invariant says of a session, of an entry and of stats.     *)
LEMMA SyncTypeFacts ==
  ASSUME SyncTypeOK
  PROVE  /\ \A t \in Sessions : /\ session[t].seen \in Nat /\ session[t].seen + 1 \in Nat
                                /\ session[t].at \in Ending => session[t].status \in Outcomes
         /\ \A k \in DOMAIN history : history[k].session \in Sessions
         /\ stats \in [completed : Nat, failed : Nat, total : Nat]
         /\ history \in Seq([session : Sessions, status : Outcomes])
<1>1. \A t \in Sessions : session[t] \in SyncSession BY DEF SyncTypeOK
<1>2. \A t \in Sessions : session[t].seen \in Nat BY <1>1 DEF SyncSession
<1>3. \A k \in DOMAIN history : history[k] \in [session : Sessions, status : Outcomes]
  <2>1. history \in Seq([session : Sessions, status : Outcomes]) BY DEF SyncTypeOK
  <2> QED BY <2>1, SeqMembers
<1> QED BY SMT, <1>2, <1>3 DEF SyncTypeOK

(* The sets that the counters are compared with are finite, and contain     *)
(* each other in the order in which a session goes through them.            *)
CountsAreFinite ==
    /\ \A o \in Outcomes : /\ IsFiniteSet(Counted(o)) /\ Cardinality(Counted(o)) \in Nat
                           /\ Cardinality(Counted(o)) <= Cardinality(With(o))
                           /\ Cardinality(With(o)) \in Nat
    /\ IsFiniteSet(Totalled) /\ Cardinality(Totalled) \in Nat
    /\ Cardinality(Totalled) <= Cardinality(With("completed") \cup With("failed"))
    /\ Cardinality(With("completed") \cup With("failed")) \in Nat

(* The sessions that have counted their end are finitely many.              *)
LEMMA CountedSets ==
  SyncTypeOK /\ FiniteOutcomes => CountsAreFinite
<1> SUFFICES ASSUME SyncTypeOK, FiniteOutcomes PROVE CountsAreFinite
  BY SMT
<1>1. \A o \in Outcomes : Counted(o) \in SUBSET With(o)
  BY DEF Counted, With
<1>2. Totalled \in SUBSET (With("completed") \cup With("failed"))
  BY DEF Totalled, With, SyncTypeOK, Ending, Outcomes
<1>3. IsFiniteSet(With("completed") \cup With("failed"))
  BY DEF Outcomes, FiniteOutcomes, SyncTypeOK, FiniteSetFacts
<1> QED BY <1>1, <1>2, <1>3 DEF CountsAreFinite, FiniteOutcomes, SyncTypeOK, FiniteSetFacts

(* A session only moves on: what it has added to the sets stays in them.    *)
Onward(old, new) ==
    /\ old.status \in Outcomes => new.status = old.status
    /\ old.status \in Outcomes /\ new.at = "counting" => old.at = "counting"
    /\ old.at \in {"ended", "gone"} => new.at \in {"ended", "gone"}

(* A session that goes on can only add to the sessions that have counted.   *)
LEMMA CountsGrow ==
  ASSUME SyncTypeOK, FiniteOutcomes, SyncTypeOK',
         NEW s \in Sessions, NEW r \in SyncSession,
         session' = [session EXCEPT ![s] = r], Onward(session[s], r)
  PROVE  /\ FiniteOutcomes'
         /\ \A o \in Outcomes : /\ Cardinality(Counted(o)) <= Cardinality(Counted(o)')
                                /\ s \notin Counted(o) /\ s \in Counted(o)' =>
                                      Cardinality(Counted(o)') >= Cardinality(Counted(o)) + 1
         /\ Cardinality(Totalled) <= Cardinality(Totalled')
         /\ s \notin Totalled /\ s \in Totalled' =>
               Cardinality(Totalled') >= Cardinality(Totalled) + 1
<1>1. session'[s] = r /\ \A t \in Sessions : t # s => session'[t] = session[t]
  BY DEF SyncTypeOK
<1>2. ASSUME NEW o \in Outcomes
      PROVE  /\ With(o)' \in SUBSET (With(o) \cup {s}) /\ Counted(o) \in SUBSET Counted(o)'
             /\ Totalled \in SUBSET Totalled'
  BY <1>1 DEF With, Counted, Totalled, Onward
<1>3. \A o \in Outcomes : IsFiniteSet(With(o)')
  <2> SUFFICES ASSUME NEW o \in Outcomes PROVE IsFiniteSet(With(o)') BY SMT
  <2>1. IsFiniteSet(With(o) \cup {s}) BY DEF FiniteOutcomes, SyncTypeOK, FiniteSetFacts
  <2> QED BY <1>2, <2>1 DEF SyncTypeOK, FiniteSetFacts
<1>4. /\ \A o \in Outcomes : /\ IsFiniteSet(Counted(o)) /\ IsFiniteSet(Counted(o)')
                             /\ Cardinality(Counted(o)) \in Nat /\ Cardinality(Counted(o)') \in Nat
      /\ IsFiniteSet(Totalled) /\ IsFiniteSet(Totalled')
      /\ Cardinality(Totalled) \in Nat /\ Cardinality(Totalled') \in Nat
  <2>1. FiniteOutcomes' BY <1>3 DEF FiniteOutcomes
  <2>2. CountsAreFinite' BY <2>1, CountedSets, PTL
  <2> QED BY <2>2, CountedSets DEF CountsAreFinite
<1>5. ASSUME NEW S, NEW T, IsFiniteSet(S), IsFiniteSet(T), S \in SUBSET T,
             Cardinality(S) \in Nat, Cardinality(T) \in Nat
      PROVE  /\ Cardinality(S) <= Cardinality(T)
             /\ s \notin S /\ s \in T => Cardinality(T) >= Cardinality(S) + 1
  <2>1. Cardinality(S) <= Cardinality(T) BY <1>5 DEF SyncTypeOK, FiniteSetFacts
  <2>2. ASSUME s \notin S, s \in T PROVE Cardinality(T) >= Cardinality(S) + 1
    <3>1. Cardinality(T) # Cardinality(S) BY <1>5, <2>2 DEF SyncTypeOK, FiniteSetFacts
    <3> QED BY SMT, <1>5, <2>1, <3>1
  <2> QED BY SMT, <2>1, <2>2
<1>6. "completed" \in Outcomes BY DEF Outcomes
<1> QED BY <1>2, <1>3, <1>4, <1>5, <1>6 DEF FiniteOutcomes

(* What a session that goes from record old to record r does to stats: it   *)
(* leaves them, or stores what it had loaded and one more.                  *)
StoresWhatItLoaded(old, r) ==
    \/ UNCHANGED stats
    \/ /\ old.at = "counting" /\ r.at = "counted"
       /\ stats' = [stats EXCEPT ![old.status] = old.seen + 1]
    \/ /\ old.at = "totalling" /\ r.at = "ended"
       /\ stats' = [stats EXCEPT !.total = old.seen + 1]

LoadsTheCounter(r) ==
    /\ r.at = "counting" => r.seen = stats[r.status]
    /\ r.at = "totalling" => r.seen = stats.total

(* A session that loads a counter, or stores what it loaded plus one, keeps *)
(* the counters below the ends.                                             *)
LEMMA CountersStep ==
  ASSUME SyncTypeOK, CountersInv, SyncTypeOK',
         NEW s \in Sessions, NEW r \in SyncSession,
         session' = [session EXCEPT ![s] = r], Onward(session[s], r),
         StoresWhatItLoaded(session[s], r), LoadsTheCounter(r)
  PROVE  CountersInv'
<1>1. FiniteOutcomes BY DEF CountersInv
<1>2. /\ FiniteOutcomes'
      /\ \A o \in Outcomes : /\ Cardinality(Counted(o)) <= Cardinality(Counted(o)')
                             /\ s \notin Counted(o) /\ s \in Counted(o)' =>
                                   Cardinality(Counted(o)') >= Cardinality(Counted(o)) + 1
      /\ Cardinality(Totalled) <= Cardinality(Totalled')
      /\ s \notin Totalled /\ s \in Totalled' =>
            Cardinality(Totalled') >= Cardinality(Totalled) + 1
  BY <1>1, CountsGrow
<1>3. CountsAreFinite /\ CountsAreFinite'
  BY <1>1, <1>2, CountedSets, PTL
<1>4. /\ \A o \in Outcomes : Cardinality(Counted(o)) \in Nat /\ Cardinality(Counted(o)') \in Nat
      /\ Cardinality(Totalled) \in Nat /\ Cardinality(Totalled') \in Nat
  BY <1>3 DEF CountsAreFinite
<1>5. session'[s] = r /\ \A t \in Sessions : t # s => session'[t] = session[t]
  BY DEF SyncTypeOK
<1>6. r.status \in Outcomes <=> r.at \in Ending
  BY <1>5 DEF SyncTypeOK
<1>7. \A t \in Sessions : session[t].seen \in Nat /\ (session[t].at \in Ending => session[t].status \in Outcomes)
  BY DEF SyncTypeOK, SyncSession
<1>8. \A o \in Outcomes : stats[o] \in Nat /\ stats'[o] \in Nat
  BY DEF SyncTypeOK, Outcomes
<1>9. stats.total \in Nat /\ stats'.total \in Nat
  BY SMT DEF SyncTypeOK
<1>10. /\ \A o \in Outcomes : stats[o] <= Cardinality(Counted(o))
       /\ stats.total <= Cardinality(Totalled)
       /\ \A t \in Sessions :
            /\ \A o \in Outcomes : session[t].at = "counting" /\ session[t].status = o =>
                  session[t].seen <= Cardinality(Counted(o))
            /\ session[t].at = "totalling" => session[t].seen <= Cardinality(Totalled)
  BY DEF CountersInv
<1>11. ASSUME NEW o \in Outcomes PROVE stats'[o] <= Cardinality(Counted(o)')
  <2>1. CASE stats'[o] = stats[o] BY SMT, <1>2, <1>4, <1>8, <1>10, <2>1
  <2>2. CASE stats'[o] # stats[o]
    <3>1. session[s].at = "counting" /\ r.at = "counted" /\ session[s].status = o
          /\ stats'[o] = session[s].seen + 1
      BY <2>2, <1>7 DEF StoresWhatItLoaded, SyncTypeOK, Outcomes, Ending
    <3>2. s \notin Counted(o) /\ s \in Counted(o)'
      BY SMT, <1>5, <3>1 DEF Counted, Onward
    <3>3. session[s].seen <= Cardinality(Counted(o)) BY <1>10, <3>1
    <3> QED BY SMT, <1>2, <1>4, <1>7, <3>1, <3>2, <3>3
  <2> QED BY SMT, <2>1, <2>2
<1>12. stats'.total <= Cardinality(Totalled')
  <2>1. CASE stats'.total = stats.total BY SMT, <1>2, <1>4, <1>9, <1>10, <2>1
  <2>2. CASE stats'.total # stats.total
    <3>1. session[s].at = "totalling" /\ r.at = "ended" /\ stats'.total = session[s].seen + 1
      BY <2>2, <1>7 DEF StoresWhatItLoaded, SyncTypeOK, Outcomes, Ending
    <3>2. s \notin Totalled /\ s \in Totalled'
      BY SMT, <1>5, <3>1 DEF Totalled
    <3>3. session[s].seen <= Cardinality(Totalled) BY <1>10, <3>1
    <3> QED BY SMT, <1>2, <1>4, <1>7, <3>1, <3>2, <3>3
  <2> QED BY <2>1, <2>2
<1>13. ASSUME NEW t \in Sessions, NEW o \in Outcomes,
              session'[t].at = "counting", session'[t].status = o
       PROVE  session'[t].seen <= Cardinality(Counted(o)')
  <2>1. session'[t].seen \in Nat
    BY DEF SyncTypeOK, SyncSession
  <2>2. session'[t].seen <= Cardinality(Counted(o))
    <3>1. CASE t = s BY SMT, <1>5, <1>10, <1>13, <3>1 DEF LoadsTheCounter
    <3>2. CASE t # s BY <1>5, <1>10, <1>13, <3>2
    <3> QED BY <3>1, <3>2
  <2> QED BY SMT, <1>2, <1>4, <2>1, <2>2
<1>14. ASSUME NEW t \in Sessions, session'[t].at = "totalling"
       PROVE  session'[t].seen <= Cardinality(Totalled')
  <2>1. session'[t].seen \in Nat
    BY <1>14 DEF SyncTypeOK, SyncSession
  <2>2. session'[t].seen <= Cardinality(Totalled)
    <3>1. CASE t = s BY SMT, <1>5, <1>10, <1>14, <2>1, <3>1 DEF LoadsTheCounter
    <3>2. CASE t # s BY <1>5, <1>10, <1>14, <3>2
    <3> QED BY <3>1, <3>2
  <2> QED BY SMT, <1>2, <1>4, <2>1, <2>2
<1> QED BY <1>2, <1>11, <1>12, <1>13, <1>14 DEF CountersInv

(* A session that keeps its slot: nothing but its record and stats change.  *)
LEMMA MoveKeepsSyncInv ==
  ASSUME SyncInv, NEW s \in Sessions, NEW r \in SyncSession,
         session' = [session EXCEPT ![s] = r], UNCHANGED <<active, history>>,
         session[s].at \in Phases, r.at \in Phases,
         r.status \in Outcomes <=> r.at \in Ending,
         Onward(session[s], r), StoresWhatItLoaded(session[s], r), LoadsTheCounter(r)
  PROVE  SyncInv'
<1>1. session'[s] = r /\ \A t \in Sessions : t # s => session'[t] = session[t]
  BY DEF SyncInv, SyncTypeOK
<1> USE <1>1
<1>2. stats' \in [completed : Nat, failed : Nat, total : Nat]
  <2>1. /\ stats \in [completed : Nat, failed : Nat, total : Nat] /\ session[s].seen + 1 \in Nat
        /\ session[s].at = "counting" => session[s].status \in Outcomes
    BY SyncTypeFacts DEF SyncInv, Ending
  <2> QED BY SMT, <2>1 DEF StoresWhatItLoaded, Outcomes
<1>3. session' \in [Sessions -> SyncSession] BY DEF SyncInv, SyncTypeOK
<1>4. SyncTypeOK'
  BY <1>2, <1>3 DEF SyncInv, SyncTypeOK
<1>5. CountersInv'
  BY <1>4, CountersStep DEF SyncInv
<1>6. SlotsInv'
  <2>1. \A t \in Sessions : session'[t].at \in Phases <=> session[t].at \in Phases
    OBVIOUS
  <2> QED BY <2>1 DEF SyncInv, SlotsInv
<1>7. HistoryInv'
  <2>1. \A t \in Sessions : session'[t].at = "gone" <=> session[t].at = "gone"
    BY SMT DEF Phases
  <2>2. \A k \in DOMAIN history : history[k].session \in Sessions
    BY SyncTypeFacts DEF SyncInv
  <2> QED BY <2>1, <2>2 DEF SyncInv, HistoryInv
<1> QED BY <1>4, <1>5, <1>6, <1>7 DEF SyncInv

(* SyncNewNode takes one of the slots.                                      *)
LEMMA StartKeepsSyncInv ==
  ASSUME SyncInv, NEW s \in Sessions, NEW st \in Strategies, SyncNewNode(s, st)
  PROVE  SyncInv'
<1> DEFINE r == Started(st)
<1>0. /\ session' = [session EXCEPT ![s] = r] /\ UNCHANGED <<stats, history>>
      /\ active' = active \cup {s} /\ Cardinality(active) < MaxConcurrentSyncs
      /\ session[s] = NotStarted
  BY DEF SyncNewNode
<1>a. /\ r \in SyncSession /\ r.at = "run" /\ r.status = "in progress"
       /\ NotStarted.at = "none" /\ NotStarted.status = "idle"
  BY DEF Started, NotStarted, SyncSession, Phases
<1> HIDE DEF r
<1>1. session'[s] = r /\ \A t \in Sessions : t # s => session'[t] = session[t]
  BY <1>0, <1>a DEF SyncInv, SyncTypeOK
<1>2. session[s].at = "none" /\ session[s].status = "idle"
  BY <1>0, <1>a
<1>3. SyncTypeOK'
  <2>1. session' \in [Sessions -> SyncSession] BY <1>0, <1>a DEF SyncInv, SyncTypeOK
  <2>2. r.status \notin Outcomes /\ r.at \notin Ending BY <1>a DEF Outcomes, Ending
  <2> QED BY <1>0, <1>1, <2>1, <2>2 DEF SyncInv, SyncTypeOK
<1>4. CountersInv'
  <2>1. Onward(session[s], r) /\ StoresWhatItLoaded(session[s], r) /\ LoadsTheCounter(r)
    BY <1>0, <1>a, <1>2 DEF Onward, StoresWhatItLoaded, LoadsTheCounter, Outcomes
  <2> QED BY <1>0, <1>a, <1>3, <2>1, CountersStep DEF SyncInv
<1>5. SlotsInv'
  <2>1. r.at \in Phases BY <1>a DEF Phases
  <2>2. active' = {t \in Sessions : session'[t].at \in Phases}
    BY <1>0, <1>1, <2>1 DEF SyncInv, SlotsInv
  <2>3. IsFiniteSet(active) /\ Cardinality(active) \in Nat /\ s \notin active
    BY <1>2 DEF SyncInv, SlotsInv, Phases, SyncTypeOK, FiniteSetFacts
  <2>4. IsFiniteSet(active') /\ Cardinality(active') = Cardinality(active) + 1
    BY <1>0, <2>3 DEF SyncInv, SyncTypeOK, FiniteSetFacts
  <2>5. Cardinality(active') <= MaxConcurrentSyncs BY SMT, <1>0, <2>3, <2>4, SyncAssumption
  <2> QED BY <2>2, <2>4, <2>5 DEF SlotsInv
<1>6. HistoryInv'
  <2>1. \A t \in Sessions : session'[t].at = "gone" <=> session[t].at = "gone"
    BY <1>a, <1>1, <1>2
  <2>2. \A k \in DOMAIN history : history[k].session \in Sessions
    BY SyncTypeFacts DEF SyncInv
  <2> QED BY <1>0, <2>1, <2>2 DEF SyncInv, HistoryInv
<1> QED BY <1>3, <1>4, <1>5, <1>6 DEF SyncInv

(* finalizeSyncSession gives the slot back and enters the session into the  *)
(* history, from which the oldest goes once there is no room.               *)
LEMMA EndKeepsSyncInv ==
  ASSUME SyncInv, NEW s \in Sessions, FinalizeSyncSession(s)
  PROVE  SyncInv'
<1> DEFINE r == [session[s] EXCEPT !.at = "gone"]
           entry == [session |-> s, status |-> session[s].status]
           h == Append(history, entry)
<1>0. session' = [session EXCEPT ![s] = r] /\ r \in SyncSession /\ UNCHANGED stats
      /\ r.at = "gone" /\ r.status = session[s].status /\ session[s].at = "ended"
      /\ session[s].status \in Outcomes
  BY DEF FinalizeSyncSession, SyncInv, SyncTypeOK, SyncSession, Phases, Ending
<1> HIDE DEF r
<1>1. session'[s] = r /\ \A t \in Sessions : t # s => session'[t] = session[t]
  BY <1>0 DEF SyncInv, SyncTypeOK
<1>2. /\ history \in Seq([session : Sessions, status : Outcomes])
      /\ entry \in [session : Sessions, status : Outcomes]
      /\ Len(history) \in Nat /\ Len(history) <= MaxHistory /\ MaxHistory \in Nat
  BY SMT, <1>0, SyncAssumption DEF SyncInv, SyncTypeOK, HistoryInv
<1>d. entry.session = s BY SMT
<1> HIDE DEF entry
<1>3. /\ h \in Seq([session : Sessions, status : Outcomes]) /\ Len(h) = Len(history) + 1
      /\ \A k \in DOMAIN history : h[k] = history[k] /\ k \in DOMAIN h
      /\ h[Len(history) + 1] = entry /\ Len(history) + 1 \in DOMAIN h
      /\ \A k \in DOMAIN h : k \in DOMAIN history \/ k = Len(history) + 1
      /\ Len(history) + 1 \notin DOMAIN history
  BY ZenonT(30), <1>2, SeqAppend
<1>b. /\ Tail(h) \in Seq([session : Sessions, status : Outcomes]) /\ Len(Tail(h)) = Len(h) - 1
      /\ \A k \in DOMAIN Tail(h) : k + 1 \in DOMAIN h /\ Tail(h)[k] = h[k + 1]
      /\ \A j, k \in DOMAIN Tail(h) : j # k => j + 1 # k + 1
  <2>1. h # << >> BY SMT, <1>2, <1>3
  <2> QED BY <1>3, <2>1, SeqTail
<1>c. history' = IF Len(h) > MaxHistory THEN Tail(h) ELSE h
  BY DEF FinalizeSyncSession, entry
<1> HIDE DEF h
<1>4. /\ history' \in Seq([session : Sessions, status : Outcomes]) /\ Len(history') <= MaxHistory
      /\ Len(history) < MaxHistory => history' = h
      /\ Len(history) = MaxHistory => Len(history') = MaxHistory /\ history' = Tail(h)
  BY SMT, <1>2, <1>3, <1>b, <1>c
<1>5. SyncTypeOK'
  <2>1. session' \in [Sessions -> SyncSession] BY <1>0 DEF SyncInv, SyncTypeOK
  <2>2. r.at \in Ending BY SMT, <1>0 DEF Ending
  <2> QED BY <1>0, <1>1, <1>4, <2>1, <2>2 DEF SyncInv, SyncTypeOK
<1>6. CountersInv'
  <2>1. Onward(session[s], r) /\ StoresWhatItLoaded(session[s], r) /\ LoadsTheCounter(r)
    BY SMT, <1>0 DEF Onward, StoresWhatItLoaded, LoadsTheCounter, Outcomes
  <2> QED BY <1>0, <1>5, <2>1, CountersStep DEF SyncInv
<1>7. SlotsInv'
  <2>1. r.at \notin Phases /\ session[s].at \in Phases BY SMT, <1>0 DEF Phases
  <2>2. active' = {t \in Sessions : session'[t].at \in Phases}
    BY <1>1, <2>1 DEF FinalizeSyncSession, SyncInv, SlotsInv
  <2>3. IsFiniteSet(active) /\ Cardinality(active) \in Nat /\ s \in active
    BY <2>1 DEF SyncInv, SlotsInv, SyncTypeOK, FiniteSetFacts
  <2>4. IsFiniteSet(active') /\ Cardinality(active') = Cardinality(active) - 1
    BY <2>3 DEF FinalizeSyncSession, SyncInv, SyncTypeOK, FiniteSetFacts
  <2> QED BY SMT, <2>2, <2>3, <2>4, SyncAssumption DEF SyncInv, SlotsInv
<1>8. /\ \A i \in DOMAIN h : session'[h[i].session].at = "gone"
      /\ \A i, j \in DOMAIN h : i # j => h[i].session # h[j].session
  <2>1. \A i \in DOMAIN history : history[i].session \in Sessions /\ history[i].session # s
    <3>1. \A i \in DOMAIN history : history[i].session \in Sessions
      BY SyncTypeFacts DEF SyncInv
    <3>2. "ended" # "gone" BY SMT
    <3> QED BY <1>0, <3>1, <3>2 DEF SyncInv, HistoryInv
  <2>2. /\ \A i \in DOMAIN history : session'[history[i].session].at = "gone"
        /\ \A i, j \in DOMAIN history : i # j => history[i].session # history[j].session
    BY <1>1, <2>1 DEF SyncInv, HistoryInv
  <2>3. h[Len(history) + 1].session = s /\ session'[s].at = "gone"
    BY <1>0, <1>1, <1>3, <1>d
  <2>4. ASSUME NEW i \in DOMAIN h PROVE session'[h[i].session].at = "gone"
    <3>1. CASE i \in DOMAIN history
      <4>1. h[i] = history[i] BY <1>3, <3>1
      <4> QED BY <2>2, <3>1, <4>1
    <3>2. CASE i = Len(history) + 1 BY <2>3, <3>2
    <3> QED BY <1>3, <3>1, <3>2
  <2>5. ASSUME NEW i \in DOMAIN h, NEW j \in DOMAIN h, i # j PROVE h[i].session # h[j].session
    <3>1. \A k \in DOMAIN history : h[k].session = history[k].session BY <1>3
    <3>2. i \in DOMAIN history \/ i = Len(history) + 1 BY <1>3
    <3>3. j \in DOMAIN history \/ j = Len(history) + 1 BY <1>3
    <3> QED BY <2>1, <2>2, <2>3, <2>5, <3>1, <3>2, <3>3
  <2> QED BY <2>4, <2>5
<1> USE <1>8
<1>9. HistoryInv'
  <2>1. CASE Len(history) < MaxHistory
    <3>1. ASSUME NEW t \in Sessions, session'[t].at = "gone"
          PROVE  \E i \in DOMAIN h : h[i].session = t
      <4>1. CASE t = s BY <1>3, <1>d, <4>1
      <4>2. CASE t # s
        <5>1. PICK i \in DOMAIN history : history[i].session = t
          BY <1>1, <2>1, <3>1, <4>2 DEF SyncInv, HistoryInv
        <5> QED BY <1>3, <5>1
      <4> QED BY <4>1, <4>2
    <3> QED BY <1>4, <2>1, <3>1 DEF HistoryInv
  <2>2. CASE Len(history) = MaxHistory
    <3>3. ~(Len(history') < MaxHistory) BY SMT, <1>2, <1>4, <2>2
    <3>4. /\ \A k \in DOMAIN history' : k + 1 \in DOMAIN h /\ history'[k] = h[k + 1]
          /\ \A j, k \in DOMAIN history' : j # k => j + 1 # k + 1
      <4>1. history' = Tail(h) BY <1>4, <2>2
      <4> QED BY <1>b, <4>1
    <3> USE <3>4
    <3>5. \A k \in DOMAIN history' : session'[history'[k].session].at = "gone"
      OBVIOUS
    <3>6. ASSUME NEW j \in DOMAIN history', NEW k \in DOMAIN history', j # k
          PROVE  history'[j].session # history'[k].session
      <4>1. j + 1 \in DOMAIN h /\ k + 1 \in DOMAIN h /\ j + 1 # k + 1 BY <3>6
      <4>2. h[j + 1].session # h[k + 1].session BY <4>1
      <4> QED BY <4>2
    <3> QED BY <1>4, <3>3, <3>5, <3>6 DEF HistoryInv
  <2> QED BY SMT, <1>2, <2>1, <2>2
<1> QED BY <1>5, <1>6, <1>7, <1>9 DEF SyncInv

(* Every session's steps that keep its slot are moves.                      *)
LEMMA SessionKeepsSyncInv ==
  ASSUME SyncInv, NEW s \in Sessions,
         \/ SyncViaIncremental(s) \/ SyncViaSnapshot(s) \/ SendSnapshotToNode(s)
         \/ SendChunk(s) \/ ReadResponse(s)
         \/ StoreOutcome(s) \/ LoadTotal(s) \/ StoreTotal(s)
  PROVE  SyncInv'
<1> DEFINE old == session[s]
<1>1. /\ old \in SyncSession /\ session \in [Sessions -> SyncSession]
      /\ stats.total \in Nat /\ \A o \in Outcomes : stats[o] \in Nat
      /\ old.status \in Outcomes <=> old.at \in Ending
  <2>1. stats \in [completed : Nat, failed : Nat, total : Nat] BY DEF SyncInv, SyncTypeOK
  <2>2. stats.total \in Nat /\ \A o \in Outcomes : stats[o] \in Nat BY SMT, <2>1 DEF Outcomes
  <2> QED BY <2>2 DEF SyncInv, SyncTypeOK
<1> USE <1>1
<1>2. ASSUME NEW r, r \in SyncSession, old.at \in Phases, r.at \in Phases,
             r.status \in Outcomes <=> r.at \in Ending, Onward(old, r), LoadsTheCounter(r),
             session' = [session EXCEPT ![s] = r], UNCHANGED <<active, history>>,
             StoresWhatItLoaded(old, r)
      PROVE  SyncInv'
  BY <1>2, MoveKeepsSyncInv
<1> USE <1>2
<1>3. ASSUME NEW status \in Outcomes, old.at \in {"run", "captured", "sending", "sent"},
             SessionSets(s, Ended(s, status))
      PROVE  SyncInv'
  <2> USE <1>3
  <2> DEFINE r == Ended(s, status)
  <2>1. r \in SyncSession /\ r.at = "counting" /\ r.status = status /\ r.seen = stats[status]
    BY DEF Ended, SyncSession, Phases, Outcomes
  <2> USE <2>1
  <2>2. session' = [session EXCEPT ![s] = r] /\ UNCHANGED <<active, history, stats>>
    BY DEF SessionSets
  <2> HIDE DEF r
  <2>3. Onward(old, r) /\ LoadsTheCounter(r) /\ StoresWhatItLoaded(old, r)
    BY <2>2 DEF Onward, LoadsTheCounter, StoresWhatItLoaded, Ending
  <2>4. old.at \in Phases /\ r.at \in Phases /\ (r.status \in Outcomes <=> r.at \in Ending)
    BY DEF Phases, Ending
  <2> QED BY <2>2, <2>3, <2>4
<1> USE <1>3
<1>4. ASSUME NEW r, r \in SyncSession, r.at \in {"captured", "sending", "sent"},
             old.at \in {"run", "captured", "sending"}, r.status = old.status,
             SessionSets(s, r)
      PROVE  SyncInv'
  <2> USE <1>4
  <2>1. session' = [session EXCEPT ![s] = r] /\ UNCHANGED <<active, history, stats>>
    BY DEF SessionSets
  <2>2. Onward(old, r) /\ LoadsTheCounter(r) /\ StoresWhatItLoaded(old, r)
    BY <2>1 DEF Onward, LoadsTheCounter, StoresWhatItLoaded, Ending
  <2>3. old.at \in Phases /\ r.at \in Phases /\ (r.status \in Outcomes <=> r.at \in Ending)
    BY DEF Phases, Ending
  <2> QED BY <2>1, <2>2, <2>3
<1>5. CASE SyncViaIncremental(s)
  BY <1>5 DEF SyncViaIncremental, Outcomes
<1>6. CASE SyncViaSnapshot(s) \/ SendSnapshotToNode(s)
  <2>1. ASSUME NEW at \in {"captured", "sending"}, SessionSets(s, [old EXCEPT !.at = at]),
               old.at \in {"run", "captured"}
        PROVE  SyncInv'
    <3> DEFINE r == [old EXCEPT !.at = at]
    <3>1. r \in SyncSession /\ r.at = at /\ r.status = old.status
      BY DEF SyncSession, Phases
    <3> HIDE DEF r
    <3> QED BY <1>4, <2>1, <3>1 DEF r
  <2> QED BY <1>6, <2>1 DEF SyncViaSnapshot, SendSnapshotToNode, Outcomes
<1>7. CASE SendChunk(s)
  <2> DEFINE n == old.sent + 1
             at == IF n = Chunks THEN "sent" ELSE "sending"
             r == [old EXCEPT !.sent = n, !.at = at]
  <2>1. r \in SyncSession /\ r.at \in {"sent", "sending"} /\ r.status = old.status
    <3>1. old.sent \in Nat BY DEF SyncSession
    <3>2. n \in Nat BY SMT, <3>1
    <3>3. at \in {"sent", "sending"} OBVIOUS
    <3> HIDE DEF n, at
    <3> QED BY <3>2, <3>3 DEF SyncSession, Phases
  <2>2. old.at = "sending" /\ (SessionSets(s, Ended(s, "failed")) \/ SessionSets(s, r))
    BY <1>7 DEF SendChunk
  <2> HIDE DEF r
  <2> QED BY <1>4, <2>1, <2>2 DEF Outcomes
<1>8. CASE ReadResponse(s)
  BY <1>8 DEF ReadResponse, Outcomes
<1>9. CASE StoreOutcome(s)
  <2> DEFINE r == [old EXCEPT !.at = "counted"]
  <2>1. r \in SyncSession /\ r.at = "counted" /\ r.status = old.status /\ old.at = "counting"
    BY <1>9 DEF SyncSession, Phases, StoreOutcome
  <2> USE <2>1
  <2>2. session' = [session EXCEPT ![s] = r] /\ UNCHANGED <<active, history>>
        /\ stats' = [stats EXCEPT ![old.status] = old.seen + 1]
    BY <1>9 DEF StoreOutcome
  <2> HIDE DEF r
  <2>3. Onward(old, r) /\ LoadsTheCounter(r) /\ StoresWhatItLoaded(old, r)
    BY <2>2 DEF Onward, LoadsTheCounter, StoresWhatItLoaded
  <2>4. old.at \in Phases /\ r.at \in Phases /\ (r.status \in Outcomes <=> r.at \in Ending)
    BY DEF Phases, Ending
  <2> QED BY <2>2, <2>3, <2>4
<1>10. CASE LoadTotal(s)
  <2> DEFINE r == [old EXCEPT !.at = "totalling", !.seen = stats.total]
  <2>1. /\ r \in SyncSession /\ r.at = "totalling" /\ r.status = old.status
        /\ r.seen = stats.total /\ old.at = "counted"
    BY <1>10 DEF SyncSession, Phases, LoadTotal
  <2> USE <2>1
  <2>2. session' = [session EXCEPT ![s] = r] /\ UNCHANGED <<active, history, stats>>
    BY <1>10 DEF LoadTotal, SessionSets
  <2> HIDE DEF r
  <2>3. Onward(old, r) /\ LoadsTheCounter(r) /\ StoresWhatItLoaded(old, r)
    BY <2>2 DEF Onward, LoadsTheCounter, StoresWhatItLoaded
  <2>4. old.at \in Phases /\ r.at \in Phases /\ (r.status \in Outcomes <=> r.at \in Ending)
    BY DEF Phases, Ending
  <2> QED BY <2>2, <2>3, <2>4
<1>11. CASE StoreTotal(s)
  <2> DEFINE r == [old EXCEPT !.at = "ended"]
  <2>1. r \in SyncSession /\ r.at = "ended" /\ r.status = old.status /\ old.at = "totalling"
    BY <1>11 DEF SyncSession, Phases, StoreTotal
  <2> USE <2>1
  <2>2. session' = [session EXCEPT ![s] = r] /\ UNCHANGED <<active, history>>
        /\ stats' = [stats EXCEPT !.total = old.seen + 1]
    BY <1>11 DEF StoreTotal
  <2> HIDE DEF r
  <2>3. Onward(old, r) /\ LoadsTheCounter(r) /\ StoresWhatItLoaded(old, r)
    BY <2>2 DEF Onward, LoadsTheCounter, StoresWhatItLoaded
  <2>4. old.at \in Phases /\ r.at \in Phases /\ (r.status \in Outcomes <=> r.at \in Ending)
    BY DEF Phases, Ending
  <2> QED BY <2>2, <2>3, <2>4
<1> QED BY <1>5, <1>6, <1>7, <1>8, <1>9, <1>10, <1>11

(* Every step of the sessions, in any order.                                *)
LEMMA SyncStep == SyncInv /\ [SyncNext]_syncVars => SyncInv'
<1> SUFFICES ASSUME SyncInv, [SyncNext]_syncVars PROVE SyncInv'
  BY SMT
<1>1. ASSUME NEW strategy \in Strategies, NEW large \in BOOLEAN
      PROVE  DeterminedStrategy(strategy, large) \in Strategies
  BY DEF DeterminedStrategy, Strategies
<1>2. CASE UNCHANGED syncVars
  <2>0. UNCHANGED session /\ UNCHANGED active /\ UNCHANGED stats /\ UNCHANGED history
    BY <1>2 DEF syncVars
  <2> USE <2>0
  <2>1. SyncTypeOK' BY DEF SyncInv, SyncTypeOK
  <2>2. \A o : With(o)' = With(o) /\ Counted(o)' = Counted(o)
    BY DEF With, Counted
  <2>3. CountersInv' BY <2>2 DEF SyncInv, CountersInv, FiniteOutcomes, Totalled
  <2>4. SlotsInv' /\ HistoryInv' BY DEF SyncInv, SlotsInv, HistoryInv
  <2> QED BY <2>1, <2>3, <2>4 DEF SyncInv
<1> QED BY <1>1, <1>2, StartKeepsSyncInv, SessionKeepsSyncInv, EndKeepsSyncInv DEF SyncNext

INSTANCE FiniteSetTheorems

(* What the library says of finite sets.                                    *)
LEMMA FiniteSetFactsHold == FiniteSetFacts
<1>1. IsFiniteSet({}) /\ Cardinality({}) = 0 BY FS_EmptySet
<1>2. \A S : IsFiniteSet(S) => Cardinality(S) \in Nat BY FS_CardinalityType
<1>3. \A S, T : IsFiniteSet(T) /\ S \in SUBSET T =>
         /\ IsFiniteSet(S) /\ Cardinality(S) <= Cardinality(T)
         /\ Cardinality(S) = Cardinality(T) => S = T
  BY FS_Subset
<1>4. \A S, T : IsFiniteSet(S) /\ IsFiniteSet(T) => IsFiniteSet(S \cup T) BY FS_Union
<1>5. \A S, x : IsFiniteSet(S) =>
         /\ IsFiniteSet(S \cup {x}) /\ IsFiniteSet(S \ {x})
         /\ x \notin S => Cardinality(S \cup {x}) = Cardinality(S) + 1
         /\ x \in S => Cardinality(S \ {x}) = Cardinality(S) - 1
  BY FS_AddElement, FS_RemoveElement
<1> QED BY <1>1, <1>2, <1>3, <1>4, <1>5 DEF FiniteSetFacts

(* For any number of sessions and any limits, whatever the order in which   *)
(* the sessions fail and end: no more than maxConcurrentSyncs have a slot,  *)
(* every session that ended is in the history once while there is room, and *)
(* no unlocked counter is ahead of the sessions it counts (SyncNewNode,     *)
(* executeSyncSession, finalizeSyncSession).                                *)
THEOREM SyncsAreAccounted == SyncSpec => []SyncsAccounted
<1>1. SyncInit => SyncInv
  <2> SUFFICES ASSUME SyncInit PROVE SyncInv BY SMT
  <2>1. \A s \in Sessions : session[s] = NotStarted BY DEF SyncInit
  <2>2. NotStarted \in SyncSession /\ NotStarted.at = "none" /\ NotStarted.status = "idle"
    BY DEF NotStarted, SyncSession
  <2>3. SyncTypeOK
    BY SMT, <2>1, <2>2, FiniteSetFactsHold DEF SyncInit, SyncTypeOK, Outcomes, Ending
  <2>4. \A o \in Outcomes : With(o) = {} /\ Counted(o) = {}
    BY <2>1, <2>2 DEF With, Counted, Outcomes
  <2>5. Totalled = {} BY <2>1, <2>2 DEF Totalled
  <2>6. CountersInv
    <3>1. IsFiniteSet({}) /\ Cardinality({}) = 0 BY FS_EmptySet
    <3>2. stats.total = 0 /\ \A o \in Outcomes : stats[o] = 0 BY SMT DEF SyncInit, Outcomes
    <3>3. 0 <= 0 BY SMT
    <3>4. \A s \in Sessions : session[s].at # "counting" /\ session[s].at # "totalling"
      BY <2>1, <2>2
    <3> QED BY <2>4, <2>5, <3>1, <3>2, <3>3, <3>4 DEF CountersInv, FiniteOutcomes
  <2>7. SlotsInv
    BY SMT, <2>1, <2>2, FS_EmptySet, SyncAssumption DEF SyncInit, SlotsInv, Phases
  <2>8. HistoryInv
    BY SMT, <2>1, <2>2, SyncAssumption DEF SyncInit, HistoryInv
  <2> QED BY <2>3, <2>6, <2>7, <2>8 DEF SyncInv
<1>2. SyncInv => SyncsAccounted
  <2> SUFFICES ASSUME SyncInv PROVE SyncsAccounted BY SMT
  <2>1. CountsAreFinite BY CountedSets DEF SyncInv, CountersInv
  <2>2. /\ stats.completed <= Cardinality(With("completed"))
        /\ stats.failed <= Cardinality(With("failed"))
        /\ stats.total <= Cardinality(With("completed") \cup With("failed"))
    <3>1. stats \in [completed : Nat, failed : Nat, total : Nat] BY DEF SyncInv, SyncTypeOK
    <3>2. /\ stats.completed <= Cardinality(Counted("completed"))
          /\ stats.failed <= Cardinality(Counted("failed"))
          /\ stats.total <= Cardinality(Totalled)
      BY DEF SyncInv, CountersInv, Outcomes
    <3> QED BY SMT, <2>1, <3>1, <3>2 DEF CountsAreFinite, Outcomes
  <2>3. active = {s \in Sessions : session[s].at \notin {"none", "gone"}}
    <3>1. \A s \in Sessions : session[s].at \in Phases \cup {"none", "gone"}
      BY DEF SyncInv, SyncTypeOK, SyncSession
    <3> QED BY <3>1 DEF SyncInv, SlotsInv, Phases
  <2>4. \A i \in DOMAIN history : history[i].session \in Sessions /\ history[i].status \in {"completed", "failed"}
    <3>1. history \in Seq([session : Sessions, status : Outcomes]) BY DEF SyncInv, SyncTypeOK
    <3>2. \A i \in DOMAIN history : history[i] \in [session : Sessions, status : Outcomes]
      BY <3>1, SeqMembers
    <3> QED BY <3>2 DEF Outcomes
  <2>5. Len(history) < MaxHistory =>
          {history[i].session : i \in DOMAIN history} = {s \in Sessions : session[s].at = "gone"}
    <3>1. \A i \in DOMAIN history : session[history[i].session].at = "gone"
      BY DEF SyncInv, HistoryInv
    <3>2. ASSUME Len(history) < MaxHistory, NEW s \in Sessions, session[s].at = "gone"
          PROVE  \E i \in DOMAIN history : history[i].session = s
      BY <3>2 DEF SyncInv, HistoryInv
    <3> QED BY SMT, <2>4, <3>1, <3>2
  <2> QED BY <2>2, <2>3, <2>4, <2>5 DEF SyncsAccounted, SyncInv, SlotsInv, HistoryInv
<1> QED BY <1>1, <1>2, SyncStep, PTL DEF SyncSpec
=================================================================================
