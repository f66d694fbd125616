---------------------------- MODULE GeoStoreProofs ----------------------------
(* The GEO store of a cluster, for any nodes, requests, members, shards and  *)
(* lists, and with failures and crashes wherever the code meets them.        *)
(*                                                                           *)
(* GeoInv carries IndexCountsMembers: a worker that has been alone on its    *)
(* node since it began has counted exactly the members of the shards it has  *)
(* scanned, so the index it writes is right; one that was not alone marks    *)
(* the node as raced.                                                        *)
(*                                                                           *)
(* PosInv carries PositionsFollowLog: while the FSM is inside SetGeo, each   *)
(* member it has stored shows the entry's last position stored so far, or a  *)
(* later one, so that the position is in order once the entry is applied.    *)
EXTENDS GeoStore, TLAPS

USE Zenon

(* The members whose coordinate key node n holds, and those of them in the  *)
(* shards before s.                                                         *)
Here(n) == {m \in Members : coord[n][m] # None}
Upto(n, s) == {m \in Here(n) : ShardOf[m] < s}

(* What the variables are functions of.                                     *)
Shape ==
    /\ DOMAIN pc = Workers /\ DOMAIN node = Workers /\ DOMAIN op = Workers
    /\ DOMAIN batch = Workers /\ DOMAIN i = Workers /\ DOMAIN shard = Workers
    /\ DOMAIN cnt = Workers /\ DOMAIN alone = Workers
    /\ DOMAIN coord = Nodes /\ DOMAIN index = Nodes /\ DOMAIN raced = Nodes
    /\ \A n \in Nodes : DOMAIN coord[n] = Members
    /\ DOMAIN applied = Nodes /\ \A n \in Nodes : applied[n] \in Nat
    /\ log \in Seq(Batches)

(* A worker that is busy has a node, a list and a place in both.            *)
WorkFits(w) ==
    pc[w] # "idle" =>
        /\ node[w] \in Nodes /\ op[w] \in {"add", "del"}
        /\ batch[w] \in Batches /\ i[w] \in 1 .. Len(batch[w])
        /\ pc[w] = "scan" => shard[w] \in 1 .. NShards
        /\ pc[w] = "update" => op[w] = "del" /\ cnt[w] > 0

(* A worker that has been alone is the only one on its node; SetGeo has     *)
(* left a member, DeleteGeo an index of what is left; the scan has counted  *)
(* the shards it has passed.                                                *)
Sole(w) == \A v \in Workers \ {w} : Writing(v) => node[v] # node[w]
Left(w) ==
    /\ op[w] = "add" /\ (pc[w] # "coord" \/ i[w] # 1) => Here(node[w]) # {}
    /\ op[w] = "del" /\ ~raced[node[w]] /\ Here(node[w]) # {} => index[node[w]] # None
Counted(w) ==
    /\ pc[w] = "scan" => cnt[w] = Cardinality(Upto(node[w], shard[w]))
    /\ pc[w] \in {"index", "update"} => cnt[w] = Cardinality(Here(node[w]))
Lone(w) == alone[w] /\ Writing(w) => Sole(w) /\ Left(w) /\ Counted(w)

(* The index of a node on which nobody writes.                              *)
Still(n) == \A w \in Workers : Writing(w) => node[w] # n
Settled(n) ==
    ~raced[n] /\ Still(n) =>
        index[n] = IF Here(n) = {} THEN None ELSE Cardinality(Here(n))

(* How sets of members are counted.  The library of finite sets is drawn on *)
(* once, where the invariant is shown of the initial states.                *)
MembersCount ==
    /\ \A S \in SUBSET Members : Cardinality(S) \in Nat /\ (Cardinality(S) = 0 <=> S = {})
    /\ \A S, T \in SUBSET Members :
           S \cap T = {} => Cardinality(S \cup T) = Cardinality(S) + Cardinality(T)

GeoInv ==
    /\ MembersCount /\ Shape
    /\ \A w \in Workers : WorkFits(w) /\ Lone(w)
    /\ \A n \in Nodes : Settled(n)

(* The step leaves worker v where it is.                                    *)
Stays(v) ==
    /\ pc'[v] = pc[v] /\ node'[v] = node[v] /\ op'[v] = op[v]
    /\ batch'[v] = batch[v] /\ i'[v] = i[v] /\ shard'[v] = shard[v]
    /\ cnt'[v] = cnt[v] /\ (alone'[v] => alone[v])

(* A step of w leaves the other workers and the other nodes alone.          *)
Apart(w) ==
    /\ \A v \in Workers \ {w} : Stays(v)
    /\ \A n \in Nodes \ {node[w]} :
           coord'[n] = coord[n] /\ index'[n] = index[n] /\ raced'[n] = raced[n]

(* Nodes with the same keys hold the same members.                          *)
LEMMA SameHere ==
    ASSUME NEW n, coord'[n] = coord[n]
    PROVE  Here(n)' = Here(n) /\ \A s : Upto(n, s)' = Upto(n, s)
  <1>1. Here(n)' = Here(n)
    BY DEF Here
  <1> QED
    BY <1>1 DEF Upto

(* What holds of a worker alone on a node that the step does not touch goes *)
(* on holding.                                                              *)
LEMMA UntouchedLone ==
    ASSUME NEW v \in Workers, Lone(v), WorkFits(v),
           pc'[v] = pc[v], node'[v] = node[v], op'[v] = op[v], batch'[v] = batch[v],
           i'[v] = i[v], shard'[v] = shard[v], cnt'[v] = cnt[v],
           alone'[v] => alone[v],
           alone'[v] /\ Writing(v) =>
               /\ Sole(v)'
               /\ coord'[node[v]] = coord[node[v]]
               /\ index'[node[v]] = index[node[v]]
               /\ raced'[node[v]] <=> raced[node[v]]
    PROVE  WorkFits(v)' /\ Lone(v)'
  <1>1. WorkFits(v)'
    BY DEF WorkFits
  <1>2. SUFFICES ASSUME alone'[v], Writing(v)'
                 PROVE  Sole(v)' /\ Left(v)' /\ Counted(v)'
    BY <1>1 DEF Lone
  <1>3. Writing(v) /\ alone[v] /\ Left(v) /\ Counted(v) /\ Sole(v)'
    BY <1>2 DEF Writing, Lone
  <1>4. /\ Here(node[v])' = Here(node[v])
        /\ Upto(node[v], shard[v])' = Upto(node[v], shard[v])
    <2>1. /\ Here(node[v])' = {m \in Members : coord'[node'[v]][m] # None}
          /\ Here(node[v]) = {m \in Members : coord[node[v]][m] # None}
      BY DEF Here
    <2>2. Here(node[v])' = Here(node[v])
      BY <1>2, <1>3, <2>1
    <2> QED
      BY <2>2 DEF Upto
  <1>5. Left(v)'
    BY <1>2, <1>3, <1>4 DEF Left
  <1>6. Counted(v)'
    BY <1>3, <1>4 DEF Counted
  <1> QED
    BY <1>3, <1>5, <1>6

(* The steps of one worker do not disturb the others.                       *)
LEMMA OthersKeep ==
    ASSUME GeoInv, NEW w \in Workers, Apart(w), Writing(w),
           Writing(w)' => node'[w] = node[w]
    PROVE  /\ \A v \in Workers \ {w} : WorkFits(v)' /\ Lone(v)'
           /\ \A n \in Nodes \ {node[w]} : Settled(n)'
  <1>1. ASSUME NEW v \in Workers \ {w}
        PROVE  WorkFits(v)' /\ Lone(v)'
    <2>1. /\ pc'[v] = pc[v] /\ node'[v] = node[v] /\ op'[v] = op[v] /\ batch'[v] = batch[v]
          /\ i'[v] = i[v] /\ shard'[v] = shard[v] /\ cnt'[v] = cnt[v]
          /\ alone'[v] => alone[v]
      BY DEF Apart, Stays
    <2>2. ASSUME alone[v], Writing(v)
          PROVE  /\ Sole(v)' /\ coord'[node[v]] = coord[node[v]]
                 /\ index'[node[v]] = index[node[v]] /\ raced'[node[v]] = raced[node[v]]
      <3>1. Sole(v) /\ node[v] \in Nodes
        BY <2>2 DEF GeoInv, Lone, WorkFits, Writing
      <3>2. node[v] # node[w]
        BY <3>1 DEF Sole
      <3>3. ASSUME NEW u \in Workers \ {v}, Writing(u)'
            PROVE  node'[u] # node'[v]
        <4>1. CASE u = w
          BY <2>1, <3>2, <3>3, <4>1
        <4>2. CASE u # w
          <5>1. pc'[u] = pc[u] /\ node'[u] = node[u]
            BY <4>2 DEF Apart, Stays
          <5>2. Writing(u)
            BY <3>3, <5>1 DEF Writing
          <5> QED
            BY <2>1, <3>1, <5>1, <5>2 DEF Sole
        <4> QED
          BY <4>1, <4>2
      <3> QED
        BY <3>1, <3>2, <3>3 DEF Sole, Apart, Stays
    <2>3. Lone(v) /\ WorkFits(v)
      BY DEF GeoInv
    <2> QED
      BY <2>1, <2>2, <2>3, UntouchedLone
  <1>2. ASSUME NEW n \in Nodes \ {node[w]}
        PROVE  Settled(n)'
    <2>1. coord'[n] = coord[n] /\ index'[n] = index[n] /\ raced'[n] = raced[n]
      BY DEF Apart, Stays
    <2>2. Here(n)' = Here(n)
      BY <2>1, SameHere
    <2>3. ASSUME Still(n)' PROVE Still(n)
      <3>1. ASSUME NEW u \in Workers, Writing(u), u # w
            PROVE  node[u] # n
        BY <2>3, <3>1 DEF Still, Apart, Stays, Writing
      <3> QED
        BY <3>1 DEF Still
    <2> QED
      BY <2>1, <2>2, <2>3 DEF Settled, GeoInv
  <1> QED
    BY <1>1, <1>2

(* The domains that Shape gives, for the steps that use EXCEPT.             *)
LEMMA StopDoes ==
    ASSUME Shape, NEW W, Stop(W)
    PROVE  /\ DOMAIN pc' = Workers /\ DOMAIN node' = Workers /\ DOMAIN op' = Workers
           /\ DOMAIN batch' = Workers /\ DOMAIN i' = Workers /\ DOMAIN shard' = Workers
           /\ DOMAIN cnt' = Workers /\ DOMAIN alone' = Workers
           /\ \A v \in Workers \cap W : pc'[v] = "idle"
           /\ \A v \in Workers \ W : Stays(v)
  BY DEF Stop, Stays

(* Advance moves to the next member, or from the last one to the scan.      *)
LEMMA AdvanceDoes ==
    ASSUME Shape, NEW w \in Workers, Advance(w),
           UNCHANGED <<node, op, batch, alone>>, i[w] \in 1 .. Len(batch[w])
    PROVE  /\ DOMAIN pc' = Workers /\ DOMAIN i' = Workers
           /\ DOMAIN shard' = Workers /\ DOMAIN cnt' = Workers
           /\ \A v \in Workers \ {w} :
                  pc'[v] = pc[v] /\ i'[v] = i[v] /\ shard'[v] = shard[v] /\ cnt'[v] = cnt[v]
           /\ i'[w] \in 1 .. Len(batch[w])
           /\ \/ pc'[w] = "coord" /\ i'[w] # 1 /\ i'[w] = i[w] + 1
              \/ /\ pc'[w] = "scan" /\ shard'[w] = 1 /\ cnt'[w] = 0
                 /\ i'[w] = i[w] /\ i[w] = Len(batch[w])
  <1>1. CASE i[w] < Len(batch[w])
    <2>1. /\ i' = [i EXCEPT ![w] = i[w] + 1] /\ pc' = [pc EXCEPT ![w] = "coord"]
          /\ shard' = shard /\ cnt' = cnt
      BY <1>1 DEF Advance
    <2>2. i'[w] = i[w] + 1 /\ pc'[w] = "coord"
      BY <2>1 DEF Shape
    <2>3. i[w] + 1 \in 1 .. Len(batch[w]) /\ i[w] + 1 # 1
      BY SMT, <1>1
    <2> QED
      BY <2>1, <2>2, <2>3 DEF Shape
  <1>2. CASE ~(i[w] < Len(batch[w]))
    <2>1. i[w] = Len(batch[w])
      BY SMT, <1>2
    <2> QED
      BY <1>2, <2>1 DEF Shape, Advance
  <1> QED
    BY <1>1, <1>2

(* A step that ends a worker's writing is right when it leaves the index    *)
(* right, or marks the node.                                                *)
LEMMA EndOfWork ==
    ASSUME GeoInv, NEW w \in Workers, Writing(w), Apart(w), Shape', ~Writing(w)',
           WorkFits(w)', NEW n, n = node[w], Settled(n)'
    PROVE  GeoInv'
  <1>1. Lone(w)'
    BY DEF Lone
  <1>2. /\ \A v \in Workers \ {w} : WorkFits(v)' /\ Lone(v)'
        /\ \A k \in Nodes \ {n} : Settled(k)'
    BY OthersKeep
  <1> QED
    BY <1>1, <1>2 DEF GeoInv

(* A step in the middle of a worker's writing.                              *)
LEMMA MidWork ==
    ASSUME GeoInv, NEW w \in Workers, Writing(w), Apart(w), Shape', Writing(w)',
           WorkFits(w)', node'[w] = node[w], alone'[w] => alone[w],
           alone'[w] /\ Sole(w) /\ Left(w) /\ Counted(w) => Left(w)' /\ Counted(w)'
    PROVE  GeoInv'
  <1>1. ASSUME alone'[w] PROVE Sole(w)' /\ Left(w)' /\ Counted(w)'
    <2>1. Sole(w) /\ Left(w) /\ Counted(w)
      BY <1>1 DEF GeoInv, Lone
    <2>2. Sole(w)'
      <3>1. ASSUME NEW v \in Workers \ {w}, Writing(v)'
            PROVE  node'[v] # node'[w]
        <4>1. pc'[v] = pc[v] /\ node'[v] = node[v]
          BY DEF Apart, Stays
        <4>2. Writing(v)
          BY <3>1, <4>1 DEF Writing
        <4> QED
          BY <2>1, <4>1, <4>2 DEF Sole
      <3> QED
        BY <3>1 DEF Sole
    <2> QED
      BY <1>1, <2>1, <2>2
  <1>2. Lone(w)'
    BY <1>1 DEF Lone
  <1>3. ~Still(node[w])'
    BY DEF Still
  <1>4. Settled(node[w])'
    BY <1>3 DEF Settled
  <1>5. /\ \A v \in Workers \ {w} : WorkFits(v)' /\ Lone(v)'
        /\ \A n \in Nodes \ {node[w]} : Settled(n)'
    BY OthersKeep
  <1> QED
    BY <1>2, <1>4, <1>5 DEF GeoInv

(* What a busy worker has.                                                  *)
LEMMA Busy ==
    ASSUME GeoInv, NEW w \in Workers, Writing(w)
    PROVE  /\ Shape /\ node[w] \in Nodes /\ op[w] \in {"add", "del"}
           /\ batch[w] \in Batches /\ i[w] \in 1 .. Len(batch[w])
           /\ batch[w][i[w]].member \in Members
           /\ batch[w][i[w]].pos # None
           /\ pc[w] = "scan" => shard[w] \in 1 .. NShards
           /\ pc[w] = "update" => op[w] = "del" /\ cnt[w] > 0
  <1>1. WorkFits(w) /\ Shape /\ pc[w] # "idle"
    BY DEF GeoInv, Writing
  <1>2. batch[w] \in Batches /\ i[w] \in 1 .. Len(batch[w])
    BY <1>1 DEF WorkFits
  <1>3. batch[w] \in Seq(GeoMember)
    BY <1>2, GeoAssumption
  <1>4. batch[w][i[w]] \in GeoMember
    BY SMT, <1>2, <1>3
  <1>5. batch[w][i[w]].member \in Members /\ batch[w][i[w]].pos \in Positions
    BY <1>4 DEF GeoMember
  <1> QED
    BY <1>1, <1>5, GeoAssumption DEF WorkFits

(* Where Advance leads, the count is that of the shards passed: none.       *)
LEMMA AdvanceKeeps ==
    ASSUME GeoInv, NEW w \in Workers, pc[w] \in {"coord", "meta"}, Advance(w),
           Apart(w), Shape', UNCHANGED <<node, op, batch, alone>>,
           alone[w] /\ Sole(w) /\ Left(w) =>
               /\ op[w] = "add" => Here(node[w])' # {}
               /\ op[w] = "del" /\ ~raced'[node[w]] /\ Here(node[w])' # {}
                      => index'[node[w]] # None
    PROVE  GeoInv'
  <1>1. Writing(w) /\ node'[w] = node[w] /\ op'[w] = op[w] /\ batch'[w] = batch[w]
        /\ alone'[w] = alone[w]
    BY DEF Writing
  <1>2. /\ Shape /\ node[w] \in Nodes /\ op[w] \in {"add", "del"}
        /\ batch[w] \in Batches /\ i[w] \in 1 .. Len(batch[w])
    BY <1>1, Busy
  <1>3. /\ i'[w] \in 1 .. Len(batch[w])
        /\ \/ pc'[w] = "coord" /\ i'[w] # 1
           \/ pc'[w] = "scan" /\ shard'[w] = 1 /\ cnt'[w] = 0
    BY <1>2, AdvanceDoes
  <1>4. Writing(w)' /\ pc'[w] # "update" /\ pc'[w] \notin {"index", "update"}
    BY <1>3 DEF Writing
  <1>5. 1 \in 1 .. NShards
    BY SMT, GeoAssumption
  <1>6. WorkFits(w)'
    BY <1>1, <1>2, <1>3, <1>4, <1>5 DEF WorkFits
  <1>7. Counted(w)'
    <2>1. ASSUME pc'[w] = "scan"
          PROVE  cnt'[w] = Cardinality(Upto(node[w], shard[w])')
      <3>1. cnt'[w] = 0 /\ shard'[w] = 1
        BY <1>3, <2>1
      <3>2. Upto(node[w], shard[w])' = {}
        <4>1. ASSUME NEW m \in Members PROVE ~(ShardOf[m] < shard'[w])
          <5>1. ShardOf[m] \in 1 .. NShards
            BY GeoAssumption
          <5> QED
            BY SMT, <3>1, <5>1, GeoAssumption
        <4> QED
          BY <4>1 DEF Upto, Here
      <3> QED
        BY <3>1, <3>2 DEF GeoInv, MembersCount
    <2> QED
      BY <1>4, <2>1 DEF Counted
  <1>8. ASSUME alone'[w], Sole(w), Left(w) PROVE Left(w)'
    BY <1>1, <1>8 DEF Left
  <1> QED
    BY <1>1, <1>4, <1>6, <1>7, <1>8, MidWork

(* Set and Delete of a coordinate key.                                      *)
LEMMA WriteCoordKeeps ==
    ASSUME GeoInv, NEW w \in Workers, WriteCoord(w)
    PROVE  GeoInv' /\ Apart(w)
  <1> DEFINE n == node[w]
             b == batch[w][i[w]]
             pos == IF op[w] = "add" THEN b.pos ELSE None
  <1>1. /\ pc[w] = "coord" /\ Writing(w)
        /\ coord' = [coord EXCEPT ![n] = [coord[n] EXCEPT ![b.member] = pos]]
        /\ UNCHANGED <<index, log, applied, node, op, batch, alone, raced>>
    BY DEF WriteCoord, Writing, raft
  <1>2. /\ Shape /\ n \in Nodes /\ op[w] \in {"add", "del"}
        /\ batch[w] \in Batches /\ i[w] \in 1 .. Len(batch[w])
        /\ b.member \in Members /\ b.pos # None
    BY <1>1, Busy
  <1>3. /\ DOMAIN coord' = Nodes /\ \A k \in Nodes : DOMAIN coord'[k] = Members
        /\ \A k \in Nodes \ {n} : coord'[k] = coord[k]
        /\ coord'[n][b.member] = pos
        /\ \A m \in Members \ {b.member} : coord'[n][m] = coord[n][m]
    <2> HIDE DEF n, b, pos
    <2> QED
      BY <1>1, <1>2 DEF Shape
  <1>4. op[w] = "add" => Here(n)' # {}
    BY ZenonT(30), <1>1, <1>2, <1>3 DEF Here
  <1>5. op[w] = "del" /\ Here(n)' # {} => Here(n) # {}
    BY <1>1, <1>2, <1>3 DEF Here
  <1>6. ASSUME alone[w], Sole(w), Left(w)
        PROVE  /\ op[w] = "add" => Here(n)' # {}
               /\ op[w] = "del" /\ ~raced'[n] /\ Here(n)' # {} => index'[n] # None
    BY <1>1, <1>4, <1>5, <1>6 DEF Left
  <1>7. CASE op[w] = "add" /\ b.meta = None
    <2>1. Advance(w)
      BY <1>7 DEF WriteCoord
    <2>2. /\ DOMAIN pc' = Workers /\ DOMAIN i' = Workers
          /\ DOMAIN shard' = Workers /\ DOMAIN cnt' = Workers
          /\ \A v \in Workers \ {w} :
                 pc'[v] = pc[v] /\ i'[v] = i[v] /\ shard'[v] = shard[v] /\ cnt'[v] = cnt[v]
      BY <1>1, <1>2, <2>1, AdvanceDoes
    <2>3. Shape' /\ Apart(w)
      BY <1>1, <1>2, <1>3, <2>2 DEF Shape, Apart, Stays
    <2> QED
      BY <1>1, <1>6, <2>1, <2>3, AdvanceKeeps
  <1>8. CASE ~(op[w] = "add" /\ b.meta = None)
    <2>1. pc' = [pc EXCEPT ![w] = "meta"] /\ UNCHANGED <<i, shard, cnt>>
      BY <1>8 DEF WriteCoord
    <2>2. Shape' /\ Apart(w) /\ pc'[w] = "meta"
      BY <1>1, <1>2, <1>3, <2>1 DEF Shape, Apart, Stays
    <2>3. WorkFits(w)'
      BY <1>1, <1>2, <2>1, <2>2 DEF WorkFits
    <2>4. Writing(w)' /\ Counted(w)'
      BY <2>2 DEF Writing, Counted
    <2>5. ASSUME alone'[w], Sole(w), Left(w) PROVE Left(w)'
      BY <1>1, <1>6, <2>5 DEF Left
    <2> QED
      BY <1>1, <2>2, <2>3, <2>4, <2>5, MidWork
  <1> QED
    BY <1>7, <1>8

(* A step of a worker that changes no key leaves the shape of the rest.     *)
LEMMA WriteMetaKeeps ==
    ASSUME GeoInv, NEW w \in Workers, WriteMeta(w)
    PROVE  GeoInv' /\ Apart(w)
  <1>1. /\ pc[w] = "meta" /\ Writing(w) /\ Advance(w)
        /\ UNCHANGED <<coord, index, log, applied, node, op, batch, alone, raced>>
    BY DEF WriteMeta, Writing, raft, hist
  <1>2. Shape /\ i[w] \in 1 .. Len(batch[w])
    BY <1>1, Busy
  <1>3. /\ DOMAIN pc' = Workers /\ DOMAIN i' = Workers
        /\ DOMAIN shard' = Workers /\ DOMAIN cnt' = Workers
        /\ \A v \in Workers \ {w} :
               pc'[v] = pc[v] /\ i'[v] = i[v] /\ shard'[v] = shard[v] /\ cnt'[v] = cnt[v]
    BY <1>1, <1>2, AdvanceDoes
  <1>4. Shape' /\ Apart(w)
    BY <1>1, <1>2, <1>3 DEF Shape, Apart, Stays
  <1>5. Here(node[w])' = Here(node[w])
    BY <1>1 DEF Here
  <1>6. ASSUME alone[w], Sole(w), Left(w)
        PROVE  /\ op[w] = "add" => Here(node[w])' # {}
               /\ op[w] = "del" /\ ~raced'[node[w]] /\ Here(node[w])' # {}
                      => index'[node[w]] # None
    BY <1>1, <1>5, <1>6 DEF Left
  <1> QED
    BY <1>1, <1>4, <1>6, AdvanceKeeps

(* The scan adds what it finds in the next shard.                           *)
LEMMA ScanCounts ==
    ASSUME MembersCount, NEW n, NEW s \in 1 .. NShards
    PROVE  /\ Cardinality(Upto(n, s + 1))
                 = Cardinality(Upto(n, s)) + Cardinality(scanKeysWithPrefix(n, s))
           /\ s = NShards => Upto(n, s + 1) = Here(n)
  <1> DEFINE A == Upto(n, s)
             B == scanKeysWithPrefix(n, s)
  <1>1. ASSUME NEW m \in Members
        PROVE  /\ ShardOf[m] < s + 1 <=> ShardOf[m] < s \/ ShardOf[m] = s
               /\ ~(ShardOf[m] < s /\ ShardOf[m] = s)
               /\ s = NShards => ShardOf[m] < s + 1
    <2>1. ShardOf[m] \in 1 .. NShards /\ NShards \in Nat
      BY GeoAssumption
    <2> QED
      BY SMT, <2>1
  <1>2. Upto(n, s + 1) = A \cup B /\ A \cap B = {}
    BY <1>1 DEF Upto, Here, scanKeysWithPrefix
  <1>3. A \in SUBSET Members /\ B \in SUBSET Members
    BY DEF Upto, Here, scanKeysWithPrefix
  <1>4. Cardinality(A \cup B) = Cardinality(A) + Cardinality(B)
    BY <1>2, <1>3 DEF MembersCount
  <1>5. s = NShards => Upto(n, s + 1) = Here(n)
    BY <1>1 DEF Upto, Here
  <1> QED
    BY <1>2, <1>4, <1>5

(* One shard of the scan.                                                   *)
LEMMA ScanShardKeeps ==
    ASSUME GeoInv, NEW w \in Workers, ScanShard(w)
    PROVE  GeoInv' /\ Apart(w)
  <1> DEFINE n == node[w]
             s == shard[w]
  <1>1. /\ pc[w] = "scan" /\ Writing(w)
        /\ cnt' = [cnt EXCEPT ![w] = cnt[w] + Cardinality(scanKeysWithPrefix(n, s))]
        /\ UNCHANGED <<coord, index, log, applied, node, op, batch, i, alone, raced>>
    BY DEF ScanShard, Writing, raft, hist, store
  <1>2. /\ Shape /\ n \in Nodes /\ op[w] \in {"add", "del"}
        /\ batch[w] \in Batches /\ i[w] \in 1 .. Len(batch[w])
        /\ s \in 1 .. NShards
    BY <1>1, Busy
  <1>3. /\ Cardinality(Upto(n, s + 1))
              = Cardinality(Upto(n, s)) + Cardinality(scanKeysWithPrefix(n, s))
        /\ s = NShards => Upto(n, s + 1) = Here(n)
    BY <1>2, ScanCounts DEF GeoInv
  <1>4. cnt'[w] = cnt[w] + Cardinality(scanKeysWithPrefix(n, s))
    BY <1>1, <1>2 DEF Shape
  <1>5. Counted(w) => cnt'[w] = Cardinality(Upto(n, s + 1))
    BY <1>1, <1>3, <1>4 DEF Counted
  <1>6. ASSUME alone'[w], Left(w), pc'[w] # "coord" PROVE Left(w)'
    BY <1>1, <1>6 DEF Left, Here
  <1>7. CASE s < NShards
    <2>1. shard' = [shard EXCEPT ![w] = s + 1] /\ pc' = pc
      BY <1>7 DEF ScanShard
    <2>2. Shape' /\ Apart(w) /\ shard'[w] = s + 1 /\ pc'[w] = "scan"
      BY <1>1, <1>2, <2>1 DEF Shape, Apart, Stays
    <2>3. s + 1 \in 1 .. NShards
      BY SMT, <1>2, <1>7, GeoAssumption
    <2>4. WorkFits(w)' /\ Writing(w)'
      BY <1>1, <1>2, <2>2, <2>3 DEF WorkFits, Writing
    <2>5. ASSUME Counted(w) PROVE Counted(w)'
      BY <1>1, <1>5, <2>2, <2>5 DEF Counted, Upto, Here
    <2> QED
      BY <1>1, <1>6, <2>2, <2>4, <2>5, MidWork
  <1>8. CASE ~(s < NShards)
    <2>1. pc' = [pc EXCEPT ![w] = "index"] /\ shard' = shard
      BY <1>8 DEF ScanShard
    <2>2. Shape' /\ Apart(w) /\ pc'[w] = "index"
      BY <1>1, <1>2, <2>1 DEF Shape, Apart, Stays
    <2>3. s = NShards
      BY SMT, <1>2, <1>8, GeoAssumption
    <2>4. WorkFits(w)' /\ Writing(w)'
      BY <1>1, <1>2, <2>2 DEF WorkFits, Writing
    <2>5. ASSUME Counted(w) PROVE Counted(w)'
      <3>1. cnt'[w] = Cardinality(Here(n))
        BY <1>3, <1>5, <2>3, <2>5
      <3> QED
        BY <1>1, <2>2, <3>1 DEF Counted, Here
    <2> QED
      BY <1>1, <1>6, <2>2, <2>4, <2>5, MidWork
  <1> QED
    BY <1>7, <1>8

(* A worker that returns leaves the index right, or its node marked.        *)
LEMMA StopKeeps ==
    ASSUME GeoInv, NEW w \in Workers, Writing(w), Stop({w}), UNCHANGED <<coord, log>>,
           DOMAIN applied' = Nodes, \A k \in Nodes : applied'[k] \in Nat,
           DOMAIN index' = Nodes, DOMAIN raced' = Nodes, NEW n, n = node[w],
           \A k \in Nodes \ {n} : index'[k] = index[k] /\ raced'[k] = raced[k],
           ~raced'[n] => index'[n] = IF Here(n) = {} THEN None ELSE Cardinality(Here(n))
    PROVE  GeoInv' /\ Apart(w)
  <1>1. Shape
    BY DEF GeoInv
  <1>2. /\ DOMAIN pc' = Workers /\ DOMAIN node' = Workers /\ DOMAIN op' = Workers
        /\ DOMAIN batch' = Workers /\ DOMAIN i' = Workers /\ DOMAIN shard' = Workers
        /\ DOMAIN cnt' = Workers /\ DOMAIN alone' = Workers
        /\ \A v \in Workers \cap {w} : pc'[v] = "idle"
    BY <1>1, StopDoes
  <1>3. Shape'
    BY <1>1, <1>2 DEF Shape
  <1>4. Apart(w)
    <2>1. \A v \in Workers \ {w} : Stays(v)
      BY <1>1, StopDoes
    <2> QED
      BY <2>1 DEF Apart, Stays
  <1>5. ~Writing(w)' /\ WorkFits(w)'
    BY <1>2 DEF Writing, WorkFits
  <1>6. Here(n)' = Here(n)
    BY DEF Here
  <1>7. Settled(n)'
    BY <1>6 DEF Settled
  <1> QED
    BY <1>3, <1>4, <1>5, <1>7, EndOfWork

(* What the scan has counted when it is over.                               *)
LEMMA CountIsRight ==
    ASSUME GeoInv, NEW w \in Workers, pc[w] \in {"index", "update"}, alone[w]
    PROVE  /\ cnt[w] = Cardinality(Here(node[w]))
           /\ cnt[w] = 0 <=> Here(node[w]) = {}
           /\ op[w] = "add" => Here(node[w]) # {}
           /\ op[w] = "del" /\ ~raced[node[w]] /\ Here(node[w]) # {}
                  => index[node[w]] # None
  <1>1. Writing(w) /\ pc[w] # "coord"
    BY DEF Writing
  <1>2. Counted(w) /\ Left(w)
    BY <1>1 DEF GeoInv, Lone
  <1>3. Cardinality(Here(node[w])) = 0 <=> Here(node[w]) = {}
    BY DEF GeoInv, MembersCount, Here
  <1> QED
    BY <1>1, <1>2, <1>3 DEF Counted, Left

(* SetGeo writes the index.                                                 *)
LEMMA WriteIndexKeeps ==
    ASSUME GeoInv, NEW w \in Workers, WriteIndex(w)
    PROVE  GeoInv' /\ Apart(w)
  <1> DEFINE n == node[w]
  <1>1. /\ pc[w] = "index" /\ Writing(w) /\ op[w] = "add"
        /\ index' = [index EXCEPT ![n] = cnt[w]]
        /\ raced' = [raced EXCEPT ![n] = ~alone[w]]
        /\ UNCHANGED <<coord, log>>
    BY DEF WriteIndex, Writing
  <1>2. /\ Shape /\ n \in Nodes /\ batch[w] \in Batches /\ i[w] \in 1 .. Len(batch[w])
    BY <1>1, Busy
  <1>3. /\ DOMAIN index' = Nodes /\ DOMAIN raced' = Nodes
        /\ \A k \in Nodes \ {n} : index'[k] = index[k] /\ raced'[k] = raced[k]
        /\ index'[n] = cnt[w] /\ raced'[n] = ~alone[w]
    BY <1>1, <1>2 DEF Shape
  <1>4. ~raced'[n] => index'[n] = IF Here(n) = {} THEN None ELSE Cardinality(Here(n))
    BY <1>1, <1>3, CountIsRight
  <1>5. CASE w \in Nodes
    <2>1. Stop({w}) /\ applied' = [applied EXCEPT ![w] = applied[w] + 1]
      BY <1>5 DEF WriteIndex
    <2>2. applied[w] \in Nat /\ applied[w] + 1 \in Nat
      <3>1. applied[w] \in Nat
        BY <1>2, <1>5 DEF Shape
      <3> QED
        BY SMT, <3>1
    <2>3. DOMAIN applied' = Nodes /\ \A k \in Nodes : applied'[k] \in Nat
      BY <1>2, <2>1, <2>2 DEF Shape
    <2> QED
      BY <1>1, <1>3, <1>4, <2>1, <2>3, StopKeeps
  <1>6. CASE w \notin Nodes
    <2>1. /\ pc' = [pc EXCEPT ![w] = "raft"]
          /\ UNCHANGED <<applied, node, op, batch, i, shard, cnt, alone>>
      BY <1>6 DEF WriteIndex
    <2>2. Shape' /\ Apart(w) /\ pc'[w] = "raft"
      BY <1>1, <1>2, <1>3, <2>1 DEF Shape, Apart, Stays
    <2>3. ~Writing(w)' /\ WorkFits(w)'
      BY <1>1, <1>2, <2>1, <2>2 DEF Writing, WorkFits
    <2>4. Here(n) = {m \in Members : coord[n][m] # None}
      BY DEF Here
    <2>5. PICK k : k = n
      OBVIOUS
    <2>6. Here(k)' = Here(k)
      BY <1>1 DEF Here
    <2>7. Settled(k)'
      BY <1>4, <2>5, <2>6 DEF Settled
    <2> QED
      BY <1>1, <2>2, <2>3, <2>5, <2>7, EndOfWork
  <1> QED
    BY <1>5, <1>6

(* DeleteGeo removes the index of an empty key.                             *)
LEMMA DeleteIndexKeeps ==
    ASSUME GeoInv, NEW w \in Workers, DeleteIndex(w)
    PROVE  GeoInv' /\ Apart(w)
  <1> DEFINE n == node[w]
  <1>1. /\ pc[w] = "index" /\ Writing(w) /\ cnt[w] = 0 /\ Stop({w})
        /\ index' = [index EXCEPT ![n] = None]
        /\ raced' = [raced EXCEPT ![n] = ~alone[w]]
        /\ UNCHANGED <<coord, log, applied>>
    BY DEF DeleteIndex, Writing, raft
  <1>2. Shape /\ n \in Nodes
    BY <1>1, Busy
  <1>3. /\ DOMAIN index' = Nodes /\ DOMAIN raced' = Nodes
        /\ \A k \in Nodes \ {n} : index'[k] = index[k] /\ raced'[k] = raced[k]
        /\ index'[n] = None /\ raced'[n] = ~alone[w]
        /\ DOMAIN applied' = Nodes /\ \A k \in Nodes : applied'[k] \in Nat
    BY <1>1, <1>2 DEF Shape
  <1>4. ~raced'[n] => index'[n] = IF Here(n) = {} THEN None ELSE Cardinality(Here(n))
    BY <1>1, <1>3, CountIsRight
  <1> QED
    BY <1>1, <1>3, <1>4, StopKeeps

(* DeleteGeo reads the index it is about to write, and gives up without one. *)
LEMMA ReadIndexKeeps ==
    ASSUME GeoInv, NEW w \in Workers, ReadIndex(w)
    PROVE  GeoInv' /\ Apart(w)
  <1> DEFINE n == node[w]
  <1>1. /\ pc[w] = "index" /\ Writing(w) /\ op[w] = "del" /\ cnt[w] > 0
        /\ UNCHANGED <<coord, index, log, applied>>
    BY DEF ReadIndex, Writing, raft, store
  <1>2. /\ Shape /\ n \in Nodes /\ batch[w] \in Batches /\ i[w] \in 1 .. Len(batch[w])
    BY <1>1, Busy
  <1>3. CASE index[n] = None
    <2>1. Stop({w}) /\ raced' = [raced EXCEPT ![n] = raced[n] \/ ~alone[w]]
      BY <1>3 DEF ReadIndex
    <2>2. /\ DOMAIN index' = Nodes /\ DOMAIN raced' = Nodes
          /\ \A k \in Nodes \ {n} : index'[k] = index[k] /\ raced'[k] = raced[k]
          /\ index'[n] = None /\ raced'[n] = (raced[n] \/ ~alone[w])
          /\ DOMAIN applied' = Nodes /\ \A k \in Nodes : applied'[k] \in Nat
      BY <1>1, <1>2, <1>3, <2>1 DEF Shape
    <2>3. ~raced'[n] => index'[n] = IF Here(n) = {} THEN None ELSE Cardinality(Here(n))
      BY <1>1, <1>3, <2>2, CountIsRight
    <2> QED
      BY <1>1, <2>1, <2>2, <2>3, StopKeeps
  <1>4. CASE index[n] # None
    <2>1. /\ pc' = [pc EXCEPT ![w] = "update"]
          /\ UNCHANGED <<raced, node, op, batch, i, shard, cnt, alone>>
      BY <1>4 DEF ReadIndex
    <2>2. Shape' /\ Apart(w) /\ pc'[w] = "update"
      BY <1>1, <1>2, <2>1 DEF Shape, Apart, Stays
    <2>3. Writing(w)' /\ WorkFits(w)'
      BY <1>1, <1>2, <2>1, <2>2 DEF Writing, WorkFits
    <2>4. ASSUME Left(w), Counted(w) PROVE Left(w)' /\ Counted(w)'
      BY <1>1, <2>1, <2>2, <2>4 DEF Left, Counted, Here
    <2> QED
      BY <2>1, <2>2, <2>3, <2>4, <1>1, MidWork
  <1> QED
    BY <1>3, <1>4

(* DeleteGeo writes the count of what is left.                              *)
LEMMA UpdateIndexKeeps ==
    ASSUME GeoInv, NEW w \in Workers, UpdateIndex(w)
    PROVE  GeoInv' /\ Apart(w)
  <1> DEFINE n == node[w]
  <1>1. /\ pc[w] = "update" /\ Writing(w) /\ Stop({w})
        /\ index' = [index EXCEPT ![n] = cnt[w]]
        /\ raced' = [raced EXCEPT ![n] = ~alone[w]]
        /\ UNCHANGED <<coord, log, applied>>
    BY DEF UpdateIndex, Writing, raft
  <1>2. Shape /\ n \in Nodes /\ cnt[w] > 0
    BY <1>1, Busy
  <1>3. /\ DOMAIN index' = Nodes /\ DOMAIN raced' = Nodes
        /\ \A k \in Nodes \ {n} : index'[k] = index[k] /\ raced'[k] = raced[k]
        /\ index'[n] = cnt[w] /\ raced'[n] = ~alone[w]
        /\ DOMAIN applied' = Nodes /\ \A k \in Nodes : applied'[k] \in Nat
    BY <1>1, <1>2 DEF Shape
  <1>4. cnt[w] # 0
    BY SMT, <1>2
  <1>5. ~raced'[n] => index'[n] = IF Here(n) = {} THEN None ELSE Cardinality(Here(n))
    BY <1>1, <1>3, <1>4, CountIsRight
  <1> QED
    BY <1>1, <1>3, <1>5, StopKeeps

(* A failed Set, Delete or scan marks the node.                             *)
LEMMA SetFailsKeeps ==
    ASSUME GeoInv, NEW w \in Workers, SetFails(w)
    PROVE  GeoInv' /\ Apart(w)
  <1> DEFINE n == node[w]
  <1>1. /\ Writing(w) /\ Stop({w})
        /\ applied' = IF w \in Nodes THEN [applied EXCEPT ![w] = applied[w] + 1] ELSE applied
        /\ raced' = [raced EXCEPT ![n] = TRUE]
        /\ UNCHANGED <<coord, index, log>>
    BY DEF SetFails, Writing, store
  <1>2. Shape /\ n \in Nodes
    BY <1>1, Busy
  <1>3. /\ DOMAIN index' = Nodes /\ DOMAIN raced' = Nodes /\ raced'[n]
        /\ \A k \in Nodes \ {n} : index'[k] = index[k] /\ raced'[k] = raced[k]
    BY <1>1, <1>2 DEF Shape
  <1>4. DOMAIN applied' = Nodes /\ \A k \in Nodes : applied'[k] \in Nat
    <2>1. \A k \in Nodes : applied[k] \in Nat /\ applied[k] + 1 \in Nat
      <3>1. \A k \in Nodes : applied[k] \in Nat
        BY <1>2 DEF Shape
      <3> QED
        BY SMT, <3>1
    <2> QED
      BY <1>1, <1>2, <2>1 DEF Shape
  <1> QED
    BY <1>1, <1>3, <1>4, StopKeeps

(* DeleteGeo goes on after a failed Delete, and its node is marked.         *)
LEMMA DeleteFailsKeeps ==
    ASSUME GeoInv, NEW w \in Workers, DeleteFails(w)
    PROVE  GeoInv' /\ Apart(w)
  <1> DEFINE n == node[w]
  <1>1. /\ Writing(w) /\ op[w] = "del"
        /\ raced' = [raced EXCEPT ![n] = TRUE]
        /\ UNCHANGED <<coord, index, log, applied>>
    BY DEF DeleteFails, Writing, store, raft
  <1>2. /\ Shape /\ n \in Nodes /\ batch[w] \in Batches /\ i[w] \in 1 .. Len(batch[w])
    BY <1>1, Busy
  <1>3. /\ DOMAIN index' = Nodes /\ DOMAIN raced' = Nodes /\ raced'[n]
        /\ \A k \in Nodes \ {n} : index'[k] = index[k] /\ raced'[k] = raced[k]
        /\ DOMAIN applied' = Nodes /\ \A k \in Nodes : applied'[k] \in Nat
    BY <1>1, <1>2 DEF Shape
  <1>4. CASE pc[w] = "coord" /\ pc' = [pc EXCEPT ![w] = "meta"]
             /\ UNCHANGED <<node, op, batch, i, shard, cnt, alone>>
    <2>1. Shape' /\ Apart(w) /\ pc'[w] = "meta" /\ node'[w] = n /\ op'[w] = "del"
      BY <1>1, <1>2, <1>3, <1>4 DEF Shape, Apart, Stays
    <2>2. Writing(w)' /\ WorkFits(w)'
      BY <1>2, <1>4, <2>1 DEF Writing, WorkFits
    <2>3. Left(w)' /\ Counted(w)'
      BY <1>3, <2>1 DEF Left, Counted
    <2> QED
      BY <1>1, <1>4, <2>1, <2>2, <2>3, MidWork
  <1>5. CASE pc[w] = "meta" /\ Advance(w) /\ UNCHANGED <<node, op, batch, alone>>
    <2>1. /\ DOMAIN pc' = Workers /\ DOMAIN i' = Workers
          /\ DOMAIN shard' = Workers /\ DOMAIN cnt' = Workers
          /\ \A v \in Workers \ {w} :
                 pc'[v] = pc[v] /\ i'[v] = i[v] /\ shard'[v] = shard[v] /\ cnt'[v] = cnt[v]
      BY <1>2, <1>5, AdvanceDoes
    <2>2. Shape' /\ Apart(w)
      BY <1>1, <1>2, <1>3, <1>5, <2>1 DEF Shape, Apart, Stays
    <2> QED
      BY <1>1, <1>3, <1>5, <2>2, AdvanceKeeps
  <1>6. CASE Stop({w})
    BY <1>1, <1>3, <1>6, StopKeeps
  <1> QED
    BY <1>4, <1>5, <1>6 DEF DeleteFails

(* A failed scan marks the node.                                            *)
LEMMA ScanFailsKeeps ==
    ASSUME GeoInv, NEW w \in Workers, ScanFails(w)
    PROVE  GeoInv' /\ Apart(w)
  <1> DEFINE n == node[w]
  <1>1. /\ pc[w] = "scan" /\ Writing(w)
        /\ raced' = [raced EXCEPT ![n] = TRUE]
        /\ UNCHANGED <<coord, index, log, applied>>
    BY DEF ScanFails, Writing, store, raft
  <1>2. /\ Shape /\ n \in Nodes /\ batch[w] \in Batches /\ i[w] \in 1 .. Len(batch[w])
    BY <1>1, Busy
  <1>3. /\ DOMAIN index' = Nodes /\ DOMAIN raced' = Nodes /\ raced'[n]
        /\ \A k \in Nodes \ {n} : index'[k] = index[k] /\ raced'[k] = raced[k]
        /\ DOMAIN applied' = Nodes /\ \A k \in Nodes : applied'[k] \in Nat
    BY <1>1, <1>2 DEF Shape
  <1>4. CASE op[w] = "add"
    <2>1. /\ cnt' = [cnt EXCEPT ![w] = old[w]] /\ pc' = [pc EXCEPT ![w] = "index"]
          /\ alone' = [alone EXCEPT ![w] = FALSE]
          /\ UNCHANGED <<node, op, batch, i, shard>>
      BY <1>4 DEF ScanFails
    <2>2. Shape' /\ Apart(w) /\ pc'[w] = "index" /\ ~alone'[w]
      BY <1>1, <1>2, <1>3, <2>1 DEF Shape, Apart, Stays
    <2>3. Writing(w)' /\ WorkFits(w)'
      BY <1>2, <1>4, <2>1, <2>2 DEF Writing, WorkFits
    <2> QED
      BY <1>1, <2>1, <2>2, <2>3, MidWork
  <1>5. CASE op[w] # "add"
    <2>1. Stop({w})
      BY <1>5 DEF ScanFails
    <2> QED
      BY <1>1, <1>3, <2>1, StopKeeps
  <1> QED
    BY <1>4, <1>5

(* Every step inside SetGeo and DeleteGeo.                                  *)
LEMMA WorkerKeeps ==
    ASSUME GeoInv, NEW w \in Workers, Worker(w)
    PROVE  GeoInv' /\ Apart(w)
  BY WriteCoordKeeps, WriteMetaKeeps, ScanShardKeeps, WriteIndexKeeps, DeleteIndexKeeps,
     ReadIndexKeeps, UpdateIndexKeeps, SetFailsKeeps, DeleteFailsKeeps, ScanFailsKeeps
     DEF Worker

(* A worker begins: it is alone if the node was still, and then finds the   *)
(* index right unless the node is marked.                                   *)
LEMMA StartKeeps ==
    ASSUME GeoInv, NEW w \in Workers, NEW n \in Nodes, NEW o \in {"add", "del"},
           NEW b \in Batches, pc[w] = "idle", Start(w, n, o, b),
           UNCHANGED <<coord, index, raced, log, applied>>
    PROVE  GeoInv'
  <1> DEFINE others == {v \in Workers \ {w} : Writing(v) /\ node[v] = n}
  <1>1. Shape /\ ~Writing(w)
    BY DEF GeoInv, Writing
  <1>2. /\ pc' = [pc EXCEPT ![w] = "coord"] /\ node' = [node EXCEPT ![w] = n]
        /\ op' = [op EXCEPT ![w] = o] /\ batch' = [batch EXCEPT ![w] = b]
        /\ i' = [i EXCEPT ![w] = 1] /\ UNCHANGED <<shard, cnt>>
        /\ alone' = [v \in Workers |-> IF v = w THEN others = {}
                                      ELSE alone[v] /\ v \notin others]
    BY DEF Start
  <1>3. /\ pc'[w] = "coord" /\ node'[w] = n /\ op'[w] = o /\ batch'[w] = b /\ i'[w] = 1
        /\ \A v \in Workers \ {w} :
               /\ pc'[v] = pc[v] /\ node'[v] = node[v] /\ op'[v] = op[v]
               /\ batch'[v] = batch[v] /\ i'[v] = i[v] /\ shard'[v] = shard[v]
               /\ cnt'[v] = cnt[v]
    BY <1>1, <1>2 DEF Shape
  <1>4. /\ alone'[w] <=> others = {}
        /\ \A v \in Workers \ {w} : alone'[v] <=> alone[v] /\ v \notin others
    <2> HIDE DEF others
    <2> QED
      BY <1>2
  <1>5. Shape'
    BY <1>1, <1>2 DEF Shape
  <1>6. \A u \in Workers \ {w} : Writing(u)' <=> Writing(u)
    BY <1>3 DEF Writing
  <1>7. ASSUME NEW v \in Workers \ {w}
        PROVE  WorkFits(v)' /\ Lone(v)'
    <2>1. ASSUME alone'[v], Writing(v)
          PROVE  Sole(v)'
      <3>1. Sole(v) /\ node[v] # n
        BY <1>4, <2>1 DEF GeoInv, Lone
      <3>2. ASSUME NEW u \in Workers \ {v}, Writing(u)'
            PROVE  node'[u] # node'[v]
        <4>1. CASE u = w
          BY <1>3, <3>1, <4>1
        <4>2. CASE u # w
          BY <1>3, <1>6, <3>1, <3>2, <4>2 DEF Sole
        <4> QED
          BY <4>1, <4>2
      <3> QED
        BY <3>2 DEF Sole
    <2>2. Lone(v) /\ WorkFits(v) /\ (alone'[v] => alone[v])
      BY <1>4 DEF GeoInv
    <2> QED
      BY <1>3, <2>1, <2>2, UntouchedLone
  <1>8. WorkFits(w)' /\ Counted(w)'
    <2>1. 1 \in 1 .. Len(b)
      <3>1. b \in Seq(GeoMember) /\ b # << >>
        BY GeoAssumption
      <3> QED
        BY SMT, <3>1
    <2> QED
      BY <1>3, <2>1 DEF WorkFits, Counted
  <1>9. ASSUME alone'[w] PROVE Sole(w)' /\ Left(w)'
    <2>1. Still(n)
      BY <1>1, <1>4, <1>9 DEF Still
    <2>2. Sole(w)'
      BY <1>3, <1>6, <2>1 DEF Sole, Still
    <2>3. Settled(n)
      BY DEF GeoInv
    <2>4. Cardinality(Here(n)) # None
      BY GeoAssumption DEF GeoInv, MembersCount, Here
    <2>5. ~raced[n] /\ Here(n) # {} => index[n] # None
      BY <2>1, <2>3, <2>4 DEF Settled
    <2>6. Here(node[w])' = Here(n)
      BY <1>3 DEF Here
    <2>7. Left(w)'
      BY <1>3, <2>5, <2>6 DEF Left
    <2> QED
      BY <2>2, <2>7
  <1>10. Lone(w)'
    BY <1>8, <1>9 DEF Lone
  <1>11. ASSUME NEW k \in Nodes PROVE Settled(k)'
    <2>1. Settled(k) /\ Here(k)' = Here(k)
      BY DEF GeoInv, Here
    <2>2. ASSUME Still(k)' PROVE Still(k)
      <3>1. \A u \in Workers : Writing(u)' => node'[u] # k
        BY <2>2 DEF Still
      <3> QED
        BY <1>1, <1>3, <1>6, <3>1 DEF Still
    <2> QED
      BY <2>1, <2>2 DEF Settled
  <1> QED
    BY <1>5, <1>7, <1>8, <1>10, <1>11 DEF GeoInv

(* Workers that leave the store, or were outside it: those that were        *)
(* writing mark their node.                                                 *)
LEMMA LeaversKeep ==
    ASSUME GeoInv, Shape', NEW W, UNCHANGED <<coord, index>>,
           \A w \in Workers \cap W : ~Writing(w)' /\ WorkFits(w)',
           \A v \in Workers \ W : Stays(v),
           \A k \in Nodes :
               raced'[k] <=> raced[k] \/ \E w \in Workers \cap W : Writing(w) /\ node[w] = k
    PROVE  GeoInv'
  <1>1. \A u \in Workers : Writing(u)' => Writing(u) /\ node'[u] = node[u]
    BY DEF Writing, Stays
  <1>2. ASSUME NEW v \in Workers \ W
        PROVE  WorkFits(v)' /\ Lone(v)'
    <2>1. Lone(v) /\ WorkFits(v)
      BY DEF GeoInv
    <2>2. ASSUME alone'[v], Writing(v)
          PROVE  Sole(v)' /\ (raced'[node[v]] <=> raced[node[v]])
      <3>1. Sole(v) /\ node[v] \in Nodes /\ node'[v] = node[v]
        BY <2>1, <2>2 DEF Lone, WorkFits, Writing, Stays
      <3>2. Sole(v)'
        BY <1>1, <3>1 DEF Sole
      <3>3. ~\E w \in Workers \cap W : Writing(w) /\ node[w] = node[v]
        BY <3>1 DEF Sole
      <3> QED
        BY <3>1, <3>2, <3>3
    <2>3. /\ pc'[v] = pc[v] /\ node'[v] = node[v] /\ op'[v] = op[v] /\ batch'[v] = batch[v]
          /\ i'[v] = i[v] /\ shard'[v] = shard[v] /\ cnt'[v] = cnt[v]
          /\ alone'[v] => alone[v]
      BY DEF Stays
    <2> QED
      BY <2>1, <2>2, <2>3, UntouchedLone
  <1>3. \A w \in Workers \cap W : WorkFits(w)' /\ Lone(w)'
    BY DEF Lone
  <1>4. ASSUME NEW k \in Nodes PROVE Settled(k)'
    <2>1. Settled(k) /\ Here(k)' = Here(k)
      BY DEF GeoInv, Here
    <2>2. ASSUME ~raced'[k], Still(k)' PROVE Still(k)
      <3>1. ASSUME NEW u \in Workers, Writing(u) PROVE node[u] # k
        <4>1. CASE u \in W
          BY <2>2, <3>1, <4>1
        <4>2. CASE u \notin W
          BY <2>2, <3>1, <4>2 DEF Still, Stays, Writing
        <4> QED
          BY <4>1, <4>2
      <3> QED
        BY <3>1 DEF Still
    <2> QED
      BY <2>1, <2>2 DEF Settled
  <1> QED
    BY <1>2, <1>3, <1>4 DEF GeoInv

(* What handleGeoAdd does after SetGeo.                                     *)
LEMMA RequestsEnd ==
    ASSUME GeoInv, NEW p \in Workers, Replicate(p) \/ KeepLocal(p) \/ Answer(p)
    PROVE  GeoInv'
  <1>1. /\ UNCHANGED <<coord, index, raced, applied>>
        /\ pc[p] \in {"raft", "wait"} /\ ~Writing(p)
    BY DEF Replicate, KeepLocal, Answer, store, hist, raft, Writing
  <1>2. /\ Shape /\ WorkFits(p) /\ pc[p] # "idle"
    BY <1>1 DEF GeoInv
  <1>3. \A k \in Nodes :
            raced'[k] <=> raced[k] \/ \E w \in Workers \cap {p} : Writing(w) /\ node[w] = k
    BY <1>1
  <1>4. CASE Replicate(p)
    <2>1. /\ log' = Append(log, batch[p]) /\ pc' = [pc EXCEPT ![p] = "wait"]
          /\ UNCHANGED <<node, op, batch, i, shard, cnt, alone>>
      BY <1>4 DEF Replicate
    <2>2. log' \in Seq(Batches)
      <3>1. log \in Seq(Batches) /\ batch[p] \in Batches
        BY <1>2 DEF Shape, WorkFits
      <3> QED
        BY SMT, <2>1, <3>1
    <2>3. Shape' /\ pc'[p] = "wait" /\ \A v \in Workers \ {p} : Stays(v)
      BY <1>1, <1>2, <2>1, <2>2 DEF Shape, Stays
    <2>4. \A w \in Workers \cap {p} : ~Writing(w)' /\ WorkFits(w)'
      BY <1>2, <2>1, <2>3 DEF Writing, WorkFits
    <2> QED
      BY <1>1, <1>3, <2>3, <2>4, LeaversKeep
  <1>5. CASE KeepLocal(p) \/ Answer(p)
    <2>1. Stop({p}) /\ log' = log
      BY <1>5 DEF KeepLocal, Answer, raft
    <2>2. /\ DOMAIN pc' = Workers /\ DOMAIN node' = Workers /\ DOMAIN op' = Workers
          /\ DOMAIN batch' = Workers /\ DOMAIN i' = Workers /\ DOMAIN shard' = Workers
          /\ DOMAIN cnt' = Workers /\ DOMAIN alone' = Workers
          /\ \A v \in Workers \cap {p} : pc'[v] = "idle"
          /\ \A v \in Workers \ {p} : Stays(v)
      BY <1>2, <2>1, StopDoes
    <2>3. Shape'
      BY <1>1, <1>2, <2>1, <2>2 DEF Shape
    <2>4. \A w \in Workers \cap {p} : ~Writing(w)' /\ WorkFits(w)'
      BY <2>2 DEF Writing, WorkFits
    <2> QED
      BY <1>1, <1>3, <2>2, <2>3, <2>4, LeaversKeep
  <1> QED
    BY <1>4, <1>5

(* A crash ends every worker of its node.                                   *)
LEMMA RestartKeeps ==
    ASSUME GeoInv, NEW n \in Nodes, Restart(n)
    PROVE  GeoInv'
  <1> DEFINE here == {w \in Workers : node[w] = n /\ pc[w] # "idle"}
  <1>1. /\ Stop(here) /\ raced' = [raced EXCEPT ![n] = raced[n] \/ \E w \in here : Writing(w)]
        /\ UNCHANGED <<coord, index, log>>
    BY DEF Restart, store
  <1>2. PICK snap \in 0 .. applied[n] : applied' = [applied EXCEPT ![n] = snap]
    BY DEF Restart
  <1>3. Shape
    BY DEF GeoInv
  <1>4. snap \in Nat
    <2>1. applied[n] \in Nat
      BY <1>3 DEF Shape
    <2> QED
      BY SMT, <2>1
  <1>5. /\ DOMAIN pc' = Workers /\ DOMAIN node' = Workers /\ DOMAIN op' = Workers
        /\ DOMAIN batch' = Workers /\ DOMAIN i' = Workers /\ DOMAIN shard' = Workers
        /\ DOMAIN cnt' = Workers /\ DOMAIN alone' = Workers
        /\ \A v \in Workers \cap here : pc'[v] = "idle"
        /\ \A v \in Workers \ here : Stays(v)
    <2> HIDE DEF here
    <2> QED
      BY <1>1, <1>3, StopDoes
  <1>6. Shape'
    BY <1>1, <1>2, <1>3, <1>4, <1>5 DEF Shape
  <1>7. \A w \in Workers \cap here : ~Writing(w)' /\ WorkFits(w)'
    <2> HIDE DEF here
    <2> QED
      BY <1>5 DEF Writing, WorkFits
  <1>8. ASSUME NEW k \in Nodes
        PROVE  raced'[k] <=> raced[k] \/ \E w \in Workers \cap here : Writing(w) /\ node[w] = k
    <2>1. CASE k = n
      <3>1. raced'[n] = (raced[n] \/ \E w \in here : Writing(w))
        BY <1>1, <1>3 DEF Shape
      <3> QED
        BY <2>1, <3>1
    <2>2. CASE k # n
      <3>1. raced'[k] = raced[k]
        BY <1>1, <1>3, <2>2 DEF Shape
      <3> QED
        BY <2>2, <3>1
    <2> QED
      BY <2>1, <2>2
  <1> HIDE DEF here
  <1> QED
    BY <1>1, <1>5, <1>6, <1>7, <1>8, LeaversKeep

(* Steps of Raft and of the leadership change none of this.                 *)
LEMMA RaftKeeps ==
    ASSUME GeoInv, UNCHANGED <<coord, index, pc, node, op, batch, i, shard, cnt, alone, raced, log>>,
           DOMAIN applied' = Nodes, \A n \in Nodes : applied'[n] \in Nat
    PROVE  GeoInv'
  <1>1. Shape'
    BY DEF GeoInv, Shape
  <1>2. \A v \in Workers \ {} : Stays(v)
    BY DEF Stays
  <1>3. \A n \in Nodes :
            raced'[n] <=> raced[n] \/ \E w \in Workers \cap {} : Writing(w) /\ node[w] = n
    OBVIOUS
  <1> QED
    BY <1>1, <1>2, <1>3, LeaversKeep

(* The invariant of the index is inductive.                                 *)
LEMMA GeoNext ==
    ASSUME GeoInv, [Next]_vars PROVE GeoInv'
  <1>0. Shape /\ DOMAIN applied = Nodes /\ \A n \in Nodes : applied[n] \in Nat
    BY DEF GeoInv, Shape
  <1>1. ASSUME NEW w \in Workers, Worker(w) PROVE GeoInv'
    BY <1>1, WorkerKeeps
  <1>2. ASSUME NEW p \in Procs, NEW n \in Nodes, NEW b \in Batches,
               handleGeoCommands(p, n, b) \/ handleGeoCluster(p, n, b)
        PROVE  GeoInv'
    <2>1. /\ p \in Workers /\ pc[p] = "idle"
          /\ Start(p, n, "add", b) \/ Start(p, n, "del", b)
          /\ UNCHANGED <<coord, index, raced, log, applied>>
      BY <1>2 DEF handleGeoCommands, handleGeoCluster, Request, handleGeoAdd, handleGeoDel,
                  store, raft, hist, Workers
    <2> QED
      BY <2>1, StartKeeps
  <1>3. ASSUME NEW p \in Procs, Replicate(p) \/ KeepLocal(p) \/ Answer(p) PROVE GeoInv'
    BY <1>3, RequestsEnd DEF Workers
  <1>4. ASSUME NEW n \in Nodes, ApplyGeoAdd(n) PROVE GeoInv'
    <2>1. /\ n \in Workers /\ pc[n] = "idle" /\ Start(n, n, "add", log[applied[n] + 1])
          /\ UNCHANGED <<coord, index, raced, log, applied>> /\ applied[n] < Len(log)
      BY <1>4 DEF ApplyGeoAdd, store, raft, hist, Workers
    <2>2. log \in Seq(Batches) /\ applied[n] \in Nat
      BY <1>0 DEF Shape
    <2>3. log[applied[n] + 1] \in Batches
      BY SMT, <2>1, <2>2
    <2> QED
      BY <2>1, <2>3, StartKeeps
  <1>5. ASSUME NEW n \in Nodes, SkipGeoAdd(n) PROVE GeoInv'
    <2>1. /\ applied' = [applied EXCEPT ![n] = applied[n] + 1]
          /\ UNCHANGED <<coord, index, pc, node, op, batch, i, shard, cnt, alone, raced, log>>
      BY <1>5 DEF SkipGeoAdd, store, work
    <2>2. applied[n] + 1 \in Nat
      BY SMT, <1>0
    <2>3. DOMAIN applied' = Nodes /\ \A k \in Nodes : applied'[k] \in Nat
      BY <1>0, <2>1, <2>2
    <2> QED
      BY <2>1, <2>3, RaftKeeps
  <1>6. ASSUME NEW n \in Nodes, SetFSMGeoAddCallback(n) \/ Elect(n) \/ monitorLeadership(n)
        PROVE  GeoInv'
    BY <1>0, <1>6, RaftKeeps DEF SetFSMGeoAddCallback, Elect, monitorLeadership, store, work, hist
  <1>7. ASSUME NEW n \in Nodes, Restart(n) PROVE GeoInv'
    BY <1>7, RestartKeeps
  <1>8. CASE UNCHANGED vars
    BY <1>0, <1>8, RaftKeeps DEF vars, store, raft, work, hist
  <1> QED
    BY <1>1, <1>2, <1>3, <1>4, <1>5, <1>6, <1>7, <1>8 DEF Next

-----------------------------------------------------------------------------
(* Positions *)

(* Every set of numbers up to k that is not empty has a greatest element.   *)
MaxExists ==
    \A k \in Nat : \A T \in SUBSET (1 .. k) :
        T # {} => Max(T) \in T /\ \A y \in T : y <= Max(T)

(* The goroutine that applies the log is at the entry after the last it has *)
(* applied.                                                                 *)
Applying(n) ==
    /\ applied[n] \in 0 .. Len(log)
    /\ pc[n] # "idle" =>
           /\ node[n] = n /\ op[n] = "add" /\ Writing(n)
           /\ applied[n] < Len(log) /\ batch[n] = log[applied[n] + 1]
           /\ pc[n] \in {"scan", "index"} => i[n] = Len(batch[n])

(* LastGiven and GivenAfter with the log as a parameter.                    *)
LastIn(L, m, k) ==
    LET es == {e \in 1 .. k : Places(L[e], m) # {}}
    IN IF es = {} THEN {None} ELSE {L[Max(es)][Max(Places(L[Max(es)], m))].pos}
AfterIn(L, m, k) ==
    {pos \in Positions : \E e \in DOMAIN L : e > k /\ pos \in Given(L[e], m)}

(* The positions that node n may show for m; those it may show for m once   *)
(* the entry it is at is applied, the entry's own apart; and the places of  *)
(* m in the entry that it has stored already.                               *)
Reach(n, m) == LastIn(log, m, applied[n]) \cup AfterIn(log, m, applied[n]) \cup OnTheWay(n, m)
Ahead(n, m) == AfterIn(log, m, applied[n] + 1) \cup OnTheWay(n, m)
Done(n, m) == {j \in Places(batch[n], m) : j < i[n] \/ (j = i[n] /\ pc[n] # "coord")}

Follows(n, m) == coord[n][m] \in Reach(n, m)
Leads(n, m) ==
    pc[n] # "idle" /\ Done(n, m) # {} =>
        coord[n][m] \in {batch[n][Max(Done(n, m))].pos} \cup Ahead(n, m)

PosInv ==
    /\ MaxExists /\ DOMAIN strayed = Nodes
    /\ \A n \in Nodes : Applying(n)
    /\ \A n \in Nodes : \A m \in Members : m \notin strayed[n] => Follows(n, m) /\ Leads(n, m)

(* What lists and the log consist of.                                       *)
LEMMA ListFacts ==
    ASSUME NEW b \in Batches
    PROVE  /\ Len(b) \in Nat /\ DOMAIN b = 1 .. Len(b)
           /\ \A j \in 1 .. Len(b) : b[j].member \in Members /\ b[j].pos \in Positions
           /\ \A m : Places(b, m) \in SUBSET (1 .. Len(b))
  <1>1. b \in Seq(GeoMember)
    BY GeoAssumption
  <1>2. Len(b) \in Nat /\ DOMAIN b = 1 .. Len(b) /\ \A j \in 1 .. Len(b) : b[j] \in GeoMember
    BY SMT, <1>1
  <1> QED
    BY <1>2 DEF GeoMember, Places

(* The log is a sequence of lists.                                          *)
LEMMA LogFacts ==
    ASSUME Shape
    PROVE  /\ Len(log) \in Nat /\ DOMAIN log = 1 .. Len(log)
           /\ \A e \in 1 .. Len(log) : log[e] \in Batches
  BY SMT DEF Shape

(* The greatest element is the only one.                                    *)
LEMMA MaxIs ==
    ASSUME MaxExists, NEW k \in Nat, NEW T \in SUBSET (1 .. k), NEW x \in T,
           \A y \in T : y <= x
    PROVE  Max(T) = x
  <1>1. Max(T) \in T /\ x <= Max(T)
    BY DEF MaxExists
  <1>2. Max(T) <= x /\ Max(T) \in 1 .. k /\ x \in 1 .. k
    BY <1>1
  <1> HIDE DEF Max
  <1> QED
    BY SMT, <1>1, <1>2

(* One more entry: it gives m no position, or the last.                     *)
LEMMA LastNext ==
    ASSUME Shape, MaxExists, NEW m, NEW k \in Nat, k < Len(log)
    PROVE  /\ Places(log[k + 1], m) = {} =>
                  /\ LastIn(log, m, k + 1) = LastIn(log, m, k)
                  /\ AfterIn(log, m, k) \subseteq AfterIn(log, m, k + 1)
           /\ Places(log[k + 1], m) # {} =>
                  LastIn(log, m, k + 1) = {log[k + 1][Max(Places(log[k + 1], m))].pos}
  <1> DEFINE es(q) == {e \in 1 .. q : Places(log[e], m) # {}}
  <1>1. /\ k + 1 \in Nat /\ k + 1 \in 1 .. k + 1
        /\ \A e \in 1 .. k + 1 : e <= k + 1 /\ (e = k + 1 \/ e \in 1 .. k)
        /\ \A e \in 1 .. k : e \in 1 .. k + 1
    BY SMT
  <1>2. ASSUME Places(log[k + 1], m) = {}
        PROVE  /\ LastIn(log, m, k + 1) = LastIn(log, m, k)
               /\ AfterIn(log, m, k) \subseteq AfterIn(log, m, k + 1)
    <2>1. es(k + 1) = es(k)
      BY <1>1, <1>2
    <2>2. LastIn(log, m, k + 1) = LastIn(log, m, k)
      BY <2>1 DEF LastIn
    <2>3. ASSUME NEW e \in DOMAIN log, e > k, NEW pos \in Given(log[e], m)
          PROVE  e > k + 1
      <3>1. e # k + 1
        BY <1>2, <2>3 DEF Given
      <3>2. e \in Nat
        BY SMT, LogFacts
      <3> QED
        BY SMT, <2>3, <3>1, <3>2
    <2>4. AfterIn(log, m, k) \subseteq AfterIn(log, m, k + 1)
      BY <2>3 DEF AfterIn
    <2> QED
      BY <2>2, <2>4
  <1>3. ASSUME Places(log[k + 1], m) # {}
        PROVE  LastIn(log, m, k + 1) = {log[k + 1][Max(Places(log[k + 1], m))].pos}
    <2>1. k + 1 \in es(k + 1) /\ es(k + 1) \in SUBSET (1 .. k + 1)
          /\ \A e \in es(k + 1) : e <= k + 1
      BY <1>1, <1>3
    <2>2. Max(es(k + 1)) = k + 1
      <3> HIDE DEF es
      <3> QED
        BY <1>1, <2>1, MaxIs
    <2>3. es(k + 1) # {}
      BY <2>1
    <2> QED
      BY <2>2, <2>3 DEF LastIn
  <1> QED
    BY <1>2, <1>3

(* A log cut back: what it gave last, it gives again after the cut.         *)
LEMMA LastBack ==
    ASSUME Shape, MaxExists, NEW m, NEW k \in 0 .. Len(log), NEW q \in 0 .. k
    PROVE  /\ LastIn(log, m, k) \subseteq LastIn(log, m, q) \cup AfterIn(log, m, q)
           /\ AfterIn(log, m, k) \subseteq AfterIn(log, m, q)
  <1> DEFINE es(x) == {e \in 1 .. x : Places(log[e], m) # {}}
             e == Max(es(k))
             pos == log[e][Max(Places(log[e], m))].pos
  <1>1. /\ Len(log) \in Nat /\ DOMAIN log = 1 .. Len(log)
        /\ \A x \in 1 .. Len(log) : log[x] \in Batches
    BY LogFacts
  <1>2. /\ k \in Nat /\ q \in Nat /\ \A x \in 1 .. q : x \in 1 .. k
        /\ \A x \in 1 .. k : x \in DOMAIN log /\ x \in 1 .. Len(log) /\ (x \in 1 .. q \/ x > q)
        /\ \A x \in 1 .. Len(log) : x > k => x > q
    BY SMT, <1>1
  <1>3. AfterIn(log, m, k) \subseteq AfterIn(log, m, q)
    BY <1>1, <1>2 DEF AfterIn
  <1>4. CASE es(k) = {}
    <2>1. es(q) = {}
      BY <1>2, <1>4
    <2>2. LastIn(log, m, k) = {None} /\ LastIn(log, m, q) = {None}
      BY <1>4, <2>1 DEF LastIn
    <2> QED
      BY <1>3, <2>2
  <1>5. CASE es(k) # {}
    <2>1. e \in es(k) /\ \A y \in es(k) : y <= e
      <3>1. es(k) \in SUBSET (1 .. k)
        OBVIOUS
      <3> HIDE DEF es
      <3> QED
        BY <1>2, <1>5, <3>1 DEF MaxExists
    <2>2. e \in 1 .. k /\ Places(log[e], m) # {}
      BY <2>1
    <2>3. LastIn(log, m, k) = {pos}
      BY <1>5 DEF LastIn
    <2> HIDE DEF e
    <2>4. CASE e \in 1 .. q
      <3>1. e \in es(q) /\ es(q) \in SUBSET (1 .. q) /\ \A y \in es(q) : y <= e
        BY <1>2, <2>1, <2>2, <2>4
      <3>2. Max(es(q)) = e
        <4> HIDE DEF es
        <4> QED
          BY <1>2, <3>1, MaxIs
      <3>3. es(q) # {}
        BY <3>1
      <3>4. LastIn(log, m, q) = {pos}
        BY <3>2, <3>3 DEF LastIn
      <3> QED
        BY <1>3, <2>3, <3>4
    <2>5. CASE e > q
      <3>1. e \in DOMAIN log /\ log[e] \in Batches
        BY <1>1, <1>2, <2>2
      <3>2. /\ Places(log[e], m) \in SUBSET (1 .. Len(log[e])) /\ Len(log[e]) \in Nat
            /\ \A j \in 1 .. Len(log[e]) : log[e][j].pos \in Positions
        BY <3>1, ListFacts
      <3>3. Max(Places(log[e], m)) \in Places(log[e], m)
        BY <2>2, <3>2 DEF MaxExists
      <3>4. pos \in Positions /\ pos \in Given(log[e], m)
        BY <3>2, <3>3 DEF Given
      <3>5. pos \in AfterIn(log, m, q)
        BY <2>5, <3>1, <3>4 DEF AfterIn
      <3> QED
        BY <1>3, <2>3, <3>5
    <2> QED
      BY <1>2, <2>2, <2>4, <2>5
  <1> QED
    BY <1>4, <1>5

(* A GEOADD under way that goes on being under way, or never named m.       *)
Onward(p, n, m) ==
    Unlogged(p, n) /\ Places(batch[p], m) # {} => Unlogged(p, n)' /\ batch'[p] = batch[p]

(* What was on the way stays on the way.                                    *)
LEMMA WaySurvives ==
    ASSUME NEW n, NEW m, \A p \in Procs : Onward(p, n, m)
    PROVE  OnTheWay(n, m) \subseteq OnTheWay(n, m)'
  <1> SUFFICES ASSUME NEW pos \in Positions, NEW p \in Procs, Unlogged(p, n),
                      pos \in Given(batch[p], m)
               PROVE  pos \in OnTheWay(n, m)'
    BY DEF OnTheWay
  <1>1. Places(batch[p], m) # {}
    BY DEF Given
  <1>2. Unlogged(p, n)' /\ batch'[p] = batch[p]
    BY <1>1 DEF Onward
  <1>3. pos \in Given(batch[p], m)'
    BY <1>2 DEF Given, Places
  <1> QED
    BY <1>2, <1>3 DEF OnTheWay

(* The applying goroutine stands where it stood, begins, or is done.        *)
StandsStill(n, m) ==
    \/ pc'[n] = "idle"
    \/ Done(n, m)' = {}
    \/ pc[n] # "idle" /\ Done(n, m)' = Done(n, m) /\ batch'[n] = batch[n]

(* A step that leaves a member's position alone keeps it in order, when it  *)
(* leaves the FSM where it is, moves it past an entry without the member,   *)
(* or back to a snapshot.                                                   *)
LEMMA PositionKept ==
    ASSUME GeoInv, PosInv, NEW n \in Nodes, NEW m \in Members, m \notin strayed[n],
           log' = log, coord'[n][m] = coord[n][m], \A p \in Procs : Onward(p, n, m),
           \/ applied'[n] = applied[n] /\ StandsStill(n, m)
           \/ /\ applied'[n] = applied[n] + 1 /\ applied[n] < Len(log)
              /\ Places(log[applied[n] + 1], m) = {} /\ pc'[n] = "idle"
           \/ applied'[n] \in 0 .. applied[n] /\ pc'[n] = "idle"
    PROVE  Follows(n, m)' /\ Leads(n, m)'
  <1>0. /\ Shape /\ MaxExists /\ Follows(n, m) /\ Leads(n, m) /\ applied[n] \in 0 .. Len(log)
    BY DEF GeoInv, PosInv, Applying
  <1>1. applied[n] \in Nat /\ applied[n] + 1 \in Nat
    BY SMT, <1>0, LogFacts
  <1>2. OnTheWay(n, m) \subseteq OnTheWay(n, m)'
    BY WaySurvives
  <1>3. CASE applied'[n] = applied[n] /\ StandsStill(n, m)
    <2>2. Reach(n, m) \subseteq Reach(n, m)' /\ Ahead(n, m) \subseteq Ahead(n, m)'
      BY <1>2, <1>3 DEF Reach, Ahead
    <2>3. Follows(n, m)'
      BY <1>0, <2>2 DEF Follows
    <2>4. ASSUME pc'[n] # "idle", Done(n, m)' # {}
          PROVE  coord'[n][m] \in {batch[n][Max(Done(n, m))].pos}' \cup Ahead(n, m)'
      <3>1. pc[n] # "idle" /\ Done(n, m)' = Done(n, m) /\ batch'[n] = batch[n]
        BY <1>3, <2>4 DEF StandsStill
      <3>2. coord[n][m] \in {batch[n][Max(Done(n, m))].pos} \cup Ahead(n, m)
        BY <1>0, <2>4, <3>1 DEF Leads
      <3>3. Max(Done(n, m))' = Max(Done(n, m))
        BY <3>1 DEF Max
      <3> QED
        BY <2>2, <3>1, <3>2, <3>3
    <2>5. Leads(n, m)'
      BY <2>4 DEF Leads
    <2> QED
      BY <2>3, <2>5
  <1>4. CASE pc'[n] = "idle" /\ applied'[n] = applied[n] + 1 /\ applied[n] < Len(log)
             /\ Places(log[applied[n] + 1], m) = {}
    <2>2. /\ LastIn(log, m, applied[n] + 1) = LastIn(log, m, applied[n])
          /\ AfterIn(log, m, applied[n]) \subseteq AfterIn(log, m, applied[n] + 1)
      BY <1>0, <1>1, <1>4, LastNext
    <2>3. Reach(n, m) \subseteq Reach(n, m)'
      BY <1>2, <1>4, <2>2 DEF Reach
    <2> QED
      BY <1>0, <1>4, <2>3 DEF Follows, Leads
  <1>5. CASE pc'[n] = "idle" /\ applied'[n] \in 0 .. applied[n]
    <2>1. PICK q \in 0 .. applied[n] : applied'[n] = q
      BY <1>5
    <2>3. /\ LastIn(log, m, applied[n]) \subseteq LastIn(log, m, q) \cup AfterIn(log, m, q)
          /\ AfterIn(log, m, applied[n]) \subseteq AfterIn(log, m, q)
      BY <1>0, <2>1, LastBack
    <2>4. Reach(n, m) \subseteq LastIn(log, m, q) \cup AfterIn(log, m, q) \cup OnTheWay(n, m)'
      BY <1>2, <2>3 DEF Reach
    <2>5. Reach(n, m) \subseteq Reach(n, m)'
      BY <2>1, <2>4 DEF Reach
    <2> QED
      BY <1>0, <1>5, <2>5 DEF Follows, Leads
  <1> QED
    BY <1>3, <1>4, <1>5

(* The workers of W move and the others stay: nobody but the workers of W   *)
(* leaves the way to a node, and an FSM outside W stands still.             *)
LEMMA OthersStand ==
    ASSUME NEW W, \A v \in Workers \ W : Stays(v), NEW n \in Nodes, NEW m,
           \A p \in Procs \cap W : Onward(p, n, m)
    PROVE  /\ \A p \in Procs : Onward(p, n, m)
           /\ n \notin W => StandsStill(n, m)
  <1>1. ASSUME NEW p \in Procs, p \notin W PROVE Onward(p, n, m)
    <2>1. Stays(p)
      BY <1>1 DEF Workers
    <2> QED
      BY <2>1 DEF Stays, Onward, Unlogged
  <1>2. ASSUME n \notin W PROVE StandsStill(n, m)
    <2>1. pc'[n] = pc[n] /\ batch'[n] = batch[n] /\ i'[n] = i[n]
      BY <1>2 DEF Workers, Stays
    <2>2. Done(n, m)' = Done(n, m)
      BY <2>1 DEF Done, Places
    <2> QED
      BY <2>1, <2>2 DEF StandsStill
  <1> QED
    BY <1>1, <1>2

(* The workers of W move, and only the nodes of X are touched.              *)
Frame(W, X) ==
    /\ log' = log /\ DOMAIN strayed' = Nodes /\ \A v \in Workers \ W : Stays(v)
    /\ \A n \in Nodes \ X : /\ n \notin W /\ coord'[n] = coord[n] /\ applied'[n] = applied[n]
                            /\ strayed[n] \subseteq strayed'[n]
    /\ \A p \in Procs \cap W : \A n \in Nodes \ X : \A m \in Members :
           m \notin strayed'[n] => Onward(p, n, m)
    /\ \A n \in Nodes \cap X :
           Applying(n)' /\ \A m \in Members : m \notin strayed'[n] => Follows(n, m)' /\ Leads(n, m)'

(* Such a step keeps the invariant.                                         *)
LEMMA FrameStep ==
    ASSUME GeoInv, PosInv, NEW W, NEW X, Frame(W, X)
    PROVE  PosInv'
  <1>1. ASSUME NEW n \in Nodes \ X PROVE Applying(n)'
    <2>1. pc'[n] = pc[n] /\ node'[n] = node[n] /\ op'[n] = op[n] /\ batch'[n] = batch[n]
          /\ i'[n] = i[n] /\ applied'[n] = applied[n]
      BY DEF Workers, Stays, Frame
    <2>2. Applying(n)
      BY DEF PosInv
    <2>3. log' = log
      BY DEF Frame
    <2> QED
      BY <2>1, <2>2, <2>3 DEF Applying, Writing
  <1>2. ASSUME NEW n \in Nodes \ X, NEW m \in Members, m \notin strayed'[n]
        PROVE  Follows(n, m)' /\ Leads(n, m)'
    <2>1. (\A p \in Procs \cap W : Onward(p, n, m)) /\ \A v \in Workers \ W : Stays(v)
      BY <1>2 DEF Frame
    <2>2. /\ n \notin W /\ m \notin strayed[n] /\ log' = log
          /\ applied'[n] = applied[n] /\ coord'[n][m] = coord[n][m]
      BY <1>2 DEF Frame
    <2>3. (\A p \in Procs : Onward(p, n, m)) /\ StandsStill(n, m)
      BY <2>1, <2>2, OthersStand
    <2> QED
      BY <2>2, <2>3, PositionKept
  <1> QED
    BY <1>1, <1>2 DEF PosInv, Frame

(* Steps of the workers of W that change no position and do not move the    *)
(* FSMs in the log.                                                         *)
Quiet(W) ==
    /\ UNCHANGED <<coord, log, applied>> /\ \A v \in Workers \ W : Stays(v)
    /\ DOMAIN strayed' = Nodes /\ \A n \in Nodes : strayed[n] \subseteq strayed'[n]
    /\ \A p \in Procs \cap W : \A n \in Nodes : \A m \in Members :
           m \notin strayed'[n] => Onward(p, n, m)
    /\ \A n \in Nodes \cap W : Applying(n)' /\ \A m \in Members : StandsStill(n, m)

(* Such steps keep the invariant.                                           *)
LEMMA QuietStep ==
    ASSUME GeoInv, PosInv, NEW W, Quiet(W)
    PROVE  PosInv'
  <1>1. ASSUME NEW n \in Nodes \cap W, NEW m \in Members, m \notin strayed'[n]
        PROVE  Follows(n, m)' /\ Leads(n, m)'
    <2>1. (\A p \in Procs \cap W : Onward(p, n, m)) /\ \A v \in Workers \ W : Stays(v)
      BY <1>1 DEF Quiet
    <2>2. \A p \in Procs : Onward(p, n, m)
      BY <2>1, OthersStand
    <2>3. /\ m \notin strayed[n] /\ StandsStill(n, m) /\ log' = log
          /\ coord'[n][m] = coord[n][m] /\ applied'[n] = applied[n]
      BY <1>1 DEF Quiet
    <2> QED
      BY <2>2, <2>3, PositionKept
  <1>2. Frame(W, Nodes \cap W)
    BY <1>1 DEF Frame, Quiet
  <1> QED
    BY <1>2, FrameStep

(* A worker's step that writes no coordinate: DeleteGeo's do not concern    *)
(* what the log gives; SetGeo's leave its list and what it has stored.      *)
LEMMA QuietWorker ==
    ASSUME GeoInv, PosInv, NEW w \in Workers, Writing(w), Apart(w),
           UNCHANGED <<coord, log, applied, strayed>>,
           \/ op[w] = "del"
           \/ /\ node'[w] = node[w] /\ op'[w] = op[w] /\ batch'[w] = batch[w]
              /\ pc'[w] \notin {"idle", "wait"}
              /\ w \in Nodes => /\ Writing(w)'
                                /\ pc'[w] \in {"scan", "index"} => i'[w] = Len(batch[w])
                                /\ \A m \in Members : Done(w, m)' = Done(w, m)
    PROVE  PosInv'
  <1>1. \A v \in Workers \ {w} : Stays(v)
    BY DEF Apart
  <1>2. ASSUME NEW p \in Procs \cap {w}, NEW n, NEW m PROVE Onward(p, n, m)
    BY <1>2 DEF Onward, Unlogged
  <1>3. ASSUME NEW n \in Nodes \cap {w}
        PROVE  Applying(n)' /\ \A m \in Members : StandsStill(n, m)
    <2>1. n = w /\ pc[n] # "idle" /\ Applying(n)
      BY DEF PosInv, Writing
    <2>2. op[n] # "del" /\ node[n] = n /\ op[n] = "add" /\ applied[n] \in 0 .. Len(log)
          /\ applied[n] < Len(log) /\ batch[n] = log[applied[n] + 1]
      BY <2>1 DEF Applying
    <2>3. Applying(n)'
      BY <2>1, <2>2 DEF Applying
    <2>4. \A m \in Members : StandsStill(n, m)
      BY <2>1, <2>2 DEF StandsStill
    <2> QED
      BY <2>3, <2>4
  <1>4. DOMAIN strayed' = Nodes
    BY DEF PosInv
  <1>5. Quiet({w})
    BY <1>1, <1>2, <1>3, <1>4 DEF Quiet
  <1> QED
    BY <1>5, QuietStep

(* Advance leaves the places that are stored.                               *)
LEMMA AdvanceDone ==
    ASSUME GeoInv, NEW w \in Workers, Writing(w), pc[w] # "coord", batch'[w] = batch[w],
           \/ pc'[w] = "coord" /\ i'[w] = i[w] + 1
           \/ pc'[w] \in {"scan", "index"} /\ i'[w] = i[w],
           NEW m
    PROVE  Done(w, m)' = Done(w, m)
  <1>1. batch[w] \in Batches /\ i[w] \in 1 .. Len(batch[w])
    BY Busy
  <1>2. Len(batch[w]) \in Nat /\ Places(batch[w], m) \in SUBSET (1 .. Len(batch[w]))
    BY <1>1, ListFacts
  <1>3. \A j \in Places(batch[w], m) : j < i[w] + 1 <=> j < i[w] \/ j = i[w]
    BY SMT, <1>1, <1>2
  <1>4. Places(batch[w], m)' = Places(batch[w], m)
    BY DEF Places
  <1>5. ASSUME NEW j \in Places(batch[w], m)
        PROVE  j < i'[w] \/ (j = i'[w] /\ pc'[w] # "coord")
                   <=> j < i[w] \/ (j = i[w] /\ pc[w] # "coord")
    BY <1>3
  <1> QED
    BY <1>4, <1>5 DEF Done

(* The workers' steps of this kind.                                         *)
LEMMA QuietWorkers ==
    ASSUME GeoInv, PosInv, NEW w \in Workers, Apart(w),
           \/ WriteMeta(w) \/ ScanShard(w) \/ (WriteIndex(w) /\ w \notin Nodes)
           \/ DeleteIndex(w) \/ ReadIndex(w) \/ UpdateIndex(w)
           \/ DeleteFails(w) \/ ScanFails(w)
    PROVE  PosInv'
  <1>1. Writing(w) /\ UNCHANGED <<coord, log, strayed>>
    BY DEF WriteMeta, ScanShard, WriteIndex, DeleteIndex, ReadIndex, UpdateIndex, DeleteFails,
           ScanFails, Writing, store, raft, hist
  <1>2. /\ Shape /\ i[w] \in 1 .. Len(batch[w]) /\ op[w] \in {"add", "del"}
        /\ pc[w] = "update" => op[w] = "del"
    BY <1>1, Busy
  <1>3. w \in Nodes /\ pc[w] = "scan" => i[w] = Len(batch[w])
    BY DEF PosInv, Applying
  <1>4. CASE WriteMeta(w)
    <2>1. Advance(w) /\ UNCHANGED <<applied, node, op, batch, alone>> /\ pc[w] = "meta"
      BY <1>4 DEF WriteMeta, raft
    <2>2. \/ pc'[w] = "coord" /\ i'[w] = i[w] + 1
          \/ pc'[w] = "scan" /\ i'[w] = i[w] /\ i[w] = Len(batch[w])
      BY <1>2, <2>1, AdvanceDoes
    <2>3. \A m \in Members : Done(w, m)' = Done(w, m)
      BY <1>1, <2>1, <2>2, AdvanceDone
    <2>4. Writing(w)' /\ pc'[w] \notin {"idle", "wait"}
          /\ (pc'[w] \in {"scan", "index"} => i'[w] = Len(batch[w]))
      BY <2>2 DEF Writing
    <2> QED
      BY <1>1, <2>1, <2>3, <2>4, QuietWorker
  <1>5. CASE ScanShard(w) \/ (ScanFails(w) /\ op[w] = "add")
    <2>1. /\ UNCHANGED <<applied, node, op, batch, i>> /\ pc[w] = "scan"
          /\ pc' = pc \/ pc' = [pc EXCEPT ![w] = "index"]
      BY <1>5 DEF ScanShard, ScanFails, raft
    <2>2. pc'[w] \in {"scan", "index"} /\ i'[w] = i[w]
      BY <1>2, <2>1 DEF Shape
    <2>3. \A m \in Members : Done(w, m)' = Done(w, m)
      BY <1>1, <2>1, <2>2, AdvanceDone
    <2>4. Writing(w)' /\ pc'[w] \notin {"idle", "wait"}
          /\ (w \in Nodes => i'[w] = Len(batch[w]))
      BY <1>3, <2>1, <2>2 DEF Writing
    <2> QED
      BY <1>1, <2>1, <2>3, <2>4, QuietWorker
  <1>6. CASE WriteIndex(w) /\ w \notin Nodes
    <2>1. UNCHANGED <<applied, node, op, batch>> /\ pc' = [pc EXCEPT ![w] = "raft"]
      BY <1>6 DEF WriteIndex
    <2>2. pc'[w] \notin {"idle", "wait"}
      BY <1>2, <2>1 DEF Shape
    <2> QED
      BY <1>1, <1>6, <2>1, <2>2, QuietWorker
  <1>7. CASE /\ DeleteIndex(w) \/ ReadIndex(w) \/ UpdateIndex(w) \/ DeleteFails(w) \/ ScanFails(w)
             /\ op[w] = "del"
    <2>1. applied' = applied
      BY <1>7 DEF DeleteIndex, ReadIndex, UpdateIndex, DeleteFails, ScanFails, raft
    <2> QED
      BY <1>1, <1>7, <2>1, QuietWorker
  <1>8. DeleteIndex(w) \/ ReadIndex(w) \/ UpdateIndex(w) \/ DeleteFails(w) => op[w] = "del"
    BY <1>2 DEF DeleteIndex, ReadIndex, UpdateIndex, DeleteFails
  <1> QED
    BY <1>2, <1>4, <1>5, <1>6, <1>7, <1>8

(* A coordinate that SetGeo stores is on the way when a request brings it,  *)
(* and the log's next when the FSM does; one that DeleteGeo removes strays. *)
LEMMA WriteCoordFollows ==
    ASSUME GeoInv, PosInv, NEW w \in Workers, Apart(w), WriteCoord(w)
    PROVE  PosInv'
  <1> SUFFICES ASSUME NEW k, k = node[w], NEW b, b = batch[w][i[w]]
               PROVE  PosInv'
    OBVIOUS
  <1>1. /\ pc[w] = "coord" /\ Writing(w)
        /\ coord' = [coord EXCEPT ![k] = [coord[k] EXCEPT ![b.member] =
                                              IF op[w] = "add" THEN b.pos ELSE None]]
        /\ strayed' = [strayed EXCEPT ![k] =
               IF op[w] = "del" THEN strayed[k] \cup {b.member}
               ELSE IF w \in Nodes THEN strayed[k] \ {b.member} ELSE strayed[k]]
        /\ UNCHANGED <<log, applied, node, op, batch, alone>>
    BY DEF WriteCoord, Writing, raft
  <1>2. /\ Shape /\ k \in Nodes /\ op[w] \in {"add", "del"}
        /\ batch[w] \in Batches /\ i[w] \in 1 .. Len(batch[w]) /\ b.member \in Members
    BY <1>1, Busy
  <1>3. /\ Len(batch[w]) \in Nat /\ DOMAIN batch[w] = 1 .. Len(batch[w])
        /\ \A j \in 1 .. Len(batch[w]) : batch[w][j].pos \in Positions
        /\ \A m : Places(batch[w], m) \in SUBSET (1 .. Len(batch[w]))
    BY <1>2, ListFacts
  <1>4. /\ pc'[w] \in {"coord", "meta", "scan"}
        /\ pc'[w] = "coord" => i'[w] = i[w] + 1
        /\ pc'[w] # "coord" => i'[w] = i[w]
        /\ pc'[w] = "scan" => i'[w] = Len(batch[w])
    <2>1. CASE Advance(w)
      BY <1>1, <1>2, <2>1, AdvanceDoes
    <2>2. CASE pc' = [pc EXCEPT ![w] = "meta"] /\ i' = i
      BY <1>2, <2>2 DEF Shape
    <2> QED
      BY <2>1, <2>2 DEF WriteCoord
  <1>5. \A m : Done(w, m)' = {j \in Places(batch[w], m) : j < i[w] \/ j = i[w]}
    <2> SUFFICES ASSUME NEW m
                 PROVE  Done(w, m)' = {j \in Places(batch[w], m) : j < i[w] \/ j = i[w]}
      OBVIOUS
    <2>1. \A j \in Places(batch[w], m) : j < i[w] + 1 <=> j < i[w] \/ j = i[w]
      BY SMT, <1>2, <1>3
    <2>2. Places(batch[w], m)' = Places(batch[w], m)
      BY <1>1 DEF Places
    <2>3. ASSUME NEW j \in Places(batch[w], m)
          PROVE  j < i'[w] \/ (j = i'[w] /\ pc'[w] # "coord") <=> j < i[w] \/ j = i[w]
      BY <1>4, <2>1
    <2> QED
      BY <2>2, <2>3 DEF Done
  <1>6. /\ \A n \in Nodes \ {k} : coord'[n] = coord[n]
        /\ \A m \in Members \ {b.member} : coord'[k][m] = coord[k][m]
        /\ op[w] = "add" => coord'[k][b.member] = b.pos
    <2> QED
      BY <1>1, <1>2 DEF Shape
  <1>7. \A v \in Workers \ {w} : Stays(v)
    BY DEF Apart
  <1>8. /\ DOMAIN strayed = Nodes /\ DOMAIN strayed' = Nodes
        /\ \A n \in Nodes \ {k} : strayed'[n] = strayed[n]
        /\ op[w] = "del" => strayed'[k] = strayed[k] \cup {b.member}
        /\ op[w] # "del" /\ w \in Nodes => strayed'[k] = strayed[k] \ {b.member}
        /\ op[w] # "del" /\ w \notin Nodes => strayed'[k] = strayed[k]
    <2>1. DOMAIN strayed = Nodes
      BY DEF PosInv
    <2> QED
      BY <1>1, <1>2, <2>1
  <1>9. w \in Nodes => Applying(w) /\ k = w /\ op[w] = "add"
    BY <1>1 DEF PosInv, Applying
  <1>10. ASSUME NEW p \in Procs \cap {w}, NEW n, NEW m PROVE Onward(p, n, m)
    BY <1>1, <1>4 DEF Onward, Unlogged
  <1>11. Applying(k)'
    <2>1. CASE w = k
      BY <1>1, <1>2, <1>4, <1>9, <2>1 DEF Applying, Writing
    <2>2. CASE w # k
      <3>1. Stays(k) /\ Applying(k)
        BY <1>2, <1>7, <2>2 DEF Workers, PosInv
      <3> QED
        BY <1>1, <3>1 DEF Applying, Writing, Stays
    <2> QED
      BY <2>1, <2>2
  <1>12. ASSUME NEW m \in Members \ {b.member}, m \notin strayed'[k]
         PROVE  Follows(k, m)' /\ Leads(k, m)'
    <2>1. m \notin strayed[k]
      BY <1>2, <1>8, <1>12
    <2>2. (\A p \in Procs : Onward(p, k, m)) /\ (k \notin {w} => StandsStill(k, m))
      BY <1>2, <1>7, <1>10, OthersStand
    <2>3. ASSUME k = w PROVE StandsStill(k, m)
      <3>1. \A j \in Places(batch[w], m) : j # i[w]
        BY DEF Places
      <3>2. Done(w, m)' = Done(w, m)
        BY <1>1, <1>5, <3>1 DEF Done
      <3> QED
        BY <1>1, <2>3, <3>2 DEF StandsStill
    <2>4. StandsStill(k, m)
      BY <2>2, <2>3
    <2> QED
      BY <1>1, <1>2, <1>6, <2>1, <2>2, <2>4, PositionKept
  <1>13. ASSUME b.member \notin strayed'[k]
         PROVE  Follows(k, b.member)' /\ Leads(k, b.member)'
    <2> DEFINE m == b.member
    <2>1. op[w] = "add" /\ coord'[k][m] = b.pos
      BY <1>2, <1>6, <1>8, <1>13
    <2>2. i[w] \in Places(batch[w], m) /\ b.pos \in Given(batch[w], m) /\ b.pos \in Positions
      BY <1>2, <1>3 DEF Places, Given
    <2>3. CASE w \notin Nodes
      <3>1. w \in Procs /\ Unlogged(w, k)'
        BY <1>1, <1>4, <2>1, <2>3 DEF Workers, Unlogged
      <3>2. b.pos \in Given(batch[w], m)'
        BY <1>1, <2>2 DEF Given, Places
      <3>3. b.pos \in OnTheWay(k, m)'
        BY <2>2, <3>1, <3>2 DEF OnTheWay
      <3>4. coord'[k][m] \in Reach(k, m)' /\ coord'[k][m] \in Ahead(k, m)'
        BY <2>1, <3>3 DEF Reach, Ahead
      <3> QED
        BY <3>4 DEF Follows, Leads
    <2>4. CASE w \in Nodes
      <3>1. /\ w = k /\ applied[w] \in 0 .. Len(log) /\ applied[w] < Len(log)
            /\ batch[w] = log[applied[w] + 1]
        BY <1>1, <1>9, <2>4 DEF Applying
      <3>2. applied[w] + 1 \in DOMAIN log /\ applied[w] + 1 > applied[w]
        BY SMT, <1>2, <3>1, LogFacts
      <3>3. b.pos \in AfterIn(log, m, applied[w])
        BY <2>2, <3>1, <3>2 DEF AfterIn
      <3>4. Follows(k, m)'
        BY <1>1, <2>1, <3>1, <3>3 DEF Follows, Reach
      <3>5. Max(Done(w, m)') = i[w]
        <4>1. /\ Done(w, m)' \in SUBSET (1 .. Len(batch[w])) /\ i[w] \in Done(w, m)'
              /\ \A y \in Done(w, m)' : y <= i[w]
          <5>1. \A y \in 1 .. Len(batch[w]) : y < i[w] \/ y = i[w] => y <= i[w]
            BY SMT, <1>2, <1>3
          <5> QED
            BY <1>3, <1>5, <2>2, <5>1
        <4>2. MaxExists
          BY DEF PosInv
        <4> QED
          BY <1>3, <4>1, <4>2, MaxIs
      <3>6. Leads(k, m)'
        <4>1. Max(Done(w, m))' = i[w]
          BY <3>5 DEF Max
        <4>2. coord'[k][m] \in {batch[w][Max(Done(w, m))].pos}'
          BY <1>1, <2>1, <4>1
        <4> QED
          BY <3>1, <4>2 DEF Leads
      <3> QED
        BY <3>4, <3>6
    <2> QED
      BY <2>3, <2>4
  <1>14. ASSUME NEW n \in Nodes \ {k}
         PROVE  /\ n \notin {w} /\ coord'[n] = coord[n] /\ applied'[n] = applied[n]
                /\ strayed[n] \subseteq strayed'[n]
    BY <1>1, <1>6, <1>8, <1>9
  <1>15. ASSUME NEW n \in Nodes \cap {k}
         PROVE  Applying(n)' /\ \A m \in Members : m \notin strayed'[n] => Follows(n, m)' /\ Leads(n, m)'
    <2>1. n = k
      OBVIOUS
    <2> QED
      BY <1>11, <1>12, <1>13, <2>1
  <1>16. Frame({w}, {k})
    BY <1>1, <1>7, <1>8, <1>10, <1>14, <1>15 DEF Frame
  <1> QED
    BY <1>16, FrameStep

(* The entry the FSM is at gives m no position, or the node holds the last  *)
(* that it gives or a later one.                                            *)
Held(n, m) ==
    LET b == log[applied[n] + 1]
    IN Places(b, m) = {} \/ coord[n][m] \in {b[Max(Places(b, m))].pos} \cup Ahead(n, m)

(* The FSM is done with an entry.                                           *)
LEMMA EntryDone ==
    ASSUME GeoInv, PosInv, NEW n \in Nodes, applied[n] < Len(log),
           applied' = [applied EXCEPT ![n] = applied[n] + 1], UNCHANGED <<coord, log>>,
           \A v \in Workers \ {n} : Stays(v), pc'[n] = "idle",
           DOMAIN strayed' = Nodes, \A k \in Nodes : strayed[k] \subseteq strayed'[k],
           \A m \in Members : m \notin strayed'[n] => Held(n, m)
    PROVE  PosInv'
  <1>1. /\ Shape /\ MaxExists /\ applied[n] \in 0 .. Len(log)
        /\ DOMAIN applied = Nodes /\ applied'[n] = applied[n] + 1
    BY DEF GeoInv, PosInv, Applying, Shape
  <1>2. applied[n] \in Nat /\ applied[n] + 1 \in 0 .. Len(log)
    BY SMT, <1>1, LogFacts
  <1>3. \A p \in Procs : p # n
    BY GeoAssumption
  <1>4. ASSUME NEW m \in Members, m \notin strayed'[n]
        PROVE  Follows(n, m)' /\ Leads(n, m)'
    <2>0. \A p \in Procs \cap {n} : Onward(p, n, m)
      BY <1>3
    <2>1. \A p \in Procs : Onward(p, n, m)
      BY <2>0, OthersStand
    <2>2. m \notin strayed[n] /\ coord'[n][m] = coord[n][m]
      BY <1>4
    <2>3. CASE Places(log[applied[n] + 1], m) = {}
      BY <1>1, <2>1, <2>2, <2>3, PositionKept
    <2>4. CASE /\ Places(log[applied[n] + 1], m) # {}
               /\ coord[n][m] \in {log[applied[n] + 1][Max(Places(log[applied[n] + 1], m))].pos}
                                     \cup Ahead(n, m)
      <3>1. LastIn(log, m, applied[n] + 1)
                = {log[applied[n] + 1][Max(Places(log[applied[n] + 1], m))].pos}
        BY <1>1, <1>2, <2>4, LastNext
      <3>2. OnTheWay(n, m) \subseteq OnTheWay(n, m)'
        BY <2>1, WaySurvives
      <3>3. coord[n][m] \in LastIn(log, m, applied[n] + 1)
                \cup AfterIn(log, m, applied[n] + 1) \cup OnTheWay(n, m)'
        BY <2>4, <3>1, <3>2 DEF Ahead
      <3>4. coord'[n][m] \in Reach(n, m)'
        BY <1>1, <3>3 DEF Reach
      <3> QED
        BY <3>4 DEF Follows, Leads
    <2> QED
      BY <1>4, <2>3, <2>4 DEF Held
  <1>5. Applying(n)'
    BY <1>1, <1>2 DEF Applying
  <1>6. \A k \in Nodes \ {n} : applied'[k] = applied[k] /\ coord'[k] = coord[k]
    BY <1>1
  <1>7. Frame({n}, {n})
    BY <1>3, <1>4, <1>5, <1>6 DEF Frame
  <1> QED
    BY <1>7, FrameStep

(* The three ways the FSM is done with an entry.                            *)
LEMMA EntriesDone ==
    ASSUME GeoInv, PosInv, NEW n \in Nodes,
           \/ Apart(n) /\ (WriteIndex(n) \/ SetFails(n))
           \/ SkipGeoAdd(n)
    PROVE  PosInv'
  <1>1. Shape /\ Applying(n) /\ n \in Workers /\ DOMAIN strayed = Nodes
    BY DEF GeoInv, PosInv, Workers
  <1>2. CASE Apart(n) /\ (WriteIndex(n) \/ SetFails(n))
    <2>1. /\ Writing(n) /\ Stop({n}) /\ applied' = [applied EXCEPT ![n] = applied[n] + 1]
          /\ UNCHANGED <<coord, log>>
          /\ \/ strayed' = strayed /\ pc[n] = "index"
             \/ strayed' = [strayed EXCEPT ![node[n]] = strayed[node[n]] \cup Named(batch[n])]
      BY <1>2 DEF WriteIndex, SetFails, Writing, store
    <2>2. /\ node[n] = n /\ applied[n] < Len(log) /\ batch[n] = log[applied[n] + 1]
          /\ pc[n] = "index" => i[n] = Len(batch[n])
      BY <1>1, <2>1 DEF Applying, Writing
    <2>3. pc'[n] = "idle" /\ \A v \in Workers \ {n} : Stays(v)
      BY <1>1, <1>2, <2>1 DEF Stop, Apart
    <2>4. DOMAIN strayed' = Nodes /\ \A k \in Nodes : strayed[k] \subseteq strayed'[k]
      BY <1>1, <2>1, <2>2
    <2>5. ASSUME NEW m \in Members, m \notin strayed'[n]
          PROVE  Held(n, m)
      <3>1. CASE strayed' = [strayed EXCEPT ![n] = strayed[n] \cup Named(batch[n])]
        <4>1. m \notin Named(batch[n])
          BY <1>1, <2>5, <3>1
        <4> QED
          BY <2>2, <4>1 DEF Held, Places, Named
      <3>2. CASE strayed' = strayed /\ pc[n] = "index"
        <4>1. batch[n] \in Batches /\ i[n] = Len(batch[n])
          BY <1>1, <2>1, <2>2, <3>2, Busy
        <4>2. Len(batch[n]) \in Nat /\ Places(batch[n], m) \in SUBSET (1 .. Len(batch[n]))
          BY <4>1, ListFacts
        <4>3. \A j \in 1 .. Len(batch[n]) : j < i[n] \/ j = i[n]
          BY SMT, <4>1, <4>2
        <4>4. Done(n, m) = Places(batch[n], m)
          BY <3>2, <4>2, <4>3 DEF Done
        <4>5. Leads(n, m)
          BY <2>5, <3>2 DEF PosInv
        <4> QED
          BY <2>2, <3>2, <4>4, <4>5 DEF Held, Leads
      <3> QED
        BY <2>1, <2>2, <3>1, <3>2
    <2> QED
      BY <2>1, <2>2, <2>3, <2>4, <2>5, EntryDone
  <1>3. CASE SkipGeoAdd(n)
    <2>1. /\ pc[n] = "idle" /\ applied[n] < Len(log)
          /\ applied' = [applied EXCEPT ![n] = applied[n] + 1]
          /\ strayed' = [strayed EXCEPT ![n] = strayed[n] \cup Named(log[applied[n] + 1])]
          /\ UNCHANGED <<coord, log, pc, node, op, batch, i, shard, cnt, alone>>
      BY <1>3 DEF SkipGeoAdd, store, work
    <2>2. DOMAIN strayed' = Nodes /\ \A k \in Nodes : strayed[k] \subseteq strayed'[k]
      BY <1>1, <2>1
    <2>3. pc'[n] = "idle" /\ \A v \in Workers \ {n} : Stays(v)
      BY <2>1 DEF Stays
    <2>4. ASSUME NEW m \in Members, m \notin strayed'[n]
          PROVE  Held(n, m)
      <3>1. m \notin Named(log[applied[n] + 1])
        BY <1>1, <2>1, <2>4
      <3> QED
        BY <3>1 DEF Held, Places, Named
    <2> QED
      BY <2>1, <2>2, <2>3, <2>4, EntryDone
  <1> QED
    BY <1>2, <1>3

(* A list with a place for m names it.                                      *)
LEMMA PlacesNamed == ASSUME NEW b, NEW m, Places(b, m) # {} PROVE m \in Named(b)
  BY DEF Places, Named

(* A request that ends early, keeps its members local or answers: what it   *)
(* brought is in the log, or strays.                                        *)
LEMMA RequestsLeave ==
    ASSUME GeoInv, PosInv, NEW p \in Procs, SetFails(p) \/ KeepLocal(p) \/ Answer(p)
    PROVE  PosInv'
  <1>1. Shape /\ p \in Workers /\ p \notin Nodes /\ DOMAIN strayed = Nodes
    BY GeoAssumption DEF GeoInv, PosInv, Workers
  <1>2. Stop({p}) /\ pc[p] # "idle" /\ UNCHANGED <<coord, log, applied>>
    BY <1>1 DEF SetFails, KeepLocal, Answer, store, raft
  <1>3. node[p] \in Nodes
    BY <1>1, <1>2 DEF GeoInv, WorkFits
  <1>4. \A v \in Workers \ {p} : Stays(v)
    BY <1>1, <1>2, StopDoes
  <1>5. \/ strayed' = strayed /\ pc[p] = "wait"
        \/ strayed' = [strayed EXCEPT ![node[p]] = strayed[node[p]] \cup Named(batch[p])]
    BY DEF SetFails, KeepLocal, Answer, hist
  <1>6. DOMAIN strayed' = Nodes /\ \A n \in Nodes : strayed[n] \subseteq strayed'[n]
    BY <1>1, <1>3, <1>5
  <1>7. ASSUME NEW n \in Nodes, NEW m \in Members, m \notin strayed'[n]
        PROVE  Onward(p, n, m)
    <2> SUFFICES ASSUME Unlogged(p, n), Places(batch[p], m) # {} PROVE FALSE
      BY DEF Onward
    <2>1. m \in Named(batch[p]) /\ node[p] = n /\ pc[p] # "wait"
      BY PlacesNamed DEF Unlogged
    <2> QED
      BY <1>1, <1>5, <1>7, <2>1
  <1>8. Quiet({p})
    BY <1>1, <1>2, <1>4, <1>6, <1>7 DEF Quiet
  <1> QED
    BY <1>8, QuietStep

(* A worker that begins has stored nothing yet.                             *)
LEMMA StartFollows ==
    ASSUME GeoInv, PosInv, NEW w \in Workers, NEW n \in Nodes, NEW o, NEW b \in Batches,
           pc[w] = "idle", Start(w, n, o, b), UNCHANGED <<coord, log, applied, strayed>>,
           w \in Nodes => n = w /\ o = "add" /\ applied[w] < Len(log) /\ b = log[applied[w] + 1]
    PROVE  PosInv'
  <1>1. Shape
    BY DEF GeoInv
  <1>2. /\ pc'[w] = "coord" /\ node'[w] = n /\ op'[w] = o /\ batch'[w] = b /\ i'[w] = 1
        /\ \A v \in Workers \ {w} : Stays(v)
    BY <1>1 DEF Start, Shape, Stays
  <1>3. \A p \in Procs \cap {w} : \A k, m : Onward(p, k, m)
    BY DEF Onward, Unlogged
  <1>4. ASSUME NEW k \in Nodes \cap {w}
        PROVE  Applying(k)' /\ \A m \in Members : StandsStill(k, m)
    <2>1. k = w /\ n = w /\ Applying(w)
      BY DEF PosInv
    <2>2. Applying(w)'
      BY <1>2, <2>1 DEF Applying, Writing
    <2>3. ASSUME NEW m PROVE Done(w, m)' = {}
      <3>1. Places(b, m) \in SUBSET (1 .. Len(b)) /\ Len(b) \in Nat
        BY ListFacts
      <3>2. \A j \in Places(b, m) : ~(j < 1)
        BY SMT, <3>1
      <3> QED
        BY <1>2, <3>2 DEF Done
    <2> QED
      BY <2>1, <2>2, <2>3 DEF StandsStill
  <1>5. DOMAIN strayed' = Nodes /\ \A k \in Nodes : strayed[k] \subseteq strayed'[k]
    BY DEF PosInv
  <1>6. Quiet({w})
    BY <1>2, <1>3, <1>4, <1>5 DEF Quiet
  <1> QED
    BY <1>6, QuietStep

(* A new entry: what the log gave up to any entry is the same, and what it  *)
(* gives after that includes the new entry's positions.                     *)
LEMMA LogGrows ==
    ASSUME Shape, MaxExists, NEW b \in Batches, NEW m, NEW k \in 0 .. Len(log)
    PROVE  /\ LastIn(Append(log, b), m, k) = LastIn(log, m, k)
           /\ AfterIn(log, m, k) \subseteq AfterIn(Append(log, b), m, k)
           /\ \A pos \in Positions : pos \in Given(b, m) => pos \in AfterIn(Append(log, b), m, k)
  <1> DEFINE L == Append(log, b)
  <1>1. Len(log) \in Nat /\ DOMAIN log = 1 .. Len(log) /\ log \in Seq(Batches)
    BY LogFacts DEF Shape
  <1>2. DOMAIN L = 1 .. Len(log) + 1 /\ L[Len(log) + 1] = b
        /\ \A e \in 1 .. Len(log) : L[e] = log[e]
    BY SMT, <1>1
  <1>3. k \in Nat /\ Len(log) + 1 > k /\ Len(log) + 1 \in 1 .. Len(log) + 1
        /\ (\A e \in 1 .. k : e \in 1 .. Len(log))
        /\ \A e \in 1 .. Len(log) : e \in 1 .. Len(log) + 1
    BY SMT, <1>1
  <1> HIDE DEF L
  <1>4. AfterIn(log, m, k) \subseteq AfterIn(L, m, k)
    BY <1>1, <1>2, <1>3 DEF AfterIn
  <1>5. \A pos \in Positions : pos \in Given(b, m) => pos \in AfterIn(L, m, k)
    BY <1>2, <1>3 DEF AfterIn
  <1>6. LastIn(L, m, k) = LastIn(log, m, k)
    <2> DEFINE es == {e \in 1 .. k : Places(log[e], m) # {}}
    <2>1. {e \in 1 .. k : Places(L[e], m) # {}} = es
      BY <1>2, <1>3
    <2>2. CASE es = {}
      BY <2>1, <2>2 DEF LastIn
    <2>3. CASE es # {}
      <3>1. Max(es) \in es
        BY <1>3, <2>3 DEF MaxExists
      <3>2. L[Max(es)] = log[Max(es)]
        BY <1>2, <1>3, <3>1
      <3> QED
        BY <2>1, <2>3, <3>2 DEF LastIn
    <2> QED
      BY <2>2, <2>3
  <1> QED
    BY <1>4, <1>5, <1>6 DEF L

(* ApplyCommand moves what a request brought from the way into the log.     *)
LEMMA ReplicateFollows ==
    ASSUME GeoInv, PosInv, NEW p \in Procs, Replicate(p)
    PROVE  PosInv'
  <1> SUFFICES ASSUME NEW b, b = batch[p], NEW L, L = Append(log, b)
               PROVE  PosInv'
    OBVIOUS
  <1>1. /\ pc[p] = "raft" /\ log' = L /\ pc' = [pc EXCEPT ![p] = "wait"]
        /\ UNCHANGED <<coord, applied, strayed, node, op, batch, i>>
    BY DEF Replicate, store, hist
  <1>2. /\ Shape /\ MaxExists /\ DOMAIN strayed = Nodes /\ b \in Batches
        /\ p \in Workers /\ p \notin Nodes
    BY <1>1, GeoAssumption DEF GeoInv, PosInv, WorkFits, Workers
  <1>3. /\ Len(log) \in Nat /\ log \in Seq(Batches) /\ Len(L) = Len(log) + 1
        /\ \A e \in 1 .. Len(log) : L[e] = log[e]
    <2>1. Len(log) \in Nat /\ log \in Seq(Batches)
      BY <1>2, LogFacts DEF Shape
    <2> QED
      BY SMT, <1>2, <2>1
  <1>4. \A v \in Workers \ {p} : pc'[v] = pc[v]
    BY <1>1, <1>2 DEF Shape
  <1>5. ASSUME NEW n \in Nodes
        PROVE  /\ Applying(n) /\ Applying(n)' /\ pc'[n] = pc[n] /\ applied[n] \in 0 .. Len(log)
               /\ pc[n] # "idle" => applied[n] + 1 \in 0 .. Len(log)
    <2>1. pc'[n] = pc[n] /\ Applying(n)
      BY <1>2, <1>4 DEF Workers, PosInv
    <2>2. applied[n] \in 0 .. Len(log)
      BY <2>1 DEF Applying
    <2>3. /\ applied[n] \in 0 .. Len(L)
          /\ applied[n] < Len(log) => /\ applied[n] < Len(L) /\ L[applied[n] + 1] = log[applied[n] + 1]
                                      /\ applied[n] + 1 \in 0 .. Len(log)
      BY SMT, <1>3, <2>2
    <2> QED
      BY <1>1, <2>1, <2>2, <2>3 DEF Applying, Writing
  <1>6. ASSUME NEW n \in Nodes, NEW m, NEW k \in 0 .. Len(log)
        PROVE  /\ LastIn(L, m, k) = LastIn(log, m, k)
               /\ AfterIn(log, m, k) \cup OnTheWay(n, m) \subseteq AfterIn(L, m, k) \cup OnTheWay(n, m)'
    <2>1. /\ LastIn(L, m, k) = LastIn(log, m, k)
          /\ AfterIn(log, m, k) \subseteq AfterIn(L, m, k)
          /\ \A pos \in Positions : pos \in Given(b, m) => pos \in AfterIn(L, m, k)
      <3>1. /\ LastIn(Append(log, b), m, k) = LastIn(log, m, k)
            /\ AfterIn(log, m, k) \subseteq AfterIn(Append(log, b), m, k)
            /\ \A pos \in Positions : pos \in Given(b, m) => pos \in AfterIn(Append(log, b), m, k)
        BY <1>2, LogGrows
      <3> QED
        BY <3>1
    <2>2. ASSUME NEW pos \in OnTheWay(n, m)
          PROVE  pos \in AfterIn(L, m, k) \cup OnTheWay(n, m)'
      <3>1. PICK q \in Procs : Unlogged(q, n) /\ pos \in Given(batch[q], m) /\ pos \in Positions
        BY DEF OnTheWay
      <3>2. CASE q = p
        BY <2>1, <3>1, <3>2
      <3>3. CASE q # p
        <4>1. Unlogged(q, n)' /\ pos \in Given(batch[q], m)'
          BY <1>1, <1>4, <3>1, <3>3 DEF Unlogged, Workers, Given, Places
        <4> QED
          BY <3>1, <4>1 DEF OnTheWay
      <3> QED
        BY <3>2, <3>3
    <2> QED
      BY <2>1, <2>2
  <1>7. ASSUME NEW n \in Nodes, NEW m \in Members, m \notin strayed'[n]
        PROVE  Follows(n, m)' /\ Leads(n, m)'
    <2>1. Follows(n, m) /\ Leads(n, m) /\ coord'[n][m] = coord[n][m] /\ applied'[n] = applied[n]
      BY <1>1, <1>7 DEF PosInv
    <2>2. Reach(n, m) \subseteq Reach(n, m)'
      <3>1. Reach(n, m)' = LastIn(L, m, applied[n]) \cup AfterIn(L, m, applied[n]) \cup OnTheWay(n, m)'
        BY <1>1, <2>1 DEF Reach
      <3> QED
        BY <1>5, <1>6, <3>1 DEF Reach
    <2>3. ASSUME pc'[n] # "idle", Done(n, m)' # {}
          PROVE  coord'[n][m] \in {batch[n][Max(Done(n, m))].pos}' \cup Ahead(n, m)'
      <3>1. applied[n] + 1 \in 0 .. Len(log) /\ pc'[n] = pc[n]
        BY <1>5, <2>3
      <3>2. Ahead(n, m)' = AfterIn(L, m, applied[n] + 1) \cup OnTheWay(n, m)'
        BY <1>1 DEF Ahead
      <3>3. Ahead(n, m) \subseteq Ahead(n, m)'
        BY <1>6, <3>1, <3>2 DEF Ahead
      <3>4. Done(n, m)' = Done(n, m)
        BY <1>1, <3>1 DEF Done, Places
      <3>5. Max(Done(n, m))' = Max(Done(n, m))
        BY <3>4 DEF Max
      <3>6. coord[n][m] \in {batch[n][Max(Done(n, m))].pos} \cup Ahead(n, m)
        BY <2>1, <2>3, <3>1, <3>4 DEF Leads
      <3> QED
        BY <1>1, <3>3, <3>5, <3>6
    <2> QED
      BY <2>1, <2>2, <2>3 DEF Follows, Leads
  <1> QED
    BY <1>1, <1>2, <1>5, <1>7 DEF PosInv

(* A crash: the log is applied again from a snapshot, and what requests had *)
(* brought and not logged strays.                                           *)
LEMMA RestartFollows ==
    ASSUME GeoInv, PosInv, NEW n \in Nodes, Restart(n)
    PROVE  PosInv'
  <1> SUFFICES ASSUME NEW here, here = {w \in Workers : node[w] = n /\ pc[w] # "idle"}
               PROVE  PosInv'
    OBVIOUS
  <1>1. /\ Stop(here) /\ UNCHANGED <<coord, log>>
        /\ strayed' = [strayed EXCEPT ![n] = strayed[n] \cup
                UNION {Named(batch[w]) : w \in {p \in here \cap Procs : pc[p] # "wait"}}]
    BY DEF Restart, store
  <1>2. PICK snap \in 0 .. applied[n] : applied' = [applied EXCEPT ![n] = snap]
    BY DEF Restart
  <1>3. Shape /\ DOMAIN strayed = Nodes /\ applied[n] \in 0 .. Len(log)
    BY DEF GeoInv, PosInv, Applying
  <1>4. /\ \A v \in Workers \cap here : pc'[v] = "idle"
        /\ \A v \in Workers \ here : Stays(v)
    BY <1>1, <1>3, StopDoes
  <1>5. /\ DOMAIN strayed' = Nodes /\ \A k \in Nodes : strayed[k] \subseteq strayed'[k]
        /\ \A p \in here \cap Procs : pc[p] # "wait" => Named(batch[p]) \subseteq strayed'[n]
    BY <1>1, <1>3
  <1>6. applied'[n] = snap /\ \A k \in Nodes \ {n} : applied'[k] = applied[k]
    BY <1>2, <1>3 DEF Shape
  <1>7. \A k \in Nodes : k \in here <=> k = n /\ pc[n] # "idle"
    BY DEF PosInv, Applying, Workers
  <1>8. pc'[n] = "idle"
    <2>1. n \notin here => pc[n] = "idle"
      BY <1>7
    <2> QED
      BY <1>4, <2>1 DEF Workers, Stays
  <1>9. Applying(n)'
    <2>1. snap \in 0 .. Len(log)
      BY SMT, <1>3, LogFacts
    <2> QED
      BY <1>1, <1>6, <1>8, <2>1 DEF Applying
  <1>10. ASSUME NEW m \in Members, m \notin strayed'[n]
         PROVE  Follows(n, m)' /\ Leads(n, m)'
    <2>1. m \notin strayed[n] /\ coord'[n][m] = coord[n][m] /\ log' = log
      BY <1>1, <1>5, <1>10
    <2>2. ASSUME NEW p \in Procs PROVE Onward(p, n, m)
      <3> SUFFICES ASSUME Unlogged(p, n), Places(batch[p], m) # {} PROVE FALSE
        BY DEF Onward
      <3>1. p \in here /\ pc[p] # "wait" /\ m \in Named(batch[p])
        BY PlacesNamed DEF Unlogged, Workers
      <3> QED
        BY <1>5, <1>10, <3>1
    <2>3. applied'[n] \in 0 .. applied[n] /\ pc'[n] = "idle"
      BY <1>6, <1>8
    <2> QED
      BY <2>1, <2>2, <2>3, PositionKept
  <1>11. ASSUME NEW p \in Procs \cap here, NEW k \in Nodes \ {n}, NEW m PROVE Onward(p, k, m)
    BY DEF Onward, Unlogged
  <1>12. \A k \in Nodes \ {n} : k \notin here /\ coord'[k] = coord[k] /\ applied'[k] = applied[k]
    BY <1>1, <1>6, <1>7
  <1>13. log' = log
    BY <1>1
  <1>14. Frame(here, {n})
    <2> QED
      BY <1>4, <1>5, <1>9, <1>10, <1>11, <1>12, <1>13 DEF Frame
  <1> QED
    BY <1>14, FrameStep

(* The invariant of the positions is inductive.                             *)
LEMMA PosNext ==
    ASSUME GeoInv, PosInv, [Next]_vars PROVE PosInv'
  <1>1. ASSUME NEW w \in Workers, Worker(w) PROVE PosInv'
    <2>1. Apart(w) /\ (w \in Procs \/ w \in Nodes)
      BY <1>1, WorkerKeeps DEF Workers
    <2>2. CASE WriteCoord(w)
      BY <2>1, <2>2, WriteCoordFollows
    <2>3. CASE SetFails(w) \/ (WriteIndex(w) /\ w \in Nodes)
      BY <2>1, <2>3, EntriesDone, RequestsLeave
    <2>4. CASE \/ WriteMeta(w) \/ ScanShard(w) \/ (WriteIndex(w) /\ w \notin Nodes)
               \/ DeleteIndex(w) \/ ReadIndex(w) \/ UpdateIndex(w)
               \/ DeleteFails(w) \/ ScanFails(w)
      BY <2>1, <2>4, QuietWorkers
    <2> QED
      BY <1>1, <2>2, <2>3, <2>4 DEF Worker
  <1>2. ASSUME NEW p \in Procs, NEW n \in Nodes, NEW b \in Batches,
               handleGeoCommands(p, n, b) \/ handleGeoCluster(p, n, b)
        PROVE  PosInv'
    <2>1. /\ p \in Workers /\ p \notin Nodes /\ pc[p] = "idle"
          /\ Start(p, n, "add", b) \/ Start(p, n, "del", b)
          /\ UNCHANGED <<coord, log, applied, strayed>>
      BY <1>2, GeoAssumption DEF handleGeoCommands, handleGeoCluster, Request, handleGeoAdd,
                                 handleGeoDel, store, raft, hist, Workers
    <2> QED
      BY <2>1, StartFollows
  <1>3. ASSUME NEW p \in Procs, Replicate(p) \/ KeepLocal(p) \/ Answer(p) PROVE PosInv'
    BY <1>3, ReplicateFollows, RequestsLeave
  <1>4. ASSUME NEW n \in Nodes, ApplyGeoAdd(n) PROVE PosInv'
    <2>1. /\ n \in Workers /\ pc[n] = "idle" /\ Start(n, n, "add", log[applied[n] + 1])
          /\ UNCHANGED <<coord, log, applied, strayed>> /\ applied[n] < Len(log)
      BY <1>4 DEF ApplyGeoAdd, store, raft, hist, Workers
    <2>2. log \in Seq(Batches) /\ applied[n] \in Nat
      BY DEF GeoInv, Shape
    <2>3. log[applied[n] + 1] \in Batches
      BY SMT, <2>1, <2>2
    <2> QED
      BY <2>1, <2>3, StartFollows
  <1>5. ASSUME NEW n \in Nodes, SkipGeoAdd(n) PROVE PosInv'
    BY <1>5, EntriesDone
  <1>6. ASSUME \/ \E n \in Nodes : SetFSMGeoAddCallback(n) \/ Elect(n) \/ monitorLeadership(n)
               \/ UNCHANGED vars
        PROVE  PosInv'
    <2>1. UNCHANGED <<coord, log, applied, strayed, pc, node, op, batch, i, shard, cnt, alone>>
      BY <1>6 DEF SetFSMGeoAddCallback, Elect, monitorLeadership, vars, store, raft, work, hist
    <2>2. DOMAIN strayed' = Nodes
      BY <2>1 DEF PosInv
    <2>3. Quiet({})
      BY <2>1, <2>2 DEF Quiet, Stays
    <2> QED
      BY <2>3, QuietStep
  <1>7. ASSUME NEW n \in Nodes, Restart(n) PROVE PosInv'
    BY <1>7, RestartFollows
  <1> QED
    BY <1>1, <1>2, <1>3, <1>4, <1>5, <1>6, <1>7 DEF Next

(* Nothing is stored and nobody works at the start.                         *)
LEMMA GeoInit ==
    ASSUME Init, MembersCount PROVE GeoInv
  <1>1. Shape
    <2>1. << >> \in Seq(Batches) /\ 0 \in Nat
      BY SMT
    <2> QED
      BY <2>1 DEF Init, Shape
  <1>2. \A w \in Workers : WorkFits(w) /\ Lone(w)
    BY DEF Init, WorkFits, Lone, Writing
  <1>3. ASSUME NEW n \in Nodes PROVE Settled(n)
    <2>1. index[n] = None /\ Here(n) = {}
      BY DEF Init, Here
    <2> QED
      BY <2>1 DEF Settled
  <1> QED
    BY <1>1, <1>2, <1>3 DEF GeoInv

(* The log is empty at the start.                                           *)
LEMMA PosInit ==
    ASSUME Init, MaxExists PROVE PosInv
  <1>1. Len(log) = 0 /\ 0 \in 0 .. 0
    BY SMT DEF Init
  <1>2. ASSUME NEW n \in Nodes
        PROVE  pc[n] = "idle" /\ applied[n] = 0 /\ \A m \in Members : coord[n][m] = None
    BY DEF Init, Workers
  <1>3. \A m : LastIn(log, m, 0) = {None}
    <2>1. ~\E e \in 1 .. 0 : TRUE
      BY SMT
    <2> QED
      BY <2>1 DEF LastIn
  <1>4. DOMAIN strayed = Nodes
    BY DEF Init
  <1> QED
    BY <1>1, <1>2, <1>3, <1>4 DEF PosInv, Applying, Follows, Leads, Reach

(* A node on which nobody writes is settled.                                *)
LEMMA IndexHolds == GeoInv => IndexCountsMembers
  <1> SUFFICES ASSUME GeoInv, NEW n \in Nodes, ~raced[n],
                      ~\E w \in Workers : Writing(w) /\ node[w] = n
               PROVE  index[n] = IF getAllGeoMembers(n) = {} THEN None
                                 ELSE Cardinality(getAllGeoMembers(n))
    BY DEF IndexCountsMembers
  <1>1. \A m \in Members : ShardOf[m] \in 1 .. NShards
    BY GeoAssumption
  <1>2. getAllGeoMembers(n) = Here(n)
    <2>1. ASSUME NEW m \in Here(n) PROVE m \in getAllGeoMembers(n)
      <3>1. m \in scanKeysWithPrefix(n, ShardOf[m]) /\ ShardOf[m] \in 1 .. NShards
        BY <1>1 DEF scanKeysWithPrefix, Here
      <3> QED
        BY <3>1 DEF getAllGeoMembers
    <2>2. ASSUME NEW s \in 1 .. NShards PROVE scanKeysWithPrefix(n, s) \subseteq Here(n)
      BY DEF scanKeysWithPrefix, Here
    <2> QED
      BY <2>1, <2>2 DEF getAllGeoMembers
  <1>3. Settled(n) /\ Still(n)
    BY DEF GeoInv, Still
  <1> QED
    BY <1>2, <1>3 DEF Settled

(* What Reach allows is what the property allows.                           *)
LEMMA PositionsHold == PosInv => PositionsFollowLog
  <1> SUFFICES ASSUME PosInv, NEW n \in Nodes, NEW m \in Members \ strayed[n]
               PROVE  handleGeoPos(n, m) \in LastGiven(m, applied[n])
                          \cup GivenAfter(m, applied[n]) \cup OnTheWay(n, m)
    BY DEF PositionsFollowLog
  <1>1. handleGeoPos(n, m) = coord[n][m]
    <2>1. GetGeo(n, m).found = (coord[n][m] # None) /\ GetGeo(n, m).pos = coord[n][m]
      BY DEF GetGeo
    <2> QED
      BY <2>1 DEF handleGeoPos
  <1>2. coord[n][m] \in Reach(n, m)
    BY DEF PosInv, Follows
  <1>3. /\ LastIn(log, m, applied[n]) = LastGiven(m, applied[n])
        /\ AfterIn(log, m, applied[n]) = GivenAfter(m, applied[n])
    BY DEF LastIn, LastGiven, AfterIn, GivenAfter
  <1> QED
    BY <1>1, <1>2, <1>3 DEF Reach

-----------------------------------------------------------------------------
INSTANCE FiniteSetTheorems

(* The facts about counting, from the library.                              *)
LEMMA CountingHolds == MembersCount
  <1>1. \A S \in SUBSET Members : IsFiniteSet(S)
    BY FS_Subset, GeoAssumption
  <1>2. \A S \in SUBSET Members : Cardinality(S) \in Nat /\ (Cardinality(S) = 0 <=> S = {})
    BY <1>1, FS_CardinalityType, FS_EmptySet
  <1>3. ASSUME NEW S \in SUBSET Members, NEW T \in SUBSET Members, S \cap T = {}
        PROVE  Cardinality(S \cup T) = Cardinality(S) + Cardinality(T)
    <2>1. IsFiniteSet(S) /\ IsFiniteSet(T)
      BY <1>1
    <2>2. Cardinality(S \cup T) = Cardinality(S) + Cardinality(T) - Cardinality(S \cap T)
      BY <2>1, FS_Union
    <2>3. Cardinality(S \cap T) = 0 /\ Cardinality(S) \in Nat /\ Cardinality(T) \in Nat
      BY <1>2, <1>3
    <2> QED
      BY SMT, <2>2, <2>3
  <1> QED
    BY <1>2, <1>3 DEF MembersCount

(* The greatest t of T is the one with the least k - t.                     *)
LEMMA MaxHolds == MaxExists
  <1> SUFFICES ASSUME NEW k \in Nat, NEW T \in SUBSET (1 .. k), T # {}
               PROVE  Max(T) \in T /\ \A y \in T : y <= Max(T)
    BY DEF MaxExists
  <1> DEFINE gaps == {k - t : t \in T}
  <1>1. gaps \subseteq Nat /\ gaps # {}
    <2>1. \A t \in 1 .. k : k - t \in Nat
      BY SMT
    <2> QED
      BY <2>1
  <1>2. PICK x \in gaps : \A y \in gaps : ~(<<y, x>> \in OpToRel(<, Nat))
    <2> HIDE DEF gaps
    <2> QED
      BY <1>1, NatLessThanWellFounded, WFMin
  <1>3. PICK t \in T : x = k - t
    OBVIOUS
  <1>4. \A y \in gaps : ~(y < x)
    BY <1>1, <1>2 DEF OpToRel
  <1>5. ASSUME NEW y \in T PROVE t >= y
    <2>1. ~(k - y < x) /\ t \in 1 .. k /\ y \in 1 .. k
      BY <1>4
    <2> QED
      BY SMT, <1>3, <2>1
  <1>6. Max(T) \in T /\ \A y \in T : Max(T) >= y
    BY <1>5 DEF Max
  <1>7. ASSUME NEW y \in T PROVE y <= Max(T)
    <2>1. Max(T) >= y /\ Max(T) \in 1 .. k /\ y \in 1 .. k
      BY <1>6
    <2> HIDE DEF Max
    <2> QED
      BY SMT, <2>1
  <1> QED
    BY <1>6, <1>7

(* The two invariants hold from the start and are kept.                     *)
LEMMA GeoInvariance == Spec => [](GeoInv /\ PosInv)
  <1>1. Init => GeoInv /\ PosInv
    BY CountingHolds, MaxHolds, GeoInit, PosInit
  <1> QED
    BY <1>1, GeoNext, PosNext, PTL DEF Spec

(* The index a node keeps for the key counts the members it stores, when    *)
(* nobody writes there and the last to write the index was undisturbed:     *)
(* SetGeo and DeleteGeo count by scanning, not by adding one.               *)
THEOREM GeoIndexCounts == Spec => []IndexCountsMembers
  BY GeoInvariance, IndexHolds, PTL

(* No node that has applied the log up to an entry shows a position of a    *)
(* member older than that entry's, whatever requests SetGeo beside the FSM  *)
(* and however often the log is applied again after a crash.                *)
THEOREM GeoPositionsFollow == Spec => []PositionsFollowLog
  BY GeoInvariance, PositionsHold, PTL
=============================================================================
