--------------------------- MODULE CacheEngineProofs ---------------------------
(* Proofs about CacheEngine, for any number of goroutines, databases, keys  *)
(* and shards, and about MVCCStore, for any writers, keys, GC threshold and *)
(* bound on the clock.                                                      *)
EXTENDS CacheEngine, MVCCStore, TLAPS

\* Leaves that name no prover are for Zenon.
USE Zenon

-----------------------------------------------------------------------------
(* The inductive invariant *)

(* The handles in the map are the current ones of the listed databases.     *)
LEMMA InMapped ==
    ASSUME NEW h
    PROVE  h \in Mapped <=>
             \E d \in Databases, i \in Shards : databases[d] # 0 /\ h = <<d, i, databases[d]>>
BY SMT DEF Mapped, Handles

(* The same of the map after a step.                                        *)
LEMMA InMappedNext ==
    ASSUME NEW h
    PROVE  h \in Mapped' <=>
             \E d \in Databases, i \in Shards : databases'[d] # 0 /\ h = <<d, i, databases'[d]>>
BY SMT DEF Mapped, Handles

(* The initial states satisfy the invariant.                                *)
LEMMA InitInv == Init => IndInv
<1> SUFFICES ASSUME Init PROVE IndInv
  OBVIOUS
<1>0. ASSUME NEW h
      PROVE  h \in open <=> \E d \in Builtin, i \in Shards : h = <<d, i, 1>>
  BY SMT DEF Init, Handles
<1>1. TypeOK
  <2>1. open \subseteq Databases \X Shards \X Nat
    BY SMT, <1>0, EngineAssumption
  <2> QED BY <2>1, EngineAssumption DEF Init, TypeOK
<1>2. HandlesAccounted
  <2>1. ASSUME NEW h PROVE h \in open <=> h \in Mapped
    BY SMT, <1>0, InMapped, EngineAssumption DEF Init
  <2> QED BY <2>1 DEF HandlesAccounted
<1>3. \A d \in Databases : databases[d] <= gens
  BY SMT DEF Init
<1> QED BY SMT, <1>1, <1>2, <1>3 DEF Init, IndInv

-----------------------------------------------------------------------------

(* Answering a request keeps the goroutine's state typed.                   *)
LEMMA AnswerType ==
    ASSUME TypeOK, NEW p \in Procs, Answer(p)
    PROVE  /\ pc' \in [Procs -> {"idle", "check", "init", "lookup", "use", "scan", "drop"}]
           /\ req' \in [Procs -> WellFormed \cup {NoReq}]
           /\ got' \in [Procs -> Nat] /\ next' \in [Procs -> Nat] /\ sum' \in [Procs -> Nat]
           /\ \A q \in Procs : pc'[q] # "idle" =>
                  pc'[q] = pc[q] /\ req'[q] = req[q] /\ got'[q] = got[q]
           /\ \A q \in Procs : got'[q] = got[q] \/ got'[q] = 0
BY DEF TypeOK, Answer, Goto

(* So does going on to a step that needs no shards yet.                     *)
LEMMA ContinueType ==
    ASSUME TypeOK, NEW p \in Procs, pc[p] # "idle", NEW l \in {"init", "lookup"}, Continue(p, l),
           l = "init" => req[p].kind = "create",
           l = "lookup" => req[p].kind \in KeyKinds
    PROVE  /\ pc' \in [Procs -> {"idle", "check", "init", "lookup", "use", "scan", "drop"}]
           /\ UNCHANGED <<req, got, next, sum>>
           /\ \A q \in Procs :
                 /\ pc'[q] # "idle" => req'[q] \in WellFormed
                 /\ pc'[q] = "check" => req'[q].kind = "create"
                 /\ pc'[q] = "init" => req'[q].kind \in KeyKinds \cup {"create"}
                 /\ pc'[q] = "lookup" => req'[q].kind \in KeyKinds \cup {"count"}
                 /\ pc'[q] = "use" => req'[q].kind \in KeyKinds
           /\ \A q \in Procs : pc'[q] \in {"use", "scan"} => pc'[q] = pc[q]
BY DEF TypeOK, Continue, Goto

(* What a step that touches no handle does: the shards a request holds are  *)
(* those it held before or those in the map.                                *)
Quiet ==
    /\ UNCHANGED <<databases, gens, open, leaked, stopped, toClose>>
    /\ \A q \in Procs : \/ got'[q] = got[q]
                        \/ got'[q] = 0
                        \/ req'[q].db \in Databases /\ got'[q] = databases[req'[q].db]
    /\ \A q \in Procs : pc'[q] \in {"use", "scan"} =>
          \/ pc[q] \in {"use", "scan"} /\ req'[q] = req[q] /\ got'[q] = got[q]
          \/ req'[q].db \in Databases /\ got'[q] = databases[req'[q].db] /\ got'[q] # 0

(* Such a step keeps the invariant.                                         *)
LEMMA QuietStep ==
    ASSUME IndInv, TypeOK', Quiet
    PROVE  IndInv'
<1> USE DEF Quiet
<1>1. Mapped' = Mapped
  BY SMT DEF Mapped
<1>2. HandlesAccounted'
  BY <1>1 DEF IndInv, HandlesAccounted
<1>3. \A q \in Procs : got'[q] <= gens'
  BY SMT DEF IndInv, TypeOK
<1>4. ASSUME NEW q \in Procs, pc'[q] \in {"use", "scan"}
      PROVE  got'[q] # 0 /\ \A i \in Shards : Handle(q, i)' \notin leaked'
  <2>1. CASE pc[q] \in {"use", "scan"} /\ req'[q] = req[q] /\ got'[q] = got[q]
    BY <2>1 DEF IndInv, Handle
  <2>2. CASE req'[q].db \in Databases /\ got'[q] = databases[req'[q].db] /\ got'[q] # 0
    <3> SUFFICES ASSUME NEW i \in Shards PROVE Handle(q, i)' \notin leaked'
      BY <2>2
    <3>1. Handle(q, i)' \in Mapped
      BY <2>2, InMapped DEF Handle
    <3> QED BY <3>1 DEF IndInv
  <2> QED BY <1>4, <2>1, <2>2
<1> QED BY <1>1, <1>2, <1>3, <1>4 DEF IndInv

(* The steps that touch neither handles nor files.                          *)
LEMMA QuietSteps ==
    ASSUME IndInv, NEW p \in Procs,
           \/ \E r \in Requests : Receive(p, r)
           \/ CreateCheck(p) \/ InitFound(p) \/ Lookup(p) \/ UseClosed(p) \/ ScanEnds(p)
    PROVE  IndInv'
<1>0. TypeOK
  BY DEF IndInv
<1> USE <1>0
<1>1. ASSUME NEW r \in Requests, Receive(p, r) PROVE IndInv'
  <2>1. r \in WellFormed /\ r.kind \in Kinds
    BY EngineAssumption DEF WellFormed
  <2>2. PICK l \in {"check", "init", "lookup", "drop"} :
          /\ pc' = [pc EXCEPT ![p] = l]
          /\ l = "check" => r.kind = "create"
          /\ l = "init" => r.kind \in KeyKinds
          /\ l = "lookup" => r.kind = "count"
    BY <1>1, <2>1 DEF Receive, Goto, Kinds, KeyKinds
  <2>3. /\ req' = [req EXCEPT ![p] = r]
        /\ UNCHANGED <<databases, gens, open, disk, faults, got, next, sum>>
        /\ UNCHANGED <<always, ever, leaked, stopped, toClose>>
    BY <1>1 DEF Receive, scan, down
  <2>4. TypeOK'
    BY <2>1, <2>2, <2>3 DEF TypeOK
  <2>5. Quiet
    BY <2>2, <2>3 DEF TypeOK, Quiet
  <2> QED BY <2>4, <2>5, QuietStep
<1>2. CASE CreateCheck(p)
  <2> USE <1>2
  <2>1. UNCHANGED <<databases, gens, open, disk, faults, always, ever, leaked, stopped, toClose>>
    BY DEF CreateCheck, scan, down
  <2> USE <2>1
  <2>2. CASE Answer(p)
    <3>1. TypeOK'
      BY <2>2, AnswerType DEF TypeOK
    <3>2. Quiet
      BY <2>2, AnswerType DEF Quiet
    <3> QED BY <3>1, <3>2, QuietStep
  <2>3. CASE Continue(p, "init")
    <3>0. pc[p] # "idle" /\ req[p].kind = "create"
      BY DEF CreateCheck, TypeOK
    <3>1. TypeOK'
      BY <2>3, <3>0, ContinueType DEF TypeOK
    <3>2. Quiet
      BY <2>3, <3>0, ContinueType DEF Quiet
    <3> QED BY <3>1, <3>2, QuietStep
  <2> QED BY <2>2, <2>3 DEF CreateCheck
<1>3. CASE InitFound(p)
  <2> USE <1>3
  <2>1. UNCHANGED <<databases, gens, open, disk, faults, always, ever, leaked, stopped, toClose>>
    BY DEF InitFound, scan, down
  <2> USE <2>1
  <2>2. CASE Answer(p)
    <3>1. TypeOK'
      BY <2>2, AnswerType DEF TypeOK
    <3>2. Quiet
      BY <2>2, AnswerType DEF Quiet
    <3> QED BY <3>1, <3>2, QuietStep
  <2>3. CASE req[p].kind # "create" /\ Continue(p, "lookup")
    <3> USE <2>3
    <3>0. pc[p] # "idle" /\ req[p].kind \in KeyKinds
      BY DEF InitFound, TypeOK
    <3>1. TypeOK'
      BY <3>0, ContinueType DEF TypeOK
    <3>2. Quiet
      BY <3>0, ContinueType DEF Quiet
    <3> QED BY <3>1, <3>2, QuietStep
  <2> QED BY <2>2, <2>3 DEF InitFound, AfterInit
<1>4. CASE Lookup(p)
  <2> USE <1>4
  <2>1. UNCHANGED <<databases, gens, open, disk, faults, leaked, stopped, toClose>>
    BY DEF Lookup, down
  <2>2. CASE databases[req[p].db] = 0
    <3>0. Answer(p) /\ UNCHANGED <<always, ever>>
      BY <2>2 DEF Lookup, scan
    <3>1. TypeOK'
      BY <2>1, <3>0, AnswerType DEF TypeOK
    <3>2. Quiet
      BY <2>1, <3>0, AnswerType DEF Quiet
    <3> QED BY <3>1, <3>2, QuietStep
  <2>3. CASE databases[req[p].db] # 0
    <3> USE <2>3
    <3>0. /\ pc' = [pc EXCEPT ![p] = IF req[p].kind = "count" THEN "scan" ELSE "use"]
          /\ got' = [got EXCEPT ![p] = databases[req[p].db]]
          /\ UNCHANGED <<req, next, sum>>
      BY DEF Lookup, Goto
    <3>1. req[p] \in WellFormed /\ req[p].db \in Databases
      BY DEF TypeOK, Lookup, WellFormed
    <3>2. Stored(req[p].db) \in SUBSET Keys
      BY SMT, <3>1 DEF Stored, TypeOK
    <3>3. always' \in [Procs -> SUBSET Keys] /\ ever' \in [Procs -> SUBSET Keys]
      <4>1. \/ UNCHANGED <<always, ever>>
            \/ /\ always' = [always EXCEPT ![p] = Stored(req[p].db)]
               /\ ever' = [ever EXCEPT ![p] = Stored(req[p].db)]
        BY DEF Lookup, scan
      <4>2. always \in [Procs -> SUBSET Keys] /\ ever \in [Procs -> SUBSET Keys]
        BY DEF TypeOK
      <4> HIDE <1>0, <1>4, <2>3
      <4> QED BY SMT, <3>2, <4>1, <4>2
    <3>4. TypeOK'
      <4>1. req[p].kind # "count" => req[p].kind \in KeyKinds
        BY DEF TypeOK, Lookup
      <4>2. databases[req[p].db] \in Nat
        BY <3>1 DEF TypeOK
      <4> QED BY <2>1, <3>0, <3>1, <3>3, <4>1, <4>2 DEF TypeOK
    <3>5. Quiet
      BY <2>1, <3>0, <3>1 DEF TypeOK, Quiet
    <3> QED BY <3>4, <3>5, QuietStep
  <2> QED BY <2>2, <2>3
<1>5. CASE UseClosed(p)
  <2>1. /\ Answer(p)
        /\ UNCHANGED <<databases, gens, open, disk, faults, always, ever, leaked, stopped, toClose>>
    BY <1>5 DEF UseClosed, down, scan
  <2>2. TypeOK'
    BY <2>1, AnswerType DEF TypeOK
  <2>3. Quiet
    BY <2>1, AnswerType DEF Quiet
  <2> QED BY <2>2, <2>3, QuietStep
<1>6. CASE ScanEnds(p)
  <2>1. /\ Answer(p) /\ Forget(p)
        /\ UNCHANGED <<databases, gens, open, disk, faults, leaked, stopped, toClose>>
    BY <1>6 DEF ScanEnds, down
  <2> USE <2>1
  <2>2. always' \in [Procs -> SUBSET Keys] /\ ever' \in [Procs -> SUBSET Keys]
    BY DEF Forget, TypeOK
  <2>3. TypeOK'
    BY <2>2, AnswerType DEF TypeOK
  <2>4. Quiet
    BY AnswerType DEF Quiet
  <2> QED BY <2>3, <2>4, QuietStep
<1> QED BY <1>1, <1>2, <1>3, <1>4, <1>5, <1>6

-----------------------------------------------------------------------------

(* initDatabaseShards: what follows it keeps the goroutine's state typed.   *)
LEMMA AfterInitType ==
    ASSUME TypeOK, NEW p \in Procs, pc[p] = "init", AfterInit(p)
    PROVE  /\ pc' \in [Procs -> {"idle", "check", "init", "lookup", "use", "scan", "drop"}]
           /\ req' \in [Procs -> WellFormed \cup {NoReq}]
           /\ got' \in [Procs -> Nat] /\ next' \in [Procs -> Nat] /\ sum' \in [Procs -> Nat]
           /\ \A q \in Procs :
                 /\ pc'[q] # "idle" => req'[q] \in WellFormed
                 /\ pc'[q] = "check" => req'[q].kind = "create"
                 /\ pc'[q] = "init" => req'[q].kind \in KeyKinds \cup {"create"}
                 /\ pc'[q] = "lookup" => req'[q].kind \in KeyKinds \cup {"count"}
                 /\ pc'[q] = "use" => req'[q].kind \in KeyKinds
           /\ \A q \in Procs : pc'[q] \in {"use", "scan"} =>
                  pc'[q] = pc[q] /\ req'[q] = req[q] /\ got'[q] = got[q]
           /\ \A q \in Procs : got'[q] = got[q] \/ got'[q] = 0
<1>1. CASE Answer(p)
  BY <1>1, AnswerType DEF TypeOK
<1>2. CASE req[p].kind # "create" /\ Continue(p, "lookup")
  <2>1. req[p].kind \in KeyKinds
    BY <1>2 DEF TypeOK
  <2> QED BY <1>2, <2>1, ContinueType DEF TypeOK, Continue
<1> QED BY <1>1, <1>2 DEF AfterInit

(* Opening the shards of a database keeps the invariant.                    *)
LEMMA InitShardsInv ==
    ASSUME IndInv, NEW p \in Procs, InitShards(p)
    PROVE  IndInv'
<1> DEFINE db == req[p].db
           g == gens + 1
<1>0. TypeOK
  BY DEF IndInv
<1> USE <1>0
<1>1. /\ pc[p] = "init" /\ databases[db] = 0 /\ AfterInit(p)
      /\ gens' = g /\ open' = open \cup Handles(db, g)
      /\ databases' = [databases EXCEPT ![db] = g]
      /\ UNCHANGED <<disk, faults, always, ever, leaked, stopped, toClose>>
  BY DEF InitShards, scan, down
<1> USE <1>1
<1>2. db \in Databases /\ g \in Nat /\ g > gens /\ gens \in Nat
  BY SMT DEF TypeOK, WellFormed
<1> USE <1>2
<1> HIDE DEF g, db
<1>3. TypeOK'
  <2>1. open' \subseteq Databases \X Shards \X Nat
    BY SMT DEF TypeOK, Handles
  <2>2. databases' \in [Databases -> Nat] /\ gens' \in Nat
    BY DEF TypeOK
  <2> QED BY <2>1, <2>2, AfterInitType DEF TypeOK
<1>4. Mapped' = Mapped \cup Handles(db, g)
  <2>1. ASSUME NEW h PROVE h \in Mapped' <=> h \in Mapped \/ h \in Handles(db, g)
    BY SMT, InMapped, InMappedNext DEF Handles, TypeOK
  <2> QED BY <2>1
<1>5. HandlesAccounted'
  BY <1>4 DEF IndInv, HandlesAccounted
<1>6. \A d \in Databases : databases'[d] <= gens'
  BY SMT DEF IndInv, TypeOK
<1>7. \A h \in leaked' : h[3] <= gens'
  BY SMT DEF IndInv, TypeOK
<1>8. Mapped' \cap leaked' = {}
  <2>1. ASSUME NEW h \in Handles(db, g) PROVE h \notin leaked
    BY SMT DEF IndInv, Handles
  <2> QED BY <1>4, <2>1 DEF IndInv
<1>9. \A q \in Procs : got'[q] <= gens'
  <2>1. \A q \in Procs : got'[q] = got[q] \/ got'[q] = 0
    BY AfterInitType
  <2>2. \A q \in Procs : got[q] \in Nat /\ got[q] <= gens
    BY DEF IndInv, TypeOK
  <2> QED BY SMT, <2>1, <2>2
<1>10. \A q \in Procs : pc'[q] \in {"use", "scan"} =>
          got'[q] # 0 /\ \A i \in Shards : Handle(q, i)' \notin leaked'
  BY AfterInitType DEF IndInv, Handle
<1> QED BY <1>3, <1>5, <1>6, <1>7, <1>8, <1>9, <1>10 DEF IndInv

(* So does a creation that fails half-way: what it leaves open bears a      *)
(* generation no database will ever have.                                   *)
LEMMA InitFailsInv ==
    ASSUME IndInv, NEW p \in Procs, InitFails(p)
    PROVE  IndInv'
<1> DEFINE db == req[p].db
           g == gens + 1
<1>0. TypeOK
  BY DEF IndInv
<1> USE <1>0
<1>1. PICK mine \in SUBSET Handles(db, g) :
      /\ pc[p] = "init" /\ Answer(p)
      /\ gens' = g /\ open' = open \cup mine /\ leaked' = leaked \cup mine
      /\ faults' \in Nat
      /\ UNCHANGED <<databases, disk, always, ever, stopped, toClose>>
  <2>1. PICK i \in Shards :
          LET mine == {h \in Handles(db, g) : h[2] < i}
          IN  /\ IF Locked(db, i) THEN UNCHANGED faults
                 ELSE faults < MaxFaults /\ faults' = faults + 1
              /\ open' = open \cup mine
              /\ leaked' = leaked \cup mine
    BY DEF InitFails
  <2>2. faults' \in Nat
    BY SMT, <2>1 DEF TypeOK
  <2>3. /\ pc[p] = "init" /\ Answer(p) /\ gens' = g
        /\ UNCHANGED <<databases, disk, always, ever, stopped, toClose>>
    BY DEF InitFails, scan, down
  <2>4. {h \in Handles(db, g) : h[2] < i} \in SUBSET Handles(db, g)
    OBVIOUS
  <2> QED BY <2>1, <2>2, <2>3, <2>4
<1> USE <1>1
<1>2. db \in Databases /\ g \in Nat /\ g > gens /\ gens \in Nat
  BY SMT DEF TypeOK, WellFormed
<1> USE <1>2
<1> HIDE DEF g, db
<1>3. TypeOK'
  <2>1. mine \subseteq Databases \X Shards \X Nat
    BY SMT DEF Handles
  <2> QED BY <2>1, AnswerType DEF TypeOK
<1>4. Mapped' = Mapped
  BY DEF Mapped
<1>5. HandlesAccounted'
  BY <1>4 DEF IndInv, HandlesAccounted
<1>6. \A d \in Databases : databases'[d] <= gens'
  BY SMT DEF IndInv, TypeOK
<1>7. \A h \in leaked' : h[3] <= gens'
  <2>1. \A h \in mine : h[3] = g
    BY SMT DEF Handles
  <2> QED BY SMTT(20), <2>1 DEF IndInv, TypeOK
<1>8. Mapped' \cap leaked' = {}
  <2>1. ASSUME NEW h \in mine PROVE h \notin Mapped
    <3>1. PICK i \in Shards : h = <<db, i, g>>
      BY <2>1 DEF Handles
    <3>2. \A d \in Databases : databases[d] # g
      BY SMTT(20) DEF IndInv, TypeOK
    <3> QED BY SMT, <3>1, <3>2, InMapped
  <2> QED BY <1>4, <2>1 DEF IndInv
<1>9. \A q \in Procs : got'[q] <= gens'
  BY SMT, AnswerType DEF IndInv, TypeOK
<1>10. ASSUME NEW q \in Procs, pc'[q] \in {"use", "scan"}
       PROVE  got'[q] # 0 /\ \A i \in Shards : Handle(q, i)' \notin leaked'
  <2>1. pc[q] = pc'[q] /\ req'[q] = req[q] /\ got'[q] = got[q]
    BY <1>10, AnswerType
  <2> USE <2>1
  <2>2. got[q] # 0 /\ got[q] # g /\ \A i \in Shards : Handle(q, i) \notin leaked
    BY SMT, <1>10 DEF IndInv, TypeOK
  <2>3. \A i \in Shards : Handle(q, i)' \notin mine
    BY <2>2 DEF Handle, Handles
  <2> QED BY <2>2, <2>3 DEF Handle
<1> QED BY <1>3, <1>5, <1>6, <1>7, <1>8, <1>9, <1>10 DEF IndInv

(* Dropping a database closes its handles and no others.                    *)
LEMMA DropInv ==
    ASSUME IndInv, NEW p \in Procs, Drop(p)
    PROVE  IndInv'
<1> DEFINE db == req[p].db
<1>0. TypeOK
  BY DEF IndInv
<1> USE <1>0
<1>1. /\ pc[p] = "drop" /\ Answer(p)
      /\ UNCHANGED <<gens, disk, faults, always, ever, leaked, stopped, toClose>>
  BY DEF Drop, scan, down
<1> USE <1>1
<1>2. CASE db \in Builtin \/ databases[db] = 0
  <2>1. UNCHANGED <<databases, open>>
    BY <1>2 DEF Drop
  <2>2. TypeOK'
    BY <2>1, AnswerType DEF TypeOK
  <2>3. Quiet
    BY <2>1, AnswerType DEF Quiet
  <2> QED BY <2>2, <2>3, QuietStep
<1>3. CASE ~(db \in Builtin \/ databases[db] = 0)
  <2>1. /\ open' = open \ Handles(db, databases[db])
        /\ databases' = [databases EXCEPT ![db] = 0]
    BY <1>3 DEF Drop
  <2>2. db \in Databases
    BY DEF TypeOK, WellFormed
  <2> HIDE DEF db
  <2>3. TypeOK'
    <3>1. databases' \in [Databases -> Nat] /\ open' \subseteq Databases \X Shards \X Nat
      BY <2>1 DEF TypeOK
    <3> QED BY <3>1, AnswerType DEF TypeOK
  <2>4. Mapped' = Mapped \ Handles(db, databases[db])
    <3>1. ASSUME NEW h PROVE h \in Mapped' <=> h \in Mapped /\ h \notin Handles(db, databases[db])
      BY SMT, <2>1, <2>2, InMapped, InMappedNext DEF Handles, TypeOK
    <3> QED BY <3>1
  <2>5. HandlesAccounted'
    BY <2>1, <2>4 DEF IndInv, HandlesAccounted
  <2>6. \A d \in Databases : databases'[d] <= gens'
    BY SMT, <2>1 DEF IndInv, TypeOK
  <2>7. Mapped' \cap leaked' = {}
    BY <2>4 DEF IndInv
  <2>8. \A q \in Procs : got'[q] <= gens'
    BY SMT, AnswerType DEF IndInv, TypeOK
  <2>9. \A q \in Procs : pc'[q] \in {"use", "scan"} =>
          got'[q] # 0 /\ \A i \in Shards : Handle(q, i)' \notin leaked'
    BY AnswerType DEF IndInv, Handle
  <2> QED BY <2>3, <2>5, <2>6, <2>7, <2>8, <2>9 DEF IndInv
<1> QED BY <1>2, <1>3

(* Shutdown only closes.                                                    *)
LEMMA ShutdownInv ==
    ASSUME IndInv, ShutdownCollect \/ \E h \in toClose : ShutdownClose(h)
    PROVE  IndInv'
<1>1. UNCHANGED <<databases, gens, disk, faults, pc, req, got, next, sum, always, ever, leaked>>
  BY DEF ShutdownCollect, ShutdownClose, proc, scan
<1> USE <1>1
<1>2. stopped' = TRUE /\ open' \subseteq open
  BY DEF ShutdownCollect, ShutdownClose, IndInv
<1>3. Mapped' = Mapped
  BY DEF Mapped
<1>4. toClose' \subseteq Mapped \cup toClose
  BY DEF ShutdownCollect, ShutdownClose
<1>5. Mapped \subseteq Databases \X Shards \X Nat
  BY SMT, InMapped DEF IndInv, TypeOK
<1>6. TypeOK'
  BY <1>2, <1>4, <1>5 DEF IndInv, TypeOK
<1> QED BY <1>2, <1>3, <1>6 DEF IndInv, HandlesAccounted, Handle

-----------------------------------------------------------------------------
(* Counting the keys of a database *)

(* The shard of a key, and the keys of S whose shards a scan that is at     *)
(* shard n has passed.                                                      *)
Home(k) == ShardOf(Hash[k])

Below(S, n) == {k \in S : Home(k) < n}

(* What a count knows on its way: every key is in its own shard, the keys   *)
(* that were there all along still are, and the sum lies between those and  *)
(* the ones there at some time, as far as the shards passed go.             *)
Homes == \A d \in Databases, i \in Shards : \A k \in disk[d][i] : Home(k) = i

ScanFits(p) ==
    /\ pc[p] # "scan" => next[p] = 0 /\ sum[p] = 0
    /\ pc[p] = "scan" =>
          /\ next[p] <= ShardCount
          /\ always[p] \subseteq Stored(req[p].db) /\ Stored(req[p].db) \subseteq ever[p]
          /\ Cardinality(Below(always[p], next[p])) <= sum[p]
          /\ sum[p] <= Cardinality(Below(ever[p], next[p]))

ScanInv == Homes /\ \A p \in Procs : ScanFits(p)

(* A step that leaves the files alone and starts no count.                  *)
LEMMA ScanStays ==
    ASSUME ScanInv, UNCHANGED disk,
           \A q \in Procs :
              \/ /\ pc'[q] = pc[q] /\ next'[q] = next[q] /\ sum'[q] = sum[q]
                 /\ pc[q] = "scan" =>
                      req'[q] = req[q] /\ always'[q] = always[q] /\ ever'[q] = ever[q]
              \/ /\ pc'[q] # "scan"
                 /\ \/ next'[q] = 0 /\ sum'[q] = 0
                    \/ pc[q] # "scan" /\ next'[q] = next[q] /\ sum'[q] = sum[q]
    PROVE  ScanInv'
<1>1. Homes'
  BY DEF ScanInv, Homes
<1>2. ASSUME NEW q \in Procs PROVE ScanFits(q)'
  <2>1. ScanFits(q)
    BY DEF ScanInv
  <2>2. CASE pc'[q] = "scan"
    <3>1. /\ pc[q] = "scan" /\ next'[q] = next[q] /\ sum'[q] = sum[q]
          /\ req'[q] = req[q] /\ always'[q] = always[q] /\ ever'[q] = ever[q]
      BY <2>2
    <3>2. Stored(req[q].db)' = Stored(req[q].db)
      BY ZenonT(30), <3>1 DEF Stored
    <3>3. /\ Below(always[q], next[q])' = Below(always[q], next[q])
          /\ Below(ever[q], next[q])' = Below(ever[q], next[q])
      BY <3>1 DEF Below, Home
    <3> QED
      BY <2>1, <2>2, <3>1, <3>2, <3>3 DEF ScanFits
  <2>3. CASE pc'[q] # "scan"
    BY <2>1, <2>3 DEF ScanFits
  <2> QED
    BY <2>2, <2>3
<1> QED
  BY <1>1, <1>2 DEF ScanInv

(* The steps that leave the files alone and start no count.                 *)
LEMMA ScanStaysSteps ==
    ASSUME IndInv, ScanInv, NEW p \in Procs,
           \/ \E r \in Requests : Receive(p, r)
           \/ CreateCheck(p) \/ InitFound(p) \/ InitShards(p) \/ InitFails(p)
           \/ UseClosed(p) \/ ScanEnds(p) \/ Drop(p)
           \/ Lookup(p) /\ pc'[p] # "scan"
    PROVE  ScanInv'
<1> USE DEF IndInv, TypeOK
<1>1. ASSUME Answer(p), UNCHANGED disk,
             \A q \in Procs \ {p} : always'[q] = always[q] /\ ever'[q] = ever[q]
      PROVE  ScanInv'
  <2>1. /\ pc'[p] = "idle" /\ next'[p] = 0 /\ sum'[p] = 0
        /\ \A q \in Procs \ {p} : /\ pc'[q] = pc[q] /\ req'[q] = req[q]
                                  /\ next'[q] = next[q] /\ sum'[q] = sum[q]
    BY <1>1 DEF Answer, Goto
  <2> QED
    BY <1>1, <2>1, ScanStays
<1>2. ASSUME NEW l, l # "scan", Continue(p, l), pc[p] # "scan", UNCHANGED <<disk, always, ever>>
      PROVE  ScanInv'
  BY <1>2, ScanStays DEF Continue, Goto
<1>3. ASSUME NEW r \in Requests, Receive(p, r) PROVE ScanInv'
  <2>1. /\ pc[p] # "scan" /\ UNCHANGED <<disk, next, sum, always, ever>>
        /\ \A q \in Procs \ {p} : pc'[q] = pc[q] /\ req'[q] = req[q]
    BY <1>3 DEF Receive, Goto, scan
  <2>2. pc'[p] # "scan"
    <3>1. r.kind \in Kinds
      BY EngineAssumption DEF WellFormed
    <3> QED
      BY <1>3, <3>1 DEF Receive, Goto, Kinds, KeyKinds
  <2> QED
    BY <2>1, <2>2, ScanStays
<1> HIDE DEF IndInv, TypeOK
<1>4. CASE CreateCheck(p)
  BY <1>1, <1>2, <1>4 DEF CreateCheck, scan
<1>5. CASE InitFound(p) \/ InitShards(p)
  <2>1. AfterInit(p) /\ pc[p] # "scan" /\ UNCHANGED <<disk, always, ever>>
    BY <1>5 DEF InitFound, InitShards, scan
  <2> QED
    BY <1>1, <1>2, <2>1 DEF AfterInit
<1>6. CASE InitFails(p) \/ UseClosed(p) \/ Drop(p)
  <2>1. Answer(p) /\ UNCHANGED <<disk, always, ever>>
    BY <1>6 DEF InitFails, UseClosed, Drop, scan
  <2> QED
    BY <1>1, <2>1
<1>7. CASE ScanEnds(p)
  <2>1. /\ Answer(p) /\ UNCHANGED disk
        /\ \A q \in Procs \ {p} : always'[q] = always[q] /\ ever'[q] = ever[q]
    BY <1>7 DEF ScanEnds, Forget, IndInv, TypeOK
  <2> QED
    BY <1>1, <2>1
<1>8. CASE Lookup(p) /\ pc'[p] # "scan"
  <2>1. CASE databases[req[p].db] = 0
    <3>1. Answer(p) /\ UNCHANGED <<disk, always, ever>>
      BY <1>8, <2>1 DEF Lookup, scan
    <3> QED
      BY <1>1, <3>1
  <2>2. CASE databases[req[p].db] # 0
    <3>1. /\ pc[p] # "scan" /\ UNCHANGED <<disk, req, next, sum>>
          /\ \A q \in Procs \ {p} : pc'[q] = pc[q]
      BY <1>8, <2>2 DEF Lookup, Goto, IndInv, TypeOK
    <3>2. \A q \in Procs \ {p} : always'[q] = always[q] /\ ever'[q] = ever[q]
      BY <1>8, <2>2 DEF Lookup, scan, IndInv, TypeOK
    <3> QED
      BY <1>8, <3>1, <3>2, ScanStays
  <2> QED
    BY <2>1, <2>2
<1> QED
  BY <1>3, <1>4, <1>5, <1>6, <1>7, <1>8

-----------------------------------------------------------------------------
(* Shards and counting *)

(* Every key has a shard, and sets of keys can be counted.  These facts     *)
(* rest on the libraries of finite sets and of well-founded orders and are  *)
(* shown at the end.                                                        *)
Counting ==
    /\ \A k \in Keys : Home(k) \in Shards
    /\ Cardinality({}) = 0
    /\ \A S, T \in SUBSET Keys :
           /\ Cardinality(S) \in Nat
           /\ T \subseteq S => Cardinality(T) <= Cardinality(S)
           /\ S \cap T = {} => Cardinality(S \cup T) = Cardinality(S) + Cardinality(T)

(* More keys are not fewer.                                                 *)
LEMMA KeysCount ==
    ASSUME Counting, NEW S, S \subseteq Keys, NEW T, T \subseteq S
    PROVE  /\ Cardinality(S) \in Nat /\ Cardinality(T) \in Nat
           /\ Cardinality(T) <= Cardinality(S)
<1>1. S \in SUBSET Keys /\ T \in SUBSET Keys
  OBVIOUS
<1> QED
  BY <1>1 DEF Counting

(* The steps that work on a shard's files.                                  *)
LEMMA ShardSteps ==
    ASSUME Counting, IndInv, NEW p \in Procs, UseShard(p) \/ ScanShard(p)
    PROVE  IndInv'
<1>0. TypeOK
  BY DEF IndInv
<1> USE <1>0
<1>1. CASE UseShard(p)
  <2> USE <1>1
  <2>1. Answer(p) /\ UNCHANGED <<databases, gens, open, faults, leaked, stopped, toClose>>
    BY DEF UseShard, down
  <2>2. req[p] \in WellFormed /\ req[p].db \in Databases /\ req[p].key \in Keys \cup {NoKey}
    BY DEF TypeOK, UseShard, WellFormed
  <2> USE <2>2
  <2> DEFINE db == req[p].db
             i == ShardOf(Hash[req[p].key])
  <2>3. PICK after \in SUBSET Keys :
          /\ disk' = [disk EXCEPT ![db] = [disk[db] EXCEPT ![i] = after]]
          /\ Observe(db, (Stored(db) \ disk[db][i]) \cup after)
    <3>1. req[p].key \in Keys
      BY DEF WellFormed, TypeOK, UseShard
    <3>2. i \in Shards
      BY <3>1 DEF Counting, Home
    <3>3. disk[db][i] \in SUBSET Keys
      BY SMT, <3>2 DEF TypeOK
    <3> HIDE DEF db, i
    <3> QED BY <3>1, <3>3 DEF UseShard, db, i
  <2>4. disk' \in [Databases -> [Shards -> SUBSET Keys]]
    BY <2>3 DEF TypeOK
  <2>5. always' \in [Procs -> SUBSET Keys] /\ ever' \in [Procs -> SUBSET Keys]
    <3>1. Stored(db) \in SUBSET Keys
      BY SMT DEF Stored, TypeOK
    <3> QED BY <2>3, <3>1 DEF Observe, TypeOK
  <2>6. TypeOK'
    BY <2>1, <2>4, <2>5, AnswerType DEF TypeOK
  <2>7. Quiet
    BY <2>1, AnswerType DEF Quiet
  <2> QED BY <2>6, <2>7, QuietStep
<1>2. CASE ScanShard(p)
  <2> USE <1>2
  <2>1. Quiet
    BY DEF ScanShard, Quiet, down
  <2>2. /\ next[p] \in Shards /\ next' = [next EXCEPT ![p] = next[p] + 1]
        /\ sum' = [sum EXCEPT ![p] = sum[p] + Cardinality(disk[req[p].db][next[p]])]
        /\ UNCHANGED <<disk, faults, pc, req, got, always, ever>>
    BY SMTT(20), EngineAssumption DEF ScanShard, TypeOK, Shards, scan
  <2>3. disk[req[p].db][next[p]] \in SUBSET Keys
    BY SMT, <2>2 DEF TypeOK, ScanShard, WellFormed
  <2>4. Cardinality(disk[req[p].db][next[p]]) \in Nat
    BY <2>3, KeysCount
  <2>5. TypeOK'
    BY SMT, <2>1, <2>2, <2>4 DEF TypeOK, Quiet
  <2> QED BY <2>1, <2>5, QuietStep
<1> QED BY <1>1, <1>2

(* Every step keeps the invariant.                                          *)
LEMMA NextInv == Counting /\ IndInv /\ [Next]_vars => IndInv'
<1> SUFFICES ASSUME Counting, IndInv, [Next]_vars PROVE IndInv'
  OBVIOUS
<1>1. ASSUME NEW p \in Procs, Step(p) PROVE IndInv'
  BY <1>1, QuietSteps, ShardSteps, InitShardsInv, InitFailsInv, DropInv DEF Step
<1>2. ASSUME NEW p \in Procs, NEW r \in Requests, Receive(p, r) PROVE IndInv'
  BY <1>2, QuietSteps
<1>3. CASE ShutdownCollect \/ \E h \in toClose : ShutdownClose(h)
  BY <1>3, ShutdownInv
<1>4. CASE UNCHANGED vars
  BY SMT, <1>4 DEF vars, proc, scan, down, IndInv, TypeOK, HandlesAccounted, Mapped, Handle
<1> QED BY <1>1, <1>2, <1>3, <1>4 DEF Next

-----------------------------------------------------------------------------
(* Counting, over the shards *)

(* The files of a shard hold keys.                                          *)
LEMMA ShardFiles ==
    ASSUME IndInv, NEW d \in Databases, NEW i \in Shards
    PROVE  disk[d][i] \subseteq Keys
<1>1. disk \in [Databases -> [Shards -> SUBSET Keys]]
  BY DEF IndInv, TypeOK
<1> QED
  BY <1>1

(* No shard is passed at first, and all of them at the end.                 *)
LEMMA BelowEnds ==
    ASSUME Counting, NEW S, S \subseteq Keys
    PROVE  Below(S, 0) = {} /\ Below(S, ShardCount) = S
<1>1. \A k \in S : Home(k) \in 0 .. (ShardCount - 1)
  BY DEF Counting, Shards
<1>2. \A k \in S : ~(Home(k) < 0) /\ Home(k) < ShardCount
  BY SMT, <1>1, EngineAssumption
<1> QED
  BY <1>2 DEF Below

(* Passing shard n adds the keys of S that belong there.                    *)
LEMMA BelowNext ==
    ASSUME Counting, NEW S, S \subseteq Keys, NEW n \in Nat
    PROVE  Cardinality(Below(S, n + 1)) =
               Cardinality(Below(S, n)) + Cardinality({k \in S : Home(k) = n})
<1> DEFINE A == Below(S, n)
           B == {k \in S : Home(k) = n}
<1>1. \A k \in S : Home(k) \in Nat
  <2>1. \A k \in S : Home(k) \in 0 .. (ShardCount - 1)
    BY DEF Counting, Shards
  <2> QED
    BY SMT, <2>1, EngineAssumption
<1>2. \A k \in S : Home(k) < n + 1 <=> Home(k) < n \/ Home(k) = n
  BY SMT, <1>1
<1>3. \A k \in S : ~(Home(k) < n /\ Home(k) = n)
  BY SMT, <1>1
<1>4. Below(S, n + 1) = A \cup B
  BY <1>2 DEF Below
<1>5. A \cap B = {}
  BY <1>3 DEF Below
<1>6. A \subseteq S /\ B \subseteq S
  BY DEF Below
<1> HIDE DEF A, B
<1>7. A \in SUBSET Keys /\ B \in SUBSET Keys
  BY <1>6
<1>8. Cardinality(A \cup B) = Cardinality(A) + Cardinality(B)
  BY <1>5, <1>7 DEF Counting
<1> QED
  BY <1>4, <1>8 DEF A, B

(* A count begins: it has passed nothing yet.                               *)
LEMMA CountBegins ==
    ASSUME Counting, IndInv, ScanInv, NEW p \in Procs, Lookup(p), pc'[p] = "scan"
    PROVE  ScanInv'
<1>1. /\ pc[p] = "lookup" /\ databases[req[p].db] # 0 /\ req[p].kind = "count"
      /\ UNCHANGED <<disk, req, next, sum>>
      /\ always' = [always EXCEPT ![p] = Stored(req[p].db)]
      /\ ever' = [ever EXCEPT ![p] = Stored(req[p].db)]
      /\ pc' = [pc EXCEPT ![p] = "scan"]
  BY DEF Lookup, Answer, Goto, IndInv, TypeOK
<1>2. /\ always'[p] = Stored(req[p].db) /\ ever'[p] = Stored(req[p].db)
      /\ \A q \in Procs \ {p} : /\ always'[q] = always[q] /\ ever'[q] = ever[q]
                                /\ pc'[q] = pc[q]
  BY <1>1 DEF IndInv, TypeOK
<1>3. /\ next[p] = 0 /\ sum[p] = 0
  BY <1>1 DEF ScanInv, ScanFits
<1>4. Stored(req[p].db) \subseteq Keys
  <2>1. req[p].db \in Databases
    BY <1>1 DEF IndInv, TypeOK, WellFormed
  <2> QED
    BY SMT, <2>1 DEF Stored, IndInv, TypeOK
<1>5. Below(always'[p], 0) = {} /\ Below(ever'[p], 0) = {} /\ Cardinality({}) = 0
  BY <1>2, <1>4, BelowEnds DEF Counting
<1>6. Homes'
  BY <1>1 DEF ScanInv, Homes
<1>7. ScanFits(p)'
  <2>1. Stored(req[p].db)' = Stored(req[p].db)
    BY <1>1 DEF Stored
  <2>2. /\ Below(always[p], next[p])' = {} /\ Below(ever[p], next[p])' = {}
        /\ next'[p] = 0 /\ sum'[p] = 0
    BY <1>1, <1>3, <1>5 DEF Below, Home
  <2>3. 0 <= 0 /\ 0 <= ShardCount
    BY SMT, EngineAssumption
  <2>4. /\ Cardinality(Below(always[p], next[p])') <= sum'[p]
        /\ sum'[p] <= Cardinality(Below(ever[p], next[p])')
    BY <1>5, <2>2, <2>3
  <2> QED
    BY <1>2, <2>1, <2>2, <2>3, <2>4 DEF ScanFits
<1>8. ASSUME NEW q \in Procs \ {p} PROVE ScanFits(q)'
  <2>1. ScanFits(q)
    BY DEF ScanInv
  <2>2. /\ pc'[q] = pc[q] /\ next'[q] = next[q] /\ sum'[q] = sum[q] /\ req'[q] = req[q]
        /\ always'[q] = always[q] /\ ever'[q] = ever[q]
    BY <1>1, <1>2
  <2>3. Stored(req[q].db)' = Stored(req[q].db)
    BY <1>1 DEF Stored
  <2>4. /\ Below(always[q], next[q])' = Below(always[q], next[q])
        /\ Below(ever[q], next[q])' = Below(ever[q], next[q])
    BY <2>2 DEF Below, Home
  <2> QED
    BY <2>1, <2>2, <2>3, <2>4 DEF ScanFits
<1> QED
  BY <1>6, <1>7, <1>8 DEF ScanInv

(* A count passes a shard: the keys it finds there are those of the shard   *)
(* that stayed, and some that were there at some time.                      *)
LEMMA CountGoesOn ==
    ASSUME Counting, IndInv, ScanInv, NEW p \in Procs, ScanShard(p)
    PROVE  ScanInv'
<1> DEFINE db == req[p].db
           n == next[p]
           D == disk[db][n]
<1>1. /\ pc[p] = "scan" /\ n < ShardCount
      /\ UNCHANGED <<disk, pc, req, always, ever>>
      /\ next' = [next EXCEPT ![p] = n + 1] /\ sum' = [sum EXCEPT ![p] = sum[p] + Cardinality(D)]
  BY DEF ScanShard, scan
<1>2. /\ n \in Nat /\ sum[p] \in Nat /\ db \in Databases
      /\ always[p] \subseteq Keys /\ ever[p] \subseteq Keys
      /\ next'[p] = n + 1 /\ sum'[p] = sum[p] + Cardinality(D)
      /\ \A q \in Procs \ {p} : next'[q] = next[q] /\ sum'[q] = sum[q]
  <2>1. /\ next \in [Procs -> Nat] /\ sum \in [Procs -> Nat] /\ req[p] \in WellFormed
        /\ always \in [Procs -> SUBSET Keys] /\ ever \in [Procs -> SUBSET Keys]
    BY <1>1 DEF IndInv, TypeOK
  <2>2. db \in Databases
    BY <2>1 DEF WellFormed
  <2> HIDE DEF D, db
  <2> QED
    BY <1>1, <2>1, <2>2
<1>3. n \in Shards
  BY SMT, <1>1, <1>2, EngineAssumption DEF Shards
<1>4. D \subseteq Keys
  BY <1>2, <1>3, ShardFiles
<1>5. /\ always[p] \subseteq Stored(db) /\ Stored(db) \subseteq ever[p]
      /\ Cardinality(Below(always[p], n)) <= sum[p] /\ sum[p] <= Cardinality(Below(ever[p], n))
  BY <1>1 DEF ScanInv, ScanFits
<1>6. {k \in always[p] : Home(k) = n} \subseteq D
  <2> SUFFICES ASSUME NEW k \in always[p], Home(k) = n PROVE k \in D
    OBVIOUS
  <2>1. PICK i \in Shards : k \in disk[db][i]
    BY <1>5 DEF Stored
  <2>2. i = n
    BY <1>2, <2>1 DEF ScanInv, Homes
  <2> QED
    BY <2>1, <2>2
<1>7. D \subseteq {k \in ever[p] : Home(k) = n}
  <2>1. D \subseteq Stored(db)
    BY <1>3 DEF Stored
  <2>2. \A k \in D : Home(k) = n
    BY <1>2, <1>3 DEF ScanInv, Homes
  <2> QED
    BY <1>5, <2>1, <2>2
<1>8. /\ Cardinality({k \in always[p] : Home(k) = n}) <= Cardinality(D)
      /\ Cardinality({k \in always[p] : Home(k) = n}) \in Nat /\ Cardinality(D) \in Nat
  BY <1>4, <1>6, KeysCount
<1>9. /\ Cardinality(D) <= Cardinality({k \in ever[p] : Home(k) = n})
      /\ Cardinality({k \in ever[p] : Home(k) = n}) \in Nat
  <2>1. {k \in ever[p] : Home(k) = n} \subseteq Keys
    BY <1>2
  <2> QED
    BY <1>7, <2>1, KeysCount
<1>10. /\ Cardinality(Below(always[p], n + 1)) =
             Cardinality(Below(always[p], n)) + Cardinality({k \in always[p] : Home(k) = n})
       /\ Cardinality(Below(ever[p], n + 1)) =
             Cardinality(Below(ever[p], n)) + Cardinality({k \in ever[p] : Home(k) = n})
  BY <1>2, BelowNext
<1>11. /\ Cardinality(Below(always[p], n)) \in Nat /\ Cardinality(Below(ever[p], n)) \in Nat
  <2>1. Below(always[p], n) \subseteq always[p] /\ Below(ever[p], n) \subseteq ever[p]
    BY DEF Below
  <2> QED
    BY <1>2, <2>1, KeysCount
<1>12. /\ Cardinality(Below(always[p], n + 1)) <= sum'[p]
       /\ sum'[p] <= Cardinality(Below(ever[p], n + 1)) /\ n + 1 <= ShardCount
  <2> HIDE DEF D, db, n
  <2> QED
    BY SMT, <1>1, <1>2, <1>5, <1>8, <1>9, <1>10, <1>11, EngineAssumption
<1>13. ScanFits(p)'
  <2>1. /\ Stored(req[p].db)' = Stored(db)
        /\ Below(always[p], next[p])' = Below(always[p], n + 1)
        /\ Below(ever[p], next[p])' = Below(ever[p], n + 1)
    BY <1>1, <1>2 DEF Stored, Below, Home
  <2> HIDE DEF D, db, n
  <2> QED
    BY <1>1, <1>2, <1>5, <1>12, <2>1 DEF ScanFits
<1>14. ASSUME NEW q \in Procs \ {p} PROVE ScanFits(q)'
  <2>1. ScanFits(q)
    BY DEF ScanInv
  <2>2. /\ Stored(req[q].db)' = Stored(req[q].db)
        /\ Below(always[q], next[q])' = Below(always[q], next[q])
        /\ Below(ever[q], next[q])' = Below(ever[q], next[q])
    BY <1>1, <1>2 DEF Stored, Below, Home
  <2> QED
    BY <1>1, <1>2, <2>1, <2>2 DEF ScanFits
<1>15. Homes'
  BY <1>1 DEF ScanInv, Homes
<1> QED
  BY <1>13, <1>14, <1>15 DEF ScanInv

(* A write while counts are under way: they see it, or keep what they saw.  *)
LEMMA CountSeesWrite ==
    ASSUME Counting, IndInv, ScanInv, NEW p \in Procs, UseShard(p)
    PROVE  ScanInv'
<1> DEFINE db == req[p].db
           i == Home(req[p].key)
<1>1. /\ db \in Databases /\ req[p].key \in Keys /\ i \in Shards
      /\ disk[db][i] \in SUBSET Keys
  <2>1. req[p] \in WellFormed /\ req[p].kind \in KeyKinds
    BY DEF IndInv, TypeOK, UseShard
  <2>2. db \in Databases /\ req[p].key \in Keys
    BY <2>1 DEF WellFormed
  <2>3. i \in Shards
    BY <2>2 DEF Counting
  <2> QED
    BY <2>2, <2>3, ShardFiles
<1>2. PICK after \in SUBSET Keys :
        /\ disk' = [disk EXCEPT ![db] = [disk[db] EXCEPT ![i] = after]]
        /\ Observe(db, (Stored(db) \ disk[db][i]) \cup after)
        /\ \A k \in after : k \in disk[db][i] \/ Home(k) = i
  <2> DEFINE a == CASE req[p].kind = "set"    -> disk[db][i] \cup {req[p].key}
                    [] req[p].kind = "delete" -> disk[db][i] \ {req[p].key}
                    [] OTHER                  -> disk[db][i]
  <2>1. /\ disk' = [disk EXCEPT ![db] = [disk[db] EXCEPT ![i] = a]]
        /\ Observe(db, (Stored(db) \ disk[db][i]) \cup a)
    BY DEF UseShard, Home
  <2>2. a = disk[db][i] \cup {req[p].key} \/ a = disk[db][i] \ {req[p].key} \/ a = disk[db][i]
    OBVIOUS
  <2> HIDE DEF a
  <2>3. a \in SUBSET Keys /\ \A k \in a : k \in disk[db][i] \/ Home(k) = i
    BY <1>1, <2>2
  <2> QED
    BY <2>1, <2>3
<1>3. Answer(p)
  BY DEF UseShard
<1> DEFINE keys == (Stored(db) \ disk[db][i]) \cup after
<1> HIDE DEF db, i
<1>4. /\ disk'[db][i] = after
      /\ \A j \in Shards \ {i} : disk'[db][j] = disk[db][j]
      /\ \A d \in Databases \ {db} : disk'[d] = disk[d]
  BY <1>1, <1>2 DEF IndInv, TypeOK
<1>5. \A d \in Databases, j \in Shards : \A k \in disk[d][j] : Home(k) = j
  BY DEF ScanInv, Homes
<1>6. \A d \in Databases, j \in Shards : \A k \in disk'[d][j] : Home(k) = j
  <2> SUFFICES ASSUME NEW d \in Databases, NEW j \in Shards, NEW k \in disk'[d][j]
               PROVE  Home(k) = j
    OBVIOUS
  <2>1. CASE d = db /\ j = i
    BY <1>1, <1>2, <1>4, <1>5, <2>1
  <2>2. CASE d # db \/ j # i
    BY <1>4, <1>5, <2>2
  <2> QED
    BY <2>1, <2>2
<1>7. UNION {disk'[db][j] : j \in Shards} = keys
  <2>1. ASSUME NEW k, NEW j \in Shards, k \in disk'[db][j] PROVE k \in keys
    <3>1. CASE j = i
      BY <1>4, <2>1, <3>1
    <3>2. CASE j # i
      <4>1. k \in disk[db][j] /\ Home(k) = j
        BY <1>1, <1>4, <1>5, <2>1, <3>2
      <4>2. k \notin disk[db][i]
        BY <1>1, <1>5, <3>2, <4>1
      <4> QED
        BY <4>1, <4>2 DEF Stored
    <3> QED
      BY <3>1, <3>2
  <2>2. ASSUME NEW k \in keys PROVE \E j \in Shards : k \in disk'[db][j]
    <3>1. CASE k \in after
      BY <1>1, <1>4, <3>1
    <3>2. CASE k \in Stored(db) /\ k \notin disk[db][i]
      BY <1>4, <3>2 DEF Stored
    <3> QED
      BY <2>2, <3>1, <3>2
  <2> HIDE DEF keys
  <2> QED
    BY <2>1, <2>2
<1> HIDE DEF keys
<1>8. ScanFits(p)'
  <2>1. pc'[p] = "idle" /\ next'[p] = 0 /\ sum'[p] = 0
    BY <1>3 DEF Answer, Goto, IndInv, TypeOK
  <2> QED
    BY <2>1 DEF ScanFits
<1>9. ASSUME NEW q \in Procs \ {p} PROVE ScanFits(q)'
  <2>1. /\ pc'[q] = pc[q] /\ next'[q] = next[q] /\ sum'[q] = sum[q] /\ req'[q] = req[q]
    BY <1>3 DEF Answer, Goto, IndInv, TypeOK
  <2>2. ScanFits(q)
    BY DEF ScanInv
  <2>3. CASE pc[q] # "scan"
    BY <2>1, <2>2, <2>3 DEF ScanFits
  <2>4. CASE pc[q] = "scan"
    <3>1. /\ req[q].db \in Databases /\ next[q] \in Nat /\ sum[q] \in Nat
          /\ always[q] \subseteq Keys /\ ever[q] \subseteq Keys
      <4>1. req[q] \in WellFormed
        BY <2>4 DEF IndInv, TypeOK
      <4> QED
        BY <4>1 DEF IndInv, TypeOK, WellFormed
    <3>2. /\ next[q] <= ShardCount
          /\ always[q] \subseteq Stored(req[q].db) /\ Stored(req[q].db) \subseteq ever[q]
          /\ Cardinality(Below(always[q], next[q])) <= sum[q]
          /\ sum[q] <= Cardinality(Below(ever[q], next[q]))
      BY <2>2, <2>4 DEF ScanFits
    <3>3. /\ always'[q] \subseteq always[q] /\ ever[q] \subseteq ever'[q] /\ ever'[q] \subseteq Keys
          /\ always'[q] \subseteq Stored(req[q].db)' /\ Stored(req[q].db)' \subseteq ever'[q]
      <4>1. CASE req[q].db = db
        <5>1. Stored(req[q].db)' = keys
          BY <1>7, <2>1, <4>1 DEF Stored
        <5>2. always'[q] = always[q] \cap keys /\ ever'[q] = ever[q] \cup keys
          BY <1>2, <2>4, <4>1 DEF Observe, keys
        <5>3. keys \subseteq Keys
          <6>1. Stored(db) \subseteq ever[q]
            BY <3>2, <4>1
          <6> QED
            BY <3>1, <6>1 DEF keys
        <5> QED
          BY <3>1, <5>1, <5>2, <5>3
      <4>2. CASE req[q].db # db
        <5>1. Stored(req[q].db)' = Stored(req[q].db)
          <6>1. disk'[req'[q].db] = disk[req[q].db]
            BY <1>4, <2>1, <3>1, <4>2
          <6> QED
            BY <6>1 DEF Stored
        <5>2. always'[q] = always[q] /\ ever'[q] = ever[q]
          BY <1>2, <4>2 DEF Observe
        <5> QED
          BY <3>1, <3>2, <5>1, <5>2
      <4> QED
        BY <4>1, <4>2
    <3>4. /\ Below(always[q], next[q])' \subseteq Below(always[q], next[q])
          /\ Below(ever[q], next[q]) \subseteq Below(ever[q], next[q])'
          /\ Below(always[q], next[q]) \subseteq Keys /\ Below(ever[q], next[q])' \subseteq Keys
      BY <2>1, <3>1, <3>3 DEF Below, Home
    <3>5. /\ Cardinality(Below(always[q], next[q])') <= Cardinality(Below(always[q], next[q]))
          /\ Cardinality(Below(always[q], next[q])') \in Nat
          /\ Cardinality(Below(always[q], next[q])) \in Nat
      BY <3>4, KeysCount
    <3>6. /\ Cardinality(Below(ever[q], next[q])) <= Cardinality(Below(ever[q], next[q])')
          /\ Cardinality(Below(ever[q], next[q])') \in Nat
          /\ Cardinality(Below(ever[q], next[q])) \in Nat
      BY <3>4, KeysCount
    <3>7. /\ Cardinality(Below(always[q], next[q])') <= sum[q]
          /\ sum[q] <= Cardinality(Below(ever[q], next[q])')
      BY SMT, <3>1, <3>2, <3>5, <3>6
    <3> QED
      BY <2>1, <2>4, <3>2, <3>3, <3>7 DEF ScanFits
  <2> QED
    BY <2>3, <2>4
<1> QED
  BY <1>6, <1>8, <1>9 DEF ScanInv, Homes

(* Every step keeps what the counts know.                                   *)
LEMMA ScanStep == Counting /\ IndInv /\ ScanInv /\ [Next]_vars => ScanInv'
<1> SUFFICES ASSUME Counting, IndInv, ScanInv, [Next]_vars PROVE ScanInv'
  OBVIOUS
<1>1. ASSUME NEW p \in Procs, Step(p) PROVE ScanInv'
  <2>1. CASE Lookup(p)
    BY <2>1, CountBegins, ScanStaysSteps
  <2> QED
    BY <1>1, <2>1, CountGoesOn, CountSeesWrite, ScanStaysSteps DEF Step
<1>2. ASSUME NEW p \in Procs, NEW r \in Requests, Receive(p, r) PROVE ScanInv'
  BY <1>2, ScanStaysSteps
<1>3. CASE UNCHANGED <<disk, proc, scan>>
  BY <1>3, ScanStays DEF proc, scan
<1>4. CASE ShutdownCollect \/ (\E h \in toClose : ShutdownClose(h)) \/ UNCHANGED vars
  BY <1>3, <1>4 DEF ShutdownCollect, ShutdownClose, vars
<1> QED
  BY <1>1, <1>2, <1>4 DEF Next

(* No count is under way at the start.                                      *)
LEMMA ScanInit == Init => ScanInv
<1> SUFFICES ASSUME Init PROVE ScanInv
  OBVIOUS
<1>1. Homes
  BY DEF Init, Homes
<1> QED
  BY <1>1 DEF Init, ScanInv, ScanFits

(* A count that has passed every shard has seen all there is to see.        *)
LEMMA CountEnds == Counting /\ IndInv /\ ScanInv => CountInRange
<1> SUFFICES ASSUME Counting, IndInv, ScanInv, NEW p \in Procs, pc[p] = "scan",
                    next[p] = ShardCount
             PROVE  Cardinality(always[p]) <= sum[p] /\ sum[p] <= Cardinality(ever[p])
  BY DEF CountInRange
<1>1. Below(always[p], ShardCount) = always[p] /\ Below(ever[p], ShardCount) = ever[p]
  BY BelowEnds DEF IndInv, TypeOK
<1> QED
  BY <1>1 DEF ScanInv, ScanFits

(* A handle that is open is that of the map.                                *)
LEMMA OpenIsMapped == IndInv => StaleNeverServed
<1> SUFFICES ASSUME IndInv, NEW p \in Procs, pc[p] \in {"use", "scan"},
                    NEW i \in Shards, Handle(p, i) \in open
             PROVE  databases[req[p].db] = got[p]
  BY DEF StaleNeverServed
<1>1. Handle(p, i) \in Mapped
  BY DEF IndInv, HandlesAccounted
<1> QED BY SMT, <1>1, InMapped DEF Handle

-----------------------------------------------------------------------------
(* Routing *)

(* A number is between the multiples of r around it.                        *)
LEMMA Multiples ==
    ASSUME NEW h \in Nat, NEW r \in Nat \ {0}
    PROVE  /\ h \div r \in Nat
           /\ (h \div r) * r <= h
           /\ h <= (h \div r) * r + r
BY SMT

(* Multiplying by a natural number keeps the order.                         *)
LEMMA ProductOrder ==
    ASSUME NEW a \in Nat, NEW b \in Nat, NEW r \in Nat, a <= b
    PROVE  a * r <= b * r
BY SMT

(* Every hash lies in the range of some shard, whatever the number of       *)
(* shards and although the ranges are cut with integer division.            *)
LEMMA RangesCover ==
    ASSUME NEW h \in 0..MaxHash
    PROVE  \E i \in Shards : InRange(h, i)
<1> DEFINE r == hashRangePerShard
           last == ShardCount - 1
<1>0. last \in Shards /\ last \in Nat /\ MaxHash \in Nat /\ h \in Nat
  BY SMT, EngineAssumption DEF Shards
<1> USE <1>0
<1>1. r \in Nat
  BY SMT, EngineAssumption DEF hashRangePerShard
<1> USE <1>1
<1>2. CASE last * r <= h
  <2>1. InRange(h, last)
    BY SMT, <1>2 DEF InRange, startHash, endHash
  <2> QED BY <2>1
<1>3. CASE ~(last * r <= h)
  <2>1. r # 0
    BY SMT, <1>3
  <2> DEFINE i == h \div r
  <2>2. i \in Nat /\ i * r <= h /\ h <= i * r + r
    <3> HIDE DEF r
    <3> QED BY <2>1, Multiples
  <2> USE <2>2
  <2>3. i < last
    <3> HIDE DEF r, i, last
    <3>1. SUFFICES ASSUME last <= i PROVE FALSE
      BY SMT
    <3>2. last * r <= i * r
      BY <3>1, ProductOrder
    <3>3. last * r \in Int /\ i * r \in Int
      BY SMT
    <3> QED BY SMT, <3>2, <3>3, <1>3
  <2>4. i \in Shards /\ i # last
    <3> HIDE DEF i
    <3> QED BY SMT, <2>3, EngineAssumption DEF Shards
  <2>5. InRange(h, i)
    <3> HIDE DEF i
    <3> QED BY <2>4 DEF InRange, startHash, endHash
  <2> QED BY <2>4, <2>5
<1> QED BY <1>2, <1>3

-----------------------------------------------------------------------------
(* The versions of MVCCStore: what a read of the present sees.               *)

\* An entry of a chain.
Versions == [version : Nat, deleted : BOOLEAN, committed : BOOLEAN]

\* A writer between its clock tick and its commit or abort.
Writing == [at : {"find", "append", "open"}, key : VersionedKeys, version : Nat,
         deleted : BOOLEAN, orphan : BOOLEAN]

\* No writer is at work on version n.
Free(n) == \A w \in Writers : writer[w] # Idle => writer[w].version # n

\* The clock has passed the entry's version, and a committed one is no longer
\* anybody's to abort.
VersionInv(e) == e \in Versions /\ e.version <= clock /\ (e.committed => Free(e.version))

WritersInv ==
    /\ clock \in Nat
    /\ writer \in [Writers -> Writing \cup {Idle}]
    /\ \A w \in Writers : writer[w] # Idle =>
          /\ writer[w].version <= clock
          /\ \A v \in Writers : v # w /\ writer[v] # Idle => writer[v].version # writer[w].version

ChainsInv ==
    /\ chain \in [VersionedKeys -> Seq(Versions)]
    /\ \A k \in VersionedKeys : \A i \in DOMAIN chain[k] : VersionInv(chain[k][i])

MVCCInv == WritersInv /\ ChainsInv

\* The committed places of a chain, and the version of the last of them.
Hits(s) == {i \in DOMAIN s : s[i].committed}
Latest(s) == IF Hits(s) = {} THEN 0 ELSE s[Max(Hits(s))].version

\* What the proofs use of Max and of Nth, from the library at the end.
GreatestExists ==
    \A m \in Nat : \A T \in SUBSET (1 .. m) :
        T # {} => Max(T) \in T /\ \A y \in T : y <= Max(T)

Ranking ==
    \A m \in Nat : \A K \in SUBSET (1 .. m) :
        /\ Cardinality(K) \in Nat
        /\ \A n \in 1 .. Cardinality(K) : Nth(K, n) \in K
        /\ \A i \in K : \E n \in 1 .. Cardinality(K) : Nth(K, n) = i
        /\ \A a, b \in 1 .. Cardinality(K) : a < b => Nth(K, a) < Nth(K, b)

\* The committed places of a chain have a last one.
LEMMA LastHit ==
    ASSUME GreatestExists, NEW s \in Seq(Versions), Hits(s) # {}
    PROVE  Max(Hits(s)) \in Hits(s) /\ \A i \in Hits(s) : i <= Max(Hits(s))
  <1>1. Len(s) \in Nat /\ DOMAIN s = 1 .. Len(s)
    BY SMT
  <1>2. Hits(s) \in SUBSET (1 .. Len(s))
    BY <1>1 DEF Hits
  <1> QED BY <1>1, <1>2 DEF GreatestExists

\* The last committed place is the one that no committed place follows.
LEMMA LatestIs ==
    ASSUME GreatestExists, NEW s \in Seq(Versions), NEW p \in Hits(s),
           \A i \in Hits(s) : i <= p
    PROVE  Latest(s) = s[p].version
  <1>1. Max(Hits(s)) \in Hits(s) /\ \A i \in Hits(s) : i <= Max(Hits(s))
    BY LastHit
  <1>2. \A i \in Hits(s) : i \in Int
    BY SMT DEF Hits
  <1>3. Max(Hits(s)) <= p /\ p <= Max(Hits(s)) /\ p \in Int /\ Max(Hits(s)) \in Int
    BY <1>1, <1>2
  <1>4. \A a, b \in Int : a <= b /\ b <= a => a = b
    BY SMT
  <1>5. Max(Hits(s)) = p
    BY <1>3, <1>4
  <1> QED BY <1>5 DEF Latest

\* Filter returns a chain of entries of s.
LEMMA FilterEntries ==
    ASSUME Ranking, NEW s \in Seq(Versions), NEW K \in SUBSET DOMAIN s
    PROVE  /\ Filter(s, K) \in Seq(Versions)
           /\ DOMAIN Filter(s, K) = 1 .. Cardinality(K)
           /\ Cardinality(K) \in Nat
           /\ \A n \in 1 .. Cardinality(K) : Nth(K, n) \in K /\ Filter(s, K)[n] = s[Nth(K, n)]
  <1>1. Len(s) \in Nat /\ DOMAIN s = 1 .. Len(s) /\ \A i \in DOMAIN s : s[i] \in Versions
    BY SMT
  <1>2. Cardinality(K) \in Nat /\ \A n \in 1 .. Cardinality(K) : Nth(K, n) \in K
    BY <1>1 DEF Ranking
  <1>3. \A n \in 1 .. Cardinality(K) : s[Nth(K, n)] \in Versions
    BY <1>1, <1>2
  <1>4. \A c \in Nat : \A f \in [1 .. c -> Versions] : f \in Seq(Versions)
    BY SMT
  <1>5. Filter(s, K) \in [1 .. Cardinality(K) -> Versions]
    BY <1>3 DEF Filter
  <1>6. Filter(s, K) \in Seq(Versions)
    BY <1>2, <1>4, <1>5
  <1> QED BY <1>2, <1>6 DEF Filter

\* A filter that keeps the last committed entry leaves the latest version.
LEMMA FilterKeepsLatest ==
    ASSUME GreatestExists, Ranking, NEW s \in Seq(Versions), NEW K \in SUBSET DOMAIN s,
           Hits(s) # {} => Max(Hits(s)) \in K
    PROVE  Latest(Filter(s, K)) = Latest(s)
  <1> DEFINE t == Filter(s, K)
  <1>1. /\ t \in Seq(Versions) /\ DOMAIN t = 1 .. Cardinality(K) /\ Cardinality(K) \in Nat
        /\ \A n \in 1 .. Cardinality(K) : Nth(K, n) \in K /\ t[n] = s[Nth(K, n)]
    BY FilterEntries
  <1> HIDE DEF t
  <1>2. \A n \in Hits(t) : Nth(K, n) \in Hits(s)
    BY <1>1 DEF Hits
  <1>3. CASE Hits(s) = {}
    BY <1>2, <1>3 DEF Latest, t
  <1>4. CASE Hits(s) # {}
    <2> DEFINE p == Max(Hits(s))
    <2>1. p \in Hits(s) /\ \A i \in Hits(s) : i <= p
      BY <1>4, LastHit
    <2>2. Latest(s) = s[p].version
      BY <1>4 DEF Latest
    <2>3. p \in K
      BY <1>4
    <2> HIDE DEF p
    <2>4. Len(s) \in Nat /\ K \in SUBSET (1 .. Len(s))
      <3>1. Len(s) \in Nat /\ DOMAIN s = 1 .. Len(s)
        BY SMT
      <3> QED BY <3>1
    <2>5. PICK n \in 1 .. Cardinality(K) : Nth(K, n) = p
      BY <2>3, <2>4 DEF Ranking
    <2>6. n \in Hits(t) /\ t[n] = s[p]
      BY <1>1, <2>1, <2>5 DEF Hits
    <2>7. ASSUME NEW a \in Hits(t) PROVE a <= n
      <3>1. a \in 1 .. Cardinality(K)
        BY <1>1 DEF Hits
      <3>2. Nth(K, a) <= p /\ Nth(K, a) \in K
        BY <1>1, <1>2, <2>1, <3>1
      <3>3. n < a => p < Nth(K, a)
        BY <2>4, <2>5, <3>1 DEF Ranking
      <3>4. Nth(K, a) \in Int /\ p \in Int /\ n \in Int /\ a \in Int
        BY SMT, <2>3, <2>4, <3>1, <3>2
      <3>5. \A x, y \in Int : (x <= y => ~(y < x)) /\ (~(x < y) => y <= x)
        BY SMT
      <3> QED BY <3>2, <3>3, <3>4, <3>5
    <2>8. Latest(t) = t[n].version
      BY <1>1, <2>6, <2>7, LatestIs
    <2> QED BY <2>2, <2>6, <2>8 DEF t
  <1> QED BY <1>3, <1>4

\* An uncommitted entry at the end changes nothing that is committed.
LEMMA AppendKeepsLatest ==
    ASSUME GreatestExists, NEW s \in Seq(Versions), NEW v \in Versions, ~v.committed
    PROVE  /\ Latest(Append(s, v)) = Latest(s)
           /\ Append(s, v) \in Seq(Versions)
           /\ \A i \in DOMAIN Append(s, v) :
                 Append(s, v)[i] = v \/ (i \in DOMAIN s /\ Append(s, v)[i] = s[i])
  <1>1. /\ Append(s, v) \in Seq(Versions)
        /\ Len(s) \in Nat /\ DOMAIN s = 1 .. Len(s)
        /\ DOMAIN Append(s, v) = 1 .. (Len(s) + 1)
        /\ Append(s, v)[Len(s) + 1] = v
        /\ \A i \in 1 .. Len(s) : Append(s, v)[i] = s[i]
    BY SMT
  <1>2. \A m \in Nat : \A i : i \in 1 .. (m + 1) <=> i \in 1 .. m \/ i = m + 1
    BY SMT
  <1>3. \A i : i \in DOMAIN Append(s, v) <=> i \in DOMAIN s \/ i = Len(s) + 1
    BY <1>1, <1>2
  <1>4. \A i \in DOMAIN s : Append(s, v)[i] = s[i]
    BY <1>1
  <1>5. Hits(Append(s, v)) = Hits(s)
    <2>1. \A i : i \in Hits(Append(s, v)) <=> i \in Hits(s)
      BY <1>1, <1>3, <1>4 DEF Hits
    <2> QED BY <2>1
  <1>6. Hits(s) # {} => Max(Hits(s)) \in DOMAIN s
    BY LastHit DEF Hits
  <1>7. Latest(Append(s, v)) = Latest(s)
    BY <1>4, <1>5, <1>6 DEF Latest
  <1> QED BY <1>1, <1>3, <1>4, <1>7

\* What a step may do to what reads see: nothing, or show a version that was
\* uncommitted.
Moves(s, t) ==
    Latest(t) # Latest(s) =>
        \E i \in DOMAIN s : s[i].version = Latest(t) /\ ~s[i].committed

\* Marking an entry committed.
LEMMA MarkEntry ==
    ASSUME NEW e \in Versions
    PROVE  /\ [e EXCEPT !.committed = TRUE] \in Versions
           /\ [e EXCEPT !.committed = TRUE].version = e.version
           /\ [e EXCEPT !.committed = TRUE].committed
  <1>1. [e EXCEPT !.committed = TRUE] \in Versions
    BY DEF Versions
  <1>2. /\ [e EXCEPT !.committed = TRUE].version = e.version
        /\ [e EXCEPT !.committed = TRUE].committed
    BY DEF Versions
  <1> QED BY <1>1, <1>2

\* The chain after the commit of version n.
Committed(s, n) ==
    [i \in DOMAIN s |-> IF s[i].version = n THEN [s[i] EXCEPT !.committed = TRUE] ELSE s[i]]

\* A commit changes the latest version, if at all, to one that was uncommitted.
LEMMA CommitMovesLatest ==
    ASSUME GreatestExists, NEW s \in Seq(Versions), NEW n \in Nat
    PROVE  /\ Committed(s, n) \in Seq(Versions)
           /\ \A i \in DOMAIN s : /\ Committed(s, n)[i].version = s[i].version
                                  /\ Committed(s, n)[i] \in Versions
                                  /\ s[i].version # n => Committed(s, n)[i] = s[i]
           /\ DOMAIN Committed(s, n) = DOMAIN s
           /\ Moves(s, Committed(s, n))
  <1> DEFINE t == Committed(s, n)
  <1>1. Len(s) \in Nat /\ DOMAIN s = 1 .. Len(s) /\ \A i \in DOMAIN s : s[i] \in Versions
    BY SMT
  <1>2. DOMAIN t = DOMAIN s
    BY DEF Committed
  <1>3. ASSUME NEW i \in DOMAIN s
        PROVE  /\ t[i] \in Versions /\ t[i].version = s[i].version
               /\ s[i].committed => t[i].committed
               /\ s[i].version # n => t[i] = s[i]
    <2>1. t[i] = IF s[i].version = n THEN [s[i] EXCEPT !.committed = TRUE] ELSE s[i]
      BY DEF Committed
    <2>2. s[i] \in Versions
      BY <1>1
    <2>3. /\ [s[i] EXCEPT !.committed = TRUE] \in Versions
          /\ [s[i] EXCEPT !.committed = TRUE].version = s[i].version
          /\ [s[i] EXCEPT !.committed = TRUE].committed
      BY <2>2, MarkEntry
    <2> QED BY <2>1, <2>2, <2>3
  <1> HIDE DEF t
  <1>4. t \in Seq(Versions)
    <2>1. \A f : DOMAIN f = 1 .. Len(s) /\ f = [i \in DOMAIN f |-> f[i]]
                 /\ (\A i \in 1 .. Len(s) : f[i] \in Versions) => f \in Seq(Versions)
      BY SMT, <1>1
    <2>2. t = [i \in DOMAIN t |-> t[i]]
      BY DEF t, Committed
    <2> QED BY <1>1, <1>2, <1>3, <2>1, <2>2
  <1>5. ASSUME Latest(t) # Latest(s)
        PROVE  \E i \in DOMAIN s : s[i].version = Latest(t) /\ ~s[i].committed
    <2>1. Hits(s) \subseteq Hits(t)
      BY <1>2, <1>3 DEF Hits
    <2>2. Hits(t) # {}
      BY <1>5, <2>1 DEF Latest
    <2> DEFINE p == Max(Hits(t))
    <2>3. p \in Hits(t) /\ \A i \in Hits(t) : i <= p
      BY <1>4, <2>2, LastHit
    <2>4. Latest(t) = t[p].version
      BY <2>2 DEF Latest
    <2> HIDE DEF p
    <2>5. p \in DOMAIN s
      BY <1>2, <2>3 DEF Hits
    <2>6. t[p].version = s[p].version
      BY <1>3, <2>5
    <2>7. ~s[p].committed
      <3>1. SUFFICES ASSUME s[p].committed PROVE FALSE
        OBVIOUS
      <3>2. p \in Hits(s)
        BY <2>5, <3>1 DEF Hits
      <3>3. Latest(s) = s[p].version
        BY <2>1, <2>3, <3>2, LatestIs
      <3> QED BY <1>5, <2>4, <2>6, <3>3
    <2> QED BY <2>4, <2>5, <2>6, <2>7
  <1>6. Moves(s, t)
    BY <1>5 DEF Moves
  <1> QED BY <1>2, <1>3, <1>4, <1>6 DEF t

\* A read of the present looks at every committed version.
LEMMA ReadIsLatest ==
    ChainsInv => \A k \in VersionedKeys : Read(k, clock) = Latest(chain[k])
  <1> SUFFICES ASSUME ChainsInv, NEW k \in VersionedKeys
               PROVE  Read(k, clock) = Latest(chain[k])
    OBVIOUS
  <1>1. \A i \in DOMAIN chain[k] : chain[k][i].version <= clock
    BY DEF ChainsInv, VersionInv
  <1>2. {i \in DOMAIN chain[k] : chain[k][i].version <= clock /\ chain[k][i].committed}
        = Hits(chain[k])
    BY <1>1 DEF Hits
  <1> QED BY <1>2 DEF Read, Latest

\* A step in which writers only stop or carry on with their version.
CarryOn ==
    /\ clock' = clock
    /\ writer' \in [Writers -> Writing \cup {Idle}]
    /\ \A w \in Writers : writer'[w] # Idle =>
          writer[w] # Idle /\ writer'[w].version = writer[w].version

\* Such a step keeps the writers apart and frees versions, never takes one.
LEMMA CarryOnKeeps ==
    ASSUME WritersInv, CarryOn
    PROVE  WritersInv' /\ \A e : VersionInv(e) => VersionInv(e)'
  <1>1. WritersInv'
    <2>1. ASSUME NEW w \in Writers, writer'[w] # Idle
          PROVE  /\ writer'[w].version <= clock'
                 /\ \A v \in Writers : v # w /\ writer'[v] # Idle
                                         => writer'[v].version # writer'[w].version
      BY <2>1 DEF WritersInv, CarryOn
    <2> QED BY <2>1 DEF WritersInv, CarryOn
  <1>2. ASSUME NEW e, VersionInv(e) PROVE VersionInv(e)'
    <2>1. Free(e.version) => Free(e.version)'
      BY DEF Free, CarryOn
    <2> QED BY <1>2, <2>1 DEF VersionInv, CarryOn
  <1> QED BY <1>1, <1>2

\* Replacing one chain leaves the other keys' chains as they are.
LEMMA OneChain ==
    ASSUME ChainsInv, NEW k \in VersionedKeys, NEW t \in Seq(Versions),
           chain' = [chain EXCEPT ![k] = t],
           \A e : VersionInv(e) => VersionInv(e)',
           \A i \in DOMAIN t : VersionInv(t[i])',
           Moves(chain[k], t)
    PROVE  ChainsInv' /\ \A j \in VersionedKeys : Moves(chain[j], chain'[j])
  <1>1. \A j \in VersionedKeys : chain'[j] = IF j = k THEN t ELSE chain[j]
    BY DEF ChainsInv
  <1>2. chain' \in [VersionedKeys -> Seq(Versions)]
    BY DEF ChainsInv
  <1>3. ASSUME NEW j \in VersionedKeys, NEW i \in DOMAIN chain'[j]
        PROVE  VersionInv(chain[j][i])'
    <2>1. CASE j = k
      <3>1. chain'[j] = t
        BY <1>1, <2>1
      <3>2. SUFFICES ASSUME NEW e, e = t[i] PROVE VersionInv(e)'
        BY <3>1
      <3> QED BY <3>1, <3>2
    <2>2. CASE j # k
      <3>1. chain'[j] = chain[j]
        BY <1>1, <2>2
      <3>2. VersionInv(chain[j][i])
        BY <3>1 DEF ChainsInv
      <3>3. SUFFICES ASSUME NEW e, e = chain[j][i] PROVE VersionInv(e)'
        BY <3>1
      <3> QED BY <3>2, <3>3
    <2> QED BY <2>1, <2>2
  <1>4. \A j \in VersionedKeys : Moves(chain[j], chain'[j])
    BY <1>1 DEF Moves
  <1> QED BY <1>2, <1>3, <1>4 DEF ChainsInv

\* Leaving the chains alone.
LEMMA SameChains ==
    ASSUME ChainsInv, chain' = chain, \A e : VersionInv(e) => VersionInv(e)'
    PROVE  ChainsInv' /\ \A j \in VersionedKeys : Moves(chain[j], chain'[j])
  <1>1. ASSUME NEW j \in VersionedKeys, NEW i \in DOMAIN chain'[j]
        PROVE  VersionInv(chain[j][i])'
    <2>1. VersionInv(chain[j][i])
      BY <1>1 DEF ChainsInv
    <2>2. SUFFICES ASSUME NEW e, e = chain[j][i] PROVE VersionInv(e)'
      OBVIOUS
    <2> QED BY <2>1, <2>2
  <1> QED BY <1>1 DEF ChainsInv, Moves

\* Filtering one chain, with the last committed version kept.
LEMMA FilterStep ==
    ASSUME GreatestExists, Ranking, ChainsInv, NEW k \in VersionedKeys,
           NEW K \in SUBSET DOMAIN chain[k],
           Hits(chain[k]) # {} => Max(Hits(chain[k])) \in K,
           chain' = [chain EXCEPT ![k] = Filter(chain[k], K)],
           \A e : VersionInv(e) => VersionInv(e)'
    PROVE  ChainsInv' /\ \A j \in VersionedKeys : Moves(chain[j], chain'[j])
  <1>1. SUFFICES ASSUME NEW s, s = chain[k], NEW t, t = Filter(s, K)
                 PROVE  ChainsInv' /\ \A j \in VersionedKeys : Moves(chain[j], chain'[j])
    OBVIOUS
  <1>2. s \in Seq(Versions) /\ \A i \in DOMAIN s : VersionInv(s[i])
    BY <1>1 DEF ChainsInv
  <1>3. Latest(t) = Latest(s)
    BY <1>1, <1>2, FilterKeepsLatest
  <1>4. /\ t \in Seq(Versions) /\ DOMAIN t = 1 .. Cardinality(K)
        /\ \A n \in 1 .. Cardinality(K) : Nth(K, n) \in K /\ t[n] = s[Nth(K, n)]
    BY <1>1, <1>2, FilterEntries
  <1>5. \A n \in DOMAIN t : VersionInv(t[n])
    BY <1>1, <1>2, <1>4
  <1>6. \A n \in DOMAIN t : VersionInv(t[n])'
    BY <1>5
  <1>7. Moves(chain[k], t)
    BY <1>1, <1>3 DEF Moves
  <1> QED BY <1>1, <1>4, <1>6, <1>7, OneChain

\* A writer at a step of its own is at work.
LEMMA AtWork ==
    ASSUME WritersInv, NEW w \in Writers, writer[w].at \in {"find", "append", "open"}
    PROVE  writer[w] # Idle /\ writer[w] \in Writing
  <1>1. Idle.at = "idle"
    BY DEF Idle
  <1>2. writer[w] # Idle
    BY <1>1
  <1> QED BY <1>2 DEF WritersInv

\* A new version is past the clock, hence in no chain and nobody's.
LEMMA TickKeeps ==
    ASSUME WritersInv, NEW w \in Writers, NEW k \in VersionedKeys, NEW d \in BOOLEAN,
           TickVersion(w, k, d)
    PROVE  WritersInv' /\ \A e : VersionInv(e) => VersionInv(e)'
  <1> DEFINE x == [at |-> "find", key |-> k, version |-> clock + 1, deleted |-> d, orphan |-> FALSE]
  <1>1. clock \in Nat /\ clock' = clock + 1
    BY DEF WritersInv, TickVersion
  <1>2. x \in Writing /\ x.version = clock + 1
    <2>1. clock + 1 \in Nat
      BY SMT, <1>1
    <2> QED BY <2>1 DEF Writing
  <1>3. writer' = [writer EXCEPT ![w] = x]
    BY DEF TickVersion
  <1> HIDE DEF x
  <1>4. \A v \in Writers : writer'[v] = IF v = w THEN x ELSE writer[v]
    BY <1>3 DEF WritersInv
  <1>5. writer' \in [Writers -> Writing \cup {Idle}]
    BY <1>2, <1>3 DEF WritersInv
  <1>6. \A n \in Nat : n <= clock => n # clock + 1 /\ n <= clock + 1
    BY SMT, <1>1
  <1>7. clock' \in Nat /\ clock + 1 <= clock'
    BY SMT, <1>1
  <1>8. \A v \in Writers : writer[v] # Idle =>
            writer[v].version # clock + 1 /\ writer[v].version <= clock + 1
    <2>1. \A v \in Writers : writer[v] # Idle => writer[v].version \in Nat
      <3>1. \A y \in Writing : y.version \in Nat
        BY SMT DEF Writing
      <3> QED BY <3>1 DEF WritersInv
    <2> QED BY <1>6, <2>1 DEF WritersInv
  <1>9. WritersInv'
    <2>1. ASSUME NEW v \in Writers, writer'[v] # Idle
          PROVE  /\ writer'[v].version <= clock'
                 /\ \A u \in Writers : u # v /\ writer'[u] # Idle
                                         => writer'[u].version # writer'[v].version
      <3>1. CASE v = w
        BY <1>2, <1>4, <1>7, <1>8, <3>1
      <3>2. CASE v # w
        <4>1. writer'[v] = writer[v] /\ writer[v] # Idle
          BY <1>4, <2>1, <3>2
        <4>2. writer[v].version <= clock'
          BY <1>1, <1>8, <4>1
        <4>3. ASSUME NEW u \in Writers, u # v, writer'[u] # Idle
              PROVE  writer'[u].version # writer[v].version
          BY <1>2, <1>4, <1>8, <4>1, <4>3 DEF WritersInv
        <4> QED BY <4>1, <4>2, <4>3
      <3> QED BY <3>1, <3>2
    <2> QED BY <1>5, <1>7, <2>1 DEF WritersInv
  <1>10. ASSUME NEW e, VersionInv(e) PROVE VersionInv(e)'
    <2>1. e.version \in Nat /\ e.version <= clock /\ (e.committed => Free(e.version))
      BY <1>10 DEF VersionInv, Versions
    <2>2. e.version # clock + 1 /\ e.version <= clock'
      BY <1>1, <1>6, <2>1
    <2>3. Free(e.version) => Free(e.version)'
      BY <1>2, <1>4, <2>2 DEF Free
    <2> QED BY <1>10, <2>1, <2>2, <2>3 DEF VersionInv
  <1> QED BY <1>9, <1>10

\* One writer moves on with its version.
LEMMA WriterMoves ==
    ASSUME WritersInv, NEW w \in Writers, NEW y \in Writing \cup {Idle},
           writer[w] # Idle, y # Idle => y.version = writer[w].version,
           writer' = [writer EXCEPT ![w] = y], clock' = clock
    PROVE  CarryOn
  <1>1. \A v \in Writers : writer'[v] = IF v = w THEN y ELSE writer[v]
    BY DEF WritersInv
  <1>2. writer' \in [Writers -> Writing \cup {Idle}]
    BY DEF WritersInv
  <1> QED BY <1>1, <1>2 DEF CarryOn

\* FindChain and AppendVersion move their writer on.
LEMMA WriterAt ==
    ASSUME WritersInv, NEW w \in Writers, writer[w].at \in {"find", "append", "open"},
           NEW a \in {"append", "open"}, writer' = [writer EXCEPT ![w].at = a], clock' = clock
    PROVE  CarryOn
  <1>1. writer[w] # Idle /\ writer[w] \in Writing
    BY AtWork
  <1>2. SUFFICES ASSUME NEW y, y = [writer[w] EXCEPT !.at = a] PROVE CarryOn
    OBVIOUS
  <1>3. y \in Writing /\ y.version = writer[w].version
    BY SMT, <1>1, <1>2 DEF Writing
  <1>4. writer' = [writer EXCEPT ![w] = y]
    BY <1>2
  <1> QED BY <1>1, <1>3, <1>4, WriterMoves

\* Finish frees its writer and leaves the version to nobody.
LEMMA FinishFrees ==
    ASSUME WritersInv, NEW w \in Writers, writer[w].at = "open", Finish(w)
    PROVE  /\ CarryOn /\ writer[w] \in Writing /\ writer[w] # Idle
           /\ \A n : n = writer[w].version => Free(n)'
  <1>1. writer[w] # Idle /\ writer[w] \in Writing
    BY AtWork
  <1>2. writer' = [writer EXCEPT ![w] = Idle] /\ clock' = clock
    BY DEF Finish
  <1>3. CarryOn
    BY <1>1, <1>2, WriterMoves
  <1>4. ASSUME NEW n, n = writer[w].version PROVE Free(n)'
    <2>1. \A v \in Writers : writer'[v] = IF v = w THEN Idle ELSE writer[v]
      BY <1>2 DEF WritersInv
    <2>2. \A v \in Writers : v # w /\ writer[v] # Idle => writer[v].version # n
      BY <1>1, <1>4 DEF WritersInv
    <2> QED BY <2>1, <2>2 DEF Free
  <1> QED BY <1>1, <1>3, <1>4

\* An append adds an uncommitted version, or nothing when GC has dropped the
\* chain its writer holds.
LEMMA AppendStep ==
    ASSUME GreatestExists, MVCCInv, NEW w \in Writers, AppendVersion(w)
    PROVE  MVCCInv' /\ \A j \in VersionedKeys : Moves(chain[j], chain'[j])
  <1> USE DEF MVCCInv
  <1>1. SUFFICES ASSUME NEW x, x = writer[w]
                 PROVE  MVCCInv' /\ \A j \in VersionedKeys : Moves(chain[j], chain'[j])
    OBVIOUS
  <1> DEFINE v == [version |-> x.version, deleted |-> x.deleted, committed |-> FALSE]
  <1>2. /\ x.at = "append" /\ clock' = clock
        /\ chain' = IF x.orphan THEN chain ELSE [chain EXCEPT ![x.key] = Append(chain[x.key], v)]
        /\ writer' = [writer EXCEPT ![w].at = "open"]
    BY <1>1 DEF AppendVersion
  <1>3. x # Idle /\ x \in Writing
    BY <1>1, <1>2, AtWork
  <1>4. WritersInv' /\ \A e : VersionInv(e) => VersionInv(e)'
    BY <1>1, <1>2, WriterAt, CarryOnKeeps
  <1>5. CASE x.orphan
    BY <1>2, <1>4, <1>5, SameChains
  <1>6. CASE ~x.orphan
    <2>1. x.key \in VersionedKeys /\ x.version \in Nat /\ x.deleted \in BOOLEAN
      BY <1>3 DEF Writing
    <2>2. v \in Versions /\ ~v.committed /\ v.version = x.version
      BY <2>1 DEF Versions
    <2>3. VersionInv(v)
      BY <1>1, <1>3, <2>2 DEF VersionInv, WritersInv
    <2> HIDE DEF v
    <2>4. SUFFICES ASSUME NEW s, s = chain[x.key], NEW t, t = Append(s, v)
                   PROVE  MVCCInv' /\ \A j \in VersionedKeys : Moves(chain[j], chain'[j])
      OBVIOUS
    <2>5. s \in Seq(Versions) /\ \A i \in DOMAIN s : VersionInv(s[i])
      BY <2>1, <2>4 DEF ChainsInv
    <2>6. /\ Latest(t) = Latest(s) /\ t \in Seq(Versions)
          /\ \A i \in DOMAIN t : t[i] = v \/ (i \in DOMAIN s /\ t[i] = s[i])
      BY <2>2, <2>4, <2>5, AppendKeepsLatest
    <2>7. \A i \in DOMAIN t : VersionInv(t[i])
      BY <2>3, <2>5, <2>6
    <2>8. \A i \in DOMAIN t : VersionInv(t[i])'
      BY <1>4, <2>7
    <2>9. Moves(chain[x.key], t)
      BY <2>4, <2>6 DEF Moves
    <2>10. chain' = [chain EXCEPT ![x.key] = t]
      BY <1>2, <1>6, <2>4
    <2> QED BY <1>4, <2>1, <2>6, <2>8, <2>9, <2>10, OneChain
  <1> QED BY <1>5, <1>6

\* A commit marks its version, which nobody else works on.
LEMMA CommitStep ==
    ASSUME GreatestExists, MVCCInv, NEW w \in Writers, CommitVersion(w)
    PROVE  MVCCInv' /\ \A j \in VersionedKeys : Moves(chain[j], chain'[j])
  <1> USE DEF MVCCInv
  <1>1. SUFFICES ASSUME NEW x, x = writer[w]
                 PROVE  MVCCInv' /\ \A j \in VersionedKeys : Moves(chain[j], chain'[j])
    OBVIOUS
  <1>2. x.at = "open" /\ Finish(w)
    BY <1>1 DEF CommitVersion
  <1>3. CarryOn /\ x \in Writing /\ Free(x.version)'
    <2>1. SUFFICES ASSUME NEW n, n = x.version PROVE CarryOn /\ x \in Writing /\ Free(n)'
      OBVIOUS
    <2> QED BY <1>1, <1>2, <2>1, FinishFrees
  <1>4. WritersInv' /\ \A e : VersionInv(e) => VersionInv(e)'
    BY <1>3, CarryOnKeeps
  <1>5. x.key \in VersionedKeys /\ x.version \in Nat
    BY <1>3 DEF Writing
  <1>6. SUFFICES ASSUME NEW s, s = chain[x.key], NEW t, t = Committed(s, x.version)
                 PROVE  MVCCInv' /\ \A j \in VersionedKeys : Moves(chain[j], chain'[j])
    OBVIOUS
  <1>7. chain' = [chain EXCEPT ![x.key] = t]
    BY <1>1, <1>6 DEF CommitVersion, Committed
  <1>8. s \in Seq(Versions) /\ \A i \in DOMAIN s : VersionInv(s[i])
    BY <1>5, <1>6 DEF ChainsInv
  <1>9. /\ t \in Seq(Versions) /\ DOMAIN t = DOMAIN s
        /\ \A i \in DOMAIN s : /\ t[i].version = s[i].version /\ t[i] \in Versions
                               /\ s[i].version # x.version => t[i] = s[i]
        /\ Moves(s, t)
    <2>1. SUFFICES ASSUME NEW n \in Nat, n = x.version, t = Committed(s, n)
                   PROVE  /\ t \in Seq(Versions) /\ DOMAIN t = DOMAIN s
                          /\ \A i \in DOMAIN s : /\ t[i].version = s[i].version
                                                 /\ t[i] \in Versions
                                                 /\ s[i].version # n => t[i] = s[i]
                          /\ Moves(s, t)
      BY <1>5, <1>6
    <2> QED BY <1>8, <2>1, CommitMovesLatest
  <1>10. ASSUME NEW i \in DOMAIN t PROVE VersionInv(t[i])'
    <2>1. CASE s[i].version # x.version
      BY <1>4, <1>8, <1>9, <2>1
    <2>2. CASE s[i].version = x.version
      <3>1. t[i].version = x.version /\ t[i] \in Versions /\ s[i].version <= clock
        BY <1>8, <1>9, <2>2 DEF VersionInv
      <3>2. clock' = clock
        BY <1>3 DEF CarryOn
      <3> QED BY <1>3, <2>2, <3>1, <3>2 DEF VersionInv
    <2> QED BY <2>1, <2>2
  <1> QED BY <1>4, <1>5, <1>6, <1>7, <1>9, <1>10, OneChain

\* An abort removes the writer's own version, which is uncommitted.
LEMMA AbortStep ==
    ASSUME GreatestExists, Ranking, MVCCInv, NEW w \in Writers, AbortVersion(w)
    PROVE  MVCCInv' /\ \A j \in VersionedKeys : Moves(chain[j], chain'[j])
  <1> USE DEF MVCCInv
  <1>1. SUFFICES ASSUME NEW x, x = writer[w]
                 PROVE  MVCCInv' /\ \A j \in VersionedKeys : Moves(chain[j], chain'[j])
    OBVIOUS
  <1>2. x.at = "open" /\ Finish(w)
    BY <1>1 DEF AbortVersion
  <1>3. CarryOn /\ x \in Writing /\ x # Idle
    BY <1>1, <1>2, FinishFrees
  <1>4. WritersInv' /\ \A e : VersionInv(e) => VersionInv(e)'
    BY <1>3, CarryOnKeeps
  <1>5. x.key \in VersionedKeys
    BY <1>3 DEF Writing
  <1>6. SUFFICES ASSUME NEW K, K = {i \in DOMAIN chain[x.key] : chain[x.key][i].version # x.version}
                 PROVE  MVCCInv' /\ \A j \in VersionedKeys : Moves(chain[j], chain'[j])
    OBVIOUS
  <1>7. chain' = [chain EXCEPT ![x.key] = Filter(chain[x.key], K)]
    BY <1>1, <1>6 DEF AbortVersion
  <1>8. Hits(chain[x.key]) \subseteq K
    BY <1>1, <1>3, <1>5, <1>6 DEF Hits, ChainsInv, VersionInv, Free
  <1>9. Hits(chain[x.key]) # {} => Max(Hits(chain[x.key])) \in K
    BY <1>5, <1>8, LastHit DEF ChainsInv
  <1>10. K \in SUBSET DOMAIN chain[x.key]
    BY <1>6
  <1> QED BY <1>4, <1>5, <1>7, <1>9, <1>10, FilterStep

\* Marking the version of a writer whose chain is gone.
LEMMA MarkOrphan ==
    ASSUME NEW y \in Writing
    PROVE  /\ [y EXCEPT !.orphan = TRUE] \in Writing
           /\ [y EXCEPT !.orphan = TRUE].version = y.version
  <1>1. [y EXCEPT !.orphan = TRUE] \in Writing
    BY DEF Writing
  <1>2. [y EXCEPT !.orphan = TRUE].version = y.version
    BY DEF Writing
  <1> QED BY <1>1, <1>2

\* GC keeps the last committed version of a chain.
LEMMA GCStep ==
    ASSUME GreatestExists, Ranking, MVCCInv, NEW k \in VersionedKeys, GC(k)
    PROVE  MVCCInv' /\ \A j \in VersionedKeys : Moves(chain[j], chain'[j])
  <1> USE DEF MVCCInv
  <1>1. SUFFICES ASSUME NEW K, K = {i \in DOMAIN chain[k] : Kept(chain[k], i)}
                 PROVE  MVCCInv' /\ \A j \in VersionedKeys : Moves(chain[j], chain'[j])
    OBVIOUS
  <1>2. chain' = [chain EXCEPT ![k] = Filter(chain[k], K)] /\ clock' = clock
    BY <1>1 DEF GC
  <1>3. CarryOn
    <2>1. CASE writer' = writer
      BY <1>2, <2>1 DEF CarryOn, WritersInv
    <2>2. CASE writer' = [w \in Writers |->
                   IF writer[w].at = "append" /\ writer[w].key = k
                   THEN [writer[w] EXCEPT !.orphan = TRUE] ELSE writer[w]]
      <3>1. ASSUME NEW w \in Writers
            PROVE  /\ writer'[w] \in Writing \cup {Idle}
                   /\ writer'[w] # Idle =>
                          writer[w] # Idle /\ writer'[w].version = writer[w].version
        <4>1. CASE writer[w].at = "append" /\ writer[w].key = k
          <5>1. writer[w] # Idle /\ writer[w] \in Writing
            BY <4>1, AtWork
          <5>2. /\ [writer[w] EXCEPT !.orphan = TRUE] \in Writing
                /\ [writer[w] EXCEPT !.orphan = TRUE].version = writer[w].version
            BY <5>1, MarkOrphan
          <5> QED BY <2>2, <4>1, <5>1, <5>2
        <4>2. CASE ~(writer[w].at = "append" /\ writer[w].key = k)
          BY <2>2, <4>2 DEF WritersInv
        <4> QED BY <4>1, <4>2
      <3>2. writer' \in [Writers -> Writing \cup {Idle}]
        BY <2>2, <3>1
      <3> QED BY <1>2, <3>1, <3>2 DEF CarryOn
    <2> QED BY <2>1, <2>2 DEF GC
  <1>4. WritersInv' /\ \A e : VersionInv(e) => VersionInv(e)'
    BY <1>3, CarryOnKeeps
  <1>5. ASSUME Hits(chain[k]) # {} PROVE Max(Hits(chain[k])) \in K
    <2>1. SUFFICES ASSUME NEW s, s = chain[k], NEW p, p = Max(Hits(s)) PROVE p \in K
      OBVIOUS
    <2>2. s \in Seq(Versions)
      BY <2>1 DEF ChainsInv
    <2>3. p \in Hits(s) /\ \A i \in Hits(s) : i <= p
      BY <1>5, <2>1, <2>2, LastHit
    <2>4. Len(s) \in Nat /\ DOMAIN s = 1 .. Len(s)
      BY SMT, <2>2
    <2>5. p \in 1 .. Len(s)
      BY <2>3, <2>4 DEF Hits
    <2>6. \A j \in (p + 1) .. Len(s) : j \in 1 .. Len(s) /\ ~(j <= p)
      BY SMT, <2>4, <2>5
    <2>7. \A j \in (p + 1) .. Len(s) : ~s[j].committed
      BY <2>3, <2>4, <2>6 DEF Hits
    <2> QED BY <1>1, <2>1, <2>4, <2>5, <2>7 DEF Kept
  <1>6. K \in SUBSET DOMAIN chain[k]
    BY <1>1
  <1> QED BY <1>2, <1>4, <1>5, <1>6, FilterStep

\* Every step of the store keeps the invariant and moves reads only by commits.
LEMMA MVCCStep ==
    ASSUME GreatestExists, Ranking, MVCCInv, [MVCCNext]_mvccVars
    PROVE  MVCCInv' /\ \A j \in VersionedKeys : Moves(chain[j], chain'[j])
  <1> DEFINE Goal == MVCCInv' /\ \A j \in VersionedKeys : Moves(chain[j], chain'[j])
  <1>1. ASSUME NEW w \in Writers, NEW k \in VersionedKeys, NEW d \in BOOLEAN, TickVersion(w, k, d)
        PROVE  Goal
    <2>1. WritersInv' /\ \A e : VersionInv(e) => VersionInv(e)'
      BY <1>1, TickKeeps DEF MVCCInv
    <2>2. chain' = chain
      BY <1>1 DEF TickVersion
    <2> QED BY <2>1, <2>2, SameChains DEF MVCCInv
  <1>2. ASSUME NEW w \in Writers, NEW k \in VersionedKeys, Write(w, k) \/ Delete(w, k)
        PROVE  Goal
    <2>1. TickVersion(w, k, FALSE) \/ TickVersion(w, k, TRUE)
      BY <1>2 DEF Write, Delete
    <2> QED BY <1>1, <2>1
  <1>3. ASSUME NEW w \in Writers, FindChain(w) PROVE Goal
    <2>1. /\ writer[w].at = "find" /\ writer' = [writer EXCEPT ![w].at = "append"]
          /\ clock' = clock /\ chain' = chain
      BY <1>3 DEF FindChain
    <2>2. CarryOn
      BY <2>1, WriterAt DEF MVCCInv
    <2>3. WritersInv' /\ \A e : VersionInv(e) => VersionInv(e)'
      BY <2>2, CarryOnKeeps DEF MVCCInv
    <2> QED BY <2>1, <2>3, SameChains DEF MVCCInv
  <1>4. ASSUME UNCHANGED mvccVars PROVE Goal
    <2>1. clock' = clock /\ chain' = chain /\ writer' = writer
      BY <1>4 DEF mvccVars
    <2>2. CarryOn
      BY <2>1 DEF CarryOn, MVCCInv, WritersInv
    <2>3. WritersInv' /\ \A e : VersionInv(e) => VersionInv(e)'
      BY <2>2, CarryOnKeeps DEF MVCCInv
    <2> QED BY <2>1, <2>3, SameChains DEF MVCCInv
  <1>5. ASSUME NEW w \in Writers, AppendVersion(w) \/ CommitVersion(w) \/ AbortVersion(w)
        PROVE  Goal
    BY <1>5, AppendStep, CommitStep, AbortStep
  <1>6. ASSUME NEW k \in VersionedKeys, GC(k) PROVE Goal
    BY <1>6, GCStep
  <1> HIDE DEF Goal
  <1>7. Goal
    BY <1>2, <1>3, <1>4, <1>5, <1>6 DEF MVCCNext
  <1> QED BY <1>7 DEF Goal

\* The store starts with nothing in its chains and nobody at work.
LEMMA MVCCStart == MVCCInit => MVCCInv
  <1> SUFFICES ASSUME MVCCInit PROVE MVCCInv
    OBVIOUS
  <1>1. << >> \in Seq(Versions) /\ DOMAIN << >> = {} /\ 0 \in Nat
    BY SMT
  <1>2. WritersInv
    BY <1>1 DEF MVCCInit, WritersInv
  <1>3. \A k \in VersionedKeys : chain[k] = << >>
    BY DEF MVCCInit
  <1>4. chain \in [VersionedKeys -> Seq(Versions)]
    BY <1>1 DEF MVCCInit
  <1>5. ChainsInv
    BY <1>1, <1>3, <1>4 DEF ChainsInv
  <1> QED BY <1>2, <1>5 DEF MVCCInv

-----------------------------------------------------------------------------
INSTANCE FiniteSetTheorems

(* A non-empty set of natural numbers has a least element.                  *)
LEMMA LeastNat ==
    ASSUME NEW T, T \subseteq Nat, T # {}
    PROVE  \E x \in T : \A y \in T : x <= y
<1>1. PICK x \in T : \A y \in T : ~(<<y, x>> \in OpToRel(<, Nat))
  BY NatLessThanWellFounded, WFMin
<1>2. \A y \in T : ~(y < x)
  BY <1>1 DEF OpToRel
<1> QED BY SMT, <1>2

(* getShardForKey always finds a shard by its range: the fallback to shard  *)
(* 0 is never taken, and a hash on the border of two ranges always goes to  *)
(* the lower one.                                                           *)
THEOREM RoutingTotal ==
    \A h \in 0..MaxHash :
        /\ ShardOf(h) \in Shards
        /\ InRange(h, ShardOf(h))
        /\ \A j \in Shards : InRange(h, j) => ShardOf(h) <= j
<1> SUFFICES ASSUME NEW h \in 0..MaxHash
             PROVE  /\ ShardOf(h) \in Shards
                    /\ InRange(h, ShardOf(h))
                    /\ \A j \in Shards : InRange(h, j) => ShardOf(h) <= j
  OBVIOUS
<1> DEFINE T == {i \in Shards : InRange(h, i)}
<1>1. T # {}
  BY RangesCover
<1>2. T \subseteq Nat
  BY SMT, EngineAssumption DEF Shards
<1>3. PICK x \in T : \A y \in T : x <= y
  BY <1>1, <1>2, LeastNat
<1>4. \E i \in Shards : InRange(h, i) /\ \A j \in Shards : InRange(h, j) => i <= j
  BY <1>3
<1> QED BY <1>4, RangesCover DEF ShardOf

(* The facts about shards and counting.                                     *)
LEMMA CountingHolds == Counting
<1>1. \A k \in Keys : Home(k) \in Shards
  BY RoutingTotal, EngineAssumption DEF Home
<1>2. Cardinality({}) = 0
  BY FS_EmptySet
<1>3. \A S \in SUBSET Keys : IsFiniteSet(S) /\ Cardinality(S) \in Nat
  BY EngineAssumption, FS_Subset, FS_CardinalityType
<1>4. ASSUME NEW S \in SUBSET Keys, NEW T \in SUBSET Keys, T \subseteq S
      PROVE  Cardinality(T) <= Cardinality(S)
  BY <1>3, <1>4, FS_Subset
<1>5. ASSUME NEW S \in SUBSET Keys, NEW T \in SUBSET Keys, S \cap T = {}
      PROVE  Cardinality(S \cup T) = Cardinality(S) + Cardinality(T)
  <2>1. Cardinality(S \cup T) = Cardinality(S) + Cardinality(T) - Cardinality(S \cap T)
    BY <1>3, FS_Union
  <2>2. Cardinality(S \cap T) = 0 /\ Cardinality(S) \in Nat /\ Cardinality(T) \in Nat
    BY <1>2, <1>3, <1>5
  <2> QED
    BY SMT, <2>1, <2>2
<1> QED
  BY <1>1, <1>2, <1>3, <1>4, <1>5 DEF Counting

-----------------------------------------------------------------------------

(* The inductive invariant holds in every reachable state.                  *)
THEOREM Invariance == Spec => []IndInv
<1>1. IndInv /\ [Next]_vars => IndInv'
  BY NextInv, CountingHolds
<1> QED BY <1>1, InitInv, PTL DEF Spec

(* Until Shutdown the open Badger handles are those of the databases in the *)
(* engine's map, all of them, and those failed creations left open.         *)
THEOREM HandlesMatchMap == Spec => []HandlesAccounted
<1>1. IndInv => HandlesAccounted
  BY DEF IndInv
<1> QED BY <1>1, Invariance, PTL

(* A request never works on the shards of a database that was dropped, or   *)
(* dropped and created again, after it looked them up.                      *)
THEOREM DroppedIsGone == Spec => []StaleNeverServed
<1> QED BY OpenIsMapped, Invariance, PTL

(* The result of a count that goes over the shards one by one, while others *)
(* write, is no smaller than the number of keys that were there all along   *)
(* and no larger than the number of keys there at some time, for any number *)
(* of shards, keys and goroutines.                                          *)
THEOREM CountsInRange == Spec => []CountInRange
<1>1. IndInv /\ ScanInv /\ [Next]_vars => ScanInv'
  BY ScanStep, CountingHolds
<1>2. IndInv /\ ScanInv => CountInRange
  BY CountEnds, CountingHolds
<1> QED
  BY <1>1, <1>2, ScanInit, Invariance, PTL DEF Spec

\* The greatest of a set of places is the one nearest the end.
LEMMA GreatestHolds == GreatestExists
  <1> SUFFICES ASSUME NEW m \in Nat, NEW T \in SUBSET (1 .. m), T # {}
               PROVE  Max(T) \in T /\ \A y \in T : y <= Max(T)
    BY DEF GreatestExists
  <1>1. \A t \in 1 .. m : t \in Int /\ m - t \in Nat
    BY SMT
  <1> DEFINE rest == {m - t : t \in T}
  <1>2. rest \subseteq Nat /\ rest # {}
    BY <1>1
  <1>3. PICK x \in rest : \A y \in rest : ~(<<y, x>> \in OpToRel(<, Nat))
    <2> HIDE DEF rest
    <2> QED BY <1>2, NatLessThanWellFounded, WFMin
  <1>4. PICK t \in T : x = m - t
    OBVIOUS
  <1>5. \A y \in rest : ~(y < x)
    BY <1>2, <1>3 DEF OpToRel
  <1>6. \A y \in T : ~(m - y < m - t)
    BY <1>4, <1>5
  <1>7. \A a, b \in 1 .. m : ~(m - a < m - b) => b >= a
    BY SMT
  <1>8. \A y \in T : t >= y
    BY <1>6, <1>7
  <1>9. Max(T) \in T /\ \A y \in T : Max(T) >= y
    BY <1>8 DEF Max
  <1>10. \A a, b \in 1 .. m : a >= b => b <= a
    BY SMT
  <1> QED BY <1>9, <1>10

\* The places of K up to one of them number it from 1 to the size of K: their
\* numbers are in range and grow with the places, so by the pigeonhole principle
\* every number is taken.
LEMMA RankingHolds == Ranking
  <1> SUFFICES ASSUME NEW m \in Nat, NEW K \in SUBSET (1 .. m)
               PROVE  /\ Cardinality(K) \in Nat
                      /\ \A n \in 1 .. Cardinality(K) : Nth(K, n) \in K
                      /\ \A i \in K : \E n \in 1 .. Cardinality(K) : Nth(K, n) = i
                      /\ \A a, b \in 1 .. Cardinality(K) : a < b => Nth(K, a) < Nth(K, b)
    BY DEF Ranking
  <1> DEFINE upto(i) == {j \in K : j <= i}
             rank(i) == Cardinality(upto(i))
             c == Cardinality(K)
  <1>1. IsFiniteSet(K)
    <2>1. IsFiniteSet(1 .. m)
      BY FS_Interval, SMT
    <2> QED BY <2>1, FS_Subset
  <1>2. c \in Nat
    BY <1>1, FS_CardinalityType
  <1>3. \A i \in K : i \in Int
    BY SMT
  <1>4. ASSUME NEW i \in K PROVE rank(i) \in 1 .. c
    <2>1. upto(i) \subseteq K /\ i \in upto(i)
      BY SMT
    <2> HIDE DEF upto
    <2>2. IsFiniteSet(upto(i)) /\ rank(i) <= c
      BY <1>1, <2>1, FS_Subset
    <2>3. rank(i) \in Nat /\ rank(i) # 0
      BY <2>1, <2>2, FS_CardinalityType, FS_EmptySet
    <2> HIDE DEF rank, c
    <2> QED BY SMT, <1>2, <2>2, <2>3
  <1>5. ASSUME NEW i \in K, NEW j \in K, i < j PROVE rank(i) < rank(j)
    <2>1. upto(i) \subseteq upto(j) /\ j \in upto(j) /\ j \notin upto(i)
      <3>1. \A a, b \in Int : a < b =>
                b <= b /\ ~(b <= a) /\ \A l \in Int : l <= a => l <= b
        BY SMT
      <3> QED BY <1>3, <1>5, <3>1
    <2>2. upto(j) \subseteq K
      OBVIOUS
    <2> HIDE DEF upto
    <2>3. IsFiniteSet(upto(j)) /\ upto(i) # upto(j)
      BY <1>1, <2>1, <2>2, FS_Subset
    <2>4. /\ rank(i) <= rank(j) /\ rank(i) # rank(j)
      BY <2>1, <2>3, FS_Subset
    <2>5. rank(i) \in 1 .. c /\ rank(j) \in 1 .. c
      BY <1>4
    <2> HIDE DEF rank, c
    <2> QED BY SMT, <1>2, <2>4, <2>5
  <1> HIDE DEF rank, c
  <1>6. ASSUME NEW n \in 1 .. c PROVE \E i \in K : rank(i) = n
    <2>1. SUFFICES ASSUME \A i \in K : rank(i) # n PROVE FALSE
      OBVIOUS
    <2> DEFINE T == (1 .. c) \ {n}
               f == [i \in K |-> rank(i)]
    <2>2. IsFiniteSet(1 .. c) /\ Cardinality(1 .. c) = c
      <3>1. /\ IsFiniteSet(1 .. c)
            /\ Cardinality(1 .. c) = IF 1 > c THEN 0 ELSE c - 1 + 1
        BY <1>2, FS_Interval, SMT
      <3> QED BY SMT, <1>2, <3>1
    <2>3. IsFiniteSet(T) /\ Cardinality(T) = c - 1
      BY <2>2, FS_RemoveElement
    <2>4. f \in [K -> T]
      BY <1>4, <2>1
    <2>5. Cardinality(T) < Cardinality(K)
      BY SMT, <1>2, <2>3 DEF c
    <2> HIDE DEF T, f
    <2>6. PICK i, j \in K : i # j /\ f[i] = f[j]
      BY <1>1, <2>3, <2>4, <2>5, FS_PigeonHole
    <2>7. rank(i) = rank(j)
      BY <2>6 DEF f
    <2>8. i < j \/ j < i
      BY SMT, <1>3, <2>6
    <2>9. rank(i) < rank(j) \/ rank(j) < rank(i)
      BY <1>5, <2>8
    <2>10. rank(i) \in 1 .. c
      BY <1>4
    <2> QED BY SMT, <1>2, <2>7, <2>9, <2>10
  <1>7. \A n \in 1 .. c : Nth(K, n) \in K /\ rank(Nth(K, n)) = n
    BY <1>6 DEF Nth, rank
  <1>8. ASSUME NEW i \in K, NEW j \in K, rank(i) <= rank(j) PROVE i <= j
    <2>1. rank(i) \in 1 .. c /\ rank(j) \in 1 .. c /\ (j < i => rank(j) < rank(i))
      BY <1>4, <1>5
    <2> QED BY SMT, <1>2, <1>3, <1>8, <2>1
  <1>9. ASSUME NEW i \in K PROVE \E n \in 1 .. c : Nth(K, n) = i
    <2>1. SUFFICES ASSUME NEW n, n = rank(i) PROVE Nth(K, n) = i /\ n \in 1 .. c
      OBVIOUS
    <2>2. n \in 1 .. c
      BY <1>4, <2>1
    <2>3. Nth(K, n) \in K /\ rank(Nth(K, n)) = rank(i)
      BY <1>7, <2>1, <2>2
    <2>4. rank(i) <= rank(i)
      BY SMT, <1>2, <2>1, <2>2
    <2>5. Nth(K, n) <= i /\ i <= Nth(K, n)
      BY <1>8, <2>3, <2>4
    <2>6. \A x, y \in Int : x <= y /\ y <= x => x = y
      BY SMT
    <2> QED BY <1>3, <2>2, <2>3, <2>5, <2>6
  <1>10. ASSUME NEW a \in 1 .. c, NEW b \in 1 .. c, a < b PROVE Nth(K, a) < Nth(K, b)
    <2>1. /\ Nth(K, a) \in K /\ rank(Nth(K, a)) = a
          /\ Nth(K, b) \in K /\ rank(Nth(K, b)) = b
      BY <1>7
    <2>2. Nth(K, b) < Nth(K, a) => b < a
      BY <1>5, <2>1
    <2>3. \A x, y \in Int : x < y => x # y /\ ~(y < x)
      BY SMT
    <2>4. a \in Int /\ b \in Int
      BY SMT, <1>2
    <2>5. Nth(K, a) # Nth(K, b) /\ ~(Nth(K, b) < Nth(K, a))
      BY <1>10, <2>1, <2>2, <2>3, <2>4
    <2>6. \A x, y \in Int : x # y /\ ~(y < x) => x < y
      BY SMT
    <2> QED BY <1>3, <2>1, <2>5, <2>6
  <1> QED BY <1>2, <1>7, <1>9, <1>10 DEF c

\* What a read of the present sees changes only when a version that was
\* uncommitted is committed: no append, abort or GC shows, hides or brings back
\* a version, however the writers' three steps interleave (Read, Write, Delete,
\* Commit, Abort and GC of MVCCStore).
THEOREM ReadsFollowCommits == MVCCSpec => ReadsMoveByCommit
<1>1. MVCCInv /\ [MVCCNext]_mvccVars => MVCCInv'
  BY MVCCStep, GreatestHolds, RankingHolds
<1>2. ChainsInv' => \A k \in VersionedKeys : Read(k, clock)' = Latest(chain'[k])
  <2> DEFINE Seen == \A k \in VersionedKeys : Read(k, clock) = Latest(chain[k])
  <2>1. ChainsInv => Seen
    BY ReadIsLatest
  <2> HIDE DEF Seen
  <2>2. ChainsInv' => Seen'
    BY <2>1, PTL
  <2> QED BY <2>2 DEF Seen
<1> DEFINE Follows == \A k \in VersionedKeys :
          Read(k, clock)' # Read(k, clock)
            => \E i \in DOMAIN chain[k] : /\ chain[k][i].version = Read(k, clock)'
                                          /\ ~chain[k][i].committed
<1>3. MVCCInv /\ [MVCCNext]_mvccVars => [Follows]_mvccVars
  <2> SUFFICES ASSUME MVCCInv, [MVCCNext]_mvccVars PROVE Follows
    OBVIOUS
  <2>1. MVCCInv' /\ \A j \in VersionedKeys : Moves(chain[j], chain'[j])
    BY MVCCStep, GreatestHolds, RankingHolds
  <2>2. ASSUME NEW k \in VersionedKeys
        PROVE  Read(k, clock) = Latest(chain[k]) /\ Read(k, clock)' = Latest(chain'[k])
    BY <1>2, <2>1, ReadIsLatest DEF MVCCInv
  <2> QED BY <2>1, <2>2 DEF Moves
<1> HIDE DEF Follows
<1>4. MVCCSpec => [][Follows]_mvccVars
  BY <1>1, <1>3, MVCCStart, PTL DEF MVCCSpec
<1> QED BY <1>4 DEF Follows, ReadsMoveByCommit

=============================================================================
