-------------------------------- MODULE Services --------------------------------
(***************************************************************************)
(* The services around the cache that share no state with one another, one  *)
(* beside the other: part says which of them a behaviour is about, the rest *)
(* stand still.  Cluster is run with crashes ("cluster"), with the node     *)
(* list of the replicator ("replica") and with clients' writes ("forward"). *)
(***************************************************************************)
EXTENDS CircuitBreaker, RateLimiter, MVCCStore, Coordinator, TTLWheel, BatchProcessor,
        DataSync, SnapshotManager, ErrorRecovery, Forwarding, TxnClient

VARIABLE part

vars == <<part, breakerVars, limiterVars, mvccVars, coordinatorVars, wheelVars, batchVars,
          syncVars, snapVars, recoveryVars, txClientVars, clusterVars, forwardVars>>

Init ==
    /\ part \in {"breaker", "limiter", "mvcc", "coordinator", "wheel", "batch", "sync",
                 "snapshot", "recovery", "client", "cluster", "replica", "forward"}
    /\ BreakerInit /\ LimiterInit /\ MVCCInit /\ CoordinatorInit /\ WheelInit /\ BatchInit
    /\ SyncInit /\ SnapInit /\ RecoveryInit /\ TxClientInit
    /\ ClusterInit /\ ForwardInit
    /\ part # "snapshot" => snapLeader

Run(p) == part = p /\ UNCHANGED part

(* The parts in three groups: what stands still while another group runs.   *)
RequestsStand == UNCHANGED <<breakerVars, limiterVars, mvccVars, coordinatorVars, txClientVars>>
NodeStands == UNCHANGED <<wheelVars, batchVars, syncVars, snapVars, recoveryVars>>
ClusterStands == UNCHANGED <<clusterVars, forwardVars>>

RequestsNext ==
    \/ Run("breaker") /\ BreakerNext
       /\ UNCHANGED <<limiterVars, mvccVars, coordinatorVars, txClientVars>>
    \/ Run("limiter") /\ LimiterNext
       /\ UNCHANGED <<breakerVars, mvccVars, coordinatorVars, txClientVars>>
    \/ Run("mvcc") /\ MVCCNext
       /\ UNCHANGED <<breakerVars, limiterVars, coordinatorVars, txClientVars>>
    \/ Run("coordinator") /\ CoordinatorNext
       /\ UNCHANGED <<breakerVars, limiterVars, mvccVars, txClientVars>>
    \/ Run("client") /\ TxClientNext
       /\ UNCHANGED <<breakerVars, limiterVars, mvccVars, coordinatorVars>>

NodeNext ==
    \/ Run("wheel") /\ WheelNext /\ UNCHANGED <<batchVars, syncVars, snapVars, recoveryVars>>
    \/ Run("batch") /\ BatchNext /\ UNCHANGED <<wheelVars, syncVars, snapVars, recoveryVars>>
    \/ Run("sync") /\ SyncNext /\ UNCHANGED <<wheelVars, batchVars, snapVars, recoveryVars>>
    \/ Run("snapshot") /\ SnapNext /\ UNCHANGED <<wheelVars, batchVars, syncVars, recoveryVars>>
    \/ Run("recovery") /\ RecoveryNext /\ UNCHANGED <<wheelVars, batchVars, syncVars, snapVars>>

GroupNext ==
    \/ Run("cluster") /\ (ClusterStep \/ CrashStep) /\ UNCHANGED forwardVars
    \/ Run("replica") /\ (ClusterStep \/ ReplicaStep) /\ UNCHANGED forwardVars
    \/ Run("forward") /\ ForwardNext

Next ==
    \/ RequestsNext /\ NodeStands /\ ClusterStands
    \/ NodeNext /\ RequestsStand /\ ClusterStands
    \/ GroupNext /\ RequestsStand /\ NodeStands

Spec == Init /\ [][Next]_vars

=============================================================================
