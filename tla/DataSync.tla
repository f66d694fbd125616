-------------------------------- MODULE DataSync --------------------------------
(***************************************************************************)
(* DataSyncManager of consensus/data_sync.go: sessions that send a joining  *)
(* node the data, each in a goroutine of its own.  The map of active        *)
(* sessions and the history are guarded by dsm.mu; the counters of stats    *)
(* are not, so that each increment is a load and a store.  conn.Read has no *)
(* deadline and syncTimeout is not used: a session may stay at "sent".      *)
(***************************************************************************)
EXTENDS Integers, Sequences, FiniteSets

CONSTANTS
    Sessions,               \* bound: the sessions that may be started
    MaxConcurrentSyncs,     \* maxConcurrentSyncs (3)
    MaxHistory,             \* the limit of syncHistory (100)
    Chunks                  \* chunks of a snapshot

ASSUME SyncAssumption == {MaxConcurrentSyncs, MaxHistory, Chunks} \subseteq Nat

VARIABLES
    active,     \* the sessions in activeSyncs
    session,    \* each session
    history,    \* syncHistory
    stats       \* stats.SuccessfulSyncs, FailedSyncs and TotalSyncs

syncVars == <<active, session, history, stats>>

Strategies == {"snapshot", "incremental", "hybrid"}     \* what SetStrategy sets
NotStarted == [at |-> "none", strategy |-> "none", status |-> "idle", sent |-> 0, seen |-> 0]
Started(st) == [at |-> "run", strategy |-> st, status |-> "in progress", sent |-> 0, seen |-> 0]

SyncInit ==
    /\ active = {} /\ history = << >>
    /\ session = [s \in Sessions |-> NotStarted]
    /\ stats = [completed |-> 0, failed |-> 0, total |-> 0]

-----------------------------------------------------------------------------

(* determineStrategy, of dsm.strategy, which SetStrategy may have set to    *)
(* any of them: hybrid chooses by whether the store has 10000 keys.         *)
DeterminedStrategy(strategy, large) ==
    IF strategy # "hybrid" THEN strategy ELSE IF large THEN "snapshot" ELSE "incremental"

(* SyncNewNode of a node that IsLeader; any other returns an error.         *)
SyncNewNodeOneMore(s, st) ==
    /\ session[s] = NotStarted
    /\ Cardinality(active) <= MaxConcurrentSyncs
    /\ active' = active \cup {s}
    /\ session' = [session EXCEPT ![s] = Started(st)]
    /\ UNCHANGED <<history, stats>>

SyncNewNode(s, st) ==
    /\ session[s] = NotStarted
    /\ Cardinality(active) < MaxConcurrentSyncs
    /\ active' = active \cup {s}
    /\ session' = [session EXCEPT ![s] = Started(st)]
    /\ UNCHANGED <<history, stats>>

SessionSets(s, r) ==
    /\ session' = [session EXCEPT ![s] = r]
    /\ UNCHANGED <<active, history, stats>>

(* executeSyncSession sets the status by the error, and loads the counter   *)
(* of that status.                                                          *)
Ended(s, status) ==
    [session[s] EXCEPT !.at = "counting", !.status = status, !.seen = stats[status]]

(* syncViaIncremental asks for no logs and sends none.                      *)
SyncViaIncremental(s) ==
    /\ session[s].at = "run" /\ session[s].strategy = "incremental"
    /\ SessionSets(s, Ended(s, "completed"))

(* syncViaSnapshot, which may fail at each of its steps: the capture ...    *)
SyncViaSnapshot(s) ==
    /\ session[s].at = "run" /\ session[s].strategy # "incremental"
    /\ \/ SessionSets(s, Ended(s, "failed"))
       \/ SessionSets(s, [session[s] EXCEPT !.at = "captured"])

(* ... sendSnapshotToNode's connection and request ...                      *)
SendSnapshotToNode(s) ==
    /\ session[s].at = "captured"
    /\ \/ SessionSets(s, Ended(s, "failed"))
       \/ SessionSets(s, [session[s] EXCEPT !.at = "sending"])

(* ... the chunks ...                                                       *)
SendChunk(s) ==
    /\ session[s].at = "sending"
    /\ \/ SessionSets(s, Ended(s, "failed"))
       \/ SessionSets(s, [session[s] EXCEPT !.sent = session[s].sent + 1,
                                            !.at = IF session[s].sent + 1 = Chunks
                                                   THEN "sent" ELSE "sending"])

(* ... then the answer: an error, a failure, or completed, which an answer  *)
(* that does not parse counts as.                                           *)
ReadResponse(s) ==
    /\ session[s].at = "sent"
    /\ \E status \in {"completed", "failed"} : SessionSets(s, Ended(s, status))

(* The increments: the store of the status's counter, the load and the      *)
(* store of TotalSyncs.                                                     *)
StoreOutcome(s) ==
    /\ session[s].at = "counting"
    /\ stats' = [stats EXCEPT ![session[s].status] = session[s].seen + 1]
    /\ session' = [session EXCEPT ![s].at = "counted"]
    /\ UNCHANGED <<active, history>>

LoadTotal(s) ==
    /\ session[s].at = "counted"
    /\ SessionSets(s, [session[s] EXCEPT !.at = "totalling", !.seen = stats.total])

StoreTotal(s) ==
    /\ session[s].at = "totalling"
    /\ stats' = [stats EXCEPT !.total = session[s].seen + 1]
    /\ session' = [session EXCEPT ![s].at = "ended"]
    /\ UNCHANGED <<active, history>>

(* finalizeSyncSession: out of activeSyncs, into the bounded history.       *)
FinalizeSyncSession(s) ==
    LET h == Append(history, [session |-> s, status |-> session[s].status])
    IN  /\ session[s].at = "ended"
        /\ active' = active \ {s}
        /\ history' = IF Len(h) > MaxHistory THEN Tail(h) ELSE h
        /\ session' = [session EXCEPT ![s].at = "gone"]
        /\ UNCHANGED stats

SyncNext ==
    \E s \in Sessions :
          \/ \E strategy \in Strategies, large \in BOOLEAN :
                SyncNewNode(s, DeterminedStrategy(strategy, large))
          \/ SyncViaIncremental(s) \/ SyncViaSnapshot(s) \/ SendSnapshotToNode(s)
          \/ SendChunk(s) \/ ReadResponse(s)
          \/ StoreOutcome(s) \/ LoadTotal(s) \/ StoreTotal(s) \/ FinalizeSyncSession(s)

SyncSpec == SyncInit /\ [][SyncNext]_syncVars

-----------------------------------------------------------------------------

With(status) == {s \in Sessions : session[s].status = status}

(* The sessions are accounted for whatever the order they end in: at most   *)
(* maxConcurrentSyncs run, a session holds its slot from SyncNewNode to     *)
(* finalizeSyncSession, the history has the newest sessions that gave their *)
(* slot back, each once and with an outcome, and the unlocked counters lose *)
(* increments but never invent one.                                         *)
SyncsAccounted ==
    /\ Cardinality(active) <= MaxConcurrentSyncs
    /\ active = {s \in Sessions : session[s].at \notin {"none", "gone"}}
    /\ Len(history) <= MaxHistory
    /\ Len(history) < MaxHistory =>
          {history[i].session : i \in DOMAIN history} = {s \in Sessions : session[s].at = "gone"}
    /\ \A i, j \in DOMAIN history : i # j => history[i].session # history[j].session
    /\ \A i \in DOMAIN history : history[i].status \in {"completed", "failed"}
    /\ stats.completed <= Cardinality(With("completed"))
    /\ stats.failed <= Cardinality(With("failed"))
    /\ stats.total <= Cardinality(With("completed") \cup With("failed"))

=============================================================================
