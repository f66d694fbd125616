--------------------------------- MODULE Cluster ---------------------------------
(***************************************************************************)
(* How the nodes of a cluster come to know one another: the polling of      *)
(* raft's state into Node.isLeader and Node.peers, the client addresses     *)
(* carried by sync_node_metadata commands, the join of a node               *)
(* (consensus/node.go), and the node list that business/engine.go keeps in  *)
(* the DataReplicator.  Raft is external: its log holds what is committed,  *)
(* a node may think itself leader, or know another leader, after raftLeader *)
(* has moved on.  Every node has a client address configured.               *)
(***************************************************************************)
EXTENDS Integers, Sequences, FiniteSets

CONSTANTS
    Node, Boot,         \* the nodes, and the one with bootstrap set
    MaxElections, MaxRestarts,
    MaxLog              \* bounds; MaxLog counts the entries that are not writes

ASSUME ClusterAssumption == Boot \in Node

VARIABLES
    raftLeader,     \* the leader that can commit, or "none"
    raftLog,        \* the committed commands: members, metadata, writes
    have, applied,  \* each node's copy of the log, and what its FSM applied
    snapshot,       \* the log index of the snapshot each node started from
    seen,           \* raft.LeaderWithID(); itself if raft.State() is Leader
    isLeader,       \* Node.isLeader, polled
    clientAddrs,    \* the nodes whose client address Node.clientAddrs holds
    peers,          \* Node.peers
    peerAddrs,      \* the peers with a ClientAddr
    announcing,     \* a goroutine is about to apply the node's own metadata
    join,           \* the join of each node
    replica,        \* the DataReplicator's nodes, and this node's IsLeader there
    elections, restarts     \* counters of the bounds

clusterVars == <<raftLeader, raftLog, have, applied, snapshot, seen, isLeader,
                 clientAddrs, peers, peerAddrs, announcing, join, replica,
                 elections, restarts>>

raftVars == <<raftLeader, raftLog, have, applied, snapshot, seen>>
viewVars == <<isLeader, clientAddrs, peers, peerAddrs>>

NoReplica == [nodes |-> {}, flagged |-> FALSE]
NotJoining == [at |-> "idle", via |-> "none"]

ClusterInit ==
    /\ raftLeader = "none" /\ raftLog = <<[type |-> "member", of |-> Boot]>>
    /\ have = [n \in Node |-> IF n = Boot THEN 1 ELSE 0]
    /\ applied = have /\ snapshot = [n \in Node |-> 0]
    /\ seen = [n \in Node |-> "none"]
    /\ isLeader = [n \in Node |-> FALSE] /\ clientAddrs = [n \in Node |-> {n}]
    /\ peers = [n \in Node |-> {}] /\ peerAddrs = [n \in Node |-> {}]
    /\ announcing = [n \in Node |-> n = Boot]
    /\ join = [n \in Node |-> NotJoining]
    /\ replica = [n \in Node |-> NoReplica]
    /\ elections = 0 /\ restarts = 0

MembersIn(k) == {raftLog[i].of : i \in {j \in 1..k : raftLog[j].type = "member"}}
Members == MembersIn(Len(raftLog))

-----------------------------------------------------------------------------

(* Raft: an election, and a node hearing of it.                             *)
Elect(n) ==
    /\ elections < MaxElections /\ elections' = elections + 1
    /\ n \in Members /\ have[n] = Len(raftLog) /\ raftLeader # n
    /\ raftLeader' = n /\ seen' = [seen EXCEPT ![n] = n]
    /\ UNCHANGED <<raftLog, have, applied, snapshot, viewVars, announcing, join, replica, restarts>>

LearnLeader(n) ==
    /\ n \in Members /\ seen[n] # raftLeader
    /\ seen' = [seen EXCEPT ![n] = raftLeader]
    /\ UNCHANGED <<raftLeader, raftLog, have, applied, snapshot, viewVars, announcing, join,
                   replica, elections, restarts>>

(* A command that n has raft apply: committed if n leads, and an error      *)
(* otherwise; an error may also be returned for a command that commits.     *)
Commit(n, command) ==
    /\ raftLeader = n
    /\ command.type = "write" \/ Cardinality({i \in DOMAIN raftLog : raftLog[i].type # "write"}) < MaxLog
    /\ raftLog' = Append(raftLog, command)
    /\ have' = [have EXCEPT ![n] = @ + 1]
    /\ UNCHANGED <<raftLeader, applied, snapshot, seen>>

(* FSM.Apply of an entry that is received, or replayed after a restart:     *)
(* sync_node_metadata calls back into the node.                             *)
ApplyEntry(n) ==
    /\ n \in Members /\ applied[n] < Len(raftLog)
    /\ applied' = [applied EXCEPT ![n] = @ + 1]
    /\ have' = [have EXCEPT ![n] = IF @ < applied'[n] THEN applied'[n] ELSE @]
    /\ LET e == raftLog[applied[n] + 1]
           new == IF e.type = "metadata" THEN {e.of} ELSE {}
       IN  /\ clientAddrs' = [clientAddrs EXCEPT ![n] = @ \cup new]
           /\ peerAddrs' = [peerAddrs EXCEPT ![n] = @ \cup (new \cap peers[n])]
    /\ UNCHANGED <<raftLeader, raftLog, snapshot, seen, isLeader, peers,
                   announcing, join, replica, elections, restarts>>

-----------------------------------------------------------------------------

(* monitorLeadership, each second: the state into isLeader, a goroutine for *)
(* the own address if the node has just become leader; then updatePeerInfo, *)
(* which makes peers anew under n.mu from clientAddrs and the configuration *)
(* it has read before: one entry may have come in between.                  *)
UpdatePeerInfoBare(n) ==
    \E k \in (have[n] - 1)..have[n] :
        /\ peers' = [peers EXCEPT ![n] = MembersIn(k)]
        /\ peerAddrs' = [peerAddrs EXCEPT ![n] = {n} \cap MembersIn(k)]

UpdatePeerInfo(n) ==
    \E k \in (have[n] - 1)..have[n] :
        /\ peers' = [peers EXCEPT ![n] = MembersIn(k)]
        /\ peerAddrs' = [peerAddrs EXCEPT ![n] = MembersIn(k) \cap clientAddrs[n]]

MonitorLeadership(n) ==
    /\ isLeader' = [isLeader EXCEPT ![n] = (seen[n] = n)]
    /\ announcing' = [announcing EXCEPT ![n] = @ \/ (seen[n] = n /\ ~isLeader[n])]
    /\ UpdatePeerInfo(n)
    /\ UNCHANGED <<raftVars, clientAddrs, join, replica, elections, restarts>>

(* The goroutine applies the metadata once; a failure is only logged.       *)
AnnounceSelf(n) ==
    /\ announcing[n] /\ announcing' = [announcing EXCEPT ![n] = FALSE]
    /\ \/ Commit(n, [type |-> "metadata", of |-> n])
       \/ UNCHANGED raftVars
    /\ UNCHANGED <<viewVars, join, replica, elections, restarts>>

(* JoinCluster of node m, tried once when m starts: the request to node n   *)
(* is sent, or fails ...                                                    *)
JoinCluster(m, n) ==
    /\ m # Boot /\ m # n /\ join[m] = NotJoining
    /\ \E at \in {"asked", "failed"} : join' = [join EXCEPT ![m] = [at |-> at, via |-> n]]
    /\ UNCHANGED <<raftVars, viewVars, announcing, replica, elections, restarts>>

JoinGoes(m, at) == join' = [join EXCEPT ![m].at = at]

(* ... handleClusterNodeJoin there goes on if that node IsLeader ...        *)
HandleClusterNodeJoin(m) ==
    /\ join[m].at = "asked"
    /\ JoinGoes(m, IF isLeader[join[m].via] THEN "add" ELSE "failed")
    /\ UNCHANGED <<raftVars, viewVars, announcing, replica, elections, restarts>>

(* ... AddVoter, whose error ends it ...                                    *)
AddVoter(m) ==
    /\ join[m].at = "add"
    /\ \/ Commit(join[m].via, [type |-> "member", of |-> m]) /\ JoinGoes(m, "save")
       \/ Commit(join[m].via, [type |-> "member", of |-> m]) /\ JoinGoes(m, "failed")
       \/ JoinGoes(m, "failed") /\ UNCHANGED raftVars
    /\ UNCHANGED <<viewVars, announcing, replica, elections, restarts>>

(* ... the address and the peer under n.mu ...                              *)
SaveClientAddr(m) ==
    LET n == join[m].via
    IN  /\ join[m].at = "save" /\ JoinGoes(m, "announce")
        /\ clientAddrs' = [clientAddrs EXCEPT ![n] = @ \cup {m}]
        /\ peers' = [peers EXCEPT ![n] = @ \cup {m}]
        /\ peerAddrs' = [peerAddrs EXCEPT ![n] = @ \cup {m}]
        /\ UNCHANGED <<raftVars, isLeader, announcing, replica, elections, restarts>>

(* ... and the metadata command, whose error is only logged.                *)
AnnounceJoined(m) ==
    /\ join[m].at = "announce" /\ JoinGoes(m, "done")
    /\ \/ Commit(join[m].via, [type |-> "metadata", of |-> m])
       \/ UNCHANGED raftVars
    /\ UNCHANGED <<viewVars, announcing, replica, elections, restarts>>

-----------------------------------------------------------------------------

(* setupClusterNodesFromConsensus makes the replicator's list anew, unless  *)
(* there are no peers; startClusterMonitor calls it when the list's length  *)
(* or this node's flag is out of date.  (DataReplicator.isLeader, set after *)
(* it, has no reader: nobody calls ReplicateSet and ReplicateDelete.)       *)
HasLeaderStatusChanged(n) ==
    n \notin replica[n].nodes \/ replica[n].flagged # isLeader[n]

SetupClusterNodes(n) ==
    /\ peers[n] # {}
    /\ replica' = [replica EXCEPT ![n] = [nodes |-> peers[n],
                                          flagged |-> isLeader[n] /\ n \in peers[n]]]
    /\ UNCHANGED <<raftVars, viewVars, announcing, join, elections, restarts>>

ClusterMonitor(n) ==
    /\ \/ Cardinality(peers[n]) # Cardinality(replica[n].nodes)
       \/ HasLeaderStatusChanged(n)
    /\ SetupClusterNodes(n)

(* A node crashes and starts again: raft's log and newest snapshot are on   *)
(* disk (k is where that was taken), the FSM replays what it does not       *)
(* cover, it has no client addresses, and the joins being served fail.      *)
RestartNode(n) ==
    /\ restarts < MaxRestarts /\ restarts' = restarts + 1
    /\ raftLeader' = IF raftLeader = n THEN "none" ELSE raftLeader
    /\ seen' = [seen EXCEPT ![n] = "none"]
    /\ \E k \in snapshot[n]..applied[n] :
          /\ snapshot' = [snapshot EXCEPT ![n] = k] /\ applied' = [applied EXCEPT ![n] = k]
    /\ isLeader' = [isLeader EXCEPT ![n] = FALSE]
    /\ clientAddrs' = [clientAddrs EXCEPT ![n] = {n}]
    /\ peers' = [peers EXCEPT ![n] = {}] /\ peerAddrs' = [peerAddrs EXCEPT ![n] = {}]
    /\ announcing' = [announcing EXCEPT ![n] = FALSE]
    /\ replica' = [replica EXCEPT ![n] = NoReplica]
    /\ join' = [m \in Node |-> IF m = n THEN NotJoining
                               ELSE IF join[m].via = n THEN [join[m] EXCEPT !.at = "failed"]
                               ELSE join[m]]
    /\ UNCHANGED <<raftLog, have, elections>>

-----------------------------------------------------------------------------

ClusterStep ==
    \E n \in Node :
        \/ Elect(n) \/ LearnLeader(n) \/ ApplyEntry(n)
        \/ MonitorLeadership(n) \/ AnnounceSelf(n)
        \/ HandleClusterNodeJoin(n) \/ AddVoter(n) \/ SaveClientAddr(n) \/ AnnounceJoined(n)
        \/ \E m \in Node : JoinCluster(n, m)

ReplicaStep == \E n \in Node : ClusterMonitor(n)

CrashStep == \E n \in Node : RestartNode(n)

(* What a node knows of the others is what raft's log says, with            *)
(* monitorLeadership, the joins, the log and restarts all writing it: peers *)
(* and the replicator's nodes are members, a peer has its client address    *)
(* exactly when clientAddrs has it (updatePeerInfo, the join and the        *)
(* metadata callback each write both), and no address is missing that was   *)
(* announced by an entry applied since the snapshot the node started from.  *)
ViewsFollowLog ==
    \A n \in Node :
        /\ peers[n] \cup replica[n].nodes \subseteq Members
        /\ peerAddrs[n] = peers[n] \cap clientAddrs[n]
        /\ \A i \in (snapshot[n] + 1)..applied[n] :
              raftLog[i].type = "metadata" => raftLog[i].of \in clientAddrs[n]

=============================================================================
