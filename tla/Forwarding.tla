------------------------------- MODULE Forwarding -------------------------------
(***************************************************************************)
(* A client's write on a cluster: the handlers of business/cache_handlers.go *)
(* and the forwarding of business/engine.go, on top of what the nodes know  *)
(* of one another (Cluster).  A follower forwards the write to the node it  *)
(* takes for the leader; that node handles it as its own, and forwards it   *)
(* again if it does not think itself leader (isForwardedRequest looks for   *)
(* its mark in the request's data, where handleClusterForward does not put  *)
(* it).  Each hop waits for the next one with a timeout, which the work     *)
(* further on outlives.                                                     *)
(***************************************************************************)
EXTENDS Cluster

CONSTANTS
    Writes,         \* the clients' writes
    MaxHops         \* bound: how often a write is forwarded

VARIABLES
    work,           \* where each write is handled, after how many hops
    answer          \* what its client was told: a status, or "none"

forwardVars == <<work, answer>>

ForwardInit ==
    /\ work = [w \in Writes |-> [at |-> "new", node |-> "none", hops |-> 0]]
    /\ answer = [w \in Writes |-> "none"]

-----------------------------------------------------------------------------

IssueWrite(w, n) ==
    /\ work[w].at = "new"
    /\ work' = [work EXCEPT ![w] = [at |-> "handle", node |-> n, hops |-> 0]]
    /\ UNCHANGED <<clusterVars, answer>>

(* The handler is done.  The client hears of it unless a hop has timed out; *)
(* SendRequest makes an error, so 502, of any forwarded answer but success. *)
Answer(w, status) ==
    /\ work' = [work EXCEPT ![w].at = "gone"]
    /\ answer' = [answer EXCEPT ![w] =
                     CASE answer[w] # "none" -> answer[w]
                       [] answer[w] = "none" /\ work[w].hops > 0 /\ status # "200" -> "502"
                       [] OTHER -> status]

(* handleSet and handleDelete: a follower refuses or forwards, as its       *)
(* configuration's forward_leader says; a leader goes on.                   *)
HandleWrite(w) ==
    /\ work[w].at = "handle"
    /\ \/ ~isLeader[work[w].node] /\ Answer(w, "403")
       \/ /\ work' = [work EXCEPT ![w].at = IF isLeader[work[w].node] THEN "apply" ELSE "forward"]
          /\ UNCHANGED answer
    /\ UNCHANGED clusterVars

(* getLeaderClientAddr: the leader's client address, or its raft address,   *)
(* which answers nothing; none if it is not among the peers.                *)
LeaderClientAddr(n) ==
    IF seen[n] \notin peers[n] THEN "none"
    ELSE IF seen[n] \in peerAddrs[n] THEN "client" ELSE "raft"

(* forwardToLeader, which knows no leader, or only itself, or no address;   *)
(* fails to connect, or to get an answer; or sends the request on ...       *)
ForwardToLeader(w) ==
    LET n == work[w].node
        addr == IF seen[n] = "none" THEN "none" ELSE LeaderClientAddr(n)
    IN  /\ work[w].at = "forward"
        /\ \/ seen[n] = n /\ Answer(w, "500")
           \/ seen[n] # n /\ Answer(w, "503")
           \/ seen[n] # n /\ addr = "raft" /\ Answer(w, "502")
           \/ /\ seen[n] # n /\ addr = "client" /\ work[w].hops < MaxHops
              /\ work' = [work EXCEPT ![w] = [at |-> "forwarded", node |-> seen[n], hops |-> @.hops + 1]]
              /\ UNCHANGED answer
        /\ UNCHANGED clusterVars

(* ... where handleClusterForward hands it to the same handlers.            *)
HandleClusterForward(w) ==
    /\ work[w].at = "forwarded"
    /\ work' = [work EXCEPT ![w].at = "handle"]
    /\ UNCHANGED <<clusterVars, answer>>

(* The command through raft: IsLeader again, then raft.Apply, whose error   *)
(* does not mean that the command is not committed.                         *)
ApplyIgnoringError(w) ==
    LET n == work[w].node
    IN  /\ work[w].at = "apply"
        /\ \/ Commit(n, [type |-> "write", of |-> w]) /\ Answer(w, "200")
           \/ UNCHANGED raftVars /\ Answer(w, "200")
        /\ UNCHANGED <<viewVars, announcing, join, replica, elections, restarts>>

ApplyWrite(w) ==
    LET n == work[w].node
        write == [type |-> "write", of |-> w]
    IN  /\ work[w].at = "apply"
        /\ \/ isLeader[n] /\ Commit(n, write) /\ Answer(w, "200")
           \/ isLeader[n] /\ Commit(n, write) /\ Answer(w, "500")
           \/ UNCHANGED raftVars /\ Answer(w, "500")
        /\ UNCHANGED <<viewVars, announcing, join, replica, elections, restarts>>

(* A hop waits 30 seconds at most, and a node that handles a forwarded      *)
(* write may die or lose the connection.                                    *)
TimeoutForward(w) ==
    /\ work[w].hops > 0 /\ answer[w] = "none"
    /\ answer' = [answer EXCEPT ![w] = "502"]
    /\ UNCHANGED <<clusterVars, work>>

LoseHop(w) ==
    /\ work[w].hops > 0 /\ work[w].at # "gone"
    /\ work' = [work EXCEPT ![w].at = "gone"]
    /\ UNCHANGED <<clusterVars, answer>>

ForwardNext ==
    \/ ClusterStep /\ UNCHANGED forwardVars
    \/ \E w \in Writes :
          \/ HandleWrite(w) \/ ForwardToLeader(w) \/ HandleClusterForward(w)
          \/ ApplyWrite(w)
          \/ TimeoutForward(w) \/ LoseHop(w)
          \/ \E n \in Node : IssueWrite(w, n)

(* All of it at once, with the replicators' lists and crashes: what a       *)
(* crashed node was doing may go on or not (LoseHop).                       *)
ForwardStep == ForwardNext \/ ((ReplicaStep \/ CrashStep) /\ UNCHANGED forwardVars)

ForwardSpec ==
    ClusterInit /\ ForwardInit /\ [][ForwardStep]_<<clusterVars, forwardVars>>

-----------------------------------------------------------------------------

EntriesOf(w) ==
    {i \in DOMAIN raftLog : raftLog[i].type = "write" /\ raftLog[i].of = w}

(* The answers are true whichever nodes a write went through: it is         *)
(* committed at most once, exactly once if the client was told 200, and not *)
(* at all, then and later, if it was refused with 403 or 503.  500 and 502  *)
(* say nothing (handleSet, forwardToLeader, handleClusterForward).          *)
ForwardedOnce ==
    \A w \in Writes :
        /\ \A i, j \in EntriesOf(w) : i = j
        /\ answer[w] = "200" => EntriesOf(w) # {}
        /\ answer[w] \in {"403", "503"} => EntriesOf(w) = {} /\ work[w].at = "gone"

(* The inductive invariant of ClusterProofs: besides ForwardedOnce, that *)
(* a write has no entry while some node still handles it.                   *)
Entry == [type : {"member", "metadata", "write"}, of : Node \cup Writes]

Handling == [at : {"new", "handle", "forward", "forwarded", "apply", "gone"},
             node : Node \cup {"none"}, hops : Nat]
Status == {"none", "200", "403", "500", "502", "503"}

ForwardTypeOK ==
    /\ raftLog \in Seq(Entry)
    /\ raftLeader \in Node \cup {"none"} /\ seen \in [Node -> Node \cup {"none"}]
    /\ work \in [Writes -> Handling] /\ answer \in [Writes -> Status]

WriteInv(w) ==
    /\ work[w].at # "gone" => EntriesOf(w) = {}
    /\ \A i, j \in EntriesOf(w) : i = j
    /\ answer[w] = "200" => EntriesOf(w) # {}
    /\ answer[w] \in {"403", "503"} => EntriesOf(w) = {} /\ work[w].at = "gone"
    /\ work[w].at \notin {"new", "gone"} => work[w].node \in Node

ForwardInv == ForwardTypeOK /\ \A w \in Writes : WriteInv(w)

=============================================================================
