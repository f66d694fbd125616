------------------------------ MODULE ClusterProofs ------------------------------
(***************************************************************************)
(* Proofs about what nodes and clients tell one another, for any value of   *)
(* the constants: forwarded writes, what the nodes know of one another, the *)
(* two-phase commit, and the transactions of the client library.            *)
(***************************************************************************)
EXTENDS Forwarding, Coordinator, TxnClient, TLAPS

\* Leaves that name no prover are for Zenon.
USE Zenon

-----------------------------------------------------------------------------
(* Forwarded writes *)

(* What committing an entry does to the entries of a write.                 *)
LEMMA AppendEntries ==
  ASSUME raftLog \in Seq(Entry), NEW e \in Entry, raftLog' = Append(raftLog, e)
  PROVE  /\ raftLog' \in Seq(Entry)
         /\ \A w \in Writes :
               /\ EntriesOf(w) \subseteq EntriesOf(w)'
               /\ ~(e.type = "write" /\ e.of = w) => EntriesOf(w)' = EntriesOf(w)
               /\ (e.type = "write" /\ e.of = w) =>
                     EntriesOf(w)' = EntriesOf(w) \cup {Len(raftLog) + 1}
<1>1. raftLog' \in Seq(Entry) /\ Len(raftLog) \in Nat
  BY SMT
<1>2. DOMAIN raftLog' = DOMAIN raftLog \cup {Len(raftLog) + 1}
  BY SMT
<1>3. /\ \A i \in DOMAIN raftLog : raftLog'[i] = raftLog[i]
      /\ raftLog'[Len(raftLog) + 1] = e
  BY SMT
<1> QED BY <1>1, <1>2, <1>3 DEF EntriesOf

(* The steps of the cluster commit members and metadata, no writes, and     *)
(* name only nodes.                                                         *)
LEMMA ClusterCommits ==
  ASSUME ForwardTypeOK, ClusterStep \/ ReplicaStep \/ CrashStep, UNCHANGED forwardVars
  PROVE  /\ raftLeader' \in Node \cup {"none"} /\ seen' \in [Node -> Node \cup {"none"}]
         /\ \/ raftLog' = raftLog
            \/ \E e \in Entry : e.type # "write" /\ raftLog' = Append(raftLog, e)
<1> DEFINE Named == raftLeader' \in Node \cup {"none"} /\ seen' \in [Node -> Node \cup {"none"}]
           Grows == \/ raftLog' = raftLog
                    \/ \E e \in Entry : e.type # "write" /\ raftLog' = Append(raftLog, e)
<1>1. ASSUME UNCHANGED <<raftLeader, raftLog, seen>> PROVE Named /\ Grows
  BY <1>1 DEF ForwardTypeOK
<1> USE <1>1
<1>2. ASSUME NEW n, NEW m \in Node, NEW t \in {"member", "metadata"},
             Commit(n, [type |-> t, of |-> m])
      PROVE  Named /\ Grows
  <2>1. [type |-> t, of |-> m] \in Entry /\ [type |-> t, of |-> m].type # "write"
    BY DEF Entry
  <2>2. UNCHANGED <<raftLeader, seen>> /\ raftLog' = Append(raftLog, [type |-> t, of |-> m])
    BY <1>2 DEF Commit
  <2> QED BY <2>1, <2>2 DEF ForwardTypeOK
<1>3. ASSUME NEW n \in Node, Elect(n) \/ LearnLeader(n) \/ RestartNode(n) PROVE Named /\ Grows
  BY SMT, <1>3 DEF Elect, LearnLeader, RestartNode, ForwardTypeOK
<1>4. ASSUME NEW n \in Node,
             \/ ApplyEntry(n) \/ MonitorLeadership(n) \/ HandleClusterNodeJoin(n)
             \/ SaveClientAddr(n) \/ \E m \in Node : JoinCluster(n, m)
      PROVE  Named /\ Grows
  BY <1>4 DEF ApplyEntry, MonitorLeadership, HandleClusterNodeJoin, SaveClientAddr,
                           JoinCluster, raftVars
<1>5. ASSUME NEW n \in Node, AnnounceSelf(n) \/ AddVoter(n) \/ AnnounceJoined(n)
      PROVE  Named /\ Grows
  BY <1>2, <1>5 DEF AnnounceSelf, AddVoter, AnnounceJoined, raftVars
<1>6. ASSUME NEW n \in Node, ClusterMonitor(n) PROVE Named /\ Grows
  BY <1>6 DEF ClusterMonitor, SetupClusterNodes, raftVars
<1> QED BY <1>3, <1>4, <1>5, <1>6 DEF ClusterStep, ReplicaStep, CrashStep

(* A step of the cluster leaves what is known of every write as it is.      *)
LEMMA ClusterKeepsInv ==
  ASSUME ForwardInv, ClusterStep \/ ReplicaStep \/ CrashStep, UNCHANGED forwardVars
  PROVE  ForwardInv'
<1>1. work' = work /\ answer' = answer
  BY DEF forwardVars
<1>2. ForwardTypeOK
  BY DEF ForwardInv
<1> USE <1>2
<1>3. /\ raftLeader' \in Node \cup {"none"} /\ seen' \in [Node -> Node \cup {"none"}]
      /\ \/ raftLog' = raftLog
         \/ \E e \in Entry : e.type # "write" /\ raftLog' = Append(raftLog, e)
  BY ClusterCommits
<1>4. raftLog' \in Seq(Entry) /\ \A w \in Writes : EntriesOf(w)' = EntriesOf(w)
  <2>1. CASE raftLog' = raftLog BY <2>1 DEF ForwardTypeOK, EntriesOf
  <2>2. CASE \E e \in Entry : e.type # "write" /\ raftLog' = Append(raftLog, e)
    BY <2>2, AppendEntries DEF ForwardTypeOK
  <2> QED BY <1>3, <2>1, <2>2
<1>5. ForwardTypeOK'
  BY <1>1, <1>3, <1>4 DEF ForwardTypeOK
<1> QED BY <1>1, <1>4, <1>5 DEF ForwardInv, WriteInv

(* The handling of one write moves on, and the log is left alone.           *)
LEMMA MoveKeepsInv ==
  ASSUME ForwardInv, NEW w \in Writes, NEW r \in Handling, NEW a \in Status,
         UNCHANGED <<raftLog, raftLeader, seen>>,
         work' = [work EXCEPT ![w] = r], answer' = [answer EXCEPT ![w] = a],
         work[w].at = "gone" => r.at = "gone",
         a # answer[w] => a # "200" /\ (a \in {"403", "503"} => work[w].at # "gone"),
         a \in {"403", "503"} => r.at = "gone",
         r.at \notin {"new", "gone"} => r.node \in Node
  PROVE  ForwardInv'
<1>1. ForwardTypeOK'
  BY DEF ForwardInv, ForwardTypeOK
<1>2. /\ work'[w] = r /\ answer'[w] = a
      /\ \A v \in Writes : v # w => work'[v] = work[v] /\ answer'[v] = answer[v]
      /\ \A v \in Writes : EntriesOf(v)' = EntriesOf(v)
  BY DEF ForwardInv, ForwardTypeOK, EntriesOf
<1>3. \A v \in Writes : v # w => WriteInv(v)'
  BY SMT, <1>2 DEF ForwardInv, WriteInv
<1>4. WriteInv(w)'
  BY <1>2 DEF ForwardInv, WriteInv
<1> QED BY <1>1, <1>3, <1>4 DEF ForwardInv

(* What Answer writes.                                                      *)
LEMMA AnswerMoves ==
  ASSUME ForwardTypeOK, NEW w \in Writes, NEW s \in Status, Answer(w, s)
  PROVE  \E r \in Handling, a \in Status :
            /\ work' = [work EXCEPT ![w] = r] /\ answer' = [answer EXCEPT ![w] = a]
            /\ r.at = "gone" /\ a \in {s, answer[w], "502"}
<1> DEFINE r == [work[w] EXCEPT !.at = "gone"]
           a == CASE answer[w] # "none" -> answer[w]
                  [] answer[w] = "none" /\ work[w].hops > 0 /\ s # "200" -> "502"
                  [] OTHER -> s
<1>1. work[w] \in Handling /\ answer[w] \in Status
  BY DEF ForwardTypeOK
<1>2. r \in Handling /\ r.at = "gone"
  BY <1>1 DEF Handling
<1>3. work' = [work EXCEPT ![w] = r] /\ answer' = [answer EXCEPT ![w] = a]
  BY DEF Answer, ForwardTypeOK
<1>4. a \in Status /\ a \in {s, answer[w], "502"}
  BY <1>1 DEF Status
<1> HIDE DEF r, a
<1> QED BY <1>2, <1>3, <1>4

(* ApplyWrite commits the write it handles, once, when its handling ends.   *)
LEMMA ApplyKeepsInv ==
  ASSUME ForwardInv, NEW w \in Writes, ApplyWrite(w)
  PROVE  ForwardInv'
<1>1. work[w].at = "apply" /\ EntriesOf(w) = {} /\ ForwardTypeOK
  BY DEF ApplyWrite, ForwardInv, WriteInv
<1> USE <1>1
<1>2. ASSUME UNCHANGED raftVars, Answer(w, "500") PROVE ForwardInv'
  <2>0. "500" \in Status BY DEF Status
  <2>1. PICK r \in Handling, a \in Status :
            /\ work' = [work EXCEPT ![w] = r] /\ answer' = [answer EXCEPT ![w] = a]
            /\ r.at = "gone" /\ a \in {"500", answer[w], "502"}
    BY <1>2, <2>0, AnswerMoves
  <2> QED BY <1>2, <2>1, MoveKeepsInv DEF raftVars
<1>3. ASSUME NEW s \in {"200", "500"}, Answer(w, s),
             Commit(work[w].node, [type |-> "write", of |-> w])
      PROVE  ForwardInv'
  <2> DEFINE e == [type |-> "write", of |-> w]
  <2>1. e \in Entry /\ e.type = "write" /\ e.of = w BY DEF Entry
  <2>2. raftLog' = Append(raftLog, e) /\ UNCHANGED <<raftLeader, seen>>
    BY <1>3 DEF Commit
  <2>3. /\ raftLog' \in Seq(Entry)
        /\ EntriesOf(w)' = {Len(raftLog) + 1}
        /\ \A v \in Writes : v # w => EntriesOf(v)' = EntriesOf(v)
    <3> HIDE DEF e
    <3>1. raftLog \in Seq(Entry) BY DEF ForwardTypeOK
    <3> QED BY <2>1, <2>2, <3>1, AppendEntries
  <2> USE <2>3
  <2>4. PICK r \in Handling, a \in Status :
            /\ work' = [work EXCEPT ![w] = r] /\ answer' = [answer EXCEPT ![w] = a]
            /\ r.at = "gone" /\ a \in {s, answer[w], "502"}
    <3>1. s \in Status BY DEF Status
    <3> QED BY <1>3, <3>1, AnswerMoves
  <2> USE <2>4
  <2>5. ForwardTypeOK'
    BY <2>2 DEF ForwardTypeOK
  <2>6. /\ work'[w].at = "gone" /\ answer'[w] = a
        /\ \A v \in Writes : v # w => work'[v] = work[v] /\ answer'[v] = answer[v]
    BY DEF ForwardTypeOK
  <2>7. a \notin {"403", "503"}
    BY DEF ForwardInv, WriteInv
  <2>8. \A v \in Writes : v # w => WriteInv(v)'
    BY SMT, <2>6 DEF ForwardInv, WriteInv
  <2>9. WriteInv(w)'
    BY <2>6, <2>7 DEF WriteInv
  <2> QED BY <2>5, <2>8, <2>9 DEF ForwardInv
<1> QED BY <1>2, <1>3 DEF ApplyWrite

(* The other steps of a write commit nothing.                               *)
LEMMA WriteKeepsInv ==
  ASSUME ForwardInv, NEW w \in Writes,
         \/ HandleWrite(w) \/ ForwardToLeader(w) \/ HandleClusterForward(w)
         \/ TimeoutForward(w) \/ LoseHop(w) \/ \E n \in Node : IssueWrite(w, n)
  PROVE  ForwardInv'
<1>0. /\ ForwardTypeOK /\ WriteInv(w) /\ work[w] \in Handling /\ answer[w] \in Status
      /\ answer = [answer EXCEPT ![w] = answer[w]] /\ work = [work EXCEPT ![w] = work[w]]
  BY DEF ForwardInv, ForwardTypeOK
<1>1. UNCHANGED <<raftLog, raftLeader, seen>>
  BY DEF HandleWrite, ForwardToLeader, HandleClusterForward, TimeoutForward, LoseHop,
            IssueWrite, clusterVars
<1>2. ASSUME NEW s \in {"403", "500", "502", "503"}, Answer(w, s), work[w].at # "gone"
      PROVE  ForwardInv'
  <2>0. s \in Status BY DEF Status
  <2>1. PICK r \in Handling, a \in Status :
            /\ work' = [work EXCEPT ![w] = r] /\ answer' = [answer EXCEPT ![w] = a]
            /\ r.at = "gone" /\ a \in {s, answer[w], "502"}
    BY <1>0, <1>2, <2>0, AnswerMoves
  <2> QED BY <1>1, <1>2, <2>1, MoveKeepsInv
<1>3. ASSUME NEW at \in {"handle", "forward", "forwarded", "apply", "gone"}, NEW n \in Node \cup {"none"},
             NEW h \in Nat, UNCHANGED answer,
             work' = [work EXCEPT ![w] = [at |-> at, node |-> n, hops |-> h]],
             at # "gone" => work[w].at # "gone" /\ n \in Node
      PROVE  ForwardInv'
  <2> USE <1>3
  <2>1. [at |-> at, node |-> n, hops |-> h] \in Handling BY DEF Handling
  <2>2. answer' = [answer EXCEPT ![w] = answer[w]] BY <1>0
  <2>3. answer[w] \in {"403", "503"} => at = "gone" BY <1>0 DEF WriteInv
  <2> QED BY <1>0, <1>1, <2>1, <2>2, <2>3, MoveKeepsInv
<1> USE <1>3
<1>4. ASSUME NEW at \in {"handle", "forward", "forwarded", "apply", "gone"}, UNCHANGED answer,
             work' = [work EXCEPT ![w].at = at],
             at # "gone" => work[w].at \notin {"new", "gone"}
      PROVE  ForwardInv'
  <2> USE <1>4
  <2>1. work' = [work EXCEPT ![w] = [at |-> at, node |-> work[w].node, hops |-> work[w].hops]]
    <3>1. [work[w] EXCEPT !.at = at] = [at |-> at, node |-> work[w].node, hops |-> work[w].hops]
      BY SMT, <1>0 DEF Handling
    <3>2. work' = [work EXCEPT ![w] = [work[w] EXCEPT !.at = at]]
      BY <1>0 DEF ForwardTypeOK
    <3> QED BY <3>1, <3>2
  <2>2. work[w].node \in Node \cup {"none"} /\ work[w].hops \in Nat BY <1>0 DEF Handling
  <2>3. at # "gone" => work[w].node \in Node BY <1>0 DEF WriteInv
  <2> QED BY <2>1, <2>2, <2>3
<1> USE <1>4
<1>5. CASE HandleWrite(w)
  BY <1>2, <1>5 DEF HandleWrite
<1>6. CASE ForwardToLeader(w)
  <2>1. work[w].at = "forward" /\ work[w].node \in Node
    BY <1>0, <1>6 DEF ForwardToLeader, WriteInv
  <2> USE <2>1
  <2>2. ASSUME seen[work[w].node] \in Node, UNCHANGED answer,
               work' = [work EXCEPT ![w] = [at |-> "forwarded", node |-> seen[work[w].node],
                                            hops |-> work[w].hops + 1]]
        PROVE  ForwardInv'
    <3>1. work[w].hops + 1 \in Nat BY SMT, <1>0 DEF Handling
    <3> QED BY <2>2, <3>1
  <2>3. seen[work[w].node] \in Node \cup {"none"} BY <1>0 DEF ForwardTypeOK
  <2> QED BY <1>2, <1>6, <2>2, <2>3 DEF ForwardToLeader
<1>7. CASE HandleClusterForward(w) BY <1>7 DEF HandleClusterForward
<1>8. CASE LoseHop(w) BY <1>8 DEF LoseHop
<1>9. CASE TimeoutForward(w)
  <2>1. "502" \in Status BY DEF Status
  <2>2. work' = [work EXCEPT ![w] = work[w]] /\ answer' = [answer EXCEPT ![w] = "502"]
    BY <1>0, <1>9 DEF TimeoutForward
  <2> QED BY <1>0, <1>1, <2>1, <2>2, MoveKeepsInv DEF WriteInv
<1>10. ASSUME NEW n \in Node, IssueWrite(w, n) PROVE ForwardInv'
  BY <1>10 DEF IssueWrite
<1> QED BY <1>5, <1>6, <1>7, <1>8, <1>9, <1>10

(* ForwardInv holds at the start: the log is the bootstrap's.               *)
LEMMA ForwardInvInit == ClusterInit /\ ForwardInit => ForwardInv
<1> SUFFICES ASSUME ClusterInit, ForwardInit PROVE ForwardInv
  BY SMT
<1>1. [type |-> "member", of |-> Boot] \in Entry
  BY ClusterAssumption DEF Entry
<1>2. raftLog \in Seq(Entry) /\ \A w \in Writes : EntriesOf(w) = {}
  BY SMT, <1>1 DEF ClusterInit, EntriesOf
<1>3. ForwardTypeOK
  BY <1>2 DEF ClusterInit, ForwardInit, ForwardTypeOK, Handling, Status
<1> QED BY <1>2, <1>3 DEF ForwardInit, ForwardInv, WriteInv

(* Every step of the nodes, of the log and of a write keeps the hops of a   *)
(* write in order.                                                          *)
LEMMA ForwardInvNext ==
  ForwardInv /\ [ForwardStep]_<<clusterVars, forwardVars>> => ForwardInv'
<1> SUFFICES ASSUME ForwardInv, [ForwardStep]_<<clusterVars, forwardVars>> PROVE ForwardInv'
  BY SMT
<1>1. CASE (ClusterStep \/ ReplicaStep \/ CrashStep) /\ UNCHANGED forwardVars
  BY <1>1, ClusterKeepsInv
<1>2. CASE \E w \in Writes :
              \/ HandleWrite(w) \/ ForwardToLeader(w) \/ HandleClusterForward(w) \/ ApplyWrite(w)
              \/ TimeoutForward(w) \/ LoseHop(w) \/ \E n \in Node : IssueWrite(w, n)
  BY <1>2, ApplyKeepsInv, WriteKeepsInv
<1>3. CASE UNCHANGED <<clusterVars, forwardVars>>
  BY SMT, <1>3 DEF clusterVars, forwardVars, ForwardInv, ForwardTypeOK, WriteInv, EntriesOf
<1> QED BY <1>1, <1>2, <1>3 DEF ForwardStep, ForwardNext

-----------------------------------------------------------------------------

(* For any nodes and writes, any number of hops, elections and crashes: a   *)
(* forwarded write is committed at most once, is committed if its client    *)
(* was told 200, and never if it was told 403 or 503 (forwardToLeader,      *)
(* handleClusterForward, handleSet).                                        *)
THEOREM ForwardsOnce == ForwardSpec => []ForwardedOnce
<1>1. ForwardInv => ForwardedOnce
  BY DEF ForwardInv, WriteInv, ForwardedOnce
<1> QED BY ForwardInvInit, ForwardInvNext, <1>1, PTL DEF ForwardSpec

-----------------------------------------------------------------------------
(* What the nodes know of one another *)

Names == Node \cup Writes
Joins == [at : {"idle", "asked", "add", "save", "announce", "done", "failed"},
          via : Node \cup {"none"}]

ViewTypeOK ==
    /\ raftLog \in Seq(Entry) /\ raftLeader \in Node \cup {"none"}
    /\ have \in [Node -> Nat] /\ applied \in [Node -> Nat] /\ snapshot \in [Node -> Nat]
    /\ clientAddrs \in [Node -> SUBSET Names] /\ peers \in [Node -> SUBSET Names]
    /\ peerAddrs \in [Node -> SUBSET Names] /\ isLeader \in [Node -> BOOLEAN]
    /\ join \in [Node -> Joins]
    /\ replica \in [Node -> [nodes : SUBSET Names, flagged : BOOLEAN]]

(* A node's own counts stay within the log, and its view is what it says.   *)
NodeView(n) ==
    /\ have[n] <= Len(raftLog) /\ applied[n] <= Len(raftLog) /\ snapshot[n] <= applied[n]
    /\ peers[n] \subseteq Members /\ replica[n].nodes \subseteq Members
    /\ peerAddrs[n] = peers[n] \cap clientAddrs[n]
    /\ \A i \in (snapshot[n] + 1)..applied[n] :
          raftLog[i].type = "metadata" => raftLog[i].of \in clientAddrs[n]

ViewInv ==
    /\ ViewTypeOK
    /\ \A n \in Node : NodeView(n) /\ (join[n].at = "save" => n \in Members)

(* The committed log only grows, and with it the members.                   *)
LogGrown ==
    /\ raftLog' \in Seq(Entry) /\ Len(raftLog) \in Nat /\ Len(raftLog') \in Nat
    /\ Len(raftLog) <= Len(raftLog') /\ Members \subseteq Members'
    /\ \A i \in 1..Len(raftLog) : raftLog'[i] = raftLog[i]

(* A step that appends nothing changes no entry of the log.                 *)
LEMMA LogStays ==
    ASSUME ViewTypeOK, raftLog' = raftLog
    PROVE  LogGrown
<1>1. Len(raftLog) \in Nat
    BY SMT DEF ViewTypeOK
<1> QED
    BY SMT, <1>1 DEF LogGrown, ViewTypeOK, Members, MembersIn

(* A longer prefix of the log names no fewer nodes.                         *)
LEMMA MembersGrow ==
    ASSUME NEW k \in Int, NEW l \in Int, k <= l
    PROVE  MembersIn(k) \subseteq MembersIn(l)
<1>1. \A j \in 1..k : j \in 1..l
    BY SMT
<1> QED
    BY <1>1 DEF MembersIn

(* The log announces only nodes that have a name.                           *)
LEMMA MembersNamed ==
    ASSUME ViewTypeOK
    PROVE  Members \subseteq Names
<1> SUFFICES ASSUME NEW i \in 1..Len(raftLog)
             PROVE  raftLog[i].of \in Names
    BY DEF Members, MembersIn
<1>1. raftLog[i] \in Entry
    BY SMT DEF ViewTypeOK
<1> QED
    BY <1>1 DEF Entry, Names

(* ApplyCommand appends after what was agreed, and announces the node of its*)
(* entry.                                                                   *)
LEMMA LogAppended ==
    ASSUME ViewTypeOK, NEW e \in Entry, raftLog' = Append(raftLog, e)
    PROVE  LogGrown /\ Len(raftLog') = Len(raftLog) + 1 /\ (e.type = "member" => e.of \in Members')
<1>1. PICK k : k = Len(raftLog)
    BY SMT
<1> USE <1>1
<1>2. /\ k \in Nat /\ raftLog' \in Seq(Entry) /\ Len(raftLog') = k + 1
      /\ raftLog'[k + 1] = e /\ \A i \in 1..k : raftLog'[i] = raftLog[i]
    BY SMT DEF ViewTypeOK
<1> USE <1>2
<1>3. \A i \in 1..k : i \in 1..(k + 1)
    BY SMT
<1>4. k + 1 \in 1..(k + 1) /\ k + 1 \in Nat /\ k <= k + 1
    BY SMT
<1>5. Members \subseteq Members'
    BY <1>3 DEF Members, MembersIn
<1>6. e.type = "member" => e.of \in Members'
    BY <1>4 DEF Members, MembersIn
<1> QED
    BY <1>4, <1>5, <1>6 DEF LogGrown

(* A node that a step leaves alone keeps its view, whatever the log gains.  *)
LEMMA ViewKept ==
    ASSUME ViewTypeOK, LogGrown, NEW n \in Node, NodeView(n),
           have'[n] \in Nat, have'[n] <= Len(raftLog'),
           applied'[n] = applied[n], snapshot'[n] = snapshot[n],
           clientAddrs'[n] = clientAddrs[n], peers'[n] = peers[n],
           peerAddrs'[n] = peerAddrs[n], replica'[n].nodes \subseteq Members'
    PROVE  NodeView(n)'
<1>1. applied[n] \in Nat /\ snapshot[n] \in Nat
    BY DEF ViewTypeOK
<1>2. applied[n] <= Len(raftLog')
    BY SMT, <1>1 DEF NodeView, LogGrown
<1>3. ASSUME NEW i \in (snapshot[n] + 1)..applied[n]
      PROVE  raftLog'[i] = raftLog[i]
    BY SMT, <1>1 DEF NodeView, LogGrown
<1>4. peers'[n] \subseteq Members'
    BY DEF NodeView, LogGrown
<1> QED
    BY <1>2, <1>3, <1>4 DEF NodeView

(* AddVoter's and Apply's commits: the leader's copy grows with the log.    *)
LEMMA CommitKeepsViews ==
    ASSUME ViewInv, NEW n, NEW e \in Entry, Commit(n, e), UNCHANGED <<viewVars, replica>>,
           join' \in [Node -> Joins], \A m \in Node : join'[m].at = "save" => m \in Members'
    PROVE  ViewInv'
<1>1. ViewTypeOK
    BY DEF ViewInv
<1> USE <1>1
<1>2. /\ raftLog' = Append(raftLog, e) /\ have' = [have EXCEPT ![n] = have[n] + 1]
      /\ UNCHANGED <<raftLeader, applied, snapshot, isLeader, clientAddrs, peers, peerAddrs, replica>>
    BY DEF Commit, viewVars
<1> USE <1>2
<1>3. LogGrown /\ Len(raftLog') = Len(raftLog) + 1
    BY LogAppended
<1> USE <1>3
<1>4. /\ have' \in [Node -> Nat]
      /\ \A m \in Node : have'[m] <= Len(raftLog')
    <2>1. /\ have \in [Node -> Nat] /\ Len(raftLog) \in Nat
          /\ \A m \in Node : have[m] <= Len(raftLog)
        BY DEF ViewInv, ViewTypeOK, NodeView, LogGrown
    <2>2. PICK k, l : k = Len(raftLog) /\ l = Len(raftLog')
        OBVIOUS
    <2>3. k \in Nat /\ l = k + 1 /\ \A m \in Node : have[m] \in Nat /\ have[m] <= k
        BY <2>1, <2>2
    <2>4. have' = [have EXCEPT ![n] = have[n] + 1] /\ DOMAIN have = Node
        BY <2>1
    <2>5. DOMAIN have' = Node /\ have' = [m \in Node |-> have'[m]]
        BY <2>4
    <2>6. \A m \in Node : have'[m] = have[m] \/ have'[m] = have[m] + 1
        BY <2>4
    <2>7. \A m \in Node : have'[m] \in Nat /\ have'[m] <= l
        BY SMT, <2>3, <2>6
    <2> QED
        BY <2>2, <2>5, <2>7
<1>5. ViewTypeOK'
    BY <1>4 DEF ViewTypeOK, LogGrown
<1>6. ASSUME NEW m \in Node
      PROVE  NodeView(m)'
    <2>1. replica'[m].nodes \subseteq Members'
        BY DEF ViewInv, NodeView, LogGrown
    <2> QED
        BY <2>1, <1>4, ViewKept DEF ViewInv
<1> QED
    BY <1>5, <1>6 DEF ViewInv

(* A step of one node that commits nothing.                                 *)
Alone(m) ==
    /\ have'[m] = have[m] /\ applied'[m] = applied[m] /\ snapshot'[m] = snapshot[m]
    /\ clientAddrs'[m] = clientAddrs[m] /\ peers'[m] = peers[m]
    /\ peerAddrs'[m] = peerAddrs[m] /\ replica'[m] = replica[m]

(* A step that changes what one node has, and leaves the others alone.      *)
LEMMA OneNodeMoves ==
    ASSUME ViewInv, ViewTypeOK', raftLog' = raftLog, NEW n \in Node, NodeView(n)' \/ Alone(n),
           \A m \in Node : m # n => Alone(m),
           \A m \in Node : join'[m].at = "save" => join[m].at = "save"
    PROVE  ViewInv'
<1>1. ViewTypeOK /\ LogGrown
    BY LogStays DEF ViewInv
<1> USE <1>1
<1>2. ASSUME NEW m \in Node, Alone(m)
      PROVE  NodeView(m)'
    <2>1. /\ have'[m] \in Nat /\ have'[m] <= Len(raftLog') /\ replica'[m].nodes \subseteq Members'
        BY <1>2 DEF Alone, ViewInv, NodeView, ViewTypeOK, LogGrown
    <2> QED
        BY <2>1, <1>2, ViewKept DEF ViewInv, Alone
<1>3. \A m \in Node : join'[m].at = "save" => m \in Members'
    BY DEF ViewInv, LogGrown
<1> QED
    BY <1>2, <1>3 DEF ViewInv

(* The joins' steps that commit nothing and write no view, and raft's own.  *)
LEMMA QuietKeepsViews ==
    ASSUME ViewInv, UNCHANGED <<raftLog, have, applied, snapshot, viewVars, replica>>,
           raftLeader' \in Node \cup {"none"}, join' \in [Node -> Joins],
           \A m \in Node : join'[m].at = "save" => join[m].at = "save"
    PROVE  ViewInv'
<1>1. UNCHANGED <<isLeader, clientAddrs, peers, peerAddrs>>
    BY DEF viewVars
<1>2. ViewTypeOK'
    BY <1>1 DEF ViewInv, ViewTypeOK
<1>3. \A m \in Node : Alone(m)
    BY <1>1 DEF Alone
<1> QED
    BY <1>2, <1>3, ClusterAssumption, OneNodeMoves

(* FSM.Apply: the address of a metadata entry reaches clientAddrs and the   *)
(* peer together.                                                           *)
LEMMA ApplyKeepsViews ==
    ASSUME ViewInv, NEW n \in Node, ApplyEntry(n)
    PROVE  ViewInv'
<1>1. ViewTypeOK /\ NodeView(n)
    BY DEF ViewInv
<1> USE <1>1
<1>2. UNCHANGED <<raftLeader, raftLog, snapshot, isLeader, peers, join, replica>>
    BY DEF ApplyEntry
<1> USE <1>2
<1>3. PICK a, e, new : /\ a = applied[n] + 1 /\ e = raftLog[a]
                       /\ new = IF e.type = "metadata" THEN {e.of} ELSE {}
    OBVIOUS
<1> USE <1>3
<1>4. /\ applied[n] \in Nat /\ have[n] \in Nat /\ snapshot[n] \in Nat /\ Len(raftLog) \in Nat
      /\ applied[n] < Len(raftLog) /\ have[n] <= Len(raftLog) /\ snapshot[n] <= applied[n]
    <2>1. Len(raftLog) \in Nat
        BY SMT DEF ViewTypeOK
    <2> QED
        BY <2>1 DEF ViewTypeOK, NodeView, ApplyEntry
<1> USE <1>4
<1>5. a \in 1..Len(raftLog) /\ a \in Nat /\ snapshot[n] <= a
    BY SMT
<1> USE <1>5
<1>6. e \in Entry
    BY SMT DEF ViewTypeOK
<1>7. new \subseteq Names /\ (e.type = "metadata" => e.of \in new)
    BY <1>6 DEF Entry, Names
<1>8. /\ applied' = [applied EXCEPT ![n] = a]
      /\ clientAddrs' = [clientAddrs EXCEPT ![n] = clientAddrs[n] \cup new]
      /\ peerAddrs' = [peerAddrs EXCEPT ![n] = peerAddrs[n] \cup (new \cap peers[n])]
    BY DEF ApplyEntry
<1>9. PICK h \in {a, have[n]} : have' = [have EXCEPT ![n] = h]
    <2>1. applied'[n] = a
        BY <1>8 DEF ViewTypeOK
    <2> QED
        BY <2>1 DEF ApplyEntry
<1>10. h \in Nat /\ h <= Len(raftLog)
    BY SMT, <1>9
<1>11. /\ applied' \in [Node -> Nat] /\ have' \in [Node -> Nat]
       /\ clientAddrs' \in [Node -> SUBSET Names] /\ peerAddrs' \in [Node -> SUBSET Names]
       /\ applied'[n] = a /\ have'[n] = h /\ clientAddrs'[n] = clientAddrs[n] \cup new
       /\ peerAddrs'[n] = peerAddrs[n] \cup (new \cap peers[n])
       /\ \A m \in Node : m # n => /\ applied'[m] = applied[m] /\ have'[m] = have[m]
                                   /\ clientAddrs'[m] = clientAddrs[m]
                                   /\ peerAddrs'[m] = peerAddrs[m]
    BY SMT, <1>7, <1>8, <1>9, <1>10 DEF ViewTypeOK
<1> USE <1>11
<1>12. ViewTypeOK'
    BY DEF ViewTypeOK
<1>13. \A m \in Node : m # n => Alone(m)
    BY DEF Alone
<1>14. NodeView(n)'
    <2>1. Members' = Members
        BY DEF Members, MembersIn
    <2>2. peerAddrs'[n] = peers[n] \cap clientAddrs'[n]
        BY DEF NodeView
    <2>3. ASSUME NEW i \in (snapshot[n] + 1)..a, raftLog[i].type = "metadata"
          PROVE  raftLog[i].of \in clientAddrs'[n]
        <3>1. i = a \/ i \in (snapshot[n] + 1)..applied[n]
            BY SMT
        <3> QED
            BY <3>1, <2>3, <1>7 DEF NodeView
    <2>4. a <= Len(raftLog)
        BY SMT
    <2> QED
        BY <2>1, <2>2, <2>3, <2>4, <1>10 DEF NodeView
<1> QED
    BY <1>12, <1>13, <1>14, OneNodeMoves

(* updatePeerInfo: peers are the members of a configuration the node has,   *)
(* and their addresses those it knows.                                      *)
LEMMA MonitorKeepsViews ==
    ASSUME ViewInv, NEW n \in Node, MonitorLeadership(n)
    PROVE  ViewInv'
<1>1. ViewTypeOK /\ NodeView(n)
    BY DEF ViewInv
<1> USE <1>1
<1>2. UNCHANGED <<raftLeader, raftLog, have, applied, snapshot, clientAddrs, join, replica>>
    BY DEF MonitorLeadership, raftVars
<1> USE <1>2
<1>3. PICK k \in (have[n] - 1)..have[n] :
         /\ peers' = [peers EXCEPT ![n] = MembersIn(k)]
         /\ peerAddrs' = [peerAddrs EXCEPT ![n] = MembersIn(k) \cap clientAddrs[n]]
    BY DEF MonitorLeadership, UpdatePeerInfo
<1>4. k \in Int /\ k <= Len(raftLog) /\ Len(raftLog) \in Nat
    BY SMT DEF ViewTypeOK, NodeView
<1>5. MembersIn(k) \subseteq Members
    BY SMT, <1>4, MembersGrow DEF Members
<1>6. MembersIn(k) \subseteq Names
    BY <1>5, MembersNamed
<1>7. isLeader' \in [Node -> BOOLEAN]
    BY DEF MonitorLeadership, ViewTypeOK
<1>8. PICK M : M = MembersIn(k)
    BY SMT
<1>9. /\ peers' \in [Node -> SUBSET Names] /\ peerAddrs' \in [Node -> SUBSET Names]
      /\ peers'[n] = M /\ peerAddrs'[n] = M \cap clientAddrs[n]
      /\ \A m \in Node : m # n => peers'[m] = peers[m] /\ peerAddrs'[m] = peerAddrs[m]
    BY <1>3, <1>6, <1>8 DEF ViewTypeOK
<1> USE <1>9
<1>10. ViewTypeOK'
    BY <1>7 DEF ViewTypeOK
<1>11. \A m \in Node : m # n => Alone(m)
    BY DEF Alone
<1>12. Members' = Members
    BY DEF Members, MembersIn
<1>13. NodeView(n)'
    BY <1>5, <1>8, <1>12 DEF NodeView
<1> QED
    BY <1>10, <1>11, <1>13, OneNodeMoves

(* The join at the node that serves it: the new member and its address.     *)
LEMMA SaveKeepsViews ==
    ASSUME ViewInv, NEW m \in Node, SaveClientAddr(m)
    PROVE  ViewInv'
<1>1. ViewTypeOK /\ m \in Members /\ join[m] \in Joins
    BY DEF ViewInv, SaveClientAddr, ViewTypeOK
<1> USE <1>1
<1>2. PICK n : n = join[m].via
    BY SMT
<1>3. /\ clientAddrs' = [clientAddrs EXCEPT ![n] = clientAddrs[n] \cup {m}]
      /\ peers' = [peers EXCEPT ![n] = peers[n] \cup {m}]
      /\ peerAddrs' = [peerAddrs EXCEPT ![n] = peerAddrs[n] \cup {m}]
      /\ UNCHANGED <<raftLeader, raftLog, have, applied, snapshot, isLeader, replica>>
    BY <1>2 DEF SaveClientAddr, raftVars
<1> USE <1>3
<1>4. join' \in [Node -> Joins] /\ \A q \in Node : join'[q].at = "save" => join[q].at = "save"
    <2>1. PICK j : j = [join[m] EXCEPT !.at = "announce"]
        OBVIOUS
    <2>2. j \in Joins /\ j.at # "save"
        BY <2>1 DEF Joins
    <2>3. join' = [join EXCEPT ![m] = j]
        BY <2>1 DEF SaveClientAddr, JoinGoes
    <2> QED
        BY <2>2, <2>3 DEF ViewTypeOK
<1> USE <1>4
<1>5. Members' = Members
    BY DEF Members, MembersIn
<1>6. CASE n \notin Node
    <2>1. UNCHANGED <<clientAddrs, peers, peerAddrs>>
        BY SMT, <1>6 DEF ViewTypeOK
    <2>2. ViewTypeOK' /\ \A q \in Node : Alone(q)
        BY <2>1 DEF ViewTypeOK, Alone
    <2> QED
        BY <2>2, OneNodeMoves
<1>7. CASE n \in Node
    <2> USE <1>7
    <2>1. m \in Names
        BY DEF Names
    <2>2. /\ clientAddrs' \in [Node -> SUBSET Names] /\ peers' \in [Node -> SUBSET Names]
          /\ peerAddrs' \in [Node -> SUBSET Names]
          /\ clientAddrs'[n] = clientAddrs[n] \cup {m} /\ peers'[n] = peers[n] \cup {m}
          /\ peerAddrs'[n] = peerAddrs[n] \cup {m}
          /\ \A q \in Node : q # n => /\ clientAddrs'[q] = clientAddrs[q] /\ peers'[q] = peers[q]
                                      /\ peerAddrs'[q] = peerAddrs[q]
        BY <2>1 DEF ViewTypeOK
    <2> USE <2>2
    <2>3. ViewTypeOK' /\ \A q \in Node : q # n => Alone(q)
        BY DEF ViewTypeOK, Alone
    <2>4. NodeView(n)'
        <3>1. NodeView(n)
            BY DEF ViewInv
        <3> USE <3>1
        <3>2. peerAddrs'[n] = peers'[n] \cap clientAddrs'[n]
            BY DEF NodeView
        <3>3. peers'[n] \subseteq Members /\ clientAddrs[n] \subseteq clientAddrs'[n]
            BY DEF NodeView
        <3> QED
            BY <3>2, <3>3, <1>5 DEF NodeView
    <2> QED
        BY <2>3, <2>4, OneNodeMoves
<1> QED
    BY <1>6, <1>7

(* The replicator's list is a copy of the peers.                            *)
LEMMA ReplicaKeepsViews ==
    ASSUME ViewInv, NEW n \in Node, ClusterMonitor(n)
    PROVE  ViewInv'
<1>1. ViewTypeOK /\ NodeView(n)
    BY DEF ViewInv
<1> USE <1>1
<1>2. UNCHANGED <<raftLeader, raftLog, have, applied, snapshot, isLeader, clientAddrs, peers,
                  peerAddrs, join>>
    BY DEF ClusterMonitor, SetupClusterNodes, raftVars, viewVars
<1> USE <1>2
<1>3. PICK r : r = [nodes |-> peers[n], flagged |-> isLeader[n] /\ n \in peers[n]]
    OBVIOUS
<1>4. r \in [nodes : SUBSET Names, flagged : BOOLEAN] /\ r.nodes = peers[n]
    <2>1. peers[n] \in SUBSET Names /\ (isLeader[n] /\ n \in peers[n]) \in BOOLEAN
        BY DEF ViewTypeOK
    <2> QED
        BY <2>1, <1>3
<1>5. replica' = [replica EXCEPT ![n] = r]
    BY <1>3 DEF ClusterMonitor, SetupClusterNodes
<1>6. /\ replica' \in [Node -> [nodes : SUBSET Names, flagged : BOOLEAN]] /\ replica'[n] = r
      /\ \A m \in Node : m # n => replica'[m] = replica[m]
    BY <1>4, <1>5 DEF ViewTypeOK
<1>7. ViewTypeOK' /\ \A m \in Node : m # n => Alone(m)
    BY <1>6 DEF ViewTypeOK, Alone
<1>8. NodeView(n)'
    <2>1. Members' = Members
        BY DEF Members, MembersIn
    <2> QED
        BY <2>1, <1>4, <1>6 DEF NodeView
<1> QED
    BY <1>7, <1>8, OneNodeMoves

(* A restart: the node knows its own address alone, and has applied nothing *)
(* that its snapshot does not hold.                                         *)
LEMMA RestartKeepsViews ==
    ASSUME ViewInv, NEW n \in Node, RestartNode(n)
    PROVE  ViewInv'
<1>1. ViewTypeOK /\ NodeView(n)
    BY DEF ViewInv
<1> USE <1>1
<1>2. /\ UNCHANGED <<raftLog, have>> /\ raftLeader' \in Node \cup {"none"}
      /\ isLeader' = [isLeader EXCEPT ![n] = FALSE]
      /\ clientAddrs' = [clientAddrs EXCEPT ![n] = {n}]
      /\ peers' = [peers EXCEPT ![n] = {}] /\ peerAddrs' = [peerAddrs EXCEPT ![n] = {}]
      /\ replica' = [replica EXCEPT ![n] = NoReplica]
    BY DEF RestartNode, ViewTypeOK
<1>3. PICK k \in snapshot[n]..applied[n] :
         snapshot' = [snapshot EXCEPT ![n] = k] /\ applied' = [applied EXCEPT ![n] = k]
    BY DEF RestartNode
<1>4. k \in Nat /\ k <= Len(raftLog)
    BY SMT DEF ViewTypeOK, NodeView
<1>5. NoReplica \in [nodes : SUBSET Names, flagged : BOOLEAN] /\ NoReplica.nodes = {}
    BY DEF NoReplica
<1>6. n \in Names
    BY DEF Names
<1>7. /\ isLeader' \in [Node -> BOOLEAN] /\ clientAddrs' \in [Node -> SUBSET Names]
      /\ peers' \in [Node -> SUBSET Names] /\ peerAddrs' \in [Node -> SUBSET Names]
      /\ snapshot' \in [Node -> Nat] /\ applied' \in [Node -> Nat]
    BY <1>2, <1>3, <1>4, <1>6 DEF ViewTypeOK
<1>8. /\ replica' \in [Node -> [nodes : SUBSET Names, flagged : BOOLEAN]]
      /\ replica'[n] = NoReplica /\ \A m \in Node : m # n => replica'[m] = replica[m]
    BY <1>2, <1>5 DEF ViewTypeOK
<1>9. join' \in [Node -> Joins] /\ \A m \in Node : join'[m].at = "save" => join[m].at = "save"
    <2>1. NotJoining \in Joins /\ NotJoining.at # "save"
        BY DEF NotJoining, Joins
    <2>2. \A m \in Node : /\ [join[m] EXCEPT !.at = "failed"] \in Joins
                          /\ [join[m] EXCEPT !.at = "failed"].at # "save"
        BY ZenonT(30) DEF ViewTypeOK, Joins
    <2>3. join' = [m \in Node |-> IF m = n THEN NotJoining
                                  ELSE IF join[m].via = n THEN [join[m] EXCEPT !.at = "failed"]
                                  ELSE join[m]]
        BY DEF RestartNode
    <2>4. \A m \in Node : join'[m] \in Joins /\ (join'[m].at = "save" => join[m].at = "save")
        BY <2>1, <2>2, <2>3 DEF ViewTypeOK
    <2> QED
        BY <2>3, <2>4
<1>10. ViewTypeOK'
    BY <1>2, <1>7, <1>8, <1>9 DEF ViewTypeOK
<1>11. \A m \in Node : m # n => Alone(m)
    BY SMT, <1>2, <1>3, <1>8 DEF ViewTypeOK, Alone
<1>12. NodeView(n)'
    <2>1. /\ snapshot'[n] = k /\ applied'[n] = k /\ peers'[n] = {} /\ peerAddrs'[n] = {}
        BY <1>2, <1>3 DEF ViewTypeOK
    <2>2. (k + 1)..k = {} /\ k <= k
        BY SMT, <1>4
    <2> QED
        BY <2>1, <2>2, <1>2, <1>4, <1>5, <1>8 DEF NodeView
<1> QED
    BY <1>2, <1>9, <1>10, <1>11, <1>12, OneNodeMoves

(* Where a join is.                                                         *)
LEMMA JoinMoved ==
    ASSUME ViewTypeOK, NEW m \in Node,
           NEW at \in {"idle", "asked", "add", "save", "announce", "done", "failed"}, JoinGoes(m, at)
    PROVE  /\ join' \in [Node -> Joins] /\ join'[m].at = at
           /\ \A q \in Node : q # m => join'[q] = join[q]
<1>1. PICK j : j = [join[m] EXCEPT !.at = at]
    OBVIOUS
<1>2. join[m] \in Joins /\ join' = [join EXCEPT ![m] = j]
    BY <1>1 DEF ViewTypeOK, JoinGoes
<1>3. j \in Joins /\ j.at = at
    BY <1>1, <1>2 DEF Joins
<1> QED
    BY <1>2, <1>3 DEF ViewTypeOK

(* The steps of a join: the request to the leader, AddVoter and the         *)
(* announcement.                                                            *)
LEMMA JoinKeepsViews ==
    ASSUME ViewInv, NEW m \in Node,
           \/ HandleClusterNodeJoin(m) \/ AddVoter(m) \/ AnnounceJoined(m)
           \/ \E n \in Node : JoinCluster(m, n)
    PROVE  ViewInv'
<1>1. ViewTypeOK
    BY DEF ViewInv
<1> USE <1>1
<1>2. ASSUME NEW at \in {"add", "failed", "done"}, JoinGoes(m, at),
             UNCHANGED <<raftVars, viewVars, replica>>
      PROVE  ViewInv'
    <2> USE <1>2
    <2>1. /\ join' \in [Node -> Joins] /\ join'[m].at = at
          /\ \A q \in Node : q # m => join'[q] = join[q]
        BY JoinMoved
    <2>2. at # "save"
        BY SMT
    <2>3. UNCHANGED <<raftLog, have, applied, snapshot>> /\ raftLeader' \in Node \cup {"none"}
        BY DEF raftVars, ViewTypeOK
    <2> QED
        BY <2>1, <2>2, <2>3, QuietKeepsViews
<1> USE <1>2
<1>3. ASSUME NEW at \in {"save", "failed", "done"}, NEW t \in {"member", "metadata"}, JoinGoes(m, at),
             at = "save" => t = "member", NEW n, Commit(n, [type |-> t, of |-> m]),
             UNCHANGED <<viewVars, replica>>
      PROVE  ViewInv'
    <2> USE <1>3
    <2>1. PICK e : e = [type |-> t, of |-> m]
        OBVIOUS
    <2>2. e \in Entry /\ e.type = t /\ e.of = m
        BY <2>1 DEF Entry
    <2> USE <2>2
    <2>3. Commit(n, e) /\ raftLog' = Append(raftLog, e)
        BY <2>1 DEF Commit
    <2>4. LogGrown /\ (e.type = "member" => e.of \in Members')
        BY <2>3, LogAppended
    <2>5. /\ join' \in [Node -> Joins] /\ join'[m].at = at
          /\ \A q \in Node : q # m => join'[q] = join[q]
        BY JoinMoved
    <2>6. \A q \in Node : join'[q].at = "save" => q \in Members'
        BY <2>4, <2>5 DEF ViewInv, LogGrown
    <2> QED
        BY <2>3, <2>5, <2>6, CommitKeepsViews
<1>4. CASE HandleClusterNodeJoin(m)
    BY <1>4 DEF HandleClusterNodeJoin
<1>5. CASE AddVoter(m)
    BY <1>3, <1>5 DEF AddVoter
<1>6. CASE AnnounceJoined(m)
    <2>1. "done" # "save"
        BY SMT
    <2> QED
        BY <2>1, <1>3, <1>6 DEF AnnounceJoined
<1>7. ASSUME NEW n \in Node, JoinCluster(m, n)
      PROVE  ViewInv'
    <2>1. PICK at \in {"asked", "failed"} : join' = [join EXCEPT ![m] = [at |-> at, via |-> n]]
        BY <1>7 DEF JoinCluster
    <2>2. [at |-> at, via |-> n] \in Joins /\ [at |-> at, via |-> n].at # "save"
        BY DEF Joins
    <2>3. /\ join' \in [Node -> Joins]
          /\ \A q \in Node : join'[q].at = "save" => join[q].at = "save"
        <3>1. PICK j : j = [at |-> at, via |-> n]
            OBVIOUS
        <3>2. j \in Joins /\ j.at # "save" /\ join' = [join EXCEPT ![m] = j]
            BY <2>1, <2>2, <3>1
        <3> QED
            BY <3>2 DEF ViewTypeOK
    <2>4. UNCHANGED <<raftLog, have, applied, snapshot, viewVars, replica>>
          /\ raftLeader' \in Node \cup {"none"}
        BY <1>7 DEF raftVars, ViewTypeOK, JoinCluster
    <2> QED
        BY <2>3, <2>4, QuietKeepsViews
<1> QED
    BY <1>4, <1>5, <1>6, <1>7

(* Elections, the announcement of the own address, and the clients' writes, *)
(* whose commits say nothing about the nodes.                               *)
LEMMA RaftKeepsViews ==
    ASSUME ViewInv, NEW n \in Node, Elect(n) \/ LearnLeader(n) \/ AnnounceSelf(n)
    PROVE  ViewInv'
<1>1. ViewTypeOK /\ raftLeader \in Node \cup {"none"} /\ join \in [Node -> Joins] /\ join' = join
    BY DEF ViewInv, ViewTypeOK, Elect, LearnLeader, AnnounceSelf
<1> USE <1>1
<1>2. CASE Elect(n) \/ LearnLeader(n)
    BY <1>2, QuietKeepsViews DEF Elect, LearnLeader
<1>3. CASE AnnounceSelf(n)
    <2> USE <1>3
    <2>1. CASE UNCHANGED raftVars
        BY <2>1, QuietKeepsViews DEF AnnounceSelf, raftVars
    <2>2. CASE Commit(n, [type |-> "metadata", of |-> n])
        <3>1. [type |-> "metadata", of |-> n] \in Entry
            BY DEF Entry
        <3>2. LogGrown
            BY <3>1, <2>2, LogAppended DEF Commit
        <3>3. \A m \in Node : join'[m].at = "save" => m \in Members'
            BY <3>2 DEF ViewInv, LogGrown
        <3> QED
            BY <3>1, <3>3, <2>2, CommitKeepsViews DEF AnnounceSelf
    <2> QED
        BY <2>1, <2>2 DEF AnnounceSelf
<1> QED
    BY <1>2, <1>3

(* A write that is applied appends to the log and touches no view.          *)
LEMMA WriteKeepsViews ==
    ASSUME ViewInv, NEW w \in Writes, ApplyWrite(w) \/ UNCHANGED clusterVars
    PROVE  ViewInv'
<1>1. ViewTypeOK /\ raftLeader \in Node \cup {"none"} /\ join \in [Node -> Joins] /\ join' = join
      /\ UNCHANGED <<viewVars, replica>>
    BY DEF ViewInv, ViewTypeOK, ApplyWrite, clusterVars, viewVars
<1> USE <1>1
<1>2. CASE UNCHANGED raftVars
    BY <1>2, QuietKeepsViews DEF raftVars
<1>3. CASE Commit(work[w].node, [type |-> "write", of |-> w])
    <2>1. [type |-> "write", of |-> w] \in Entry
        BY DEF Entry
    <2>2. LogGrown
        BY <2>1, <1>3, LogAppended DEF Commit
    <2>3. \A m \in Node : join'[m].at = "save" => m \in Members'
        BY <2>2 DEF ViewInv, LogGrown
    <2> QED
        BY <2>1, <2>3, <1>3, CommitKeepsViews
<1>4. UNCHANGED clusterVars => UNCHANGED raftVars
    BY DEF clusterVars, raftVars
<1> QED
    BY <1>2, <1>3, <1>4 DEF ApplyWrite

(* Every step keeps each view within the log its node has applied.          *)
LEMMA ViewStep ==
    ASSUME ViewInv, [ForwardStep]_<<clusterVars, forwardVars>>
    PROVE  ViewInv'
<1>1. CASE UNCHANGED <<raftLog, raftLeader, have, applied, snapshot, viewVars, replica, join>>
    BY <1>1, QuietKeepsViews DEF ViewInv, ViewTypeOK
<1>2. UNCHANGED clusterVars => UNCHANGED <<raftLog, raftLeader, have, applied, snapshot, viewVars, replica, join>>
    BY DEF clusterVars, viewVars
<1>3. CASE ClusterStep
    BY <1>3, RaftKeepsViews, ApplyKeepsViews, MonitorKeepsViews, JoinKeepsViews,
       SaveKeepsViews DEF ClusterStep
<1>4. CASE ReplicaStep \/ CrashStep
    BY <1>4, ReplicaKeepsViews, RestartKeepsViews DEF ReplicaStep, CrashStep
<1>5. ASSUME NEW w \in Writes,
             \/ HandleWrite(w) \/ ForwardToLeader(w) \/ HandleClusterForward(w) \/ ApplyWrite(w)
             \/ TimeoutForward(w) \/ LoseHop(w) \/ \E n \in Node : IssueWrite(w, n)
      PROVE  ViewInv'
    BY <1>5, WriteKeepsViews DEF HandleWrite, ForwardToLeader, HandleClusterForward,
       TimeoutForward, LoseHop, IssueWrite
<1> QED
    BY <1>1, <1>2, <1>3, <1>4, <1>5 DEF ForwardStep, ForwardNext

(* What each node knows of the others follows raft's log, for any number of *)
(* nodes, joins, elections, crashes and clients' writes (monitorLeadership, *)
(* updatePeerInfo, handleClusterNodeJoin, the sync_node_metadata callback   *)
(* and setupClusterNodesFromConsensus).                                     *)
THEOREM ViewsAreOfTheLog == ForwardSpec => []ViewsFollowLog
<1>1. ClusterInit => ViewInv
    <2> SUFFICES ASSUME ClusterInit
                 PROVE  ViewInv
        BY SMT
    <2>1. [type |-> "member", of |-> Boot] \in Entry
        BY ClusterAssumption DEF Entry
    <2>2. raftLog \in Seq(Entry) /\ Len(raftLog) = 1
        BY SMT, <2>1 DEF ClusterInit
    <2>3. NotJoining \in Joins /\ NotJoining.at # "save"
        BY DEF NotJoining, Joins
    <2>4. NoReplica \in [nodes : SUBSET Names, flagged : BOOLEAN] /\ NoReplica.nodes = {}
        BY DEF NoReplica
    <2>5. /\ have \in [Node -> Nat] /\ applied \in [Node -> Nat] /\ snapshot \in [Node -> Nat]
          /\ clientAddrs \in [Node -> SUBSET Names] /\ peers \in [Node -> SUBSET Names]
          /\ peerAddrs \in [Node -> SUBSET Names] /\ isLeader \in [Node -> BOOLEAN]
        BY DEF ClusterInit, Names
    <2>6. join \in [Node -> Joins] /\ replica \in [Node -> [nodes : SUBSET Names, flagged : BOOLEAN]]
        BY <2>3, <2>4 DEF ClusterInit
    <2>7. ViewTypeOK
        BY <2>2, <2>5, <2>6 DEF ViewTypeOK, ClusterInit
    <2>8. ASSUME NEW n \in Node
          PROVE  NodeView(n) /\ join[n].at # "save"
        <3>1. /\ peers[n] = {} /\ peerAddrs[n] = {} /\ replica[n] = NoReplica
              /\ join[n] = NotJoining /\ snapshot[n] = 0 /\ clientAddrs[n] = {n}
            BY DEF ClusterInit
        <3>2. have[n] \in {0, 1} /\ applied[n] \in {0, 1}
            BY DEF ClusterInit
        <3>3. have[n] <= Len(raftLog) /\ applied[n] <= Len(raftLog) /\ snapshot[n] <= applied[n]
            BY SMT, <2>2, <3>1, <3>2
        <3>4. ASSUME NEW i \in (snapshot[n] + 1)..applied[n]
              PROVE  raftLog[i].type # "metadata"
            <4>1. i = 1
                BY SMT, <3>1, <3>2
            <4>2. raftLog[1].type = "member"
                BY DEF ClusterInit
            <4> QED
                BY <4>1, <4>2
        <3> QED
            BY <2>3, <2>4, <3>1, <3>3, <3>4 DEF NodeView
    <2> QED
        BY <2>7, <2>8 DEF ViewInv
<1>2. ViewInv => ViewsFollowLog
    BY DEF ViewInv, NodeView, ViewsFollowLog
<1> QED
    BY <1>1, <1>2, ViewStep, PTL DEF ForwardSpec

-----------------------------------------------------------------------------
(* Coordinator *)

(* CoordinatorInv is inductive.                                             *)
LEMMA InvInit == CoordinatorInit => CoordinatorInv
<1> SUFFICES ASSUME CoordinatorInit PROVE CoordinatorInv
  BY SMT
<1>1. CoordinatorTypeOK
  BY DEF CoordinatorInit, CoordinatorTypeOK, Calls, Returned
<1>2. \A c \in TxnCallers : call[c].at = "idle"
  BY DEF CoordinatorInit, Returned
<1>3. LockIsFreed
  BY <1>2 DEF CoordinatorInit, LockIsFreed, Holds
<1> QED BY <1>1, <1>2, <1>3 DEF CoordinatorInit, CoordinatorInv

(* A turn of the commit phase's loop changes what its call waits for, and   *)
(* who has committed, and nothing the rest of CoordinatorInv speaks of.     *)
LEMMA CollectKeepsInv ==
  ASSUME CoordinatorInv, NEW c \in TxnCallers, CollectCommit(c)
  PROVE  CoordinatorInv'
<1>1. call \in [TxnCallers -> Calls] /\ call[c] \in Calls
  BY DEF CoordinatorInv, CoordinatorTypeOK
<1> USE <1>1
<1>2. PICK W \in SUBSET Participants :
         call' = [call EXCEPT ![c].waiting = W, ![c].left = call[c].left - 1]
  <2>1. ASSUME NEW p \in call[c].waiting,
               call' = [call EXCEPT ![c].waiting = call[c].waiting \ {p},
                                    ![c].left = call[c].left - 1]
        PROVE  \E W \in SUBSET Participants :
                  call' = [call EXCEPT ![c].waiting = W, ![c].left = call[c].left - 1]
    <3>1. call[c].waiting \ {p} \in SUBSET Participants BY DEF Calls
    <3> QED BY <2>1, <3>1
  <2>2. ASSUME call' = [call EXCEPT ![c].left = call[c].left - 1]
        PROVE  \E W \in SUBSET Participants :
                  call' = [call EXCEPT ![c].waiting = W, ![c].left = call[c].left - 1]
    <3>1. call[c].waiting \in SUBSET Participants BY DEF Calls
    <3>2. call' = [call EXCEPT ![c].waiting = call[c].waiting, ![c].left = call[c].left - 1]
      BY <2>2 DEF Calls
    <3> QED BY <3>1, <3>2
  <2> QED BY <2>1, <2>2 DEF CollectCommit
<1>3. /\ call' \in [TxnCallers -> Calls]
      /\ \A d \in TxnCallers : call'[d].at = call[d].at /\ call'[d].op = call[d].op
      /\ \A d \in TxnCallers : d # c => call'[d].waiting = call[d].waiting
  <2>1. call[c].left - 1 \in Nat
    BY SMT DEF CollectCommit, Calls
  <2>2. [call[c] EXCEPT !.waiting = W, !.left = call[c].left - 1] \in Calls
    BY <2>1 DEF Calls
  <2>3. call' = [call EXCEPT ![c] = [call[c] EXCEPT !.waiting = W, !.left = call[c].left - 1]]
    BY <1>2
  <2>4. call' \in [TxnCallers -> Calls]
    BY <2>2, <2>3
  <2>5. /\ \A d \in TxnCallers : d # c => call'[d] = call[d]
        /\ call'[c].at = call[c].at /\ call'[c].op = call[c].op
    BY <2>3 DEF Calls
  <2> QED BY <2>4, <2>5
<1> USE <1>3
<1>4. /\ txn' = [txn EXCEPT !.committed = txn'.committed]
      /\ txn'.committed \in SUBSET Participants
  <2>1. call[c].waiting \in SUBSET Participants
    BY DEF Calls
  <2>2. \/ \E p \in call[c].waiting : txn' = [txn EXCEPT !.committed = @ \cup {p}]
        \/ txn' = txn
    BY DEF CollectCommit
  <2> QED BY SMT, <2>1, <2>2 DEF CoordinatorInv, CoordinatorTypeOK
<1>5. /\ txn'.status = txn.status /\ txn'.prepared = txn.prepared
      /\ mu' = mu /\ call[c].at = "committing"
  BY <1>4 DEF CollectCommit, CoordinatorInv, CoordinatorTypeOK
<1>6. CoordinatorTypeOK'
  BY <1>4 DEF CollectCommit, CoordinatorInv, CoordinatorTypeOK
<1>7. LockIsFreed'
  BY SMT, <1>5, CoordinatorAssumption
     DEF CoordinatorInv, CoordinatorTypeOK, LockIsFreed, Holds, WaitsOnItself
<1> QED BY SMT, <1>5, <1>6, <1>7 DEF CoordinatorInv

(* Every other step keeps it too.                                           *)
LEMMA InvNext == CoordinatorInv /\ [CoordinatorNext]_coordinatorVars => CoordinatorInv'
<1> SUFFICES ASSUME CoordinatorInv, [CoordinatorNext]_coordinatorVars PROVE CoordinatorInv'
  BY SMT
<1> USE CoordinatorAssumption
        DEF CoordinatorInv, CoordinatorTypeOK, Calls, LockIsFreed, Holds, WaitsOnItself, Final, Ops,
            Returned, Goto, Return, Gather, PrepareFailed
<1>1. CASE StartTransaction BY <1>1 DEF StartTransaction
<1>2. CASE Expire BY <1>2 DEF Expire
<1>3. ASSUME NEW c \in TxnCallers, NEW op \in Ops, StartCall(c, op) PROVE CoordinatorInv'
  BY SMT, <1>3 DEF StartCall
<1>4. ASSUME NEW c \in TxnCallers, NEW p \in Participants, CollectPrepare(c, p) PROVE CoordinatorInv'
  BY SMTT(20), <1>4 DEF CollectPrepare
<1>5. ASSUME NEW c \in TxnCallers, TMCommit(c) PROVE CoordinatorInv'
  <2> USE <1>5
  <2>1. CASE txn.status # "pending" BY SMT, <2>1 DEF TMCommit
  <2>2. CASE txn.status = "pending" /\ expired BY SMTT(20), <2>2 DEF TMCommit
  <2>3. CASE txn.status = "pending" /\ ~expired BY SMT, <2>3 DEF TMCommit
  <2> QED BY <2>1, <2>2, <2>3
<1>6. ASSUME NEW c \in TxnCallers, PrepareTransaction(c) PROVE CoordinatorInv'
  BY SMTT(20), <1>6 DEF PrepareTransaction
<1>7. ASSUME NEW c \in TxnCallers, PrepareTimeout(c) PROVE CoordinatorInv'
  BY SMT, <1>7 DEF PrepareTimeout
<1>8. ASSUME NEW c \in TxnCallers, PrepareDone(c) PROVE CoordinatorInv'
  <2> USE <1>8
  <2>1. txn.prepared = Participants
    BY DEF PrepareDone
  <2>2. \A d \in TxnCallers : Holds(d) => d = c
    BY DEF PrepareDone
  <2>3. CASE call[c].op = "prepare" BY SMT, <2>1, <2>2, <2>3 DEF PrepareDone
  <2>4. CASE call[c].op # "prepare" BY SMTT(20), <2>1, <2>2, <2>4 DEF PrepareDone
  <2> QED BY <2>3, <2>4
<1>9. ASSUME NEW c \in TxnCallers, CommitPhase(c) PROVE CoordinatorInv'
  BY SMTT(20), <1>9 DEF CommitPhase
<1>10. ASSUME NEW c \in TxnCallers, CollectCommit(c) PROVE CoordinatorInv'
  BY <1>10, CollectKeepsInv DEF CoordinatorInv
<1>11. ASSUME NEW c \in TxnCallers, CommitDone(c) PROVE CoordinatorInv'
  BY SMT, <1>11 DEF CommitDone
<1>12. ASSUME NEW c \in TxnCallers, CoordinatorAbort(c) PROVE CoordinatorInv'
  BY SMTT(20), <1>12 DEF CoordinatorAbort
<1>13. ASSUME NEW c \in TxnCallers, AbortDone(c) PROVE CoordinatorInv'
  BY SMT, <1>13 DEF AbortDone
<1>14. ASSUME NEW c \in TxnCallers, TMAbort(c) PROVE CoordinatorInv'
  <2> USE <1>14
  <2>1. txn' = txn \/ txn' = [txn EXCEPT !.status = "aborted"]
    BY DEF TMAbort
  <2>2. CASE txn' = txn BY SMT, <2>2 DEF TMAbort
  <2>3. CASE txn' = [txn EXCEPT !.status = "aborted"] /\ call[c].op = "cleanup"
    BY SMT, <2>3 DEF TMAbort
  <2>4. CASE txn' = [txn EXCEPT !.status = "aborted"] /\ call[c].op # "cleanup"
    BY SMT, <2>4 DEF TMAbort
  <2> HIDE DEF CoordinatorInv
  <2> QED BY <2>1, <2>2, <2>3, <2>4
<1>15. ASSUME NEW c \in TxnCallers, DeleteExpired(c) PROVE CoordinatorInv'
  BY ZenonT(30), <1>15 DEF DeleteExpired
<1>16. ASSUME NEW c \in TxnCallers, CancelContext(c) PROVE CoordinatorInv'
  BY <1>16 DEF CancelContext
<1>17. CASE UNCHANGED coordinatorVars BY SMT, <1>17 DEF coordinatorVars
<1> HIDE DEF CoordinatorInv, Final, Ops, Returned, Goto, Return, Gather, PrepareFailed
<1> QED BY <1>1, <1>2, <1>3, <1>4, <1>5, <1>6, <1>7, <1>8, <1>9, <1>10, <1>11, <1>12, <1>13, <1>14, <1>15, <1>16, <1>17 DEF CoordinatorNext, CallStep

(* The abstract decision changes only where the status becomes Committed    *)
(* or Aborted, and the abstract agreement only where a participant's answer *)
(* is collected.                                                            *)
LEMMA StepRefines ==
  ASSUME CoordinatorInv, [CoordinatorNext]_coordinatorVars
  PROVE  [Promise!AtomicCommitNext]_<<txn.prepared, Decision>>
<1> DEFINE Stutter == txn'.prepared = txn.prepared /\ Decision' = Decision
           Goal == [Promise!AtomicCommitNext]_<<txn.prepared, Decision>>
<1>0. Stutter => Goal
  OBVIOUS
<1> USE <1>0
<1>1. ASSUME txn' = txn PROVE Stutter
  BY <1>1 DEF Decision
<1> USE <1>1
<1>2. ASSUME NEW s \in {"pending", "timeout", "preparing", "prepared", "committing", "aborting"},
             txn' = [txn EXCEPT !.status = s] \/ txn' = [txn EXCEPT !.exists = TRUE, !.status = s],
             txn.status \notin Final
      PROVE  Stutter
  BY <1>2 DEF CoordinatorInv, CoordinatorTypeOK, Decision, Final
<1> USE <1>2
<1>3. ASSUME txn' = [txn EXCEPT !.status = "aborted"], txn.status \notin Final
      PROVE  Promise!DecideAbort
  BY <1>3 DEF CoordinatorInv, CoordinatorTypeOK, Decision, Final, Promise!DecideAbort
<1> USE <1>3
<1>4. ASSUME txn' = [txn EXCEPT !.status = "committed"], txn.status = "committing"
      PROVE  Promise!DecideCommit
  BY <1>4 DEF CoordinatorInv, CoordinatorTypeOK, Decision, Final, Promise!DecideCommit
<1>5. CASE StartTransaction BY <1>5 DEF StartTransaction, Final
<1>6. CASE Expire \/ \E c \in TxnCallers : CancelContext(c) \/ \E op \in Ops : StartCall(c, op)
  BY <1>6 DEF Expire, CancelContext, StartCall
<1>7. ASSUME NEW c \in TxnCallers, TMCommit(c) PROVE Goal
  BY <1>7 DEF TMCommit, Final
<1>8. ASSUME NEW c \in TxnCallers, PrepareTransaction(c) PROVE Goal
  BY <1>8 DEF PrepareTransaction, Final
<1>9. ASSUME NEW c \in TxnCallers, PrepareTimeout(c) PROVE Goal
  BY <1>9 DEF PrepareTimeout
<1>10. ASSUME NEW c \in TxnCallers, PrepareDone(c) PROVE Goal
  BY SMT, <1>10 DEF PrepareDone, Final, CoordinatorInv, LockIsFreed, Holds
<1>11. ASSUME NEW c \in TxnCallers, NEW p \in Participants, CollectPrepare(c, p) PROVE Goal
  <2>1. txn.status = "preparing"
    BY <1>11 DEF CollectPrepare, CoordinatorInv, LockIsFreed, Holds
  <2>2. Promise!Agree(p)
    BY <1>11, <2>1 DEF CollectPrepare, CoordinatorInv, CoordinatorTypeOK, Decision, Final,
                       Promise!Agree
  <2> QED BY <2>2 DEF Promise!AtomicCommitNext
<1>12. ASSUME NEW c \in TxnCallers, CommitPhase(c) PROVE Goal
  BY SMT, <1>12 DEF CommitPhase, Final
<1>13. ASSUME NEW c \in TxnCallers, CollectCommit(c) PROVE Goal
  <2>1. \/ \E p \in call[c].waiting : txn' = [txn EXCEPT !.committed = @ \cup {p}]
        \/ txn' = txn
    BY <1>13 DEF CollectCommit
  <2>2. Stutter BY <2>1 DEF CoordinatorInv, CoordinatorTypeOK, Decision
  <2> QED BY <2>2
<1>14. ASSUME NEW c \in TxnCallers, CommitDone(c) PROVE Goal
  <2>1. txn.status = "committing"
    BY <1>14 DEF CommitDone, CoordinatorInv, LockIsFreed, Holds
  <2>2. Promise!DecideCommit \/ Promise!DecideAbort
    BY <1>4, <1>14, <2>1 DEF CommitDone, Final
  <2> QED BY <2>2 DEF Promise!AtomicCommitNext
<1>15. ASSUME NEW c \in TxnCallers, CoordinatorAbort(c) PROVE Goal
  BY SMT, <1>15 DEF CoordinatorAbort
<1>16. ASSUME NEW c \in TxnCallers, AbortDone(c) PROVE Goal
  <2>1. txn.status = "aborting"
    BY <1>16 DEF AbortDone, CoordinatorInv, LockIsFreed, Holds
  <2>2. Promise!DecideAbort BY <1>16, <2>1 DEF AbortDone, Final
  <2> QED BY <2>2 DEF Promise!AtomicCommitNext
<1>17. ASSUME NEW c \in TxnCallers, TMAbort(c) PROVE Goal
  <2>1. CASE txn.status \in Final
    <3>1. txn' = txn BY <1>17, <2>1 DEF TMAbort, CoordinatorInv, CoordinatorTypeOK
    <3> QED BY <3>1
  <2>2. CASE txn.status \notin Final
    <3>1. Promise!DecideAbort BY SMT, <1>17, <2>2 DEF TMAbort
    <3> QED BY <3>1 DEF Promise!AtomicCommitNext
  <2> QED BY <2>1, <2>2
<1>18. ASSUME NEW c \in TxnCallers, DeleteExpired(c) PROVE Goal
  <2>1. Stutter BY <1>18 DEF DeleteExpired, CoordinatorInv, CoordinatorTypeOK, Decision
  <2> QED BY <2>1
<1>19. CASE UNCHANGED coordinatorVars
  BY <1>19 DEF coordinatorVars
<1> QED BY <1>5, <1>6, <1>7, <1>8, <1>9, <1>10, <1>11, <1>12, <1>13, <1>14, <1>15,
                  <1>16, <1>17, <1>18, <1>19 DEF CoordinatorNext, CallStep

-----------------------------------------------------------------------------

(* For any callers and participants, txn.mu is held only by a call that     *)
(* will free it, TransactionManager.Commit on a distributed transaction     *)
(* excepted: no path of coordinator.go forgets an Unlock.                   *)
THEOREM LockFreed == CoordinatorSpec => []LockIsFreed
<1>1. CoordinatorInv => LockIsFreed
  BY DEF CoordinatorInv
<1> QED BY InvInit, InvNext, <1>1, PTL DEF CoordinatorSpec

(* The two-phase commit implements AtomicCommit for any number of           *)
(* participants and of concurrent calls.                                    *)
THEOREM CommitImplements == CoordinatorSpec => ImplementsAtomicCommit
<1>1. CoordinatorInit => Promise!AtomicCommitInit
  BY SMT DEF CoordinatorInit, Promise!AtomicCommitInit, Decision, Final
<1> QED BY InvInit, InvNext, StepRefines, <1>1, PTL
        DEF CoordinatorSpec, ImplementsAtomicCommit, Promise!AtomicCommitSpec

-----------------------------------------------------------------------------
(* Transactions of the client library *)

AllCommands == {"set", "delete"} \X TxKeys
TxCalls == [op : {"none", "get", "commit", "rollback"},
            at : {"idle", "start", "sent", "end", "remove"},
            key : TxKeys \cup {"none"}, ok : BOOLEAN]
TxRequests == [op : {"none", "get", "commit", "rollback"}, commands : SUBSET AllCommands]
TxAnswers == [ok : BOOLEAN, hit : BOOLEAN]
TxStates == [status : {"pending", "preparing", "committed", "aborted"},
             writes : SUBSET TxKeys, deletes : SUBSET TxKeys, reads : SUBSET (TxKeys \cup {"none"})]
ServerStates == [status : {"pending", "aborting", "aborted", "committed"}, done : SUBSET AllCommands]
Returns == [commit : {"nothing", "nil"}, rollback : {"nothing", "nil"}]

TxTypeOK ==
    /\ tx \in TxStates /\ server \in ServerStates /\ told \in Returns
    /\ activeTx \in BOOLEAN /\ crossed \in BOOLEAN
    /\ user \in [TxUsers -> TxCalls]
    /\ requests \in Seq(TxRequests) /\ answers \in Seq(TxAnswers)

(* What a success of an ending stands for, and what it rests on: the sets   *)
(* are no longer written once a Commit has begun.                           *)
Truth(op) ==
    /\ op = "commit" => server = [status |-> "committed", done |-> Commands]
    /\ op = "rollback" => server.status = "aborted"
Settled(op) == op = "commit" => tx.status # "pending"
SettledCall(u) == Settled(user[u].op)
TrueCall(u) == user[u].ok => Truth(user[u].op)

(* One call at a time: the connection is quiet, or holds the request or the *)
(* answer of the one call that waits for it.                                *)
Asking(u) ==
    /\ answers = <<>>
    /\ \E r \in TxRequests :
          /\ requests = <<r>> /\ r.op = user[u].op
          /\ r.op = "commit" => r.commands = Commands
Telling(u) ==
    /\ requests = <<>>
    /\ \E a \in TxAnswers : answers = <<a>> /\ (a.ok => Truth(user[u].op))
InStep ==
    \/ Outstanding = {} /\ requests = <<>> /\ answers = <<>>
    \/ \E u \in TxUsers : Outstanding = {u} /\ (Asking(u) \/ Telling(u))

TxClientInv ==
    /\ TxTypeOK
    /\ \A u \in TxUsers : SettledCall(u)
    /\ \A op \in {"commit", "rollback"} : told[op] = "nil" => Settled(op)
    /\ ~crossed =>
          /\ InStep
          /\ \A u \in TxUsers : TrueCall(u)
          /\ \A op \in {"commit", "rollback"} : told[op] = "nil" => Truth(op)

(* What no step takes back: the server's end of a transaction, and the sets *)
(* of the client once it is no longer pending.                              *)
ServerKeeps == server.status \in {"committed", "aborted"} => server' = server
SetsKept == tx.status # "pending" => Commands' = Commands /\ tx'.status # "pending"

(* What a settled call says of the server stays true: the server does not go*)
(* back on an end.                                                          *)
LEMMA TruthKept ==
    ASSUME ServerKeeps, SetsKept, NEW op, Settled(op)
    PROVE  Settled(op)' /\ (Truth(op) => Truth(op)')
<1>1. Settled(op)'
    BY DEF Settled, SetsKept
<1>2. op = "commit" => Commands' = Commands
    BY DEF Settled, SetsKept
<1>3. ASSUME Truth(op)
      PROVE  Truth(op)'
    <2>1. CASE op = "commit"
        <3>1. server = [status |-> "committed", done |-> Commands]
            BY <1>3, <2>1 DEF Truth
        <3>2. server.status = "committed"
            BY <3>1
        <3>3. server' = server
            BY <3>2 DEF ServerKeeps
        <3> QED
            BY <3>1, <3>3, <1>2, <2>1, "commit" # "rollback" DEF Truth
    <2>2. CASE op # "commit"
        BY <1>3, <2>2 DEF Truth, ServerKeeps
    <2> QED
        BY <2>1, <2>2
<1> QED
    BY <1>1, <1>3

(* One goroutine's call moves on.                                           *)
LEMMA CallMoved ==
    ASSUME TxTypeOK, NEW u \in TxUsers, NEW r \in TxCalls, user' = [user EXCEPT ![u] = r]
    PROVE  /\ user' \in [TxUsers -> TxCalls] /\ user'[u] = r
           /\ \A v \in TxUsers : v # u => user'[v] = user[v]
BY DEF TxTypeOK

(* A step that leaves the connection alone, and the calls that wait for it. *)
LEMMA QuietStep ==
    ASSUME TxClientInv, TxTypeOK', ServerKeeps, SetsKept,
           UNCHANGED <<requests, answers, crossed>>,
           \A v \in TxUsers :
              /\ user'[v].at = "sent" <=> user[v].at = "sent"
              /\ user[v].at = "sent" => user'[v] = user[v]
              /\ SettledCall(v)'
              /\ user'[v].ok => user[v].ok /\ user'[v].op = user[v].op,
           \A op \in {"commit", "rollback"} : told'[op] = "nil" =>
              told[op] = "nil" \/ \E v \in TxUsers : user[v].ok /\ user[v].op = op
    PROVE  TxClientInv'
<1>1. \A op \in {"commit", "rollback"} : told'[op] = "nil" => Settled(op)'
    <2>1. \A op \in {"commit", "rollback"} : told'[op] = "nil" => Settled(op)
        BY ZenonT(30) DEF TxClientInv, SettledCall
    <2> QED
        BY <2>1, TruthKept
<1>2. ASSUME ~crossed
      PROVE  /\ InStep'
             /\ \A u \in TxUsers : TrueCall(u)'
             /\ \A op \in {"commit", "rollback"} : told'[op] = "nil" => Truth(op)'
    <2>1. ASSUME NEW u \in TxUsers
          PROVE  TrueCall(u)'
        <3> SUFFICES ASSUME user'[u].ok
                     PROVE  Truth(user[u].op)'
            BY DEF TrueCall
        <3>1. PICK op : op = user[u].op
            BY SMT
        <3>2. Truth(op) /\ Settled(op)
            BY <1>2, <3>1 DEF TxClientInv, SettledCall, TrueCall
        <3>3. Truth(op)'
            BY <3>2, TruthKept
        <3> QED
            BY <3>1, <3>3
    <2>2. \A op \in {"commit", "rollback"} : told'[op] = "nil" => Truth(op)'
        <3>1. \A op \in {"commit", "rollback"} : told'[op] = "nil" => Settled(op) /\ Truth(op)
            BY ZenonT(30), <1>2 DEF TxClientInv, SettledCall, TrueCall
        <3> QED
            BY <3>1, TruthKept
    <2>3. Outstanding' = Outstanding
        BY DEF Outstanding
    <2>4. ASSUME Outstanding = {}, requests = <<>>, answers = <<>>
          PROVE  Outstanding' = {} /\ requests' = <<>> /\ answers' = <<>>
        BY <2>3, <2>4
    <2>5. ASSUME NEW u \in TxUsers, Outstanding = {u}, Asking(u)
          PROVE  Asking(u)'
        <3>1. user'[u] = user[u] /\ Settled(user[u].op)
            BY <2>5 DEF Outstanding, TxClientInv, SettledCall
        <3>2. user[u].op = "commit" => Commands' = Commands
            BY <3>1 DEF Settled, SetsKept
        <3> QED
            BY ZenonT(30), <2>5, <3>1, <3>2 DEF Asking
    <2>6. ASSUME NEW u \in TxUsers, Outstanding = {u}, Telling(u)
          PROVE  Telling(u)'
        <3>1. PICK op : op = user[u].op
            BY SMT
        <3>2. user'[u].op = op /\ Settled(op)
            BY <2>6, <3>1 DEF Outstanding, TxClientInv, SettledCall
        <3>3. Truth(op) => Truth(op)'
            BY <3>2, TruthKept
        <3> QED
            BY <2>6, <3>1, <3>2, <3>3 DEF Telling
    <2> QED
        BY <2>1, <2>2, <2>3, <2>4, <2>5, <2>6, <1>2 DEF InStep, TxClientInv
<1> QED
    BY <1>1, <1>2 DEF TxClientInv

(* A call that moves on while nothing is sent or received.                  *)
LEMMA QuietCall ==
    ASSUME TxClientInv, SetsKept, tx' \in TxStates, activeTx' \in BOOLEAN, told' \in Returns,
           UNCHANGED <<server, requests, answers, crossed>>,
           NEW u \in TxUsers, NEW r \in TxCalls, user' = [user EXCEPT ![u] = r],
           user[u].at # "sent", r.at # "sent", r.op = "commit" => tx'.status # "pending",
           r.ok => user[u].ok /\ r.op = user[u].op,
           \A op \in {"commit", "rollback"} : told'[op] = "nil" =>
              told[op] = "nil" \/ (user[u].ok /\ user[u].op = op)
    PROVE  TxClientInv'
<1>1. /\ user' \in [TxUsers -> TxCalls] /\ user'[u] = r
      /\ \A v \in TxUsers : v # u => user'[v] = user[v]
    BY CallMoved DEF TxClientInv
<1> USE <1>1
<1>2. TxTypeOK'
    BY DEF TxClientInv, TxTypeOK
<1>3. ServerKeeps
    BY DEF ServerKeeps
<1>4. ASSUME NEW v \in TxUsers
      PROVE  /\ user'[v].at = "sent" <=> user[v].at = "sent"
             /\ user[v].at = "sent" => user'[v] = user[v]
             /\ SettledCall(v)'
             /\ user'[v].ok => user[v].ok /\ user'[v].op = user[v].op
    <2>1. CASE v = u
        BY <2>1 DEF SettledCall, Settled
    <2>2. CASE v # u
        BY <2>2 DEF SettledCall, Settled, SetsKept, TxClientInv
    <2> QED
        BY <2>1, <2>2
<1> QED
    BY <1>2, <1>3, <1>4, QuietStep

(* The calls up to the send and after the receive: Set and Delete, the      *)
(* starts and the ends of Get, Commit and Rollback.                         *)
LEMMA SetsStep ==
    ASSUME TxClientInv, NEW u \in TxUsers, NEW k \in TxKeys, TxSet(u, k) \/ TxDelete(u, k)
    PROVE  TxClientInv'
<1>1. UNCHANGED <<activeTx, user, requests, answers, server, crossed, told>> /\ tx.status = "pending"
    BY DEF TxSet, TxDelete
<1> USE <1>1
<1>2. tx \in TxStates
    BY DEF TxClientInv, TxTypeOK
<1>3. tx' \in TxStates /\ tx'.status = "pending"
    <2>1. CASE TxSet(u, k)
        BY <1>2, <2>1 DEF TxStates, TxSet
    <2>2. CASE TxDelete(u, k)
        BY <1>2, <2>2 DEF TxStates, TxDelete
    <2> QED
        BY <2>1, <2>2
<1>4. TxTypeOK' /\ ServerKeeps /\ SetsKept
    BY <1>3 DEF TxClientInv, TxTypeOK, ServerKeeps, SetsKept
<1>5. \A v \in TxUsers : SettledCall(v)'
    BY DEF TxClientInv, SettledCall, Settled
<1> QED
    BY <1>4, <1>5, QuietStep

(* Commit, Rollback and Get read the status under the mutex before they send*)
(* anything.                                                                *)
LEMMA StartsStep ==
    ASSUME TxClientInv, NEW u \in TxUsers,
           TxCommit(u) \/ TxRollback(u) \/ \E k \in TxKeys : TxGet(u, k)
    PROVE  TxClientInv'
<1>1. UNCHANGED <<activeTx, requests, answers, server, crossed, told>> /\ user[u].at # "sent"
    BY DEF TxCommit, TxRollback, TxGet
<1>2. tx \in TxStates /\ activeTx \in BOOLEAN /\ told \in Returns
    BY DEF TxClientInv, TxTypeOK
<1> USE <1>2
<1>3. PICK r \in TxCalls : /\ user' = [user EXCEPT ![u] = r] /\ r.at = "start" /\ r.ok = FALSE
                           /\ r.op = "commit" => TxCommit(u)
    <2>1. AtRest \in TxCalls /\ AtRest.ok = FALSE
        BY DEF AtRest, TxCalls
    <2> USE <2>1
    <2>2. CASE TxCommit(u)
        <3>1. PICK r : r = [AtRest EXCEPT !.op = "commit", !.at = "start"]
            BY SMT
        <3>2. r \in TxCalls /\ r.at = "start" /\ r.ok = FALSE
            BY <3>1 DEF TxCalls
        <3> QED
            BY <3>1, <3>2, <2>2 DEF TxCommit
    <2>3. CASE TxRollback(u)
        <3>1. PICK r : r = [AtRest EXCEPT !.op = "rollback", !.at = "start"]
            BY SMT
        <3>2. r \in TxCalls /\ r.at = "start" /\ r.ok = FALSE /\ r.op # "commit"
            BY <3>1 DEF TxCalls
        <3> QED
            BY <3>1, <3>2, <2>3 DEF TxRollback
    <2>4. ASSUME NEW k \in TxKeys, TxGet(u, k)
          PROVE  \E r \in TxCalls : /\ user' = [user EXCEPT ![u] = r] /\ r.at = "start"
                                    /\ r.ok = FALSE /\ r.op # "commit"
        <3>1. PICK r : r = [AtRest EXCEPT !.op = "get", !.at = "start", !.key = k]
            BY SMT
        <3>2. r \in TxCalls /\ r.at = "start" /\ r.ok = FALSE /\ r.op # "commit"
            BY <3>1 DEF TxCalls
        <3> QED
            BY <3>1, <3>2, <2>4 DEF TxGet
    <2> QED
        BY <2>2, <2>3, <2>4
<1>4. /\ tx' \in TxStates /\ SetsKept
      /\ TxCommit(u) => tx'.status # "pending"
    <2>1. CASE tx' = tx
        BY <2>1 DEF SetsKept, Commands, TxCommit, TxStates
    <2>2. CASE tx' = [tx EXCEPT !.status = "preparing"]
        BY <2>2 DEF SetsKept, Commands, TxStates
    <2> QED
        BY <2>1, <2>2 DEF TxCommit, TxRollback, TxGet
<1> QED
    BY <1>1, <1>3, <1>4, QuietCall

(* A call ends: Get adds a key that was found to the reads, Commit and      *)
(* Rollback set the status and remove the context.                          *)
LEMMA EndsStep ==
    ASSUME TxClientInv, NEW u \in TxUsers, EndGet(u) \/ EndStatus(u) \/ RemoveTransaction(u)
    PROVE  TxClientInv'
<1>1. tx \in TxStates /\ activeTx \in BOOLEAN /\ told \in Returns /\ user[u] \in TxCalls
      /\ SettledCall(u)
    BY DEF TxClientInv, TxTypeOK
<1>2. AtRest \in TxCalls /\ AtRest.ok = FALSE /\ AtRest.at # "sent" /\ AtRest.op # "commit"
    BY DEF AtRest, TxCalls
<1>3. CASE EndGet(u)
    <2>1. tx' \in TxStates /\ SetsKept
        <3>1. CASE tx' = tx
            BY <1>1, <3>1 DEF SetsKept, Commands, TxStates
        <3>2. CASE tx' = [tx EXCEPT !.reads = @ \cup {user[u].key}]
            BY <1>1, <3>2 DEF SetsKept, Commands, TxStates, TxCalls
        <3> QED
            BY <3>1, <3>2, <1>3 DEF EndGet
    <2>2. /\ UNCHANGED <<activeTx, requests, answers, server, crossed, told>>
          /\ user' = [user EXCEPT ![u] = AtRest] /\ user[u].at # "sent"
        BY <1>3 DEF EndGet
    <2> QED
        BY <2>1, <2>2, <1>1, <1>2, QuietCall
<1>4. CASE EndStatus(u)
    <2> USE <1>4
    <2>1. PICK s \in {"committed", "aborted"} : tx' = [tx EXCEPT !.status = s]
        BY DEF EndStatus
    <2>2. tx' \in TxStates /\ SetsKept /\ tx'.status # "pending"
        BY <1>1, <2>1 DEF SetsKept, Commands, TxStates
    <2>3. PICK r : r = [user[u] EXCEPT !.at = "remove"]
        OBVIOUS
    <2>4. /\ r \in TxCalls /\ r.at # "sent" /\ r.op = user[u].op /\ r.ok = user[u].ok
          /\ user[u].at # "sent"
        BY <1>1, <2>3 DEF TxCalls, EndStatus
    <2>5. /\ UNCHANGED <<activeTx, requests, answers, server, crossed, told>>
          /\ user' = [user EXCEPT ![u] = r]
        BY <2>3 DEF EndStatus
    <2> QED
        BY <2>2, <2>4, <2>5, <1>1, QuietCall
<1>5. CASE RemoveTransaction(u)
    <2>1. UNCHANGED <<tx, requests, answers, server, crossed>> /\ activeTx' \in BOOLEAN
          /\ user' = [user EXCEPT ![u] = AtRest] /\ user[u].at # "sent"
        BY <1>5 DEF RemoveTransaction
    <2>2. SetsKept /\ tx' \in TxStates
        BY <1>1, <2>1 DEF SetsKept, Commands
    <2>3. PICK s : /\ (s = "nil" /\ user[u].ok) \/ s = told[user[u].op]
                   /\ told' = [told EXCEPT ![user[u].op] = s]
        BY <1>5 DEF RemoveTransaction
    <2>4. /\ told' \in Returns
          /\ \A op \in {"commit", "rollback"} : told'[op] = "nil" =>
                told[op] = "nil" \/ (user[u].ok /\ user[u].op = op)
        BY SMT, <2>3, <1>1 DEF Returns
    <2> QED
        BY <2>1, <2>2, <2>4, <1>1, <1>2, QuietCall
<1> QED
    BY <1>3, <1>4, <1>5

(* SendRequest: a call alone on the connection has its own request there.   *)
LEMMA SendStep ==
    ASSUME TxClientInv, NEW u \in TxUsers, user[u].at = "start", NEW C \in SUBSET AllCommands,
           user[u].op = "commit" => C = Commands, Send(u, C),
           UNCHANGED <<tx, activeTx, answers, server, told>>
    PROVE  TxClientInv'
<1>1. tx \in TxStates /\ activeTx \in BOOLEAN /\ told \in Returns /\ user[u] \in TxCalls
      /\ SettledCall(u)
    BY DEF TxClientInv, TxTypeOK
<1>2. SetsKept /\ ServerKeeps
    BY DEF SetsKept, Commands, ServerKeeps
<1>3. CASE user' = [user EXCEPT ![u].at = "end"] /\ UNCHANGED <<requests, crossed>>
    <2>1. PICK r : r = [user[u] EXCEPT !.at = "end"]
        OBVIOUS
    <2>2. /\ r \in TxCalls /\ r.at # "sent" /\ r.op = user[u].op /\ r.ok = user[u].ok
          /\ user[u].at # "sent"
        BY <1>1, <2>1 DEF TxCalls
    <2>3. user' = [user EXCEPT ![u] = r]
        BY <1>3, <2>1
    <2>4. r.op = "commit" => tx'.status # "pending"
        BY <1>1, <2>2 DEF SettledCall, Settled
    <2> QED
        BY ZenonT(30), <2>2, <2>3, <2>4, <1>1, <1>2, <1>3, QuietCall
<1>4. CASE /\ requests' = Append(requests, [op |-> user[u].op, commands |-> C])
           /\ user' = [user EXCEPT ![u].at = "sent"]
           /\ crossed' = (crossed \/ Outstanding # {})
    <2>1. PICK r, q : r = [user[u] EXCEPT !.at = "sent"] /\ q = [op |-> user[u].op, commands |-> C]
        OBVIOUS
    <2>2. r \in TxCalls /\ r.at = "sent" /\ r.op = user[u].op /\ r.ok = user[u].ok
        BY <1>1, <2>1 DEF TxCalls
    <2>3. q \in TxRequests /\ q.op = user[u].op /\ q.commands = C
        BY <1>1, <2>1 DEF TxCalls, TxRequests
    <2>4. /\ user' \in [TxUsers -> TxCalls] /\ user'[u] = r
          /\ \A v \in TxUsers : v # u => user'[v] = user[v]
        <3>1. user' = [user EXCEPT ![u] = r]
            BY <1>4, <2>1
        <3> QED
            BY <2>2, <3>1, CallMoved DEF TxClientInv
    <2>5. requests' \in Seq(TxRequests)
        <3>1. requests \in Seq(TxRequests)
            BY DEF TxClientInv, TxTypeOK
        <3> QED
            BY SMT, <3>1, <2>3, <2>1, <1>4
    <2>6. TxTypeOK'
        <3>1. crossed' \in BOOLEAN
            BY <1>4
        <3> QED
            BY <2>4, <2>5, <3>1 DEF TxClientInv, TxTypeOK
    <2>7. \A v \in TxUsers : user'[v].op = user[v].op /\ user'[v].ok = user[v].ok
        BY <2>2, <2>4
    <2>8. \A v \in TxUsers : SettledCall(v)'
        BY <2>7 DEF TxClientInv, SettledCall, Settled
    <2>9. \A op : (Settled(op) => Settled(op)') /\ (Truth(op) => Truth(op)')
        BY DEF Settled, Truth, Commands
    <2>10. ASSUME ~crossed'
           PROVE  InStep' /\ \A v \in TxUsers : TrueCall(v)'
        <3>1. ~crossed /\ Outstanding = {}
            BY <1>4, <2>10
        <3> USE <3>1
        <3>2. \A v \in TxUsers : TrueCall(v)'
            BY <2>7 DEF TxClientInv, TrueCall, Truth, Commands
        <3>3. requests = <<>> /\ answers = <<>>
            BY DEF TxClientInv, InStep
        <3>4. requests' = <<q>>
            BY SMT, <1>4, <2>1, <3>3
        <3>5. Outstanding' = {u}
            BY <2>2, <2>4 DEF Outstanding
        <3>6. Asking(u)'
            BY <2>2, <2>3, <2>4, <3>3, <3>4 DEF Asking, Commands
        <3> QED
            BY <3>2, <3>5, <3>6 DEF InStep
    <2> QED
        BY <1>4, <2>6, <2>8, <2>9, <2>10 DEF TxClientInv
<1> QED
    BY <1>3, <1>4 DEF Send

(* A call takes the connection, and sends its request unless it is broken.  *)
LEMMA SendsStep ==
    ASSUME TxClientInv, NEW u \in TxUsers, SendGet(u) \/ SendEnding(u)
    PROVE  TxClientInv'
<1>1. tx \in TxStates /\ activeTx \in BOOLEAN /\ told \in Returns /\ user[u] \in TxCalls
      /\ SettledCall(u)
    BY DEF TxClientInv, TxTypeOK
<1> USE <1>1
<1>2. UNCHANGED <<tx, activeTx, answers, server, told>> /\ user[u].at = "start"
    BY DEF SendGet, SendEnding
<1> USE <1>2
<1>3. CASE \E C \in SUBSET AllCommands : (user[u].op = "commit" => C = Commands) /\ Send(u, C)
    BY <1>3, SendStep
<1>4. CASE user' = [user EXCEPT ![u].at = "end"] /\ UNCHANGED <<requests, crossed>>
    <2>1. PICK r : r = [user[u] EXCEPT !.at = "end"]
        OBVIOUS
    <2>2. /\ r \in TxCalls /\ r.at # "sent" /\ r.op = user[u].op /\ r.ok = user[u].ok
          /\ user[u].at # "sent"
        BY <2>1 DEF TxCalls
    <2>3. user' = [user EXCEPT ![u] = r]
        BY <1>4, <2>1
    <2>4. (r.op = "commit" => tx'.status # "pending") /\ SetsKept
        BY <2>2 DEF SettledCall, Settled, SetsKept, Commands
    <2> QED
        BY ZenonT(30), <2>2, <2>3, <2>4, <1>4, QuietCall
<1>5. {} \in SUBSET AllCommands /\ Commands \in SUBSET AllCommands
    BY DEF Commands, AllCommands, TxStates
<1>6. CASE SendGet(u)
    <2>1. user[u].op # "commit" /\ Send(u, {})
        BY <1>6 DEF SendGet
    <2> QED
        BY <2>1, <1>3, <1>5
<1>7. CASE SendEnding(u)
    BY <1>3, <1>4, <1>5, <1>7 DEF SendEnding
<1> QED
    BY <1>6, <1>7

(* The receive: while the calls are in step, the one that waits takes its   *)
(* own answer.  A receive that times out ends that.                         *)
LEMMA ReceiveStep ==
    ASSUME TxClientInv, NEW u \in TxUsers, Receive(u)
    PROVE  TxClientInv'
<1>1. user[u] \in TxCalls /\ answers \in Seq(TxAnswers) /\ answers # <<>> /\ user[u].at = "sent"
    BY DEF TxClientInv, TxTypeOK, Receive
<1>2. PICK a : a = Head(answers)
    BY SMT
<1>3. a \in TxAnswers /\ Tail(answers) \in Seq(TxAnswers)
    BY SMT, <1>1, <1>2
<1>4. PICK k : k = IF user[u].op = "get" THEN a.hit ELSE a.ok
    BY SMT
<1>5. PICK r : r = [user[u] EXCEPT !.at = "end", !.ok = k]
    BY SMT
<1>6. r \in TxCalls /\ r.at # "sent" /\ r.op = user[u].op /\ r.ok = k
    BY <1>1, <1>3, <1>4, <1>5 DEF TxCalls, TxAnswers
<1>7. /\ answers' = Tail(answers) /\ user' = [user EXCEPT ![u] = r]
      /\ UNCHANGED <<tx, activeTx, requests, server, crossed, told>>
    BY <1>2, <1>4, <1>5 DEF Receive
<1>8. /\ user' \in [TxUsers -> TxCalls] /\ user'[u] = r
      /\ \A v \in TxUsers : v # u => user'[v] = user[v]
    BY <1>6, <1>7, CallMoved DEF TxClientInv
<1>9. TxTypeOK'
    BY <1>3, <1>7, <1>8 DEF TxClientInv, TxTypeOK
<1>10. \A v \in TxUsers : user'[v].op = user[v].op
    BY <1>6, <1>8
<1>11. \A v \in TxUsers : SettledCall(v)'
    BY <1>7, <1>10 DEF TxClientInv, SettledCall, Settled
<1>12. \A op : (Settled(op) => Settled(op)') /\ (Truth(op) => Truth(op)')
    BY <1>7 DEF Settled, Truth, Commands
<1>13. ASSUME ~crossed
       PROVE  InStep' /\ \A v \in TxUsers : TrueCall(v)'
    <2>1. u \in Outstanding
        BY <1>1 DEF Outstanding
    <2>2. Outstanding = {u} /\ Telling(u)
        BY <2>1, <1>1, <1>13 DEF TxClientInv, InStep, Asking
    <2>3. requests = <<>> /\ answers = <<a>> /\ (a.ok => Truth(user[u].op))
        BY SMT, <1>2, <2>2 DEF Telling
    <2>4. answers' = <<>> /\ requests' = <<>>
        BY SMT, <2>3, <1>7
    <2>5. Outstanding' = {}
        BY <2>2, <1>6, <1>8 DEF Outstanding
    <2>6. Truth("get")
        BY DEF Truth
    <2>7. TrueCall(u)'
        BY <2>3, <2>6, <1>4, <1>6, <1>7, <1>8 DEF TrueCall, Truth, Commands
    <2>8. \A v \in TxUsers : v # u => TrueCall(v)'
        BY <1>7, <1>8, <1>13 DEF TxClientInv, TrueCall, Truth, Commands
    <2> QED
        BY <2>4, <2>5, <2>7, <2>8 DEF InStep
<1> QED
    BY <1>7, <1>9, <1>11, <1>12, <1>13 DEF TxClientInv

(* A call that gives up waiting leaves its answer on the connection, which  *)
(* is crossed from then on.                                                 *)
LEMMA TimeoutStep ==
    ASSUME TxClientInv, NEW u \in TxUsers, ReceiveTimesOut(u)
    PROVE  TxClientInv'
<1>1. user[u] \in TxCalls
    BY DEF TxClientInv, TxTypeOK
<1>2. PICK r : r = [user[u] EXCEPT !.at = "end"]
    OBVIOUS
<1>3. r \in TxCalls /\ r.op = user[u].op
    BY <1>1, <1>2 DEF TxCalls
<1>4. /\ user' = [user EXCEPT ![u] = r] /\ crossed' = TRUE
      /\ UNCHANGED <<tx, activeTx, requests, answers, server, told>>
    BY <1>2 DEF ReceiveTimesOut
<1> USE <1>4
<1>5. /\ user' \in [TxUsers -> TxCalls] /\ user'[u] = r
      /\ \A v \in TxUsers : v # u => user'[v] = user[v]
    BY <1>3, CallMoved DEF TxClientInv
<1>6. TxTypeOK'
    BY <1>5 DEF TxClientInv, TxTypeOK
<1>7. \A v \in TxUsers : SettledCall(v)'
    BY <1>3, <1>5 DEF TxClientInv, SettledCall, Settled
<1> QED
    BY <1>6, <1>7 DEF TxClientInv, Settled

(* The server: its answer to the one request tells what it did.             *)
LEMMA HandleStep ==
    ASSUME TxClientInv, Handle
    PROVE  TxClientInv'
<1>1. /\ requests \in Seq(TxRequests) /\ requests # <<>> /\ answers \in Seq(TxAnswers)
      /\ server \in ServerStates
      /\ UNCHANGED <<tx, activeTx, user, crossed, told>>
    BY DEF TxClientInv, TxTypeOK, Handle, HandleExecute, HandleCommit, HandleRollback
<1>2. PICK q : q = Head(requests)
    BY SMT
<1> USE <1>2
<1>3. q \in TxRequests /\ Tail(requests) \in Seq(TxRequests)
    BY SMT, <1>1
<1>4. PICK ok \in BOOLEAN, hit \in BOOLEAN :
         /\ Reply(ok, hit)
         /\ \/ q.op = "get" /\ UNCHANGED server
            \/ ok = FALSE /\ UNCHANGED server
            \/ /\ q.op = "commit" /\ server.status = "pending"
               /\ server' = [status |-> "committed", done |-> q.commands]
            \/ /\ q.op = "commit" /\ server.status = "pending" /\ ok = FALSE
               /\ \E done \in SUBSET q.commands : server' = [status |-> "aborting", done |-> done]
            \/ /\ q.op = "rollback" /\ server.status \in {"pending", "aborting"}
               /\ server' = [server EXCEPT !.status = "aborted"]
    <2>1. CASE HandleExecute
        BY <2>1 DEF HandleExecute
    <2>2. CASE HandleCommit
        BY <2>2 DEF HandleCommit
    <2>3. CASE HandleRollback
        BY <2>3 DEF HandleRollback
    <2> QED
        BY <2>1, <2>2, <2>3 DEF Handle
<1>5. PICK a : a = [ok |-> ok, hit |-> hit]
    OBVIOUS
<1>6. a \in TxAnswers /\ a.ok = ok
    BY <1>5 DEF TxAnswers
<1>7. requests' = Tail(requests) /\ answers' = Append(answers, a)
    BY <1>4, <1>5 DEF Reply
<1>8. requests' \in Seq(TxRequests) /\ answers' \in Seq(TxAnswers)
    BY SMT, <1>1, <1>3, <1>6, <1>7
<1>9. /\ server' \in ServerStates /\ ServerKeeps
      /\ ok /\ q.op = "commit" => server' = [status |-> "committed", done |-> q.commands]
      /\ ok /\ q.op = "rollback" => server'.status = "aborted"
    <2>1. CASE UNCHANGED server /\ (q.op = "get" \/ ok = FALSE)
        BY <1>1, <2>1 DEF ServerKeeps
    <2>2. CASE /\ q.op = "commit" /\ server.status = "pending"
               /\ server' = [status |-> "committed", done |-> q.commands]
        BY <1>3, <2>2 DEF ServerKeeps, ServerStates, TxRequests
    <2>3. CASE /\ q.op = "commit" /\ server.status = "pending" /\ ok = FALSE
               /\ \E done \in SUBSET q.commands : server' = [status |-> "aborting", done |-> done]
        BY SMT, <1>3, <2>3 DEF ServerKeeps, ServerStates, TxRequests
    <2>4. CASE /\ q.op = "rollback" /\ server.status \in {"pending", "aborting"}
               /\ server' = [server EXCEPT !.status = "aborted"]
        BY <1>1, <2>4 DEF ServerKeeps, ServerStates
    <2> QED
        BY <2>1, <2>2, <2>3, <2>4, <1>4
<1>10. SetsKept
    BY <1>1 DEF SetsKept, Commands
<1>11. TxTypeOK'
    BY <1>1, <1>8, <1>9 DEF TxClientInv, TxTypeOK
<1>12. \A op : Settled(op) => Settled(op)' /\ (Truth(op) => Truth(op)')
    BY <1>9, <1>10, TruthKept
<1>13. \A v \in TxUsers : SettledCall(v)'
    BY <1>1 DEF TxClientInv, SettledCall, Settled
<1>14. ASSUME ~crossed
       PROVE  InStep' /\ \A v \in TxUsers : TrueCall(v)'
    <2>1. \A v \in TxUsers : TrueCall(v)'
        BY <1>1, <1>12, <1>14 DEF TxClientInv, TrueCall, SettledCall
    <2>2. PICK u \in TxUsers : Outstanding = {u} /\ Asking(u)
        BY <1>1, <1>14 DEF TxClientInv, InStep, Telling
    <2>3. answers = <<>> /\ requests = <<q>> /\ q.op = user[u].op
          /\ (q.op = "commit" => q.commands = Commands)
        BY SMT, <2>2 DEF Asking
    <2> USE <2>3
    <2>4. requests' = <<>> /\ answers' = <<a>>
        BY SMT, <1>7
    <2>5. Outstanding' = {u}
        BY <2>2, <1>1 DEF Outstanding
    <2>6. a.ok => Truth(q.op)'
        BY <1>1, <1>6, <1>9 DEF Truth, Commands
    <2>7. Telling(u)'
        BY <2>4, <2>6, <1>1, <1>6 DEF Telling
    <2> QED
        BY <2>1, <2>5, <2>7 DEF InStep
<1> QED
    BY <1>1, <1>11, <1>12, <1>13, <1>14 DEF TxClientInv

(* The server expires the transaction, unless it has ended.                 *)
LEMMA ExpiresStep ==
    ASSUME TxClientInv, ServerExpires
    PROVE  TxClientInv'
<1>1. UNCHANGED <<tx, activeTx, user, requests, answers, crossed, told>>
    BY DEF ServerExpires
<1> USE <1>1
<1>2. server' \in ServerStates /\ ServerKeeps
    BY DEF TxClientInv, TxTypeOK, ServerExpires, ServerStates, ServerKeeps
<1>3. SetsKept
    BY DEF SetsKept, Commands
<1>4. TxTypeOK' /\ \A v \in TxUsers : SettledCall(v)'
    BY <1>2 DEF TxClientInv, TxTypeOK, SettledCall, Settled
<1> QED
    BY <1>2, <1>3, <1>4, QuietStep

(* Every step of the client, of the connection and of the server.           *)
LEMMA TxClientStep ==
    ASSUME TxClientInv, [TxClientNext]_txClientVars
    PROVE  TxClientInv'
<1>1. CASE UNCHANGED txClientVars
    <2>1. UNCHANGED <<tx, activeTx, user, requests, answers, server, crossed, told>>
        BY <1>1 DEF txClientVars
    <2> USE <2>1
    <2>2. SetsKept /\ ServerKeeps /\ TxTypeOK'
        BY DEF SetsKept, ServerKeeps, Commands, TxClientInv, TxTypeOK
    <2>3. \A v \in TxUsers : SettledCall(v)'
        BY DEF TxClientInv, SettledCall, Settled
    <2> QED
        BY <2>2, <2>3, QuietStep
<1>2. CASE TxClientNext
    BY <1>2, SetsStep, StartsStep, SendsStep, EndsStep, ReceiveStep, TimeoutStep,
       HandleStep, ExpiresStep DEF TxClientNext
<1> QED
    BY <1>1, <1>2

(* A Commit or a Rollback of the client library that returned nil stands    *)
(* for what the server did, as long as no receive timed out and no two      *)
(* calls shared the connection, for all goroutines and keys                 *)
(* (client/internal/transaction).                                           *)
THEOREM ClientEndingsAreTrue == TxClientSpec => []EndingsAreTrue
<1>1. TxClientInit => TxClientInv
    <2> SUFFICES ASSUME TxClientInit
                 PROVE  TxClientInv
        BY SMT
    <2>1. AtRest \in TxCalls /\ AtRest.ok = FALSE /\ AtRest.op = "none" /\ AtRest.at # "sent"
        BY DEF AtRest, TxCalls
    <2>2. TxTypeOK
        <3>1. tx \in TxStates /\ server \in ServerStates /\ told \in Returns
            BY DEF TxClientInit, TxStates, ServerStates, Returns
        <3>2. user \in [TxUsers -> TxCalls]
            BY <2>1 DEF TxClientInit
        <3>3. requests \in Seq(TxRequests) /\ answers \in Seq(TxAnswers)
            BY SMT DEF TxClientInit
        <3> QED
            BY <3>1, <3>2, <3>3 DEF TxClientInit, TxTypeOK
    <2>3. \A u \in TxUsers : user[u] = AtRest
        BY DEF TxClientInit
    <2>4. \A op \in {"commit", "rollback"} : told[op] # "nil"
        BY SMT DEF TxClientInit
    <2>5. Outstanding = {}
        BY <2>1, <2>3 DEF Outstanding
    <2>6. \A u \in TxUsers : SettledCall(u) /\ TrueCall(u)
        BY <2>1, <2>3 DEF SettledCall, TrueCall, Settled
    <2> QED
        BY <2>2, <2>4, <2>5, <2>6 DEF TxClientInv, InStep, TxClientInit
<1>2. TxClientInv => EndingsAreTrue
    BY DEF TxClientInv, EndingsAreTrue, Truth
<1> QED
    BY <1>1, <1>2, TxClientStep, PTL DEF TxClientSpec
==================================================================================
