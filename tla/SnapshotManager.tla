----------------------------- MODULE SnapshotManager -----------------------------
(***************************************************************************)
(* SnapshotManager of consensus/snapshot.go: capturing the FSM's state with *)
(* a checksum, the snapshot it has raft take, sending a capture to another  *)
(* node and restoring from one.  The checksum is of sonic's serialisation   *)
(* of Go maps, whose keys come in any order: two computations on the same   *)
(* data agree only when they met the same order.                            *)
(***************************************************************************)
EXTENDS Integers, FiniteSets

CONSTANTS
    SnapKeys, SnapValues,
    MaxChanges      \* bound: the commands applied to the FSM

VARIABLES
    fsm,        \* the FSM's store, as a set of pairs
    states,     \* every store the FSM has had by applying commands
    snapLeader, \* node.IsLeader()
    due,        \* autoInterval has passed since lastSnapshot
    asked,      \* a CreateSnapshot has found IsLeader and waits for sm.mu
    taking,     \* the capture of a CreateSnapshot that holds sm.mu
    sent        \* the capture that is on its way to a node

snapVars == <<fsm, states, snapLeader, due, asked, taking, sent>>

NoCapture == [of |-> "nothing"]

SnapInit ==
    /\ fsm = {} /\ states = {{}}
    /\ snapLeader \in BOOLEAN /\ due = TRUE /\ asked = FALSE
    /\ taking = NoCapture /\ sent = {}

-----------------------------------------------------------------------------

(* A command of the log: the key gets a value or is deleted.                *)
ApplyChange(k, new) ==
    LET next == {p \in fsm : p[1] # k} \cup new
    IN  /\ Cardinality(states) < MaxChanges /\ new \subseteq {k} \X SnapValues
        /\ Cardinality(new) <= 1
        /\ fsm' = next /\ states' = states \cup {next}
        /\ UNCHANGED <<snapLeader, due, asked, taking, sent>>

SnapEnvironment ==
    /\ \/ snapLeader' = ~snapLeader /\ UNCHANGED due
       \/ ~due /\ due' = TRUE /\ UNCHANGED snapLeader
    /\ UNCHANGED <<fsm, states, asked, taking, sent>>

(* The orders in which a store's keys can be met, and calculateChecksum.    *)
Orders(store) == IF Cardinality(store) < 2 THEN {1} ELSE {1, 2}
Checksum(store, order) == <<store, order>>

(* captureState: FSM.Snapshot's copy, and its checksum.                     *)
Captures == {[store |-> fsm, checksum |-> Checksum(fsm, o)] : o \in Orders(fsm)}

(* CreateSnapshot of a leader, called by an operator or by the timer ...    *)
CreateSnapshot ==
    /\ snapLeader /\ ~asked /\ asked' = TRUE
    /\ UNCHANGED <<fsm, states, snapLeader, due, taking, sent>>

ShouldCreateSnapshot == snapLeader /\ due

StartAutoSnapshot == ShouldCreateSnapshot /\ CreateSnapshot

(* ... which holds sm.mu over the capture and the snapshot that it has raft *)
(* take, while commands go on being applied and the leader may change.      *)
CaptureState ==
    /\ asked /\ taking = NoCapture /\ asked' = FALSE
    /\ \E c \in Captures : taking' = [of |-> "fsm", capture |-> c]
    /\ UNCHANGED <<fsm, states, snapLeader, due, sent>>

(* Its end; a snapshot that raft fails to take does not set lastSnapshot.   *)
SnapshotTaken(ok) ==
    /\ taking # NoCapture /\ taking' = NoCapture
    /\ due' = (due /\ ~ok)
    /\ UNCHANGED <<fsm, states, snapLeader, asked, sent>>

(* InstallSnapshotToNode: a capture goes out (to the protocol address of    *)
(* the node's own configuration, if it has one, whatever the target), and   *)
(* may be damaged on its way or before it is restored.                      *)
SendSnapshotData(c) == sent = {} /\ sent' = {c}

InstallSnapshotToNode ==
    /\ snapLeader
    /\ \E c \in Captures : SendSnapshotData(c)
    /\ UNCHANGED <<fsm, states, snapLeader, due, asked, taking>>

DamageSnapshot ==
    /\ \E c \in sent, store \in SUBSET (SnapKeys \X SnapValues) :
          /\ \A p, q \in store : p[1] = q[1] => p = q
          /\ sent' = {[c EXCEPT !.store = store]}
    /\ UNCHANGED <<fsm, states, snapLeader, due, asked, taking>>

(* RestoreFromSnapshot under sm.mu: the store is replaced if the checksum,  *)
(* computed anew, is the one that came with it.                             *)
RestoreUnchecked(c) ==
    /\ taking = NoCapture /\ c \in sent
    /\ fsm' = c.store /\ sent' = sent \ {c}
    /\ UNCHANGED <<states, snapLeader, due, asked, taking>>

RestoreFromSnapshot(c) ==
    /\ taking = NoCapture /\ c \in sent
    /\ \E o \in Orders(c.store) :
          fsm' = IF Checksum(c.store, o) = c.checksum THEN c.store ELSE fsm
    /\ sent' = sent \ {c}
    /\ UNCHANGED <<states, snapLeader, due, asked, taking>>

SnapNext ==
    \/ \E k \in SnapKeys : ApplyChange(k, {}) \/ \E v \in SnapValues : ApplyChange(k, {<<k, v>>})
    \/ SnapEnvironment
    \/ CreateSnapshot \/ StartAutoSnapshot \/ CaptureState \/ \E ok \in BOOLEAN : SnapshotTaken(ok)
    \/ InstallSnapshotToNode \/ DamageSnapshot
    \/ \E c \in sent : RestoreFromSnapshot(c)

SnapSpec == SnapInit /\ [][SnapNext]_snapVars

-----------------------------------------------------------------------------

(* Whatever is restored, the FSM holds a store that applying commands had   *)
(* led to: a damaged snapshot never replaces it (RestoreFromSnapshot's      *)
(* checksum, against the order in which sonic meets the keys).              *)
StoreWasApplied == fsm \in states

=============================================================================
