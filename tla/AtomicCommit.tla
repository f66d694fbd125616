------------------------------ MODULE AtomicCommit ------------------------------
(***************************************************************************)
(* What a distributed transaction promises its callers: the participants    *)
(* agree one by one, it is committed only once all of them have, and it is  *)
(* decided once.  The two-phase commit (Coordinator) implements this.       *)
(***************************************************************************)
CONSTANT Participants

VARIABLES
    agreed,     \* the participants that are prepared
    decision    \* "open", "committed" or "aborted"

AtomicCommitInit == agreed = {} /\ decision = "open"

Agree(p) ==
    /\ decision = "open"
    /\ agreed' = agreed \cup {p} /\ UNCHANGED decision

DecideCommit ==
    /\ decision = "open" /\ agreed = Participants
    /\ decision' = "committed" /\ UNCHANGED agreed

DecideAbort ==
    /\ decision = "open"
    /\ decision' = "aborted" /\ UNCHANGED agreed

AtomicCommitNext == DecideCommit \/ DecideAbort \/ \E p \in Participants : Agree(p)

AtomicCommitSpec == AtomicCommitInit /\ [][AtomicCommitNext]_<<agreed, decision>>

=============================================================================
