------------------------------- MODULE TxnClient -------------------------------
(***************************************************************************)
(* A transaction of the client library (client/internal/transaction) that   *)
(* several goroutines share, from the return of Begin: its read, write and  *)
(* delete sets, the calls that end it, the connection all calls share, and  *)
(* the server at the other end.  Values are left out of the sets, and the   *)
(* ReadOnly option, which makes Set and Delete refuse, is off.              *)
(*                                                                          *)
(* cProtocol.Client.SendRequest writes a request and reads the next answer  *)
(* on its one connection without a lock, and does not look at the context;  *)
(* the server answers a connection's requests in order.  A receive that     *)
(* times out leaves its answer to the next one.                             *)
(***************************************************************************)
EXTENDS Naturals, Sequences, FiniteSets

CONSTANTS TxUsers,          \* the goroutines
          TxKeys,
          MaxTxTimeouts     \* bound on the receives that time out

VARIABLES
    tx,         \* status, writeSet, deleteSet and readSet of the txImpl
    activeTx,   \* client.activeTxs and txContexts hold the transaction
    user,       \* what each goroutine does
    requests,   \* sent on the connection, not handled
    answers,    \* answered on the connection, not received
    server,     \* the server's transaction, and the commands it applied
    crossed,    \* history: a receive timed out or two calls shared the connection
    told        \* history: what Commit and Rollback returned

txClientVars == <<tx, activeTx, user, requests, answers, server, crossed, told>>

AtRest == [op |-> "none", at |-> "idle", key |-> "none", ok |-> FALSE]

TxClientInit ==
    /\ tx = [status |-> "pending", writes |-> {}, deletes |-> {}, reads |-> {}]
    /\ activeTx = TRUE
    /\ user = [u \in TxUsers |-> AtRest]
    /\ requests = <<>> /\ answers = <<>>
    /\ server = [status |-> "pending", done |-> {}]
    /\ crossed = FALSE
    /\ told = [commit |-> "nothing", rollback |-> "nothing"]

(* Get keeps t.mu over its request; all others hold it for a moment.        *)
TxUnlocked == \A u \in TxUsers : user[u].op # "get"

Outstanding == {u \in TxUsers : user[u].at = "sent"}

(* The commands Commit builds, in the order of Go's maps: any order.        *)
Commands == ({"set"} \X tx.writes) \cup ({"delete"} \X tx.deletes)

-----------------------------------------------------------------------------

(* SendRequest up to the receive, or its failure to write.                  *)
Send(u, command) ==
    \/ /\ requests' = Append(requests, [op |-> user[u].op, commands |-> command])
       /\ user' = [user EXCEPT ![u].at = "sent"]
       /\ crossed' = (crossed \/ Outstanding # {})
    \/ /\ user' = [user EXCEPT ![u].at = "end"]
       /\ UNCHANGED <<requests, crossed>>

(* Set and Delete only touch the sets, and keep them apart.                 *)
TxSet(u, k) ==
    /\ user[u].at = "idle" /\ TxUnlocked /\ tx.status = "pending"
    /\ tx' = [tx EXCEPT !.writes = @ \cup {k}, !.deletes = @ \ {k}]
    /\ UNCHANGED <<activeTx, user, requests, answers, server, crossed, told>>

TxDelete(u, k) ==
    /\ user[u].at = "idle" /\ TxUnlocked /\ tx.status = "pending"
    /\ tx' = [tx EXCEPT !.deletes = @ \cup {k}, !.writes = @ \ {k}]
    /\ UNCHANGED <<activeTx, user, requests, answers, server, crossed, told>>

(* A Get of a key in none of the three sets asks the server; the others     *)
(* are answered from the sets and change nothing.                           *)
TxGet(u, k) ==
    /\ user[u].at = "idle" /\ TxUnlocked /\ tx.status = "pending"
    /\ k \notin tx.writes \cup tx.deletes \cup tx.reads
    /\ activeTx
    /\ user' = [user EXCEPT ![u] = [AtRest EXCEPT !.op = "get", !.at = "start", !.key = k]]
    /\ UNCHANGED <<tx, activeTx, requests, answers, server, crossed, told>>

SendGet(u) ==
    /\ user[u].op = "get" /\ user[u].at = "start"
    /\ Send(u, {})
    /\ UNCHANGED <<tx, activeTx, answers, server, told>>

(* Only a key that was found enters the read set.                           *)
EndGet(u) ==
    /\ user[u].op = "get" /\ user[u].at = "end"
    /\ tx' = IF user[u].ok THEN [tx EXCEPT !.reads = @ \cup {user[u].key}] ELSE tx
    /\ user' = [user EXCEPT ![u] = AtRest]
    /\ UNCHANGED <<activeTx, requests, answers, server, crossed, told>>

-----------------------------------------------------------------------------

TxCommitKeepsPending(u) ==
    /\ user[u].at = "idle" /\ TxUnlocked /\ tx.status = "pending"
    /\ user' = [user EXCEPT ![u] = [AtRest EXCEPT !.op = "commit", !.at = "start"]]
    /\ UNCHANGED <<tx, activeTx, requests, answers, server, crossed, told>>

(* Commit to the unlock: the sets are read after it, and stay as they are   *)
(* because the status is no longer pending.                                 *)
TxCommit(u) ==
    /\ user[u].at = "idle" /\ TxUnlocked /\ tx.status = "pending"
    /\ tx' = [tx EXCEPT !.status = "preparing"]
    /\ user' = [user EXCEPT ![u] = [AtRest EXCEPT !.op = "commit", !.at = "start"]]
    /\ UNCHANGED <<activeTx, requests, answers, server, crossed, told>>

(* Rollback to the unlock: it may start while a Commit is on its way, and   *)
(* leaves the status alone.                                                 *)
TxRollback(u) ==
    /\ user[u].at = "idle" /\ TxUnlocked /\ tx.status \in {"pending", "preparing"}
    /\ user' = [user EXCEPT ![u] = [AtRest EXCEPT !.op = "rollback", !.at = "start"]]
    /\ UNCHANGED <<tx, activeTx, requests, answers, server, crossed, told>>

(* Both look the context up, and give up if the other has removed it.       *)
SendEnding(u) ==
    /\ user[u].op \in {"commit", "rollback"} /\ user[u].at = "start"
    /\ IF activeTx
         THEN Send(u, IF user[u].op = "commit" THEN Commands ELSE {})
         ELSE user' = [user EXCEPT ![u].at = "end"] /\ UNCHANGED <<requests, crossed>>
    /\ UNCHANGED <<tx, activeTx, answers, server, told>>

(* The status by the answer; a Rollback sets aborted whatever it was told,  *)
(* and whatever a Commit has set before it.                                 *)
EndStatus(u) ==
    /\ user[u].op \in {"commit", "rollback"} /\ user[u].at = "end" /\ TxUnlocked
    /\ tx' = [tx EXCEPT !.status = IF user[u].op = "commit" /\ user[u].ok THEN "committed"
                                                                        ELSE "aborted"]
    /\ user' = [user EXCEPT ![u].at = "remove"]
    /\ UNCHANGED <<activeTx, requests, answers, server, crossed, told>>

(* The deferred removeTransaction, and the return.                          *)
RemoveTransaction(u) ==
    /\ user[u].at = "remove"
    /\ activeTx' = FALSE
    /\ told' = [told EXCEPT ![user[u].op] = IF user[u].ok THEN "nil" ELSE @]
    /\ user' = [user EXCEPT ![u] = AtRest]
    /\ UNCHANGED <<tx, requests, answers, server, crossed>>

-----------------------------------------------------------------------------

(* The next answer goes to any of the goroutines that read the connection.  *)
(* Commit and Rollback look at its status, Get at its one result too.       *)
Receive(u) ==
    /\ user[u].at = "sent" /\ answers # <<>>
    /\ answers' = Tail(answers)
    /\ LET a == Head(answers)
       IN  user' = [user EXCEPT ![u].at = "end",
                                ![u].ok = IF user[u].op = "get" THEN a.hit ELSE a.ok]
    /\ UNCHANGED <<tx, activeTx, requests, server, crossed, told>>

ReceiveTimesOut(u) ==
    /\ user[u].at = "sent"
    /\ Len(requests) + Len(answers) < Cardinality(Outstanding) + MaxTxTimeouts
    /\ user' = [user EXCEPT ![u].at = "end"]
    /\ crossed' = TRUE
    /\ UNCHANGED <<tx, activeTx, requests, answers, server, told>>

(* The server's transaction: a get of a pending one is answered 200, found  *)
(* or not; one of a finished one is answered 200 with an error inside.      *)
Reply(ok, hit) ==
    /\ requests' = Tail(requests)
    /\ answers' = Append(answers, [ok |-> ok, hit |-> hit])

HandleExecute ==
    /\ requests # <<>> /\ Head(requests).op = "get"
    /\ \E hit \in BOOLEAN : (hit => server.status = "pending") /\ Reply(TRUE, hit)
    /\ UNCHANGED server

(* handleTransactionCommit adds the commands and commits: refused unless    *)
(* pending, complete, or stopped part-way by a failing Raft call.  One past *)
(* its timeout stops with nothing applied; its status TxnTimeout allows the *)
(* same as TxnAborting, a Rollback and no Commit.                           *)
HandleCommit ==
    /\ requests # <<>> /\ Head(requests).op = "commit"
    /\ \/ /\ server.status # "pending" /\ Reply(FALSE, FALSE) /\ UNCHANGED server
       \/ /\ server.status = "pending" /\ Reply(TRUE, FALSE)
          /\ server' = [status |-> "committed", done |-> Head(requests).commands]
       \/ /\ server.status = "pending" /\ Reply(FALSE, FALSE)
          /\ \E done \in SUBSET Head(requests).commands :
                server' = [status |-> "aborting", done |-> done]

HandleRollback ==
    /\ requests # <<>> /\ Head(requests).op = "rollback"
    /\ IF server.status \in {"pending", "aborting"}
         THEN Reply(TRUE, FALSE) /\ server' = [server EXCEPT !.status = "aborted"]
         ELSE Reply(FALSE, FALSE) /\ UNCHANGED server

Handle ==
    /\ HandleExecute \/ HandleCommit \/ HandleRollback
    /\ UNCHANGED <<tx, activeTx, user, crossed, told>>

(* The cleanup goroutine aborts a transaction past its timeout.             *)
ServerExpires ==
    /\ server.status \in {"pending", "aborting"}
    /\ server' = [server EXCEPT !.status = "aborted"]
    /\ UNCHANGED <<tx, activeTx, user, requests, answers, crossed, told>>

TxClientNext ==
    \/ \E u \in TxUsers :
          \/ \E k \in TxKeys : TxSet(u, k) \/ TxDelete(u, k) \/ TxGet(u, k)
          \/ SendGet(u) \/ EndGet(u)
          \/ TxCommit(u) \/ TxRollback(u) \/ SendEnding(u) \/ EndStatus(u) \/ RemoveTransaction(u)
          \/ Receive(u) \/ ReceiveTimesOut(u)
    \/ Handle \/ ServerExpires

TxClientSpec == TxClientInit /\ [][TxClientNext]_txClientVars

-----------------------------------------------------------------------------

\* While no receive has timed out and no two calls have shared the connection, a
\* Commit that returned nil stands for a transaction the server committed with
\* exactly the sets of the client, and a Rollback that returned nil for one that
\* is aborted, however the goroutines' calls on the txImpl interleave.
EndingsAreTrue ==
    ~crossed =>
        /\ told.commit = "nil" => server = [status |-> "committed", done |-> Commands]
        /\ told.rollback = "nil" => server.status = "aborted"

=============================================================================
