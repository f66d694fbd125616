---------------------------- MODULE ProtocolServer ----------------------------
(***************************************************************************)
(* cProtocol/server.go: the accept loop, one handler goroutine per         *)
(* connection, the tables conns and connAuth they share under s.mu, the    *)
(* atomic counter connCount, and Start and Stop.  What the router does     *)
(* with a request is the business of the module that extends this one: a   *)
(* handler goroutine reaches "route" and goes on from "respond".           *)
(***************************************************************************)
EXTENDS Integers, FiniteSets, NoValue

CONSTANTS
    Conns,       \* connections clients may open
    maxConns,    \* s.maxConns
    MaxStarts    \* bound: how often the server is started

ASSUME ServerAssumption ==
    /\ IsFiniteSet(Conns)
    /\ maxConns \in Nat \ {0}
    /\ MaxStarts \in Nat \ {0}

VARIABLES
    running,     \* s.running
    listening,   \* s.listener is open
    starts,      \* calls of Start so far
    mpc,         \* where the caller of Start and Stop is
    apc,         \* per call of Start, where its accept loop is
    acc,         \* the connection the accept loop holds
    sock,        \* state of the TCP connection
    hpc,         \* where the connection's handler goroutine is
    conns,       \* s.conns
    connAuth,    \* s.connAuth: a ConnectionAuth, or None for no entry
    connCount,   \* s.connCount
    command,     \* the request the handler works on
    username     \* Meta["username"] of that request

loopVars == <<apc, acc>>
mainVars == <<listening, starts, mpc>>
tableVars == <<conns, connAuth, connCount>>
requestVars == <<command, username>>
serverVars == <<running, mainVars, loopVars, sock, hpc, tableVars, requestVars>>

Loops == 1..MaxStarts

\* A ConnectionAuth as acceptLoop creates it.  LoginTime is left out.
NotAuthenticated ==
    [Authenticated |-> FALSE, Username |-> None, Role |-> None,
     Permissions |-> None, CurrentDB |-> None]

ServerInit ==
    /\ running = FALSE /\ listening = FALSE /\ starts = 0 /\ mpc = "down"
    /\ apc = [l \in Loops |-> "none"] /\ acc = [l \in Loops |-> None]
    /\ sock = [c \in Conns |-> "none"] /\ hpc = [c \in Conns |-> "none"]
    /\ conns = {} /\ connAuth = [c \in Conns |-> None] /\ connCount = 0
    /\ command = [c \in Conns |-> None] /\ username = [c \in Conns |-> None]
-----------------------------------------------------------------------------
(* Start and Stop.  The engine calls them under e.mu, one after the other. *)

\* The swap of running from 0 to 1.
StartSwap ==
    /\ mpc = "down" /\ ~running /\ starts < MaxStarts
    /\ running' = TRUE /\ mpc' = "listen" /\ starts' = starts + 1
    /\ UNCHANGED <<listening, loopVars, sock, hpc, tableVars, requestVars>>

StartListens ==
    /\ mpc = "listen"
    /\ listening' = TRUE /\ mpc' = "up"
    /\ apc' = [apc EXCEPT ![starts] = "top"]
    /\ UNCHANGED <<running, starts, acc, sock, hpc, tableVars, requestVars>>

\* The address cannot be listened on.
StartFails ==
    /\ mpc = "listen"
    /\ running' = FALSE /\ mpc' = "down"
    /\ UNCHANGED <<listening, starts, loopVars, sock, hpc, tableVars, requestVars>>

StopSwap ==
    /\ mpc = "up" /\ running
    /\ running' = FALSE /\ mpc' = "close"
    /\ UNCHANGED <<listening, starts, loopVars, sock, hpc, tableVars, requestVars>>

\* listener.Close; the system resets the connections nobody accepted.
StopCloses ==
    /\ mpc = "close"
    /\ listening' = FALSE /\ mpc' = "sweep"
    /\ sock' = [c \in Conns |-> IF sock[c] = "backlog" THEN "closed" ELSE sock[c]]
    /\ UNCHANGED <<running, starts, loopVars, hpc, tableVars, requestVars>>

\* A Stop that leaves the open connections to their handlers.
StopSweepsTableOnly ==
    /\ mpc = "sweep"
    /\ mpc' = "down"
    /\ conns' = {} /\ connAuth' = [c \in Conns |-> None]
    /\ UNCHANGED <<running, listening, starts, loopVars, sock, hpc, connCount,
                   requestVars>>

StopSweeps ==
    /\ mpc = "sweep"
    /\ mpc' = "down"
    /\ sock' = [c \in Conns |-> IF c \in conns THEN "closed" ELSE sock[c]]
    /\ conns' = {} /\ connAuth' = [c \in Conns |-> None]
    /\ UNCHANGED <<running, listening, starts, loopVars, hpc, connCount, requestVars>>
-----------------------------------------------------------------------------
(* Clients, external. *)

Connect(c) ==
    /\ sock[c] = "none" /\ listening
    /\ sock' = [sock EXCEPT ![c] = "backlog"]
    /\ UNCHANGED <<running, mainVars, loopVars, hpc, tableVars, requestVars>>

\* The client closes the connection, or the network does; the server notices
\* it at its next read.
Disconnect(c) ==
    /\ sock[c] = "open" /\ hpc[c] = "read"
    /\ sock' = [sock EXCEPT ![c] = "closed"]
    /\ UNCHANGED <<running, mainVars, loopVars, hpc, tableVars, requestVars>>
-----------------------------------------------------------------------------
(* acceptLoop.  After a Stop and a Start the loop of the first Start may   *)
(* still be there: it finds running set again and goes on.                 *)

AcceptTop(l) ==
    /\ apc[l] = "top"
    /\ apc' = [apc EXCEPT ![l] = IF running THEN "accept" ELSE "none"]
    /\ UNCHANGED <<running, mainVars, acc, sock, hpc, tableVars, requestVars>>

AcceptFails(l) ==
    /\ apc[l] = "accept" /\ ~listening
    /\ apc' = [apc EXCEPT ![l] = IF running THEN "top" ELSE "none"]
    /\ UNCHANGED <<running, mainVars, acc, sock, hpc, tableVars, requestVars>>

Accept(l, c) ==
    /\ apc[l] = "accept" /\ listening /\ sock[c] = "backlog"
    /\ apc' = [apc EXCEPT ![l] = "check"] /\ acc' = [acc EXCEPT ![l] = c]
    /\ sock' = [sock EXCEPT ![c] = "open"]
    /\ UNCHANGED <<running, mainVars, hpc, tableVars, requestVars>>

RejectAtLimit(l) ==
    /\ apc[l] = "check" /\ connCount >= maxConns
    /\ apc' = [apc EXCEPT ![l] = "top"] /\ acc' = [acc EXCEPT ![l] = None]
    /\ sock' = [sock EXCEPT ![acc[l]] = "closed"]
    /\ UNCHANGED <<running, mainVars, hpc, tableVars, requestVars>>

BelowLimit(l) ==
    /\ apc[l] = "check" /\ connCount < maxConns
    /\ apc' = [apc EXCEPT ![l] = "insert"]
    /\ UNCHANGED <<running, mainVars, acc, sock, hpc, tableVars, requestVars>>

InsertConn(l) ==
    /\ apc[l] = "insert"
    /\ apc' = [apc EXCEPT ![l] = "count"]
    /\ conns' = conns \cup {acc[l]}
    /\ connAuth' = [connAuth EXCEPT ![acc[l]] = NotAuthenticated]
    /\ UNCHANGED <<running, mainVars, acc, sock, hpc, connCount, requestVars>>

\* The counter goes up and the handler goroutine starts.
CountConn(l) ==
    /\ apc[l] = "count"
    /\ apc' = [apc EXCEPT ![l] = "top"] /\ acc' = [acc EXCEPT ![l] = None]
    /\ connCount' = connCount + 1
    /\ hpc' = [hpc EXCEPT ![acc[l]] = "loop"]
    /\ UNCHANGED <<running, mainVars, sock, conns, connAuth, requestVars>>
-----------------------------------------------------------------------------
(* handleConnection *)

Goto(c, l) == hpc' = [hpc EXCEPT ![c] = l]

\* A handler that serves its connection for good.
LoopTestForever(c) ==
    /\ hpc[c] = "loop"
    /\ Goto(c, "read")
    /\ UNCHANGED <<running, mainVars, loopVars, sock, tableVars, requestVars>>

LoopTest(c) ==
    /\ hpc[c] = "loop"
    /\ Goto(c, IF running THEN "read" ELSE "close")
    /\ UNCHANGED <<running, mainVars, loopVars, sock, tableVars, requestVars>>

\* A read timeout only repeats the test of running.
ReadTimeout(c) ==
    /\ hpc[c] = "read" /\ sock[c] = "open"
    /\ Goto(c, "loop")
    /\ UNCHANGED <<running, mainVars, loopVars, sock, tableVars, requestVars>>

\* The connection is closed, the header is short or wrong, or the body does not
\* come in time.
ReadFails(c) ==
    /\ hpc[c] = "read"
    /\ Goto(c, "close")
    /\ UNCHANGED <<running, mainVars, loopVars, sock, tableVars, requestVars>>

ReadRequest(c, r) ==
    /\ hpc[c] = "read" /\ sock[c] = "open"
    /\ Goto(c, "gate")
    /\ command' = [command EXCEPT ![c] = r]
    /\ UNCHANGED <<running, mainVars, loopVars, sock, tableVars, username>>

IsConnectionAuthenticated(c) == connAuth[c] # None /\ connAuth[c].Authenticated

\* What a connection may send before a login.
Open(r) == r.cmd \in {"login", "cluster"}

PassGate(c) ==
    /\ hpc[c] = "gate"
    /\ IsConnectionAuthenticated(c) \/ Open(command[c])
    /\ Goto(c, "meta")
    /\ UNCHANGED <<running, mainVars, loopVars, sock, tableVars, requestVars>>

\* 401, and the connection is closed.
RejectUnauthenticated(c) ==
    /\ hpc[c] = "gate"
    /\ ~IsConnectionAuthenticated(c) /\ ~Open(command[c])
    /\ Goto(c, "close")
    /\ sock' = [sock EXCEPT ![c] = "closed"]
    /\ UNCHANGED <<running, mainVars, loopVars, tableVars, requestVars>>

\* GetConnectionUsername, under a lock of its own.  No handler uses the role.
FillMeta(c) ==
    /\ hpc[c] = "meta"
    /\ Goto(c, "route")
    /\ username' = [username EXCEPT ![c] =
                       IF connAuth[c] = None THEN None ELSE connAuth[c].Username]
    /\ UNCHANGED <<running, mainVars, loopVars, sock, tableVars, command>>

Respond(c) ==
    /\ hpc[c] = "respond"
    /\ Goto(c, "loop")
    /\ command' = [command EXCEPT ![c] = None]
    /\ username' = [username EXCEPT ![c] = None]
    /\ UNCHANGED <<running, mainVars, loopVars, sock, tableVars>>

\* The deferred function: Close, then the tables, then the counter.
CloseConn(c) ==
    /\ hpc[c] = "close"
    /\ Goto(c, "delete")
    /\ sock' = [sock EXCEPT ![c] = "closed"]
    /\ command' = [command EXCEPT ![c] = None]
    /\ UNCHANGED <<running, mainVars, loopVars, tableVars, username>>

DeleteConn(c) ==
    /\ hpc[c] = "delete"
    /\ Goto(c, "uncount")
    /\ conns' = conns \ {c} /\ connAuth' = [connAuth EXCEPT ![c] = None]
    /\ UNCHANGED <<running, mainVars, loopVars, sock, connCount, requestVars>>

UncountConn(c) ==
    /\ hpc[c] = "uncount"
    /\ Goto(c, "done")
    /\ connCount' = connCount - 1
    /\ UNCHANGED <<running, mainVars, loopVars, sock, conns, connAuth, requestVars>>
=============================================================================
