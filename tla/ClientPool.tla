------------------------------ MODULE ClientPool ------------------------------
(***************************************************************************)
(* The client library's connection pool (client/pool.go) over protocol     *)
(* clients (cProtocol/client.go), each one TCP connection on which         *)
(* requests and answers carry no numbers: an answer belongs to a request   *)
(* only by its place.  Goroutines take clients from the pool, call the     *)
(* server and put them back; the cleanup goroutine and Close run beside    *)
(* them.  The server answers the requests of a connection in order.        *)
(***************************************************************************)
EXTENDS Integers, Sequences, FiniteSets

CONSTANTS Users,         \* goroutines that use the pool
          Clients,       \* PooledClients that can be created
          None,
          maxSize, minSize,
          MaxSent,       \* requests on one connection
          MaxTroubles    \* broken connections, timeouts, expirations

ASSUME PoolAssumption ==
    /\ maxSize \in Nat \ {0} /\ minSize \in 0 .. maxSize
    /\ None \notin Clients

VARIABLES
    channel, chanClosed,      \* p.clients
    currentSize, closed,
    made, open,               \* clients created; their protocol client runs
    old, idleLong,            \* past maxLifetime; idle past idleTimeout
    conn, alive,              \* number of the client's connection; peer is there
    sent, answered, read,     \* requests and answers on that connection
    lost,                     \* history: receives on it that timed out
    pc, held, num, on, reply, \* a user: its client, its request, last answer
    cpc, toRemove, toKeep, needed, fresh,    \* cleanup
    kpc,                      \* Close
    panicked, troubles

pool    == <<channel, chanClosed, currentSize, closed>>
clients == <<made, open, old, idleLong>>
conns   == <<conn, alive, sent, answered, read, lost>>
users   == <<pc, held, num, on, reply>>
cleaner == <<cpc, toRemove, toKeep, needed, fresh>>
vars    == <<pool, clients, conns, users, cleaner, kpc, panicked, troubles>>

\* NewClientPool: minSize clients in the channel.
Init ==
    /\ made \in SUBSET Clients /\ Cardinality(made) = minSize
    /\ open = made
    /\ channel \in [1 .. minSize -> made]
    /\ \A c \in made : \E k \in 1 .. minSize : channel[k] = c
    /\ chanClosed = FALSE /\ currentSize = minSize /\ closed = FALSE
    /\ old = {} /\ idleLong = {}
    /\ conn = [c \in Clients |-> 1] /\ alive = [c \in Clients |-> c \in made]
    /\ sent = [c \in Clients |-> 0] /\ answered = [c \in Clients |-> 0]
    /\ read = [c \in Clients |-> 0] /\ lost = [c \in Clients |-> 0]
    /\ pc = [u \in Users |-> "idle"] /\ held = [u \in Users |-> None]
    /\ num = [u \in Users |-> 0] /\ on = [u \in Users |-> 0]
    /\ reply = [u \in Users |-> None]
    /\ cpc = "wait" /\ toRemove = << >> /\ toKeep = << >> /\ needed = 0
    /\ fresh = None
    /\ kpc = "start" /\ panicked = FALSE /\ troubles = 0

Trouble == troubles < MaxTroubles /\ troubles' = troubles + 1
Calm == UNCHANGED <<panicked, troubles>>
Panic ==
    /\ panicked' = TRUE
    /\ UNCHANGED <<pool, clients, conns, users, cleaner, kpc, troubles>>

-----------------------------------------------------------------------------
(* One protocol client *)

isExpired(c, inUse) == c \in old \/ (~inUse /\ c \in idleLong)

\* Start: the connection is dialled (and logged in) before the client is used.
Connected(c) ==
    /\ made' = made \cup {c} /\ open' = open \cup {c}
    /\ alive' = [alive EXCEPT ![c] = TRUE]
    /\ UNCHANGED <<old, idleLong, conn, sent, answered, read, lost>>

\* Stop.
realClose(c) ==
    /\ open' = open \ {c} /\ alive' = [alive EXCEPT ![c] = FALSE]
    /\ old' = old \ {c} /\ idleLong' = idleLong \ {c}
    /\ sent' = [sent EXCEPT ![c] = 0] /\ answered' = [answered EXCEPT ![c] = 0]
    /\ read' = [read EXCEPT ![c] = 0] /\ lost' = [lost EXCEPT ![c] = 0]
    /\ UNCHANGED <<made, conn>>

decrementSize ==
    currentSize' = IF currentSize > 0 THEN currentSize - 1 ELSE 0

\* SendRequest up to its receive: it is on the connection the client has now.
Send(u, c) ==
    /\ c \in open /\ alive[c] /\ sent[c] < MaxSent
    /\ sent' = [sent EXCEPT ![c] = @ + 1]
    /\ num' = [num EXCEPT ![u] = sent[c] + 1] /\ on' = [on EXCEPT ![u] = conn[c]]
    /\ UNCHANGED <<conn, alive, answered, read, lost>>

\* receiveResponse reads whatever answer comes first.
Receive(u, c) ==
    /\ on[u] = conn[c] /\ answered[c] > read[c]
    /\ read' = [read EXCEPT ![c] = @ + 1]
    /\ UNCHANGED <<conn, alive, sent, answered, lost>>

ReceiveTimesOutResends(u, c) ==
    /\ on[u] = conn[c] /\ Trouble
    /\ lost' = [lost EXCEPT ![c] = @ + 1]
    /\ sent' = [sent EXCEPT ![c] = @ + 1]
    /\ UNCHANGED <<conn, alive, answered, read>>

\* ... or gives up and leaves the connection as it is; its answer may come later.
ReceiveTimesOut(u, c) ==
    /\ on[u] = conn[c] /\ Trouble
    /\ lost' = [lost EXCEPT ![c] = @ + 1]
    /\ UNCHANGED <<conn, alive, sent, answered, read>>

\* ... or meets a connection that was closed under it.
ReceiveFails(u, c) ==
    /\ c \notin open \/ ~alive[c] \/ on[u] # conn[c]
    /\ UNCHANGED conns

ServerAnswers(c) ==
    /\ alive[c] /\ answered[c] < sent[c]
    /\ answered' = [answered EXCEPT ![c] = @ + 1]
    /\ UNCHANGED <<pool, clients, conn, alive, sent, read, lost, users, cleaner,
                   kpc>>
    /\ Calm

\* The server drops the connection.
Break(c) ==
    /\ alive[c] /\ Trouble /\ alive' = [alive EXCEPT ![c] = FALSE]
    /\ UNCHANGED <<pool, clients, conn, sent, answered, read, lost, users, cleaner,
                   kpc, panicked>>

\* performHealthCheck: a dead connection is replaced; a failed attempt leaves the
\* client without one, as does Break.
Reconnect(c) ==
    /\ c \in open /\ ~alive[c]
    /\ alive' = [alive EXCEPT ![c] = TRUE] /\ conn' = [conn EXCEPT ![c] = @ + 1]
    /\ sent' = [sent EXCEPT ![c] = 0] /\ answered' = [answered EXCEPT ![c] = 0]
    /\ read' = [read EXCEPT ![c] = 0] /\ lost' = [lost EXCEPT ![c] = 0]
    /\ UNCHANGED <<pool, clients, users, cleaner, kpc>> /\ Calm

\* Time passes for a client.
Age(c) ==
    /\ Trouble /\ c \in open
    /\ \/ c \notin old /\ old' = old \cup {c} /\ UNCHANGED idleLong
       \/ c \notin idleLong /\ idleLong' = idleLong \cup {c} /\ UNCHANGED old
    /\ UNCHANGED <<pool, made, open, conns, users, cleaner, kpc, panicked>>

\* GetConn and Put note that the client was used.
Touch(c) == idleLong' = idleLong \ {c}

-----------------------------------------------------------------------------
(* Get *)

Goto(u, l) == pc' = [pc EXCEPT ![u] = l]
Has(u, c) == held' = [held EXCEPT ![u] = c]
UserStays == UNCHANGED <<num, on, reply>>
CallOver(u) ==
    num' = [num EXCEPT ![u] = 0] /\ on' = [on EXCEPT ![u] = 0] /\ UNCHANGED reply

GetCheck(u) ==
    /\ pc[u] = "idle" /\ ~closed
    /\ Goto(u, "take")
    /\ UNCHANGED <<pool, clients, conns, held, cleaner, kpc>> /\ UserStays /\ Calm

\* The select on the channel.
Take(u) ==
    /\ pc[u] = "take" /\ channel # << >>
    /\ channel' = Tail(channel)
    /\ Has(u, Head(channel))
    /\ Goto(u, IF isExpired(Head(channel), FALSE) THEN "discard" ELSE "probe")
    /\ UNCHANGED <<chanClosed, currentSize, closed, clients, conns, cleaner, kpc>>
    /\ UserStays /\ Calm

TakeNothing(u) ==
    /\ pc[u] = "take" /\ channel = << >> /\ ~chanClosed
    /\ Goto(u, "create")
    /\ UNCHANGED <<pool, clients, conns, held, cleaner, kpc>> /\ UserStays /\ Calm

\* IsHealthy asks for the cluster's state: a call like any other.  What comes back
\* may be refused as an answer to it, whether or not it is one.
Probe(u) ==
    /\ pc[u] \in {"probe", "putprobe"} /\ Send(u, held[u])
    /\ Goto(u, IF pc[u] = "probe" THEN "probing" ELSE "putprobing")
    /\ UNCHANGED <<pool, clients, held, reply, cleaner, kpc>> /\ Calm

ProbeSucceeds(u) ==
    /\ pc[u] \in {"probing", "putprobing"} /\ Receive(u, held[u])
    /\ IF pc[u] = "probing" THEN Touch(held[u]) /\ Goto(u, "have")
                            ELSE Goto(u, "push") /\ UNCHANGED idleLong
    /\ UNCHANGED <<pool, made, open, old, held, cleaner, kpc>> /\ CallOver(u) /\ Calm

ProbeFails(u) ==
    LET c == held[u]
        out == IF pc[u] \in {"probe", "probing"} THEN "discard" ELSE "putdiscard"
    IN /\ \/ /\ pc[u] \in {"probing", "putprobing"}
             /\ \/ (Receive(u, c) \/ ReceiveFails(u, c)) /\ UNCHANGED troubles
                \/ ReceiveTimesOut(u, c)
          \/ /\ pc[u] \in {"probe", "putprobe"} /\ (c \notin open \/ ~alive[c])
             /\ UNCHANGED <<conns, troubles>>
       /\ Goto(u, out)
       /\ UNCHANGED <<pool, clients, held, cleaner, kpc, panicked>> /\ CallOver(u)

\* A client that is not good any more is closed and no longer counted.
Discard(u) ==
    /\ pc[u] \in {"discard", "putdiscard"}
    /\ realClose(held[u]) /\ decrementSize
    /\ Has(u, None) /\ Goto(u, IF pc[u] = "discard" THEN "create" ELSE "idle")
    /\ UNCHANGED <<channel, chanClosed, closed, cleaner, kpc>>
    /\ UserStays /\ Calm

createNewClient(u) ==
    /\ pc[u] = "create"
    /\ IF currentSize >= maxSize
       THEN Goto(u, "idle") /\ UNCHANGED currentSize
       ELSE Goto(u, "dial") /\ currentSize' = currentSize + 1
    /\ UNCHANGED <<channel, chanClosed, closed, clients, conns, held, cleaner, kpc>>
    /\ UserStays /\ Calm

Dial(u) ==
    /\ pc[u] = "dial"
    /\ \E c \in Clients \ made : Connected(c) /\ Has(u, c)
    /\ Goto(u, "have")
    /\ UNCHANGED <<pool, cleaner, kpc>> /\ UserStays /\ Calm

DialFailsCounted(u) ==
    /\ pc[u] = "dial" /\ Goto(u, "idle") /\ UNCHANGED currentSize
    /\ UNCHANGED <<channel, chanClosed, closed, clients, conns, held, cleaner, kpc>>
    /\ UserStays /\ Calm

DialFails(u) ==
    /\ pc[u] = "dial" /\ Goto(u, "idle") /\ decrementSize
    /\ UNCHANGED <<channel, chanClosed, closed, clients, conns, held, cleaner, kpc>>
    /\ UserStays /\ Calm

-----------------------------------------------------------------------------
(* Use and Put *)

Call(u) ==
    /\ pc[u] = "have" /\ Send(u, held[u]) /\ Goto(u, "calling")
    /\ UNCHANGED <<pool, clients, held, reply, cleaner, kpc>> /\ Calm

\* reply: the number of the request, of the answer taken for it, and how many
\* receives had timed out on the connection.
CallReturns(u) ==
    LET c == held[u]
    IN /\ pc[u] = "calling" /\ Receive(u, c) /\ Goto(u, "have")
       /\ reply' = [reply EXCEPT
                      ![u] = [req |-> num[u], ans |-> read'[c], lost |-> lost[c]]]
       /\ num' = [num EXCEPT ![u] = 0] /\ on' = [on EXCEPT ![u] = 0]
       /\ UNCHANGED <<pool, clients, held, cleaner, kpc>> /\ Calm

CallFails(u) ==
    /\ pc[u] = "calling" /\ Goto(u, "have")
    /\ \/ ReceiveFails(u, held[u]) /\ UNCHANGED troubles
       \/ ReceiveTimesOut(u, held[u])
    /\ UNCHANGED <<pool, clients, held, cleaner, kpc, panicked>> /\ CallOver(u)

PutDropsWhenClosed(u) ==
    LET c == held[u]
    IN /\ pc[u] = "have"
       /\ IF closed
          THEN Has(u, None) /\ Goto(u, "idle") /\ UNCHANGED <<clients, conns>>
          ELSE /\ Touch(c) /\ Goto(u, IF c \in old THEN "putdiscard" ELSE "putprobe")
               /\ UNCHANGED <<made, open, old, conns, held>>
       /\ reply' = [reply EXCEPT ![u] = None]
       /\ UNCHANGED <<pool, num, on, cleaner, kpc>> /\ Calm

\* Put reads closed once.
Put(u) ==
    LET c == held[u]
    IN /\ pc[u] = "have"
       /\ IF closed
          THEN realClose(c) /\ Has(u, None) /\ Goto(u, "idle")
          ELSE /\ Touch(c) /\ Goto(u, IF c \in old THEN "putdiscard" ELSE "putprobe")
               /\ UNCHANGED <<made, open, old, conns, held>>
       /\ reply' = [reply EXCEPT ![u] = None]
       /\ UNCHANGED <<pool, num, on, cleaner, kpc>> /\ Calm

PushKeeps(u) ==
    /\ pc[u] = "push" /\ ~chanClosed
    /\ IF Len(channel) < maxSize
       THEN channel' = Append(channel, held[u]) /\ Goto(u, "have") /\ UNCHANGED held
       ELSE Goto(u, "putdiscard") /\ UNCHANGED <<channel, held>>
    /\ UNCHANGED <<chanClosed, currentSize, closed, clients, conns, cleaner, kpc>>
    /\ UserStays /\ Calm

\* The select that gives the client back.
Push(u) ==
    /\ pc[u] = "push" /\ ~chanClosed
    /\ IF Len(channel) < maxSize
       THEN channel' = Append(channel, held[u]) /\ Has(u, None) /\ Goto(u, "idle")
       ELSE Goto(u, "putdiscard") /\ UNCHANGED <<channel, held>>
    /\ UNCHANGED <<chanClosed, currentSize, closed, clients, conns, cleaner, kpc>>
    /\ UserStays /\ Calm

\* Receiving from the closed channel yields nil, on which isExpired panics; sending
\* on it panics as well.
UserPanics(u) ==
    /\ chanClosed
    /\ pc[u] = "push" \/ (pc[u] = "take" /\ channel = << >>)
    /\ Panic

-----------------------------------------------------------------------------
(* cleanup and Close *)

CleanupStart ==
    /\ cpc = "wait"
    /\ cpc' = IF closed THEN "stopped" ELSE "drain"
    /\ UNCHANGED <<pool, clients, conns, users, toRemove, toKeep, needed, fresh, kpc>>
    /\ Calm

\* Every client in the channel is taken out and sorted.
CleanupDrain ==
    /\ cpc = "drain" /\ channel # << >>
    /\ channel' = Tail(channel)
    /\ LET c == Head(channel)
       IN IF isExpired(c, FALSE)
          THEN toRemove' = Append(toRemove, c) /\ UNCHANGED toKeep
          ELSE toKeep' = Append(toKeep, c) /\ UNCHANGED toRemove
    /\ UNCHANGED <<chanClosed, currentSize, closed, clients, conns, users, cpc,
                   needed, fresh, kpc>>
    /\ Calm

CleanupDrained ==
    /\ cpc = "drain" /\ channel = << >> /\ ~chanClosed /\ cpc' = "remove"
    /\ UNCHANGED <<pool, clients, conns, users, toRemove, toKeep, needed, fresh, kpc>>
    /\ Calm

CleanupRemove ==
    /\ cpc = "remove" /\ toRemove # << >>
    /\ realClose(Head(toRemove)) /\ decrementSize
    /\ toRemove' = Tail(toRemove)
    /\ UNCHANGED <<channel, chanClosed, closed, users, cpc, toKeep, needed, fresh,
                   kpc>>
    /\ Calm

CleanupRestore ==
    /\ cpc = "remove" /\ toRemove = << >> /\ toKeep # << >> /\ ~chanClosed
    /\ toKeep' = Tail(toKeep)
    /\ IF Len(channel) < maxSize
       THEN /\ channel' = Append(channel, Head(toKeep))
            /\ UNCHANGED <<currentSize, clients, conns>>
       ELSE realClose(Head(toKeep)) /\ decrementSize /\ UNCHANGED channel
    /\ UNCHANGED <<chanClosed, closed, users, cpc, toRemove, needed, fresh, kpc>>
    /\ Calm

\* How many clients are missing is computed once, then they are created one by
\* one.
CleanupNeeded ==
    /\ cpc = "remove" /\ toRemove = << >> /\ toKeep = << >>
    /\ needed' = IF currentSize < minSize THEN minSize - currentSize ELSE 0
    /\ cpc' = IF currentSize < minSize THEN "create" ELSE "wait"
    /\ UNCHANGED <<pool, clients, conns, users, toRemove, toKeep, fresh, kpc>>
    /\ Calm

CleanupCreate ==
    /\ cpc = "create"
    /\ \/ \E c \in Clients \ made : Connected(c) /\ fresh' = c /\ cpc' = "count"
          /\ UNCHANGED needed
       \/ cpc' = "wait" /\ needed' = 0 /\ UNCHANGED <<clients, conns, fresh>>
    /\ UNCHANGED <<pool, users, toRemove, toKeep, kpc>> /\ Calm

CleanupCount ==
    /\ cpc = "count" /\ cpc' = "push"
    /\ currentSize' = currentSize + 1
    /\ UNCHANGED <<channel, chanClosed, closed, clients, conns, users, toRemove,
                   toKeep, needed, fresh, kpc>>
    /\ Calm

\* A plain send: it waits while the channel is full.
CleanupPush ==
    /\ cpc = "push" /\ ~chanClosed /\ Len(channel) < maxSize
    /\ channel' = Append(channel, fresh) /\ fresh' = None
    /\ needed' = needed - 1 /\ cpc' = IF needed > 1 THEN "create" ELSE "wait"
    /\ UNCHANGED <<chanClosed, currentSize, closed, clients, conns, users, toRemove,
                   toKeep, kpc>>
    /\ Calm

CleanupPanics ==
    /\ chanClosed
    /\ \/ cpc = "drain" /\ channel = << >>
       \/ cpc = "remove" /\ toRemove = << >> /\ toKeep # << >>
       \/ cpc = "push"
    /\ Panic

CloseSet ==
    /\ kpc = "start" /\ kpc' = "close" /\ closed' = TRUE
    /\ UNCHANGED <<channel, chanClosed, currentSize, clients, conns, users, cleaner>>
    /\ Calm

CloseChannel ==
    /\ kpc = "close" /\ kpc' = "drain" /\ chanClosed' = TRUE
    /\ UNCHANGED <<channel, currentSize, closed, clients, conns, users, cleaner>>
    /\ Calm

CloseDrain ==
    /\ kpc = "drain" /\ channel # << >>
    /\ realClose(Head(channel)) /\ channel' = Tail(channel)
    /\ UNCHANGED <<chanClosed, currentSize, closed, users, cleaner, kpc>>
    /\ Calm

CloseZero ==
    /\ kpc = "drain" /\ channel = << >> /\ kpc' = "done" /\ currentSize' = 0
    /\ UNCHANGED <<channel, chanClosed, closed, clients, conns, users, cleaner>>
    /\ Calm

-----------------------------------------------------------------------------
User(u) ==
    \/ GetCheck(u) \/ Take(u) \/ TakeNothing(u)
    \/ Probe(u) \/ ProbeSucceeds(u) \/ ProbeFails(u) \/ Discard(u)
    \/ createNewClient(u) \/ Dial(u) \/ DialFails(u)
    \/ Call(u) \/ CallReturns(u) \/ CallFails(u) \/ Put(u) \/ Push(u)
    \/ UserPanics(u)

cleanup ==
    \/ CleanupStart \/ CleanupDrain \/ CleanupDrained \/ CleanupRemove
    \/ CleanupRestore \/ CleanupNeeded \/ CleanupCreate \/ CleanupCount
    \/ CleanupPush \/ CleanupPanics

Close == CloseSet \/ CloseChannel \/ CloseDrain \/ CloseZero

Next ==
    /\ ~panicked
    /\ \/ \E u \in Users : User(u)
       \/ cleanup \/ Close
       \/ \E c \in Clients : ServerAnswers(c) \/ Break(c) \/ Reconnect(c) \/ Age(c)

Spec == Init /\ [][Next]_vars

-----------------------------------------------------------------------------
(* Properties *)

Elems(s) == {s[k] : k \in DOMAIN s}

\* The clients in the hands of the pool, its cleanup and its users.
InPool == Elems(channel) \cup Elems(toRemove) \cup Elems(toKeep)
Hands == InPool \cup {fresh} \cup {held[u] : u \in Users}

\* A client is in one place: the pool never gives it to two goroutines, nor keeps
\* one that somebody uses, while users, cleanup and Close pass clients around
\* without a common lock.  Two goroutines on one connection would read each
\* other's answers.
OneOwner ==
    LET all == channel \o toRemove \o toKeep
    IN /\ \A j, k \in DOMAIN all : j # k => all[j] # all[k]
       /\ \A u, v \in Users : u # v /\ held[u] # None => held[u] # held[v]
       /\ \A u \in Users : held[u] \notin InPool
       /\ fresh \notin InPool
       /\ fresh # None => \A u \in Users : held[u] # fresh

\* The pool's size is the number of clients that exist or are being dialled: no
\* path through Get, Put or cleanup counts one twice, or forgets one and so takes
\* a place of the pool away for good.  It exceeds maxSize by minSize at most, which
\* cleanup may add when it works from a size it read before users dialled.
SizeCountsClients ==
    ~closed =>
        /\ currentSize <= maxSize + minSize
        /\ currentSize = Cardinality((Hands \ {None})
                                     \ (IF cpc = "count" THEN {fresh} ELSE {}))
                         + Cardinality({u \in Users : pc[u] = "dial"})

\* Connections are closed when nobody holds them any more, and after Close, once
\* its users have put their clients back and cleanup has ended, none is open.
NothingLeaks ==
    /\ open \subseteq Hands
    /\ (kpc = "done" /\ cpc = "stopped" /\ \A u \in Users : pc[u] = "idle") =>
           open = {}

\* An answer is as many places behind its request as receives have timed out on
\* the connection: with no timeout every caller gets its own answer, through any
\* number of owners and health checks, and after one nobody does until the
\* connection is replaced.
AnswersInStep ==
    \A u \in Users :
        reply[u] # None => reply[u].ans = reply[u].req - reply[u].lost
=============================================================================
