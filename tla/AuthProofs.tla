------------------------------ MODULE AuthProofs ------------------------------
(***************************************************************************)
(* Proofs about AuthServer: the connection tables fit the goroutines, and  *)
(* auth commands that nobody disturbs are atomic.                          *)
(***************************************************************************)
EXTENDS AuthServer, TLAPS

\* Leaves that name no prover are for Zenon.
USE Zenon

-----------------------------------------------------------------------------
(* The connection tables *)

\* Where a handler goroutine serves its connection, or is about to close it.
Serving == {"loop", "read", "gate", "meta", "route", "handle", "respond", "close"}

\* Where an accept loop holds a connection.
Holding == {"check", "insert", "count"}

\* The accept loops that have passed the limit and have not counted yet.
Passed == {l \in Loops : apc[l] \in {"insert", "count"}}

LiveConns == {c \in Conns : Live(c)}

\* What a counter that follows a finite set needs to know of Cardinality.  It is
\* proved from the library's theorems at the end of the module; until then it is
\* a hypothesis where connections are counted.
CountingFacts ==
    /\ \A S : IsFiniteSet(S) => Cardinality(S) \in Nat
    /\ \A S, T : IsFiniteSet(S) /\ T \subseteq S =>
                    IsFiniteSet(T) /\ Cardinality(T) <= Cardinality(S)
    /\ \A S, x : IsFiniteSet(S) /\ x \notin S => Cardinality(S \cup {x}) = Cardinality(S) + 1
    /\ \A S, x : IsFiniteSet(S) /\ x \in S => Cardinality(S \ {x}) = Cardinality(S) - 1
    /\ \A n \in Nat : IsFiniteSet(1 .. n) /\ Cardinality(1 .. n) = n
    /\ IsFiniteSet({}) /\ Cardinality({}) = 0

ServerShape ==
    /\ apc \in [Loops -> {"none", "top", "accept"} \cup Holding]
    /\ acc \in [Loops -> Conns \cup {None}]
    /\ sock \in [Conns -> {"none", "backlog", "open", "closed"}]
    /\ hpc \in [Conns -> {"none", "delete", "uncount", "done"} \cup Serving]
    /\ conns \subseteq Conns
    /\ connAuth = [c \in Conns |-> connAuth[c]]
    /\ starts \in 0..MaxStarts

\* A loop belongs to one call of Start, and begins once.
LoopsStart ==
    /\ mpc = "listen" => starts \in Loops /\ apc[starts] = "none"
    /\ \A l \in Loops : l > starts => apc[l] = "none"

\* A connection has one owner: the accept loop that holds it, then its handler.
OneOwner ==
    /\ \A l \in Loops : apc[l] \in Holding =>
          acc[l] \in Conns /\ hpc[acc[l]] = "none" /\ sock[acc[l]] \in {"open", "closed"}
    /\ \A l, m \in Loops : apc[l] \in Holding /\ apc[m] \in Holding /\ acc[l] = acc[m] => l = m
    /\ \A c \in Conns : hpc[c] # "none" => sock[c] \in {"open", "closed"}

\* Entries are those of connections that are being registered or served.
Entries ==
    \A c \in Conns : c \in conns \/ connAuth[c] # None =>
        hpc[c] \in Serving \cup {"delete"} \/ \E l \in Loops : apc[l] = "count" /\ acc[l] = c

\* A connection that is served, or about to be, and is not in conns is closed.
Swept ==
    /\ \A c \in Conns : Live(c) /\ c \notin conns => sock[c] = "closed"
    /\ \A c \in Conns : hpc[c] \in {"delete", "uncount"} => sock[c] = "closed"
    /\ \A l \in Loops : apc[l] = "count" /\ acc[l] \notin conns => sock[acc[l]] = "closed"

\* connCount counts the handlers; a loop that has passed the limit will add one.
Counted ==
    CountingFacts =>
        /\ connCount = Cardinality(LiveConns)
        /\ connCount + Cardinality(Passed) <= maxConns + starts - 1

\* Commands run in the handler goroutine.
Handled ==
    /\ at = [c \in Conns |-> at[c]]
    /\ \A c \in Conns : at[c] # "idle" => hpc[c] = "handle"

TableCore == ServerShape /\ LoopsStart /\ OneOwner /\ Entries /\ Swept /\ Counted
-----------------------------------------------------------------------------
(* Auth commands *)

\* The step a command may be at.
StepFits(l, cmd) ==
    CASE l = "operator" -> cmd \in AdminOnly \cup OwnOrAdmin
      [] l = "read" -> cmd \in AuthCommands \ {"revoke", "listperms"}
      [] l = "check" -> cmd \in {"update", "changepass", "reset"}
      [] l = "write" -> cmd \in {"changepass"} \cup (AdminOnly \ {"listusers"})
      [] l \in {"again", "mark"} -> cmd = "login"
      [] l \in {"list", "fetch"} -> cmd \in {"login", "delete", "listperms"}
      [] l = "revoke" -> cmd = "delete"
      [] l = "perm" -> cmd = "checkperm"
      [] OTHER -> l = "done" \/ cmd \in DatabaseCommands

DatabaseStep == {"dbexists", "dbperm", "dbset", "holders", "admins", "filter"}

AuthStep == {"operator", "read", "check", "write", "again", "mark", "list", "fetch",
             "revoke", "perm"}

AuthShape ==
    /\ users = [u \in Users |-> users[u]] /\ perms = [u \in Users |-> perms[u]]
    /\ \A u \in Users : perms[u] = [d \in Databases |-> perms[u][d]]
    /\ at \in [Conns -> {"idle", "done"} \cup AuthStep \cup DatabaseStep]
    /\ req = [p \in Conns |-> req[p]] /\ who = [p \in Conns |-> who[p]]
    /\ got = [p \in Conns |-> got[p]] /\ ans = [p \in Conns |-> ans[p]]
    /\ base = [p \in Conns |-> base[p]] /\ touched = [p \in Conns |-> touched[p]]
    /\ holders = [p \in Conns |-> holders[p]]
    /\ todo \in [Conns -> SUBSET Databases]
    /\ grants = [p \in Conns |-> grants[p]]
    /\ \A p \in Conns : grants[p] = [d \in Databases |-> grants[p][d]]

\* The requests that are on their way to the handlers, and who sent them.
RequestShape ==
    /\ requests \subseteq Requests
    /\ command = [c \in Conns |-> command[c]]
    /\ \A c \in Conns : hpc[c] \in {"gate", "meta", "route"} => command[c] \in Requests
    /\ username \in [Conns -> Users \cup {None}]
    /\ \A c \in Conns : connAuth[c] # None => connAuth[c].Username \in Users \cup {None}

\* The command of p is at one of its own steps.
CallFits(p) ==
    /\ at[p] # "idle" => WellFormed(req[p]) /\ StepFits(at[p], req[p].cmd)
    /\ at[p] # "done" => ans[p] = None
    /\ at[p] \notin {"fetch", "mark", "revoke", "done"} => grants[p] = NoPerms

\* What p has read and written of its user, if nobody else wrote there.
Undisturbed(p) ==
    at[p] # "idle" /\ Target(p) \notin touched[p] =>
        /\ at[p] = "done" =>
             UserEntry(Target(p)) = IF ans[p] = "error" THEN base[p]
                                    ELSE Effect(req[p], base[p])
        /\ at[p] \in {"check", "write"} /\ req[p].cmd \notin {"delete", "grant", "revoke"} =>
             got[p] = Changed(req[p], base[p].user)
        /\ at[p] # "done" /\ ~(at[p] \in {"list", "fetch", "revoke"} /\ req[p].cmd = "delete") =>
             UserEntry(Target(p)) = base[p]
        /\ at[p] \in {"list", "fetch", "revoke"} /\ req[p].cmd = "delete" =>
             users[Target(p)] = None
        /\ at[p] = "fetch" =>
             \A d \in Databases \ todo[p] : grants[p][d] = perms[Target(p)][d]
        /\ at[p] = "revoke" =>
             \A d \in Databases \ todo[p] : perms[Target(p)][d] = None

\* What a login has read.
LoginFits(p) ==
    at[p] # "idle" /\ req[p].cmd = "login" /\ Target(p) \notin touched[p] =>
        /\ at[p] \in {"again", "list", "fetch", "mark"} =>
             /\ users[Target(p)].Enabled
             /\ users[Target(p)].PasswordHash = HashPassword(req[p].pw)
        /\ at[p] \in {"list", "fetch", "mark"} => got[p] = users[Target(p)]
        /\ at[p] = "mark" => grants[p] = perms[Target(p)]

LoginDone(c) ==
    /\ at[c] = "done" /\ req[c].cmd = "login" /\ ans[c] = "ok" /\ connAuth[c] # None
    => /\ connAuth[c].Authenticated /\ connAuth[c].Username = Target(c)
       /\ Target(c) \notin touched[c] =>
             /\ connAuth[c].Role = users[Target(c)].Role
             /\ connAuth[c].Permissions = perms[Target(c)]
             /\ users[Target(c)].Enabled
             /\ users[Target(c)].PasswordHash = HashPassword(req[c].pw)

\* What handleDeleteDB knows of the users it does not have on its list any more.
HoldersSeen(p) ==
    /\ at[p] = "admins" =>
         \A u \in Users \ (touched[p] \cup holders[p]) : perms[u][req[p].db] = None
    /\ at[p] = "filter" =>
         \A u \in Users \ (touched[p] \cup holders[p]) :
             users[u] = None \/ perms[u][req[p].db] = None \/ IsSuperAdmin(users[u])

\* What is known of one goroutine's command.
OwnInv(p) == CallFits(p) /\ Undisturbed(p) /\ LoginFits(p) /\ LoginDone(p) /\ HoldersSeen(p)

\* The inductive invariant.
AuthInv ==
    /\ TableCore /\ Handled
    /\ AuthShape /\ RequestShape /\ \A p \in Conns : OwnInv(p)
-----------------------------------------------------------------------------
(* The connection tables, step by step *)

\* The number of handlers and of loops past the limit are numbers.
LEMMA CountsFinite ==
    ASSUME CountingFacts
    PROVE  /\ IsFiniteSet(LiveConns) /\ IsFiniteSet(Passed)
           /\ Cardinality(LiveConns) \in Nat /\ Cardinality(Passed) \in Nat
<1>1. IsFiniteSet(Loops)
  BY ServerAssumption DEF Loops, CountingFacts
<1>2. LiveConns \subseteq Conns /\ Passed \subseteq Loops
  BY DEF LiveConns, Passed
<1> QED
  BY <1>1, <1>2, ServerAssumption DEF CountingFacts

\* A step that leaves the server's state alone.
LEMMA ServerStays ==
    ASSUME TableCore, UNCHANGED <<starts, mpc, apc, acc, sock, hpc, tableVars>>
    PROVE  TableCore'
BY SMT DEF TableCore, ServerShape, LoopsStart, OneOwner, Entries, Swept, Counted, LiveConns,
       Passed, Live, tableVars

\* A handler goes on serving: the tables stay as they are.
LEMMA HandlerMoves ==
    ASSUME TableCore, NEW c \in Conns, NEW x \in Serving, hpc[c] \in Serving,
           hpc' = [hpc EXCEPT ![c] = x],
           UNCHANGED <<starts, mpc, apc, acc, sock, tableVars>>
    PROVE  TableCore'
<1>1. \A e \in Conns : /\ Live(e)' <=> Live(e)
                       /\ hpc'[e] = hpc[e] \/ (e = c /\ hpc'[e] = x)
  BY DEF TableCore, ServerShape, Live, Serving
<1>2. LiveConns' = LiveConns /\ Passed' = Passed
  BY <1>1 DEF LiveConns, Passed
<1>3. ServerShape'
  BY DEF TableCore, ServerShape, tableVars
<1>4. LoopsStart' /\ OneOwner'
  BY SMT, <1>1 DEF TableCore, LoopsStart, OneOwner, Serving, Holding, ServerShape
<1>5. Entries'
  BY <1>1 DEF TableCore, Entries, tableVars
<1>6. Swept'
  BY <1>1 DEF TableCore, Swept, Serving, tableVars
<1>7. Counted'
  BY <1>2 DEF TableCore, Counted, tableVars
<1> QED
  BY <1>3, <1>4, <1>5, <1>6, <1>7 DEF TableCore

\* A handler writes its own entry of connAuth.
LEMMA HandlerMarks ==
    ASSUME TableCore, NEW c \in Conns, NEW x, hpc[c] = "handle",
           connAuth' = [connAuth EXCEPT ![c] = x],
           UNCHANGED <<starts, mpc, apc, acc, sock, hpc, conns, connCount>>
    PROVE  TableCore'
<1>1. ServerShape'
  BY DEF TableCore, ServerShape
<1>2. LoopsStart' /\ OneOwner' /\ Swept' /\ Counted'
  BY DEF TableCore, LoopsStart, OneOwner, Swept, Counted, Live, LiveConns, Passed
<1>3. Entries'
  BY SMT DEF TableCore, ServerShape, Entries, Serving
<1> QED
  BY <1>1, <1>2, <1>3 DEF TableCore

\* Start and Stop.
LEMMA MainKeepsTable ==
    ASSUME TableCore, StartSwap \/ StartListens \/ StartFails \/ StopSwap
    PROVE  TableCore'
<1> USE DEF TableCore
<1>1. CASE StartSwap
  <2>1. LiveConns' = LiveConns /\ Passed' = Passed
    BY <1>1 DEF StartSwap, LiveConns, Live, Passed, loopVars
  <2>2. ServerShape' /\ LoopsStart'
    BY SMTT(20), <1>1, ServerAssumption DEF StartSwap, ServerShape, LoopsStart, Loops, loopVars, tableVars
  <2>3. OneOwner' /\ Entries' /\ Swept'
    BY <1>1 DEF StartSwap, OneOwner, Entries, Swept, Live, loopVars, tableVars
  <2>4. Counted'
    BY SMT, <1>1, <2>1, CountsFinite, ServerAssumption
       DEF StartSwap, Counted, ServerShape, tableVars
  <2> QED
    BY <2>2, <2>3, <2>4
<1>2. CASE StartListens
  <2>1. \A l \in Loops : apc'[l] = apc[l] \/ (l = starts /\ apc[l] = "none" /\ apc'[l] = "top")
    BY <1>2 DEF StartListens, ServerShape, LoopsStart
  <2>2. LiveConns' = LiveConns /\ Passed' = Passed
    BY <1>2, <2>1 DEF StartListens, LiveConns, Live, Passed
  <2>3. ServerShape' /\ LoopsStart'
    BY SMT, <1>2, <2>1, ServerAssumption DEF StartListens, ServerShape, LoopsStart, Loops, tableVars
  <2>4. OneOwner' /\ Entries' /\ Swept'
    BY SMT, <1>2, <2>1 DEF StartListens, OneOwner, Entries, Swept, Live, Holding, tableVars
  <2>5. Counted'
    BY <1>2, <2>2 DEF StartListens, Counted, tableVars
  <2> QED
    BY <2>3, <2>4, <2>5
<1>3. CASE StartFails \/ StopSwap
  <2>1. LiveConns' = LiveConns /\ Passed' = Passed
    BY <1>3 DEF StartFails, StopSwap, LiveConns, Live, Passed, loopVars
  <2>2. ServerShape' /\ LoopsStart' /\ Counted'
    BY <1>3, <2>1 DEF StartFails, StopSwap, ServerShape, LoopsStart, Counted, loopVars, tableVars
  <2>3. OneOwner' /\ Entries' /\ Swept'
    BY SMT, <1>3 DEF StartFails, StopSwap, OneOwner, Entries, Swept, Live, loopVars, tableVars
  <2> QED
    BY <2>2, <2>3
<1> QED
  BY <1>1, <1>2, <1>3

\* Stop closes the listener and sweeps the table; clients come and go.
LEMMA SocketsKeepTable ==
    ASSUME TableCore, StopCloses \/ StopSweeps \/ (\E c \in Conns : Connect(c) \/ Disconnect(c))
    PROVE  TableCore'
<1> USE DEF TableCore
<1>1. /\ UNCHANGED <<starts, apc, acc, hpc, connCount>>
      /\ mpc' # mpc => mpc' \in {"sweep", "down"}
  BY DEF StopCloses, StopSweeps, Connect, Disconnect, loopVars, tableVars, mainVars
<1>2. LiveConns' = LiveConns /\ Passed' = Passed /\ (\A c \in Conns : Live(c)' <=> Live(c))
  BY <1>1 DEF LiveConns, Live, Passed
<1>3. LoopsStart' /\ Counted'
  BY <1>1, <1>2 DEF LoopsStart, Counted
<1>4. CASE StopCloses \/ (\E c \in Conns : Connect(c) \/ Disconnect(c))
  <2>1. /\ UNCHANGED tableVars
        /\ sock' \in [Conns -> {"none", "backlog", "open", "closed"}]
        /\ \A c \in Conns : sock'[c] = sock[c] \/ sock[c] = "none"
                            \/ (sock[c] \in {"backlog", "open"} /\ sock'[c] = "closed")
    BY <1>4 DEF StopCloses, Connect, Disconnect, ServerShape
  <2>2. ServerShape'
    BY <1>1, <2>1 DEF ServerShape, tableVars
  <2>3. OneOwner'
    BY <1>1, <2>1 DEF OneOwner
  <2>4. Entries' /\ Swept'
    BY SMT, <1>1, <1>2, <2>1 DEF Entries, Swept, OneOwner, Live, tableVars, Holding
  <2> QED
    BY <1>3, <2>2, <2>3, <2>4
<1>5. CASE StopSweeps
  <2>1. /\ conns' = {} /\ \A c \in Conns : connAuth'[c] = None
        /\ \A c \in Conns : sock'[c] = IF c \in conns THEN "closed" ELSE sock[c]
    BY <1>5 DEF StopSweeps
  <2>2. ServerShape'
    BY <1>1, <1>5 DEF ServerShape, StopSweeps
  <2>3. OneOwner'
    BY <1>1, <2>1 DEF OneOwner
  <2>4. Entries' /\ Swept'
    BY SMT, <1>1, <1>2, <2>1 DEF Entries, Swept, OneOwner, Holding
  <2> QED
    BY <1>3, <2>2, <2>3, <2>4
<1> QED
  BY <1>4, <1>5

\* An accept loop that holds no connection goes round.
LEMMA LoopIdles ==
    ASSUME TableCore, NEW l \in Loops, AcceptTop(l) \/ AcceptFails(l)
    PROVE  TableCore'
<1> USE DEF TableCore
<1>1. /\ UNCHANGED <<starts, mpc, acc, sock, hpc, conns, connAuth, connCount>>
      /\ apc[l] \in {"top", "accept"}
      /\ \E x \in {"none", "top", "accept"} : apc' = [apc EXCEPT ![l] = x]
  BY DEF AcceptTop, AcceptFails, mainVars, tableVars
<1>2. \A m \in Loops : /\ apc'[m] = apc[m] \/ (m = l /\ apc'[m] \in {"none", "top", "accept"})
                       /\ apc'[m] \in Holding => apc[m] = apc'[m]
                       /\ apc[m] \in Holding => apc[m] = apc'[m]
  BY <1>1 DEF ServerShape, Holding
<1>3. LiveConns' = LiveConns /\ Passed' = Passed
  BY <1>1, <1>2 DEF LiveConns, Live, Passed, Holding
<1>4. ServerShape' /\ Counted'
  BY <1>1, <1>3 DEF ServerShape, Counted
<1>5. LoopsStart'
  BY <1>1, <1>2 DEF LoopsStart
<1>6. OneOwner'
  BY <1>1, <1>2 DEF OneOwner
<1>7. Entries' /\ Swept'
  BY SMT, <1>1, <1>2 DEF Entries, Swept, Live, Holding
<1> QED
  BY <1>4, <1>5, <1>6, <1>7

\* A loop takes a connection from the backlog: nobody else has it.
LEMMA AcceptKeepsTable ==
    ASSUME TableCore, NEW l \in Loops, NEW c \in Conns, Accept(l, c)
    PROVE  TableCore'
<1> USE DEF TableCore
<1>1. /\ UNCHANGED <<starts, mpc, hpc, conns, connAuth, connCount>>
      /\ apc[l] = "accept" /\ apc' = [apc EXCEPT ![l] = "check"]
      /\ acc' = [acc EXCEPT ![l] = c]
      /\ sock[c] = "backlog" /\ sock' = [sock EXCEPT ![c] = "open"]
  BY DEF Accept, mainVars, tableVars
<1>2. /\ \A m \in Loops : m # l => apc'[m] = apc[m] /\ acc'[m] = acc[m]
      /\ apc'[l] = "check" /\ acc'[l] = c /\ sock'[c] = "open"
      /\ \A e \in Conns : e # c => sock'[e] = sock[e]
  BY <1>1 DEF ServerShape
<1>3. LiveConns' = LiveConns /\ Passed' = Passed
  BY <1>1, <1>2 DEF LiveConns, Live, Passed
<1>4. hpc[c] = "none" /\ \A m \in Loops : apc[m] \in Holding => acc[m] # c
  BY <1>1 DEF OneOwner
<1>5. ServerShape' /\ Counted'
  BY <1>1, <1>3 DEF ServerShape, Counted, Holding
<1>6. LoopsStart'
  BY SMT, <1>1, <1>2 DEF LoopsStart
<1>7. OneOwner'
  BY SMT, <1>1, <1>2, <1>4 DEF OneOwner
<1>8. Entries'
  <2>1. \A m \in Loops, e \in Conns :
            apc[m] = "count" /\ acc[m] = e => apc'[m] = "count" /\ acc'[m] = e
    BY <1>1, <1>2
  <2> QED
    BY SMT, <1>1, <2>1 DEF Entries
<1>9. Swept'
  BY SMT, <1>1, <1>2, <1>4 DEF Swept, Live, Holding
<1> QED
  BY <1>5, <1>6, <1>7, <1>8, <1>9

\* A loop passes the limit, at most one connection too many for every other loop.
LEMMA LimitKeepsTable ==
    ASSUME TableCore, NEW l \in Loops, RejectAtLimit(l) \/ BelowLimit(l)
    PROVE  TableCore'
<1> USE DEF TableCore
<1>1. /\ UNCHANGED <<starts, mpc, hpc, conns, connAuth, connCount>>
      /\ apc[l] = "check"
      /\ \E x \in {"top", "insert"} : apc' = [apc EXCEPT ![l] = x]
  BY DEF RejectAtLimit, BelowLimit, mainVars, tableVars
<1>2. /\ \A m \in Loops : m # l => apc'[m] = apc[m] /\ acc'[m] = acc[m]
      /\ apc'[l] \in {"top", "insert"}
      /\ apc'[l] = "insert" => acc'[l] = acc[l] /\ UNCHANGED sock
      /\ \A e \in Conns : sock'[e] = sock[e] \/ (e = acc[l] /\ apc'[l] = "top" /\ sock'[e] = "closed")
  BY <1>1 DEF ServerShape, RejectAtLimit, BelowLimit
<1>3. acc[l] \in Conns /\ hpc[acc[l]] = "none"
  BY <1>1 DEF OneOwner, Holding
<1>4. ServerShape'
  BY <1>1, <1>3 DEF ServerShape, Holding, RejectAtLimit, BelowLimit
<1>5. LoopsStart'
  BY <1>1, <1>2 DEF LoopsStart
<1>6. OneOwner'
  BY SMT, <1>1, <1>2 DEF OneOwner, Holding
<1>7. Entries'
  <2>1. \A m \in Loops, e \in Conns :
            apc[m] = "count" /\ acc[m] = e => apc'[m] = "count" /\ acc'[m] = e
    BY <1>1, <1>2
  <2> QED
    BY SMT, <1>1, <2>1 DEF Entries
<1>8. Swept'
  BY SMT, <1>1, <1>2, <1>3 DEF Swept, Live, OneOwner, Holding
<1>9. LiveConns' = LiveConns
  BY <1>1 DEF LiveConns, Live
<1>10. CASE RejectAtLimit(l)
  <2>1. Passed' = Passed
    BY <1>1, <1>2, <1>10 DEF Passed, RejectAtLimit, ServerShape
  <2>2. Counted'
    BY <1>1, <1>9, <2>1 DEF Counted
  <2> QED
    BY <1>4, <1>5, <1>6, <1>7, <1>8, <2>2
<1>11. CASE BelowLimit(l)
  <2>1. Passed' \subseteq 1..starts
    BY SMT, <1>1, <1>2 DEF Passed, LoopsStart, Loops, ServerShape
  <2>2. starts \in Nat
    BY SMT, ServerAssumption DEF ServerShape
  <2>3. CountingFacts => Cardinality(Passed') <= starts /\ Cardinality(Passed') \in Nat
    BY <2>1, <2>2 DEF CountingFacts
  <2>4. CountingFacts => connCount \in Nat
    BY CountsFinite DEF Counted
  <2>5. connCount < maxConns
    BY <1>11 DEF BelowLimit
  <2>6. Counted'
    BY SMT, <1>1, <1>9, <2>3, <2>4, <2>5, ServerAssumption DEF Counted, ServerShape
  <2> QED
    BY <1>4, <1>5, <1>6, <1>7, <1>8, <2>6
<1> QED
  BY <1>10, <1>11

\* The connection gets its entries.
LEMMA InsertKeepsTable ==
    ASSUME TableCore, NEW l \in Loops, InsertConn(l)
    PROVE  TableCore'
<1> USE DEF TableCore
<1>1. /\ UNCHANGED <<starts, mpc, acc, sock, hpc, connCount>>
      /\ apc[l] = "insert" /\ apc' = [apc EXCEPT ![l] = "count"]
      /\ conns' = conns \cup {acc[l]}
      /\ connAuth' = [connAuth EXCEPT ![acc[l]] = NotAuthenticated]
  BY DEF InsertConn, mainVars
<1>2. /\ \A m \in Loops : m # l => apc'[m] = apc[m]
      /\ apc'[l] = "count"
      /\ acc[l] \in Conns
  BY <1>1 DEF ServerShape, OneOwner, Holding
<1>3. LiveConns' = LiveConns /\ Passed' = Passed
  BY <1>1, <1>2 DEF LiveConns, Live, Passed
<1>4. ServerShape' /\ Counted'
  BY <1>1, <1>2, <1>3 DEF ServerShape, Counted, Holding
<1>5. LoopsStart'
  BY <1>1, <1>2 DEF LoopsStart
<1>6. OneOwner'
  BY SMT, <1>1, <1>2 DEF OneOwner, Holding
<1>7. Entries'
  <2>1. \A e \in Conns : e # acc[l] => connAuth'[e] = connAuth[e] /\ (e \in conns' <=> e \in conns)
    BY <1>1, <1>2 DEF ServerShape
  <2> QED
    BY SMT, <1>1, <1>2, <2>1 DEF Entries
<1>8. Swept'
  BY SMT, <1>1, <1>2 DEF Swept, Live
<1> QED
  BY <1>4, <1>5, <1>6, <1>7, <1>8

\* The connection is counted and its handler starts.
LEMMA CountKeepsTable ==
    ASSUME TableCore, NEW l \in Loops, CountConn(l)
    PROVE  TableCore'
<1> USE DEF TableCore
<1>1. /\ UNCHANGED <<starts, mpc, sock, conns, connAuth>>
      /\ apc[l] = "count" /\ apc' = [apc EXCEPT ![l] = "top"]
      /\ acc' = [acc EXCEPT ![l] = None]
      /\ connCount' = connCount + 1
      /\ hpc' = [hpc EXCEPT ![acc[l]] = "loop"]
  BY DEF CountConn, mainVars
<1> DEFINE c == acc[l]
<1>2. /\ c \in Conns /\ hpc[c] = "none" /\ sock[c] \in {"open", "closed"}
      /\ \A m \in Loops : m # l => apc'[m] = apc[m] /\ acc'[m] = acc[m]
      /\ apc'[l] = "top"
      /\ \A m \in Loops : m # l /\ apc[m] \in Holding => acc[m] # c
      /\ hpc'[c] = "loop" /\ \A e \in Conns : e # c => hpc'[e] = hpc[e]
  BY <1>1 DEF ServerShape, OneOwner, Holding
<1>3. /\ Passed' = Passed \ {l} /\ l \in Passed
      /\ LiveConns' = LiveConns \cup {c} /\ c \notin LiveConns
  BY <1>1, <1>2 DEF LiveConns, Live, Passed
<1>4. CountingFacts => /\ Cardinality(Passed') = Cardinality(Passed) - 1
                       /\ Cardinality(LiveConns') = Cardinality(LiveConns) + 1
  BY <1>3, CountsFinite DEF CountingFacts
<1>5. Counted'
  BY SMT, <1>1, <1>4, CountsFinite, ServerAssumption DEF Counted, ServerShape
<1>6. ServerShape'
  BY <1>1, <1>2 DEF ServerShape, Serving, Holding
<1> HIDE DEF c
<1>7. LoopsStart'
  BY <1>1, <1>2 DEF LoopsStart
<1>8. OneOwner'
  BY SMT, <1>1, <1>2 DEF OneOwner, Holding
<1>9. Entries'
  BY SMT, <1>1, <1>2 DEF Entries, Serving, Holding, c
<1>10. Swept'
  BY SMT, <1>1, <1>2 DEF Swept, Live, Holding, c
<1> QED
  BY <1>5, <1>6, <1>7, <1>8, <1>9, <1>10

\* A handler closes its connection, takes it from the tables and ends.
LEMMA ClosingKeepsTable ==
    ASSUME TableCore, NEW c \in Conns,
           RejectUnauthenticated(c) \/ CloseConn(c) \/ DeleteConn(c) \/ UncountConn(c)
    PROVE  TableCore'
<1> USE DEF TableCore
<1>1. UNCHANGED <<starts, mpc, apc, acc>>
  BY DEF RejectUnauthenticated, CloseConn, DeleteConn, UncountConn, mainVars, loopVars
<1>2. Passed' = Passed /\ LoopsStart'
  BY <1>1 DEF Passed, LoopsStart
<1>3. CASE RejectUnauthenticated(c) \/ CloseConn(c)
  <2>1. /\ UNCHANGED <<conns, connAuth, connCount>>
        /\ hpc[c] \in Serving /\ \E x \in {"close", "delete"} : hpc' = [hpc EXCEPT ![c] = x]
        /\ sock' = [sock EXCEPT ![c] = "closed"]
    BY <1>3 DEF RejectUnauthenticated, CloseConn, Goto, tableVars, Serving
  <2>2. /\ hpc'[c] \in {"close", "delete"} /\ sock'[c] = "closed"
        /\ \A e \in Conns : e # c => hpc'[e] = hpc[e] /\ sock'[e] = sock[e]
    BY <2>1 DEF ServerShape
  <2>3. LiveConns' = LiveConns
    BY <2>1, <2>2 DEF LiveConns, Live, Serving
  <2>4. ServerShape' /\ Counted'
    BY <1>1, <1>2, <2>1, <2>3 DEF ServerShape, Counted, Serving
  <2>5. OneOwner'
    BY SMTT(20), <1>1, <2>1, <2>2 DEF OneOwner, Serving
  <2>6. Entries'
    BY <1>1, <2>1, <2>2 DEF Entries, Serving
  <2>7. Swept'
    BY SMT, <1>1, <2>1, <2>2 DEF Swept, Live
  <2> QED
    BY <1>2, <2>4, <2>5, <2>6, <2>7
<1>4. CASE DeleteConn(c)
  <2>1. /\ UNCHANGED <<sock, connCount>>
        /\ hpc[c] = "delete" /\ hpc' = [hpc EXCEPT ![c] = "uncount"]
        /\ conns' = conns \ {c} /\ connAuth' = [connAuth EXCEPT ![c] = None]
    BY <1>4 DEF DeleteConn, Goto
  <2>2. /\ hpc'[c] = "uncount" /\ connAuth'[c] = None
        /\ \A e \in Conns : e # c => hpc'[e] = hpc[e] /\ connAuth'[e] = connAuth[e]
    BY <2>1 DEF ServerShape
  <2>3. LiveConns' = LiveConns
    BY <2>1, <2>2 DEF LiveConns, Live
  <2>4. ServerShape' /\ Counted'
    BY <1>1, <1>2, <2>1, <2>3 DEF ServerShape, Counted
  <2>5. OneOwner'
    BY <1>1, <2>1, <2>2 DEF OneOwner
  <2>6. Entries'
    BY <1>1, <2>1, <2>2 DEF Entries, Serving
  <2>7. Swept'
    BY <1>1, <2>1, <2>2 DEF Swept, Live, OneOwner, Holding
  <2> QED
    BY <1>2, <2>4, <2>5, <2>6, <2>7
<1>5. CASE UncountConn(c)
  <2>1. /\ UNCHANGED <<sock, conns, connAuth>>
        /\ hpc[c] = "uncount" /\ hpc' = [hpc EXCEPT ![c] = "done"]
        /\ connCount' = connCount - 1
    BY <1>5 DEF UncountConn, Goto
  <2>2. /\ hpc'[c] = "done"
        /\ \A e \in Conns : e # c => hpc'[e] = hpc[e]
    BY <2>1 DEF ServerShape
  <2>3. LiveConns' = LiveConns \ {c} /\ c \in LiveConns
    BY <2>1, <2>2 DEF LiveConns, Live
  <2>4. CountingFacts => Cardinality(LiveConns') = Cardinality(LiveConns) - 1
    BY <2>3, CountsFinite DEF CountingFacts
  <2>5. Counted'
    BY SMT, <1>1, <1>2, <2>1, <2>4, CountsFinite, ServerAssumption DEF Counted, ServerShape
  <2>6. ServerShape'
    BY <1>1, <2>1 DEF ServerShape
  <2>7. OneOwner'
    BY SMTT(20), <1>1, <2>1, <2>2 DEF OneOwner
  <2>8. Entries'
    BY <1>1, <2>1, <2>2 DEF Entries, Serving
  <2>9. Swept'
    BY <1>1, <2>1, <2>2 DEF Swept, Live
  <2> QED
    BY <1>2, <2>5, <2>6, <2>7, <2>8, <2>9
<1> QED
  BY <1>3, <1>4, <1>5
-----------------------------------------------------------------------------
(* One goroutine's command, and the steps of the others *)

\* A step of another goroutine leaves p's command alone, and marks every user it
\* changes as touched.
Quiet(p) ==
    /\ at'[p] = at[p] /\ req'[p] = req[p] /\ got'[p] = got[p] /\ todo'[p] = todo[p]
    /\ grants'[p] = grants[p] /\ ans'[p] = ans[p] /\ base'[p] = base[p]
    /\ holders'[p] = holders[p]
    /\ touched[p] \subseteq touched'[p]
    /\ at[p] # "idle" => \A u \in Users \ touched'[p] : users'[u] = users[u] /\ perms'[u] = perms[u]

\* A step that is no part of a command.
LEMMA QuietStays ==
    ASSUME UNCHANGED <<authVars, holders>>, NEW p \in Conns
    PROVE  Quiet(p)
BY DEF Quiet, authVars, callVars, storeVars

\* A write of user u is seen by everyone it is announced to.
LEMMA QuietWrite ==
    ASSUME AuthShape, NEW w, Stores(w), NEW S, Touches(S, w.user), NEW p \in S, p \in Conns
    PROVE  /\ touched[p] \subseteq touched'[p]
           /\ at[p] # "idle" =>
                \A u \in Users \ touched'[p] : users'[u] = users[u] /\ perms'[u] = perms[u]
<1>1. /\ touched[p] \subseteq touched'[p]
      /\ at[p] # "idle" => w.user \in touched'[p]
  BY HandlersServe DEF Touches
<1>2. \A u \in Users : u # w.user => users'[u] = users[u] /\ perms'[u] = perms[u]
  BY DEF Stores, AuthShape
<1> QED
  BY <1>1, <1>2

\* WriteOf(p) is about the target of p.
LEMMA WriteOfTarget ==
    ASSUME NEW p \in Conns
    PROVE  WriteOf(p).user = Target(p)
BY DEF WriteOf, UserWrite, PermWrite

\* The steps of c's auth command are quiet for the others.
LEMMA AuthStepsQuiet ==
    ASSUME AuthShape, NEW c \in Conns, AuthSteps(c), NEW p \in Conns, p # c
    PROVE  Quiet(p)
<1> USE DEF AuthShape
<1>0. holders' = holders
  BY DEF AuthSteps, dbVars
<1>1. CASE OperatorAllowed(c)
  BY <1>0, <1>1 DEF OperatorAllowed, Goes, Quiet, storeVars
<1>2. CASE OperatorDenied(c)
  BY <1>0, <1>2 DEF OperatorDenied, Answers, Goes, Quiet, storeVars
<1>3. CASE ReadUser(c)
  BY <1>0, <1>3 DEF ReadUser, Answers, Goes, Quiet, storeVars
<1>4. CASE RefuseUser(c)
  BY <1>0, <1>4 DEF RefuseUser, Answers, Goes, Quiet, storeVars
<1>5. CASE CheckUser(c)
  BY <1>0, <1>5 DEF CheckUser, Answers, Goes, Quiet, storeVars
<1>6. CASE Write(c)
  <2>0. /\ p \in Procs \ {c} /\ Stores(WriteOf(c))
        /\ Touches(Procs \ {c}, WriteOf(c).user)
    BY <1>6, WriteOfTarget, HandlersServe DEF Write
  <2>1. /\ touched[p] \subseteq touched'[p]
        /\ at[p] # "idle" =>
             \A u \in Users \ touched'[p] : users'[u] = users[u] /\ perms'[u] = perms[u]
    BY <2>0, QuietWrite
  <2> QED
    BY <1>0, <1>6, <2>1 DEF Write, Answers, Goes, Quiet
<1>7. CASE WriteFails(c)
  BY <1>0, <1>7 DEF WriteFails, Answers, Goes, Quiet, storeVars
<1>8. CASE WriteInDoubt(c)
  BY <1>0, <1>8 DEF WriteInDoubt, Answers, Goes, Quiet
<1>9. CASE ReadAgain(c)
  BY <1>0, <1>9 DEF ReadAgain, Answers, Goes, Quiet, storeVars
<1>10. CASE ListKeys(c)
  BY <1>0, <1>10 DEF ListKeys, Goes, Quiet, storeVars
<1>11. CASE ListFails(c)
  BY <1>0, <1>11, HandlersServe DEF ListFails, Answers, Goes, Quiet, storeVars, Touches
<1>12. CASE FetchDone(c)
  BY <1>0, <1>12 DEF FetchDone, AfterList, Answers, Goes, Quiet, storeVars
<1>13. CASE RevokeDone(c)
  BY <1>0, <1>13 DEF RevokeDone, Answers, Goes, Quiet, storeVars
<1>14. CASE ReadPermission(c)
  BY <1>0, <1>14 DEF ReadPermission, Answers, Goes, Quiet, storeVars
<1>15. CASE GetFails(c)
  <2>1. /\ at'[p] = at[p] /\ ans'[p] = ans[p] /\ got'[p] = got[p] /\ todo'[p] = todo[p]
        /\ UNCHANGED <<users, perms, req, grants, base>>
    BY <1>15 DEF GetFails, Answers, Goes, storeVars
  <2>2. touched[p] \subseteq touched'[p]
    BY SMTT(20), <1>15, HandlersServe DEF GetFails, Touches
  <2> QED
    BY <1>0, <2>1, <2>2 DEF Quiet
<1>16. ASSUME NEW d \in Databases, FetchPerm(c, d) PROVE Quiet(p)
  BY <1>0, <1>16 DEF FetchPerm, Quiet, storeVars
<1>17. ASSUME NEW d \in Databases, RevokePerm(c, d) PROVE Quiet(p)
  <2> DEFINE w == PermWrite(Target(c), d, None)
  <2>1. p \in Procs \ {c} /\ Stores(w) /\ Touches(Procs \ {c}, w.user)
    BY <1>17, HandlersServe DEF RevokePerm, PermWrite
  <2> HIDE DEF w
  <2>2. /\ touched[p] \subseteq touched'[p]
        /\ at[p] # "idle" =>
             \A u \in Users \ touched'[p] : users'[u] = users[u] /\ perms'[u] = perms[u]
    BY <2>1, QuietWrite
  <2> QED
    BY <1>0, <1>17, <2>2 DEF RevokePerm, Quiet
<1>18. ASSUME NEW d \in Databases, RevokeFails(c, d) PROVE Quiet(p)
  BY <1>0, <1>18, HandlersServe DEF RevokeFails, Quiet, storeVars, Touches
<1> QED
  BY <1>1, <1>2, <1>3, <1>4, <1>5, <1>6, <1>7, <1>8, <1>9, <1>10, <1>11, <1>12, <1>13,
     <1>14, <1>15, <1>16, <1>17, <1>18 DEF AuthSteps

\* So are the steps of a database command.
LEMMA DatabaseStepsQuiet ==
    ASSUME AuthShape, NEW c \in Conns, DatabaseSteps(c), NEW p \in Conns, p # c
    PROVE  Quiet(p)
<1> USE DEF AuthShape
<1>1. CASE DatabaseExists(c)
  BY <1>1 DEF DatabaseExists, StayCall, Answers, Goes, Quiet, storeVars, dbVars
<1>2. CASE UseDBAllowed(c)
  BY <1>2 DEF UseDBAllowed, StayCall, Answers, Goes, Quiet, storeVars, dbVars
<1>3. CASE SetConnectionCurrentDB(c)
  BY <1>3 DEF SetConnectionCurrentDB, StayCall, Answers, Goes, Quiet, storeVars, dbVars
<1>4. CASE ListHolders(c)
  BY <1>4 DEF ListHolders, StayCall, Goes, Quiet, storeVars
<1>5. CASE ListHoldersFails(c)
  BY <1>5 DEF ListHoldersFails, Goes, Quiet, storeVars, dbVars
<1>6. CASE ListSuperAdmins(c)
  BY <1>6 DEF ListSuperAdmins, StayCall, Goes, Quiet, storeVars
<1>7. CASE ListSuperAdminsFails(c)
  BY <1>7 DEF ListSuperAdminsFails, Goes, Quiet, storeVars, dbVars
<1>8. ASSUME NEW u \in Users, PassHolder(c, u) PROVE Quiet(p)
  BY <1>8 DEF PassHolder, StayCall, Quiet, storeVars
<1>9. ASSUME NEW u \in Users, MissHolder(c, u) PROVE Quiet(p)
  BY <1>9, HandlersServe DEF MissHolder, Touches, Quiet, storeVars, callVars
<1>10. ASSUME NEW u \in Users, RefuseHolder(c, u) PROVE Quiet(p)
  BY <1>10 DEF RefuseHolder, StayCall, Answers, Goes, Quiet, storeVars
<1>11. CASE DeleteDB(c)
  BY <1>11 DEF DeleteDB, StayCall, Answers, Goes, Quiet, storeVars
<1>12. CASE DeleteDBFails(c)
  BY <1>12 DEF DeleteDBFails, Answers, Goes, Quiet, storeVars, dbVars
<1>13. CASE DeleteDBInDoubt(c)
  BY <1>13 DEF DeleteDBInDoubt, Answers, Goes, Quiet, storeVars
<1> QED
  BY <1>1, <1>2, <1>3, <1>4, <1>5, <1>6, <1>7, <1>8, <1>9, <1>10, <1>11, <1>12, <1>13
     DEF DatabaseSteps

\* So are the steps by which a command begins and ends.
LEMMA RouteStepsQuiet ==
    ASSUME AuthShape, NEW c \in Conns, RouteSteps(c), NEW p \in Conns, p # c
    PROVE  Quiet(p)
<1> USE DEF AuthShape
<1>1. CASE RouteAuth(c)
  BY <1>1 DEF RouteAuth, HandleAuthCommand, Begin, Quiet, storeVars, dbVars
<1>2. CASE RouteDatabase(c)
  BY <1>2 DEF RouteDatabase, Begin, Quiet, storeVars, dbVars
<1>3. CASE RouteElsewhere(c)
  BY <1>3, QuietStays DEF RouteElsewhere, dbVars
<1>4. CASE MarkConnectionAuthenticated(c)
  BY <1>4 DEF MarkConnectionAuthenticated, Answers, Goes, Quiet, storeVars, dbVars
<1>5. CASE Finish(c)
  BY <1>5 DEF Finish, Return, Goes, Quiet, storeVars, dbVars
<1> QED
  BY <1>1, <1>2, <1>3, <1>4, <1>5 DEF RouteSteps

\* A write that comes late is announced to everyone.
LEMMA LateWriteQuiet ==
    ASSUME AuthShape, NEW w, LateWrite(w), UNCHANGED dbVars, NEW p \in Conns
    PROVE  Quiet(p)
<1>1. /\ touched[p] \subseteq touched'[p]
      /\ at[p] # "idle" =>
           \A u \in Users \ touched'[p] : users'[u] = users[u] /\ perms'[u] = perms[u]
  BY QuietWrite, HandlersServe DEF LateWrite
<1> QED
  BY <1>1 DEF LateWrite, Quiet, callVars, dbVars

\* The others' steps do not take away what p knows.
LEMMA QuietKeeps ==
    ASSUME AuthShape, NEW p \in Conns, OwnInv(p), Quiet(p),
           at[p] = "done" => connAuth'[p] \in {connAuth[p], None}
    PROVE  OwnInv(p)'
<1>0. /\ CallFits(p) /\ Undisturbed(p) /\ LoginFits(p) /\ LoginDone(p) /\ HoldersSeen(p)
      /\ at'[p] = at[p] /\ req'[p] = req[p] /\ got'[p] = got[p] /\ todo'[p] = todo[p]
      /\ grants'[p] = grants[p] /\ ans'[p] = ans[p] /\ base'[p] = base[p]
      /\ holders'[p] = holders[p] /\ touched[p] \subseteq touched'[p]
  BY DEF OwnInv, Quiet
<1> USE <1>0
<1>1. Target(p)' = Target(p)
  BY DEF Target
<1>2. at[p] # "idle" => \A u \in Users \ touched'[p] : users'[u] = users[u] /\ perms'[u] = perms[u]
  BY DEF Quiet
<1>3. CallFits(p)'
  BY DEF CallFits
<1>4. at[p] # "idle" => Target(p) \in Users
  BY DEF CallFits, WellFormed, Target
<1>5. HoldersSeen(p)'
  BY ZenonT(30), <1>2 DEF HoldersSeen
<1> HIDE <1>0
<1>6. CASE at[p] = "idle" \/ Target(p) \in touched'[p]
  <2>1. Undisturbed(p)' /\ LoginFits(p)'
    BY <1>0, <1>1, <1>6 DEF Undisturbed, LoginFits
  <2>2. LoginDone(p)'
    BY <1>0, <1>1, <1>6 DEF LoginDone
  <2> QED
    BY <1>3, <1>5, <2>1, <2>2 DEF OwnInv
<1>7. CASE at[p] # "idle" /\ Target(p) \notin touched'[p]
  <2>1. /\ users'[Target(p)] = users[Target(p)] /\ perms'[Target(p)] = perms[Target(p)]
        /\ Target(p) \notin touched[p]
    BY <1>0, <1>2, <1>4, <1>7
  <2>2. UserEntry(Target(p))' = UserEntry(Target(p))
    BY <1>1, <2>1 DEF UserEntry
  <2>3. Undisturbed(p)'
    BY ZenonT(30), <1>0, <1>1, <1>7, <2>1, <2>2 DEF Undisturbed
  <2>4. LoginFits(p)'
    BY <1>0, <1>1, <1>7, <2>1 DEF LoginFits
  <2>5. LoginDone(p)'
    <3>1. CASE connAuth'[p] = connAuth[p]
      <4>1. /\ connAuth[p]' = connAuth[p] /\ at[p]' = at[p] /\ req[p]' = req[p] /\ ans[p]' = ans[p]
            /\ users[Target(p)]' = users[Target(p)] /\ perms[Target(p)]' = perms[Target(p)]
            /\ LoginDone(p) /\ Target(p)' = Target(p) /\ Target(p) \notin touched[p]
        BY <1>0, <1>1, <2>1, <3>1
      <4> QED
        BY <4>1 DEF LoginDone
    <3>2. CASE connAuth'[p] # connAuth[p]
      BY <1>0, <3>2 DEF LoginDone
    <3> QED
      BY <3>1, <3>2
  <2> QED
    BY <1>3, <1>5, <2>3, <2>4, <2>5 DEF OwnInv
<1> QED
  BY <1>6, <1>7

\* The step that refuses a command, whatever the reason, changes nothing.
LEMMA ErrorKeeps ==
    ASSUME AuthShape, NEW c \in Conns, OwnInv(c), at[c] \notin {"idle", "done"},
           ~(at[c] \in {"list", "fetch", "revoke"} /\ req[c].cmd = "delete"),
           at'[c] = "done", ans'[c] = "error", req'[c] = req[c], base'[c] = base[c],
           touched'[c] = touched[c], UNCHANGED <<users, perms>>
    PROVE  OwnInv(c)'
BY AuthAssumption DEF OwnInv, CallFits, Undisturbed, LoginFits, LoginDone, HoldersSeen, Target,
   UserEntry, StepFits

\* A command that only reads ends well.
LEMMA ReadKeeps ==
    ASSUME AuthShape, NEW c \in Conns, OwnInv(c), at[c] \notin {"idle", "done"},
           req[c].cmd \in {"get", "listusers", "listperms", "checkperm"} \cup DatabaseCommands,
           at'[c] = "done", ans'[c] # "error", req'[c] = req[c], base'[c] = base[c],
           touched'[c] = touched[c], UNCHANGED <<users, perms>>
    PROVE  OwnInv(c)'
BY DEF OwnInv, CallFits, Undisturbed, LoginFits, LoginDone, HoldersSeen, Target,
   UserEntry, StepFits, Effect, DatabaseCommands

\* A command goes on to its next step and has written nothing.
LEMMA GoOnKeeps ==
    ASSUME AuthShape, NEW c \in Conns, OwnInv(c), at[c] \notin {"idle", "done"},
           ~(at[c] \in {"list", "fetch", "revoke"} /\ req[c].cmd = "delete"),
           at'[c] \notin {"idle", "done", "list", "fetch", "mark", "revoke", "again"} 
               \/ (at'[c] = "list" /\ req[c].cmd = "listperms"),
           StepFits(at'[c], req[c].cmd),
           ans'[c] = ans[c], req'[c] = req[c], base'[c] = base[c], grants'[c] = grants[c],
           touched[c] \subseteq touched'[c], UNCHANGED <<users, perms>>,
           /\ Target(c) \notin touched'[c]
           /\ at'[c] \in {"check", "write"} /\ req[c].cmd \notin {"delete", "grant", "revoke"}
           => got'[c] = Changed(req[c], base[c].user),
           HoldersSeen(c)',
           at[c] \notin {"fetch", "mark", "revoke"}
    PROVE  OwnInv(c)'
BY DEF OwnInv, CallFits, Undisturbed, LoginFits, LoginDone, Target, UserEntry

\* The operator's record, the user's record, and the checks on them.
LEMMA ReadingKeeps ==
    ASSUME AuthShape, NEW c \in Conns, OwnInv(c),
           \/ OperatorAllowed(c) \/ OperatorDenied(c) \/ RefuseUser(c) \/ CheckUser(c)
           \/ ReadPermission(c) \/ WriteFails(c) \/ WriteInDoubt(c)
    PROVE  OwnInv(c)'
<1>0. at[c] \notin {"idle", "done"} => StepFits(at[c], req[c].cmd)
  BY DEF OwnInv, CallFits
<1>1. CASE OperatorAllowed(c)
  <2>1. /\ at[c] = "operator" /\ UNCHANGED <<users, perms, req, got, grants, ans, base, touched>>
        /\ at'[c] = CASE req[c].cmd = "revoke" -> "write"
                      [] req[c].cmd = "listperms" -> "list"
                      [] OTHER -> "read"
    BY <1>1 DEF OperatorAllowed, Goes, AuthShape, storeVars
  <2>2. StepFits(at'[c], req[c].cmd)
    BY <1>0, <2>1 DEF StepFits, AdminOnly, OwnOrAdmin, AuthCommands
  <2>3. HoldersSeen(c)'
    BY <2>1 DEF HoldersSeen
  <2> QED
    BY <2>1, <2>2, <2>3, GoOnKeeps
<1>2. CASE OperatorDenied(c) \/ RefuseUser(c)
  <2>1. /\ at[c] \in {"operator", "read"} /\ UNCHANGED <<users, perms, req, base, touched>>
        /\ at'[c] = "done" /\ ans'[c] = "error"
    BY <1>2 DEF OperatorDenied, RefuseUser, Answers, Goes, AuthShape, storeVars
  <2> QED
    BY <2>1, ErrorKeeps
<1>3. CASE CheckUser(c)
  <2>1. /\ at[c] = "check" /\ UNCHANGED <<users, perms, req, got, grants, base, touched>>
        /\ \/ at'[c] = "done" /\ ans'[c] = "error"
           \/ at'[c] = "write" /\ ans' = ans
    BY <1>3 DEF CheckUser, Answers, Goes, AuthShape, storeVars
  <2>2. CASE at'[c] = "done" /\ ans'[c] = "error"
    BY <2>1, <2>2, ErrorKeeps
  <2>3. CASE at'[c] = "write" /\ ans' = ans
    <3>1. StepFits(at'[c], req[c].cmd) /\ HoldersSeen(c)'
      BY <1>0, <2>1, <2>3 DEF StepFits, AdminOnly, HoldersSeen
    <3>2. /\ Target(c) \notin touched'[c]
          /\ at'[c] \in {"check", "write"} /\ req[c].cmd \notin {"delete", "grant", "revoke"}
          => got'[c] = Changed(req[c], base[c].user)
      BY <2>1 DEF OwnInv, Undisturbed
    <3> QED
      BY <2>1, <2>3, <3>1, <3>2, GoOnKeeps
  <2> QED
    BY <2>1, <2>2, <2>3
<1>4. CASE ReadPermission(c)
  <2>1. /\ at[c] = "perm" /\ UNCHANGED <<users, perms, req, base, touched>>
        /\ at'[c] = "done" /\ ans'[c] # "error"
    BY <1>4 DEF ReadPermission, Answers, Goes, AuthShape, storeVars
  <2>2. req[c].cmd = "checkperm"
    BY <1>0, <2>1 DEF StepFits
  <2> QED
    BY <2>1, <2>2, ReadKeeps
<1>5. CASE WriteFails(c) \/ WriteInDoubt(c)
  <2>1. /\ at[c] = "write" /\ UNCHANGED <<users, perms, req, base, touched>>
        /\ at'[c] = "done" /\ ans'[c] = "error"
    BY <1>5 DEF WriteFails, WriteInDoubt, Answers, Goes, AuthShape, storeVars
  <2> QED
    BY <2>1, ErrorKeeps
<1> QED
  BY <1>1, <1>2, <1>3, <1>4, <1>5

\* GetUser: what the command is going to write is made from what it began with,
\* and a login has found an enabled user with the right password.
LEMMA ReadUserKeeps ==
    ASSUME AuthShape, NEW c \in Conns, OwnInv(c), ReadUser(c)
    PROVE  OwnInv(c)'
<1>0. /\ at[c] = "read" /\ UNCHANGED <<users, perms, req, grants, base, touched>>
      /\ ~Refused(req[c], users[Target(c)])
      /\ got'[c] = Changed(req[c], users[Target(c)])
  BY DEF ReadUser, AuthShape, storeVars
<1>1. req[c].cmd \in AuthCommands \ {"revoke", "listperms"}
  BY <1>0 DEF OwnInv, CallFits, StepFits
<1>2. Target(c) \notin touched[c] => users[Target(c)] = base[c].user
  <2>1. Target(c) \notin touched[c] => UserEntry(Target(c)) = base[c]
    BY <1>0 DEF OwnInv, Undisturbed
  <2>2. UserEntry(Target(c)).user = users[Target(c)]
    BY SMT DEF UserEntry
  <2> QED
    BY <2>1, <2>2
<1>3. CASE req[c].cmd \in {"update", "changepass", "reset", "create", "delete", "grant", "checkperm"}
  <2>1. /\ at'[c] = IF req[c].cmd \in {"update", "changepass", "reset"} THEN "check"
                    ELSE IF req[c].cmd = "checkperm" THEN "perm" ELSE "write"
        /\ ans' = ans
    BY <1>3 DEF ReadUser, Goes, AuthShape
  <2>2. StepFits(at'[c], req[c].cmd) /\ HoldersSeen(c)'
    BY <1>3, <2>1 DEF StepFits, AdminOnly, HoldersSeen
  <2> QED
    BY <1>0, <1>2, <2>1, <2>2, GoOnKeeps
<1>4. CASE req[c].cmd = "login"
  <2>1. at'[c] = "again" /\ ans' = ans
    BY <1>4 DEF ReadUser, Goes, AuthShape
  <2>2. users[Target(c)].Enabled /\ users[Target(c)].PasswordHash = HashPassword(req[c].pw)
    BY <1>0, <1>4 DEF Refused
  <2> QED
    BY <1>0, <1>4, <2>1, <2>2 DEF OwnInv, CallFits, Undisturbed, LoginFits, LoginDone,
       HoldersSeen, Target, UserEntry, StepFits
<1>5. CASE req[c].cmd \in {"get", "listusers"}
  <2>1. at'[c] = "done" /\ ans'[c] = "ok"
    BY <1>5 DEF ReadUser, Answers, Goes, AuthShape
  <2> QED
    BY <1>0, <1>5, <2>1, ReadKeeps
<1> QED
  BY <1>1, <1>3, <1>4, <1>5 DEF AuthCommands

\* The write does to the user what the command stands for.
LEMMA WriteKeeps ==
    ASSUME AuthShape, NEW c \in Conns, OwnInv(c), Write(c)
    PROVE  OwnInv(c)'
<1>1. /\ at[c] = "write" /\ UNCHANGED <<req, got, grants, base>>
      /\ IF req[c].cmd = "delete" THEN at'[c] = "list" /\ ans' = ans
         ELSE at'[c] = "done" /\ ans'[c] = "ok"
      /\ touched'[c] = touched[c]
  BY HandlersServe DEF Write, Goes, Answers, AuthShape, Touches
<1>2. /\ req[c].cmd \in {"changepass"} \cup (AdminOnly \ {"listusers"})
      /\ Target(c) \in Users
      /\ req[c].cmd \in {"grant", "revoke"} => req[c].db \in Databases
  BY <1>1 DEF OwnInv, CallFits, StepFits, WellFormed, Target
<1>3. Target(c) \notin touched[c] => base[c] = UserEntry(Target(c))
  BY <1>1 DEF OwnInv, Undisturbed
<1>4. Target(c)' = Target(c)
  BY <1>1 DEF Target
<1>5. CASE req[c].cmd = "delete"
  <2>1. users' = [users EXCEPT ![Target(c)] = None] /\ perms' = perms
    BY <1>5 DEF Write, WriteOf, UserWrite, Stores
  <2>2. users'[Target(c)] = None
    BY <1>2, <2>1 DEF AuthShape
  <2> QED
    BY <1>1, <1>4, <1>5, <2>2 DEF OwnInv, CallFits, Undisturbed, LoginFits, LoginDone,
       HoldersSeen, StepFits
<1>6. CASE req[c].cmd # "delete"
  <2>1. Target(c) \notin touched[c] => UserEntry(Target(c))' = Effect(req[c], base[c])
    <3> SUFFICES ASSUME Target(c) \notin touched[c]
                 PROVE  [user |-> users'[Target(c)], perms |-> perms'[Target(c)]]
                          = Effect(req[c], base[c])
      BY <1>4 DEF UserEntry
    <3>0. base[c] = [user |-> users[Target(c)], perms |-> perms[Target(c)]]
      BY <1>3 DEF UserEntry
    <3>1. CASE req[c].cmd \in {"grant", "revoke"}
      <4> DEFINE v == IF req[c].cmd = "grant" THEN req[c].perms ELSE None
      <4>1. WriteOf(c) = PermWrite(Target(c), req[c].db, v)
        BY <3>1 DEF WriteOf
      <4>2. Effect(req[c], base[c]) = [base[c] EXCEPT !.perms = [@ EXCEPT ![req[c].db] = v]]
        BY <3>1 DEF Effect
      <4> HIDE DEF v
      <4>3. /\ perms' = [perms EXCEPT ![Target(c)] = [@ EXCEPT ![req[c].db] = v]]
            /\ users' = users
        BY SMTT(20), <1>2, <3>1, <4>1, AuthAssumption DEF Write, Stores, PermWrite
      <4>4. perms'[Target(c)] = [perms[Target(c)] EXCEPT ![req[c].db] = v]
        BY <1>2, <4>3 DEF AuthShape
      <4> QED
        BY SMT, <3>0, <4>2, <4>3, <4>4
    <3>2. CASE req[c].cmd \in {"create", "update", "changepass", "reset"}
      <4>1. got[c] = Changed(req[c], base[c].user)
        BY <1>1, <3>2 DEF OwnInv, Undisturbed
      <4>2. WriteOf(c) = UserWrite(Target(c), got[c])
        BY <3>2 DEF WriteOf
      <4>3. users' = [users EXCEPT ![Target(c)] = got[c]] /\ perms' = perms
        BY SMTT(20), <4>2 DEF Write, Stores, UserWrite
      <4>4. users'[Target(c)] = got[c]
        BY <1>2, <4>3 DEF AuthShape
      <4>5. Effect(req[c], base[c]) = [base[c] EXCEPT !.user = Changed(req[c], base[c].user)]
        BY <3>2 DEF Effect
      <4> QED
        BY SMTT(20), <3>0, <4>1, <4>3, <4>4, <4>5
    <3> QED
      BY <1>2, <1>6, <3>1, <3>2 DEF AdminOnly
  <2>2. req[c].cmd # "login"
    BY <1>2 DEF AdminOnly
  <2> QED
    BY <1>1, <1>4, <1>6, <2>1, <2>2 DEF OwnInv, CallFits, Undisturbed, LoginFits, LoginDone,
       HoldersSeen, StepFits
<1> QED
  BY <1>5, <1>6

\* The permissions are listed one by one: what has been fetched is what is there.
LEMMA ListingKeeps ==
    ASSUME AuthShape, NEW c \in Conns, OwnInv(c),
           \/ ReadAgain(c) \/ ListKeys(c) \/ ListFails(c)
           \/ \E d \in Databases : FetchPerm(c, d)
    PROVE  OwnInv(c)'
<1>0. at[c] \notin {"idle", "done"} => StepFits(at[c], req[c].cmd) /\ WellFormed(req[c])
  BY DEF OwnInv, CallFits
<1>1. CASE ReadAgain(c)
  <2>1. /\ at[c] = "again" /\ UNCHANGED <<users, perms, req, grants, base, touched>>
        /\ got'[c] = users[Target(c)]
        /\ \/ at'[c] = "done" /\ ans'[c] = "error"
           \/ at'[c] = "list" /\ ans' = ans
    BY <1>1 DEF ReadAgain, Answers, Goes, AuthShape, storeVars
  <2>2. CASE at'[c] = "done" /\ ans'[c] = "error"
    BY <2>1, <2>2, ErrorKeeps
  <2>3. CASE at'[c] = "list" /\ ans' = ans
    BY <1>0, <2>1, <2>3 DEF OwnInv, CallFits, Undisturbed, LoginFits, LoginDone, HoldersSeen,
       Target, UserEntry, StepFits
  <2> QED
    BY <2>1, <2>2, <2>3
<1>2. CASE ListKeys(c)
  <2>1. /\ at[c] = "list" /\ at'[c] = "fetch"
        /\ UNCHANGED <<users, perms, req, got, grants, ans, base, touched>>
        /\ todo'[c] = {d \in Databases : perms[Target(c)][d] # None}
    BY <1>2 DEF ListKeys, Goes, AuthShape, storeVars
  <2>2. \A d \in Databases \ todo'[c] : grants[c][d] = perms[Target(c)][d]
    BY <2>1 DEF OwnInv, CallFits, NoPerms
  <2> QED
    BY <1>0, <2>1, <2>2 DEF OwnInv, CallFits, Undisturbed, LoginFits, LoginDone, HoldersSeen,
       Target, UserEntry, StepFits
<1>3. CASE ListFails(c)
  <2>1. /\ at[c] = "list" /\ Target(c) \in touched'[c] /\ req' = req
        /\ \/ req[c].cmd = "login" /\ at'[c] = "mark" /\ ans' = ans
           \/ req[c].cmd # "login" /\ at'[c] = "done"
    BY <1>3, HandlersServe DEF ListFails, Answers, Goes, AuthShape, Touches
  <2> QED
    BY <1>0, <2>1 DEF OwnInv, CallFits, Undisturbed, LoginFits, LoginDone, HoldersSeen, Target,
       StepFits
<1>4. ASSUME NEW e \in Databases, FetchPerm(c, e) PROVE OwnInv(c)'
  <2>1. /\ at[c] = "fetch"
        /\ UNCHANGED <<users, perms, at, req, got, ans, base, touched>>
        /\ todo'[c] = todo[c] \ {e}
        /\ grants'[c] = [grants[c] EXCEPT ![e] = perms[Target(c)][e]]
    BY <1>4 DEF FetchPerm, AuthShape, storeVars
  <2>2. (\A d \in Databases \ todo[c] : grants[c][d] = perms[Target(c)][d])
        => \A d \in Databases \ todo'[c] : grants'[c][d] = perms[Target(c)][d]
    <3>1. grants[c] = [d \in Databases |-> grants[c][d]]
      BY DEF AuthShape
    <3>2. /\ grants'[c][e] = perms[Target(c)][e]
          /\ \A d \in Databases : d # e => grants'[c][d] = grants[c][d]
      BY <2>1, <3>1
    <3> QED
      BY <2>1, <3>2
  <2> QED
    BY <1>0, <2>1, <2>2 DEF OwnInv, CallFits, Undisturbed, LoginFits, LoginDone, HoldersSeen,
       Target, UserEntry, StepFits
<1> QED
  BY <1>1, <1>2, <1>3, <1>4

\* After the list a login has all permissions, and DeleteUser knows what to revoke.
LEMMA FetchDoneKeeps ==
    ASSUME AuthShape, NEW c \in Conns, OwnInv(c), FetchDone(c)
    PROVE  OwnInv(c)'
<1>1. /\ at[c] = "fetch" /\ todo[c] = {}
      /\ UNCHANGED <<users, perms, req, got, grants, base, touched>>
  BY DEF FetchDone, storeVars
<1>2. req[c].cmd \in {"login", "delete", "listperms"} /\ Target(c) \in Users /\ Target(c)' = Target(c)
  BY <1>1 DEF OwnInv, CallFits, StepFits, WellFormed, Target
<1>3. Target(c) \notin touched[c] => \A d \in Databases : grants[c][d] = perms[Target(c)][d]
  BY <1>1 DEF OwnInv, Undisturbed
<1>4. CASE req[c].cmd = "delete"
  <2>1. /\ at'[c] = "revoke" /\ ans' = ans
        /\ todo'[c] = {d \in Databases : grants[c][d] # None}
    BY <1>4 DEF FetchDone, AfterList, Goes, AuthShape
  <2>2. Target(c) \notin touched[c] => \A d \in Databases \ todo'[c] : perms[Target(c)][d] = None
    BY <1>3, <2>1
  <2> QED
    BY SMTT(20), <1>1, <1>2, <1>4, <2>1, <2>2 DEF OwnInv, CallFits, Undisturbed, LoginFits, LoginDone,
       HoldersSeen, StepFits
<1>5. CASE req[c].cmd = "login"
  <2>1. at'[c] = "mark" /\ ans' = ans
    BY <1>5 DEF FetchDone, AfterList, Goes, AuthShape
  <2>2. Target(c) \notin touched[c] => grants[c] = perms[Target(c)]
    BY SMT, <1>2, <1>3 DEF AuthShape
  <2> QED
    BY <1>1, <1>2, <1>5, <2>1, <2>2 DEF OwnInv, CallFits, Undisturbed, LoginFits, LoginDone,
       HoldersSeen, StepFits, UserEntry
<1>6. CASE req[c].cmd = "listperms"
  <2>1. at'[c] = "done" /\ ans'[c] = "ok"
    BY <1>6 DEF FetchDone, AfterList, Answers, Goes, AuthShape
  <2> QED
    BY <1>1, <1>6, <2>1, ReadKeeps
<1> QED
  BY <1>2, <1>4, <1>5, <1>6

\* DeleteUser revokes until nothing is left.
LEMMA RevokingKeeps ==
    ASSUME AuthShape, NEW c \in Conns, OwnInv(c),
           \/ RevokeDone(c)
           \/ \E d \in Databases : RevokePerm(c, d) \/ RevokeFails(c, d)
    PROVE  OwnInv(c)'
<1>0. at[c] = "revoke" => req[c].cmd = "delete" /\ Target(c) \in Users
  BY DEF OwnInv, CallFits, StepFits, WellFormed, Target
<1>1. CASE RevokeDone(c)
  <2>1. /\ at[c] = "revoke" /\ todo[c] = {} /\ at'[c] = "done" /\ ans'[c] = "ok"
        /\ UNCHANGED <<users, perms, req, base, touched>>
    BY <1>1 DEF RevokeDone, Answers, Goes, AuthShape, storeVars
  <2>2. Target(c) \notin touched[c] =>
            users[Target(c)] = None /\ \A d \in Databases : perms[Target(c)][d] = None
    BY <1>0, <2>1 DEF OwnInv, Undisturbed
  <2>3. Target(c) \notin touched[c] => perms[Target(c)] = NoPerms
    BY ZenonT(30), <1>0, <2>1, <2>2 DEF AuthShape, NoPerms
  <2>4. Target(c) \notin touched[c] => UserEntry(Target(c)) = Effect(req[c], base[c])
    BY <1>0, <2>1, <2>2, <2>3 DEF UserEntry, Effect
  <2> QED
    BY <1>0, <2>1, <2>4 DEF OwnInv, CallFits, Undisturbed, LoginFits, LoginDone, HoldersSeen,
       StepFits, Target, UserEntry
<1>2. ASSUME NEW e \in Databases, RevokePerm(c, e) PROVE OwnInv(c)'
  <2>1. /\ at[c] = "revoke" /\ todo'[c] = todo[c] \ {e}
        /\ UNCHANGED <<at, req, got, grants, ans, base>>
        /\ touched'[c] = touched[c]
        /\ users' = users
        /\ perms' = [perms EXCEPT ![Target(c)] = [@ EXCEPT ![e] = None]]
    BY <1>2, HandlersServe, AuthAssumption
       DEF RevokePerm, Touches, AuthShape, Stores, PermWrite
  <2>2. /\ perms'[Target(c)][e] = None
        /\ \A d \in Databases : d # e => perms'[Target(c)][d] = perms[Target(c)][d]
    BY <1>0, <2>1 DEF AuthShape
  <2> QED
    BY SMTT(20), <1>0, <2>1, <2>2 DEF OwnInv, CallFits, Undisturbed, LoginFits, LoginDone, HoldersSeen,
       StepFits, Target
<1>3. ASSUME NEW e \in Databases, RevokeFails(c, e) PROVE OwnInv(c)'
  <2>1. /\ at[c] = "revoke" /\ Target(c) \in touched'[c]
        /\ UNCHANGED <<at, req, ans>>
    BY <1>3, HandlersServe DEF RevokeFails, Touches, AuthShape
  <2> QED
    BY <1>0, <2>1 DEF OwnInv, CallFits, Undisturbed, LoginFits, LoginDone, HoldersSeen,
       StepFits, Target
<1> QED
  BY <1>1, <1>2, <1>3

\* A read that fails ends the command, or counts as a disturbance.
LEMMA GetFailsKeeps ==
    ASSUME AuthShape, NEW c \in Conns, OwnInv(c), GetFails(c)
    PROVE  OwnInv(c)'
<1>0. /\ at[c] \notin {"idle", "done"} => StepFits(at[c], req[c].cmd)
      /\ UNCHANGED <<users, perms, req, grants, base>>
  BY DEF OwnInv, CallFits, GetFails, storeVars
<1>1. CASE /\ at[c] \in {"operator", "read", "check", "again"} /\ touched' = touched
           /\ Answers(c, "error")
  BY <1>0, <1>1, ErrorKeeps DEF Answers, Goes, AuthShape
<1>2. CASE /\ at[c] = "read" /\ req[c].cmd = "create" /\ Goes(c, "write")
           /\ Touches({c}, Target(c)) /\ ans' = ans
  <2>1. at'[c] = "write" /\ Target(c) \in touched'[c]
    BY <1>2, HandlersServe DEF Goes, AuthShape, Touches
  <2> QED
    BY <1>0, <1>2, <2>1 DEF OwnInv, CallFits, Undisturbed, LoginFits, LoginDone, HoldersSeen,
       StepFits, Target, AdminOnly
<1>3. CASE at[c] = "fetch" /\ Touches({c}, Target(c)) /\ UNCHANGED <<at, ans>>
  <2>1. Target(c) \in touched'[c]
    BY <1>3, HandlersServe DEF Touches
  <2> QED
    BY <1>0, <1>3, <2>1 DEF OwnInv, CallFits, Undisturbed, LoginFits, LoginDone, HoldersSeen,
       Target
<1>4. CASE at[c] = "perm" /\ touched' = touched /\ \E a \in {"yes", "no"} : Answers(c, a)
  <2>1. at'[c] = "done" /\ ans'[c] \in {"yes", "no"} /\ req[c].cmd = "checkperm"
    BY <1>0, <1>4 DEF Answers, Goes, AuthShape, StepFits
  <2> QED
    BY <1>0, <1>4, <2>1, ReadKeeps
<1> QED
  BY <1>1, <1>2, <1>3, <1>4 DEF GetFails

\* Database commands: who is not on the list of holders has been looked at.
LEMMA DatabaseKeeps ==
    ASSUME AuthShape, NEW c \in Conns, OwnInv(c), DatabaseSteps(c)
    PROVE  OwnInv(c)'
<1> DEFINE cmd == req[c].cmd
<1>0. at[c] \in DatabaseStep => cmd \in DatabaseCommands
  BY DEF OwnInv, CallFits, StepFits, DatabaseStep
<1>a. ASSUME at[c] \in DatabaseStep, at'[c] \in DatabaseStep, HoldersSeen(c)',
             UNCHANGED <<users, perms, req, ans, base, grants>>, touched[c] \subseteq touched'[c]
      PROVE  OwnInv(c)'
  <2>1. StepFits(at'[c], req[c].cmd)
    BY <1>0, <1>a DEF StepFits, DatabaseStep
  <2> QED
    BY <1>a, <2>1, GoOnKeeps DEF DatabaseStep
<1>b. ASSUME at[c] \in DatabaseStep, at'[c] = "done", ans'[c] \in {"ok", "error"},
             UNCHANGED <<users, perms, req, base, touched>>
      PROVE  OwnInv(c)'
  BY <1>0, <1>b, ErrorKeeps, ReadKeeps DEF DatabaseStep
<1>1. CASE DatabaseExists(c) \/ UseDBAllowed(c)
  <2>1. /\ at[c] \in {"dbexists", "dbperm"}
        /\ UNCHANGED <<users, perms, req, base, grants, touched>>
        /\ \/ at'[c] = "done" /\ ans'[c] = "error"
           \/ at'[c] \in {"dbperm", "holders", "dbset"} /\ ans' = ans
    BY <1>1 DEF DatabaseExists, UseDBAllowed, StayCall, Answers, Goes, AuthShape, storeVars
  <2>2. at'[c] # "done" => HoldersSeen(c)'
    BY <2>1 DEF HoldersSeen
  <2> QED
    BY <1>a, <1>b, <2>1, <2>2 DEF DatabaseStep
<1>2. CASE SetConnectionCurrentDB(c) \/ DeleteDB(c) \/ DeleteDBFails(c) \/ DeleteDBInDoubt(c)
  <2>1. /\ at[c] \in {"dbset", "filter"} /\ UNCHANGED <<users, perms, req, base, touched>>
        /\ at'[c] = "done" /\ ans'[c] \in {"ok", "error"}
    BY <1>2 DEF SetConnectionCurrentDB, DeleteDB, DeleteDBFails, DeleteDBInDoubt, StayCall,
       Answers, Goes, AuthShape, storeVars
  <2> QED
    BY <1>b, <2>1 DEF DatabaseStep
<1>3. CASE ListHolders(c)
  <2>1. /\ at[c] = "holders" /\ at'[c] = "admins"
        /\ UNCHANGED <<users, perms, req, ans, base, grants, touched>>
        /\ holders'[c] = {u \in Users : perms[u][req[c].db] # None}
    BY <1>3 DEF ListHolders, StayCall, Goes, AuthShape, storeVars
  <2>2. HoldersSeen(c)'
    BY <2>1 DEF HoldersSeen
  <2> QED
    BY <1>a, <2>1, <2>2 DEF DatabaseStep
<1>4. CASE ListHoldersFails(c)
  <2>1. /\ at[c] = "holders" /\ at'[c] = "filter" /\ touched'[c] = Users
        /\ UNCHANGED <<users, perms, req, ans, base, grants>>
    BY <1>4 DEF ListHoldersFails, Goes, AuthShape, storeVars
  <2>2. StepFits(at'[c], req[c].cmd) /\ Target(c) \in touched'[c]
    BY <1>0, <2>1 DEF StepFits, DatabaseStep, OwnInv, CallFits, WellFormed, Target
  <2> QED
    BY <2>1, <2>2 DEF OwnInv, CallFits, Undisturbed, LoginFits, LoginDone, HoldersSeen, Target
<1>5. CASE ListSuperAdmins(c) \/ ListSuperAdminsFails(c)
  <2>1. /\ at[c] = "admins" /\ at'[c] = "filter"
        /\ UNCHANGED <<users, perms, req, ans, base, grants, touched>>
        /\ holders[c] \subseteq holders'[c]
    <3>1. CASE ListSuperAdmins(c)
      BY <3>1 DEF ListSuperAdmins, StayCall, Goes, AuthShape, storeVars
    <3>2. CASE ListSuperAdminsFails(c)
      BY <3>2 DEF ListSuperAdminsFails, Goes, AuthShape, storeVars, dbVars
    <3> QED
      BY <1>5, <3>1, <3>2
  <2>2. HoldersSeen(c)'
    BY <2>1 DEF HoldersSeen, OwnInv
  <2> QED
    BY <1>a, <2>1, <2>2 DEF DatabaseStep
<1>6. ASSUME NEW u \in Users, PassHolder(c, u) \/ MissHolder(c, u) PROVE OwnInv(c)'
  <2>1. /\ at[c] = "filter" /\ at' = at
        /\ UNCHANGED <<users, perms, req, ans, base, grants>>
        /\ holders'[c] = holders[c] \ {u}
        /\ touched[c] \subseteq touched'[c]
        /\ (users[u] # None => IsSuperAdmin(users[u])) \/ u \in touched'[c]
    BY SMTT(20), <1>6, HandlersServe
       DEF PassHolder, MissHolder, StayCall, AuthShape, storeVars, callVars, Touches
  <2>2. HoldersSeen(c)'
    BY <2>1 DEF HoldersSeen, OwnInv
  <2> QED
    BY <1>a, <2>1, <2>2 DEF DatabaseStep
<1>7. ASSUME NEW u \in Users, RefuseHolder(c, u) PROVE OwnInv(c)'
  <2>1. /\ at[c] = "filter" /\ UNCHANGED <<users, perms, req, base, touched>>
        /\ at'[c] = "done" /\ ans'[c] = "error"
    BY <1>7 DEF RefuseHolder, StayCall, Answers, Goes, AuthShape, storeVars
  <2> QED
    BY <1>b, <2>1 DEF DatabaseStep
<1> QED
  BY <1>1, <1>2, <1>3, <1>4, <1>5, <1>6, <1>7 DEF DatabaseSteps

\* A command begins with what the store holds, and ends; a login that marks its
\* connection copies what it has read.
LEMMA RouteKeeps ==
    ASSUME AuthShape, RequestShape, ServerShape, NEW c \in Conns, OwnInv(c), RouteSteps(c)
    PROVE  OwnInv(c)'
<1>1. ASSUME NEW r, NEW u, NEW l, Begin(c, r, u, l), WellFormed(r), StepFits(l, r.cmd),
             l \in {"operator", "read", "list", "dbexists"}, r.cmd = "delete" => l # "list",
             r.cmd = "login" => l = "read"
      PROVE  OwnInv(c)'
  <2>1. /\ at[c] = "idle" /\ at'[c] = l /\ req'[c] = r /\ touched'[c] = {}
        /\ base'[c] = UserEntry(r.user)
        /\ UNCHANGED <<users, perms, got, todo, grants, ans>>
    BY <1>1 DEF Begin, AuthShape, storeVars
  <2> QED
    BY <1>1, <2>1 DEF OwnInv, CallFits, Undisturbed, LoginFits, LoginDone, HoldersSeen, Target,
       UserEntry
<1>2. CASE RouteAuth(c)
  <2>1. /\ command[c] \in Requests /\ WellFormed(command[c])
        /\ command[c].cmd \in AuthCommands
        /\ command[c].cmd # "login" => username[c] \in Users
    BY <1>2, RequestsAssumption DEF RouteAuth, RequestShape
  <2> DEFINE r == command[c]
             u == username[c]
             q == [r EXCEPT !.user = u]
  <2>2. CASE r.cmd = "changepass"
    <3>1. WellFormed(q) /\ q.cmd = "changepass"
      BY <2>1, <2>2 DEF WellFormed
    <3>2. Begin(c, q, u, "read")
      BY <1>2, <2>2 DEF RouteAuth, HandleAuthCommand
    <3>3. StepFits("read", q.cmd)
      BY <3>1 DEF StepFits, AuthCommands
    <3> HIDE DEF q, r, u
    <3> QED
      BY <1>1, <3>1, <3>2, <3>3
  <2>3. CASE r.cmd # "changepass"
    <3>1. Begin(c, r, u, FirstStep(r, u))
      BY <1>2, <2>3 DEF RouteAuth, HandleAuthCommand
    <3>2. /\ FirstStep(r, u) \in {"operator", "read", "list"}
          /\ StepFits(FirstStep(r, u), r.cmd)
          /\ r.cmd = "delete" => FirstStep(r, u) # "list"
          /\ r.cmd = "login" => FirstStep(r, u) = "read"
      BY <2>1 DEF FirstStep, StepFits, AuthCommands, AdminOnly, OwnOrAdmin
    <3> HIDE DEF r, u
    <3> QED
      BY <1>1, <2>1, <3>1, <3>2 DEF r
  <2> QED
    BY <2>2, <2>3
<1>3. CASE RouteDatabase(c)
  <2>1. /\ WellFormed(command[c]) /\ command[c].cmd \in DatabaseCommands
        /\ Begin(c, command[c], username[c], "dbexists")
    BY <1>3, RequestsAssumption DEF RouteDatabase, RequestShape
  <2>2. StepFits("dbexists", command[c].cmd) /\ command[c].cmd \notin {"delete", "login"}
    BY <2>1 DEF StepFits, DatabaseCommands
  <2> QED
    BY <1>1, <2>1, <2>2
<1>4. CASE RouteElsewhere(c)
  <2>1. UNCHANGED <<authVars, holders>> /\ connAuth' = connAuth
    BY <1>4 DEF RouteElsewhere, StayServer, dbVars, tableVars
  <2> QED
    BY <2>1, QuietStays, QuietKeeps
<1>5. CASE Finish(c)
  <2>1. /\ at'[c] = "idle" /\ ans'[c] = None /\ grants'[c] = NoPerms
    BY <1>5 DEF Finish, Return, Goes, AuthShape
  <2> QED
    BY <2>1 DEF OwnInv, CallFits, Undisturbed, LoginFits, LoginDone, HoldersSeen
<1>6. CASE MarkConnectionAuthenticated(c)
  <2>1. /\ at[c] = "mark" /\ at'[c] = "done" /\ ans'[c] = "ok"
        /\ UNCHANGED <<users, perms, req, got, grants, base, touched>>
        /\ connAuth'[c].Authenticated /\ connAuth'[c].Username = Target(c)
        /\ connAuth'[c].Role = got[c].Role /\ connAuth'[c].Permissions = grants[c]
    BY <1>6 DEF MarkConnectionAuthenticated, Answers, Goes, AuthShape, ServerShape, storeVars
  <2>2. req[c].cmd = "login"
    BY <2>1 DEF OwnInv, CallFits, StepFits
  <2>3. Effect(req[c], base[c]) = base[c]
    BY <2>2 DEF Effect
  <2> QED
    BY <2>1, <2>2, <2>3 DEF OwnInv, CallFits, Undisturbed, LoginFits, LoginDone, HoldersSeen,
       Target, UserEntry, StepFits
<1> QED
  BY <1>2, <1>3, <1>4, <1>5, <1>6 DEF RouteSteps
-----------------------------------------------------------------------------
(* Shapes *)

\* A step that is no part of a command, and one that writes only to the store.
LEMMA ShapeStays ==
    ASSUME AuthShape, UNCHANGED <<authVars, holders>>
    PROVE  AuthShape'
BY DEF AuthShape, authVars, callVars, storeVars

\* A write leaves the store well-formed.
LEMMA StoreShape ==
    ASSUME AuthShape, NEW w, Stores(w)
    PROVE  /\ users' = [u \in Users |-> users'[u]] /\ perms' = [u \in Users |-> perms'[u]]
           /\ \A u \in Users : perms'[u] = [d \in Databases |-> perms'[u][d]]
<1>1. /\ users = [u \in Users |-> users[u]] /\ perms = [u \in Users |-> perms[u]]
      /\ \A u \in Users : perms[u] = [d \in Databases |-> perms[u][d]]
  BY DEF AuthShape
<1>2. CASE w.db = None
  BY SMTT(20), <1>1, <1>2 DEF Stores
<1>3. CASE w.db # None
  <2>1. users' = users /\ perms' = [perms EXCEPT ![w.user] = [@ EXCEPT ![w.db] = w.value]]
    BY <1>3 DEF Stores
  <2>2. perms' = [u \in Users |-> perms'[u]]
    BY <1>1, <2>1
  <2>3. ASSUME NEW u \in Users PROVE perms'[u] = [d \in Databases |-> perms'[u][d]]
    <3>1. perms'[u] = IF u = w.user THEN [perms[u] EXCEPT ![w.db] = w.value] ELSE perms[u]
      BY <1>1, <2>1
    <3> QED
      BY <1>1, <3>1
  <2> QED
    BY <1>1, <2>1, <2>2, <2>3
<1> QED
  BY <1>2, <1>3

\* A step that changes only what belongs to c, each at most once.
LEMMA CallShape ==
    ASSUME AuthShape, NEW c \in Conns,
           \/ at' = at
           \/ \E l \in {"idle", "done"} \cup AuthStep \cup DatabaseStep : at' = [at EXCEPT ![c] = l],
           ans' = ans \/ \E x : ans' = [ans EXCEPT ![c] = x],
           got' = got \/ \E x : got' = [got EXCEPT ![c] = x],
           todo' = todo \/ \E S \in SUBSET Databases : todo' = [todo EXCEPT ![c] = S],
           touched' = [p \in Conns |-> touched'[p]],
           UNCHANGED <<users, perms, req, who, base, grants, holders>>
    PROVE  AuthShape'
<1> USE DEF AuthShape
<1>1. at' \in [Conns -> {"idle", "done"} \cup AuthStep \cup DatabaseStep]
  BY Zenon
<1>2. ans' = [p \in Conns |-> ans'[p]] /\ got' = [p \in Conns |-> got'[p]]
  BY Zenon
<1>3. todo' \in [Conns -> SUBSET Databases]
  BY Zenon
<1>4. UNCHANGED <<users, perms, req, who, base, grants, holders>>
  OBVIOUS
<1> QED
  BY SMT, <1>1, <1>2, <1>3, <1>4

\* Auth commands keep the shape of their variables.
LEMMA AuthStepsShape ==
    ASSUME AuthShape, NEW c \in Conns, AuthSteps(c)
    PROVE  AuthShape'
<1> USE DEF AuthShape, AuthStep, Goes, Answers, storeVars
<1>0. holders' = holders
  BY DEF AuthSteps, dbVars
<1>1. CASE OperatorAllowed(c) BY <1>0, <1>1 DEF OperatorAllowed
<1>2. CASE OperatorDenied(c) BY <1>0, <1>2 DEF OperatorDenied
<1>3. CASE ReadUser(c)
  <2>1. /\ \E l \in AuthStep \cup {"done"} : at' = [at EXCEPT ![c] = l]
        /\ ans' = ans \/ ans' = [ans EXCEPT ![c] = "ok"]
    BY <1>3 DEF ReadUser
  <2> QED
    BY <1>0, <1>3, <2>1, CallShape DEF ReadUser
<1>4. CASE RefuseUser(c) BY <1>0, <1>4 DEF RefuseUser
<1>5. CASE CheckUser(c) BY ZenonT(40), <1>0, <1>5 DEF CheckUser
<1>6. CASE Write(c)
  <2>1. /\ users' = [u \in Users |-> users'[u]] /\ perms' = [u \in Users |-> perms'[u]]
        /\ \A u \in Users : perms'[u] = [d \in Databases |-> perms'[u][d]]
    BY <1>6, StoreShape DEF Write
  <2>2. at' \in [Conns -> {"idle", "done"} \cup AuthStep \cup DatabaseStep]
    <3>1. at' = [at EXCEPT ![c] = "list"] \/ at' = [at EXCEPT ![c] = "done"]
      BY <1>6 DEF Write
    <3> QED
      BY <3>1
  <2>3. /\ touched' = [p \in Conns |-> touched'[p]] /\ ans' = [p \in Conns |-> ans'[p]]
        /\ UNCHANGED <<req, who, got, todo, grants, base>>
    BY <1>6, HandlersServe DEF Write, Touches
  <2> QED
    BY <1>0, <2>1, <2>2, <2>3
<1>7. CASE WriteFails(c) BY <1>0, <1>7 DEF WriteFails
<1>8. CASE WriteInDoubt(c) BY <1>0, <1>8 DEF WriteInDoubt
<1>9. CASE ReadAgain(c) BY ZenonT(40), <1>0, <1>9 DEF ReadAgain
<1>10. CASE ListKeys(c) BY <1>0, <1>10 DEF ListKeys
<1>11. CASE ListFails(c)
  <2>1. /\ \E l \in {"mark", "done"} : at' = [at EXCEPT ![c] = l]
        /\ ans' = ans \/ \E x : ans' = [ans EXCEPT ![c] = x]
    BY <1>11 DEF ListFails
  <2>2. touched' = [p \in Conns |-> touched'[p]]
    BY <1>11, HandlersServe DEF ListFails, Touches
  <2> QED
    <3>1. UNCHANGED <<users, perms, req, who, got, todo, grants, base>>
      BY <1>11 DEF ListFails
    <3> HIDE DEF AuthShape
    <3> QED
      BY <1>0, <2>1, <2>2, <3>1, CallShape
<1>12. CASE FetchDone(c)
  <2>1. /\ \E l \in {"mark", "revoke", "done"} : at' = [at EXCEPT ![c] = l]
        /\ ans' = ans \/ \E x : ans' = [ans EXCEPT ![c] = x]
        /\ todo' = todo \/ \E S \in SUBSET Databases : todo' = [todo EXCEPT ![c] = S]
    BY <1>12 DEF FetchDone, AfterList
  <2>2. /\ UNCHANGED <<users, perms, req, who, got, base, grants, touched>>
        /\ touched' = [p \in Conns |-> touched'[p]]
    BY <1>12 DEF FetchDone
  <2> HIDE DEF AuthShape
  <2> QED
    BY <1>0, <2>1, <2>2, CallShape
<1>13. CASE RevokeDone(c) BY <1>0, <1>13 DEF RevokeDone
<1>14. CASE ReadPermission(c) BY <1>0, <1>14 DEF ReadPermission
<1>15. CASE GetFails(c)
  <2>1. /\ at' = at \/ \E l \in {"write", "done"} : at' = [at EXCEPT ![c] = l]
        /\ ans' = ans \/ \E x : ans' = [ans EXCEPT ![c] = x]
        /\ got' = got \/ \E x : got' = [got EXCEPT ![c] = x]
    BY <1>15 DEF GetFails
  <2>2. todo' = todo \/ \E d \in todo[c] : todo' = [todo EXCEPT ![c] = todo[c] \ {d}]
    BY <1>15 DEF GetFails
  <2>3. todo' = todo \/ \E S \in SUBSET Databases : todo' = [todo EXCEPT ![c] = S]
    BY <2>2
  <2>4. touched' = [p \in Conns |-> touched'[p]]
    BY <1>15, HandlersServe DEF GetFails, Touches
  <2>5. UNCHANGED <<users, perms, req, who, base, grants>>
    BY <1>15 DEF GetFails
  <2> HIDE DEF AuthShape
  <2> QED
    BY <1>0, <2>1, <2>3, <2>4, <2>5, CallShape
<1>16. ASSUME NEW d \in Databases, FetchPerm(c, d) PROVE AuthShape'
  BY <1>0, <1>16 DEF FetchPerm
<1>17. ASSUME NEW d \in Databases, RevokePerm(c, d) PROVE AuthShape'
  <2>1. /\ users' = [u \in Users |-> users'[u]] /\ perms' = [u \in Users |-> perms'[u]]
        /\ \A u \in Users : perms'[u] = [e \in Databases |-> perms'[u][e]]
    BY <1>17, StoreShape DEF RevokePerm
  <2> QED
    BY <1>0, <1>17, <2>1, HandlersServe DEF RevokePerm, Touches
<1>18. ASSUME NEW d \in Databases, RevokeFails(c, d) PROVE AuthShape'
  BY <1>0, <1>18, HandlersServe DEF RevokeFails, Touches
<1> HIDE DEF AuthShape
<1> QED
  BY <1>1, <1>2, <1>3, <1>4, <1>5, <1>6, <1>7, <1>8, <1>9, <1>10, <1>11, <1>12, <1>13,
     <1>14, <1>15, <1>16, <1>17, <1>18 DEF AuthSteps

\* So do database commands.
LEMMA DatabaseStepsShape ==
    ASSUME AuthShape, NEW c \in Conns, DatabaseSteps(c)
    PROVE  AuthShape'
<1> USE DEF AuthShape, DatabaseStep, Goes, Answers, StayCall, storeVars, dbVars
<1>1. CASE DatabaseExists(c) \/ UseDBAllowed(c)
  <2>1. /\ \E l \in {"done", "dbperm", "holders", "dbset"} : at' = [at EXCEPT ![c] = l]
        /\ ans' = ans \/ \E x : ans' = [ans EXCEPT ![c] = x]
        /\ UNCHANGED <<users, perms, req, who, got, todo, grants, base, touched, holders>>
    BY <1>1 DEF DatabaseExists, UseDBAllowed
  <2>2. touched' = [p \in Conns |-> touched'[p]]
    BY <2>1
  <2> HIDE DEF AuthShape
  <2> QED
    BY <2>1, <2>2, CallShape
<1>3. CASE SetConnectionCurrentDB(c) BY <1>3 DEF SetConnectionCurrentDB
<1>4. CASE ListHolders(c) BY <1>4 DEF ListHolders
<1>5. CASE ListHoldersFails(c) BY <1>5 DEF ListHoldersFails
<1>6. CASE ListSuperAdmins(c) BY <1>6 DEF ListSuperAdmins
<1>7. CASE ListSuperAdminsFails(c) BY <1>7 DEF ListSuperAdminsFails
<1>8. ASSUME NEW u \in Users, PassHolder(c, u) PROVE AuthShape'
  BY <1>8 DEF PassHolder
<1>9. ASSUME NEW u \in Users, MissHolder(c, u) PROVE AuthShape'
  BY <1>9, HandlersServe DEF MissHolder, Touches, callVars
<1>10. ASSUME NEW u \in Users, RefuseHolder(c, u) PROVE AuthShape'
  BY <1>10 DEF RefuseHolder
<1>11. CASE DeleteDB(c) BY <1>11 DEF DeleteDB
<1>12. CASE DeleteDBFails(c) BY <1>12 DEF DeleteDBFails
<1>13. CASE DeleteDBInDoubt(c) BY ZenonT(40), <1>13 DEF DeleteDBInDoubt
<1> HIDE DEF AuthShape
<1> QED
  BY <1>1, <1>3, <1>4, <1>5, <1>6, <1>7, <1>8, <1>9, <1>10, <1>11, <1>12, <1>13
     DEF DatabaseSteps

\* So do the beginning and the end of a command, and late writes.
LEMMA RouteStepsShape ==
    ASSUME AuthShape, NEW c \in Conns, RouteSteps(c)
    PROVE  AuthShape'
<1> USE DEF AuthShape, Goes, Answers, storeVars, dbVars
<1>1. CASE RouteAuth(c)
  <2>1. FirstStep(command[c], username[c]) \in {"operator", "list", "read"}
    BY DEF FirstStep
  <2>2. \E r, u : \E l \in {"operator", "list", "read"} : Begin(c, r, u, l)
    BY <1>1, <2>1 DEF RouteAuth, HandleAuthCommand
  <2>3. /\ \E l \in {"operator", "list", "read"} : at' = [at EXCEPT ![c] = l]
        /\ \E r : req' = [req EXCEPT ![c] = r]
        /\ \E u : who' = [who EXCEPT ![c] = u]
        /\ \E b : base' = [base EXCEPT ![c] = b]
        /\ touched' = [touched EXCEPT ![c] = {}]
        /\ UNCHANGED <<users, perms, got, todo, grants, ans, holders>>
    BY <1>1, <2>2 DEF RouteAuth, Begin
  <2>4. at' \in [Conns -> {"idle", "done"} \cup AuthStep \cup DatabaseStep]
    BY <2>3 DEF AuthStep
  <2>5. /\ req' = [p \in Conns |-> req'[p]] /\ who' = [p \in Conns |-> who'[p]]
        /\ base' = [p \in Conns |-> base'[p]] /\ touched' = [p \in Conns |-> touched'[p]]
    BY <2>3
  <2> QED
    BY SMTT(20), <2>3, <2>4, <2>5
<1>2. CASE RouteDatabase(c) BY <1>2 DEF RouteDatabase, Begin, DatabaseStep
<1>3. CASE RouteElsewhere(c) BY <1>3, ShapeStays DEF RouteElsewhere
<1>4. CASE MarkConnectionAuthenticated(c) BY <1>4 DEF MarkConnectionAuthenticated
<1>5. CASE Finish(c) BY ZenonT(40), <1>5 DEF Finish, Return, NoPerms
<1> HIDE DEF AuthShape
<1> QED
  BY <1>1, <1>2, <1>3, <1>4, <1>5 DEF RouteSteps

\* A write that Raft applies late leaves the state well-formed.
LEMMA LateWriteShape ==
    ASSUME AuthShape, NEW w, LateWrite(w), UNCHANGED dbVars
    PROVE  AuthShape'
<1>1. /\ users' = [u \in Users |-> users'[u]] /\ perms' = [u \in Users |-> perms'[u]]
      /\ \A u \in Users : perms'[u] = [e \in Databases |-> perms'[u][e]]
  BY StoreShape DEF LateWrite
<1> QED
  BY <1>1, HandlersServe DEF LateWrite, Touches, callVars, dbVars, AuthShape
-----------------------------------------------------------------------------
(* All steps *)

\* Handler goroutines between their first and their last step.
LEMMA ConnStepsTable ==
    ASSUME TableCore, Handled, NEW c \in Conns, ConnSteps(c) \/ ReceiveRequest(c)
    PROVE  TableCore' /\ Handled'
<1>1. UNCHANGED authVars /\ hpc[c] # "handle" /\ at[c] = "idle"
  BY DEF ConnSteps, LoopTest, ReadTimeout, ReadFails, PassGate, RejectUnauthenticated, FillMeta,
     Respond, CloseConn, DeleteConn, UncountConn, ReceiveRequest, ReadRequest, Handled
<1>2. \E x : hpc' = [hpc EXCEPT ![c] = x]
  BY DEF ConnSteps, LoopTest, ReadTimeout, ReadFails, PassGate, RejectUnauthenticated, FillMeta,
     Respond, CloseConn, DeleteConn, UncountConn, ReceiveRequest, ReadRequest, Goto
<1>3. Handled'
  <2>1. at' = at
    BY <1>1 DEF authVars, callVars
  <2>2. \A e \in Conns : e # c => hpc'[e] = hpc[e]
    BY <1>2 DEF TableCore, ServerShape
  <2> QED
    BY <1>1, <2>1, <2>2 DEF Handled
<1>4. CASE \/ LoopTest(c) \/ ReadTimeout(c) \/ ReadFails(c) \/ PassGate(c) \/ FillMeta(c)
           \/ Respond(c) \/ ReceiveRequest(c)
  <2>1. /\ hpc[c] \in Serving /\ \E x \in Serving : hpc' = [hpc EXCEPT ![c] = x]
        /\ UNCHANGED <<starts, mpc, apc, acc, sock, tableVars>>
    BY <1>4 DEF LoopTest, ReadTimeout, ReadFails, PassGate, FillMeta, Respond, ReceiveRequest,
       ReadRequest, Goto, Serving, mainVars, loopVars
  <2> QED
    BY <1>3, <2>1, HandlerMoves
<1>5. CASE RejectUnauthenticated(c) \/ CloseConn(c) \/ DeleteConn(c) \/ UncountConn(c)
  BY <1>3, <1>5, ClosingKeepsTable
<1> QED
  BY <1>4, <1>5 DEF ConnSteps

\* Handler goroutines in a command.
LEMMA CommandStepsTable ==
    ASSUME TableCore, Handled, AuthShape, NEW c \in Conns,
           RouteSteps(c) \/ AuthSteps(c) \/ DatabaseSteps(c)
    PROVE  TableCore' /\ Handled'
<1>1. \A e \in Conns : e # c => at'[e] = at[e]
  BY RouteStepsQuiet, AuthStepsQuiet, DatabaseStepsQuiet DEF Quiet
<1>2. at' = [e \in Conns |-> at'[e]]
  <2>1. AuthShape'
    BY RouteStepsShape, AuthStepsShape, DatabaseStepsShape
  <2> QED
    BY <2>1 DEF AuthShape
<1>3. CASE RouteAuth(c) \/ RouteDatabase(c) \/ RouteElsewhere(c) \/ Finish(c)
  <2>1. /\ hpc[c] \in {"route", "handle"} /\ UNCHANGED <<starts, mpc, apc, acc, sock, tableVars>>
        /\ \/ hpc' = [hpc EXCEPT ![c] = "handle"]
           \/ hpc' = [hpc EXCEPT ![c] = "respond"] /\ at'[c] = "idle"
    BY <1>3 DEF RouteAuth, RouteDatabase, RouteElsewhere, Finish, Return, Goes, Goto, StayServer,
       Handled, authVars, callVars, mainVars, loopVars
  <2>2. TableCore'
    BY <2>1, HandlerMoves DEF Serving
  <2>3. \A e \in Conns : /\ e # c => hpc'[e] = hpc[e]
                         /\ at'[c] # "idle" => hpc'[c] = "handle"
    BY <2>1 DEF TableCore, ServerShape
  <2> QED
    BY <1>1, <1>2, <2>2, <2>3 DEF Handled
<1>4. CASE MarkConnectionAuthenticated(c) \/ SetConnectionCurrentDB(c)
  <2>1. /\ at[c] # "idle" /\ UNCHANGED <<starts, mpc, apc, acc, sock, hpc, conns, connCount>>
        /\ connAuth' = connAuth \/ \E x : connAuth' = [connAuth EXCEPT ![c] = x]
    BY <1>4 DEF MarkConnectionAuthenticated, SetConnectionCurrentDB, mainVars, loopVars
  <2>2. hpc[c] = "handle"
    BY <2>1 DEF Handled
  <2>3. TableCore'
    BY <2>1, <2>2, HandlerMarks, ServerStays DEF tableVars
  <2> QED
    BY <1>1, <1>2, <2>1, <2>2, <2>3 DEF Handled
<1>5. CASE AuthSteps(c) \/ (DatabaseSteps(c) /\ ~SetConnectionCurrentDB(c))
  <2>1. at[c] # "idle"
    BY <1>5 DEF AuthSteps, DatabaseSteps, OperatorAllowed, OperatorDenied, ReadUser, RefuseUser,
       CheckUser, Write, WriteFails, WriteInDoubt, ReadAgain, ListKeys, ListFails, FetchDone,
       RevokeDone, ReadPermission, GetFails, FetchPerm, RevokePerm, RevokeFails, DatabaseExists,
       UseDBAllowed, ListHolders, ListHoldersFails, ListSuperAdmins, ListSuperAdminsFails,
       PassHolder, MissHolder, RefuseHolder, DeleteDB, DeleteDBFails, DeleteDBInDoubt
  <2>2. UNCHANGED serverVars
    BY <1>5 DEF AuthSteps, DatabaseSteps, DatabaseExists, UseDBAllowed, ListHolders,
       ListHoldersFails, ListSuperAdmins, ListSuperAdminsFails, PassHolder, MissHolder,
       RefuseHolder, DeleteDB, DeleteDBFails, DeleteDBInDoubt
  <2>3. UNCHANGED <<starts, mpc, apc, acc, sock, hpc, tableVars>>
    BY <2>2 DEF serverVars, mainVars, loopVars
  <2> QED
    BY <1>1, <1>2, <2>1, <2>3, ServerStays DEF Handled
<1> QED
  BY <1>3, <1>4, <1>5 DEF RouteSteps

\* Accept loops.
LEMMA LoopStepsTable ==
    ASSUME TableCore, Handled, NEW l \in Loops, LoopSteps(l)
    PROVE  TableCore' /\ Handled'
<1>1. TableCore'
  BY LoopIdles, AcceptKeepsTable, LimitKeepsTable, InsertKeepsTable, CountKeepsTable
     DEF LoopSteps
<1>2. at' = at
  BY DEF LoopSteps, authVars, callVars
<1>3. hpc' = hpc \/ (apc[l] = "count" /\ hpc' = [hpc EXCEPT ![acc[l]] = "loop"])
  BY DEF LoopSteps, AcceptTop, AcceptFails, Accept, RejectAtLimit, BelowLimit, InsertConn,
     CountConn
<1>4. Handled'
  BY <1>2, <1>3 DEF Handled, TableCore, ServerShape, OneOwner, Holding
<1> QED
  BY <1>1, <1>4

\* Requests come from clients, and names from logins.
LEMMA RequestsKept ==
    ASSUME TableCore, AuthShape, RequestShape, \A p \in Conns : CallFits(p), [Next]_vars
    PROVE  RequestShape'
<1> USE DEF RequestShape
<1>a. ASSUME UNCHANGED <<requests, command, username, connAuth, hpc>> PROVE RequestShape'
  BY <1>a
<1>b. ASSUME NEW c \in Conns, NEW x, hpc' = [hpc EXCEPT ![c] = x], x \notin {"gate", "meta", "route"},
             UNCHANGED <<requests, username, connAuth>>,
             command' = command \/ command' = [command EXCEPT ![c] = None]
      PROVE  RequestShape'
  <2>1. command' = [e \in Conns |-> command'[e]]
    BY <1>b
  <2>2. ASSUME NEW e \in Conns, hpc'[e] \in {"gate", "meta", "route"} PROVE command'[e] \in Requests
    <3>1. e # c /\ hpc'[e] = hpc[e]
      BY <1>b, <2>2 DEF TableCore, ServerShape
    <3> QED
      BY <1>b, <2>2, <3>1
  <2> QED
    BY <1>b, <2>1, <2>2
<1>1. CASE MainSteps \/ ClientSteps \/ RaftSteps \/ UNCHANGED vars
  <2>1. UNCHANGED <<requests, command, username, connAuth, hpc>>
    BY <1>1 DEF MainSteps, ClientSteps, RaftSteps, StartSwap, StartListens, StartFails, StopSwap,
       Connect, Disconnect, LateDrop, envVars, tableVars, requestVars, serverVars, vars
  <2> QED
    BY <1>a, <2>1
<1>2. CASE StopSteps
  <2>1. /\ UNCHANGED <<requests, command, username, hpc>>
        /\ \A c \in Conns : connAuth'[c] \in {connAuth[c], None}
    BY <1>2 DEF StopSteps, StopCloses, StopSweeps, envVars, requestVars, tableVars
  <2> QED
    BY <2>1
<1>3. ASSUME NEW l \in Loops, LoopSteps(l) PROVE RequestShape'
  <2>1. CASE InsertConn(l)
    <3>1. /\ UNCHANGED <<requests, command, username, hpc>>
          /\ connAuth' = [connAuth EXCEPT ![acc[l]] = NotAuthenticated]
      BY <1>3, <2>1 DEF LoopSteps, InsertConn, envVars, requestVars
    <3>2. \A c \in Conns : connAuth'[c] \in {connAuth[c], NotAuthenticated}
      BY <3>1 DEF TableCore, ServerShape
    <3>3. NotAuthenticated.Username = None
      BY DEF NotAuthenticated
    <3> QED
      BY <3>1, <3>2, <3>3
  <2>2. CASE CountConn(l)
    <3>1. /\ acc[l] \in Conns /\ hpc' = [hpc EXCEPT ![acc[l]] = "loop"]
          /\ UNCHANGED <<requests, command, username, connAuth>>
      BY <1>3, <2>2 DEF LoopSteps, CountConn, envVars, requestVars, TableCore, OneOwner, Holding
    <3> QED
      BY SMTT(20), <1>b, <3>1
  <2>3. CASE \/ AcceptTop(l) \/ AcceptFails(l) \/ (\E c \in Conns : Accept(l, c))
             \/ RejectAtLimit(l) \/ BelowLimit(l)
    BY <1>3, <2>3, <1>a DEF LoopSteps, AcceptTop, AcceptFails, Accept, RejectAtLimit,
       BelowLimit, envVars, requestVars, tableVars
  <2> QED
    BY <1>3, <2>1, <2>2, <2>3 DEF LoopSteps
<1>4. ASSUME NEW c \in Conns, ConnSteps(c) PROVE RequestShape'
  <2>0. UNCHANGED requests
    BY <1>4 DEF ConnSteps, envVars
  <2>1. CASE LoopTest(c) \/ ReadTimeout(c) \/ ReadFails(c) \/ RejectUnauthenticated(c)
             \/ CloseConn(c) \/ UncountConn(c)
    <3>1. /\ \E x \in {"read", "close", "loop", "delete", "done"} : hpc' = [hpc EXCEPT ![c] = x]
          /\ UNCHANGED <<username, connAuth>>
          /\ command' = command \/ command' = [command EXCEPT ![c] = None]
      BY <2>1 DEF LoopTest, ReadTimeout, ReadFails, RejectUnauthenticated, CloseConn,
         UncountConn, Goto, tableVars, requestVars
    <3> QED
      BY <1>b, <2>0, <3>1
  <2>2. CASE PassGate(c)
    <3>1. /\ UNCHANGED <<command, username, connAuth>> /\ hpc[c] = "gate"
          /\ hpc' = [hpc EXCEPT ![c] = "meta"]
      BY <2>2 DEF PassGate, Goto, tableVars, requestVars
    <3> QED
      BY <2>0, <3>1 DEF TableCore, ServerShape
  <2>3. CASE FillMeta(c)
    <3>1. /\ UNCHANGED <<command, connAuth>> /\ hpc[c] = "meta"
          /\ hpc' = [hpc EXCEPT ![c] = "route"]
          /\ \E u \in Users \cup {None} : username' = [username EXCEPT ![c] = u]
      BY <2>3 DEF FillMeta, Goto, tableVars
    <3> QED
      BY <2>0, <3>1 DEF TableCore, ServerShape
  <2>4. CASE Respond(c)
    <3>1. /\ UNCHANGED connAuth /\ hpc' = [hpc EXCEPT ![c] = "loop"]
          /\ command' = [command EXCEPT ![c] = None] /\ username' = [username EXCEPT ![c] = None]
      BY <2>4 DEF Respond, Goto, tableVars
    <3> QED
      BY <2>0, <3>1 DEF TableCore, ServerShape
  <2>5. CASE DeleteConn(c)
    <3>1. /\ UNCHANGED <<command, username>> /\ hpc' = [hpc EXCEPT ![c] = "uncount"]
          /\ connAuth' = [connAuth EXCEPT ![c] = None]
      BY <2>5 DEF DeleteConn, Goto, requestVars
    <3> QED
      BY <2>0, <3>1 DEF TableCore, ServerShape
  <2> QED
    BY <1>4, <2>1, <2>2, <2>3, <2>4, <2>5 DEF ConnSteps
<1>5. ASSUME NEW c \in Conns, ReceiveRequest(c) PROVE RequestShape'
  <2>1. /\ UNCHANGED <<requests, username, connAuth>> /\ hpc' = [hpc EXCEPT ![c] = "gate"]
        /\ \E r \in Requests : command' = [command EXCEPT ![c] = r]
    BY <1>5 DEF ReceiveRequest, ReadRequest, Goto, tableVars
  <2> QED
    BY <2>1 DEF TableCore, ServerShape
<1>6. ASSUME NEW c \in Conns, RouteSteps(c) PROVE RequestShape'
  <2>1. CASE RouteAuth(c) \/ RouteDatabase(c) \/ RouteElsewhere(c) \/ Finish(c)
    <3>1. /\ \E x \in {"handle", "respond"} : hpc' = [hpc EXCEPT ![c] = x]
          /\ UNCHANGED <<requests, command, username, connAuth>>
      BY <2>1 DEF RouteAuth, RouteDatabase, RouteElsewhere, Finish, Goto, StayServer,
         envVars, tableVars, requestVars
    <3> QED
      BY <1>b, <3>1
  <2>2. CASE MarkConnectionAuthenticated(c)
    <3>1. /\ UNCHANGED <<requests, command, username, hpc>> /\ at[c] = "mark"
          /\ \A e \in Conns : e # c => connAuth'[e] = connAuth[e]
          /\ connAuth'[c].Username = Target(c)
      BY <2>2 DEF MarkConnectionAuthenticated, envVars, requestVars, TableCore, ServerShape
    <3>2. Target(c) \in Users
      BY <3>1 DEF CallFits, WellFormed, Target
    <3> QED
      BY <3>1, <3>2
  <2> QED
    BY <1>6, <2>1, <2>2 DEF RouteSteps
<1>7. ASSUME NEW c \in Conns, AuthSteps(c) \/ DatabaseSteps(c) PROVE RequestShape'
  <2>1. CASE SetConnectionCurrentDB(c)
    <3>1. /\ UNCHANGED <<requests, command, username, hpc>>
          /\ \A e \in Conns : e # c => connAuth'[e] = connAuth[e]
          /\ connAuth[c] = None => connAuth'[c] = None
          /\ connAuth[c] # None => connAuth'[c].Username = connAuth[c].Username
      BY SMTT(20), <2>1 DEF SetConnectionCurrentDB, envVars, requestVars, TableCore, ServerShape
    <3> QED
      BY <3>1
  <2>2. CASE AuthSteps(c) \/ (DatabaseSteps(c) /\ ~SetConnectionCurrentDB(c))
    <3>1. UNCHANGED <<serverVars, envVars>>
      BY <2>2 DEF AuthSteps, DatabaseSteps, DatabaseExists, UseDBAllowed, ListHolders,
         ListHoldersFails, ListSuperAdmins, ListSuperAdminsFails, PassHolder, MissHolder,
         RefuseHolder, DeleteDB, DeleteDBFails, DeleteDBInDoubt
    <3> QED
      BY <1>a, <3>1 DEF serverVars, envVars, requestVars, tableVars
  <2> QED
    BY <1>7, <2>1, <2>2
<1> HIDE DEF RequestShape
<1> QED
  BY <1>1, <1>2, <1>3, <1>4, <1>5, <1>6, <1>7 DEF Next, HandlerSteps

\* An entry of connAuth that belongs to a finished command is only ever removed.
LEMMA EntryStays ==
    ASSUME TableCore, Handled, NEW p \in Conns, at[p] = "done",
           \/ MainSteps \/ StopSteps \/ ClientSteps \/ RaftSteps \/ UNCHANGED vars
           \/ \E l \in Loops : LoopSteps(l)
           \/ \E c \in Conns : ConnSteps(c) \/ ReceiveRequest(c)
           \/ \E c \in Conns \ {p} : HandlerSteps(c)
    PROVE  connAuth'[p] \in {connAuth[p], None}
<1>0. hpc[p] = "handle"
  BY DEF Handled
<1>1. CASE MainSteps \/ ClientSteps \/ RaftSteps \/ UNCHANGED vars
  BY <1>1 DEF MainSteps, ClientSteps, RaftSteps, StartSwap, StartListens, StartFails,
     StopSwap, Connect, Disconnect, LateDrop, tableVars, serverVars, vars
<1>2. CASE StopSteps
  BY <1>2 DEF StopSteps, StopCloses, StopSweeps, tableVars
<1>3. ASSUME NEW l \in Loops, LoopSteps(l) PROVE connAuth'[p] = connAuth[p]
  <2>1. \/ connAuth' = connAuth
        \/ apc[l] = "insert" /\ connAuth' = [connAuth EXCEPT ![acc[l]] = NotAuthenticated]
    BY <1>3 DEF LoopSteps, AcceptTop, AcceptFails, Accept, RejectAtLimit, BelowLimit,
       InsertConn, CountConn, tableVars
  <2>2. apc[l] = "insert" => acc[l] \in Conns /\ acc[l] # p
    BY <1>0 DEF TableCore, OneOwner, Holding
  <2> QED
    BY <2>1, <2>2 DEF TableCore, ServerShape
<1>4. ASSUME NEW c \in Conns, ConnSteps(c) \/ ReceiveRequest(c)
      PROVE  connAuth'[p] \in {connAuth[p], None}
  <2>1. connAuth' = connAuth \/ connAuth' = [connAuth EXCEPT ![c] = None]
    BY <1>4 DEF ConnSteps, LoopTest, ReadTimeout, ReadFails, PassGate,
       RejectUnauthenticated, FillMeta, Respond, CloseConn, DeleteConn, UncountConn,
       ReceiveRequest, ReadRequest, tableVars
  <2> QED
    BY <2>1 DEF TableCore, ServerShape
<1>5. ASSUME NEW c \in Conns, c # p, RouteSteps(c) \/ AuthSteps(c) \/ DatabaseSteps(c)
      PROVE  connAuth'[p] = connAuth[p]
  <2>1. connAuth' = connAuth \/ \E x : connAuth' = [connAuth EXCEPT ![c] = x]
    BY <1>5 DEF RouteSteps, RouteAuth, RouteDatabase, RouteElsewhere, Finish,
       MarkConnectionAuthenticated, StayServer, AuthSteps, DatabaseSteps,
       SetConnectionCurrentDB, DatabaseExists, UseDBAllowed,
       ListHolders, ListHoldersFails, ListSuperAdmins, ListSuperAdminsFails, PassHolder,
       MissHolder, RefuseHolder, DeleteDB, DeleteDBFails, DeleteDBInDoubt, serverVars, tableVars
  <2> QED
    BY <1>5, <2>1 DEF TableCore, ServerShape
<1> QED
  BY <1>1, <1>2, <1>3, <1>4, <1>5 DEF HandlerSteps

\* The inductive invariant holds at first.
LEMMA AuthInvInit ==
    ASSUME NEW S \in SUBSET Requests, NEW stop \in BOOLEAN, InitWith(S, stop)
    PROVE  AuthInv
<1> USE DEF InitWith, ServerInit, AuthInit
<1>1. ServerShape /\ LoopsStart /\ OneOwner /\ Entries /\ Swept
  BY SMTT(20), ServerAssumption DEF ServerShape, LoopsStart, OneOwner, Entries, Swept, Live, Loops, Holding
<1>2. LiveConns = {} /\ Passed = {}
  BY DEF LiveConns, Live, Passed
<1>3. Counted
  <2>1. CountingFacts => Cardinality(LiveConns) = 0 /\ Cardinality(Passed) = 0
    BY <1>2 DEF CountingFacts
  <2> QED
    BY SMT, <2>1, ServerAssumption DEF Counted
<1>4. Handled
  BY HandlersServe DEF Handled
<1>5. AuthShape
  BY HandlersServe DEF AuthShape, NoPerms
<1>6. RequestShape
  BY DEF RequestShape
<1>7. ASSUME NEW p \in Conns PROVE OwnInv(p)
  BY HandlersServe DEF OwnInv, CallFits, Undisturbed, LoginFits, LoginDone, HoldersSeen
<1> QED
  BY <1>1, <1>3, <1>4, <1>5, <1>6, <1>7 DEF AuthInv, TableCore

\* The inductive invariant is kept: the tables by the steps of the server, the
\* command of a goroutine by its own steps and, quietly, by everyone else's.
LEMMA AuthInvStep ==
    ASSUME AuthInv, [Next]_vars
    PROVE  AuthInv'
<1> USE DEF AuthInv
<1>0. CASE MainSteps \/ StopSteps \/ ClientSteps \/ UNCHANGED vars
  <2>1. UNCHANGED <<authVars, holders>>
    BY <1>0 DEF MainSteps, StopSteps, ClientSteps, vars, dbVars
  <2>2. TableCore'
    <3>1. CASE UNCHANGED vars
      BY <3>1, ServerStays DEF vars, serverVars, mainVars, loopVars
    <3> QED
      BY <1>0, <3>1, MainKeepsTable, SocketsKeepTable DEF MainSteps, StopSteps, ClientSteps
  <2>3. hpc' = hpc
    BY <1>0 DEF MainSteps, StopSteps, ClientSteps, StartSwap, StartListens, StartFails,
       StopSwap, StopCloses, StopSweeps, Connect, Disconnect, vars, serverVars
  <2>4. Handled'
    BY <2>1, <2>3 DEF Handled, authVars, callVars
  <2>5. ASSUME NEW p \in Conns PROVE OwnInv(p)'
    <3>1. at[p] = "done" => connAuth'[p] \in {connAuth[p], None}
      BY <1>0, EntryStays
    <3> QED
      BY <2>1, <3>1, QuietStays, QuietKeeps
  <2>6. RequestShape'
    BY RequestsKept DEF OwnInv
  <2> QED
    BY <2>1, <2>2, <2>4, <2>5, <2>6, ShapeStays
<1>1. CASE RaftSteps
  <2>1. UNCHANGED <<starts, mpc, apc, acc, sock, hpc, tableVars>> /\ at' = at
    BY <1>1 DEF RaftSteps, LateWrite, LateDrop, authVars, callVars, serverVars, mainVars, loopVars
  <2>2. TableCore' /\ Handled'
    BY <2>1, ServerStays DEF Handled
  <2>3. AuthShape' /\ \A p \in Conns : Quiet(p)
    <3>1. CASE \E w \in late : LateWrite(w) /\ UNCHANGED <<serverVars, dbVars, envVars>>
      BY <3>1, LateWriteShape, LateWriteQuiet
    <3>2. CASE \E d \in lateDrops : LateDrop(d)
      BY <3>2, ShapeStays, QuietStays DEF LateDrop
    <3> QED
      BY <1>1, <3>1, <3>2 DEF RaftSteps
  <2>4. ASSUME NEW p \in Conns PROVE OwnInv(p)'
    BY <2>1, <2>3, QuietKeeps DEF tableVars
  <2>5. RequestShape'
    BY RequestsKept DEF OwnInv
  <2> QED
    BY <2>2, <2>3, <2>4, <2>5
<1>2. ASSUME NEW l \in Loops, LoopSteps(l) PROVE AuthInv'
  <2>1. UNCHANGED <<authVars, holders>>
    BY <1>2 DEF LoopSteps, dbVars
  <2>2. ASSUME NEW p \in Conns PROVE OwnInv(p)'
    <3>1. at[p] = "done" => connAuth'[p] \in {connAuth[p], None}
      BY <1>2, EntryStays
    <3> QED
      BY <2>1, <3>1, QuietStays, QuietKeeps
  <2>3. RequestShape'
    BY RequestsKept DEF OwnInv
  <2> QED
    BY <1>2, <2>1, <2>2, <2>3, LoopStepsTable, ShapeStays
<1>3. ASSUME NEW c \in Conns, ConnSteps(c) \/ ReceiveRequest(c) PROVE AuthInv'
  <2>1. UNCHANGED <<authVars, holders>>
    BY <1>3 DEF ConnSteps, ReceiveRequest, dbVars
  <2>2. ASSUME NEW p \in Conns PROVE OwnInv(p)'
    <3>1. at[p] = "done" => connAuth'[p] \in {connAuth[p], None}
      BY <1>3, EntryStays
    <3> QED
      BY <2>1, <3>1, QuietStays, QuietKeeps
  <2>3. RequestShape'
    BY RequestsKept DEF OwnInv
  <2> QED
    BY <1>3, <2>1, <2>2, <2>3, ConnStepsTable, ShapeStays
<1>4. ASSUME NEW c \in Conns, RouteSteps(c) \/ AuthSteps(c) \/ DatabaseSteps(c) PROVE AuthInv'
  <2>1. TableCore' /\ Handled'
    BY <1>4, CommandStepsTable
  <2>2. AuthShape'
    BY <1>4, RouteStepsShape, AuthStepsShape, DatabaseStepsShape
  <2>3. RequestShape'
    BY RequestsKept DEF OwnInv
  <2>4. ASSUME NEW p \in Conns, p # c PROVE OwnInv(p)'
    <3>1. Quiet(p)
      BY <1>4, <2>4, RouteStepsQuiet, AuthStepsQuiet, DatabaseStepsQuiet
    <3>2. at[p] = "done" => connAuth'[p] \in {connAuth[p], None}
      BY <1>4, <2>4, EntryStays DEF HandlerSteps
    <3> QED
      BY <3>1, <3>2, QuietKeeps
  <2>5. OwnInv(c)'
    <3>1. CASE RouteSteps(c)
      BY <3>1, RouteKeeps DEF TableCore
    <3>2. CASE DatabaseSteps(c)
      BY <3>2, DatabaseKeeps
    <3>3. CASE AuthSteps(c)
      BY <3>3, ReadingKeeps, ReadUserKeeps, WriteKeeps, ListingKeeps, FetchDoneKeeps,
         RevokingKeeps, GetFailsKeeps DEF AuthSteps
    <3> QED
      BY <1>4, <3>1, <3>2, <3>3
  <2> QED
    BY <2>1, <2>2, <2>3, <2>4, <2>5
<1> HIDE DEF AuthInv
<1> QED
  BY <1>0, <1>1, <1>2, <1>3, <1>4 DEF Next, HandlerSteps

\* In every reachable state the tables fit the goroutines, the state of every
\* command is well-formed, and a command that nobody disturbed has read and
\* written of its user what it would have alone.
THEOREM AuthInvariant == AuthSpec => []AuthInv
<1>1. (\E S \in SUBSET Requests, stop \in BOOLEAN : InitWith(S, stop)) => AuthInv
  BY AuthInvInit
<1>2. AuthInv /\ [Next]_vars => AuthInv'
  BY AuthInvStep
<1> QED
  BY <1>1, <1>2, PTL DEF AuthSpec

\* An auth command that nobody disturbs is all or nothing, however the steps of
\* the other goroutines fall between its own.
THEOREM CommandsAtomic == AuthSpec => []AloneIsAtomic
<1>1. AuthInv => AloneIsAtomic
  BY HandlersServe DEF AuthInv, OwnInv, Undisturbed, AloneIsAtomic, Target
<1> QED
  BY <1>1, AuthInvariant, PTL

\* What a login leaves with its connection is what the store held.
THEOREM LoginsCopyTheStore == AuthSpec => []LoginsAreCurrent
<1>1. AuthInv => LoginsAreCurrent
  BY DEF AuthInv, OwnInv, LoginDone, LoginsAreCurrent, Target
<1> QED
  BY <1>1, AuthInvariant, PTL

\* A database is dropped only when all holders of permissions have been looked at.
THEOREM DropsLookAtGrants == AuthSpec => DropsRespectGrants
<1>1. ASSUME AuthInv, [Next]_vars, NEW c \in Conns, at[c] = "filter", dbs' # dbs, ans'[c] = "ok",
             NEW u \in Users, users[u] # None, perms[u][req[c].db] # None
      PROVE  IsSuperAdmin(users[u]) \/ u \in touched[c]
  <2>1. ans[c] # "ok"
    BY <1>1, AuthAssumption DEF AuthInv, OwnInv, CallFits
  <2>2. ~Quiet(c)
    BY <1>1, <2>1 DEF Quiet
  <2>3. DatabaseSteps(c)
    <3>1. PICK e \in Conns : DatabaseSteps(e) \/ \E d \in lateDrops : LateDrop(d)
      BY <1>1 DEF Next, MainSteps, StopSteps, ClientSteps, RaftSteps, LoopSteps,
         HandlerSteps, ConnSteps, RouteSteps, RouteAuth, RouteDatabase, RouteElsewhere, Finish,
         MarkConnectionAuthenticated, AuthSteps, ReceiveRequest, dbVars, vars
    <3>2. ~\E d \in lateDrops : LateDrop(d)
      BY <2>2, QuietStays DEF LateDrop
    <3>3. e = c
      BY <1>1, <2>2, <3>1, <3>2, DatabaseStepsQuiet DEF AuthInv
    <3> QED
      BY <3>1, <3>2, <3>3
  <2>4. holders[c] = {}
    BY <1>1, <2>1, <2>3 DEF DatabaseSteps, DatabaseExists, UseDBAllowed, SetConnectionCurrentDB,
       ListHolders, ListHoldersFails, ListSuperAdmins, ListSuperAdminsFails, PassHolder,
       MissHolder, RefuseHolder, DeleteDB, DeleteDBFails, DeleteDBInDoubt, dbVars
  <2> QED
    BY <1>1, <2>4 DEF AuthInv, OwnInv, HoldersSeen
<1>2. AuthInv /\ [Next]_vars =>
        [\A c \in Conns : at[c] = "filter" /\ dbs' # dbs /\ ans'[c] = "ok" =>
          \A u \in Users : users[u] # None /\ perms[u][req[c].db] # None =>
              IsSuperAdmin(users[u]) \/ u \in touched[c]]_vars
  BY <1>1
<1> QED
  BY <1>2, AuthInvariant, PTL DEF AuthSpec, DropsRespectGrants

-----------------------------------------------------------------------------
(* Counting connections *)

INSTANCE FiniteSetTheorems

\* The facts about Cardinality that the counter's invariant starts from.
THEOREM CountingHolds == CountingFacts
<1>1. \A S : IsFiniteSet(S) => Cardinality(S) \in Nat
  BY FS_CardinalityType
<1>2. \A S, T : IsFiniteSet(S) /\ T \subseteq S =>
                  IsFiniteSet(T) /\ Cardinality(T) <= Cardinality(S)
  BY FS_Subset
<1>3. \A S, x : IsFiniteSet(S) /\ x \notin S => Cardinality(S \cup {x}) = Cardinality(S) + 1
  BY FS_AddElement
<1>4. \A S, x : IsFiniteSet(S) /\ x \in S => Cardinality(S \ {x}) = Cardinality(S) - 1
  BY FS_RemoveElement
<1>5. \A n \in Nat : IsFiniteSet(1 .. n) /\ Cardinality(1 .. n) = n
  <2> TAKE n \in Nat
  <2>1. IsFiniteSet(1 .. n) /\ Cardinality(1 .. n) = IF 1 > n THEN 0 ELSE n - 1 + 1
    BY SMT, FS_Interval
  <2> QED
    BY SMT, <2>1
<1>6. IsFiniteSet({}) /\ Cardinality({}) = 0
  BY FS_EmptySet
<1> QED
  BY <1>1, <1>2, <1>3, <1>4, <1>5, <1>6 DEF CountingFacts

\* The connection tables fit the goroutines, for any number of connections, starts
\* and stops: connCount counts the handlers, entries do not outlive them, and a
\* handler that Stop has swept from the table has a closed socket.
THEOREM ServerTables == AuthSpec => []TableMatchesConnections
<1>1. ASSUME AuthInv PROVE TableMatchesConnections
  <2>1. connCount = Cardinality({c \in Conns : Live(c)})
    BY <1>1, CountingHolds DEF AuthInv, TableCore, Counted, LiveConns
  <2>2. connCount <= maxConns + starts - 1
    BY SMTT(20), <1>1, CountingHolds, CountsFinite, ServerAssumption DEF AuthInv, TableCore, Counted, ServerShape
  <2>3. \A c \in Conns : c \in conns \/ connAuth[c] # None =>
            Live(c) \/ \E l \in Loops : apc[l] = "count" /\ acc[l] = c
    BY <1>1 DEF AuthInv, TableCore, Entries, Live, Serving
  <2>4. \A c \in Conns : Live(c) /\ c \notin conns => sock[c] = "closed"
    BY <1>1 DEF AuthInv, TableCore, Swept
  <2> QED
    BY <2>1, <2>2, <2>3, <2>4 DEF TableMatchesConnections
<1> QED
  BY <1>1, AuthInvariant, PTL
===============================================================================
