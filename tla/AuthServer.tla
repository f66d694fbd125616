------------------------------ MODULE AuthServer ------------------------------
(***************************************************************************)
(* Connections and authentication together: the handler goroutine of a     *)
(* connection (ProtocolServer) serves auth commands (AuthManager) and      *)
(* database commands (business/db_handlers.go), and a login leaves a copy  *)
(* of role and permissions with the connection                             *)
(* (business/auth_handler.go).                                             *)
(***************************************************************************)
EXTENDS ProtocolServer, AuthManager

CONSTANTS
    Requests,    \* requests that clients may send
    MaxRequests  \* bound: requests read

ASSUME RequestsAssumption == \A r \in Requests : WellFormed(r)

\* Auth commands are served by the handler goroutines of the connections.
ASSUME HandlersServe == Procs = Conns

VARIABLES
    dbs,         \* the databases of the cache engine
    lateDrops,   \* databases whose deletion is still in Raft's hands
    holders,     \* users handleDeleteDB has still to look at
    requests,    \* the requests that come in this behaviour
    stoppable,   \* whether Stop is called in this behaviour
    reads        \* requests read so far

dbVars == <<dbs, lateDrops, holders>>
envVars == <<requests, stoppable, reads>>
vars == <<serverVars, authVars, dbVars, envVars>>

\* The commands of the Auth service.
AuthCommands == {"login", "create", "update", "delete", "get", "listusers",
                 "changepass", "reset", "grant", "revoke", "listperms", "checkperm"}
DatabaseCommands == {"usedb", "deletedb"}

InitWith(S, stop) ==
    /\ ServerInit /\ AuthInit
    /\ dbs = Databases /\ lateDrops = {}
    /\ holders = [c \in Conns |-> {}]
    /\ requests = S /\ stoppable = stop /\ reads = 0
-----------------------------------------------------------------------------
(* From the router to the handlers and back *)

StayServer == UNCHANGED <<running, mainVars, loopVars, sock, tableVars, requestVars>>

\* handleAuthCommands takes the name from the connection; only a login needs none.
RouteAuth(c) ==
    /\ hpc[c] = "route" /\ command[c].cmd \in AuthCommands
    /\ command[c].cmd = "login" \/ username[c] # None
    /\ Goto(c, "handle")
    /\ HandleAuthCommand(c, command[c], username[c])
    /\ StayServer /\ UNCHANGED <<dbVars, envVars>>

RouteDatabase(c) ==
    /\ hpc[c] = "route" /\ command[c].cmd \in DatabaseCommands
    /\ Goto(c, "handle")
    /\ Begin(c, command[c], username[c], "dbexists")
    /\ StayServer /\ UNCHANGED <<dbVars, envVars>>

\* 401 for an auth command of a connection whose entry is gone; commands of
\* other services do nothing here.
RouteElsewhere(c) ==
    /\ hpc[c] = "route"
    /\ \/ command[c].cmd \notin AuthCommands \cup DatabaseCommands
       \/ command[c].cmd \in AuthCommands \ {"login"} /\ username[c] = None
    /\ Goto(c, "respond")
    /\ StayServer /\ UNCHANGED <<authVars, dbVars, envVars>>

Finish(c) ==
    /\ hpc[c] = "handle" /\ Return(c)
    /\ Goto(c, "respond")
    /\ StayServer /\ UNCHANGED <<dbVars, envVars>>

\* A login that keeps the permissions an earlier login left behind.
MarkKeepsPermissions(c) ==
    /\ at[c] = "mark"
    /\ connAuth' = [connAuth EXCEPT ![c] =
          [Authenticated |-> TRUE, Username |-> Target(c), Role |-> got[c].Role,
           Permissions |-> IF @ = None \/ @.Permissions = None
                           THEN grants[c] ELSE @.Permissions,
           CurrentDB |-> IF @ = None THEN None ELSE @.CurrentDB]]
    /\ Answers(c, "ok")
    /\ UNCHANGED <<running, mainVars, loopVars, sock, hpc, conns, connCount, requestVars,
                   storeVars, troubles, req, who, got, todo, grants, base, touched,
                   dbVars, envVars>>

\* After a login: also when Stop has removed the connection's entry.
MarkConnectionAuthenticated(c) ==
    /\ at[c] = "mark"
    /\ connAuth' = [connAuth EXCEPT ![c] =
          [Authenticated |-> TRUE, Username |-> Target(c), Role |-> got[c].Role,
           Permissions |-> grants[c],
           CurrentDB |-> IF @ = None THEN None ELSE @.CurrentDB]]
    /\ Answers(c, "ok")
    /\ UNCHANGED <<running, mainVars, loopVars, sock, hpc, conns, connCount, requestVars,
                   storeVars, troubles, req, who, got, todo, grants, base, touched,
                   dbVars, envVars>>
-----------------------------------------------------------------------------
(* handleUseDB and handleDeleteDB *)

StayCall == UNCHANGED <<storeVars, troubles, req, who, got, todo, grants, base, touched>>

DatabaseExists(c) ==
    /\ at[c] = "dbexists"
    /\ IF req[c].db \notin dbs
       THEN Answers(c, "error")
       ELSE /\ Goes(c, IF req[c].cmd = "usedb" THEN "dbperm" ELSE "holders")
            /\ UNCHANGED ans
    /\ StayCall /\ UNCHANGED <<serverVars, dbVars, envVars>>

\* Server.HasPermission, from the copy made at login.
ConnHasPermission(c, d, perm) ==
    /\ connAuth[c] # None
    /\ \/ connAuth[c].Role = "superadmin"
       \/ /\ connAuth[c].Permissions # None /\ connAuth[c].Permissions[d] # None
          /\ HasPermission(connAuth[c].Permissions[d], perm)

UseDBAllowed(c) ==
    /\ at[c] = "dbperm"
    /\ IF ConnHasPermission(c, req[c].db, "read")
       THEN Goes(c, "dbset") /\ UNCHANGED ans
       ELSE Answers(c, "error")
    /\ StayCall /\ UNCHANGED <<serverVars, dbVars, envVars>>

SetConnectionCurrentDB(c) ==
    /\ at[c] = "dbset"
    /\ connAuth' = IF connAuth[c] = None THEN connAuth
                   ELSE [connAuth EXCEPT ![c] = [@ EXCEPT !.CurrentDB = req[c].db]]
    /\ Answers(c, "ok")
    /\ StayCall
    /\ UNCHANGED <<running, mainVars, loopVars, sock, hpc, conns, connCount, requestVars,
                   dbVars, envVars>>

\* GetUsersWithPermissionOnDatabase: the keys perm:*, then all users.
ListHolders(c) ==
    /\ at[c] = "holders" /\ Goes(c, "admins")
    /\ holders' = [holders EXCEPT ![c] = {u \in Users : perms[u][req[c].db] # None}]
    /\ StayCall /\ UNCHANGED <<ans, serverVars, dbs, lateDrops, envVars>>

\* The keys cannot be listed: only a warning, and the deletion goes on.
ListHoldersFails(c) ==
    /\ at[c] = "holders" /\ Goes(c, "filter") /\ Mishap
    /\ touched' = [touched EXCEPT ![c] = Users]
    /\ UNCHANGED <<storeVars, req, who, got, todo, grants, ans, base,
                   serverVars, dbVars, envVars>>

ListSuperAdmins(c) ==
    /\ at[c] = "admins" /\ Goes(c, "filter")
    /\ holders' = [holders EXCEPT ![c] =
          @ \cup {u \in Users : users[u] # None /\ IsSuperAdmin(users[u])}]
    /\ StayCall /\ UNCHANGED <<ans, serverVars, dbs, lateDrops, envVars>>

\* The error of ListUsers is ignored.
ListSuperAdminsFails(c) ==
    /\ at[c] = "admins" /\ Goes(c, "filter") /\ Mishap
    /\ UNCHANGED <<storeVars, req, who, got, todo, grants, ans, base, touched,
                   serverVars, dbVars, envVars>>

\* A handleDeleteDB that counts only the users who are not administrators.
PassAdminHolder(c, u) ==
    /\ at[c] = "filter" /\ u \in holders[c]
    /\ users[u] # None => IsAdmin(users[u])
    /\ holders' = [holders EXCEPT ![c] = @ \ {u}]
    /\ StayCall /\ UNCHANGED <<at, ans, serverVars, dbs, lateDrops, envVars>>

\* Users that are gone or superadmins do not count.
PassHolder(c, u) ==
    /\ at[c] = "filter" /\ u \in holders[c]
    /\ users[u] # None => IsSuperAdmin(users[u])
    /\ holders' = [holders EXCEPT ![c] = @ \ {u}]
    /\ StayCall /\ UNCHANGED <<at, ans, serverVars, dbs, lateDrops, envVars>>

\* A user that cannot be read is passed over too.
MissHolder(c, u) ==
    /\ at[c] = "filter" /\ u \in holders[c] /\ Mishap
    /\ holders' = [holders EXCEPT ![c] = @ \ {u}]
    /\ Touches({c}, u)
    /\ UNCHANGED <<storeVars, callVars, base, serverVars, dbs, lateDrops, envVars>>

\* 409; the code goes through the rest of the users for the message.
RefuseHolder(c, u) ==
    /\ at[c] = "filter" /\ u \in holders[c]
    /\ users[u] # None /\ ~IsSuperAdmin(users[u])
    /\ holders' = [holders EXCEPT ![c] = {}]
    /\ Answers(c, "error")
    /\ StayCall /\ UNCHANGED <<serverVars, dbs, lateDrops, envVars>>

DeleteDB(c) ==
    /\ at[c] = "filter" /\ holders[c] = {}
    /\ dbs' = dbs \ {req[c].db}
    /\ Answers(c, "ok")
    /\ StayCall /\ UNCHANGED <<serverVars, lateDrops, holders, envVars>>

\* Not the leader, or Raft refuses.
DeleteDBFails(c) ==
    /\ at[c] = "filter" /\ holders[c] = {} /\ Mishap
    /\ Answers(c, "error")
    /\ UNCHANGED <<storeVars, req, who, got, todo, grants, base, touched,
                   serverVars, dbVars, envVars>>

DeleteDBInDoubt(c) ==
    /\ at[c] = "filter" /\ holders[c] = {} /\ Mishap
    /\ lateDrops' = lateDrops \cup {req[c].db}
    /\ Answers(c, "error")
    /\ UNCHANGED <<storeVars, req, who, got, todo, grants, base, touched,
                   serverVars, dbs, holders, envVars>>

LateDrop(d) ==
    /\ d \in lateDrops
    /\ lateDrops' = lateDrops \ {d} /\ dbs' = dbs \ {d}
    /\ UNCHANGED <<serverVars, authVars, holders, envVars>>
-----------------------------------------------------------------------------
ReceiveRequest(c) ==
    /\ reads < MaxRequests
    /\ \E r \in requests : ReadRequest(c, r)
    /\ reads' = reads + 1
    /\ UNCHANGED <<authVars, dbVars, requests, stoppable>>

StopSteps == (StopCloses \/ StopSweeps) /\ UNCHANGED <<authVars, dbVars, envVars>>

MainSteps ==
    /\ StartSwap \/ StartListens \/ StartFails \/ (stoppable /\ StopSwap)
    /\ UNCHANGED <<authVars, dbVars, envVars>>

ClientSteps ==
    /\ \E c \in Conns : Connect(c) \/ Disconnect(c)
    /\ UNCHANGED <<authVars, dbVars, envVars>>

LoopSteps(l) ==
    /\ \/ AcceptTop(l) \/ AcceptFails(l) \/ \E c \in Conns : Accept(l, c)
       \/ RejectAtLimit(l) \/ BelowLimit(l) \/ InsertConn(l) \/ CountConn(l)
    /\ UNCHANGED <<authVars, dbVars, envVars>>

ConnSteps(c) ==
    /\ \/ LoopTest(c) \/ ReadTimeout(c) \/ ReadFails(c) \/ PassGate(c) \/ RejectUnauthenticated(c)
       \/ FillMeta(c) \/ Respond(c) \/ CloseConn(c) \/ DeleteConn(c) \/ UncountConn(c)
    /\ UNCHANGED <<authVars, dbVars, envVars>>

AuthSteps(c) ==
    /\ \/ OperatorAllowed(c) \/ OperatorDenied(c) \/ ReadUser(c) \/ RefuseUser(c)
       \/ CheckUser(c) \/ Write(c) \/ WriteFails(c) \/ WriteInDoubt(c) \/ ReadAgain(c)
       \/ ListKeys(c) \/ ListFails(c) \/ FetchDone(c) \/ RevokeDone(c) \/ ReadPermission(c)
       \/ GetFails(c)
       \/ \E d \in Databases : FetchPerm(c, d) \/ RevokePerm(c, d) \/ RevokeFails(c, d)
    /\ UNCHANGED <<serverVars, dbVars, envVars>>

DatabaseSteps(c) ==
    \/ DatabaseExists(c) \/ UseDBAllowed(c) \/ SetConnectionCurrentDB(c)
    \/ ListHolders(c) \/ ListHoldersFails(c) \/ ListSuperAdmins(c)
    \/ ListSuperAdminsFails(c)
    \/ \E u \in Users : PassHolder(c, u) \/ MissHolder(c, u) \/ RefuseHolder(c, u)
    \/ DeleteDB(c) \/ DeleteDBFails(c) \/ DeleteDBInDoubt(c)

RouteSteps(c) ==
    \/ RouteAuth(c) \/ RouteDatabase(c) \/ RouteElsewhere(c)
    \/ MarkConnectionAuthenticated(c) \/ Finish(c)

HandlerSteps(c) == ConnSteps(c) \/ RouteSteps(c) \/ AuthSteps(c) \/ DatabaseSteps(c)

RaftSteps ==
    \/ \E w \in late : LateWrite(w) /\ UNCHANGED <<serverVars, dbVars, envVars>>
    \/ \E d \in lateDrops : LateDrop(d)

Next ==
    \/ MainSteps \/ StopSteps \/ ClientSteps \/ RaftSteps
    \/ \E l \in Loops : LoopSteps(l)
    \/ \E c \in Conns : HandlerSteps(c) \/ ReceiveRequest(c)

\* A server from before its first start.
AuthSpec ==
    /\ \E S \in SUBSET Requests, stop \in BOOLEAN : InitWith(S, stop)
    /\ [][Next]_vars

\* Stop returns, and goroutines that can run do run while the server is stopped;
\* nothing is asked of them before.
Fairness ==
    /\ WF_vars(StopSteps)
    /\ \A l \in Loops : WF_vars(~running /\ LoopSteps(l))
    /\ \A c \in Conns : WF_vars(~running /\ HandlerSteps(c))
-----------------------------------------------------------------------------
\* The connections whose handler goroutine has not ended.
Live(c) == hpc[c] \notin {"none", "done"}

\* The connection tables fit the goroutines.  connCount counts exactly the
\* handlers between their start and their last step, so a rejected client was one
\* too many; it passes maxConns only by as many as there are accept loops beside
\* the first.  No entry outlives its handler, also not one that a login wrote after
\* Stop had emptied the table.  A live handler that is missing from conns was
\* swept by Stop, and its socket is closed, so that it will end.
TableMatchesConnections ==
    /\ connCount = Cardinality({c \in Conns : Live(c)})
    /\ connCount <= maxConns + starts - 1 \/ starts = 0
    /\ \A c \in Conns : c \in conns \/ connAuth[c] # None =>
          Live(c) \/ \E l \in Loops : apc[l] = "count" /\ acc[l] = c
    /\ \A c \in Conns : Live(c) /\ c \notin conns => sock[c] = "closed"

\* What a successful login leaves with its connection is the user it named, and,
\* if nobody changed that user or its permissions meanwhile, the role and exactly
\* the permissions of an enabled user with that password: the three separate
\* reads of the user and the reads of the permissions fit together.
\* (handleLogin, handleAuthCommands, MarkConnectionAuthenticated.)
LoginsAreCurrent ==
    \A c \in Conns :
        /\ at[c] = "done" /\ req[c].cmd = "login" /\ ans[c] = "ok"
        /\ connAuth[c] # None
        => /\ connAuth[c].Authenticated /\ connAuth[c].Username = req[c].user
           /\ req[c].user \notin touched[c] =>
                /\ connAuth[c].Role = users[req[c].user].Role
                /\ connAuth[c].Permissions = perms[req[c].user]
                /\ users[req[c].user].Enabled
                /\ users[req[c].user].PasswordHash = HashPassword(req[c].pw)

\* handleDeleteDB drops a database only if no user other than a superadmin holds a
\* permission on it, unless that user changed, or could not be read, while the
\* handler was checking.
DropsRespectGrants ==
    [][\A c \in Conns : at[c] = "filter" /\ dbs' # dbs /\ ans'[c] = "ok" =>
          \A u \in Users : users[u] # None /\ perms[u][req[c].db] # None =>
              IsSuperAdmin(users[u]) \/ u \in touched[c]]_vars

\* After Stop the tables and the counter come down to nothing, whatever the accept
\* loop and the handlers were doing, unless the server is started again.
StopDrains ==
    ~running ~> running \/ (conns = {} /\ connCount = 0 /\ \A c \in Conns : connAuth[c] = None)
=============================================================================
