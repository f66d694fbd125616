----------------------------- MODULE MCAuthServer -----------------------------
EXTENDS AuthServer, TLC

CONSTANTS c1, c2, root, ann, pw1, pw2, d1, d2

R(cmd, u) == [cmd |-> cmd, user |-> u]
Login(u, p) == R("login", u) @@ [pw |-> p]

\* From the first start: a login, and a command that needs one.
Logins == {Login(root, pw1), R("get", root)}

Commands ==
    { Login(ann, pw1), R("cluster", root), R("delete", ann), R("get", root),
      R("listperms", ann), R("listusers", root),
      R("create", ann) @@ [pw |-> pw2, role |-> "readonly"],
      R("update", ann) @@ [role |-> "readonly", enabled |-> None],
      R("update", ann) @@ [role |-> None, enabled |-> FALSE],
      R("changepass", root) @@ [old |-> pw1, pw |-> pw2],
      R("reset", ann) @@ [pw |-> pw2],
      R("grant", ann) @@ [db |-> d1, perms |-> {"read"}],
      R("revoke", ann) @@ [db |-> d1],
      R("checkperm", ann) @@ [db |-> d1, perm |-> "read"],
      R("usedb", root) @@ [db |-> d1],
      R("deletedb", root) @@ [db |-> d1] }

AllRequests == Logins \cup Commands

\* root and the administrator ann are logged in, and ann has been given
\* permissions on both databases since: the state after a few commands.  The accept
\* loop of the first start had checked the limit when the server was stopped, and
\* registered its connection after the second start.
InitLoggedIn ==
    /\ running = TRUE /\ listening = TRUE /\ starts = MaxStarts /\ mpc = "up"
    /\ apc = [l \in Loops |-> "accept"]
    /\ acc = [l \in Loops |-> None]
    /\ sock = [c \in Conns |-> "open"] /\ hpc = [c \in Conns |-> "read"]
    /\ conns = Conns /\ connCount = Cardinality(Conns)
    /\ connAuth = [c \in Conns |->
          [Authenticated |-> TRUE, Username |-> IF c = c1 THEN root ELSE ann,
           Role |-> IF c = c1 THEN "superadmin" ELSE "admin",
           Permissions |-> NoPerms, CurrentDB |-> None]]
    /\ command = [c \in Conns |-> None] /\ username = [c \in Conns |-> None]
    /\ users = [u \in Users |->
          [PasswordHash |-> HashPassword(pw1), Enabled |-> TRUE,
           Role |-> IF u = root THEN "superadmin" ELSE "admin"]]
    /\ perms = [u \in Users |-> IF u = root THEN NoPerms ELSE [d \in Databases |-> {"all"}]]
    /\ late = {} /\ troubles = 0
    /\ at = [p \in Conns |-> "idle"] /\ req = [p \in Conns |-> None]
    /\ who = [p \in Conns |-> None] /\ got = [p \in Conns |-> None]
    /\ todo = [p \in Conns |-> {}] /\ grants = [p \in Conns |-> NoPerms]
    /\ ans = [p \in Conns |-> None]
    /\ base = [p \in Conns |-> None] /\ touched = [p \in Conns |-> {}]
    /\ dbs = Databases /\ lateDrops = {} /\ holders = [c \in Conns |-> {}]
    /\ requests = Commands /\ stoppable = FALSE /\ reads = 0

Init == InitWith(Logins, TRUE) \/ InitLoggedIn
Spec == Init /\ [][Next]_vars /\ Fairness
=============================================================================
