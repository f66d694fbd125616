----------------------------- MODULE AuthManager -----------------------------
(***************************************************************************)
(* auth/manager.go and auth/handler.go over auth/store_adapter.go: users   *)
(* and permissions are JSON values in the system database, read and        *)
(* written one key at a time without a lock.  A goroutine p that serves a  *)
(* command takes one step per access to the store, in the order of the     *)
(* code; between two of them other goroutines take theirs.                 *)
(***************************************************************************)
EXTENDS Integers, FiniteSets, NoValue

CONSTANTS
    Procs,        \* goroutines that serve auth commands
    Users, Databases, Passwords, Roles, PermSets,
    SuperAdminUser, SuperAdminPass,
    MaxTroubles   \* bound: accesses to the store that fail

\* "No value" is no name and no answer.
ASSUME AuthAssumption == None \notin Users \cup Databases \cup {"ok"}

VARIABLES
    users,        \* keys user:<name>
    perms,        \* keys perm:<name>:<database>
    late,         \* writes whose Raft call timed out and that are still to come
    troubles,     \* failures so far
    at,           \* where p is
    req,          \* its command
    who,          \* the user who sent it
    got,          \* the user record p has read, or is about to write
    todo,         \* databases of the permissions p has still to visit
    grants,       \* permissions p has read
    ans,          \* p's answer
    base,         \* history: the target's user and permissions when p began
    touched       \* history: users changed behind p's back, or by a failed write

storeVars == <<users, perms, late>>
callVars == <<at, req, who, got, todo, grants, ans>>
authVars == <<storeVars, troubles, callVars, base, touched>>

\* HashPassword: SHA-256, taken to be injective.
HashPassword(pw) == <<"sha256", pw>>

User == [PasswordHash : {HashPassword(pw) : pw \in Passwords},
         Role : Roles, Enabled : BOOLEAN]

NoPerms == [d \in Databases |-> None]

IsSuperAdmin(u) == u.Role = "superadmin"
IsAdmin(u) == u.Role \in {"superadmin", "admin"}

\* What the store holds about user u.
UserEntry(u) == [user |-> users[u], perms |-> perms[u]]

\* createDefaultSuperAdmin has run.
AuthInit ==
    /\ users = [u \in Users |->
                 IF u = SuperAdminUser
                 THEN [PasswordHash |-> HashPassword(SuperAdminPass),
                       Role |-> "superadmin", Enabled |-> TRUE]
                 ELSE None]
    /\ perms = [u \in Users |-> NoPerms]
    /\ late = {} /\ troubles = 0
    /\ at = [p \in Procs |-> "idle"] /\ req = [p \in Procs |-> None]
    /\ who = [p \in Procs |-> None] /\ got = [p \in Procs |-> None]
    /\ todo = [p \in Procs |-> {}] /\ grants = [p \in Procs |-> NoPerms]
    /\ ans = [p \in Procs |-> None]
    /\ base = [p \in Procs |-> None] /\ touched = [p \in Procs |-> {}]
-----------------------------------------------------------------------------
(* Beginning and end of a call *)

\* Commands that only an administrator may send.
AdminOnly == {"create", "update", "delete", "listusers", "reset", "grant", "revoke"}

\* Commands that a user may send about itself, and an administrator about anyone.
OwnOrAdmin == {"get", "listperms"}

FirstStep(r, u) ==
    IF r.cmd \in AdminOnly \/ (r.cmd \in OwnOrAdmin /\ r.user # u)
    THEN "operator"
    ELSE IF r.cmd = "listperms" THEN "list" ELSE "read"

\* A request names a user, and one about a database names that too.
WellFormed(r) ==
    /\ {"cmd", "user"} \subseteq DOMAIN r /\ r.user \in Users
    /\ r.cmd \in {"grant", "revoke", "checkperm", "usedb", "deletedb"} => r.db \in Databases

\* p takes up command r of user u and goes to step l.
Begin(p, r, u, l) ==
    /\ at[p] = "idle"
    /\ at' = [at EXCEPT ![p] = l]
    /\ req' = [req EXCEPT ![p] = r] /\ who' = [who EXCEPT ![p] = u]
    /\ base' = [base EXCEPT ![p] = UserEntry(r.user)]
    /\ touched' = [touched EXCEPT ![p] = {}]
    /\ UNCHANGED <<storeVars, troubles, got, todo, grants, ans>>

\* handleChangePassword is always about the sender.
HandleAuthCommand(p, r, u) ==
    IF r.cmd = "changepass"
    THEN Begin(p, [r EXCEPT !.user = u], u, "read")
    ELSE Begin(p, r, u, FirstStep(r, u))

Goes(p, l) == at' = [at EXCEPT ![p] = l]

Answers(p, a) == Goes(p, "done") /\ ans' = [ans EXCEPT ![p] = a]

\* p's answer has been sent; its goroutine takes the next request.
Return(p) ==
    /\ at[p] = "done"
    /\ Goes(p, "idle")
    /\ req' = [req EXCEPT ![p] = None] /\ who' = [who EXCEPT ![p] = None]
    /\ got' = [got EXCEPT ![p] = None] /\ todo' = [todo EXCEPT ![p] = {}]
    /\ grants' = [grants EXCEPT ![p] = NoPerms]
    /\ ans' = [ans EXCEPT ![p] = None]
    /\ base' = [base EXCEPT ![p] = None] /\ touched' = [touched EXCEPT ![p] = {}]
    /\ UNCHANGED <<storeVars, troubles>>
-----------------------------------------------------------------------------
(* The store *)

UserWrite(u, v) == [user |-> u, db |-> None, value |-> v]
PermWrite(u, d, v) == [user |-> u, db |-> d, value |-> v]

\* A Set or Delete arrives in the store, on the leader through Raft and the
\* callback of the FSM, elsewhere directly.
Stores(w) ==
    IF w.db = None
    THEN users' = [users EXCEPT ![w.user] = w.value] /\ UNCHANGED perms
    ELSE perms' = [perms EXCEPT ![w.user] = [@ EXCEPT ![w.db] = w.value]]
         /\ UNCHANGED users

\* Everyone in S has to reckon with a change of u.
Touches(S, u) ==
    touched' = [p \in Procs |-> touched[p] \cup
                   (IF p \in S /\ at[p] # "idle" THEN {u} ELSE {})]

Mishap == troubles < MaxTroubles /\ troubles' = troubles + 1

\* A write that timed out takes effect after all.
LateWrite(w) ==
    /\ w \in late
    /\ late' = late \ {w} /\ Stores(w) /\ Touches(Procs, w.user)
    /\ UNCHANGED <<troubles, callVars, base>>
-----------------------------------------------------------------------------
(* The steps of a call *)

Target(p) == req[p].user

OperatorAllowed(p) ==
    /\ at[p] = "operator"
    /\ users[who[p]] # None /\ IsAdmin(users[who[p]])
    /\ Goes(p, CASE req[p].cmd = "revoke" -> "write"
                 [] req[p].cmd = "listperms" -> "list"
                 [] OTHER -> "read")
    /\ UNCHANGED <<storeVars, troubles, req, who, got, todo, grants, ans, base, touched>>

OperatorDenied(p) ==
    /\ at[p] = "operator"
    /\ users[who[p]] # None => ~IsAdmin(users[who[p]])
    /\ Answers(p, "error")
    /\ UNCHANGED <<storeVars, troubles, req, who, got, todo, grants, base, touched>>

\* Why the command is refused once it has read its user u (None: not found).
Refused(r, u) ==
    IF u = None
    THEN r.cmd \notin {"create", "listusers"}
    ELSE \/ r.cmd = "create"
         \/ r.cmd = "delete" /\ IsSuperAdmin(u)
         \/ r.cmd = "changepass" /\ u.PasswordHash # HashPassword(r.old)
         \/ r.cmd = "login" /\ (~u.Enabled \/ u.PasswordHash # HashPassword(r.pw))
         \/ r.cmd = "checkperm" /\ ~u.Enabled

WithPassword(u, pw) == [u EXCEPT !.PasswordHash = HashPassword(pw)]

\* The record the command will write, made from the one it has read.
Changed(r, u) ==
    CASE r.cmd = "create" ->
           [PasswordHash |-> HashPassword(r.pw), Role |-> r.role, Enabled |-> TRUE]
      [] r.cmd = "update" ->
           [u EXCEPT !.Role = IF r.role = None THEN @ ELSE r.role,
                     !.Enabled = IF r.enabled = None THEN @ ELSE r.enabled]
      [] r.cmd \in {"changepass", "reset"} -> WithPassword(u, r.pw)
      [] OTHER -> u

\* GetUser, and the checks that follow it.
ReadUser(p) ==
    LET u == users[Target(p)] IN
    /\ at[p] = "read" /\ ~Refused(req[p], u)
    /\ got' = [got EXCEPT ![p] = Changed(req[p], u)]
    /\ CASE req[p].cmd \in {"update", "changepass", "reset"} ->
              Goes(p, "check") /\ UNCHANGED ans
         [] req[p].cmd \in {"create", "delete", "grant"} ->
              Goes(p, "write") /\ UNCHANGED ans
         [] req[p].cmd = "login" -> Goes(p, "again") /\ UNCHANGED ans
         [] req[p].cmd = "checkperm" -> Goes(p, "perm") /\ UNCHANGED ans
         [] OTHER -> Answers(p, "ok")
    /\ UNCHANGED <<storeVars, troubles, req, who, todo, grants, base, touched>>

RefuseUser(p) ==
    /\ at[p] = "read" /\ Refused(req[p], users[Target(p)])
    /\ Answers(p, "error")
    /\ UNCHANGED <<storeVars, troubles, req, who, got, todo, grants, base, touched>>

\* UpdateUser looks again whether the user is there.
CheckUser(p) ==
    /\ at[p] = "check"
    /\ IF users[Target(p)] = None
       THEN Answers(p, "error")
       ELSE Goes(p, "write") /\ UNCHANGED ans
    /\ UNCHANGED <<storeVars, troubles, req, who, got, todo, grants, base, touched>>

WriteOf(p) ==
    CASE req[p].cmd = "delete" -> UserWrite(Target(p), None)
      [] req[p].cmd = "grant" -> PermWrite(Target(p), req[p].db, req[p].perms)
      [] req[p].cmd = "revoke" -> PermWrite(Target(p), req[p].db, None)
      [] OTHER -> UserWrite(Target(p), got[p])

\* storage.Set or storage.Delete.
Write(p) ==
    /\ at[p] = "write"
    /\ Stores(WriteOf(p)) /\ Touches(Procs \ {p}, Target(p))
    /\ IF req[p].cmd = "delete"
       THEN Goes(p, "list") /\ UNCHANGED ans
       ELSE Answers(p, "ok")
    /\ UNCHANGED <<late, troubles, req, who, got, todo, grants, base>>

WriteFails(p) ==
    /\ at[p] = "write" /\ Mishap
    /\ Answers(p, "error")
    /\ UNCHANGED <<storeVars, req, who, got, todo, grants, base, touched>>

\* ApplyCommand timed out; the command is still in Raft's hands.
WriteInDoubt(p) ==
    /\ at[p] = "write" /\ Mishap
    /\ late' = late \cup {WriteOf(p)}
    /\ Answers(p, "error")
    /\ UNCHANGED <<users, perms, req, who, got, todo, grants, base, touched>>

\* handleLogin reads the user a second time for the role.
ReadAgain(p) ==
    /\ at[p] = "again"
    /\ got' = [got EXCEPT ![p] = users[Target(p)]]
    /\ IF users[Target(p)] = None
       THEN Answers(p, "error")
       ELSE Goes(p, "list") /\ UNCHANGED ans
    /\ UNCHANGED <<storeVars, troubles, req, who, todo, grants, base, touched>>

\* ListUserPermissions: first the keys, then the value of each.
ListKeys(p) ==
    /\ at[p] = "list"
    /\ todo' = [todo EXCEPT ![p] = {d \in Databases : perms[Target(p)][d] # None}]
    /\ Goes(p, "fetch")
    /\ UNCHANGED <<storeVars, troubles, req, who, got, grants, ans, base, touched>>

FetchPerm(p, d) ==
    /\ at[p] = "fetch" /\ d \in todo[p]
    /\ todo' = [todo EXCEPT ![p] = @ \ {d}]
    /\ grants' = [grants EXCEPT ![p] = [@ EXCEPT ![d] = perms[Target(p)][d]]]
    /\ UNCHANGED <<storeVars, troubles, at, req, who, got, ans, base, touched>>

\* A DeleteUser that leaves the permissions where they are.
AfterListKeeps(p) ==
    IF req[p].cmd = "login"
    THEN Goes(p, "mark") /\ UNCHANGED <<ans, todo>>
    ELSE Answers(p, "ok") /\ UNCHANGED todo

\* What follows the list: DeleteUser revokes, a login marks its connection.
AfterList(p) ==
    CASE req[p].cmd = "delete" ->
           /\ Goes(p, "revoke") /\ UNCHANGED ans
           /\ todo' = [todo EXCEPT ![p] = {d \in Databases : grants[p][d] # None}]
      [] req[p].cmd = "login" -> Goes(p, "mark") /\ UNCHANGED <<ans, todo>>
      [] OTHER -> Answers(p, "ok") /\ UNCHANGED todo

FetchDone(p) ==
    /\ at[p] = "fetch" /\ todo[p] = {}
    /\ AfterList(p)
    /\ UNCHANGED <<storeVars, troubles, req, who, got, grants, base, touched>>

\* The list cannot be read: DeleteUser and the login go on without it.
ListFails(p) ==
    /\ at[p] = "list" /\ Mishap
    /\ CASE req[p].cmd = "login" -> Goes(p, "mark") /\ UNCHANGED ans
         [] req[p].cmd = "delete" -> Answers(p, "ok")
         [] OTHER -> Answers(p, "error")
    /\ Touches({p}, Target(p))
    /\ UNCHANGED <<storeVars, req, who, got, todo, grants, base>>

RevokePerm(p, d) ==
    /\ at[p] = "revoke" /\ d \in todo[p]
    /\ todo' = [todo EXCEPT ![p] = @ \ {d}]
    /\ Stores(PermWrite(Target(p), d, None)) /\ Touches(Procs \ {p}, Target(p))
    /\ UNCHANGED <<late, troubles, at, req, who, got, grants, ans, base>>

\* DeleteUser does not look at the error and goes on.
RevokeFails(p, d) ==
    /\ at[p] = "revoke" /\ d \in todo[p] /\ Mishap
    /\ todo' = [todo EXCEPT ![p] = @ \ {d}]
    /\ Touches({p}, Target(p))
    /\ UNCHANGED <<storeVars, at, req, who, got, grants, ans, base>>

RevokeDone(p) ==
    /\ at[p] = "revoke" /\ todo[p] = {}
    /\ Answers(p, "ok")
    /\ UNCHANGED <<storeVars, troubles, req, who, got, todo, grants, base, touched>>

\* RolePermissions and DatabasePermission.HasPermission.
RolePermissions(r) ==
    CASE r = "superadmin" -> {"all"}
      [] r = "admin" -> {"read", "write", "delete", "admin"}
      [] r = "readwrite" -> {"read", "write", "delete"}
      [] r = "readonly" -> {"read"}
      [] OTHER -> {}

HasPermission(granted, perm) == "all" \in granted \/ perm \in granted

\* What CheckPermission answers for the user record it has read.
CheckPermission(u, granted, perm) ==
    \/ IsSuperAdmin(u)
    \/ HasPermission(IF granted = None THEN RolePermissions(u.Role) ELSE granted, perm)

\* The second read of CheckPermission.
ReadPermission(p) ==
    /\ at[p] = "perm"
    /\ Answers(p, IF CheckPermission(got[p], perms[Target(p)][req[p].db], req[p].perm)
                  THEN "yes" ELSE "no")
    /\ UNCHANGED <<storeVars, troubles, req, who, got, todo, grants, base, touched>>

\* storage.Get or storage.List fails, which the code takes for a key that is not
\* there: CreateUser then goes on to write, ListUserPermissions leaves the
\* permission out, CheckPermission asks the role.
GetFails(p) ==
    /\ Mishap
    /\ \/ /\ at[p] \in {"operator", "read", "check", "again"}
          /\ at[p] = "read" => req[p].cmd # "create"
          /\ Answers(p, "error")
          /\ UNCHANGED <<got, todo, touched>>
       \/ /\ at[p] = "read" /\ req[p].cmd = "create"
          /\ got' = [got EXCEPT ![p] = Changed(req[p], None)]
          /\ Goes(p, "write") /\ Touches({p}, Target(p))
          /\ UNCHANGED <<ans, todo>>
       \/ /\ at[p] = "fetch"
          /\ \E d \in todo[p] : todo' = [todo EXCEPT ![p] = @ \ {d}]
          /\ Touches({p}, Target(p))
          /\ UNCHANGED <<at, ans, got>>
       \/ /\ at[p] = "perm"
          /\ Answers(p, IF CheckPermission(got[p], None, req[p].perm) THEN "yes" ELSE "no")
          /\ UNCHANGED <<got, todo, touched>>
    /\ UNCHANGED <<storeVars, req, who, grants, base>>
-----------------------------------------------------------------------------
(* What a command does when nothing comes between its steps. *)

Effect(r, e) ==
    CASE r.cmd \in {"create", "update", "changepass", "reset"} ->
           [e EXCEPT !.user = Changed(r, e.user)]
      [] r.cmd = "delete" -> [user |-> None, perms |-> NoPerms]
      [] r.cmd = "grant" -> [e EXCEPT !.perms = [@ EXCEPT ![r.db] = r.perms]]
      [] r.cmd = "revoke" -> [e EXCEPT !.perms = [@ EXCEPT ![r.db] = None]]
      [] OTHER -> e

\* A command whose user nobody else changed meanwhile, and none of whose
\* accesses failed, is all or nothing: answered "ok" it has done to the user and
\* to its permissions exactly what it stands for, DeleteUser leaving no
\* permission behind; answered "error" it has changed nothing.
\* (handler.go and manager.go read, check again and write without a lock.)
AloneIsAtomic ==
    \A p \in Procs : at[p] = "done" /\ req[p].user \notin touched[p] =>
        UserEntry(req[p].user) = IF ans[p] = "error" THEN base[p]
                             ELSE Effect(req[p], base[p])
=============================================================================
