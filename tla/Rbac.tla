--------------------------------- MODULE Rbac ---------------------------------
(***************************************************************************)
(* Roles, their permissions, who has them, and the audit log of it:         *)
(* rbac_routes.py with rbac_service.py and its repositories, the seeding at  *)
(* every start of the backend, and the script create_admin.py.              *)
(*                                                                         *)
(* Two permissions stand for all: "manage" for those the definition of      *)
(* SUPER_ADMIN has (roles:create, :update, :delete), "grant" *)
(* for roles:assign and roles:revoke, which no definition has; ADMIN stands  *)
(* for the three lesser roles.  A request loads what it needs, checks it,    *)
(* writes in a commit, and some write an audit entry in a second one.  The   *)
(* log only grows: delete_audit_log takes a number for the id of an entry,   *)
(* the table's ids are UUIDs, and so no request names an entry.              *)
(***************************************************************************)
EXTENDS Naturals, FiniteSets

CONSTANTS
    Users,     \* the users there may be
    Admin,     \* the default administrator, whom the seeders create
    Custom,    \* names of roles an administrator may create
    LazyLoads, \* whether a relation may be loaded on access: an async session refuses
    MaxCalls   \* bound: requests

System == {"SUPER_ADMIN", "ADMIN"}
Perms  == {"manage", "grant"}

ASSUME RbacBounds ==
    /\ Admin \in Users /\ Custom \cap System = {}
    /\ LazyLoads \in BOOLEAN /\ MaxCalls \in Nat

Names == System \cup Custom
Calls == 1 .. MaxCalls

VARIABLES
    seeded,  \* whether the permissions are there
    people,  \* the users that are there
    roles,   \* the roles: whether there, type, is_active, permissions
    has,     \* user_roles
    call,    \* the requests
    log,     \* audit_logs: what was done, and by which request
    made     \* history: the changes committed that should be logged

vars == <<seeded, people, roles, has, call, log, made>>
tables == <<seeded, people, roles, has>>

NoRole == [is |-> FALSE, type |-> "ADMIN", on |-> FALSE, perms |-> {}]
Idle   == [at |-> "idle"]

New(type, perms) == [is |-> TRUE, type |-> type, on |-> TRUE, perms |-> perms]

(* An empty database, or one set up: create_admin.py and a start have run,    *)
(* and the administrator has given SUPER_ADMIN every permission.             *)
SetUp ==
    /\ seeded = TRUE /\ people = Users
    /\ roles = [r \in Names |-> IF r \in System THEN New(r, IF r = "SUPER_ADMIN" THEN Perms ELSE {})
                                ELSE NoRole]
    /\ has = [u \in Users |-> IF u = Admin THEN {"SUPER_ADMIN"} ELSE {}]

Empty ==
    /\ seeded = FALSE /\ people = Users \ {Admin}
    /\ roles = [r \in Names |-> NoRole] /\ has = [u \in Users |-> {}]

Init ==
    /\ SetUp \/ Empty
    /\ call = [c \in Calls |-> Idle]
    /\ log = {} /\ made = {}

-----------------------------------------------------------------------------
(* What a user may do.                                                     *)

(* all_permissions: of the active roles only.                               *)
MayDo(u, p) == \E r \in has[u] : roles[r].on /\ p \in roles[r].perms

(* PermissionChecker.has_role: of any role.                                 *)
HasType(u, t) == \E r \in has[u] : roles[r].type = t

Priority(r) == CASE r = "SUPER_ADMIN" -> 1000 [] r = "ADMIN" -> 100 [] OTHER -> 0

(* highest_role_priority, which is 0 without an active role                  *)
Outranks(u, r) == Priority(r) = 0 \/ \E s \in has[u] : roles[s].on /\ Priority(s) >= Priority(r)

OfType(t) == {r \in Names : roles[r].is /\ roles[r].type = t}

(* Mutant: no rule 3.                                                      *)
AnyMayGo(r) == TRUE

(* Rule 3: not the last SUPER_ADMIN.  More than one role of the type is an   *)
(* error, and so is the access to its users when it may not load them.       *)
MayGo(r) ==
    roles[r].type = "SUPER_ADMIN" =>
        /\ Cardinality(OfType("SUPER_ADMIN")) = 1 /\ LazyLoads
        /\ Cardinality({u \in Users : \E s \in OfType("SUPER_ADMIN") : s \in has[u]}) > 1

(* Rules 1 and 2 *)
MayGive(u, r) ==
    /\ Outranks(u, r)
    /\ roles[r].type = "SUPER_ADMIN" => HasType(u, "SUPER_ADMIN")

-----------------------------------------------------------------------------
(* The seeders.                                                            *)

Resting == \A c \in Calls : call[c].at \in {"idle", "ended"}

Definition(r) == New(r, IF r = "SUPER_ADMIN" THEN {"manage"} ELSE {})

(* A start seeds when no type is doubled, and when the roles it must create  *)
(* can be given their permissions.                                         *)
CanSeed ==
    /\ \A t \in System : Cardinality(OfType(t)) <= 1
    /\ LazyLoads \/ \A t \in System : OfType(t) # {}

(* Mutant: the roles get the permissions of their definitions again.         *)
StartupResets ==
    /\ Resting
    /\ IF CanSeed
       THEN /\ seeded' = TRUE /\ people' = people \cup {Admin}
            /\ roles' = [r \in Names |-> IF r \in System THEN Definition(r) ELSE roles[r]]
       ELSE UNCHANGED <<seeded, people, roles>>
    /\ UNCHANGED <<has, call, log, made>>

(* ensure_default_admin and initialize_rbac in one transaction; when it      *)
(* fails, all of it is undone and the backend goes on.                      *)
Startup ==
    /\ Resting
    /\ IF CanSeed
       THEN /\ seeded' = TRUE /\ people' = people \cup {Admin}
            /\ roles' = [r \in Names |-> IF r \in System /\ OfType(r) = {} THEN Definition(r) ELSE roles[r]]
       ELSE UNCHANGED <<seeded, people, roles>>
    /\ UNCHANGED <<has, call, log, made>>

(* create_admin.py: the roles by their names, without permissions, and the   *)
(* administrator with SUPER_ADMIN.                                         *)
CreateAdmin ==
    /\ roles' = [r \in Names |-> IF r \in System /\ ~roles[r].is THEN New(r, {}) ELSE roles[r]]
    /\ people' = people \cup {Admin}
    /\ has' = [has EXCEPT ![Admin] = @ \cup {"SUPER_ADMIN"}]
    /\ UNCHANGED <<seeded, call, log, made>>

-----------------------------------------------------------------------------
(* The requests: what each loads and checks.                                *)

Load(c, kind, r, x) ==
    /\ call[c] = Idle /\ \A d \in Calls : d < c => call[d] # Idle
    /\ call' = [call EXCEPT ![c] = [at |-> "loaded", kind |-> kind, role |-> r, x |-> x]]
    /\ UNCHANGED <<tables, log, made>>

LoadCreate(c, u, r, t) == MayDo(u, "manage") /\ HasType(u, "SUPER_ADMIN") /\ ~roles[r].is /\ Load(c, "create", r, t)

(* Only a role that is not of the system is updated or deleted.              *)
LoadUpdate(c, u, r) ==
    /\ MayDo(u, "manage") /\ HasType(u, "SUPER_ADMIN")
    /\ roles[r].is /\ r \notin System /\ Load(c, "update", r, ~roles[r].on)

LoadDelete(c, u, r) ==
    /\ MayDo(u, "manage") /\ HasType(u, "SUPER_ADMIN")
    /\ roles[r].is /\ r \notin System /\ Load(c, "delete", r, 0)

LoadAdd(c, u, r, p) ==
    HasType(u, "SUPER_ADMIN") /\ roles[r].is /\ seeded /\ p \notin roles[r].perms /\ Load(c, "add", r, p)

LoadRemove(c, u, r, p) ==
    HasType(u, "SUPER_ADMIN") /\ roles[r].is /\ p \in roles[r].perms /\ Load(c, "remove", r, p)

LoadAssign(c, u, v, r) ==
    /\ MayDo(u, "grant") /\ v \in people /\ roles[r].is
    /\ MayGive(u, r) /\ r \notin has[v] /\ Load(c, "assign", r, v)

(* check_privilege_escalation: the attempt is logged.                        *)
Attempt(c, u, r) ==
    /\ MayDo(u, "grant") /\ roles[r].is /\ Outranks(u, r) /\ ~MayGive(u, r)
    /\ call[c] = Idle /\ \A d \in Calls : d < c => call[d] # Idle
    /\ call' = [call EXCEPT ![c] = [at |-> "ended"]]
    /\ log' = log \cup {<<"attempt", c>>} /\ made' = made \cup {<<"attempt", c>>}
    /\ UNCHANGED tables

LoadRevoke(c, u, v, r) ==
    /\ MayDo(u, "grant") /\ v \in people /\ roles[r].is
    /\ MayGo(r) /\ r \in has[v] /\ Load(c, "revoke", r, v)

-----------------------------------------------------------------------------
(* The requests: what each writes.  A row that is gone, or is there already,  *)
(* is an error of the database.                                            *)

At(c, kind)  == call[c].at = "loaded" /\ call[c].kind = kind
To(c, at)    == call' = [call EXCEPT ![c].at = at]
Done(c)      == To(c, "ended") /\ UNCHANGED made
ToBeLogged(c) == To(c, "audit") /\ made' = made \cup {<<call[c].kind, c>>}

CreateRole(c) ==
    /\ At(c, "create")
    /\ IF roles[call[c].role].is THEN Done(c) /\ UNCHANGED roles
       ELSE ToBeLogged(c) /\ roles' = [roles EXCEPT ![call[c].role] = New(call[c].x, {})]
    /\ UNCHANGED <<seeded, people, has, log>>

UpdateRole(c) ==
    /\ At(c, "update")
    /\ roles' = IF roles[call[c].role].is THEN [roles EXCEPT ![call[c].role].on = call[c].x] ELSE roles
    /\ Done(c) /\ UNCHANGED <<seeded, people, has, log>>

(* Mutant: the rows that refer to the role stay.                            *)
DeleteRoleOnly(c) ==
    /\ At(c, "delete")
    /\ roles' = [roles EXCEPT ![call[c].role] = NoRole]
    /\ Done(c) /\ UNCHANGED <<seeded, people, has, log>>

DeleteRole(c) ==
    /\ At(c, "delete")
    /\ roles' = [roles EXCEPT ![call[c].role] = NoRole]
    /\ has' = [u \in Users |-> has[u] \ {call[c].role}]
    /\ Done(c) /\ UNCHANGED <<seeded, people, log>>

AddPermission(c) ==
    /\ At(c, "add")
    /\ roles' = IF roles[call[c].role].is THEN [roles EXCEPT ![call[c].role].perms = @ \cup {call[c].x}] ELSE roles
    /\ Done(c) /\ UNCHANGED <<seeded, people, has, log>>

RemovePermission(c) ==
    /\ At(c, "remove")
    /\ roles' = [roles EXCEPT ![call[c].role].perms = @ \ {call[c].x}]
    /\ Done(c) /\ UNCHANGED <<seeded, people, has, log>>

(* Mutant: the entry goes with the request, before the row.                  *)
AssignLogsFirst(c) ==
    /\ At(c, "assign")
    /\ log' = log \cup {<<"assign", c>>}
    /\ IF roles[call[c].role].is /\ call[c].role \notin has[call[c].x]
       THEN ToBeLogged(c) /\ has' = [has EXCEPT ![call[c].x] = @ \cup {call[c].role}]
       ELSE Done(c) /\ UNCHANGED has
    /\ UNCHANGED <<seeded, people, roles>>

AssignRole(c) ==
    /\ At(c, "assign")
    /\ IF roles[call[c].role].is /\ call[c].role \notin has[call[c].x]
       THEN ToBeLogged(c) /\ has' = [has EXCEPT ![call[c].x] = @ \cup {call[c].role}]
       ELSE Done(c) /\ UNCHANGED has
    /\ UNCHANGED <<seeded, people, roles, log>>

RevokeRole(c) ==
    /\ At(c, "revoke")
    /\ IF call[c].role \in has[call[c].x]
       THEN ToBeLogged(c) /\ has' = [has EXCEPT ![call[c].x] = @ \ {call[c].role}]
       ELSE Done(c) /\ UNCHANGED has
    /\ UNCHANGED <<seeded, people, roles, log>>

(* The entry of the change that was committed.                              *)
Audit(c) ==
    /\ call[c].at = "audit"
    /\ log' = log \cup {<<call[c].kind, c>>}
    /\ To(c, "ended") /\ UNCHANGED <<tables, made>>

(* A statement fails, or the backend stops.                                 *)
Fail(c) ==
    /\ call[c].at \in {"loaded", "audit"}
    /\ To(c, "ended") /\ UNCHANGED <<tables, log, made>>

Write(c) ==
    \/ CreateRole(c) \/ UpdateRole(c) \/ DeleteRole(c)
    \/ AddPermission(c) \/ RemovePermission(c)
    \/ AssignRole(c) \/ RevokeRole(c)

Begin(c, u) ==
    \E r \in Names :
        \/ \E t \in System : LoadCreate(c, u, r, t)
        \/ LoadUpdate(c, u, r) \/ LoadDelete(c, u, r) \/ Attempt(c, u, r)
        \/ \E p \in Perms : LoadAdd(c, u, r, p) \/ LoadRemove(c, u, r, p)
        \/ \E v \in Users : LoadAssign(c, u, v, r) \/ LoadRevoke(c, u, v, r)

Next ==
    \/ Startup \/ CreateAdmin
    \/ \E c \in Calls : Write(c) \/ Audit(c) \/ Fail(c) \/ \E u \in people : Begin(c, u)

Spec == Init /\ [][Next]_vars

-----------------------------------------------------------------------------
(* Properties.                                                             *)

Role == [is : BOOLEAN, type : System, on : BOOLEAN, perms : SUBSET Perms]

Kinds   == {"create", "update", "delete", "add", "remove", "assign", "revoke"}
Entries == (Kinds \cup {"attempt"}) \X Calls

(* What a request has loaded: only roles that are not of the system are       *)
(* updated or deleted.                                                     *)
Loaded(kinds, names, values) ==
    [at : {"loaded", "audit", "ended"}, kind : kinds, role : names, x : values]

Request ==
    {Idle, [at |-> "ended"]}
        \cup Loaded({"create"}, Names, System)
        \cup Loaded({"update"}, Custom, BOOLEAN)
        \cup Loaded({"delete"}, Custom, {0})
        \cup Loaded({"add", "remove"}, Names, Perms)
        \cup Loaded({"assign", "revoke"}, Names, Users)

TypeOK ==
    /\ seeded \in BOOLEAN /\ people \subseteq Users
    /\ roles \in [Names -> Role]
    /\ has \in [Users -> SUBSET Names]
    /\ call \in [Calls -> Request]
    /\ log \subseteq Entries /\ made \subseteq Entries

(* No table refers to a row that is gone: roles that are had exist, as do    *)
(* those who have them and the permissions of roles; and the roles of the    *)
(* system, once there, are of their own types and active (delete_role and    *)
(* assign_role_to_user at once, user_roles' cascade).                       *)
Referential ==
    /\ \A u \in Users : \A r \in has[u] : roles[r].is /\ u \in people
    /\ \A r \in Names : roles[r].perms # {} => seeded /\ roles[r].is
    /\ \A r \in System : roles[r].is => roles[r].type = r /\ roles[r].on

(* Who has a role, or has made a request, owes it to a setup that created the *)
(* roles of the system and the administrator, who then stays what he is if    *)
(* relations may not be loaded on access; and what a request has loaded of    *)
(* people and permissions is there when it writes.                          *)
Founded ==
    /\ (\E u \in Users : has[u] # {}) \/ (\E c \in Calls : call[c] # Idle) =>
          /\ \A r \in System : roles[r].is
          /\ LazyLoads \/ "SUPER_ADMIN" \in has[Admin]
    /\ \A c \in Calls :
          /\ At(c, "add") => seeded
          /\ At(c, "assign") => call[c].x \in people
          /\ At(c, "revoke") => LazyLoads \/ call[c].role # "SUPER_ADMIN"

(* A change has one entry, that of its request, which is in the log only when  *)
(* the request is over; and a request that still owes its entry has changed   *)
(* something.                                                              *)
EntryOf(c) == <<call[c].kind, c>>
OneEntry ==
    /\ \A m \in made : call[m[2]].at \in {"audit", "ended"}
    /\ \A m \in made : call[m[2]].at = "audit" => m = EntryOf(m[2])
    /\ \A c \in Calls : call[c].at = "audit" => EntryOf(c) \in made
    /\ \A m \in log : call[m[2]].at = "ended"
    /\ \A m, n \in made : m[2] = n[2] => m = n

Supers == {u \in Users : HasType(u, "SUPER_ADMIN")}

(* Nothing takes the last SUPER_ADMIN away: no revocation, no two of them at  *)
(* once, no deletion of a role of that type (check_privilege_escalation).    *)
SomebodyIsSuper == [][Supers # {} => Supers' # {}]_vars

(* A start and the script may be repeated at will: what administrators have  *)
(* changed since stays (initialize_rbac: "Idempotente").                    *)
SeedingKeeps ==
    [][Startup \/ CreateAdmin =>
         /\ \A r \in Names : roles[r].is => roles'[r] = roles[r]
         /\ \A u \in Users : has[u] \subseteq has'[u]]_vars

(* What the log says was done, was done: a change is committed before its    *)
(* entry, in whatever order requests write and fail (log_user_action).       *)
LoggedIsTrue == log \subseteq made

(* The inductive invariant.                                                  *)
IInv == TypeOK /\ Referential /\ Founded /\ OneEntry /\ LoggedIsTrue
=============================================================================
