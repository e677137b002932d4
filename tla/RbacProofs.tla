------------------------------ MODULE RbacProofs ------------------------------
(***************************************************************************)
(* For any users, names of roles and requests: no table refers to a row that *)
(* is gone, nobody takes the last SUPER_ADMIN away, a start and the script    *)
(* may be repeated, and the log tells the truth.                            *)
(***************************************************************************)
EXTENDS Rbac, TLAPS

-----------------------------------------------------------------------------
(* Requests.                                                               *)

LEMMA SystemNames == System \subseteq Names /\ Custom \subseteq Names /\ Names \ System = Custom
BY RbacBounds DEF Names

\* What a request holds depends on what it asks for.
LEMMA RequestFields ==
    ASSUME NEW q \in Request
    PROVE  /\ q.at \in {"idle", "loaded", "audit", "ended"}
           /\ q.at = "idle" => q = Idle
           /\ q.at \in {"loaded", "audit"} =>
                 /\ q.kind \in Kinds
                 /\ q.kind = "create" => q.role \in Names /\ q.x \in System
                 /\ q.kind = "update" => q.role \in Custom /\ q.x \in BOOLEAN
                 /\ q.kind = "delete" => q.role \in Custom
                 /\ q.kind \in {"add", "remove"} => q.role \in Names /\ q.x \in Perms
                 /\ q.kind \in {"assign", "revoke"} => q.role \in Names /\ q.x \in Users
BY DEF Request, Loaded, Idle, Kinds

\* A request goes on with what it has loaded.
LEMMA RequestMoves ==
    ASSUME NEW q \in Request, q.at \in {"loaded", "audit"}, NEW at \in {"audit", "ended"}
    PROVE  LET r == [q EXCEPT !.at = at]
           IN  r \in Request /\ r.at = at /\ r.kind = q.kind /\ r.role = q.role /\ r.x = q.x
BY DEF Request, Loaded, Idle

\* The steps of one request leave the others.
LEMMA ToChanges ==
    ASSUME call \in [Calls -> Request], NEW c \in Calls, call[c].at \in {"loaded", "audit"},
           NEW at \in {"audit", "ended"}, To(c, at)
    PROVE  /\ call' \in [Calls -> Request]
           /\ \A d \in Calls \ {c} : call'[d] = call[d]
           /\ call'[c].at = at /\ call'[c].kind = call[c].kind
           /\ call'[c].role = call[c].role /\ call'[c].x = call[c].x
<1>1. call' = [call EXCEPT ![c] = [call[c] EXCEPT !.at = at]]
  BY DEF To
<1>2. call'[c] = [call[c] EXCEPT !.at = at] /\ \A d \in Calls \ {c} : call'[d] = call[d]
  BY <1>1
<1> QED
  BY <1>1, <1>2, RequestMoves

LEMMA LoadChanges ==
    ASSUME call \in [Calls -> Request], NEW c \in Calls, NEW kind, NEW r, NEW x,
           [at |-> "loaded", kind |-> kind, role |-> r, x |-> x] \in Request,
           Load(c, kind, r, x)
    PROVE  /\ call[c] = Idle
           /\ call' \in [Calls -> Request]
           /\ \A d \in Calls \ {c} : call'[d] = call[d]
           /\ call'[c].at = "loaded" /\ call'[c].kind = kind
           /\ call'[c].role = r /\ call'[c].x = x
BY DEF Load

\* Every write ends its request, or leaves it to the audit.
LEMMA WriteMoves ==
    ASSUME TypeOK, NEW c \in Calls, Write(c)
    PROVE  /\ call[c].at = "loaded" /\ call[c].kind \in Kinds
           /\ To(c, "ended") \/ To(c, "audit")
<1>1. call[c].at = "loaded"
  BY DEF Write, At, CreateRole, UpdateRole, DeleteRole, AddPermission, RemovePermission, AssignRole,
         RevokeRole
<1>2. To(c, "ended") \/ To(c, "audit")
  BY DEF Write, Done, ToBeLogged, CreateRole, UpdateRole, DeleteRole, AddPermission,
         RemovePermission, AssignRole, RevokeRole
<1> QED
  BY <1>1, <1>2, RequestFields DEF TypeOK

\* Who begins a request has a role, and what the request has loaded is of its kind.
LEMMA BeginLoads ==
    ASSUME TypeOK, NEW c \in Calls, NEW u \in people, Begin(c, u)
    PROVE  /\ u \in Users /\ has[u] # {}
           /\ \/ \E r \in Names : Attempt(c, u, r)
              \/ \E kind \in Kinds, r \in Names : \E x :
                    /\ Load(c, kind, r, x)
                    /\ [at |-> "loaded", kind |-> kind, role |-> r, x |-> x] \in Request
                    /\ kind = "add" => seeded
                    /\ kind = "assign" => x \in people
                    /\ kind = "revoke" => roles[r].is /\ MayGo(r)
<1>1. u \in Users /\ has[u] # {}
  BY DEF TypeOK, Begin, Attempt, LoadCreate, LoadUpdate, LoadDelete, LoadAdd, LoadRemove, LoadAssign,
         LoadRevoke, MayDo, HasType
<1>2. ASSUME NEW r \in Names, NEW t \in System, LoadCreate(c, u, r, t)
      PROVE  /\ Load(c, "create", r, t)
             /\ [at |-> "loaded", kind |-> "create", role |-> r, x |-> t] \in Request
  BY <1>2 DEF LoadCreate, Request, Loaded
<1>3. ASSUME NEW r \in Names, LoadUpdate(c, u, r)
      PROVE  /\ Load(c, "update", r, ~roles[r].on)
             /\ [at |-> "loaded", kind |-> "update", role |-> r, x |-> ~roles[r].on] \in Request
  BY <1>3, SystemNames DEF LoadUpdate, Request, Loaded
<1>4. ASSUME NEW r \in Names, LoadDelete(c, u, r)
      PROVE  /\ Load(c, "delete", r, 0)
             /\ [at |-> "loaded", kind |-> "delete", role |-> r, x |-> 0] \in Request
  BY <1>4, SystemNames DEF LoadDelete, Request, Loaded
<1>5. ASSUME NEW r \in Names, NEW p \in Perms, LoadAdd(c, u, r, p)
      PROVE  /\ Load(c, "add", r, p) /\ seeded
             /\ [at |-> "loaded", kind |-> "add", role |-> r, x |-> p] \in Request
  BY <1>5 DEF LoadAdd, Request, Loaded
<1>6. ASSUME NEW r \in Names, NEW p \in Perms, LoadRemove(c, u, r, p)
      PROVE  /\ Load(c, "remove", r, p)
             /\ [at |-> "loaded", kind |-> "remove", role |-> r, x |-> p] \in Request
  BY <1>6 DEF LoadRemove, Request, Loaded
<1>7. ASSUME NEW r \in Names, NEW v \in Users, LoadAssign(c, u, v, r)
      PROVE  /\ Load(c, "assign", r, v) /\ v \in people
             /\ [at |-> "loaded", kind |-> "assign", role |-> r, x |-> v] \in Request
  BY <1>7 DEF LoadAssign, Request, Loaded
<1>8. ASSUME NEW r \in Names, NEW v \in Users, LoadRevoke(c, u, v, r)
      PROVE  /\ Load(c, "revoke", r, v) /\ roles[r].is /\ MayGo(r)
             /\ [at |-> "loaded", kind |-> "revoke", role |-> r, x |-> v] \in Request
  BY <1>8 DEF LoadRevoke, Request, Loaded
<1> DEFINE Goal == \E kind \in Kinds, r \in Names : \E x :
                    /\ Load(c, kind, r, x)
                    /\ [at |-> "loaded", kind |-> kind, role |-> r, x |-> x] \in Request
                    /\ kind = "add" => seeded
                    /\ kind = "assign" => x \in people
                    /\ kind = "revoke" => roles[r].is /\ MayGo(r)
<1>10. ASSUME NEW r \in Names, NEW t \in System, LoadCreate(c, u, r, t) PROVE Goal
  BY <1>2, <1>10 DEF Kinds
<1>11. ASSUME NEW r \in Names, LoadUpdate(c, u, r) \/ LoadDelete(c, u, r) PROVE Goal
  BY <1>3, <1>4, <1>11 DEF Kinds
<1>12. ASSUME NEW r \in Names, NEW p \in Perms, LoadAdd(c, u, r, p) \/ LoadRemove(c, u, r, p)
       PROVE  Goal
  BY <1>5, <1>6, <1>12 DEF Kinds
<1>13. ASSUME NEW r \in Names, NEW v \in Users, LoadAssign(c, u, v, r) \/ LoadRevoke(c, u, v, r)
       PROVE  Goal
  BY <1>7, <1>8, <1>13 DEF Kinds
<1> HIDE DEF Goal
<1>15. Goal \/ \E r \in Names : Attempt(c, u, r)
  BY <1>10, <1>11, <1>12, <1>13 DEF Begin
<1> QED
  BY <1>1, <1>15 DEF Goal
\* A request that begins takes a row of its own, which nobody had, and leaves the others.
LEMMA BeginChanges ==
    ASSUME TypeOK, NEW c \in Calls, NEW u \in people, Begin(c, u)
    PROVE  /\ call[c] = Idle /\ call' \in [Calls -> Request]
           /\ \A d \in Calls \ {c} : call'[d] = call[d]
           /\ UNCHANGED tables
           /\ \/ call'[c].at = "ended" /\ log' = log \cup {<<"attempt", c>>} /\ made' = made \cup {<<"attempt", c>>}
              \/ /\ call'[c].at = "loaded" /\ log' = log /\ made' = made
                 /\ At(c, "add")' => seeded
                 /\ At(c, "assign")' => call'[c].x \in people
                 /\ At(c, "revoke")' => roles[call'[c].role].is /\ MayGo(call'[c].role)
<1>1. CASE \E r \in Names : Attempt(c, u, r)
  <2>1. [at |-> "ended"] \in Request
    BY DEF Request
  <2> QED
    BY <1>1, <2>1 DEF Attempt, TypeOK, tables
<1>2. ASSUME NEW kind \in Kinds, NEW r \in Names, NEW x, Load(c, kind, r, x),
             [at |-> "loaded", kind |-> kind, role |-> r, x |-> x] \in Request,
             kind = "add" => seeded,
             kind = "assign" => x \in people,
             kind = "revoke" => roles[r].is /\ MayGo(r)
      PROVE  /\ call[c] = Idle /\ call' \in [Calls -> Request]
             /\ \A d \in Calls \ {c} : call'[d] = call[d]
             /\ UNCHANGED tables /\ UNCHANGED <<log, made>>
             /\ call'[c].at = "loaded"
             /\ At(c, "add")' => seeded
             /\ At(c, "assign")' => call'[c].x \in people
             /\ At(c, "revoke")' => roles[call'[c].role].is /\ MayGo(call'[c].role)
  <2>1. /\ call[c] = Idle /\ call' \in [Calls -> Request]
        /\ \A d \in Calls \ {c} : call'[d] = call[d]
        /\ call'[c].at = "loaded" /\ call'[c].kind = kind /\ call'[c].role = r /\ call'[c].x = x
    BY <1>2, LoadChanges DEF TypeOK
  <2>2. UNCHANGED tables /\ UNCHANGED <<log, made>>
    BY <1>2 DEF Load
  <2> QED
    BY <1>2, <2>1, <2>2 DEF At
<1> QED
  BY <1>1, <1>2, BeginLoads

-----------------------------------------------------------------------------
(* Types.                                                                  *)

LEMMA RoleTypes ==
    /\ NoRole \in Role
    /\ \A type \in System, perms \in SUBSET Perms : New(type, perms) \in Role
    /\ \A r \in System : Definition(r) \in Role
BY DEF NoRole, New, Definition, Role, System, Perms

LEMMA NewFields ==
    ASSUME NEW type, NEW perms
    PROVE  LET n == New(type, perms) IN n.is /\ n.type = type /\ n.on /\ n.perms = perms
BY DEF New

LEMMA InitIInv == Init => IInv
<1> SUFFICES ASSUME Init PROVE IInv
  OBVIOUS
<1>1. \A c \in Calls : call[c] = Idle /\ call[c].at = "idle"
  BY DEF Init, Idle
<1>2. TypeOK
  <2>1. roles \in [Names -> Role]
    <3>1. \A r \in System : New(r, IF r = "SUPER_ADMIN" THEN Perms ELSE {}) \in Role
      BY RoleTypes
    <3> QED
      BY <3>1, RoleTypes DEF Init, SetUp, Empty
  <2>2. has \in [Users -> SUBSET Names] /\ seeded \in BOOLEAN /\ people \subseteq Users
    BY SystemNames DEF Init, SetUp, Empty, System
  <2>3. call \in [Calls -> Request]
    BY DEF Init, Request
  <2> QED
    BY <2>1, <2>2, <2>3 DEF Init, TypeOK
<1>3. CASE SetUp
  <2>1. \A u \in Users : \A r \in has[u] : r = "SUPER_ADMIN" /\ u = Admin
    BY <1>3 DEF SetUp
  <2>2. \A r \in System : roles[r] = New(r, IF r = "SUPER_ADMIN" THEN Perms ELSE {})
    BY <1>3, SystemNames DEF SetUp
  <2>3. \A r \in Names \ System : roles[r] = NoRole
    BY <1>3 DEF SetUp
  <2>4. /\ \A r \in System : roles[r].is /\ roles[r].type = r /\ roles[r].on
        /\ \A r \in Names \ System : roles[r].perms = {}
    BY <2>2, <2>3, NewFields DEF NoRole
  <2>5. Referential
    BY <1>3, <2>1, <2>4, RbacBounds DEF SetUp, Referential, System
  <2>6. "SUPER_ADMIN" \in has[Admin]
    BY <1>3, RbacBounds DEF SetUp
  <2> QED
    BY <1>1, <1>2, <2>4, <2>5, <2>6 DEF Init, IInv, Founded, At, OneEntry, LoggedIsTrue
<1>4. CASE Empty
  <2>1. Referential
    BY <1>4, SystemNames DEF Empty, Referential, NoRole
  <2>2. \A u \in Users : has[u] = {}
    BY <1>4 DEF Empty
  <2> QED
    BY <1>1, <1>2, <2>1, <2>2 DEF Init, IInv, Founded, At, OneEntry, LoggedIsTrue
<1> QED
  BY <1>3, <1>4 DEF Init

LEMMA TypeStep == TypeOK /\ [Next]_vars => TypeOK'
<1> SUFFICES ASSUME TypeOK, [Next]_vars PROVE TypeOK'
  OBVIOUS
<1>1. CASE Startup
  <2>1. roles' \in [Names -> Role]
    BY <1>1, RoleTypes DEF Startup, TypeOK
  <2> QED
    BY <1>1, <2>1, RbacBounds DEF Startup, TypeOK
<1>2. CASE CreateAdmin
  <2>1. roles' \in [Names -> Role]
    BY <1>2, RoleTypes DEF CreateAdmin, TypeOK
  <2>2. has' \in [Users -> SUBSET Names]
    BY <1>2, SystemNames DEF CreateAdmin, TypeOK, System
  <2> QED
    BY <1>2, <2>1, <2>2, RbacBounds DEF CreateAdmin, TypeOK
<1>3. ASSUME NEW c \in Calls, Write(c) PROVE TypeOK'
  <2>0. call[c] \in Request /\ call[c].at = "loaded" /\ call[c].kind \in Kinds
    BY <1>3, WriteMoves DEF TypeOK
  <2>1. call' \in [Calls -> Request]
    BY <1>3, <2>0, WriteMoves, ToChanges DEF TypeOK
  <2>2. <<call[c].kind, c>> \in Entries
    BY <2>0 DEF Entries
  <2>3. CASE CreateRole(c)
    <3>1. New(call[c].x, {}) \in Role
      BY <2>0, <2>3, RequestFields, RoleTypes DEF CreateRole, At
    <3>2. roles' \in [Names -> Role]
      BY <2>3, <3>1 DEF CreateRole, TypeOK
    <3> QED
      BY <2>1, <2>2, <2>3, <3>2 DEF CreateRole, Done, ToBeLogged, TypeOK
  <2>4. CASE UpdateRole(c)
    <3>0. call[c].x \in BOOLEAN
      BY <2>0, <2>4, RequestFields DEF UpdateRole, At
    <3>1. roles' \in [Names -> Role]
      BY <2>4, <3>0 DEF UpdateRole, TypeOK, Role
    <3> QED
      BY <2>1, <2>4, <3>1 DEF UpdateRole, Done, TypeOK
  <2>5. CASE DeleteRole(c)
    BY <2>1, <2>5, RoleTypes DEF DeleteRole, Done, TypeOK
  <2>6. CASE AddPermission(c)
    <3>1. roles' \in [Names -> Role]
      BY <2>0, <2>6, RequestFields DEF AddPermission, At, TypeOK, Role
    <3> QED
      BY <2>1, <2>6, <3>1 DEF AddPermission, Done, TypeOK
  <2>7. CASE RemovePermission(c)
    <3>1. roles' \in [Names -> Role]
      BY <2>7 DEF RemovePermission, At, TypeOK, Role
    <3> QED
      BY <2>1, <2>7, <3>1 DEF RemovePermission, Done, TypeOK
  <2>8. CASE AssignRole(c)
    <3>1. call[c].role \in Names /\ call[c].x \in Users
      BY <2>0, <2>8, RequestFields DEF AssignRole, At
    <3> QED
      BY <2>1, <2>2, <2>8, <3>1 DEF AssignRole, Done, ToBeLogged, TypeOK
  <2>9. CASE RevokeRole(c)
    BY <2>1, <2>2, <2>9 DEF RevokeRole, Done, ToBeLogged, TypeOK
  <2> QED
    BY <1>3, <2>3, <2>4, <2>5, <2>6, <2>7, <2>8, <2>9 DEF Write
<1>4. ASSUME NEW c \in Calls, Audit(c) \/ Fail(c) PROVE TypeOK'
  <2>1. call[c].at \in {"loaded", "audit"} /\ To(c, "ended")
    BY <1>4 DEF Audit, Fail
  <2>2. call' \in [Calls -> Request] /\ <<call[c].kind, c>> \in Entries
    BY <2>1, ToChanges, RequestFields DEF TypeOK, Entries
  <2> QED
    BY <1>4, <2>2 DEF Audit, Fail, TypeOK, tables
<1>5. ASSUME NEW c \in Calls, NEW u \in people, Begin(c, u) PROVE TypeOK'
  <2>1. <<"attempt", c>> \in Entries
    BY DEF Entries
  <2> QED
    BY <1>5, <2>1, BeginChanges DEF TypeOK, tables
<1>6. CASE UNCHANGED vars
  BY <1>6 DEF vars, TypeOK
<1> QED
  BY <1>1, <1>2, <1>3, <1>4, <1>5, <1>6 DEF Next

-----------------------------------------------------------------------------
(* Rows that refer to one another.                                         *)

\* A role of the system that a start does not find is not there under its own name either.
LEMMA MissingRole ==
    ASSUME TypeOK, Referential, NEW r \in System, OfType(r) = {}
    PROVE  ~roles[r].is
BY SystemNames DEF OfType, Referential

\* A write gives a role its new row and leaves the other roles.
LEMMA RoleWrites ==
    ASSUME TypeOK, NEW n \in Names
    PROVE  /\ \A x \in BOOLEAN :
                LET f == [roles EXCEPT ![n].on = x]
                IN  /\ f[n].is = roles[n].is /\ f[n].type = roles[n].type
                    /\ f[n].perms = roles[n].perms /\ f[n].on = x
                    /\ \A r \in Names \ {n} : f[r] = roles[r]
           /\ \A x \in Role :
                LET f == [roles EXCEPT ![n] = x]
                IN  f[n] = x /\ \A r \in Names \ {n} : f[r] = roles[r]
           /\ \A x \in SUBSET Perms :
                LET f == [roles EXCEPT ![n].perms = x]
                IN  /\ f[n].is = roles[n].is /\ f[n].type = roles[n].type
                    /\ f[n].perms = x /\ f[n].on = roles[n].on
                    /\ \A r \in Names \ {n} : f[r] = roles[r]
BY DEF TypeOK, Role

\* A deletion takes the rows of user_roles with it; an assignment looks for its role when it
\* writes, and its user does not go; a permission is given to a role that is there.
LEMMA ReferentialStep == TypeOK /\ Referential /\ Founded /\ [Next]_vars => Referential'
<1> SUFFICES ASSUME TypeOK, Referential, Founded, [Next]_vars PROVE Referential'
  OBVIOUS
<1>1. CASE Startup
  <2>1. CASE CanSeed
    <3>1. \A r \in Names : roles'[r] = roles[r] \/ (r \in System /\ ~roles[r].is /\ roles'[r] = Definition(r))
      BY <1>1, <2>1, MissingRole DEF Startup, TypeOK
    <3>2. \A r \in System : Definition(r).is /\ Definition(r).type = r /\ Definition(r).on
      BY NewFields DEF Definition
    <3>3. seeded' /\ people \subseteq people' /\ has' = has
      BY <1>1, <2>1 DEF Startup
    <3> QED
      BY <3>1, <3>2, <3>3, SystemNames DEF Referential, TypeOK
  <2>2. CASE ~CanSeed
    BY <1>1, <2>2 DEF Startup, Referential
  <2> QED
    BY <2>1, <2>2
<1>2. CASE CreateAdmin
  <2>1. \A r \in Names : roles'[r] = roles[r] \/ (r \in System /\ ~roles[r].is /\ roles'[r] = New(r, {}))
    BY <1>2 DEF CreateAdmin, TypeOK
  <2>2. \A r \in System : roles'[r].is
    BY <1>2, <2>1, NewFields, SystemNames DEF CreateAdmin
  <2>3. \A u \in Users : \A r \in has'[u] : r \in has[u] \/ (u = Admin /\ r = "SUPER_ADMIN")
    BY <1>2 DEF CreateAdmin, TypeOK
  <2>4. seeded' = seeded /\ people' = people \cup {Admin}
    BY <1>2 DEF CreateAdmin
  <2> QED
    BY <2>1, <2>2, <2>3, <2>4, NewFields, SystemNames DEF Referential, TypeOK, System
<1>3. ASSUME NEW c \in Calls, Write(c) PROVE Referential'
  <2>0. call[c] \in Request /\ call[c].at = "loaded" /\ call[c].kind \in Kinds
    BY <1>3, WriteMoves DEF TypeOK
  <2>1. CASE CreateRole(c)
    <3> DEFINE n == call[c].role
               new == New(call[c].x, {})
    <3>1. n \in Names /\ call[c].x \in System /\ call[c] # Idle
      BY <2>0, <2>1, RequestFields DEF CreateRole, At, Idle
    <3>2. \A r \in System : roles[r].is
      BY <3>1 DEF Founded
    <3>3. CASE roles[n].is
      BY <2>1, <3>3 DEF CreateRole, Referential
    <3>4. CASE ~roles[n].is
      <4>1. n \notin System /\ new \in Role /\ new.perms = {} /\ new.is
        BY <3>1, <3>2, <3>4, RoleTypes, NewFields
      <4>2. roles' = [roles EXCEPT ![n] = new]
        BY <2>1, <3>4 DEF CreateRole
      <4> HIDE DEF new
      <4>3. roles'[n] = new /\ \A r \in Names \ {n} : roles'[r] = roles[r]
        BY <3>1, <4>1, <4>2, RoleWrites
      <4> QED
        BY <2>1, <4>1, <4>3, SystemNames DEF CreateRole, Referential, TypeOK
    <3> QED
      BY <3>3, <3>4
  <2>2. CASE UpdateRole(c)
    <3>1. call[c].role \in Custom /\ call[c].x \in BOOLEAN
      BY <2>0, <2>2, RequestFields DEF UpdateRole, At
    <3>2. call[c].role \in Names \ System
      BY <3>1, RbacBounds, SystemNames
    <3>3. \A r \in Names : /\ roles'[r].is = roles[r].is /\ roles'[r].perms = roles[r].perms
                           /\ r \in System => roles'[r] = roles[r]
      BY <2>2, <3>1, <3>2, RoleWrites DEF UpdateRole
    <3> QED
      BY <2>2, <3>3, SystemNames DEF UpdateRole, Referential, TypeOK
  <2>3. CASE DeleteRole(c)
    <3>1. call[c].role \in Names \ System
      BY <2>0, <2>3, RequestFields, RbacBounds, SystemNames DEF DeleteRole, At
    <3>2. roles'[call[c].role] = NoRole /\ \A r \in Names \ {call[c].role} : roles'[r] = roles[r]
      BY <2>3, <3>1, RoleWrites, RoleTypes DEF DeleteRole
    <3>3. \A u \in Users : \A r \in has'[u] : r \in has[u] /\ r \in Names \ {call[c].role}
      BY <2>3 DEF DeleteRole, TypeOK
    <3> QED
      BY <2>3, <3>1, <3>2, <3>3, SystemNames DEF DeleteRole, Referential, NoRole
  <2>4. CASE AddPermission(c)
    <3>1. call[c].role \in Names /\ call[c].x \in Perms /\ seeded
      BY <2>0, <2>4, RequestFields DEF AddPermission, At, Founded
    <3>2. CASE roles[call[c].role].is
      <4>1. \A r \in Names : /\ roles'[r].is = roles[r].is /\ roles'[r].type = roles[r].type
                             /\ roles'[r].on = roles[r].on
                             /\ roles'[r].perms = roles[r].perms \/ r = call[c].role
        <5>1. roles[call[c].role].perms \cup {call[c].x} \in SUBSET Perms
          BY <3>1 DEF TypeOK, Role
        <5>2. roles' = [roles EXCEPT ![call[c].role].perms = roles[call[c].role].perms \cup {call[c].x}]
          BY <2>4, <3>2 DEF AddPermission
        <5> QED
          BY <3>1, <5>1, <5>2, RoleWrites
      <4> QED
        BY <2>4, <3>1, <3>2, <4>1, SystemNames DEF AddPermission, Referential, TypeOK
    <3>3. CASE ~roles[call[c].role].is
      BY <2>4, <3>3 DEF AddPermission, Referential
    <3> QED
      BY <3>2, <3>3
  <2>5. CASE RemovePermission(c)
    <3>1. call[c].role \in Names
      BY <2>0, <2>5, RequestFields DEF RemovePermission, At
    <3>2. roles[call[c].role].perms \ {call[c].x} \in SUBSET Perms
      BY <3>1 DEF TypeOK, Role
    <3>3. roles' = [roles EXCEPT ![call[c].role].perms = roles[call[c].role].perms \ {call[c].x}]
      BY <2>5 DEF RemovePermission
    <3>4. \A r \in Names : /\ roles'[r].is = roles[r].is /\ roles'[r].type = roles[r].type
                           /\ roles'[r].on = roles[r].on
                           /\ roles'[r].perms \subseteq roles[r].perms
      BY <3>1, <3>2, <3>3, RoleWrites
    <3> QED
      BY <2>5, <3>4, SystemNames DEF RemovePermission, Referential, TypeOK
  <2>6. CASE AssignRole(c)
    <3>1. call[c].role \in Names /\ call[c].x \in people
      BY <2>0, <2>6, RequestFields DEF AssignRole, At, Founded
    <3>2. \A u \in Users : \A r \in has'[u] :
             r \in has[u] \/ (u = call[c].x /\ r = call[c].role /\ roles[r].is)
      BY <2>6, <3>1 DEF AssignRole, TypeOK
    <3> QED
      BY <2>6, <3>1, <3>2 DEF AssignRole, Referential
  <2>7. CASE RevokeRole(c)
    <3>1. \A u \in Users : has'[u] \subseteq has[u]
      BY <2>7 DEF RevokeRole, TypeOK
    <3> QED
      BY <2>7, <3>1 DEF RevokeRole, Referential
  <2> QED
    BY <1>3, <2>1, <2>2, <2>3, <2>4, <2>5, <2>6, <2>7 DEF Write
<1>4. ASSUME UNCHANGED tables PROVE Referential'
  BY <1>4 DEF tables, Referential
<1>5. ASSUME NEW c \in Calls, Audit(c) \/ Fail(c) PROVE Referential'
  BY <1>4, <1>5 DEF Audit, Fail
<1>6. ASSUME NEW c \in Calls, NEW u \in people, Begin(c, u) PROVE Referential'
  BY <1>4, <1>6, BeginChanges
<1>7. CASE UNCHANGED vars
  BY <1>4, <1>7 DEF vars, tables
<1> QED
  BY <1>1, <1>2, <1>3, <1>5, <1>6, <1>7 DEF Next

-----------------------------------------------------------------------------
(* What a setup has founded stays.                                         *)

\* What each write does to the roles: only a custom role is updated or deleted, and no write changes
\* the type of a role that is there.
LEMMA RolesKept ==
    ASSUME TypeOK, NEW c \in Calls, Write(c), NEW r \in Names, roles[r].is
    PROVE  /\ r \in System => roles'[r].is
           /\ roles'[r].type = roles[r].type \/ (r = call[c].role /\ DeleteRole(c))
<1>0. call[c] \in Request /\ call[c].at = "loaded" /\ call[c].kind \in Kinds
  BY WriteMoves DEF TypeOK
<1>1. CASE CreateRole(c)
  <2>1. call[c].role \in Names /\ New(call[c].x, {}) \in Role
    BY <1>0, <1>1, RequestFields, RoleTypes DEF CreateRole, At
  <2> DEFINE new == New(call[c].x, {})
  <2>2. roles' = roles \/ (~roles[call[c].role].is /\ roles' = [roles EXCEPT ![call[c].role] = new])
    BY <1>1 DEF CreateRole
  <2> HIDE DEF new
  <2> QED
    BY <2>1, <2>2 DEF TypeOK
<1>2. CASE UpdateRole(c)
  <2>1. call[c].role \in Names /\ call[c].x \in BOOLEAN
    BY <1>0, <1>2, RequestFields, SystemNames DEF UpdateRole, At
  <2> QED
    BY <1>2, <2>1, RoleWrites DEF UpdateRole
<1>3. CASE DeleteRole(c)
  <2>1. call[c].role \in Names \ System
    BY <1>0, <1>3, RequestFields, RbacBounds, SystemNames DEF DeleteRole, At
  <2>2. \A s \in Names \ {call[c].role} : roles'[s] = roles[s]
    BY <1>3, <2>1, RoleWrites, RoleTypes DEF DeleteRole
  <2> QED
    BY <1>3, <2>1, <2>2
<1>4. CASE AddPermission(c)
  <2>1. call[c].role \in Names /\ call[c].x \in Perms
    BY <1>0, <1>4, RequestFields DEF AddPermission, At
  <2>2. roles[call[c].role].perms \cup {call[c].x} \in SUBSET Perms
    BY <2>1 DEF TypeOK, Role
  <2>3. roles' = roles
          \/ roles' = [roles EXCEPT ![call[c].role].perms = roles[call[c].role].perms \cup {call[c].x}]
    BY <1>4 DEF AddPermission
  <2>4. CASE roles' = roles
    BY <2>4
  <2>5. CASE roles' = [roles EXCEPT ![call[c].role].perms = roles[call[c].role].perms \cup {call[c].x}]
    BY <2>1, <2>2, <2>5, RoleWrites
  <2> QED
    BY <2>3, <2>4, <2>5
<1>5. CASE RemovePermission(c)
  <2>1. call[c].role \in Names
    BY <1>0, <1>5, RequestFields DEF RemovePermission, At
  <2>2. roles[call[c].role].perms \ {call[c].x} \in SUBSET Perms
    BY <2>1 DEF TypeOK, Role
  <2>3. roles' = [roles EXCEPT ![call[c].role].perms = roles[call[c].role].perms \ {call[c].x}]
    BY <1>5 DEF RemovePermission
  <2> QED
    BY <2>1, <2>2, <2>3, RoleWrites
<1>6. CASE AssignRole(c) \/ RevokeRole(c)
  BY <1>6 DEF AssignRole, RevokeRole
<1> QED
  BY <1>1, <1>2, <1>3, <1>4, <1>5, <1>6 DEF Write

LEMMA SeedersKeep ==
    ASSUME TypeOK, Referential, Startup \/ CreateAdmin
    PROVE  /\ \A r \in Names : roles[r].is => roles'[r] = roles[r]
           /\ \A u \in Users : has[u] \subseteq has'[u]
           /\ (seeded => seeded') /\ people \subseteq people' /\ call' = call
<1>1. CASE Startup
  <2>1. \A r \in Names : roles[r].is => roles'[r] = roles[r]
    BY <1>1, MissingRole DEF Startup, TypeOK
  <2> QED
    BY <1>1, <2>1 DEF Startup
<1>2. CASE CreateAdmin
  BY <1>2 DEF CreateAdmin, TypeOK
<1> QED
  BY <1>1, <1>2

LEMMA WritesKeep ==
    ASSUME TypeOK, NEW c \in Calls, Write(c)
    PROVE  /\ seeded' = seeded /\ people' = people
           /\ \A d \in Calls \ {c} : call'[d] = call[d]
           /\ call'[c].at # "loaded" /\ call[c] # Idle
<1>1. seeded' = seeded /\ people' = people
  BY DEF Write, CreateRole, UpdateRole, DeleteRole, AddPermission, RemovePermission, AssignRole,
         RevokeRole
<1>2. call[c].at = "loaded" /\ (To(c, "ended") \/ To(c, "audit"))
  BY WriteMoves
<1>3. (\A d \in Calls \ {c} : call'[d] = call[d]) /\ call'[c].at \in {"ended", "audit"}
  BY <1>2, ToChanges DEF TypeOK
<1> QED
  BY <1>1, <1>2, <1>3 DEF Idle

\* The last of the system's roles never goes, nor, if relations may not be loaded on access, does
\* the role of the administrator: a revocation of it would need them.
LEMMA FoundedStep == TypeOK /\ Referential /\ Founded /\ [Next]_vars => Founded'
<1> SUFFICES ASSUME TypeOK, Referential, Founded, [Next]_vars PROVE Founded'
  OBVIOUS
<1> DEFINE Base == /\ \A r \in System : roles[r].is
                   /\ LazyLoads \/ "SUPER_ADMIN" \in has[Admin]
           Good(c) == /\ At(c, "add") => seeded
                      /\ At(c, "assign") => call[c].x \in people
                      /\ At(c, "revoke") => LazyLoads \/ call[c].role # "SUPER_ADMIN"
           Grows == (seeded => seeded') /\ people \subseteq people'
<1>0. /\ (\E u \in Users : has[u] # {}) \/ (\E c \in Calls : call[c] # Idle) => Base
      /\ \A c \in Calls : Good(c)
  BY DEF Founded
<1>1. ASSUME Base', \A c \in Calls : Good(c)' PROVE Founded'
  BY <1>1 DEF Founded
<1>2. ASSUME NEW c \in Calls, Grows, call'[c] = call[c] \/ call'[c].at # "loaded" PROVE Good(c)'
  BY <1>0, <1>2 DEF At
<1>3. CASE Startup
  <2>1. Grows /\ call' = call /\ has' = has /\ \A r \in Names : roles[r].is => roles'[r] = roles[r]
    BY <1>3, SeedersKeep DEF Startup
  <2>2. \A c \in Calls : Good(c)'
    BY <1>2, <2>1
  <2>3. Base => Base'
    BY <2>1, SystemNames
  <2> QED
    BY <1>0, <2>1, <2>2, <2>3 DEF Founded
<1>4. CASE CreateAdmin
  <2>1. Grows /\ call' = call
    BY <1>4, SeedersKeep
  <2>2. \A r \in System : roles'[r].is
    BY <1>4, NewFields, SystemNames DEF CreateAdmin, TypeOK
  <2>3. "SUPER_ADMIN" \in has'[Admin]
    BY <1>4, RbacBounds DEF CreateAdmin, TypeOK
  <2> QED
    BY <1>1, <1>2, <2>1, <2>2, <2>3
<1>5. ASSUME NEW c \in Calls, Write(c) PROVE Founded'
  <2>1. Base /\ Grows /\ \A d \in Calls : call'[d] = call[d] \/ call'[d].at # "loaded"
    BY <1>0, <1>5, WritesKeep
  <2>2. \A r \in System : roles'[r].is
    BY <1>5, <2>1, RolesKept, SystemNames
  <2>3. ASSUME ~LazyLoads PROVE "SUPER_ADMIN" \in has'[Admin]
    <3>0. call[c] \in Request /\ call[c].at = "loaded" /\ call[c].kind \in Kinds
      BY <1>5, WriteMoves DEF TypeOK
    <3>1. CASE DeleteRole(c)
      <4>1. call[c].role # "SUPER_ADMIN"
        BY <3>0, <3>1, RequestFields, RbacBounds DEF DeleteRole, At, System
      <4> QED
        BY <2>1, <2>3, <3>1, <4>1, RbacBounds DEF DeleteRole
    <3>2. CASE AssignRole(c)
      BY <2>1, <2>3, <3>2, RbacBounds DEF AssignRole, TypeOK
    <3>3. CASE RevokeRole(c)
      <4>1. call[c].role # "SUPER_ADMIN"
        BY <1>0, <2>3, <3>3 DEF RevokeRole
      <4> QED
        BY <2>1, <2>3, <3>3, <4>1, RbacBounds DEF RevokeRole, TypeOK
    <3>4. CASE has' = has
      BY <2>1, <2>3, <3>4
    <3> QED
      BY <1>5, <3>1, <3>2, <3>3, <3>4
      DEF Write, CreateRole, UpdateRole, AddPermission, RemovePermission
  <2> QED
    BY <1>1, <1>2, <2>1, <2>2, <2>3
<1>6. ASSUME NEW c \in Calls, Audit(c) \/ Fail(c) PROVE Founded'
  <2>1. /\ \A d \in Calls : call'[d] = call[d] \/ call'[d].at # "loaded"
        /\ call[c] # Idle /\ UNCHANGED tables
    BY <1>6, ToChanges DEF Audit, Fail, TypeOK, Idle
  <2>2. Base /\ Base' /\ Grows
    BY <1>0, <2>1 DEF tables
  <2> QED
    BY <1>1, <1>2, <2>1, <2>2
<1>7. ASSUME NEW c \in Calls, NEW u \in people, Begin(c, u) PROVE Founded'
  <2>1. Base /\ UNCHANGED tables
    BY <1>0, <1>7, BeginLoads, BeginChanges
  <2>2. Base' /\ Grows
    BY <2>1 DEF tables
  <2>3. At(c, "revoke")' => LazyLoads \/ call'[c].role # "SUPER_ADMIN"
    <3>1. ASSUME roles["SUPER_ADMIN"].is, MayGo("SUPER_ADMIN") PROVE LazyLoads
      BY <3>1 DEF MayGo, Referential, System
    <3> QED
      BY <1>7, <3>1, BeginChanges DEF At
  <2>4. Good(c)'
    BY <1>7, <2>1, <2>3, BeginChanges DEF At, tables
  <2>5. \A d \in Calls \ {c} : Good(d)'
    BY <1>2, <1>7, <2>2, BeginChanges
  <2> QED
    BY <1>1, <2>2, <2>4, <2>5
<1>8. CASE UNCHANGED vars
  BY <1>8 DEF vars, Founded, At
<1> QED
  BY <1>3, <1>4, <1>5, <1>6, <1>7, <1>8 DEF Next

-----------------------------------------------------------------------------
(* The audit log.                                                          *)

\* What each step does to the calls and the log, as far as the log is concerned.
LEMMA LogSteps ==
    ASSUME TypeOK, [Next]_vars
    PROVE  \/ UNCHANGED <<call, log, made>>
           \/ \E c \in Calls :
                /\ \A d \in Calls \ {c} : call'[d] = call[d]
                /\ \/ /\ call[c] = Idle /\ call'[c].at = "loaded" /\ UNCHANGED <<log, made>>
                   \/ /\ call[c] = Idle /\ call'[c].at = "ended"
                      /\ log' = log \cup {<<"attempt", c>>} /\ made' = made \cup {<<"attempt", c>>}
                   \/ /\ call[c].at = "loaded" /\ call'[c].at = "ended" /\ UNCHANGED <<log, made>>
                   \/ /\ call[c].at = "loaded" /\ call'[c].at = "audit" /\ call'[c].kind = call[c].kind
                      /\ made' = made \cup {EntryOf(c)} /\ log' = log
                   \/ /\ call[c].at = "audit" /\ call'[c].at = "ended" /\ made' = made
                      /\ log' = log \/ log' = log \cup {EntryOf(c)}
<1>1. CASE Startup \/ CreateAdmin
  BY <1>1 DEF Startup, CreateAdmin
<1>2. ASSUME NEW c \in Calls, Write(c)
      PROVE  /\ call[c].at = "loaded"
             /\ \A d \in Calls \ {c} : call'[d] = call[d]
             /\ \/ call'[c].at = "ended" /\ UNCHANGED <<log, made>>
                \/ /\ call'[c].at = "audit" /\ call'[c].kind = call[c].kind
                   /\ made' = made \cup {EntryOf(c)} /\ log' = log
  <2>0. call[c].at = "loaded" /\ (To(c, "ended") \/ To(c, "audit"))
    BY <1>2, WriteMoves
  <2>1. /\ \A d \in Calls \ {c} : call'[d] = call[d]
        /\ call'[c].kind = call[c].kind
        /\ To(c, "ended") => call'[c].at = "ended"
        /\ To(c, "audit") => call'[c].at = "audit"
    BY <2>0, ToChanges DEF TypeOK
  <2>2. log' = log
    BY <1>2 DEF Write, CreateRole, UpdateRole, DeleteRole, AddPermission, RemovePermission, AssignRole,
                RevokeRole
  <2>3. Done(c) \/ ToBeLogged(c)
    BY <1>2 DEF Write, CreateRole, UpdateRole, DeleteRole, AddPermission, RemovePermission, AssignRole,
                RevokeRole
  <2> QED
    BY <2>0, <2>1, <2>2, <2>3 DEF Done, ToBeLogged, EntryOf
<1>3. ASSUME NEW c \in Calls, Audit(c) \/ Fail(c)
      PROVE  /\ \A d \in Calls \ {c} : call'[d] = call[d]
             /\ call'[c].at = "ended" /\ made' = made
             /\ \/ call[c].at = "loaded" /\ log' = log
                \/ call[c].at = "audit" /\ (log' = log \/ log' = log \cup {EntryOf(c)})
  <2>1. call[c].at \in {"loaded", "audit"} /\ To(c, "ended")
    BY <1>3 DEF Audit, Fail
  <2>2. (\A d \in Calls \ {c} : call'[d] = call[d]) /\ call'[c].at = "ended"
    BY <2>1, ToChanges DEF TypeOK
  <2> QED
    BY <1>3, <2>2 DEF Audit, Fail, EntryOf
<1>4. ASSUME NEW c \in Calls, NEW u \in people, Begin(c, u)
      PROVE  /\ \A d \in Calls \ {c} : call'[d] = call[d]
             /\ call[c] = Idle
             /\ \/ call'[c].at = "ended" /\ log' = log \cup {<<"attempt", c>>} /\ made' = made \cup {<<"attempt", c>>}
                \/ call'[c].at = "loaded" /\ log' = log /\ made' = made
  BY <1>4, BeginChanges
<1>5. CASE UNCHANGED vars
  BY <1>5 DEF vars
<1> QED
  BY <1>1, <1>2, <1>3, <1>4, <1>5 DEF Next

\* A request makes one change at most, and its entry is written when it ends: a request that is idle
\* or has only loaded has no change yet, and none begins again.
LEMMA OneEntryStep == TypeOK /\ OneEntry /\ LoggedIsTrue /\ [Next]_vars => OneEntry' /\ LoggedIsTrue'
<1> SUFFICES ASSUME TypeOK, OneEntry, LoggedIsTrue, [Next]_vars PROVE OneEntry' /\ LoggedIsTrue'
  OBVIOUS
<1>0. /\ \A m \in made : m[2] \in Calls
      /\ \A c \in Calls : EntryOf(c)[2] = c
      /\ log \subseteq made
  BY DEF TypeOK, EntryOf, Entries, LoggedIsTrue
<1>1. CASE UNCHANGED <<call, log, made>>
  BY <1>1 DEF OneEntry, EntryOf, LoggedIsTrue
\* A step of a request that had no change, and makes the change e or none.
<1>2. ASSUME NEW c \in Calls, \A d \in Calls \ {c} : call'[d] = call[d],
             call[c].at \notin {"audit", "ended"}, NEW e, e[2] = c,
             made' = made \/ (made' = made \cup {e} /\ call'[c].at \in {"audit", "ended"}),
             log' = log \/ (log' = log \cup {e} /\ made' = made \cup {e} /\ call'[c].at = "ended"),
             call'[c].at = "audit" => e = EntryOf(c)' /\ made' = made \cup {e}
      PROVE  OneEntry' /\ LoggedIsTrue'
  <2>1. \A m \in made : m[2] # c /\ call'[m[2]] = call[m[2]]
    BY <1>0, <1>2 DEF OneEntry
  <2>2. \A d \in Calls \ {c} : EntryOf(d)' = EntryOf(d)
    BY <1>2 DEF EntryOf
  <2>3. LoggedIsTrue'
    BY <1>0, <1>2 DEF LoggedIsTrue
  <2>4. \A m \in made' : m = e \/ m \in made
    BY <1>2
  <2>5. \A m \in made' : call'[m[2]].at \in {"audit", "ended"}
    BY <1>2, <2>1, <2>4 DEF OneEntry
  <2>6. \A m \in made' : call'[m[2]].at = "audit" => m = EntryOf(m[2])'
    <3>1. \A m \in made : call'[m[2]].at = "audit" => m = EntryOf(m[2])'
      BY <1>0, <2>1, <2>2 DEF OneEntry
    <3> QED
      BY <1>2, <2>4, <3>1
  <2>7. \A d \in Calls : call'[d].at = "audit" => EntryOf(d)' \in made'
    BY <1>2, <2>2 DEF OneEntry
  <2>8. \A m \in log' : call'[m[2]].at = "ended"
    BY <1>0, <1>2, <2>1 DEF OneEntry
  <2>9. \A m, n \in made' : m[2] = n[2] => m = n
    BY <1>2, <2>1, <2>4 DEF OneEntry
  <2> QED
    BY <2>3, <2>5, <2>6, <2>7, <2>8, <2>9 DEF OneEntry
<1>3. ASSUME NEW c \in Calls, \A d \in Calls \ {c} : call'[d] = call[d],
             call[c].at = "audit", call'[c].at = "ended", made' = made,
             log' = log \/ log' = log \cup {EntryOf(c)}
      PROVE  OneEntry' /\ LoggedIsTrue'
  <2>1. EntryOf(c) \in made /\ \A d \in Calls \ {c} : EntryOf(d)' = EntryOf(d)
    BY <1>3 DEF OneEntry, EntryOf
  <2>2. \A m \in made : m[2] = c \/ call'[m[2]] = call[m[2]]
    BY <1>0, <1>3
  <2> QED
    BY <1>0, <1>3, <2>1, <2>2 DEF OneEntry, LoggedIsTrue
<1>4. ASSUME NEW c \in Calls, \A d \in Calls \ {c} : call'[d] = call[d],
             \/ /\ call[c] = Idle /\ call'[c].at = "loaded" /\ UNCHANGED <<log, made>>
             \/ /\ call[c] = Idle /\ call'[c].at = "ended"
                /\ log' = log \cup {<<"attempt", c>>} /\ made' = made \cup {<<"attempt", c>>}
             \/ /\ call[c].at = "loaded" /\ call'[c].at = "ended" /\ UNCHANGED <<log, made>>
             \/ /\ call[c].at = "loaded" /\ call'[c].at = "audit" /\ call'[c].kind = call[c].kind
                /\ made' = made \cup {EntryOf(c)} /\ log' = log
      PROVE  OneEntry' /\ LoggedIsTrue'
  <2>1. call[c].at \notin {"audit", "ended"}
    BY <1>4 DEF Idle
  <2>2. CASE UNCHANGED <<log, made>> /\ call'[c].at \in {"loaded", "ended"}
    BY <1>0, <1>2, <1>4, <2>1, <2>2
  <2>3. CASE call'[c].at = "audit" /\ call'[c].kind = call[c].kind /\ made' = made \cup {EntryOf(c)} /\ log' = log
    <3>1. EntryOf(c)' = EntryOf(c)
      BY <2>3 DEF EntryOf
    <3> QED
      BY <1>0, <1>2, <1>4, <2>1, <2>3, <3>1
  <2>4. ASSUME NEW e, e = <<"attempt", c>>, call'[c].at = "ended", log' = log \cup {e}, made' = made \cup {e}
        PROVE  OneEntry' /\ LoggedIsTrue'
    <3>1. e[2] = c
      BY <2>4
    <3> QED
      BY <1>2, <1>4, <2>1, <2>4, <3>1
  <2> QED
    BY <1>4, <2>2, <2>3, <2>4
<1> QED
  BY <1>1, <1>3, <1>4, LogSteps

-----------------------------------------------------------------------------
(* The theorems.                                                           *)

LEMMA InvariantStep == IInv /\ [Next]_vars => IInv'
BY TypeStep, ReferentialStep, FoundedStep, OneEntryStep DEF IInv

\* In every reachable state no table refers to a row that is gone and the roles of the system are of
\* their own types and active, whatever requests have loaded and not yet written (delete_role,
\* assign_role_to_user, create_role), and a request makes one change, logged when it ends.
THEOREM RbacInvariant == Spec => []IInv
BY InitIInv, InvariantStep, PTL DEF Spec

\* What the log says was done was done, whatever fails between a change and its entry
\* (log_user_action, assign_role_to_user).
THEOREM LogIsTrue == Spec => []LoggedIsTrue
<1>1. IInv => LoggedIsTrue
  BY DEF IInv
<1> QED
  BY RbacInvariant, <1>1, PTL

\* No step takes the last SUPER_ADMIN away as long as relations may not be loaded on access, as in an
\* async session: the administrator of the setup cannot lose that role, since a revocation fails
\* before it writes (check_privilege_escalation).
THEOREM SuperStays == ASSUME ~LazyLoads PROVE Spec => SomebodyIsSuper
<1>1. IInv /\ [Next]_vars /\ Supers # {} => Supers' # {}
  <2> SUFFICES ASSUME IInv, IInv', [Next]_vars, Supers # {} PROVE Supers' # {}
    BY InvariantStep
  <2>1. \E u \in Users : has[u] # {}
    BY DEF Supers, HasType
  <2>2. CASE \E u \in Users : has'[u] # {}
    <3>1. "SUPER_ADMIN" \in has'[Admin] /\ roles'["SUPER_ADMIN"].type = "SUPER_ADMIN"
      BY <2>2, RbacBounds DEF IInv, Founded, Referential, System
    <3> QED
      BY <3>1, RbacBounds DEF Supers, HasType
  <2>3. CASE \E c \in Calls : call'[c] # Idle
    <3>1. "SUPER_ADMIN" \in has'[Admin] /\ roles'["SUPER_ADMIN"].type = "SUPER_ADMIN"
      BY <2>3, RbacBounds DEF IInv, Founded, Referential, System
    <3> QED
      BY <3>1, RbacBounds DEF Supers, HasType
  <2>4. CASE (\A c \in Calls : call'[c] = Idle) /\ ~(\E u \in Users : has'[u] # {})
    <3>1. CASE Startup \/ CreateAdmin
      BY <2>1, <2>4, <3>1, SeedersKeep DEF IInv
    <3>2. ASSUME NEW c \in Calls, Write(c) \/ Audit(c) \/ Fail(c) PROVE FALSE
      <4>1. call'[c].at \in {"ended", "audit"}
        BY <3>2, WriteMoves, ToChanges DEF IInv, TypeOK, Audit, Fail
      <4> QED
        BY <2>4, <4>1 DEF Idle
    <3>3. ASSUME NEW c \in Calls, NEW u \in people, Begin(c, u) PROVE FALSE
      BY <2>4, <3>3, BeginChanges DEF IInv, Idle
    <3>4. CASE UNCHANGED vars
      BY <2>1, <2>4, <3>4 DEF vars
    <3> QED
      BY <3>1, <3>2, <3>3, <3>4 DEF Next
  <2> QED
    BY <2>2, <2>3, <2>4
<1>2. IInv /\ [Next]_vars => [Supers # {} => Supers' # {}]_vars
  BY <1>1
<1> QED
  BY RbacInvariant, <1>2, PTL DEF Spec, SomebodyIsSuper

\* A start and the script leave the roles that are there and who has them as they are, however often
\* they run (ensure_default_admin, initialize_rbac, create_admin).
THEOREM SeedersLeaveThings == Spec => SeedingKeeps
<1>1. IInv /\ [Next]_vars =>
        [Startup \/ CreateAdmin =>
           /\ \A r \in Names : roles[r].is => roles'[r] = roles[r]
           /\ \A u \in Users : has[u] \subseteq has'[u]]_vars
  BY SeedersKeep DEF IInv
<1> QED
  BY RbacInvariant, <1>1, PTL DEF Spec, SeedingKeeps

=============================================================================
