------------------------- MODULE AccountAdministration -------------------------
(***************************************************************************)
(* The administrative requests of src/src/apps/users and                    *)
(* src/src/apps/access-control: users, roles, their permissions and the     *)
(* assignments of roles.  A request is admitted by the guards, then its     *)
(* service checks, then it writes: three reads of the database at three     *)
(* moments.  Names, phone numbers and descriptions are left out, and with   *)
(* them the requests that edit nothing else.                                *)
(***************************************************************************)
EXTENDS AccountTables

\* A request r of the user of session s, past JwtAuthGuard and PermissionsGuard.
\* The guard asks for the permission at the station its body names, and when that
\* names none, at one its query may name although no service looks at it.
Admit(w, s, code, station, r) ==
    /\ JwtAuthGuard(s, "administration")
    /\ \E named \in IF station # None THEN {station} ELSE Stations \union {None} :
          PermissionsGuard(sessions[s].user, code, named)
    /\ Start(w, r)

-------------------------------------------------------------------------------
(* UsersService *)

CreateUserRequested(w, s, u, password) ==
    Admit(w, s, "users.create", None,
          [op |-> "create_user", user |-> u, password |-> password])

\* The email is unique: a second insert is refused.  mustChangePassword is TRUE
\* unless the body says otherwise.
Created(w, choices) ==
    /\ request[w].op = "create_user"
    /\ \E mustChange \in choices :
          users' = IF Exists(request[w].user) THEN users
                   ELSE [users EXCEPT ![request[w].user] =
                           [status |-> "active", failed |-> 0, locked |-> FALSE,
                            password |-> request[w].password,
                            mustChange |-> mustChange]]
    /\ Finish(w)
    /\ UNCHANGED <<roles, assignments, sessions>>
CreateUserWithoutDefault(w) == Created(w, BOOLEAN \union {None})
CreateUser(w) == Created(w, BOOLEAN)

UserStatusRequested(w, s, u, status) ==
    /\ Exists(u)
    /\ Admit(w, s, "users.update", None,
             [op |-> "check_status", user |-> u, status |-> status,
              by |-> sessions[s].user])

\* updateStatus up to its update: what it saw of the other super admins is all
\* it will know of them.
CheckUserStatusUnguarded(w) ==
    /\ request[w].op = "check_status"
    /\ LET r == request[w] IN
       IF r.status # "active" /\ r.user = r.by
       THEN Finish(w)
       ELSE Become(w, [op |-> "set_status", user |-> r.user, status |-> r.status,
                       saw |-> GlobalSuperAdmins])
    /\ UNCHANGED tables
CheckUserStatus(w) ==
    /\ request[w].op = "check_status"
    /\ LET r == request[w] IN
       IF r.status # "active" /\ (r.user = r.by \/ IsLastSuperAdminUser(r.user))
       THEN Finish(w)
       ELSE Become(w, [op |-> "set_status", user |-> r.user, status |-> r.status,
                       saw |-> GlobalSuperAdmins])
    /\ UNCHANGED tables

\* The lock is lifted; the count of failed logins is not reset.
SetUserStatusOnly(w) ==
    /\ request[w].op = "set_status"
    /\ users' = [users EXCEPT ![request[w].user].status = request[w].status,
                              ![request[w].user].locked = FALSE]
    /\ Finish(w)
    /\ UNCHANGED <<roles, assignments, sessions>>
SetUserStatus(w) ==
    /\ request[w].op = "set_status"
    /\ users' = [users EXCEPT ![request[w].user].status = request[w].status,
                              ![request[w].user].locked = FALSE]
    /\ IF request[w].status = "active"
       THEN Finish(w)
       ELSE Become(w, [op |-> "revoke_sessions", user |-> request[w].user,
                       why |-> "user_restricted"])
    /\ UNCHANGED <<roles, assignments, sessions>>

TemporaryPasswordRequested(w, s, u, password) ==
    /\ Exists(u)
    /\ Admit(w, s, "users.update", None,
             [op |-> "set_temporary", user |-> u, password |-> password])

SetTemporaryPassword(w) ==
    /\ request[w].op = "set_temporary"
    /\ users' = [users EXCEPT ![request[w].user].password = request[w].password,
                              ![request[w].user].mustChange = TRUE]
    /\ Become(w, [op |-> "revoke_sessions", user |-> request[w].user,
                  why |-> "temporary_password_set"])
    /\ UNCHANGED <<roles, assignments, sessions>>

-------------------------------------------------------------------------------
(* RolesService *)

RoleRequested(w, s, r) == Admit(w, s, "roles.manage", None, r)

CreateRoleRequested(w, s, role) ==
    RoleRequested(w, s, [op |-> "create_role", user |-> None, role |-> role])

CreateRole(w) ==
    /\ request[w].op = "create_role"
    /\ roles' = IF roles[request[w].role] # None THEN roles
                ELSE [roles EXCEPT ![request[w].role] =
                        [system |-> FALSE, status |-> "active",
                         permissions |-> {}, synced |-> 0]]
    /\ Finish(w)
    /\ UNCHANGED <<users, assignments, sessions>>

RoleStatusRequested(w, s, role, status) ==
    /\ roles[role] # None
    /\ RoleRequested(w, s, [op |-> "role_status", user |-> None, role |-> role,
                            status |-> status])

\* is_system_role never changes, so its check and the update are one step.
UpdateRoleStatus(w) ==
    /\ request[w].op = "role_status"
    /\ LET r == request[w] IN
       roles' = IF roles[r.role].system /\ r.status # "active" THEN roles
                ELSE [roles EXCEPT ![r.role].status = r.status]
    /\ Finish(w)
    /\ UNCHANGED <<users, assignments, sessions>>

\* The DELETE of syncPermissions finds the rows committed when it begins, ...
SyncPermissionsDeletes(w, s, role, set) ==
    /\ roles[role] # None
    /\ RoleRequested(w, s, [op |-> "sync", user |-> None, role |-> role,
                            permissions |-> set, saw |-> roles[role].synced])

\* ... so rows another request inserted since then survive it, and the primary
\* key refuses a permission among them.
SyncPermissionsInserts(w) ==
    /\ request[w].op = "sync"
    /\ LET r == request[w]
           left == IF roles[r.role].synced = r.saw THEN {}
                   ELSE roles[r.role].permissions
       IN  roles' = IF left \intersect r.permissions # {} THEN roles
                    ELSE [roles EXCEPT ![r.role].permissions = left \union r.permissions,
                                       ![r.role].synced = @ + 1]
    /\ Finish(w)
    /\ UNCHANGED <<users, assignments, sessions>>

-------------------------------------------------------------------------------
(* RoleAssignmentsService *)

\* A dated assignment may also never expire in a behaviour, so only these are
\* requested.
AssignmentRequested(w, s, u, role, station) ==
    Admit(w, s, "roles.manage", station,
          [op |-> "validate", user |-> u, role |-> role, station |-> station,
           by |-> sessions[s].user])

\* validateAssignable: the account, the role and the authority of the actor.
ValidateAssignable(w) ==
    /\ request[w].op = "validate"
    /\ LET r == request[w] IN
       IF /\ Exists(r.user) /\ users[r.user].status = "active"
          /\ roles[r.role] # None /\ roles[r.role].status = "active"
          /\ HasPermission(r.by, "roles.manage", r.station)
          /\ CanGrantRole(r.by, r.role, r.station)
       THEN Become(w, [r EXCEPT !.op = "assign"])
       ELSE Finish(w)
    /\ UNCHANGED tables

Equivalent(a, r) ==
    /\ assignments[a].user = r.user
    /\ assignments[a].role = r.role
    /\ assignments[a].station = r.station

\* The transaction looks for an equivalent assignment that is current; the
\* unique indexes refuse one that is merely not revoked.
InsertAssignment(w) ==
    /\ request[w].op = "assign"
    /\ LET r == request[w] IN
       assignments' =
          IF \E a \in DOMAIN assignments :
                Equivalent(a, r) /\ (Current(a) \/ ~assignments[a].revoked)
          THEN assignments
          ELSE Append(assignments,
                 [user |-> r.user, role |-> r.role, station |-> r.station,
                  life |-> "dated", revoked |-> FALSE])
    /\ Finish(w)
    /\ UNCHANGED <<users, roles, sessions>>

RevocationRequested(w, s, a) ==
    Admit(w, s, "roles.manage", None,
          [op |-> "check_revocation", user |-> assignments[a].user,
           assignment |-> a])

CheckRevocation(w) ==
    /\ request[w].op = "check_revocation"
    /\ LET r == request[w] IN
       IF IsLastSuperAdminAssignment(r.assignment)
       THEN Finish(w)
       ELSE Become(w, [op |-> "revoke_assignment", user |-> r.user,
                       assignment |-> r.assignment,
                       saw |-> GlobalSuperAdmins])
    /\ UNCHANGED tables

RevokeAssignment(w) ==
    /\ request[w].op = "revoke_assignment"
    /\ assignments' = [assignments EXCEPT ![request[w].assignment].revoked = TRUE]
    /\ Finish(w)
    /\ UNCHANGED <<users, roles, sessions>>

-------------------------------------------------------------------------------

Callers(w) == {t \in DOMAIN sessions : Free(w) /\ JwtAuthGuard(t, "administration")}

UserStarts(w) ==
    \E s \in Callers(w), u \in Users :
        \/ /\ "passwords" \in families
           /\ \E p \in Passwords :
                 CreateUserRequested(w, s, u, p) \/ TemporaryPasswordRequested(w, s, u, p)
        \/ \E status \in Statuses : UserStatusRequested(w, s, u, status)

RoleStarts(w) ==
    \E s \in Callers(w) :
       \/ \E u \in Users, role \in Roles, station \in Stations \union {None} :
             AssignmentRequested(w, s, u, role, station)
       \/ \E role \in Roles :
             \/ CreateRoleRequested(w, s, role)
             \/ \E status \in {"active", "inactive"} :
                   RoleStatusRequested(w, s, role, status)
             \/ \E set \in PermissionSets : SyncPermissionsDeletes(w, s, role, set)
       \/ \E a \in DOMAIN assignments : RevocationRequested(w, s, a)

AdministrationSteps(w) ==
    \/ CreateUser(w) \/ CheckUserStatus(w) \/ SetUserStatus(w)
    \/ SetTemporaryPassword(w) \/ CreateRole(w) \/ UpdateRoleStatus(w)
    \/ SyncPermissionsInserts(w) \/ ValidateAssignable(w)
    \/ InsertAssignment(w) \/ CheckRevocation(w) \/ RevokeAssignment(w)
================================================================================
