---------------------------- MODULE AccountTables ------------------------------
(***************************************************************************)
(* The rows that say who may do what (users, roles, role_permissions,       *)
(* user_role_assignments, auth_sessions) and the queries of                 *)
(* src/src/apps/access-control that read them.  Several requests are in     *)
(* flight at once; request[w] is what worker w has read and does next.      *)
(***************************************************************************)
EXTENDS Naturals, Sequences, FiniteSets

CONSTANTS
    Users,          \* identities; a user row may not exist yet
    Stations,
    Roles,          \* role codes, SuperAdmin among them
    Permissions,    \* permission codes
    PermissionSets, \* the sets clients ask a role to be given
    Statuses,       \* user statuses, "active" among them
    Passwords,
    Workers,        \* HTTP requests a server can have in flight
    MaxAttempts,    \* security.authMaxFailedAttempts
    MaxEvents,      \* bound: requests and clock events in a behaviour
    None

SuperAdmin == "super_admin"

\* allowsDeferredStationScope: the codes whose station is checked by the service
\* when the request names none.
Deferred ==
    {"stations.read", "stations.update", "stations.deactivate",
     "devices.read", "devices.update", "devices.configure", "devices.restart",
     "devices.disable", "device_commands.read", "device_commands.create",
     "device_commands.cancel", "device_credentials.read", "device_credentials.create",
     "device_credentials.rotate", "device_credentials.revoke",
     "device_credentials.force_revoke", "device_events.read",
     "device_telemetry.read", "lockers.read", "lockers.configure",
     "charging_ports.read", "charging_ports.configure", "payments.read",
     "payments.refund"}

ASSUME AccountConstants ==
    /\ SuperAdmin \in Roles
    /\ "active" \in Statuses
    /\ Deferred \subseteq Permissions
    /\ PermissionSets \subseteq SUBSET Permissions
    /\ None \notin Users \union Stations \union Roles
    /\ \A scope \in SUBSET Stations : None # scope
    /\ MaxAttempts \in Nat \ {0}
    /\ MaxEvents \in Nat

VARIABLES
    users,        \* users row of each identity, or None
    roles,        \* roles row with its role_permissions, or None
    assignments,  \* user_role_assignments, in order of insertion
    sessions,     \* auth_sessions, in order of insertion
    request,      \* what each in-flight request read and does next
    families,     \* bound: the families of requests there are in a behaviour
    disturbed,    \* auxiliary: users two requests were about at one time, or
                  \* about whom a request died half-way
    events        \* auxiliary: requests and clock events so far

tables == <<users, roles, assignments, sessions>>
vars   == <<tables, request, families, disturbed, events>>

Life == {"open", "dated", "expired"}   \* expires_at: null, ahead, behind
Live == "live"                         \* auth_sessions.revoked_at is null
Reasons == {"rotated", "refresh_reuse_detected", "logout", "logout_all",
            "user_revoked", "password_changed", "temporary_password_set",
            "user_restricted"}

Idle == [op |-> "idle", user |-> None]

UserRow == [status : Statuses, failed : Nat, locked : BOOLEAN,
            password : Passwords, mustChange : BOOLEAN]
RoleRow == [system : BOOLEAN, status : {"active", "inactive"},
            permissions : SUBSET Permissions, synced : Nat]
AssignmentRow == [user : Users, role : Roles, station : Stations \union {None},
                  life : Life, revoked : BOOLEAN]
Ledger == INSTANCE SessionLedger

\* A seeded database: the system role holds every permission and a super admin
\* is assigned it globally (prisma/seed-core.ts); what other rows there are is
\* the MC module's choice of `extra`.
Seeded(root, password, extra) ==
    /\ users = [u \in Users |->
          IF u = root
          THEN [status |-> "active", failed |-> 0, locked |-> FALSE,
                password |-> password, mustChange |-> FALSE]
          ELSE extra.users[u]]
    /\ roles = [r \in Roles |->
          IF r = SuperAdmin
          THEN [system |-> TRUE, status |-> "active",
                permissions |-> Permissions, synced |-> 0]
          ELSE extra.roles[r]]
    /\ assignments = <<[user |-> root, role |-> SuperAdmin, station |-> None,
                        life |-> "open", revoked |-> FALSE]>> \o extra.assignments
    /\ sessions = extra.sessions
    /\ families = extra.families

-------------------------------------------------------------------------------
(* PermissionService *)

Exists(u)     == users[u] # None
Current(a)    == ~assignments[a].revoked /\ assignments[a].life # "expired"
InForce(a)    == /\ Current(a)
                 /\ users[assignments[a].user].status = "active"
                 /\ roles[assignments[a].role].status = "active"
Gives(a, c)   == c \in roles[assignments[a].role].permissions
StationIn(a, stations) == assignments[a].station \in stations

\* Assignments in force for a user at a station, or globally.
ActiveAssignmentScopeIgnoringExpiry(u, station) ==
    {a \in DOMAIN assignments :
        /\ assignments[a].user = u
        /\ ~assignments[a].revoked
        /\ users[u].status = "active"
        /\ roles[assignments[a].role].status = "active"
        /\ StationIn(a, {None, station})}
ActiveAssignmentScope(u, station) ==
    {a \in DOMAIN assignments :
        assignments[a].user = u /\ InForce(a) /\ StationIn(a, {None, station})}

HasPermission(u, c, station) ==
    \E a \in ActiveAssignmentScope(u, station) : Gives(a, c)

HasAnyScopePermission(u, c) ==
    \E a \in DOMAIN assignments :
        assignments[a].user = u /\ InForce(a) /\ Gives(a, c)

PermissionCodes(u, station) ==
    UNION {roles[assignments[a].role].permissions :
              a \in ActiveAssignmentScope(u, station)}

CanGrantRole(u, role, station) ==
    roles[role].permissions \subseteq PermissionCodes(u, station)

GlobalSuperAdmins ==
    {a \in DOMAIN assignments :
        InForce(a) /\ assignments[a].role = SuperAdmin /\ StationIn(a, {None})}

HeldBy(u) == {a \in GlobalSuperAdmins : assignments[a].user = u}

IsLastSuperAdminUser(u) ==
    /\ HeldBy(u) # {}
    /\ Cardinality(GlobalSuperAdmins) <= Cardinality(HeldBy(u))

\* The assignment itself is not asked whether it has expired.
IsLastSuperAdminAssignment(a) ==
    /\ assignments[a].role = SuperAdmin
    /\ StationIn(a, {None})
    /\ ~assignments[a].revoked
    /\ users[assignments[a].user].status = "active"
    /\ Cardinality(GlobalSuperAdmins) <= 1

-------------------------------------------------------------------------------
(* StationScopeService: the stations a service limits its rows to. *)

\* None is the code's null: no limit.
AuthorizedStationIds(u, c) ==
    LET scope == {assignments[a].station : a \in {b \in DOMAIN assignments :
                    assignments[b].user = u /\ InForce(b) /\ Gives(b, c)}}
    IN  IF None \in scope THEN None ELSE scope

RequireGlobal(u, c) == AuthorizedStationIds(u, c) = None

RequireStation(u, c, station) ==
    LET ids == AuthorizedStationIds(u, c)
    IN  ids = None \/ station \in ids

-------------------------------------------------------------------------------
(* The guards every administrative request passes first. *)

\* JwtAccessStrategy.validate: the session and its user, read from the database.
SessionAuthenticates(s) ==
    /\ Ledger!IsLive(s) /\ ~sessions[s].expired
    /\ users[sessions[s].user].status = "active"
    /\ ~users[sessions[s].user].locked

\* JwtAuthGuard: what a user who must change the password may still ask for.
JwtAuthGuard(s, path) ==
    /\ SessionAuthenticates(s)
    /\ users[sessions[s].user].mustChange => path \in {"change-password"}

PermissionsGuard(u, c, station) ==
    \/ HasPermission(u, c, station)
    \/ station = None /\ c \in Deferred /\ HasAnyScopePermission(u, c)

-------------------------------------------------------------------------------
(* Requests.  A request names the account it is about as its user. *)

Occurs  == events < MaxEvents /\ events' = events + 1 /\ UNCHANGED families
Free(w) == request[w] = Idle /\ events < MaxEvents

Start(w, r) ==
    /\ Free(w)
    /\ Occurs
    /\ request' = [request EXCEPT ![w] = r]
    /\ disturbed' = disturbed \union
          {u \in {r.user} \ {None} : \E v \in Workers : request[v].user = u}
    /\ UNCHANGED tables

Become(w, r) ==
    request' = [request EXCEPT ![w] = r] /\ UNCHANGED <<families, disturbed, events>>
Finish(w) == Become(w, Idle)

\* revokeUserSessions, revokeFamily, revokeSession, revokeOwnSession: one UPDATE
\* over the rows not yet revoked.
RevokeSessions(set, why) ==
    sessions' = [s \in DOMAIN sessions |->
        IF s \in set /\ Ledger!IsLive(s)
        THEN [sessions[s] EXCEPT !.revoked = why] ELSE sessions[s]]
SessionsOf(u)   == {s \in DOMAIN sessions : sessions[s].user = u}
FamilyOf(s)     == {t \in DOMAIN sessions : sessions[t].family = sessions[s].family}

\* The last statement of every restriction of an account.
RevokeUserSessions(w) ==
    /\ request[w].op = "revoke_sessions"
    /\ RevokeSessions(SessionsOf(request[w].user), request[w].why)
    /\ Finish(w)
    /\ UNCHANGED <<users, roles, assignments>>

\* A process stops half-way through a request; what it committed stays.
RequestDies(w) ==
    /\ request[w] # Idle
    /\ request' = [request EXCEPT ![w] = Idle]
    /\ disturbed' = disturbed \union ({request[w].user} \ {None})
    /\ UNCHANGED <<tables, families, events>>

-------------------------------------------------------------------------------
(* The clock. *)

LockEnds(u) ==
    /\ Exists(u) /\ users[u].locked
    /\ Occurs
    /\ users' = [users EXCEPT ![u].locked = FALSE]
    /\ UNCHANGED <<roles, assignments, sessions, request, disturbed>>

SessionExpires(s) ==
    /\ ~sessions[s].expired
    /\ Occurs
    /\ sessions' = [sessions EXCEPT ![s].expired = TRUE]
    /\ UNCHANGED <<users, roles, assignments, request, disturbed>>

AssignmentExpires(a) ==
    /\ assignments[a].life = "dated"
    /\ Occurs
    /\ assignments' = [assignments EXCEPT ![a].life = "expired"]
    /\ UNCHANGED <<users, roles, sessions, request, disturbed>>
================================================================================
