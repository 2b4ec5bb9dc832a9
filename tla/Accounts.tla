------------------------------- MODULE Accounts --------------------------------
(***************************************************************************)
(* Accounts as a whole: the requests of AuthService and the administrative  *)
(* ones interleave on the same rows while the clock runs.  Which rows exist *)
(* beside the seeded ones is the model's choice.                            *)
(***************************************************************************)
EXTENDS AuthService, AccountAdministration, AdminRoutes

CONSTANTS
    Root, RootPassword, \* the seeded super admin
    Extras              \* the rows there may be beside the seeded ones

ASSUME InitialRows ==
    /\ Root \in Users /\ RootPassword \in Passwords
    /\ None \notin UserRow \union RoleRow
    /\ \A extra \in Extras :
          /\ \A u \in Users \ {Root} : extra.users[u] \in UserRow \union {None}
          /\ \A r \in Roles \ {SuperAdmin} : extra.roles[r] \in RoleRow \union {None}
          /\ extra.assignments \in Seq(AssignmentRow)
          /\ extra.sessions \in Seq(Ledger!Row)
          /\ \A u \in Users \ {Root} : extra.users[u] # None => ~extra.users[u].locked
          /\ \A s \in DOMAIN extra.sessions :
                /\ extra.sessions[s].family = s /\ extra.sessions[s].from = 0
                /\ extra.sessions[s].revoked = Live
                /\ LET u == extra.sessions[s].user IN
                   IF u = Root THEN extra.sessions[s].opened = RootPassword
                   ELSE /\ extra.users[u] # None /\ extra.users[u].status = "active"
                        /\ extra.sessions[s].opened = extra.users[u].password

Init ==
    /\ \E extra \in Extras : Seeded(Root, RootPassword, extra)
    /\ request = [w \in Workers |-> Idle]
    /\ disturbed = {}
    /\ events = 0

Clock ==
    \/ \E u \in Users : LockEnds(u)
    \/ \E s \in DOMAIN sessions : SessionExpires(s)
    \/ \E a \in DOMAIN assignments : AssignmentExpires(a)

Next ==
    \/ \E w \in Workers :
          \/ "auth" \in families /\ AuthStarts(w)
          \/ "users" \in families /\ UserStarts(w)
          \/ "roles" \in families /\ RoleStarts(w)
          \/ AuthSteps(w) \/ AdministrationSteps(w)
          \/ RevokeUserSessions(w)
          \/ RequestDies(w)
    \/ Clock

Spec == Init /\ [][Next]_vars

-------------------------------------------------------------------------------
(* Properties *)

Requests ==
    {Idle}
    \union [op : {"login", "login_failed", "open_session", "set_password",
                  "create_user", "set_temporary"},
            user : Users, password : Passwords]
    \union [op : {"lock"}, user : Users]
    \union [op : {"rotate", "reuse", "logout", "revoke_own"},
            user : Users, session : DOMAIN sessions]
    \union [op : {"revoke_sessions"}, user : Users, why : Reasons]
    \union [op : {"check_status"}, user : Users, status : Statuses, by : Users]
    \union [op : {"set_status"}, user : Users, status : Statuses,
            saw : SUBSET DOMAIN assignments]
    \union [op : {"create_role"}, user : {None}, role : Roles]
    \union [op : {"role_status"}, user : {None}, role : Roles,
            status : {"active", "inactive"}]
    \union [op : {"sync"}, user : {None}, role : Roles,
            permissions : SUBSET Permissions, saw : Nat]
    \union [op : {"validate", "assign"}, user : Users, role : Roles,
            station : Stations \union {None}, by : Users]
    \union [op : {"check_revocation"}, user : Users, assignment : DOMAIN assignments]
    \union [op : {"revoke_assignment"}, user : Users,
            assignment : DOMAIN assignments, saw : SUBSET DOMAIN assignments]

\* Every row and every request in flight is one the code can have written.
TypeOK ==
    /\ users \in [Users -> UserRow \union {None}]
    /\ roles \in [Roles -> RoleRow \union {None}]
    /\ \A a \in DOMAIN assignments : assignments[a] \in AssignmentRow
    /\ \A s \in DOMAIN sessions : sessions[s] \in Ledger!Row
    /\ request \in [Workers -> Requests]
    /\ disturbed \subseteq Users
    /\ events \in 0..MaxEvents

Children(s) == {t \in DOMAIN sessions : sessions[t].from = s}
LiveOf(u)   == {s \in SessionsOf(u) : Ledger!IsLive(s)}

\* A family holds two live sessions only where two refreshes with one token
\* both passed the unlocked check of rotateSession: some row of the family was
\* rotated twice.
ForkNeedsDoubleRotation ==
    \A s, t \in DOMAIN sessions :
        /\ s # t /\ Ledger!IsLive(s) /\ Ledger!IsLive(t)
        /\ sessions[s].family = sessions[t].family
        => \E p \in FamilyOf(s) : Cardinality(Children(p)) > 1

AtRest == \A w \in Workers : request[w] = Idle

Quiet(u) ==
    /\ Exists(u) /\ u \notin disturbed
    /\ \A w \in Workers : request[w].user # u

\* Restricting an account ends its sessions (updateStatus updates the user, then
\* revokes), unless a request about the account was in flight or died half-way.
RestrictedAccountsHaveNoSession ==
    \A u \in Users :
        Quiet(u) /\ users[u].status # "active" => LiveOf(u) = {}

\* A session opened with a password that is no longer the account's is gone,
\* whether the owner or an administrator replaced it: same proviso.
SessionsKnowThePassword ==
    \A u \in Users : Quiet(u) =>
        \A s \in LiveOf(u) : sessions[s].opened = users[u].password

\* A locked account has had its failed logins counted: the successful login that
\* resets the count lifts the lock with it.  Same proviso.
LockHasItsCount ==
    \A u \in Users : Quiet(u) /\ users[u].locked => users[u].failed >= MaxAttempts

\* The queries that decide on one permission agree: PermissionService on a
\* station and globally, StationScopeService, and the codes a grant is checked
\* against; and the guard that lets a scoped user pass without a station lets
\* through exactly those for whom the service will find a station.
AuthorityQueriesAgree ==
    AtRest => \A u \in {v \in Users : Exists(v)} :
        /\ \A c \in Permissions :
              /\ RequireGlobal(u, c) <=> HasPermission(u, c, None)
              /\ c \in Deferred =>
                   (PermissionsGuard(u, c, None) <=> AuthorizedStationIds(u, c) # {})
              /\ \A st \in Stations :
                   RequireStation(u, c, st) <=> HasPermission(u, c, st)
        /\ \A st \in Stations :
              LET codes == PermissionCodes(u, st)
              IN  \A c \in Permissions : c \in codes <=> HasPermission(u, c, st)

\* The stations at which a request of the route needs its permissions; None is
\* everywhere.
Concerned(route, asked, at) ==
    CASE route.check.over \in {"anything", "all"} -> {asked.guard}
      [] route.check.over = "global" -> {None}
      [] route.check.over = "list" -> IF asked.service = None THEN {at} ELSE {asked.guard}
      [] route.check.over = "row"  -> {at}
      [] route.check.over = "new"  -> {asked.service}
      [] route.check.over = "move" -> {at, asked.service}

\* What guard and service come to on every administrative route, whichever role,
\* station or expiry it rests on.  The services of stations, devices, lockers,
\* ports, credentials, commands, reports and payments serve a request, or show a
\* row, where the user holds every permission the route asks for, and nowhere
\* else, although the guard lets a user without a global role pass to a service
\* that checks.  A list whose filter names a station has that in place of the
\* user's own: then the permission is needed where the guard was told, and nobody
\* looks at the filter.  Nor do the services of users, roles, role assignments and
\* audit logs check: there the permission is needed everywhere, or only at the
\* station the guard was told, whatever row the request is about.  On the other
\* routes a station that is named without need narrows what is served, for the
\* guard then asks for the permission there as well.
RoutesServeWhatIsPermitted ==
    AtRest => \A u \in {v \in Users : Exists(v)}, r \in Routes, at \in Stations :
        \A asked \in Asked(r) :
            Served(u, r, asked, at) <=>
                /\ r.check.over \in {"list", "all"} => asked.service \in {None, at}
                /\ asked.guard # None => HasPermission(u, r.guard.code, asked.guard)
                /\ \A c \in r.check.codes \union {r.guard.code} :
                      \A station \in Concerned(r, asked, at) : HasPermission(u, c, station)

\* The last global super admin is lost to the clock, or to a request whose
\* check, made before its transaction, saw another one that has gone since, or
\* was made when there was none at all: no path of users or access-control
\* removes it knowingly.
LastSuperAdminIsLostToARace ==
    [][ GlobalSuperAdmins # {} /\ GlobalSuperAdmins' = {}
        => \/ \E a \in GlobalSuperAdmins : assignments'[a].life = "expired"
           \/ \E w \in Workers :
                 /\ request[w].op \in {"set_status", "revoke_assignment"}
                 /\ \/ request[w].saw = {}
                    \/ \E a \in request[w].saw : a \notin GlobalSuperAdmins ]_vars

\* Every request of auth and users, in any interleaving, treats auth_sessions
\* as SessionLedger says: rows are opened, replaced, revoked and expire.
ImplementsSessionLedger == Ledger!Spec
================================================================================
