---------------------------- MODULE AuthorityProofs -----------------------------
(***************************************************************************)
(* Who may do what: the queries, the guard and the services agree on it,    *)
(* and how the last global super admin can be lost.  Proofs about Accounts, *)
(* for any users, roles, assignments and requests in flight.                *)
(***************************************************************************)
EXTENDS AccountsProofs

-------------------------------------------------------------------------------
(* The queries agree *)

Places == Stations \union {None}

\* The assignments in force by which u holds c, and where.
Holding(u, c) == {a \in DOMAIN assignments : assignments[a].user = u /\ InForce(a) /\ Gives(a, c)}

LEMMA HeldWhere ==
    ASSUME NEW u, NEW c, NEW station
    PROVE  /\ HasPermission(u, c, station)
              <=> \E a \in Holding(u, c) : StationIn(a, {None, station})
           /\ c \in PermissionCodes(u, station)
              <=> \E a \in Holding(u, c) : StationIn(a, {None, station})
           /\ HasAnyScopePermission(u, c) <=> Holding(u, c) # {}
<1>1. c \in PermissionCodes(u, station)
      <=> \E a \in ActiveAssignmentScope(u, station) : Gives(a, c)
  BY DEF PermissionCodes, Gives
<1>. QED
  BY <1>1 DEF HasPermission, HasAnyScopePermission, ActiveAssignmentScope, Holding

\* The stations a service limits itself to are those where the user holds the
\* permission; null, and only null, is everywhere.
LEMMA ScopeOf ==
    ASSUME Sound, NEW u, NEW c
    PROVE  /\ RequireGlobal(u, c) <=> \E a \in Holding(u, c) : assignments[a].station = None
           /\ AuthorizedStationIds(u, c) # {} <=> Holding(u, c) # {}
           /\ \A station \in Stations :
                 RequireStation(u, c, station)
                 <=> \E a \in Holding(u, c) : StationIn(a, {None, station})
<1> DEFINE scope == {assignments[a].station : a \in Holding(u, c)}
<1>1. AuthorizedStationIds(u, c) = IF None \in scope THEN None ELSE scope
  BY DEF AuthorizedStationIds, Holding
<1>2. scope \subseteq Places
  BY RowsHold DEF Sound, Holding, AssignmentRow, Places
<1>3. None \notin SUBSET Stations /\ None \notin Stations
  BY AccountConstants
<1>4. None \notin scope => scope \in SUBSET Stations
  BY <1>2 DEF Places
<1>5. None \notin scope => scope # None
  BY <1>3, <1>4
<1>6. None # {}
  BY <1>3
<1>7. scope # {} <=> Holding(u, c) # {}
  OBVIOUS
<1>8. None \in scope <=> \E a \in Holding(u, c) : assignments[a].station = None
  OBVIOUS
<1>9. ASSUME NEW station \in Stations
      PROVE  None \in scope \/ station \in scope
             <=> \E a \in Holding(u, c) : StationIn(a, {None, station})
  BY DEF StationIn
<1> HIDE DEF scope
<1>10. RequireGlobal(u, c) <=> None \in scope
  BY <1>1, <1>5 DEF RequireGlobal
<1>11. AuthorizedStationIds(u, c) # {} <=> scope # {}
  BY <1>1, <1>6
<1>12. ASSUME NEW station \in Stations
       PROVE  RequireStation(u, c, station) <=> None \in scope \/ station \in scope
  BY <1>1, <1>5 DEF RequireStation
<1>. QED
  BY <1>7, <1>8, <1>9, <1>10, <1>11, <1>12

LEMMA QueriesAgree ==
    ASSUME Sound PROVE AuthorityQueriesAgree
<1> SUFFICES ASSUME NEW u \in Users PROVE
      /\ \A c \in Permissions :
            /\ RequireGlobal(u, c) <=> HasPermission(u, c, None)
            /\ c \in Deferred =>
                 (PermissionsGuard(u, c, None) <=> AuthorizedStationIds(u, c) # {})
            /\ \A st \in Stations :
                 RequireStation(u, c, st) <=> HasPermission(u, c, st)
      /\ \A st \in Stations :
            LET codes == PermissionCodes(u, st)
            IN  \A c \in Permissions : c \in codes <=> HasPermission(u, c, st)
  BY DEF AuthorityQueriesAgree
<1>4. ASSUME NEW st \in Stations, NEW c \in Permissions
      PROVE  c \in PermissionCodes(u, st) <=> HasPermission(u, c, st)
  BY HeldWhere
<1> SUFFICES ASSUME NEW c \in Permissions
             PROVE  /\ RequireGlobal(u, c) <=> HasPermission(u, c, None)
                    /\ c \in Deferred =>
                         (PermissionsGuard(u, c, None) <=> AuthorizedStationIds(u, c) # {})
                    /\ \A st \in Stations :
                         RequireStation(u, c, st) <=> HasPermission(u, c, st)
  BY <1>4
<1>1. RequireGlobal(u, c) <=> HasPermission(u, c, None)
  BY ScopeOf, HeldWhere DEF StationIn
<1>2. HasPermission(u, c, None) => HasAnyScopePermission(u, c)
  BY HeldWhere
<1>3. c \in Deferred => (PermissionsGuard(u, c, None) <=> AuthorizedStationIds(u, c) # {})
  BY <1>2, ScopeOf, HeldWhere DEF PermissionsGuard
<1>. QED
  BY <1>1, <1>3, ScopeOf, HeldWhere

-------------------------------------------------------------------------------
(* Every route is served where its permissions are held *)

\* How a route's guard and its service go together.
Matched(route) ==
    LET code   == route.guard.code
        codes  == route.check.codes
        passes == route.guard.passes
    IN  CASE route.check.over = "anything" ->
               codes = {} /\ code \notin Deferred /\ passes = {"nothing"}
          [] route.check.over = "all"    -> codes = {} /\ code \notin Deferred
          [] route.check.over = "global" ->
               codes = {code} /\ code \notin Deferred /\ passes = {"nothing"}
          [] route.check.over = "list"   -> codes = {code} /\ code \in Deferred
          [] route.check.over = "row"    ->
               code \in codes /\ code \in Deferred /\ passes = {"nothing"}
          [] route.check.over = "new"    -> codes = {code} /\ passes = {"station"}
          [] route.check.over = "move"   -> codes = {code} /\ passes = {"station"}

Kinds == {"anything", "all", "global", "list", "row", "new", "move"}

Ways  == {"nothing", "filter", "station"}
InOneWay(route) == route.check.over \in Kinds /\ route.guard.passes \subseteq Ways /\ Matched(route)

Suits(guard, check) == InOneWay([guard |-> guard, check |-> check])

\* The ways a decorator and a service are combined.
LEMMA WaysToSuit ==
    /\ \A c \in Deferred :
          /\ Suits(Plain(c), Lists(c)) /\ Suits(Filter(c), Lists(c))
          /\ Suits(Names(c), Lists(c)) /\ Suits(Plain(c), AtStation(c))
          /\ \A more : Suits(Plain(c), Also(AtStation(c), more))
    /\ \A c : c \notin Deferred =>
          /\ Suits(Plain(c), Globally(c)) /\ Suits(Filter(c), ListsAll)
          /\ Suits(Plain(c), Unscoped)
    /\ \A c : Suits(Names(c), AtNamed(c)) /\ Suits(Names(c), AtBoth(c))
<1>1. ASSUME NEW c \in Deferred
      PROVE  /\ Suits(Plain(c), Lists(c)) /\ Suits(Filter(c), Lists(c))
             /\ Suits(Names(c), Lists(c)) /\ Suits(Plain(c), AtStation(c))
  BY DEF Suits, InOneWay, Matched, Kinds, Ways, Plain, Filter, Names, Lists, AtStation
<1>2. ASSUME NEW c \in Deferred, NEW more
      PROVE  Suits(Plain(c), Also(AtStation(c), more))
  BY DEF Suits, InOneWay, Matched, Kinds, Ways, Plain, AtStation, Also
<1>3. ASSUME NEW c, c \notin Deferred
      PROVE  /\ Suits(Plain(c), Globally(c)) /\ Suits(Filter(c), ListsAll)
             /\ Suits(Plain(c), Unscoped)
  BY <1>3 DEF Suits, InOneWay, Matched, Kinds, Ways, Plain, Filter, Globally, ListsAll, Unscoped
<1>4. ASSUME NEW c PROVE Suits(Names(c), AtNamed(c)) /\ Suits(Names(c), AtBoth(c))
  BY DEF Suits, InOneWay, Matched, Kinds, Ways, Names, AtNamed, AtBoth
<1>. QED
  BY <1>1, <1>2, <1>3, <1>4

\* Every route of a set suits.
Fit(set) == \A r \in set : InOneWay(r)

LEMMA BehindFit ==
    ASSUME NEW controller, NEW service,
           \A h \in DOMAIN service : Suits(controller[h], service[h])
    PROVE  Fit(Behind(controller, service))
BY DEF Behind, Fit, Suits

LEMMA AloneFit ==
    ASSUME NEW controller, NEW handlers,
           \A h \in handlers : Suits(controller[h], Unscoped)
    PROVE  Fit(Alone(controller, handlers))
BY DEF Alone, Fit, Suits

LEMMA AllMatched == Fit(Routes)
<1>1. Fit(Behind(StationsController, StationsService))
  <2>1. \A h \in DOMAIN StationsService : Suits(StationsController[h], StationsService[h])
    BY WaysToSuit DEF Deferred, StationsController, StationsService
  <2>. QED
    BY <2>1, BehindFit
<1>2. Fit(Behind(DevicesController, DeviceReads))
  <2>1. \A h \in DOMAIN DeviceReads : Suits(DevicesController[h], DeviceReads[h])
    BY WaysToSuit DEF Deferred, DevicesController, DeviceReads
  <2>. QED
    BY <2>1, BehindFit
<1>3. Fit(Behind(DevicesController, DeviceWrites))
  <2>1. \A h \in DOMAIN DeviceWrites : Suits(DevicesController[h], DeviceWrites[h])
    BY WaysToSuit DEF Deferred, DevicesController, DeviceWrites
  <2>. QED
    BY <2>1, BehindFit
<1>4. Fit(Behind(DevicesController, DeviceLifecycleWrites))
  <2>1. \A h \in DOMAIN DeviceLifecycleWrites : Suits(DevicesController[h], DeviceLifecycleWrites[h])
    BY WaysToSuit DEF Deferred, DevicesController, DeviceLifecycleWrites
  <2>. QED
    BY <2>1, BehindFit
<1>5. Fit(Behind(LockersController, LockerReads))
  <2>1. \A h \in DOMAIN LockerReads : Suits(LockersController[h], LockerReads[h])
    BY WaysToSuit DEF Deferred, LockersController, LockerReads
  <2>. QED
    BY <2>1, BehindFit
<1>6. Fit(Behind(LockersController, LockerWrites))
  <2>1. \A h \in DOMAIN LockerWrites : Suits(LockersController[h], LockerWrites[h])
    BY WaysToSuit DEF Deferred, LockersController, LockerWrites
  <2>. QED
    BY <2>1, BehindFit
<1>7. Fit(Behind(ChargingPortsController, ChargingPortReads))
  <2>1. \A h \in DOMAIN ChargingPortReads : Suits(ChargingPortsController[h], ChargingPortReads[h])
    BY WaysToSuit DEF Deferred, ChargingPortsController, ChargingPortReads
  <2>. QED
    BY <2>1, BehindFit
<1>8. Fit(Behind(ChargingPortsController, ChargingPortWrites))
  <2>1. \A h \in DOMAIN ChargingPortWrites : Suits(ChargingPortsController[h], ChargingPortWrites[h])
    BY WaysToSuit DEF Deferred, ChargingPortsController, ChargingPortWrites
  <2>. QED
    BY <2>1, BehindFit
<1>9. Fit(Behind(DeviceCredentialsController, CredentialReads))
  <2>1. \A h \in DOMAIN CredentialReads : Suits(DeviceCredentialsController[h], CredentialReads[h])
    BY WaysToSuit DEF Deferred, DeviceCredentialsController, CredentialReads
  <2>. QED
    BY <2>1, BehindFit
<1>10. Fit(Behind(DeviceCredentialsController, CredentialWrites))
  <2>1. \A h \in DOMAIN CredentialWrites : Suits(DeviceCredentialsController[h], CredentialWrites[h])
    BY WaysToSuit DEF Deferred, DeviceCredentialsController, CredentialWrites
  <2>. QED
    BY <2>1, BehindFit
<1>11. Fit(Behind(DeviceIngestionController, DeviceEventReads))
  <2>1. \A h \in DOMAIN DeviceEventReads : Suits(DeviceIngestionController[h], DeviceEventReads[h])
    BY WaysToSuit DEF Deferred, DeviceIngestionController, DeviceEventReads
  <2>. QED
    BY <2>1, BehindFit
<1>12. Fit(Behind(DeviceIngestionController, DeviceTelemetryReads))
  <2>1. \A h \in DOMAIN DeviceTelemetryReads : Suits(DeviceIngestionController[h], DeviceTelemetryReads[h])
    BY WaysToSuit DEF Deferred, DeviceIngestionController, DeviceTelemetryReads
  <2>. QED
    BY <2>1, BehindFit
<1>13. Fit(Behind(DeviceCommandsController, CommandLists))
  <2>1. \A h \in DOMAIN CommandLists : Suits(DeviceCommandsController[h], CommandLists[h])
    BY WaysToSuit DEF Deferred, DeviceCommandsController, CommandLists
  <2>. QED
    BY <2>1, BehindFit
<1>14. Fit(Behind(DeviceCommandsController, DeviceCommandsService))
  <2>1. \A h \in DOMAIN DeviceCommandsService : Suits(DeviceCommandsController[h], DeviceCommandsService[h])
    BY WaysToSuit DEF Deferred, DeviceCommandsController, DeviceCommandsService
  <2>. QED
    BY <2>1, BehindFit
<1>15. Fit(Behind(PaymentsController, PaymentReads))
  <2>1. \A h \in DOMAIN PaymentReads : Suits(PaymentsController[h], PaymentReads[h])
    BY WaysToSuit DEF Deferred, PaymentsController, PaymentReads
  <2>. QED
    BY <2>1, BehindFit
<1>16. Fit(Behind(PaymentsController, PaymentWrites))
  <2>1. \A h \in DOMAIN PaymentWrites : Suits(PaymentsController[h], PaymentWrites[h])
    BY WaysToSuit DEF Deferred, PaymentsController, PaymentWrites
  <2>. QED
    BY <2>1, BehindFit
<1>17. Fit(Behind(RoleAssignmentsController, RoleAssignmentReads))
  <2>1. \A h \in DOMAIN RoleAssignmentReads : Suits(RoleAssignmentsController[h], RoleAssignmentReads[h])
    BY WaysToSuit DEF Deferred, RoleAssignmentsController, RoleAssignmentReads
  <2>. QED
    BY <2>1, BehindFit
<1>18. Fit(Behind(AuditLogsController, AuditLogReads))
  <2>1. \A h \in DOMAIN AuditLogReads : Suits(AuditLogsController[h], AuditLogReads[h])
    BY WaysToSuit DEF Deferred, AuditLogsController, AuditLogReads
  <2>. QED
    BY <2>1, BehindFit
<1>19. Fit(Alone(UsersController, DOMAIN UsersController \ {"list"}))
  <2>1. \A h \in DOMAIN UsersController \ {"list"} : Suits(UsersController[h], Unscoped)
    BY WaysToSuit DEF Deferred, UsersController
  <2>. QED
    BY <2>1, AloneFit
<1>20. Fit(Alone(RolesController, DOMAIN RolesController))
  <2>1. \A h \in DOMAIN RolesController : Suits(RolesController[h], Unscoped)
    BY WaysToSuit DEF Deferred, RolesController
  <2>. QED
    BY <2>1, AloneFit
<1>21. Fit(Alone(PermissionsController, DOMAIN PermissionsController))
  <2>1. \A h \in DOMAIN PermissionsController : Suits(PermissionsController[h], Unscoped)
    BY WaysToSuit DEF Deferred, PermissionsController
  <2>. QED
    BY <2>1, AloneFit
<1>22. Fit(Alone(RoleAssignmentsController, {"revoke"}))
  <2>1. \A h \in {"revoke"} : Suits(RoleAssignmentsController[h], Unscoped)
    BY WaysToSuit DEF Deferred, RoleAssignmentsController
  <2>. QED
    BY <2>1, AloneFit
<1>23. Fit(Alone(AuditLogsController, {"get"}))
  <2>1. \A h \in {"get"} : Suits(AuditLogsController[h], Unscoped)
    BY WaysToSuit DEF Deferred, AuditLogsController
  <2>. QED
    BY <2>1, AloneFit
<1>24. Fit(Behind(UsersController, UserReads))
  <2>1. \A h \in DOMAIN UserReads : Suits(UsersController[h], UserReads[h])
    BY WaysToSuit DEF Deferred, UsersController, UserReads
  <2>. QED
    BY <2>1, BehindFit
<1>. QED
  BY <1>1, <1>2, <1>3, <1>4, <1>5, <1>6, <1>7, <1>8, <1>9, <1>10, <1>11, <1>12,
     <1>13, <1>14, <1>15, <1>16, <1>17, <1>18, <1>19, <1>20, <1>21, <1>22, <1>23, <1>24 DEF
     Fit, Routes

\* The property's words about one request.
ServedAsPermitted(u, r, asked, at) ==
    Served(u, r, asked, at) <=>
        /\ r.check.over \in {"list", "all"} => asked.service \in {None, at}
        /\ asked.guard # None => HasPermission(u, r.guard.code, asked.guard)
        /\ \A c \in r.check.codes \union {r.guard.code} :
              \A station \in Concerned(r, asked, at) : HasPermission(u, c, station)

\* What the service is told, the guard has read.
LEMMA ToldApart ==
    ASSUME NEW r, InOneWay(r), NEW asked \in Asked(r)
    PROVE  /\ asked.guard \in Places /\ asked.service \in Places
           /\ asked.service # None => asked.guard # None
           /\ r.guard.passes = {"nothing"} => asked.service = None
           /\ r.guard.passes = {"station"} =>
                asked.service \in Stations /\ asked.service = asked.guard
<1>1. None \notin Stations
  BY AccountConstants
<1>2. PICK how \in r.guard.passes : asked \in Passed[how]
  BY DEF Asked
<1>3. how \in {"nothing", "filter", "station"}
  BY <1>2 DEF InOneWay, Ways
<1>4. CASE how = "nothing"
  <2>1. PICK st \in Stations \union {None} : asked = [guard |-> st, service |-> None]
    BY <1>2, <1>4 DEF Passed
  <2>. QED
    BY <1>2, <1>4, <2>1 DEF Places
<1>5. CASE how = "filter"
  <2>1. asked \in [guard : Stations, service : Stations]
    BY <1>2, <1>5 DEF Passed
  <2>. QED
    BY <1>1, <1>2, <1>5, <2>1 DEF Places
<1>6. CASE how = "station"
  <2>1. PICK st \in Stations : asked = [guard |-> st, service |-> st]
    BY <1>2, <1>6 DEF Passed
  <2>. QED
    BY <1>1, <1>2, <1>6, <2>1 DEF Places
<1>. QED
  BY <1>3, <1>4, <1>5, <1>6

LEMMA RouteServes ==
    ASSUME Sound, NEW u, NEW r, InOneWay(r),
           NEW at \in Stations, NEW asked \in Asked(r)
    PROVE  ServedAsPermitted(u, r, asked, at)
<1> DEFINE code == r.guard.code
           codes == r.check.codes
           seen == asked.guard
           told == asked.service
           H(c, station) == HasPermission(u, c, station)
<1>1. /\ seen \in Places /\ told \in Places /\ (told # None => seen # None)
      /\ r.guard.passes = {"nothing"} => told = None
      /\ r.guard.passes = {"station"} => told \in Stations /\ told = seen
  BY ToldApart
<1>2. None \notin Stations
  BY AccountConstants
<1>3. \A c, station : HasPermission(u, c, station) <=> H(c, station)
  BY HeldWhere
<1>4. \A c, station : H(c, station) => HasAnyScopePermission(u, c)
  BY HeldWhere
<1>5. \A c : RequireGlobal(u, c) <=> H(c, None)
  BY ScopeOf, HeldWhere DEF StationIn
<1>6. \A c, station : station \in Stations => (RequireStation(u, c, station) <=> H(c, station))
  BY ScopeOf, HeldWhere
<1>7. \A c, station : H(c, None) => H(c, station)
  BY HeldWhere DEF StationIn
<1>8. \A c : at \in ListScope(u, c, None) <=> RequireStation(u, c, at)
  BY DEF ListScope, RequireStation
<1>9. \A c : told # None => (at \in ListScope(u, c, told) <=> at = told)
  BY DEF ListScope
<1> DEFINE Admitted == \/ H(code, seen)
                       \/ seen = None /\ code \in Deferred /\ HasAnyScopePermission(u, code)
           Permitted(where) == \A c \in codes \union {code} : H(c, where)
<1>10. Served(u, r, asked, at) <=> Admitted /\ Limits(u, r.check, told, at)
  BY <1>3 DEF Served, PermissionsGuard
<1>11. ServedAsPermitted(u, r, asked, at)
       <=> (Served(u, r, asked, at) <=>
              /\ r.check.over \in {"list", "all"} => told \in {None, at}
              /\ seen # None => H(code, seen)
              /\ \A station \in Concerned(r, asked, at) : Permitted(station))
  BY DEF ServedAsPermitted
<1> HIDE DEF H
<1> r.check.over \in Kinds /\ Matched(r)
  BY DEF InOneWay
<1>12. CASE r.check.over = "anything"
  <2>1. codes = {} /\ code \notin Deferred /\ Concerned(r, asked, at) = {seen}
    BY <1>12 DEF Matched, Concerned
  <2>2. Limits(u, r.check, told, at)
    BY <1>12 DEF Limits
  <2>. QED
    BY <1>10, <1>11, <1>12, <2>1, <2>2
<1>13. CASE r.check.over = "all"
  <2>1. codes = {} /\ code \notin Deferred /\ Concerned(r, asked, at) = {seen}
    BY <1>13 DEF Matched, Concerned
  <2>2. Limits(u, r.check, told, at) <=> told \in {None, at}
    BY <1>13 DEF Limits
  <2>. QED
    BY <1>10, <1>11, <1>13, <2>1, <2>2
<1>14. CASE r.check.over = "global"
  <2>1. codes = {code} /\ code \notin Deferred /\ Concerned(r, asked, at) = {None}
    BY <1>14 DEF Matched, Concerned
  <2>2. Limits(u, r.check, told, at) <=> H(code, None)
    BY <1>5, <1>14, <2>1 DEF Limits
  <2>. QED
    BY <1>7, <1>10, <1>11, <1>14, <2>1, <2>2
<1>15. CASE r.check.over = "list"
  <2>1. /\ codes = {code} /\ code \in Deferred
        /\ Concerned(r, asked, at) = IF told = None THEN {at} ELSE {seen}
    BY <1>15 DEF Matched, Concerned
  <2>2. Limits(u, r.check, told, at) <=> at \in ListScope(u, code, told)
    BY <1>15, <2>1 DEF Limits
  <2>3. CASE told = None
    <3>1. Limits(u, r.check, told, at) <=> H(code, at)
      BY <1>6, <1>8, <2>2, <2>3
    <3>. QED
      BY <1>4, <1>10, <1>11, <1>15, <2>1, <2>3, <3>1
  <2>4. CASE told # None
    <3>1. seen # None /\ (Limits(u, r.check, told, at) <=> at = told)
      BY <1>1, <1>9, <2>2, <2>4
    <3>. QED
      BY <1>2, <1>10, <1>11, <1>15, <2>1, <2>4, <3>1
  <2>. QED
    BY <2>3, <2>4
<1>16. CASE r.check.over = "row"
  <2>1. code \in codes /\ code \in Deferred /\ Concerned(r, asked, at) = {at}
    BY <1>16 DEF Matched, Concerned
  <2>2. Limits(u, r.check, told, at) <=> \A c \in codes : H(c, at)
    BY <1>6, <1>16 DEF Limits
  <2>. QED
    BY <1>4, <1>10, <1>11, <1>16, <2>1, <2>2
<1>17. CASE r.check.over = "new"
  <2>1. /\ codes = {code} /\ told \in Stations /\ told = seen
        /\ Concerned(r, asked, at) = {told}
    BY <1>1, <1>17 DEF Matched, Concerned
  <2>2. Limits(u, r.check, told, at) <=> H(code, told)
    BY <1>6, <1>17, <2>1 DEF Limits
  <2>. QED
    BY <1>2, <1>10, <1>11, <1>17, <2>1, <2>2
<1>18. CASE r.check.over = "move"
  <2>1. /\ codes = {code} /\ told \in Stations /\ told = seen
        /\ Concerned(r, asked, at) = {at, told}
    BY <1>1, <1>18 DEF Matched, Concerned
  <2>2. Limits(u, r.check, told, at) <=> H(code, at) /\ H(code, told)
    BY <1>6, <1>18, <2>1 DEF Limits
  <2>. QED
    BY <1>2, <1>10, <1>11, <1>18, <2>1, <2>2
<1>19. \/ r.check.over = "anything" \/ r.check.over = "all" \/ r.check.over = "global"
       \/ r.check.over = "list" \/ r.check.over = "row" \/ r.check.over = "new"
       \/ r.check.over = "move"
  BY DEF Kinds
<1>. QED
  BY ONLY <1>12, <1>13, <1>14, <1>15, <1>16, <1>17, <1>18, <1>19

LEMMA RoutesServe ==
    ASSUME Sound PROVE RoutesServeWhatIsPermitted
<1> SUFFICES ASSUME NEW u \in Users PROVE
      \A r \in Routes, at \in Stations : \A asked \in Asked(r) :
          ServedAsPermitted(u, r, asked, at)
  BY DEF RoutesServeWhatIsPermitted, ServedAsPermitted
<1>. QED
  BY AllMatched, RouteServes DEF Fit

-------------------------------------------------------------------------------
(* The inductive invariant *)

RoleStands ==
    /\ roles[SuperAdmin] # None
    /\ roles[SuperAdmin].system /\ roles[SuperAdmin].status = "active"

SuperAdminRow(a) ==
    /\ assignments[a].role = SuperAdmin /\ assignments[a].station = None
    /\ ~assignments[a].revoked

\* A request that takes an administrator away saw another one, unless it saw
\* none at all or takes away none.
Foreseen(r) ==
    /\ r.op = "set_status" /\ r.status # "active"
       => \/ r.saw = {}
          \/ \E b \in r.saw : b \in DOMAIN assignments /\ assignments[b].user # r.user
    /\ r.op = "revoke_assignment"
       => \/ r.saw = {}
          \/ \E b \in r.saw : b # r.assignment
          \/ ~SuperAdminRow(r.assignment)

AllForeseen == \A w \in Workers : Foreseen(request[w])

Guarded == Sound /\ RoleStands /\ AllForeseen

\* Assignments keep whom and what they are for, and a revoked one stays so.
AssignmentsKept ==
    \A a \in DOMAIN assignments :
        /\ a \in DOMAIN assignments'
        /\ assignments'[a].user = assignments[a].user
        /\ assignments'[a].role = assignments[a].role
        /\ assignments'[a].station = assignments[a].station
        /\ assignments[a].revoked => assignments'[a].revoked

\* No row that makes a super admin loses anything.
NoneRestricted ==
    /\ \A a \in DOMAIN assignments :
          a \in DOMAIN assignments' /\ assignments'[a] = assignments[a]
    /\ \A u \in Users : users[u].status = "active" => users'[u].status = "active"

\* The next request of a worker is foreseen in the next state.
GoesOn(w) ==
    \E r : /\ request' = [request EXCEPT ![w] = r]
           /\ Foreseen(r)'

LEMMA Ends ==
    ASSUME NEW w, Become(w, Idle) PROVE GoesOn(w)
<1>1. Foreseen(Idle)'
  BY DEF Foreseen, Idle
<1>. QED
  BY <1>1 DEF Become, GoesOn

\* A super admin's assignment.
LEMMA Among ==
    ASSUME NEW a
    PROVE  a \in GlobalSuperAdmins <=>
              /\ a \in DOMAIN assignments /\ SuperAdminRow(a)
              /\ assignments[a].life # "expired"
              /\ users[assignments[a].user].status = "active"
              /\ roles[SuperAdmin].status = "active"
BY DEF GlobalSuperAdmins, InForce, Current, StationIn, SuperAdminRow

LEMMA ForeseenStays ==
    ASSUME Sound, NEW r, Fits(r), Foreseen(r), AssignmentsKept PROVE Foreseen(r)'
<1>1. r.op = "revoke_assignment" => r.assignment \in DOMAIN assignments
  BY Held DEF Fits
<1>. QED
  BY <1>1 DEF Foreseen, AssignmentsKept, SuperAdminRow

LEMMA AllGoOn ==
    ASSUME Sound, AllForeseen, AssignmentsKept, NEW w \in Workers, GoesOn(w)
    PROVE  AllForeseen'
<1>1. PICK r : request' = [request EXCEPT ![w] = r] /\ Foreseen(r)'
  BY DEF GoesOn
<1>2. request'[w] = r /\ \A v \in Workers \ {w} : request'[v] = request[v]
  BY <1>1 DEF Sound, RequestsFit
<1>3. ASSUME NEW v \in Workers PROVE Foreseen(request[v])'
  <2>1. CASE v = w
    BY <1>1, <1>2, <2>1 DEF Foreseen
  <2>2. CASE v # w
    <3>1. PICK q : q = request[v]
      OBVIOUS
    <3>2. Fits(q) /\ Foreseen(q)
      BY <3>1 DEF Sound, RequestsFit, AllForeseen
    <3>3. Foreseen(q)'
      BY <3>2, ForeseenStays
    <3>4. request'[v] = q
      BY <1>2, <2>2, <3>1
    <3>. QED
      BY <3>3, <3>4 DEF Foreseen
  <2>. QED
    BY <2>1, <2>2
<1>. QED
  BY <1>3 DEF AllForeseen

LEMMA NoneLost ==
    ASSUME Guarded, RoleStands', NoneRestricted
    PROVE  AssignmentsKept /\ GlobalSuperAdmins \subseteq GlobalSuperAdmins'
<1>1. AssignmentsKept
  BY DEF NoneRestricted, AssignmentsKept
<1>2. \A a \in DOMAIN assignments : assignments[a].user \in Users
  BY RowsHold DEF Guarded, Sound
<1>3. ASSUME NEW a \in GlobalSuperAdmins PROVE a \in GlobalSuperAdmins'
  <2>1. /\ a \in DOMAIN assignments /\ SuperAdminRow(a)
        /\ assignments[a].life # "expired"
        /\ users[assignments[a].user].status = "active"
    BY Among
  <2>2. /\ a \in DOMAIN assignments' /\ assignments'[a] = assignments[a]
        /\ users'[assignments[a].user].status = "active"
    BY <1>2, <2>1 DEF NoneRestricted
  <2>. QED
    BY <2>1, <2>2 DEF GlobalSuperAdmins, InForce, Current, StationIn, SuperAdminRow, RoleStands
<1>. QED
  BY <1>1, <1>3

-------------------------------------------------------------------------------
(* Steps that restrict nobody *)

LEMMA StartsHarmless ==
    ASSUME Guarded, NEW w \in Workers, AuthStarts(w) \/ UserStarts(w) \/ RoleStarts(w)
    PROVE  RoleStands' /\ NoneRestricted /\ GoesOn(w)
<1>1. PICK r : Start(w, r) /\ JustRead(r)
  BY AuthBegins, AdministrationBegins DEF Guarded
<1>2. UNCHANGED <<users, roles, assignments>>
  BY <1>1 DEF Start, tables
<1>3. Foreseen(r)'
  BY <1>1 DEF JustRead, Foreseen
<1>. QED
  BY <1>1, <1>2, <1>3 DEF Guarded, RoleStands, NoneRestricted, GoesOn, Start

LEMMA AuthHarmless ==
    ASSUME Guarded, NEW w \in Workers,
           AuthSteps(w) \/ RevokeUserSessions(w) \/ RequestDies(w)
    PROVE  RoleStands' /\ NoneRestricted /\ GoesOn(w)
<1>0. PICK r : r = request[w]
  OBVIOUS
<1>1. /\ r = request[w] /\ Fits(r) /\ r \in Requests
      /\ Rows /\ users = [u \in Users |-> users[u]]
      /\ \A u \in Users : Exists(u) => users[u] \in UserRow
  BY <1>0 DEF Guarded, Sound, RequestsFit, Fits, Rows, Exists
<1>2. UNCHANGED <<roles, assignments>>
  BY DEF AuthSteps, RegisterFailedLogin, LockAccount, LoginSucceeds, CreateAuthSession,
         RotateSession, RevokeFamily, Logout, RevokeOwnSession, ChangePassword,
         RevokeUserSessions, RequestDies, tables
<1>3. RoleStands'
  BY <1>2 DEF Guarded, RoleStands
<1>4. ASSUME \A u \in Users : users[u].status = "active" => users'[u].status = "active"
      PROVE  NoneRestricted
  BY <1>2, <1>4 DEF NoneRestricted
<1>5. Idle.op = "idle"
  BY DEF Idle
<1>6. ASSUME NEW next, Become(w, next), next.op \notin {"set_status", "revoke_assignment"}
      PROVE  GoesOn(w)
  BY <1>6 DEF GoesOn, Become, Foreseen
<1>7. ASSUME UNCHANGED users, request' = [request EXCEPT ![w] = Idle]
      PROVE  NoneRestricted /\ GoesOn(w)
  BY <1>2, <1>5, <1>7 DEF NoneRestricted, GoesOn, Foreseen
\* The row of one account changes, and not its status.
<1>8. ASSUME NEW u \in Users, Exists(u), NEW row, row.status = users[u].status,
             users' = [users EXCEPT ![u] = row]
      PROVE  NoneRestricted
  <2>1. \A v \in Users : users'[v] = IF v = u THEN row ELSE users[v]
    BY <1>1, <1>8
  <2>2. \A v \in Users : users[v].status = "active" => users'[v].status = "active"
    BY <1>8, <2>1
  <2>. QED
    BY <1>4, <2>2
<1>9. CASE RegisterFailedLogin(w)
  <2>1. r.user \in Users /\ Exists(r.user)
    BY <1>1, <1>9, Held DEF RegisterFailedLogin, Fits, OnAccount
  <2> DEFINE row == [users[r.user] EXCEPT !.failed = @ + 1]
             next == [op |-> "lock", user |-> r.user]
  <2>2. row.status = users[r.user].status
    BY <1>1, <2>1 DEF UserRow
  <2>3. users' = [users EXCEPT ![r.user] = row]
    BY <1>1, <1>9 DEF RegisterFailedLogin
  <2>4. Become(w, Idle) \/ Become(w, next)
    BY <1>1, <1>9 DEF RegisterFailedLogin, Finish
  <2>5. next.op = "lock"
    OBVIOUS
  <2> HIDE DEF row, next
  <2>. QED
    BY <1>3, <1>5, <1>6, <1>8, <2>1, <2>2, <2>3, <2>4, <2>5
<1>10. CASE LockAccount(w)
  <2>1. r.user \in Users /\ Exists(r.user)
    BY <1>1, <1>10, Held DEF LockAccount, Fits, OnAccount
  <2> DEFINE row == [users[r.user] EXCEPT !.locked = TRUE]
  <2>2. row.status = users[r.user].status
    BY <1>1, <2>1 DEF UserRow
  <2>3. users' = [users EXCEPT ![r.user] = row] /\ Become(w, Idle)
    BY <1>1, <1>10 DEF LockAccount, Finish
  <2> HIDE DEF row
  <2>. QED
    BY <1>3, <1>5, <1>6, <1>8, <2>1, <2>2, <2>3
<1>11. CASE LoginSucceeds(w)
  <2>1. /\ r.user \in Users /\ Exists(r.user)
        /\ r \in [op : {"login", "login_failed", "open_session", "set_password",
                        "create_user", "set_temporary"},
                  user : Users, password : Passwords]
    BY <1>1, <1>11, Held DEF LoginSucceeds, Fits, OnAccount
  <2> DEFINE row == [users[r.user] EXCEPT !.failed = 0, !.locked = FALSE]
             next == [r EXCEPT !.op = "open_session"]
  <2>2. row.status = users[r.user].status
    BY <1>1, <2>1 DEF UserRow
  <2>3. users' = [users EXCEPT ![r.user] = row] /\ Become(w, next)
    BY <1>1, <1>11 DEF LoginSucceeds
  <2>4. next.op = "open_session"
    BY <2>1
  <2> HIDE DEF row, next
  <2>. QED
    BY <1>3, <1>6, <1>8, <2>1, <2>2, <2>3, <2>4
<1>12. CASE CreateAuthSession(w)
  BY <1>3, <1>7, <1>12 DEF CreateAuthSession, Finish, Become
<1>13. CASE RotateSession(w)
  BY <1>3, <1>7, <1>13 DEF RotateSession, Finish, Become
<1>14. CASE RevokeFamily(w)
  BY <1>3, <1>7, <1>14 DEF RevokeFamily, Finish, Become
<1>15. CASE Logout(w)
  BY <1>3, <1>7, <1>15 DEF Logout, Finish, Become
<1>16. CASE RevokeOwnSession(w)
  BY <1>3, <1>7, <1>16 DEF RevokeOwnSession, Finish, Become
<1>17. CASE ChangePassword(w)
  <2>1. r.user \in Users /\ Exists(r.user)
    BY <1>1, <1>17, Held DEF ChangePassword, Fits, OnAccount
  <2> DEFINE row == [users[r.user] EXCEPT !.password = r.password, !.mustChange = FALSE]
             next == [op |-> "revoke_sessions", user |-> r.user, why |-> "password_changed"]
  <2>2. row.status = users[r.user].status
    BY <1>1, <2>1 DEF UserRow
  <2>3. users' = [users EXCEPT ![r.user] = row] /\ Become(w, next)
    BY <1>1, <1>17 DEF ChangePassword
  <2>4. next.op = "revoke_sessions"
    OBVIOUS
  <2> HIDE DEF row, next
  <2>. QED
    BY <1>3, <1>6, <1>8, <2>1, <2>2, <2>3, <2>4
<1>18. CASE RevokeUserSessions(w)
  BY <1>3, <1>7, <1>18 DEF RevokeUserSessions, Finish, Become
<1>19. CASE RequestDies(w)
  BY <1>3, <1>7, <1>19 DEF RequestDies, tables
<1>. QED
  BY <1>9, <1>10, <1>11, <1>12, <1>13, <1>14, <1>15, <1>16, <1>17, <1>18, <1>19 DEF AuthSteps

LEMMA UsersHarmless ==
    ASSUME Guarded, NEW w \in Workers, CreateUser(w) \/ SetTemporaryPassword(w)
    PROVE  RoleStands' /\ NoneRestricted /\ GoesOn(w)
<1>0. PICK r : r = request[w]
  OBVIOUS
<1>1. /\ r = request[w] /\ Fits(r) /\ r \in Requests
      /\ Rows /\ users = [u \in Users |-> users[u]]
  BY <1>0 DEF Guarded, Sound, RequestsFit, Fits, Rows
<1>2. UNCHANGED <<roles, assignments>>
  BY DEF CreateUser, Created, SetTemporaryPassword
<1>3. RoleStands'
  BY <1>2 DEF Guarded, RoleStands
<1>4. ASSUME NEW u \in Users, NEW row,
             row.status = users[u].status \/ row.status = "active",
             users' = [users EXCEPT ![u] = row]
      PROVE  NoneRestricted
  <2>1. \A v \in Users : users'[v] = IF v = u THEN row ELSE users[v]
    BY <1>1, <1>4
  <2>. QED
    BY <1>2, <1>4, <2>1 DEF NoneRestricted
<1>5. CASE CreateUser(w)
  <2>1. r.user \in Users
    BY <1>1, <1>5, Held DEF CreateUser, Created
  <2>0. PICK must \in BOOLEAN :
           users' = IF Exists(r.user) THEN users
                    ELSE [users EXCEPT ![r.user] =
                            [status |-> "active", failed |-> 0, locked |-> FALSE,
                             password |-> r.password, mustChange |-> must]]
    BY <1>1, <1>5 DEF CreateUser, Created
  <2> DEFINE row == [status |-> "active", failed |-> 0, locked |-> FALSE,
                     password |-> r.password, mustChange |-> must]
  <2>2. users' = users \/ users' = [users EXCEPT ![r.user] = row]
    BY <2>0
  <2>3. row.status = "active"
    OBVIOUS
  <2> HIDE DEF row
  <2>4. NoneRestricted
    BY <1>2, <1>4, <2>1, <2>2, <2>3 DEF NoneRestricted
  <2>5. GoesOn(w)
    BY <1>5, Ends DEF CreateUser, Created, Finish
  <2>. QED
    BY <1>3, <2>4, <2>5
<1>6. CASE SetTemporaryPassword(w)
  <2>1. r.user \in Users /\ Exists(r.user)
    BY <1>1, <1>6, Held DEF SetTemporaryPassword, Fits, OnAccount
  <2> DEFINE row == [users[r.user] EXCEPT !.password = r.password, !.mustChange = TRUE]
             next == [op |-> "revoke_sessions", user |-> r.user,
                      why |-> "temporary_password_set"]
  <2>2. row.status = users[r.user].status
    BY <1>1, <2>1 DEF Rows, Exists, UserRow
  <2>3. users' = [users EXCEPT ![r.user] = row] /\ Become(w, next)
    BY <1>1, <1>6 DEF SetTemporaryPassword
  <2>4. next.op = "revoke_sessions"
    OBVIOUS
  <2> HIDE DEF row, next
  <2>5. GoesOn(w)
    BY <2>3, <2>4 DEF GoesOn, Become, Foreseen
  <2>6. NoneRestricted
    BY <1>4, <2>1, <2>2, <2>3
  <2>. QED
    BY <1>3, <2>5, <2>6
<1>. QED
  BY <1>5, <1>6

LEMMA RolesHarmless ==
    ASSUME Guarded, NEW w \in Workers,
           CreateRole(w) \/ UpdateRoleStatus(w) \/ SyncPermissionsInserts(w)
    PROVE  RoleStands' /\ NoneRestricted /\ GoesOn(w)
<1>0. PICK r : r = request[w]
  OBVIOUS
<1>1. /\ r = request[w] /\ Fits(r) /\ r \in Requests
      /\ roles = [role \in Roles |-> roles[role]]
      /\ \A role \in Roles : roles[role] # None => roles[role] \in RoleRow
      /\ RoleStands
  BY <1>0 DEF Guarded, Sound, RequestsFit, Fits, Rows
<1>2. NoneRestricted /\ GoesOn(w)
  BY Ends DEF CreateRole, UpdateRoleStatus, SyncPermissionsInserts, Finish, NoneRestricted
<1>3. SuperAdmin \in Roles
  BY AccountConstants
<1>4. CASE CreateRole(w)
  <2>1. roles'[SuperAdmin] = roles[SuperAdmin]
    BY <1>1, <1>3, <1>4 DEF CreateRole, RoleStands
  <2>. QED
    BY <1>1, <1>2, <2>1 DEF RoleStands
<1>5. CASE UpdateRoleStatus(w)
  <2>1. \/ roles'[SuperAdmin] = roles[SuperAdmin]
        \/ r.status = "active"
           /\ roles'[SuperAdmin] = [roles[SuperAdmin] EXCEPT !.status = r.status]
    <3>1. CASE r.role # SuperAdmin
      BY <1>1, <1>3, <1>5, <3>1 DEF UpdateRoleStatus
    <3>2. CASE r.role = SuperAdmin
      <4>1. roles' = roles \/ (r.status = "active"
               /\ roles' = [roles EXCEPT ![SuperAdmin].status = r.status])
        BY <1>1, <1>5, <3>2 DEF UpdateRoleStatus, RoleStands
      <4>. QED
        BY <1>1, <1>3, <4>1
    <3>. QED
      BY <3>1, <3>2
  <2>2. roles[SuperAdmin] \in RoleRow
    BY <1>1, <1>3 DEF RoleStands
  <2>3. RoleStands'
    <3>1. CASE roles'[SuperAdmin] = roles[SuperAdmin]
      BY <1>1, <3>1 DEF RoleStands
    <3>2. CASE r.status = "active"
               /\ roles'[SuperAdmin] = [roles[SuperAdmin] EXCEPT !.status = r.status]
      <4>1. roles'[SuperAdmin] \in RoleRow
        BY <2>2, <3>2 DEF RoleRow
      <4>2. roles'[SuperAdmin].status = "active" /\ roles'[SuperAdmin].system
        BY <1>1, <2>2, <3>2 DEF RoleRow, RoleStands
      <4>. QED
        BY <4>1, <4>2, InitialRows DEF RoleStands
    <3>. QED
      BY <2>1, <3>1, <3>2
  <2>. QED
    BY <1>2, <2>3
<1>6. CASE SyncPermissionsInserts(w)
  <2>1. r.role \in Roles /\ roles[r.role] \in RoleRow
    BY <1>1, <1>6, Held DEF SyncPermissionsInserts, Fits, OnRole
  <2>2. PICK left : left = IF roles[r.role].synced = r.saw THEN {}
                           ELSE roles[r.role].permissions
    OBVIOUS
  <2> DEFINE row == [roles[r.role] EXCEPT !.permissions = left \union r.permissions,
                                          !.synced = @ + 1]
  <2>3. /\ row.status = roles[r.role].status /\ row.system = roles[r.role].system
        /\ DOMAIN row = DOMAIN roles[r.role]
    BY <2>1 DEF RoleRow
  <2>4. roles' = roles \/ roles' = [roles EXCEPT ![r.role] = row]
    BY <1>1, <1>6, <2>2 DEF SyncPermissionsInserts
  <2>5. row # None
    <3>1. roles[r.role].permissions \subseteq Permissions /\ roles[r.role].synced \in Nat
      BY <2>1 DEF RoleRow
    <3>2. left \union r.permissions \subseteq Permissions
      BY <1>1, <1>6, <2>2, <3>1, Held DEF SyncPermissionsInserts
    <3>3. roles[r.role].synced + 1 \in Nat
      BY <3>1
    <3>4. row \in RoleRow
      BY <2>1, <3>2, <3>3 DEF RoleRow
    <3>. QED
      BY <3>4, InitialRows
  <2> HIDE DEF row
  <2>6. roles'[SuperAdmin] = roles[SuperAdmin]
        \/ (r.role = SuperAdmin /\ roles'[SuperAdmin] = row)
    BY <1>1, <1>3, <2>1, <2>4
  <2>7. RoleStands'
    BY <1>1, <2>3, <2>5, <2>6 DEF RoleStands
  <2>. QED
    BY <1>2, <2>7
<1>. QED
  BY <1>4, <1>5, <1>6

LEMMA AssigningHarmless ==
    ASSUME Guarded, NEW w \in Workers, ValidateAssignable(w) \/ InsertAssignment(w)
    PROVE  RoleStands' /\ NoneRestricted /\ GoesOn(w)
<1>0. PICK r : r = request[w]
  OBVIOUS
<1>1. r = request[w] /\ Fits(r) /\ r \in Requests
  BY <1>0 DEF Guarded, Sound, RequestsFit, Fits
<1>2. UNCHANGED <<users, roles>>
  BY DEF ValidateAssignable, InsertAssignment, tables
<1>3. RoleStands'
  BY <1>2 DEF Guarded, RoleStands
<1>4. CASE ValidateAssignable(w)
  <2>1. r \in [op : {"validate", "assign"}, user : Users, role : Roles,
               station : Stations \union {None}, by : Users]
    BY <1>1, <1>4, Held DEF ValidateAssignable
  <2> DEFINE next == [r EXCEPT !.op = "assign"]
  <2>2. next.op = "assign"
    BY <2>1
  <2>3. Become(w, Idle) \/ Become(w, next)
    BY <1>1, <1>4 DEF ValidateAssignable, Finish
  <2> HIDE DEF next
  <2>4. GoesOn(w)
    BY <2>2, <2>3 DEF Become, GoesOn, Foreseen, Idle
  <2>. QED
    BY <1>3, <1>4, <2>4 DEF ValidateAssignable, NoneRestricted, tables
<1>5. CASE InsertAssignment(w)
  <2> DEFINE row == [user |-> r.user, role |-> r.role, station |-> r.station,
                     life |-> "dated", revoked |-> FALSE]
  <2>1. assignments' = assignments \/ assignments' = Append(assignments, row)
    BY <1>1, <1>5 DEF InsertAssignment
  <2>2. assignments \in Seq(AssignmentRow)
    BY DEF Guarded, Sound, Rows
  <2> HIDE DEF row
  <2>3. \A a \in DOMAIN assignments :
            a \in DOMAIN assignments' /\ assignments'[a] = assignments[a]
    <3>1. CASE assignments' = Append(assignments, row)
      <4>1. Len(assignments) \in Nat /\ DOMAIN assignments = 1..Len(assignments)
        BY <2>2
      <4>2. /\ DOMAIN assignments' = 1..(Len(assignments) + 1)
            /\ \A a \in 1..Len(assignments) : assignments'[a] = assignments[a]
        BY <2>2, <3>1
      <4>. QED
        BY <4>1, <4>2
    <3>. QED
      BY <2>1, <3>1
  <2>4. GoesOn(w)
    BY <1>5, Ends DEF InsertAssignment, Finish
  <2>. QED
    BY <1>2, <1>3, <2>3, <2>4 DEF NoneRestricted
<1>. QED
  BY <1>4, <1>5

\* A check lets through only those that Foreseen allows.
LEMMA ChecksForesee ==
    ASSUME Guarded, NEW w \in Workers, CheckUserStatus(w) \/ CheckRevocation(w)
    PROVE  RoleStands' /\ NoneRestricted /\ GoesOn(w)
<1>0. PICK r : r = request[w]
  OBVIOUS
<1>1. r = request[w] /\ Fits(r) /\ r \in Requests
  BY <1>0 DEF Guarded, Sound, RequestsFit, Fits
<1>2. UNCHANGED <<users, roles, assignments>>
  BY DEF CheckUserStatus, CheckRevocation, tables
<1>3. RoleStands' /\ NoneRestricted
  BY <1>2 DEF Guarded, RoleStands, NoneRestricted
<1>4. PICK saw : saw = GlobalSuperAdmins
  OBVIOUS
<1>5. /\ saw \subseteq DOMAIN assignments /\ IsFiniteSet(saw)
  <2>1. DOMAIN assignments = 1..Len(assignments) /\ Len(assignments) \in Nat
    BY RowsHold DEF Guarded, Sound
  <2>2. IsFiniteSet(1..Len(assignments))
    BY <2>1, FS_Interval
  <2>. QED
    BY <1>4, <2>1, <2>2, FS_Subset DEF GlobalSuperAdmins
<1>6. CASE CheckUserStatus(w)
  <2> DEFINE next == [op |-> "set_status", user |-> r.user, status |-> r.status, saw |-> saw]
  <2>1. \/ Become(w, Idle)
        \/ /\ Become(w, next)
           /\ r.status # "active" => ~IsLastSuperAdminUser(r.user)
    BY <1>1, <1>4, <1>6 DEF CheckUserStatus, Finish
  <2>2. /\ next.op = "set_status" /\ next.user = r.user /\ next.status = r.status
        /\ next.saw = saw
    OBVIOUS
  <2> HIDE DEF next
  <2>3. ASSUME ~IsLastSuperAdminUser(r.user), saw # {}
        PROVE  \E b \in saw : assignments[b].user # r.user
    <3>1. HeldBy(r.user) = {b \in saw : assignments[b].user = r.user}
      BY <1>4 DEF HeldBy
    <3>2. HeldBy(r.user) # saw
      <4>1. Cardinality(saw) \in Nat
        BY <1>5, FS_CardinalityType
      <4>. QED
        BY <1>4, <2>3, <4>1 DEF IsLastSuperAdminUser
    <3>. QED
      BY <3>1, <3>2
  <2>4. GoesOn(w)
    <3>1. CASE Become(w, Idle)
      BY <3>1, Ends
    <3>2. CASE Become(w, next) /\ (r.status # "active" => ~IsLastSuperAdminUser(r.user))
      <4>1. Foreseen(next)
        BY <1>5, <2>2, <2>3, <3>2 DEF Foreseen
      <4>2. Foreseen(next)'
        BY <1>2, <4>1 DEF Foreseen, SuperAdminRow
      <4>. QED
        BY <3>2, <4>2 DEF Become, GoesOn
    <3>. QED
      BY <2>1, <3>1, <3>2
  <2>. QED
    BY <1>3, <2>4
<1>7. CASE CheckRevocation(w)
  <2> DEFINE next == [op |-> "revoke_assignment", user |-> r.user,
                      assignment |-> r.assignment, saw |-> saw]
  <2>1. \/ Become(w, Idle)
        \/ Become(w, next) /\ ~IsLastSuperAdminAssignment(r.assignment)
    BY <1>1, <1>4, <1>7 DEF CheckRevocation, Finish
  <2>2. /\ next.op = "revoke_assignment" /\ next.assignment = r.assignment
        /\ next.saw = saw
    OBVIOUS
  <2> HIDE DEF next
  <2>3. ASSUME ~IsLastSuperAdminAssignment(r.assignment), saw # {},
               SuperAdminRow(r.assignment)
        PROVE  \E b \in saw : b # r.assignment
    <3>1. r.assignment \notin saw \/ Cardinality(saw) > 1
      <4>1. Cardinality(saw) \in Nat
        BY <1>5, FS_CardinalityType
      <4>2. r.assignment \in saw => users[assignments[r.assignment].user].status = "active"
        BY <1>4, Among
      <4>. QED
        BY <1>4, <2>3, <4>1, <4>2 DEF IsLastSuperAdminAssignment, SuperAdminRow, StationIn
    <3>2. saw # {r.assignment}
      <4>1. Cardinality({r.assignment}) = 1
        BY FS_Singleton
      <4>. QED
        BY <3>1, <4>1
    <3>. QED
      BY <2>3, <3>2
  <2>4. GoesOn(w)
    <3>1. CASE Become(w, Idle)
      BY <3>1, Ends
    <3>2. CASE Become(w, next) /\ ~IsLastSuperAdminAssignment(r.assignment)
      <4>1. Foreseen(next)
        BY <2>2, <2>3, <3>2 DEF Foreseen
      <4>2. Foreseen(next)'
        BY <1>2, <4>1 DEF Foreseen, SuperAdminRow
      <4>. QED
        BY <3>2, <4>2 DEF Become, GoesOn
    <3>. QED
      BY <2>1, <3>1, <3>2
  <2>. QED
    BY <1>3, <2>4
<1>. QED
  BY <1>6, <1>7

LEMMA ClockHarmless ==
    ASSUME Guarded, (\E u \in Users : LockEnds(u))
                       \/ \E s \in DOMAIN sessions : SessionExpires(s)
    PROVE  RoleStands' /\ NoneRestricted /\ UNCHANGED request
<1>1. UNCHANGED <<roles, assignments, request>>
  BY DEF LockEnds, SessionExpires
<1>2. RoleStands'
  BY <1>1 DEF Guarded, RoleStands
<1>3. \A u \in Users : users[u].status = "active" => users'[u].status = "active"
  <2>1. CASE \E u \in Users : LockEnds(u)
    <3>1. PICK u \in Users : LockEnds(u)
      BY <2>1
    <3>2. users[u] \in UserRow /\ users = [v \in Users |-> users[v]]
      BY <3>1 DEF LockEnds, Guarded, Sound, Rows, Exists
    <3> DEFINE row == [users[u] EXCEPT !.locked = FALSE]
    <3>3. users' = [users EXCEPT ![u] = row] /\ row.status = users[u].status
      BY <3>1, <3>2 DEF LockEnds, UserRow
    <3> HIDE DEF row
    <3>4. \A v \in Users : users'[v] = IF v = u THEN row ELSE users[v]
      BY <3>2, <3>3
    <3>. QED
      BY <3>3, <3>4
  <2>2. CASE UNCHANGED users
    BY <2>2
  <2>. QED
    BY <2>1, <2>2 DEF SessionExpires
<1>. QED
  BY <1>1, <1>2, <1>3 DEF NoneRestricted

LEMMA NobodyGoesOn ==
    ASSUME Sound, AllForeseen, AssignmentsKept, UNCHANGED request PROVE AllForeseen'
<1>1. ASSUME NEW v \in Workers PROVE Foreseen(request[v])'
  <2>1. PICK q : q = request[v]
    OBVIOUS
  <2>2. Fits(q) /\ Foreseen(q)
    BY <2>1 DEF Sound, RequestsFit, AllForeseen
  <2>3. Foreseen(q)'
    BY <2>2, ForeseenStays
  <2>. QED
    BY <2>1, <2>3 DEF Foreseen
<1>. QED
  BY <1>1 DEF AllForeseen

-------------------------------------------------------------------------------
(* Steps that may take an administrator away *)

\* The last super admin is not lost, or lost as the property says.
NotLostKnowingly ==
    GlobalSuperAdmins # {} /\ GlobalSuperAdmins' = {}
    => \/ \E a \in GlobalSuperAdmins : assignments'[a].life = "expired"
       \/ \E w \in Workers :
             /\ request[w].op \in {"set_status", "revoke_assignment"}
             /\ \/ request[w].saw = {}
                \/ \E a \in request[w].saw : a \notin GlobalSuperAdmins

LEMMA Restricting ==
    ASSUME Guarded, NEW w \in Workers, SetUserStatus(w)
    PROVE  RoleStands' /\ AssignmentsKept /\ GoesOn(w) /\ NotLostKnowingly
<1>0. PICK r : r = request[w]
  OBVIOUS
<1>1. /\ r = request[w] /\ Fits(r) /\ r \in Requests /\ Foreseen(r) /\ r.op = "set_status"
      /\ users = [u \in Users |-> users[u]]
  BY <1>0 DEF Guarded, Sound, RequestsFit, AllForeseen, Fits, Rows, SetUserStatus
<1>2. r.user \in Users /\ Exists(r.user) /\ users[r.user] \in UserRow
  BY <1>1, Held DEF Fits, OnAccount, Guarded, Sound, Rows, Exists
<1>3. UNCHANGED <<roles, assignments>>
  BY DEF SetUserStatus
<1>4. RoleStands' /\ AssignmentsKept
  BY <1>3 DEF Guarded, RoleStands, AssignmentsKept
<1> DEFINE next == [op |-> "revoke_sessions", user |-> r.user, why |-> "user_restricted"]
<1>5. Become(w, Idle) \/ Become(w, next)
  BY <1>1 DEF SetUserStatus, Finish
<1>6. next.op = "revoke_sessions"
  OBVIOUS
<1> HIDE DEF next
<1>7. GoesOn(w)
  BY <1>5, <1>6, Ends DEF GoesOn, Become, Foreseen
<1>8. /\ users'[r.user] = [users[r.user] EXCEPT !.status = r.status, !.locked = FALSE]
      /\ \A u \in Users : u # r.user => users'[u] = users[u]
  BY <1>1, <1>2 DEF SetUserStatus
<1>9. users'[r.user].status = r.status
  BY <1>2, <1>8 DEF UserRow
<1>10. ASSUME NEW b \in GlobalSuperAdmins,
              assignments[b].user # r.user \/ r.status = "active"
       PROVE  b \in GlobalSuperAdmins'
  <2>1. /\ b \in DOMAIN assignments /\ SuperAdminRow(b)
        /\ assignments[b].life # "expired" /\ assignments[b].user \in Users
        /\ users[assignments[b].user].status = "active"
    BY Among, RowsHold DEF Guarded, Sound
  <2>2. users'[assignments[b].user].status = "active"
    BY <1>8, <1>9, <1>10, <2>1
  <2>. QED
    BY <1>3, <1>4, <2>1, <2>2 DEF GlobalSuperAdmins, InForce, Current, StationIn,
                                  SuperAdminRow, RoleStands
<1>11. ASSUME GlobalSuperAdmins # {}, GlobalSuperAdmins' = {}
       PROVE  r.saw = {} \/ \E a \in r.saw : a \notin GlobalSuperAdmins
  <2>1. r.status # "active"
    BY <1>10, <1>11
  <2>. QED
    BY <1>1, <1>10, <1>11, <2>1 DEF Foreseen
<1>. QED
  BY <1>1, <1>4, <1>7, <1>11 DEF NotLostKnowingly

LEMMA RevokingOne ==
    ASSUME Guarded, NEW w \in Workers, RevokeAssignment(w)
    PROVE  RoleStands' /\ AssignmentsKept /\ GoesOn(w) /\ NotLostKnowingly
<1>0. PICK r : r = request[w]
  OBVIOUS
<1>1. /\ r = request[w] /\ Fits(r) /\ r \in Requests /\ Foreseen(r)
      /\ r.op = "revoke_assignment"
  BY <1>0 DEF Guarded, Sound, RequestsFit, AllForeseen, Fits, RevokeAssignment
<1>2. r.assignment \in DOMAIN assignments /\ assignments[r.assignment] \in AssignmentRow
  BY <1>1, Held, RowsHold DEF Guarded, Sound
<1>3. UNCHANGED <<users, roles>> /\ GoesOn(w)
  BY Ends DEF RevokeAssignment, Finish
<1>4. RoleStands'
  BY <1>3 DEF Guarded, RoleStands
<1>5. /\ DOMAIN assignments' = DOMAIN assignments
      /\ assignments'[r.assignment] = [assignments[r.assignment] EXCEPT !.revoked = TRUE]
      /\ \A a \in DOMAIN assignments : a # r.assignment => assignments'[a] = assignments[a]
  BY <1>1, <1>2 DEF RevokeAssignment
<1>6. AssignmentsKept
  BY <1>2, <1>5 DEF AssignmentsKept, AssignmentRow
<1>7. ASSUME NEW b \in GlobalSuperAdmins, b # r.assignment PROVE b \in GlobalSuperAdmins'
  <2>1. /\ b \in DOMAIN assignments /\ SuperAdminRow(b)
        /\ assignments[b].life # "expired"
        /\ users[assignments[b].user].status = "active"
    BY Among
  <2>. QED
    BY <1>3, <1>4, <1>5, <1>7, <2>1 DEF GlobalSuperAdmins, InForce, Current, StationIn,
                                        SuperAdminRow, RoleStands
<1>8. ASSUME GlobalSuperAdmins # {}, GlobalSuperAdmins' = {}
      PROVE  r.saw = {} \/ \E a \in r.saw : a \notin GlobalSuperAdmins
  <2>1. SuperAdminRow(r.assignment)
    BY <1>7, <1>8, Among
  <2>. QED
    BY <1>1, <1>7, <1>8, <2>1 DEF Foreseen
<1>. QED
  BY <1>1, <1>3, <1>4, <1>6, <1>8 DEF NotLostKnowingly

LEMMA Expiring ==
    ASSUME Guarded, NEW a \in DOMAIN assignments, AssignmentExpires(a)
    PROVE  RoleStands' /\ AssignmentsKept /\ UNCHANGED request /\ NotLostKnowingly
<1>1. UNCHANGED <<users, roles, request>> /\ assignments[a] \in AssignmentRow
  BY RowsHold DEF AssignmentExpires, Guarded, Sound
<1>2. RoleStands'
  BY <1>1 DEF Guarded, RoleStands
<1>3. /\ DOMAIN assignments' = DOMAIN assignments
      /\ assignments'[a] = [assignments[a] EXCEPT !.life = "expired"]
      /\ \A b \in DOMAIN assignments : b # a => assignments'[b] = assignments[b]
  BY DEF AssignmentExpires
<1>4. AssignmentsKept /\ assignments'[a].life = "expired"
  BY <1>1, <1>3 DEF AssignmentsKept, AssignmentRow
<1>5. ASSUME NEW b \in GlobalSuperAdmins, b # a PROVE b \in GlobalSuperAdmins'
  <2>1. /\ b \in DOMAIN assignments /\ SuperAdminRow(b)
        /\ assignments[b].life # "expired"
        /\ users[assignments[b].user].status = "active"
    BY Among
  <2>. QED
    BY <1>1, <1>2, <1>3, <1>5, <2>1 DEF GlobalSuperAdmins, InForce, Current, StationIn,
                                        SuperAdminRow, RoleStands
<1>. QED
  BY <1>1, <1>2, <1>4, <1>5 DEF NotLostKnowingly

-------------------------------------------------------------------------------
(* Every step *)

LEMMA GuardedAtFirst == Init => Guarded
<1> SUFFICES ASSUME Init PROVE Guarded
  OBVIOUS
<1>1. PICK extra \in Extras : Seeded(Root, RootPassword, extra)
  BY DEF Init
<1> DEFINE super == [system |-> TRUE, status |-> "active",
                     permissions |-> Permissions, synced |-> 0]
<1>2. super \in RoleRow /\ super.system /\ super.status = "active"
  BY DEF RoleRow
<1>3. roles[SuperAdmin] = super
  BY <1>1, AccountConstants DEF Seeded
<1> HIDE DEF super
<1>4. RoleStands
  BY <1>2, <1>3, InitialRows DEF RoleStands
<1>5. AllForeseen
  BY DEF Init, AllForeseen, Foreseen, Idle
<1>. QED
  BY <1>4, <1>5, Initially DEF Guarded

LEMMA EveryStep ==
    ASSUME Guarded, [Next]_vars
    PROVE  Guarded' /\ NotLostKnowingly
<1>1. Sound'
  BY Preserved DEF Guarded
<1>2. ASSUME NEW w \in Workers, RoleStands', NoneRestricted, GoesOn(w)
      PROVE  Guarded' /\ NotLostKnowingly
  <2>1. AssignmentsKept /\ GlobalSuperAdmins \subseteq GlobalSuperAdmins'
    BY <1>2, NoneLost
  <2>. QED
    BY <1>1, <1>2, <2>1, AllGoOn DEF Guarded, NotLostKnowingly
<1>3. ASSUME RoleStands', NoneRestricted, UNCHANGED request
      PROVE  Guarded' /\ NotLostKnowingly
  <2>1. AssignmentsKept /\ GlobalSuperAdmins \subseteq GlobalSuperAdmins'
    BY <1>3, NoneLost
  <2>. QED
    BY <1>1, <1>3, <2>1, NobodyGoesOn DEF Guarded, NotLostKnowingly
<1>4. CASE UNCHANGED vars
  <2>1. UNCHANGED <<users, roles, assignments, request>>
    BY <1>4 DEF vars, tables
  <2>2. RoleStands' /\ NoneRestricted
    BY <2>1 DEF Guarded, RoleStands, NoneRestricted
  <2>. QED
    BY <1>3, <2>1, <2>2
<1>5. CASE Next
  <2>1. CASE Clock
    <3>1. CASE \E a \in DOMAIN assignments : AssignmentExpires(a)
      BY <1>1, <3>1, Expiring, NobodyGoesOn DEF Guarded
    <3>2. CASE (\E u \in Users : LockEnds(u))
                  \/ \E s \in DOMAIN sessions : SessionExpires(s)
      BY <1>3, <3>2, ClockHarmless
    <3>. QED
      BY <2>1, <3>1, <3>2 DEF Clock
  <2>2. ASSUME NEW w \in Workers, AuthStarts(w) \/ UserStarts(w) \/ RoleStarts(w)
        PROVE  Guarded' /\ NotLostKnowingly
    BY <1>2, <2>2, StartsHarmless
  <2>3. ASSUME NEW w \in Workers, AuthSteps(w) \/ RevokeUserSessions(w) \/ RequestDies(w)
        PROVE  Guarded' /\ NotLostKnowingly
    BY <1>2, <2>3, AuthHarmless
  <2>4. ASSUME NEW w \in Workers, SetUserStatus(w) \/ RevokeAssignment(w)
        PROVE  Guarded' /\ NotLostKnowingly
    <3>1. RoleStands' /\ AssignmentsKept /\ GoesOn(w) /\ NotLostKnowingly
      BY <2>4, Restricting, RevokingOne
    <3>. QED
      BY <1>1, <3>1, AllGoOn DEF Guarded
  <2>5. ASSUME NEW w \in Workers, AdministrationSteps(w),
               ~(SetUserStatus(w) \/ RevokeAssignment(w))
        PROVE  Guarded' /\ NotLostKnowingly
    <3>1. RoleStands' /\ NoneRestricted /\ GoesOn(w)
      BY <2>5, UsersHarmless, RolesHarmless, AssigningHarmless, ChecksForesee
         DEF AdministrationSteps
    <3>. QED
      BY <1>2, <3>1
  <2>. QED
    BY <1>5, <2>1, <2>2, <2>3, <2>4, <2>5 DEF Next
<1>. QED
  BY <1>4, <1>5

-------------------------------------------------------------------------------
(* Theorems *)

\* In every reachable state the queries of access-control that decide on a
\* permission agree, at each station and globally, and the guard that lets a
\* scoped user pass without a station lets through exactly those for whom the
\* service finds one.
THEOREM AuthorityAgrees == Spec => []AuthorityQueriesAgree
<1>1. Init => Sound
  BY Initially
<1>2. Sound /\ [Next]_vars => Sound'
  BY Preserved
<1>. QED
  BY <1>1, <1>2, QueriesAgree, PTL DEF Spec

\* On each administrative route, whatever station a request names in its path, body
\* or query, guard and service together serve it where its user holds every
\* permission the route asks for, and nowhere else: at the station of the row, or,
\* where no service checks, at the one the guard was told.
THEOREM RoutesServed == Spec => []RoutesServeWhatIsPermitted
<1>1. Init => Sound
  BY Initially
<1>2. Sound /\ [Next]_vars => Sound'
  BY Preserved
<1>. QED
  BY <1>1, <1>2, RoutesServe, PTL DEF Spec

\* With any number of administrators, assignments and requests in flight, the
\* last global super admin goes only as its assignment expires, or by a request
\* of users or access-control whose check was made before its transaction and saw
\* another one, gone since, or none at all.
THEOREM LastSuperAdminKept == Spec => LastSuperAdminIsLostToARace
<1>1. Init => Guarded
  BY GuardedAtFirst
<1>2. Guarded /\ [Next]_vars => Guarded'
  BY EveryStep
<1>3. Guarded /\ [Next]_vars
      => [ GlobalSuperAdmins # {} /\ GlobalSuperAdmins' = {}
           => \/ \E a \in GlobalSuperAdmins : assignments'[a].life = "expired"
              \/ \E w \in Workers :
                    /\ request[w].op \in {"set_status", "revoke_assignment"}
                    /\ \/ request[w].saw = {}
                       \/ \E a \in request[w].saw : a \notin GlobalSuperAdmins ]_vars
  BY EveryStep DEF NotLostKnowingly
<1>. QED
  BY <1>1, <1>2, <1>3, PTL DEF Spec, LastSuperAdminIsLostToARace
================================================================================
