------------------------------ MODULE AdminRoutes -------------------------------
(***************************************************************************)
(* Who is served on the administrative routes.  A controller names the      *)
(* permission PermissionsGuard asks for, by handler; the service behind it  *)
(* then limits itself to the stations where the user holds a permission of  *)
(* its own choice.  A request may name a station.  The guard finds it in    *)
(* the path, the body or the query of any request, in this order; the       *)
(* service sees it only where its DTO or its path has the field.  `at` is   *)
(* the station of the row the request is about.                             *)
(***************************************************************************)
EXTENDS AccountTables

\* What a handler is decorated with, and what it can pass to its service.
Plain(code)  == [code |-> code, passes |-> {"nothing"}]
Filter(code) == [code |-> code, passes |-> {"nothing", "filter"}]
Names(code)  == [code |-> code, passes |-> {"station"}]

\* How a service limits itself.
Unscoped        == [over |-> "anything", codes |-> {}]
Globally(code)  == [over |-> "global", codes |-> {code}]
AtStation(code) == [over |-> "row", codes |-> {code}]
AtNamed(code)   == [over |-> "new", codes |-> {code}]
AtBoth(code)    == [over |-> "move", codes |-> {code}]
Lists(code)     == [over |-> "list", codes |-> {code}]
ListsAll        == [over |-> "all", codes |-> {}]
Also(check, code) == [check EXCEPT !.codes = @ \union {code}]

-------------------------------------------------------------------------------
(* Stations, devices, lockers and charging ports *)

StationsController ==
    [list |-> Plain("stations.read"), create |-> Plain("stations.create"),
     get |-> Plain("stations.read"), update |-> Plain("stations.update"),
     updateStatus |-> Plain("stations.deactivate")]
StationsService ==
    [list |-> Lists("stations.read"), get |-> AtStation("stations.read"),
     create |-> Globally("stations.create"), update |-> AtStation("stations.update"),
     updateStatus |-> AtStation("stations.deactivate")]

\* A device is created at the station the body names; an update may name the
\* station it is moved to.
DevicesController ==
    [list |-> Filter("devices.read"), create |-> Names("devices.create"),
     get |-> Plain("devices.read"), update |-> Plain("devices.update"),
     move |-> Names("devices.update"), updateLifecycle |-> Plain("devices.disable"),
     listForStation |-> Names("devices.read")]
DeviceReads ==
    [list |-> Lists("devices.read"), listForStation |-> Lists("devices.read"),
     get |-> AtStation("devices.read")]
DeviceWrites ==
    [create |-> AtNamed("devices.create"), update |-> AtStation("devices.update"),
     move |-> AtBoth("devices.update")]
DeviceLifecycleWrites == [updateLifecycle |-> AtStation("devices.disable")]

LockersController ==
    [list |-> Filter("lockers.read"), listForDevice |-> Filter("lockers.read"),
     create |-> Plain("lockers.configure"), get |-> Plain("lockers.read"),
     update |-> Plain("lockers.configure"),
     updateAvailability |-> Plain("lockers.configure")]
LockerReads ==
    [list |-> Lists("lockers.read"), listForDevice |-> Lists("lockers.read"),
     get |-> AtStation("lockers.read")]
LockerWrites ==
    [h \in {"create", "update", "updateAvailability"} |-> AtStation("lockers.configure")]

ChargingPortsController ==
    [list |-> Filter("charging_ports.read"), listForLocker |-> Filter("charging_ports.read"),
     create |-> Plain("charging_ports.configure"), get |-> Plain("charging_ports.read"),
     update |-> Plain("charging_ports.configure"),
     updateStatus |-> Plain("charging_ports.configure")]
ChargingPortReads ==
    [list |-> Lists("charging_ports.read"), listForLocker |-> Lists("charging_ports.read"),
     get |-> AtStation("charging_ports.read")]
ChargingPortWrites ==
    [h \in {"create", "update", "updateStatus"} |-> AtStation("charging_ports.configure")]

-------------------------------------------------------------------------------
(* Credentials, what devices sent, and commands *)

DeviceCredentialsController ==
    [list |-> Filter("device_credentials.read"),
     listForDevice |-> Filter("device_credentials.read"),
     get |-> Plain("device_credentials.read"),
     create |-> Plain("device_credentials.create"),
     rotate |-> Plain("device_credentials.rotate"),
     revoke |-> Plain("device_credentials.revoke"),
     forceRevoke |-> Plain("device_credentials.revoke")]
CredentialReads ==
    [list |-> Lists("device_credentials.read"),
     listForDevice |-> Lists("device_credentials.read"),
     get |-> AtStation("device_credentials.read")]
CredentialWrites ==
    [create |-> AtStation("device_credentials.create"),
     rotate |-> AtStation("device_credentials.rotate"),
     revoke |-> AtStation("device_credentials.revoke"),
     forceRevoke |-> Also(AtStation("device_credentials.revoke"),
                          "device_credentials.force_revoke")]

DeviceIngestionController ==
    [listEvents |-> Filter("device_events.read"), getEvent |-> Plain("device_events.read"),
     listTelemetry |-> Filter("device_telemetry.read"),
     getTelemetry |-> Plain("device_telemetry.read"),
     latestTelemetry |-> Plain("device_telemetry.read")]
DeviceEventReads ==
    [listEvents |-> Lists("device_events.read"), getEvent |-> AtStation("device_events.read")]
DeviceTelemetryReads ==
    [listTelemetry |-> Lists("device_telemetry.read"),
     getTelemetry |-> AtStation("device_telemetry.read"),
     latestTelemetry |-> AtStation("device_telemetry.read")]

\* Restart stands for the command types that need a permission more.
DeviceCommandsController ==
    [list |-> Filter("device_commands.read"), create |-> Plain("device_commands.create"),
     createRestart |-> Plain("device_commands.create"),
     get |-> Plain("device_commands.read"), cancel |-> Plain("device_commands.cancel")]
CommandLists == [list |-> Lists("device_commands.read")]
DeviceCommandsService ==
    [create |-> AtStation("device_commands.create"),
     createRestart |-> Also(AtStation("device_commands.create"), "devices.restart"),
     get |-> AtStation("device_commands.read"),
     cancel |-> AtStation("device_commands.cancel")]

PaymentsController ==
    [list |-> Filter("payments.read"), get |-> Plain("payments.read"),
     refund |-> Plain("payments.refund")]
PaymentReads  == [list |-> Lists("payments.read"), get |-> AtStation("payments.read")]
PaymentWrites == [refund |-> AtStation("payments.refund")]

-------------------------------------------------------------------------------
(* Accounts and audit logs: a list takes the station as a filter, no service *)
(* looks at the stations of its user.                                        *)

UsersController ==
    [list |-> Filter("users.read"), create |-> Plain("users.create"),
     get |-> Plain("users.read"), update |-> Plain("users.update"),
     updateStatus |-> Plain("users.update"), setTemporaryPassword |-> Plain("users.update")]
UserReads == [list |-> ListsAll]

RolesController ==
    [h \in {"list", "create", "get", "update", "updateStatus", "listPermissions",
            "syncPermissions"} |-> Plain("roles.manage")]

PermissionsController == [h \in {"list", "get"} |-> Plain("roles.manage")]

RoleAssignmentsController ==
    [list |-> Filter("roles.manage"), listForUser |-> Filter("roles.manage"),
     revoke |-> Plain("roles.manage")]
RoleAssignmentReads == [h \in {"list", "listForUser"} |-> ListsAll]

AuditLogsController ==
    [list |-> Filter("audit_logs.read"), get |-> Plain("audit_logs.read")]
AuditLogReads == [list |-> ListsAll]

-------------------------------------------------------------------------------

Behind(controller, service) ==
    {[guard |-> controller[h], check |-> service[h]] : h \in DOMAIN service}
Alone(controller, handlers) ==
    {[guard |-> controller[h], check |-> Unscoped] : h \in handlers}

Routes == UNION
    {Behind(StationsController, StationsService),
     Behind(DevicesController, DeviceReads), Behind(DevicesController, DeviceWrites),
     Behind(DevicesController, DeviceLifecycleWrites),
     Behind(LockersController, LockerReads), Behind(LockersController, LockerWrites),
     Behind(ChargingPortsController, ChargingPortReads),
     Behind(ChargingPortsController, ChargingPortWrites),
     Behind(DeviceCredentialsController, CredentialReads),
     Behind(DeviceCredentialsController, CredentialWrites),
     Behind(DeviceIngestionController, DeviceEventReads),
     Behind(DeviceIngestionController, DeviceTelemetryReads),
     Behind(DeviceCommandsController, CommandLists),
     Behind(DeviceCommandsController, DeviceCommandsService),
     Behind(PaymentsController, PaymentReads), Behind(PaymentsController, PaymentWrites),
     Behind(UsersController, UserReads),
     Behind(RoleAssignmentsController, RoleAssignmentReads),
     Behind(AuditLogsController, AuditLogReads),
     Alone(UsersController, DOMAIN UsersController \ {"list"}),
     Alone(RolesController, DOMAIN RolesController),
     Alone(PermissionsController, DOMAIN PermissionsController),
     Alone(RoleAssignmentsController, {"revoke"}), Alone(AuditLogsController, {"get"})}

\* stationWhere, deviceWhere and paymentWhere, with the filter of the request put
\* over them: the station it names replaces the user's own.
ListScopeOfUser(u, code, asked) ==
    LET ids == AuthorizedStationIds(u, code) IN
    (IF asked # None THEN {asked} ELSE {}) \union (IF ids = None THEN Stations ELSE ids)
ListScope(u, code, asked) ==
    IF asked # None THEN {asked}
    ELSE LET ids == AuthorizedStationIds(u, code) IN IF ids = None THEN Stations ELSE ids

Limits(u, check, asked, at) ==
    CASE check.over = "anything" -> TRUE
      [] check.over = "all"      -> asked \in {None, at}
      [] check.over = "list"     -> \A c \in check.codes : at \in ListScope(u, c, asked)
      [] check.over = "global"   -> \A c \in check.codes : RequireGlobal(u, c)
      [] check.over = "row"      -> \A c \in check.codes : RequireStation(u, c, at)
      [] check.over = "new"      -> \A c \in check.codes : RequireStation(u, c, asked)
      [] check.over = "move"     -> \A c \in check.codes :
                                       RequireStation(u, c, at) /\ RequireStation(u, c, asked)

\* What a request of the route says of a station to the guard and to the service.
\* One the path or the body names is the same for both.  A list takes its filter
\* from the query alone, and a station no DTO has a field for can be named all the
\* same: the guard reads the request before any pipe has.
Passed ==
    [nothing |-> {[guard |-> st, service |-> None] : st \in Stations \union {None}},
     filter  |-> [guard : Stations, service : Stations],
     station |-> {[guard |-> st, service |-> st] : st \in Stations}]
Asked(route) == UNION {Passed[how] : how \in route.guard.passes}

\* The request is carried out, or its answer shows the row.
Served(u, route, asked, at) ==
    /\ PermissionsGuard(u, route.guard.code, asked.guard)
    /\ Limits(u, route.check, asked.service, at)
================================================================================
