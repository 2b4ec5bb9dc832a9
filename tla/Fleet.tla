--------------------------------- MODULE Fleet ----------------------------------
(***************************************************************************)
(* The fleet as a whole: administrators change stations, devices, lockers,  *)
(* ports and credentials while devices report and customers pay.  Which     *)
(* rows there are at first is the model's choice.                           *)
(***************************************************************************)
EXTENDS FleetAdministration, DeviceAccess, DeviceReports, Checkout

CONSTANT Fleets

\* What administrators ask for and devices say.
ASSUME FleetInputs ==
    /\ StationTargets \subseteq StationStatus /\ LifecycleTargets \subseteq Lifecycle
    /\ None \notin StationStatus \union DeviceRow \union LockerRow \union PortRow
    /\ Signable \subseteq Contents
    /\ \A c \in Contents :
          /\ c.locker \in Lockers \union {None}
          /\ c.kind \in {"locker", "port"} => c.locker \in Lockers

\* The rows at first refer to rows that exist, and nothing in service stands at a
\* decommissioned station or was paid for on a decommissioned device.
ASSUME InitialFleets ==
    \A f \in Fleets :
        /\ f.stations \in [Stations -> StationStatus \union {None}]
        /\ f.devices \in [Devices -> DeviceRow \union {None}]
        /\ f.lockers \in [Lockers -> LockerRow \union {None}]
        /\ f.ports \in [Lockers -> PortRow \union {None}]
        /\ f.credentials \in Seq(CredentialRow) /\ f.payments \in Seq(PaymentRow)
        /\ \A d \in Devices : f.devices[d] # None =>
              /\ f.stations[f.devices[d].station] # None
              /\ f.stations[f.devices[d].station] = "decommissioned"
                 => f.devices[d].lifecycle = "decommissioned"
        /\ \A l \in Lockers : /\ f.lockers[l] # None => f.devices[DeviceOf[l]] # None
                              /\ f.ports[l] # None => f.lockers[l] # None
        /\ \A c \in DOMAIN f.credentials :
              f.devices[f.credentials[c].device] # None /\ f.credentials[c].from < c
        /\ \A i \in DOMAIN f.payments :
              /\ f.devices[f.payments[i].device] # None
              /\ f.devices[f.payments[i].device].lifecycle # "decommissioned"

Init ==
    /\ \E f \in Fleets :
          /\ stations = f.stations /\ devices = f.devices
          /\ lockers = f.lockers /\ ports = f.ports
          /\ credentials = f.credentials
          /\ store \in f.stores
          /\ payments = f.payments
          /\ asked = f.asked
    /\ sessions = {} /\ checkouts = <<>> /\ overtaken = {}
    /\ reports = <<>>
    /\ nonces = {} /\ signed = <<>> /\ taken = <<>>
    /\ now = 0 /\ boot = 0
    /\ request = [w \in Workers |-> Idle]
    /\ disturbed = {} /\ abandoned = {}
    /\ events = 0

Starts(w) ==
    \/ "stations" \in asked /\ StationStarts(w)
    \/ "devices" \in asked /\ DeviceStarts(w)
    \/ "lifecycle" \in asked /\ LifecycleStarts(w)
    \/ "places" \in asked /\ PlaceStarts(w)
    \/ "credentials" \in asked /\ CredentialStarts(w)
    \/ "keyed" \in asked /\ KeyedStarts(w)
    \/ "customers" \in asked /\ CustomerStarts(w)
    \/ "signed" \in asked /\ SignedStarts(w)

Next ==
    \/ \E w \in Workers :
          \/ Starts(w)
          \/ AdministrationSteps(w) \/ CredentialSteps(w) \/ HmacSteps(w)
          \/ ReportSteps(w) \/ CustomerSteps(w)
          \/ MarkFails(w) \/ RequestDies(w)
    \/ CustomerEvents
    \/ "clock" \in asked /\ AccessClock
    \/ "signed" \in asked /\ TimePasses

Spec == Init /\ [][Next]_vars

-------------------------------------------------------------------------------
(* Properties *)

Messages == [credential : DOMAIN credentials, nonce : Nat, stamp : Nat,
             content : Contents]

\* Every row is one the code can have written, what requests refer to exists, and
\* a port never stands without its locker.
TypeOK ==
    /\ stations \in [Stations -> StationStatus \union {None}]
    /\ devices \in [Devices -> DeviceRow \union {None}]
    /\ lockers \in [Lockers -> LockerRow \union {None}]
    /\ ports \in [Lockers -> PortRow \union {None}]
    /\ \A l \in Lockers : /\ HasLocker(l) => Exists(DeviceOf[l])
                          /\ HasPort(l) => HasLocker(l)
    /\ sessions \subseteq {l \in Lockers : HasPort(l)}
    /\ \A c \in DOMAIN credentials :
          credentials[c] \in CredentialRow /\ credentials[c].from < c
    /\ \A e \in DOMAIN reports : reports[e] \in ReportRow
    /\ \A i \in DOMAIN signed : signed[i] \in Messages
    /\ \A c \in DOMAIN checkouts : checkouts[c] \in CheckoutRow
    /\ \A i \in DOMAIN payments : payments[i] \in PaymentRow
    /\ overtaken \subseteq Devices
    /\ abandoned \subseteq DOMAIN reports
    /\ disturbed \subseteq Stations \union Devices \union Lockers

\* A decommissioned station or device comes back only by a request that read its
\* row before, as another request about it was in flight: the policies treat the
\* status as terminal, and the writes are by id alone.
DecommissionIsFinal ==
    [][ /\ \A s \in Stations :
              stations[s] = "decommissioned" /\ stations'[s] # "decommissioned"
              => s \in disturbed
        /\ \A d \in Devices :
              Exists(d) /\ ~IsLive(d) /\ IsLive(d)' => d \in disturbed ]_vars

\* A decommissioned station has no device that is not, unless two requests about
\* the station or about the device were in flight at once: closing a station
\* counts its devices, and devices are neither created at nor moved to a closed one.
ClosedStationsHaveNoLiveDevice ==
    \A s \in Stations : stations[s] = "decommissioned" =>
        \A d \in LiveDevicesAt(s) : s \in disturbed \/ d \in disturbed

\* A decommissioned device holds no session, unless requests about the device were
\* in flight at once, or a customer was under way when it was decommissioned: the
\* lifecycle change counts sessions, and no new customer is let in afterwards.
RetiredDevicesHoldNoSession ==
    \A l \in sessions :
        ~IsLive(DeviceOf[l]) => DeviceOf[l] \in disturbed \union overtaken

\* A port changes its channel only while nothing charges on it and its device is
\* out of service, unless a session, report or request came in between the check
\* and the update.
ChannelsChangeAtRest ==
    [][ \A l \in Lockers :
          /\ HasPort(l) /\ ports[l].channel # ports'[l].channel
          /\ {l, DeviceOf[l]} \intersect disturbed = {}
          => AtRest(l) /\ Reconfigurable(DeviceOf[l]) ]_vars

\* A device in service loses its last usable credential only to the clock, to a
\* revocation that was forced, or to one that met the device out of service or
\* another active credential that is of no use by now, because it has gone or had
\* expired, or is a certificate: the count is read before the transaction and looks
\* at neither expires_at nor the type.
LastCredentialIsLostToARace ==
    [][ \A d \in Devices :
          /\ Exists(d) /\ devices[d].lifecycle = "active"
          /\ UsableCredentials(d) # {} /\ UsableCredentials(d)' = {}
          => \/ \E c \in UsableCredentials(d) : credentials'[c].expired
             \/ \E w \in Workers :
                   /\ request[w].op = "revoke"
                   /\ \/ request[w].force
                      \/ request[w].lifecycle # "active"
                      \/ /\ request[w].others # {}
                         /\ request[w].others \intersect UsableCredentials(d) = {}
      ]_vars

\* A signed request is taken twice only once the nonce's Skew seconds are over: not
\* "for the replay window", as docs/device-authentication.md:83-84 has it, for a
\* stamp is accepted for twice as long.  And then the repeat has waited, between
\* the check of its stamp and the reservation of its nonce, for at least as long as
\* the device's clock was behind the server's when the request was first taken: not
\* at all if it was not behind.  Within one run of the server, or with Redis.
TakenAgainOnlyAfterItsNonce ==
    \A i, j \in DOMAIN taken :
        /\ i < j /\ taken[i].message = taken[j].message
        /\ store = "redis" \/ taken[i].boot = taken[j].boot
        => /\ taken[j].at >= taken[i].at + Skew
           /\ taken[i].at + taken[j].checked <= taken[j].at + taken[i].message.stamp

\* A report with a handler is marked, or in the hands of one request, unless that
\* request died: no later delivery takes up a report that was left received.
ReceivedReportsAreInHand ==
    \A e \in DOMAIN reports :
        /\ reports[e].content.kind \in Handled /\ reports[e].status = "received"
        => \/ e \in abandoned
           \/ \E w \in Workers : /\ request[w].op \in {"handle", "beat", "settle"}
                                 /\ request[w].report = e

DoorReports(l) ==
    {e \in DOMAIN reports : /\ reports[e].status = "processed"
                            /\ reports[e].content.kind = "locker"
                            /\ reports[e].content.locker = l
                            /\ reports[e].content.door # None}
Latest(set) == CHOOSE e \in set : \A f \in set : f <= e

\* A locker's door is as the latest of its processed reports to say something of it
\* said, however often older ones are repeated, unless two requests about the locker
\* were in flight at once, or a report's mark failed: the latest is the one inserted
\* last, since sequence numbers only find duplicates and times are not compared.
DoorIsAsLastReported ==
    \A l \in Lockers :
        /\ HasLocker(l) /\ l \notin disturbed
        /\ DoorReports(l) # {}
        /\ \A w \in Workers : l \notin request[w].about
        => lockers[l].door = reports[Latest(DoorReports(l))].content.door

\* Only telemetry puts a decommissioned device online; a heartbeat does if it read
\* the device before it was decommissioned.
OnlyTelemetryWakesARetiredDevice ==
    [][ \A d \in Devices :
          /\ Exists(d) /\ ~IsLive(d) /\ ~devices[d].online /\ devices'[d].online
          => \E w \in Workers :
                /\ request[w].op \in {"handle", "beat"}
                /\ reports[request[w].report].device = d
                /\ \/ Said(w).kind = "telemetry"
                   \/ request[w].op = "beat" /\ request[w].lifecycle # "decommissioned"
      ]_vars
================================================================================
