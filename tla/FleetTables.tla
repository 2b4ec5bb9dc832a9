------------------------------ MODULE FleetTables -------------------------------
(***************************************************************************)
(* The rows of the machines in the field: stations, the devices that stand  *)
(* at them, their lockers and charging ports, the credentials a device      *)
(* signs its requests with, the reports (device_events) it sends, and the   *)
(* checkout tokens and payments of its customers.  Requests of              *)
(* administrators, devices and customers are in flight at once; request[w]  *)
(* is what worker w has read and does next.  A locker has one charging port *)
(* and both go by the locker's name.                                        *)
(***************************************************************************)
EXTENDS Naturals, Sequences, FiniteSets

CONSTANTS
    Stations,
    Devices,
    Lockers,
    DeviceOf,         \* lockers.device_id
    Channels,         \* charging_ports.hardware_channel
    CredentialTypes,
    QrTokens,         \* what the codes on devices say
    QrSettings,       \* the system_settings rows that hold their hashes
    IdempotencyKeys,  \* bound: keys a customer sends with one checkout token
    Contents,         \* what devices send
    Signable,         \* bound: those they send signed with an HMAC as well
    StationTargets,   \* the station statuses administrators ask for
    LifecycleTargets, \* the lifecycle statuses administrators ask for
    Workers,          \* HTTP requests a server can have in flight
    Skew,             \* security.deviceHmacClockSkewSeconds
    MaxEvents,        \* bound: requests, restarts and expiries in a behaviour
    None

\* A content is a record of its external id, its sequence number, its kind, the
\* locker it is about and the door, lock, port status and port power it says; None
\* stands for what it does not say.
QrHash == [qr : QrTokens, status : {"active", "rotated"}, expired : BOOLEAN]

ASSUME FleetConstants ==
    /\ DeviceOf \in [Lockers -> Devices]
    /\ None \notin Stations \union Devices \union Lockers \union Channels
    /\ QrSettings \subseteq [device : Devices, status : {"active", "inactive"},
                             hashes : SUBSET QrHash]
    /\ Skew \in Nat /\ MaxEvents \in Nat

VARIABLES
    stations,    \* stations.status of each station, or None
    devices,     \* devices row, or None
    lockers,     \* lockers row, or None
    ports,       \* charging_ports row of the locker, or None
    sessions,    \* lockers that a current charging session holds
    checkouts,   \* records of checkout tokens, in order of issue
    payments,    \* public payments, in order of insertion
    credentials, \* device_credentials, in order of insertion
    reports,     \* device_events, in order of insertion
    nonces,      \* the nonces a server or Redis remembers, and until when
    store,       \* where they are kept: "memory" or "redis"
    now,         \* seconds on the server's clock
    boot,        \* auxiliary: restarts of the server so far
    signed,      \* auxiliary: requests the devices have signed
    taken,       \* auxiliary: signed requests that were authenticated
    request,     \* what each in-flight request read and does next
    asked,       \* bound: what is asked for in this behaviour
    disturbed,   \* auxiliary: rows two requests had in hand at one time, or
                 \* that a request died with
    overtaken,   \* auxiliary: devices decommissioned while a customer had a
                 \* checkout token or an unserved payment for them
    abandoned,   \* auxiliary: reports whose request died
    events       \* auxiliary: requests, restarts and expiries so far

customers == <<checkouts, payments, overtaken>>
fleet  == <<stations, devices, lockers, ports, sessions, customers>>
access == <<nonces, store, now, boot, signed, taken>>
tables == <<fleet, credentials, reports, abandoned, access>>
vars   == <<tables, request, asked, disturbed, events>>

\* Bound: long enough for the nonce of a request and its stamp to run out.
Horizon == 2 * Skew

Idle == [op |-> "idle", about |-> {}]

StationStatus == {"planned", "active", "maintenance", "inactive", "decommissioned"}
Lifecycle     == {"pending", "active", "maintenance", "disabled", "decommissioned"}

DeviceRow == [station : Stations, lifecycle : Lifecycle, online : BOOLEAN]
DoorStatus    == {"unknown", "open", "closed"}
LockStatus    == {"unknown", "locked", "unlocked", "fault"}
PortStatus    == {"available", "in_use", "maintenance", "disabled", "fault"}
PowerState    == {"unknown", "off", "on", "fault"}
LockerRow == [availability : {"available", "reserved", "maintenance", "disabled"},
              door : DoorStatus, lock : LockStatus]
PortRow   == [status : PortStatus, power : PowerState, channel : Channels]
CredentialRow == [device : Devices, type : CredentialTypes, active : BOOLEAN,
                  expired : BOOLEAN, from : Nat]
ReportRow == [device : Devices, content : Contents,
              status : {"received", "processed", "failed"}]
CheckoutRow == [device : Devices, expired : BOOLEAN]
PaymentRow  == [device : Devices, checkout : Nat, key : IdempotencyKeys, served : BOOLEAN]

Exists(d)    == devices[d] # None
IsLive(d)    == Exists(d) /\ devices[d].lifecycle # "decommissioned"
HasLocker(l) == lockers[l] # None
HasPort(l)   == ports[l] # None

LiveDevicesAt(s) == {d \in Devices : IsLive(d) /\ devices[d].station = s}
SessionsOn(d)    == {l \in sessions : DeviceOf[l] = d}
\* Devices that a customer has a checkout token or an unserved payment for.
Underway ==
    {checkouts[c].device : c \in {k \in DOMAIN checkouts : ~checkouts[k].expired}}
    \union {payments[i].device : i \in {j \in DOMAIN payments : ~payments[j].served}}

ReportsOf(d)     == {e \in DOMAIN reports : reports[e].device = d}

\* DeviceCredentialRecord.activeCredentialCount looks at neither expires_at nor the
\* type; authentication looks at both, and takes no certificates.
ActiveCredentials(d) == {c \in DOMAIN credentials :
                            credentials[c].device = d /\ credentials[c].active}
UsableCredentials(d) == {c \in ActiveCredentials(d) :
                            /\ ~credentials[c].expired
                            /\ credentials[c].type \in {"api_key", "hmac"}}

-------------------------------------------------------------------------------
(* Requests.  A request names the rows it is about. *)

InHand == UNION {request[w].about : w \in Workers}

Occurs  == events < MaxEvents /\ events' = events + 1 /\ UNCHANGED asked
Free(w) == request[w] = Idle /\ events < MaxEvents

TakeUp(w, r) ==
    /\ request' = [request EXCEPT ![w] = r]
    /\ disturbed' = disturbed \union (r.about \intersect InHand)

Start(w, r) == Free(w) /\ Occurs /\ TakeUp(w, r)

\* A request whose one statement is all it does.
AtOnce(w) == Free(w) /\ Occurs /\ UNCHANGED <<request, disturbed>>

Become(w, r) ==
    request' = [request EXCEPT ![w] = r] /\ UNCHANGED <<asked, disturbed, events>>
Finish(w) == Become(w, Idle)

\* A process stops half-way through a request; what it committed stays.
Dying(set) ==
    /\ request' = [w \in Workers |-> IF w \in set THEN Idle ELSE request[w]]
    /\ disturbed' = disturbed \union UNION {request[w].about : w \in set}
    /\ abandoned' = abandoned \union
          {request[w].report : w \in {v \in set : request[v].op \in {"handle", "beat", "settle"}}}

RequestDies(w) ==
    /\ request[w] # Idle
    /\ Dying({w})
    /\ UNCHANGED <<fleet, credentials, reports, access, asked, events>>
================================================================================
