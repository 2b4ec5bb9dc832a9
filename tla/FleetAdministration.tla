-------------------------- MODULE FleetAdministration ---------------------------
(***************************************************************************)
(* The administrative requests of src/src/apps/stations, devices, lockers   *)
(* and charging-ports.  Each reads its rows and checks them, and writes     *)
(* later by id.  That the caller may ask is Accounts' matter: a request     *)
(* that is refused changes nothing and is not started here.  Names, labels  *)
(* and electrical limits are left out, and with them the requests that      *)
(* change nothing else.                                                     *)
(***************************************************************************)
EXTENDS FleetTables

rest == <<credentials, reports, abandoned, access, customers>>

-------------------------------------------------------------------------------
(* Stations *)

StationPolicyReopens(current, next, live) ==
    next = "decommissioned" => live = {}
StationPolicy(current, next, live) ==
    /\ current = "decommissioned" => next = "decommissioned"
    /\ next = "decommissioned" => live = {}

StationStatusRequested(w, s, next) ==
    /\ stations[s] # None
    /\ StationPolicy(stations[s], next, LiveDevicesAt(s))
    /\ Start(w, [op |-> "station_status", about |-> {s}, station |-> s, next |-> next])
    /\ UNCHANGED tables

SetStationStatus(w) ==
    /\ request[w].op = "station_status"
    /\ stations' = [stations EXCEPT ![request[w].station] = request[w].next]
    /\ Finish(w)
    /\ UNCHANGED <<devices, lockers, ports, sessions, rest>>

\* One INSERT, refused for a code that is taken.
CreateStation(w, s, status) ==
    /\ stations[s] = None
    /\ AtOnce(w)
    /\ stations' = [stations EXCEPT ![s] = status]
    /\ UNCHANGED <<devices, lockers, ports, sessions, rest>>

-------------------------------------------------------------------------------
(* Devices *)

StationAssignable(s) == stations[s] \notin {None, "inactive", "decommissioned"}

CreateDeviceUnchecked(w, d, s) ==
    /\ ~Exists(d) /\ stations[s] # None
    /\ Start(w, [op |-> "create_device", about |-> {d, s}, device |-> d, station |-> s])
    /\ UNCHANGED tables

\* A second insert of the device is refused.
CreateDeviceRequested(w, d, s) ==
    /\ ~Exists(d)
    /\ StationAssignable(s)
    /\ Start(w, [op |-> "create_device", about |-> {d, s}, device |-> d, station |-> s])
    /\ UNCHANGED tables

CreateDevice(w) ==
    /\ request[w].op = "create_device"
    /\ devices' = IF Exists(request[w].device) THEN devices
                  ELSE [devices EXCEPT ![request[w].device] =
                           [station |-> request[w].station,
                            lifecycle |-> "pending", online |-> FALSE]]
    /\ Finish(w)
    /\ UNCHANGED <<stations, lockers, ports, sessions, rest>>

HasHistory(d) == SessionsOn(d) # {} \/ ReportsOf(d) # {}

\* Rows whose foreign keys name the device with its station.
Anchored(d) ==
    \/ HasHistory(d)
    \/ \E i \in DOMAIN payments : payments[i].device = d
    \/ \E setting \in QrSettings : setting.device = d

\* validateStationChange; a request that names the station the device is at is
\* not asked any of this.
StationChangeAllowed(d, s) ==
    \/ devices[d].station = s
    \/ /\ devices[d].lifecycle = "pending"
       /\ StationAssignable(s)
       /\ ~HasHistory(d)

MoveDeviceRequested(w, d, s) ==
    /\ Exists(d)
    /\ StationChangeAllowed(d, s)
    /\ Start(w, [op |-> "move_device", about |-> {d, s}, device |-> d, station |-> s])
    /\ UNCHANGED tables

\* The update writes station_id whether it changed or not; foreign keys refuse to
\* let a device leave its rows.
MoveDevice(w) ==
    /\ request[w].op = "move_device"
    /\ LET d == request[w].device IN
       devices' = IF devices[d].station # request[w].station /\ Anchored(d)
                  THEN devices
                  ELSE [devices EXCEPT ![d].station = request[w].station]
    /\ Finish(w)
    /\ UNCHANGED <<stations, lockers, ports, sessions, rest>>

transitions ==
    [pending        |-> {"active", "disabled"},
     active         |-> {"maintenance", "disabled", "decommissioned"},
     maintenance    |-> {"active", "disabled", "decommissioned"},
     disabled       |-> {"active", "decommissioned"},
     decommissioned |-> {}]

LifecyclePolicyWhileHeld(current, next, held) ==
    next \in transitions[current] \union {current}
LifecyclePolicy(current, next, held) ==
    /\ next \in transitions[current] \union {current}
    /\ next = "decommissioned" => held = {}

LifecycleRequested(w, d, next) ==
    /\ Exists(d)
    /\ LifecyclePolicy(devices[d].lifecycle, next, SessionsOn(d))
    /\ Start(w, [op |-> "lifecycle", about |-> {d}, device |-> d, next |-> next])
    /\ UNCHANGED tables

SetLifecycle(w) ==
    /\ request[w].op = "lifecycle"
    /\ devices' = [devices EXCEPT ![request[w].device].lifecycle = request[w].next]
    /\ overtaken' = overtaken \union
          {d \in Underway : d = request[w].device /\ request[w].next = "decommissioned"}
    /\ Finish(w)
    /\ UNCHANGED <<stations, lockers, ports, sessions, credentials, reports, abandoned,
                   access, checkouts, payments>>

-------------------------------------------------------------------------------
(* Lockers *)

Equipable(d) == Exists(d) /\ devices[d].lifecycle \notin {"disabled", "decommissioned"}

CreateLockerRequested(w, l) ==
    /\ Equipable(DeviceOf[l]) /\ ~HasLocker(l)
    /\ Start(w, [op |-> "create_locker", about |-> {l, DeviceOf[l]}, locker |-> l])
    /\ UNCHANGED tables

CreateLocker(w) ==
    /\ request[w].op = "create_locker"
    /\ lockers' = IF HasLocker(request[w].locker) THEN lockers
                  ELSE [lockers EXCEPT ![request[w].locker] =
                           [availability |-> "available", door |-> "unknown",
                            lock |-> "unknown"]]
    /\ Finish(w)
    /\ UNCHANGED <<stations, devices, ports, sessions, rest>>

AvailabilityPolicy(l, next) ==
    /\ l \notin sessions
    /\ next = "available" => lockers[l].door # "open" /\ lockers[l].lock # "fault"

AvailabilityRequested(w, l, next) ==
    /\ HasLocker(l)
    /\ AvailabilityPolicy(l, next)
    /\ Start(w, [op |-> "availability", about |-> {l}, locker |-> l, next |-> next])
    /\ UNCHANGED tables

SetAvailability(w) ==
    /\ request[w].op = "availability"
    /\ lockers' = [lockers EXCEPT ![request[w].locker].availability = request[w].next]
    /\ Finish(w)
    /\ UNCHANGED <<stations, devices, ports, sessions, rest>>

-------------------------------------------------------------------------------
(* Charging ports *)

ChannelTaken(l, channel) ==
    \E k \in Lockers \ {l} :
        DeviceOf[k] = DeviceOf[l] /\ HasPort(k) /\ ports[k].channel = channel

CreatePortRequested(w, l, channel) ==
    /\ HasLocker(l) /\ ~HasPort(l)
    /\ Equipable(DeviceOf[l])
    /\ lockers[l].availability # "disabled"
    /\ ~ChannelTaken(l, channel)
    /\ Start(w, [op |-> "create_port", about |-> {l, DeviceOf[l]}, locker |-> l,
                 channel |-> channel])
    /\ UNCHANGED tables

\* The unique indexes refuse a second port of the locker, or on the channel.
CreatePort(w) ==
    /\ request[w].op = "create_port"
    /\ LET l == request[w].locker IN
       ports' = IF HasPort(l) \/ ChannelTaken(l, request[w].channel) THEN ports
                ELSE [ports EXCEPT ![l] = [status |-> "available", power |-> "off",
                                           channel |-> request[w].channel]]
    /\ Finish(w)
    /\ UNCHANGED <<stations, devices, lockers, sessions, rest>>

AtRest(l) == l \notin sessions /\ ports[l].power # "on"

Reconfigurable(d) == devices[d].lifecycle \in {"pending", "maintenance", "disabled"}

ChannelChangeAllowedWhileHeld(l, channel) ==
    /\ ports[l].power # "on"
    /\ Reconfigurable(DeviceOf[l])
    /\ ~ChannelTaken(l, channel)

\* validateUpdate for a request that changes the channel.
ChannelChangeAllowed(l, channel) ==
    /\ AtRest(l)
    /\ Reconfigurable(DeviceOf[l])
    /\ ~ChannelTaken(l, channel)
ChannelChangeRequested(w, l, channel) ==
    /\ HasPort(l) /\ ports[l].channel # channel
    /\ ChannelChangeAllowed(l, channel)
    /\ Start(w, [op |-> "channel", about |-> {l, DeviceOf[l]}, locker |-> l,
                 channel |-> channel])
    /\ UNCHANGED tables

SetChannel(w) ==
    /\ request[w].op = "channel"
    /\ ports' = IF ChannelTaken(request[w].locker, request[w].channel) THEN ports
                ELSE [ports EXCEPT ![request[w].locker].channel = request[w].channel]
    /\ Finish(w)
    /\ UNCHANGED <<stations, devices, lockers, sessions, rest>>

PortStatusPolicy(l, next) ==
    /\ next \in {"maintenance", "disabled"} => l \notin sessions
    /\ next = "available" => ports[l].power \notin {"on", "fault"}

PortStatusRequested(w, l, next) ==
    /\ HasPort(l)
    /\ PortStatusPolicy(l, next)
    /\ Start(w, [op |-> "port_status", about |-> {l}, locker |-> l, next |-> next])
    /\ UNCHANGED tables

SetPortStatus(w) ==
    /\ request[w].op = "port_status"
    /\ ports' = [ports EXCEPT ![request[w].locker].status = request[w].next]
    /\ Finish(w)
    /\ UNCHANGED <<stations, devices, lockers, sessions, rest>>

-------------------------------------------------------------------------------

StationStarts(w) ==
    \E s \in Stations, next \in StationTargets :
        StationStatusRequested(w, s, next) \/ CreateStation(w, s, next)

DeviceStarts(w) ==
    \E d \in Devices, s \in Stations :
        CreateDeviceRequested(w, d, s) \/ MoveDeviceRequested(w, d, s)

LifecycleStarts(w) ==
    \E d \in Devices, next \in LifecycleTargets : LifecycleRequested(w, d, next)

PlaceStarts(w) ==
    \E l \in Lockers :
        \/ CreateLockerRequested(w, l)
        \/ \E next \in {"available", "maintenance", "disabled"} :
              AvailabilityRequested(w, l, next) \/ PortStatusRequested(w, l, next)
        \/ \E channel \in Channels :
              CreatePortRequested(w, l, channel) \/ ChannelChangeRequested(w, l, channel)

AdministrationSteps(w) ==
    \/ SetStationStatus(w)
    \/ CreateDevice(w) \/ MoveDevice(w) \/ SetLifecycle(w)
    \/ CreateLocker(w) \/ SetAvailability(w)
    \/ CreatePort(w) \/ SetChannel(w) \/ SetPortStatus(w)
================================================================================
