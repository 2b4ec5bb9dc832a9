------------------------------ MODULE DeviceReports -----------------------------
(***************************************************************************)
(* What becomes of an authenticated report of a device                      *)
(* (src/src/apps/device-ingestion): its row is inserted once, a handler     *)
(* changes the device, locker or port it is about, and the row is marked.   *)
(* Coins and acknowledgements have handlers too: Payments and               *)
(* DeviceCommands model those.  Heartbeats and telemetry here are those     *)
(* with a payload that their handlers accept.                               *)
(***************************************************************************)
EXTENDS FleetTables

Handled == {"heartbeat", "telemetry", "locker", "port"}
Fleet   == <<stations, sessions, credentials, access, customers>>

\* findDuplicate: a report of the same external id or sequence number.
Duplicates(r) ==
    {e \in ReportsOf(r.device) :
        \/ reports[e].content.external = r.content.external
        \/ r.content.sequence # None /\ reports[e].content.sequence = r.content.sequence}

\* The look for a duplicate, the insert and its unique indexes: a duplicate is
\* answered from its row, or refused if its content is another, and the foreign
\* key refuses the row of a device that has left the station it was
\* authenticated at.
IngestReappliesDuplicates(w) ==
    /\ request[w].op = "ingest"
    /\ LET r == request[w] IN
       IF Duplicates(r) # {}
       THEN /\ \E e \in Duplicates(r) :
                  Become(w, [op |-> "handle", about |-> r.about, report |-> e])
            /\ UNCHANGED reports
       ELSE /\ reports' = Append(reports,
                   [device |-> r.device, content |-> r.content, status |-> "received"])
            /\ Become(w, [op |-> "handle", about |-> r.about,
                          report |-> Len(reports) + 1])
    /\ UNCHANGED <<devices, lockers, ports, abandoned, Fleet>>
Ingest(w) ==
    /\ request[w].op = "ingest"
    /\ LET r == request[w] IN
       IF Duplicates(r) # {} \/ devices[r.device].station # r.station
       THEN Finish(w) /\ UNCHANGED reports
       ELSE /\ reports' = Append(reports,
                   [device |-> r.device, content |-> r.content, status |-> "received"])
            /\ Become(w, [op |-> "handle", about |-> r.about,
                          report |-> Len(reports) + 1])
    /\ UNCHANGED <<devices, lockers, ports, abandoned, Fleet>>

-------------------------------------------------------------------------------
(* DeviceEventProcessor and its handlers.  A handler that throws leaves its   *)
(* report failed.                                                             *)

Handling(w, kinds) ==
    request[w].op = "handle" /\ reports[request[w].report].content.kind \in kinds
Said(w)    == reports[request[w].report].content
Settle(w, status) ==
    Become(w, [op |-> "settle", about |-> request[w].about,
               report |-> request[w].report, status |-> status])

\* A handler threw.
ThrowsUnmarked(w) == Finish(w)
Throws(w) == Settle(w, "failed")

\* No handler takes the report: its row stays received.
Unhandled(w) ==
    /\ request[w].op = "handle" /\ Said(w).kind \notin Handled
    /\ Finish(w)
    /\ UNCHANGED tables

HeartbeatRead(w) ==
    /\ Handling(w, {"heartbeat"})
    /\ LET d == reports[request[w].report].device IN
       Become(w, [op |-> "beat", about |-> request[w].about,
                  report |-> request[w].report, device |-> d,
                  lifecycle |-> devices[d].lifecycle])
    /\ UNCHANGED tables

\* A device seen decommissioned is not put online.
HeartbeatAlways(w) ==
    /\ request[w].op = "beat"
    /\ devices' = [devices EXCEPT ![request[w].device].online = TRUE]
    /\ Settle(w, "processed")
    /\ UNCHANGED <<lockers, ports, reports, abandoned, Fleet>>
Heartbeat(w) ==
    /\ request[w].op = "beat"
    /\ devices' = IF request[w].lifecycle = "decommissioned" THEN devices
                  ELSE [devices EXCEPT ![request[w].device].online = TRUE]
    /\ Settle(w, "processed")
    /\ UNCHANGED <<lockers, ports, reports, abandoned, Fleet>>

Telemetry(w) ==
    /\ Handling(w, {"telemetry"})
    /\ devices' = [devices EXCEPT ![reports[request[w].report].device].online = TRUE]
    /\ Settle(w, "processed")
    /\ UNCHANGED <<lockers, ports, reports, abandoned, Fleet>>

\* A locker of another device is not found.
Found(w, rows) ==
    LET l == Said(w).locker IN
    rows[l] # None /\ DeviceOf[l] = reports[request[w].report].device

\* assertIn: a payload may leave a field out, and says no value but the allowed.
MaySay(value, allowed) == value \in allowed \union {None}
Stated(value, old)     == IF value = None THEN old ELSE value

LockerData(row, said) ==
    [row EXCEPT !.door = Stated(said.door, @), !.lock = Stated(said.lock, @)]

LockerReport(w) ==
    /\ Handling(w, {"locker"})
    /\ IF /\ Found(w, lockers)
          /\ MaySay(Said(w).door, DoorStatus) /\ MaySay(Said(w).lock, LockStatus)
       THEN /\ lockers' = [lockers EXCEPT ![Said(w).locker] = LockerData(@, Said(w))]
            /\ Settle(w, "processed")
       ELSE Throws(w) /\ UNCHANGED lockers
    /\ UNCHANGED <<devices, ports, reports, abandoned, Fleet>>

\* The lockers whose session is active: a session is inserted pending and gets its
\* access code, and nothing makes it active.
ActiveSessions == {}

\* portData
PortDataMixed(row, said) ==
    [row EXCEPT !.status = Stated(said.power, @), !.power = Stated(said.power, @)]
PortData(row, said) ==
    [row EXCEPT !.status = Stated(said.status, @), !.power = Stated(said.power, @)]

PortReport(w) ==
    /\ Handling(w, {"port"})
    /\ IF /\ Found(w, ports)
          /\ MaySay(Said(w).status, PortStatus) /\ MaySay(Said(w).power, PowerState)
          /\ Said(w).status = "available" => Said(w).locker \notin ActiveSessions
       THEN /\ ports' = [ports EXCEPT ![Said(w).locker] = PortData(@, Said(w))]
            /\ Settle(w, "processed")
       ELSE Throws(w) /\ UNCHANGED ports
    /\ UNCHANGED <<devices, lockers, reports, abandoned, Fleet>>

Mark(w) ==
    /\ request[w].op = "settle"
    /\ reports' = [reports EXCEPT ![request[w].report].status = request[w].status]
    /\ Finish(w)
    /\ UNCHANGED <<devices, lockers, ports, abandoned, Fleet>>

\* The update that marks a report processed fails: the report will be marked failed,
\* although its handler has written.
MarkFails(w) ==
    /\ request[w].op = "settle" /\ request[w].status = "processed"
    /\ request' = [request EXCEPT ![w].status = "failed"]
    /\ disturbed' = disturbed \union request[w].about
    /\ UNCHANGED <<tables, asked, events>>

ReportSteps(w) ==
    \/ Ingest(w) \/ Unhandled(w)
    \/ HeartbeatRead(w) \/ Heartbeat(w) \/ Telemetry(w)
    \/ LockerReport(w) \/ PortReport(w)
    \/ Mark(w)
================================================================================
