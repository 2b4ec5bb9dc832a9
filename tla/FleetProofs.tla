------------------------------- MODULE FleetProofs -------------------------------
(***************************************************************************)
(* Proofs about Fleet, for any stations, devices, lockers, credentials,     *)
(* reports, customers and requests in flight.                               *)
(***************************************************************************)
EXTENDS Fleet, FiniteSetTheorems, TLAPS

-------------------------------------------------------------------------------
(* The inductive invariant *)

Names == Stations \union Devices \union Lockers

\* What the rows refer to exists.
Fielded ==
    /\ stations \in [Stations -> StationStatus \union {None}]
    /\ devices \in [Devices -> DeviceRow \union {None}]
    /\ lockers \in [Lockers -> LockerRow \union {None}]
    /\ ports \in [Lockers -> PortRow \union {None}]
    /\ \A d \in Devices : Exists(d) => stations[devices[d].station] # None
    /\ \A l \in Lockers : /\ HasLocker(l) => Exists(DeviceOf[l])
                          /\ HasPort(l) => HasLocker(l)
    /\ sessions \subseteq {l \in Lockers : HasPort(l)}

Keyed ==
    /\ credentials \in Seq(CredentialRow)
    /\ \A c \in DOMAIN credentials :
          Exists(credentials[c].device) /\ credentials[c].from < c

Reported ==
    /\ reports \in Seq(ReportRow)
    /\ \A e \in DOMAIN reports : Exists(reports[e].device)
    /\ abandoned \subseteq DOMAIN reports

Sold ==
    /\ checkouts \in Seq(CheckoutRow) /\ payments \in Seq(PaymentRow)
    /\ overtaken \subseteq Devices

Message == [credential : Nat, nonce : Nat, stamp : Nat, content : Contents]

Accessed ==
    /\ signed \in Seq(Message)
    /\ \A i \in DOMAIN signed : signed[i].credential \in DOMAIN credentials
    /\ now \in Nat

Rows == Fielded /\ Keyed /\ Reported /\ Sold /\ Accessed

\* What a request read and goes on to write exists, and is what it is about.
Fits(r) ==
    /\ r.about \subseteq Names
    /\ r.op = "station_status"
       => /\ r.station \in Stations \intersect r.about /\ stations[r.station] # None
          /\ r.next \in StationStatus
    /\ r.op \in {"create_device", "move_device"}
       => /\ r.station \in Stations \intersect r.about /\ stations[r.station] # None
          /\ r.device \in Devices \intersect r.about
    /\ r.op \in {"move_device", "lifecycle"}
       => r.device \in Devices \intersect r.about /\ Exists(r.device)
    /\ r.op = "lifecycle" => r.next \in Lifecycle
    /\ r.op = "create_locker"
       => r.locker \in Lockers \intersect r.about /\ Exists(DeviceOf[r.locker])
    /\ r.op \in {"availability", "create_port"}
       => r.locker \in Lockers \intersect r.about /\ HasLocker(r.locker)
    /\ r.op \in {"port_status", "channel"}
       => r.locker \in Lockers \intersect r.about /\ HasPort(r.locker)
    /\ r.op \in {"availability", "port_status"}
       => r.next \in {"available", "maintenance", "disabled"}
    /\ r.op \in {"create_port", "channel"} => r.channel \in Channels
    /\ r.op = "channel" => DeviceOf[r.locker] \in r.about
    /\ r.op = "create_credential"
       => /\ r.device \in Devices /\ Exists(r.device) /\ r.type \in CredentialTypes
    /\ r.op \in {"rotate", "revoke"} => r.credential \in DOMAIN credentials
    /\ r.op = "revoke"
       => /\ r.force \/ r.lifecycle # "active" \/ r.others # {}
          /\ r.credential \notin r.others
    /\ r.op \in {"find_credential", "reserve_nonce"}
       => /\ r.message \in Message /\ r.message.credential \in DOMAIN credentials
          /\ r.checked \in Nat
    /\ r.op = "reserve_nonce"
       => /\ r.device \in Devices \intersect r.about /\ Exists(r.device)
          /\ r.message.content.locker \in r.about \union {None}
    /\ r.op = "ingest"
       => /\ r.device \in Devices \intersect r.about /\ Exists(r.device)
          /\ r.content \in Contents /\ r.content.locker \in r.about \union {None}
    /\ r.op \in {"handle", "beat", "settle"}
       => /\ r.report \in DOMAIN reports
          /\ reports[r.report].device \in r.about
          /\ reports[r.report].content.locker \in r.about \union {None}
    /\ r.op = "beat" => r.device = reports[r.report].device
    /\ r.op = "settle" => r.status \in {"processed", "failed"}
    /\ r.op = "issue" => r.device \in Devices \intersect r.about
    /\ r.op = "pay"
       => /\ r.checkout \in DOMAIN checkouts /\ r.key \in IdempotencyKeys
          /\ checkouts[r.checkout].device \in r.about

RequestsFit ==
    /\ request = [w \in Workers |-> request[w]]
    /\ \A w \in Workers : Fits(request[w])

\* What two requests are about at one time is disturbed.
Overlap ==
    /\ disturbed \subseteq Names
    /\ \A v, w \in Workers :
          v # w => request[v].about \intersect request[w].about \subseteq disturbed

Sound == Rows /\ RequestsFit /\ Overlap

\* Nothing that a request refers to goes away.
Standing ==
    /\ \A s \in Stations : stations[s] # None => stations'[s] # None
    /\ \A d \in Devices : Exists(d) => Exists(d)'
    /\ \A l \in Lockers : HasLocker(l) => HasLocker(l)'
    /\ \A l \in Lockers : HasPort(l) => HasPort(l)'

Grow ==
    /\ Standing
    /\ DOMAIN credentials \subseteq DOMAIN credentials'
    /\ \A e \in DOMAIN reports :
          /\ e \in DOMAIN reports'
          /\ reports'[e].device = reports[e].device
          /\ reports'[e].content = reports[e].content
    /\ \A c \in DOMAIN checkouts :
          c \in DOMAIN checkouts' /\ checkouts'[c].device = checkouts[c].device

-------------------------------------------------------------------------------
(* Rows *)

LEMMA RowsHold ==
    ASSUME Rows
    PROVE  /\ DOMAIN credentials = 1..Len(credentials) /\ Len(credentials) \in Nat
           /\ \A c \in DOMAIN credentials :
                 credentials[c] \in CredentialRow /\ credentials[c].device \in Devices
           /\ DOMAIN reports = 1..Len(reports) /\ Len(reports) \in Nat
           /\ \A e \in DOMAIN reports :
                 /\ reports[e] \in ReportRow /\ reports[e].device \in Devices
                 /\ reports[e].content \in Contents
           /\ DOMAIN checkouts = 1..Len(checkouts) /\ Len(checkouts) \in Nat
           /\ \A c \in DOMAIN checkouts :
                 checkouts[c] \in CheckoutRow /\ checkouts[c].device \in Devices
           /\ DOMAIN payments = 1..Len(payments) /\ Len(payments) \in Nat
           /\ \A i \in DOMAIN payments :
                 payments[i] \in PaymentRow /\ payments[i].device \in Devices
           /\ DOMAIN signed = 1..Len(signed) /\ Len(signed) \in Nat
           /\ \A i \in DOMAIN signed : signed[i] \in Message
<1>1. /\ credentials \in Seq(CredentialRow) /\ reports \in Seq(ReportRow)
      /\ checkouts \in Seq(CheckoutRow) /\ payments \in Seq(PaymentRow)
      /\ signed \in Seq(Message)
  BY DEF Rows, Keyed, Reported, Sold, Accessed
<1>2. /\ DOMAIN credentials = 1..Len(credentials) /\ Len(credentials) \in Nat
      /\ \A c \in DOMAIN credentials : credentials[c] \in CredentialRow
  BY <1>1
<1>3. /\ DOMAIN reports = 1..Len(reports) /\ Len(reports) \in Nat
      /\ \A e \in DOMAIN reports : reports[e] \in ReportRow
  BY <1>1
<1>4. /\ DOMAIN checkouts = 1..Len(checkouts) /\ Len(checkouts) \in Nat
      /\ \A c \in DOMAIN checkouts : checkouts[c] \in CheckoutRow
  BY <1>1
<1>5. /\ DOMAIN payments = 1..Len(payments) /\ Len(payments) \in Nat
      /\ \A i \in DOMAIN payments : payments[i] \in PaymentRow
  BY <1>1
<1>6. /\ DOMAIN signed = 1..Len(signed) /\ Len(signed) \in Nat
      /\ \A i \in DOMAIN signed : signed[i] \in Message
  BY <1>1
<1>7. \A r : /\ r \in CredentialRow => r.device \in Devices
             /\ r \in ReportRow => r.device \in Devices /\ r.content \in Contents
             /\ r \in CheckoutRow => r.device \in Devices
             /\ r \in PaymentRow => r.device \in Devices
  BY DEF CredentialRow, ReportRow, CheckoutRow, PaymentRow
<1>. QED
  BY <1>2, <1>3, <1>4, <1>5, <1>6, <1>7

-------------------------------------------------------------------------------
(* Requests *)

LEMMA IdleFits == Fits(Idle)
BY DEF Fits, Idle

LEMMA StillFits ==
    ASSUME NEW r, Fits(r), Grow PROVE Fits(r)'
<1>1. /\ r.op = "station_status" => stations'[r.station] # None
      /\ r.op \in {"create_device", "move_device"} => stations'[r.station] # None
      /\ r.op \in {"move_device", "lifecycle", "create_credential", "reserve_nonce",
                   "ingest"}
         => Exists(r.device)'
  BY DEF Fits, Grow, Standing
<1>2. /\ r.op = "create_locker" => Exists(DeviceOf[r.locker])'
      /\ r.op \in {"availability", "create_port"} => HasLocker(r.locker)'
      /\ r.op \in {"port_status", "channel"} => HasPort(r.locker)'
  BY FleetConstants DEF Fits, Grow, Standing
<1>3. r.op \in {"handle", "beat", "settle"}
      => /\ r.report \in DOMAIN reports'
         /\ reports'[r.report].device = reports[r.report].device
         /\ reports'[r.report].content = reports[r.report].content
  BY DEF Fits, Grow, Standing
<1>4. r.op = "pay" => /\ r.checkout \in DOMAIN checkouts'
                      /\ checkouts'[r.checkout].device = checkouts[r.checkout].device
  BY DEF Fits, Grow, Standing
<1>5. /\ r.op \in {"rotate", "revoke"} => r.credential \in DOMAIN credentials'
      /\ r.op \in {"find_credential", "reserve_nonce"}
         => r.message.credential \in DOMAIN credentials'
  BY DEF Fits, Grow, Standing
<1>. QED
  BY <1>1, <1>2, <1>3, <1>4, <1>5 DEF Fits

\* A step of worker w leaves the others' requests as they are.
LEMMA OneMoves ==
    ASSUME RequestsFit, Grow, NEW w \in Workers, NEW r, Fits(r)',
           request' = [request EXCEPT ![w] = r]
    PROVE  /\ RequestsFit'
           /\ request'[w] = r /\ \A v \in Workers \ {w} : request'[v] = request[v]
<1>1. request'[w] = r /\ \A v \in Workers \ {w} : request'[v] = request[v]
  BY DEF RequestsFit
<1>2. request' = [v \in Workers |-> request'[v]]
  BY DEF RequestsFit
<1>3. ASSUME NEW v \in Workers PROVE Fits(request[v])'
  <2>1. CASE v = w
    BY <2>1, <1>1 DEF Fits
  <2>2. CASE v # w
    <3>1. PICK q : q = request[v]
      OBVIOUS
    <3>2. Fits(q)
      BY <3>1 DEF RequestsFit
    <3>3. Fits(q)'
      BY <3>2, StillFits
    <3>4. request'[v] = q
      BY <1>1, <2>2, <3>1
    <3>. QED
      BY <3>3, <3>4 DEF Fits
  <2>. QED
    BY <2>1, <2>2
<1>. QED
  BY <1>1, <1>2, <1>3 DEF RequestsFit

LEMMA NoneMoves ==
    ASSUME RequestsFit, Grow, request' = request PROVE RequestsFit'
<1>1. ASSUME NEW v \in Workers PROVE Fits(request[v])'
  <2>1. PICK q : q = request[v]
    OBVIOUS
  <2>2. Fits(q)'
    BY <2>1, StillFits DEF RequestsFit
  <2>. QED
    BY <2>1, <2>2 DEF Fits
<1>. QED
  BY <1>1 DEF RequestsFit

\* A request goes on, about no more than before.
LEMMA Becoming ==
    ASSUME RequestsFit, Overlap, Grow, Rows', NEW w \in Workers, NEW r, Fits(r)',
           Become(w, r), r.about \subseteq request[w].about
    PROVE  Sound'
<1>1. /\ RequestsFit'
      /\ request'[w] = r /\ \A v \in Workers \ {w} : request'[v] = request[v]
  BY OneMoves DEF Become
<1>2. \A v \in Workers : request'[v].about \subseteq request[v].about
  BY <1>1
<1>3. Overlap'
  BY <1>2 DEF Overlap, Become, Names
<1>. QED
  BY <1>1, <1>3 DEF Sound

LEMMA Finishing ==
    ASSUME RequestsFit, Overlap, Grow, Rows', NEW w \in Workers, Finish(w)
    PROVE  Sound'
<1>1. Fits(Idle)'
  BY IdleFits, StillFits
<1>2. Idle.about \subseteq request[w].about
  BY DEF Idle
<1>. QED
  BY <1>1, <1>2, Becoming DEF Finish

\* A step of no request.
LEMMA Happening ==
    ASSUME RequestsFit, Overlap, Grow, Rows', UNCHANGED request,
           disturbed \subseteq disturbed', disturbed' \subseteq Names
    PROVE  Sound'
<1>1. Overlap'
  BY DEF Overlap, Names
<1>. QED
  BY <1>1, NoneMoves DEF Sound

LEMMA Starting ==
    ASSUME RequestsFit, Overlap, Grow, Rows', NEW w \in Workers, NEW r, Fits(r),
           TakeUp(w, r)
    PROVE  Sound'
<1>1. Fits(r)'
  BY StillFits
<1>2. /\ RequestsFit'
      /\ request'[w] = r /\ \A v \in Workers \ {w} : request'[v] = request[v]
  BY <1>1, OneMoves DEF TakeUp
<1>3. disturbed' = disturbed \union (r.about \intersect InHand)
  BY DEF TakeUp
<1>4. \A v \in Workers : request[v].about \subseteq InHand
  BY DEF InHand
<1>5. \A v \in Workers \ {w} : request'[v].about \intersect r.about \subseteq disturbed'
  BY <1>2, <1>3, <1>4
<1>6. r.about \subseteq Names
  BY DEF Fits
<1>7. disturbed' \subseteq Names
  BY <1>3, <1>6 DEF Overlap
<1>8. ASSUME NEW u \in Workers, NEW v \in Workers, u # v
      PROVE  request'[u].about \intersect request'[v].about \subseteq disturbed'
  BY <1>2, <1>3, <1>5, <1>8 DEF Overlap
<1>9. Overlap'
  BY <1>7, <1>8 DEF Overlap, Names
<1>. QED
  BY <1>2, <1>9 DEF Sound

\* Requests die, one or all of a server.
LEMMA Perishing ==
    ASSUME Sound, NEW set \in SUBSET Workers, Dying(set),
           UNCHANGED <<fleet, credentials, reports, signed>>, now' \in Nat
    PROVE  Sound'
<1>1. \A w \in Workers : request'[w] = IF w \in set THEN Idle ELSE request[w]
  BY DEF Dying
<1>2. disturbed' = disturbed \union UNION {request[w].about : w \in set}
  BY DEF Dying
<1>3. Grow
  BY DEF Grow, Standing, fleet, Exists, HasLocker, HasPort, customers
<1>4. \A w \in Workers : Fits(request[w])
  BY DEF Sound, RequestsFit
<1>5. abandoned' \subseteq DOMAIN reports
  <2>1. abandoned' = abandoned \union
          {request[w].report : w \in {v \in set : request[v].op \in {"handle", "beat", "settle"}}}
    BY DEF Dying
  <2>2. abandoned \subseteq DOMAIN reports
    BY DEF Sound, Rows, Reported
  <2>3. \A w \in set : request[w].op \in {"handle", "beat", "settle"}
                       => request[w].report \in DOMAIN reports
    BY <1>4 DEF Fits
  <2>. QED
    BY <2>1, <2>2, <2>3
<1>6. Rows'
  BY <1>5 DEF Sound, Rows, Fielded, Keyed, Reported, Sold, Accessed, fleet, customers,
         Exists, HasLocker, HasPort
<1>7. ASSUME NEW w \in Workers PROVE Fits(request[w])'
  <2>1. PICK q : q = request'[w]
    OBVIOUS
  <2>2. Fits(q)
    BY <1>1, <1>4, <2>1, IdleFits
  <2>3. Fits(q)'
    BY <1>3, <2>2, StillFits
  <2>. QED
    BY <2>1, <2>3 DEF Fits
<1>8. request' = [w \in Workers |-> request'[w]]
  BY DEF Dying
<1>9. disturbed' \subseteq Names
  BY <1>2, <1>4 DEF Fits, Sound, Overlap
<1>10. \A w \in Workers : request'[w].about \subseteq request[w].about
  BY <1>1 DEF Idle
<1>11. Overlap'
  BY <1>2, <1>9, <1>10 DEF Sound, Overlap, Names
<1>. QED
  BY <1>6, <1>7, <1>8, <1>11 DEF Sound, RequestsFit

-------------------------------------------------------------------------------
(* Requests that begin *)

\* What a request has just read and checked.
Checked(r) ==
    /\ r.op = "station_status"
       => /\ stations[r.station] = "decommissioned" => r.next = "decommissioned"
          /\ r.next = "decommissioned" => LiveDevicesAt(r.station) = {}
    /\ r.op = "create_device" => stations[r.station] # "decommissioned"
    /\ r.op = "move_device"
       => stations[r.station] # "decommissioned" \/ devices[r.device].station = r.station
    /\ r.op = "lifecycle"
       => /\ ~IsLive(r.device) => r.next = "decommissioned"
          /\ r.next = "decommissioned" => SessionsOn(r.device) = {}
    /\ r.op = "channel" => AtRest(r.locker) /\ Reconfigurable(DeviceOf[r.locker])
    /\ r.op = "issue" => IsLive(r.device)
    /\ r.op = "pay" => ~checkouts[r.checkout].expired
    /\ r.op \notin {"idle", "handle", "beat", "settle"}
    /\ r.op = "find_credential" => r.checked = now /\ now <= r.message.stamp + Skew
    /\ r.op = "reserve_nonce"
       => \E v \in Workers : /\ request[v].op = "find_credential"
                             /\ r.message = request[v].message
                             /\ r.checked = request[v].checked

JustRead(r) == Fits(r) /\ Checked(r)

\* A signed request is delivered.
Delivered ==
    \E m \in Message :
        /\ m.credential \in DOMAIN credentials
        /\ signed' \in {signed, Append(signed, m)}
        /\ UNCHANGED <<fleet, credentials, reports, abandoned, nonces, store, now, boot,
                       taken>>

\* A request comes in, or its credential has been read.
Takes(w, r) == request[w].op \in {"idle", "find_credential"} /\ TakeUp(w, r)

Begins(w) ==
    \E r : Takes(w, r) /\ JustRead(r) /\ (UNCHANGED tables \/ Delivered)

LEMMA StartTakes ==
    ASSUME NEW w \in Workers, NEW r, Start(w, r) PROVE Takes(w, r)
BY DEF Start, Takes, Free, Idle

LEMMA StationBegins ==
    ASSUME Sound, NEW w \in Workers, StationStarts(w)
    PROVE  \/ \E s \in Stations, next \in StationTargets : CreateStation(w, s, next)
           \/ Begins(w)
<1> SUFFICES ASSUME NEW s \in Stations, NEW next \in StationTargets,
                    StationStatusRequested(w, s, next)
             PROVE  Begins(w)
  BY DEF StationStarts
<1> DEFINE r == [op |-> "station_status", about |-> {s}, station |-> s, next |-> next]
<1>1. Takes(w, r) /\ UNCHANGED tables
  BY StartTakes DEF StationStatusRequested
<1>2. Fits(r)
  BY FleetInputs DEF StationStatusRequested, Fits, Names
<1>3. Checked(r)
  BY DEF StationStatusRequested, StationPolicy, Checked
<1>. QED
  BY <1>1, <1>2, <1>3 DEF Begins, JustRead

LEMMA DeviceBegins ==
    ASSUME Sound, NEW w \in Workers, DeviceStarts(w) PROVE Begins(w)
<1>1. PICK d \in Devices, s \in Stations :
          CreateDeviceRequested(w, d, s) \/ MoveDeviceRequested(w, d, s)
  BY DEF DeviceStarts
<1>2. CASE CreateDeviceRequested(w, d, s)
  <2> DEFINE r == [op |-> "create_device", about |-> {d, s}, device |-> d, station |-> s]
  <2>1. Takes(w, r) /\ UNCHANGED tables /\ StationAssignable(s)
    BY <1>2, StartTakes DEF CreateDeviceRequested
  <2>2. Fits(r) /\ Checked(r)
    BY <2>1 DEF Fits, Names, Checked, StationAssignable
  <2>. QED
    BY <2>1, <2>2 DEF Begins, JustRead
<1>3. CASE MoveDeviceRequested(w, d, s)
  <2> DEFINE r == [op |-> "move_device", about |-> {d, s}, device |-> d, station |-> s]
  <2>1. Takes(w, r) /\ UNCHANGED tables /\ Exists(d) /\ StationChangeAllowed(d, s)
    BY <1>3, StartTakes DEF MoveDeviceRequested
  <2>2. stations[s] # None
    BY <2>1 DEF StationChangeAllowed, StationAssignable, Sound, Rows, Fielded
  <2>3. Fits(r) /\ Checked(r)
    BY <2>1, <2>2 DEF Fits, Names, Checked, StationAssignable, StationChangeAllowed
  <2>. QED
    BY <2>1, <2>3 DEF Begins, JustRead
<1>. QED
  BY <1>1, <1>2, <1>3

LEMMA LifecycleBegins ==
    ASSUME Sound, NEW w \in Workers, LifecycleStarts(w) PROVE Begins(w)
<1>1. PICK d \in Devices, next \in LifecycleTargets : LifecycleRequested(w, d, next)
  BY DEF LifecycleStarts
<1> DEFINE r == [op |-> "lifecycle", about |-> {d}, device |-> d, next |-> next]
<1>2. /\ Takes(w, r) /\ UNCHANGED tables /\ Exists(d)
      /\ LifecyclePolicy(devices[d].lifecycle, next, SessionsOn(d))
  BY <1>1, StartTakes DEF LifecycleRequested
<1>3. ~IsLive(d) => next = "decommissioned"
  BY <1>2 DEF IsLive, LifecyclePolicy, transitions
<1>4. Fits(r)
  BY <1>2, FleetInputs DEF Fits, Names
<1>5. Checked(r)
  BY <1>2, <1>3 DEF Checked, LifecyclePolicy
<1>. QED
  BY <1>2, <1>4, <1>5 DEF Begins, JustRead

LEMMA PlaceBegins ==
    ASSUME Sound, NEW w \in Workers, PlaceStarts(w) PROVE Begins(w)
<1>1. PICK l \in Lockers :
        \/ CreateLockerRequested(w, l)
        \/ \E next \in {"available", "maintenance", "disabled"} :
              AvailabilityRequested(w, l, next) \/ PortStatusRequested(w, l, next)
        \/ \E channel \in Channels :
              CreatePortRequested(w, l, channel) \/ ChannelChangeRequested(w, l, channel)
  BY DEF PlaceStarts
<1>2. DeviceOf[l] \in Devices
  BY FleetConstants
<1>3. CASE CreateLockerRequested(w, l)
  <2> DEFINE r == [op |-> "create_locker", about |-> {l, DeviceOf[l]}, locker |-> l]
  <2>1. Takes(w, r) /\ UNCHANGED tables /\ Exists(DeviceOf[l])
    BY <1>3, StartTakes DEF CreateLockerRequested, Equipable
  <2>2. Fits(r) /\ Checked(r)
    BY <1>2, <2>1 DEF Fits, Names, Checked
  <2>. QED
    BY <2>1, <2>2 DEF Begins, JustRead
<1>4. ASSUME NEW next \in {"available", "maintenance", "disabled"},
             AvailabilityRequested(w, l, next)
      PROVE  Begins(w)
  <2> DEFINE r == [op |-> "availability", about |-> {l}, locker |-> l, next |-> next]
  <2>1. Takes(w, r) /\ UNCHANGED tables /\ HasLocker(l)
    BY <1>4, StartTakes DEF AvailabilityRequested
  <2>2. Fits(r) /\ Checked(r)
    BY <2>1 DEF Fits, Names, Checked
  <2>. QED
    BY <2>1, <2>2 DEF Begins, JustRead
<1>5. ASSUME NEW next \in {"available", "maintenance", "disabled"},
             PortStatusRequested(w, l, next)
      PROVE  Begins(w)
  <2> DEFINE r == [op |-> "port_status", about |-> {l}, locker |-> l, next |-> next]
  <2>1. Takes(w, r) /\ UNCHANGED tables /\ HasPort(l)
    BY <1>5, StartTakes DEF PortStatusRequested
  <2>2. Fits(r) /\ Checked(r)
    BY <2>1 DEF Fits, Names, Checked
  <2>. QED
    BY <2>1, <2>2 DEF Begins, JustRead
<1>6. ASSUME NEW channel \in Channels, CreatePortRequested(w, l, channel)
      PROVE  Begins(w)
  <2> DEFINE r == [op |-> "create_port", about |-> {l, DeviceOf[l]}, locker |-> l,
                   channel |-> channel]
  <2>1. Takes(w, r) /\ UNCHANGED tables /\ HasLocker(l)
    BY <1>6, StartTakes DEF CreatePortRequested
  <2>2. Fits(r) /\ Checked(r)
    BY <1>2, <2>1 DEF Fits, Names, Checked
  <2>. QED
    BY <2>1, <2>2 DEF Begins, JustRead
<1>7. ASSUME NEW channel \in Channels, ChannelChangeRequested(w, l, channel)
      PROVE  Begins(w)
  <2> DEFINE r == [op |-> "channel", about |-> {l, DeviceOf[l]}, locker |-> l,
                   channel |-> channel]
  <2>1. /\ Takes(w, r) /\ UNCHANGED tables /\ HasPort(l)
        /\ AtRest(l) /\ Reconfigurable(DeviceOf[l])
    BY <1>7, StartTakes DEF ChannelChangeRequested, ChannelChangeAllowed
  <2>2. Fits(r) /\ Checked(r)
    BY <1>2, <2>1 DEF Fits, Names, Checked
  <2>. QED
    BY <2>1, <2>2 DEF Begins, JustRead
<1>. QED
  BY <1>1, <1>3, <1>4, <1>5, <1>6, <1>7

LEMMA CredentialBegins ==
    ASSUME Sound, NEW w \in Workers, CredentialStarts(w) PROVE Begins(w)
<1>1. CASE \E d \in Devices, type \in CredentialTypes : CreateCredentialRequested(w, d, type)
  <2>1. PICK d \in Devices, type \in CredentialTypes : CreateCredentialRequested(w, d, type)
    BY <1>1
  <2> DEFINE r == [op |-> "create_credential", about |-> {d}, device |-> d, type |-> type]
  <2>2. Takes(w, r) /\ UNCHANGED tables /\ Exists(d)
    BY <2>1, StartTakes DEF CreateCredentialRequested
  <2>3. Fits(r) /\ Checked(r)
    BY <2>2 DEF Fits, Names, Checked
  <2>. QED
    BY <2>2, <2>3 DEF Begins, JustRead
<1>2. ASSUME NEW c \in DOMAIN credentials, RotateRequested(w, c) PROVE Begins(w)
  <2> DEFINE r == [op |-> "rotate", about |-> {credentials[c].device}, credential |-> c]
  <2>1. Takes(w, r) /\ UNCHANGED tables
    BY <1>2, StartTakes DEF RotateRequested
  <2>2. credentials[c].device \in Devices
    BY RowsHold DEF Sound
  <2>3. Fits(r) /\ Checked(r)
    BY <2>2 DEF Fits, Names, Checked
  <2>. QED
    BY <2>1, <2>3 DEF Begins, JustRead
<1>3. ASSUME NEW c \in DOMAIN credentials, NEW force \in BOOLEAN, RevokeRequested(w, c, force)
      PROVE  Begins(w)
  <2> DEFINE d == credentials[c].device
             rest_ == ActiveCredentials(d) \ {c}
             r == [op |-> "revoke", about |-> {d}, credential |-> c, force |-> force,
                   lifecycle |-> devices[d].lifecycle, others |-> rest_]
  <2>1. /\ Takes(w, r) /\ UNCHANGED tables /\ credentials[c].active
        /\ FinalRevokeAllowed(devices[d].lifecycle, Cardinality(ActiveCredentials(d)), force)
    BY <1>3, StartTakes DEF RevokeRequested
  <2>2. d \in Devices
    BY RowsHold DEF Sound
  <2>3. c \in ActiveCredentials(d)
    BY <2>1 DEF ActiveCredentials
  <2>4. rest_ = {} => ActiveCredentials(d) = {c}
    BY <2>3
  <2>5. rest_ = {} => Cardinality(ActiveCredentials(d)) = 1
    BY <2>4, FS_Singleton
  <2>6. force \/ devices[d].lifecycle # "active" \/ rest_ # {}
    BY <2>1, <2>5 DEF FinalRevokeAllowed
  <2>7. c \notin rest_
    OBVIOUS
  <2> HIDE DEF rest_
  <2>8. Fits(r) /\ Checked(r)
    BY <2>2, <2>6, <2>7 DEF Fits, Names, Checked
  <2>. QED
    BY <2>1, <2>8 DEF Begins, JustRead
<1>. QED
  BY <1>1, <1>2, <1>3 DEF CredentialStarts

\* What an authenticated report carries on fits.
LEMMA ContextFits ==
    ASSUME Sound, NEW c \in DOMAIN credentials, NEW station, NEW content \in Contents
    PROVE  JustRead(Context(credentials[c].device, station, content))
<1>1. /\ credentials[c].device \in Devices /\ Exists(credentials[c].device)
  BY RowsHold DEF Sound, Rows, Keyed
<1>2. content.locker \in Lockers \union {None}
  BY FleetInputs
<1>3. credentials[c].device # None
  BY <1>1, FleetConstants
<1>. QED
  BY <1>1, <1>2 DEF JustRead, Fits, Checked, Context, RowsOf, Names

LEMMA KeyedBegins ==
    ASSUME Sound, NEW w \in Workers, KeyedStarts(w) PROVE Begins(w)
<1>1. PICK c \in DOMAIN credentials, content \in Contents : AuthenticateApiKey(w, c, content)
  BY DEF KeyedStarts
<1>. QED
  BY <1>1, ContextFits, StartTakes DEF AuthenticateApiKey, Begins

LEMMA SignedBegins ==
    ASSUME Sound, NEW w \in Workers, SignedStarts(w) PROVE Begins(w)
<1>1. ASSUME NEW m \in Message, m.credential \in DOMAIN credentials,
             AuthenticateHmac(w, m), signed' \in {signed, Append(signed, m)}
      PROVE  Begins(w)
  <2> DEFINE r == [op |-> "find_credential", about |-> {}, message |-> m,
                   checked |-> now]
  <2>1. Delivered /\ Takes(w, r)
    BY <1>1, StartTakes DEF AuthenticateHmac, Delivered
  <2>2. now <= m.stamp + Skew /\ now \in Nat
    BY <1>1 DEF AuthenticateHmac, Fresh, Sound, Rows, Accessed
  <2>3. JustRead(r)
    BY <1>1, <2>2 DEF JustRead, Fits, Checked
  <2>. QED
    BY <2>1, <2>3 DEF Begins
<1>2. CASE \E c \in DOMAIN credentials, content \in Signable, stamp \in 0..now + Skew :
              Signed(w, c, stamp, content)
  <2>1. PICK c \in DOMAIN credentials, content \in Signable, stamp \in 0..now + Skew :
              Signed(w, c, stamp, content)
    BY <1>2
  <2> DEFINE m == [credential |-> c, nonce |-> Len(signed) + 1, stamp |-> stamp,
                   content |-> content]
  <2>2. AuthenticateHmac(w, m) /\ signed' = Append(signed, m)
    BY <2>1 DEF Signed
  <2>3. /\ c \in Nat /\ Len(signed) + 1 \in Nat /\ content \in Contents
    BY RowsHold, FleetInputs DEF Sound
  <2>4. stamp \in Nat
    BY FleetConstants DEF Sound, Rows, Accessed
  <2>5. m \in Message /\ m.credential \in DOMAIN credentials
    BY <2>3, <2>4 DEF Message
  <2>. QED
    BY <1>1, <2>2, <2>5
<1>3. CASE \E i \in DOMAIN signed : Redelivered(w, i)
  <2>1. PICK i \in DOMAIN signed : Redelivered(w, i)
    BY <1>3
  <2>2. signed[i] \in Message /\ signed[i].credential \in DOMAIN credentials
    BY RowsHold DEF Sound, Rows, Accessed
  <2>. QED
    BY <1>1, <2>1, <2>2 DEF Redelivered
<1>. QED
  BY <1>2, <1>3 DEF SignedStarts

LEMMA CustomerBegins ==
    ASSUME Sound, NEW w \in Workers, CustomerStarts(w) PROVE Begins(w)
<1>1. ASSUME NEW qr \in QrTokens, Resolve(w, qr) PROVE Begins(w)
  <2>1. PICK setting \in MatchingSettings(qr) :
          /\ PublicDevice(setting.device)
          /\ Takes(w, [op |-> "issue", about |-> {setting.device},
                       device |-> setting.device])
          /\ UNCHANGED tables
    BY <1>1, StartTakes DEF Resolve
  <2>2. setting.device \in Devices
    BY FleetConstants DEF MatchingSettings
  <2>3. JustRead([op |-> "issue", about |-> {setting.device}, device |-> setting.device])
    BY <2>1, <2>2 DEF JustRead, Fits, Checked, Names, PublicDevice, IsLive
  <2>. QED
    BY <2>1, <2>3 DEF Begins
<1>2. ASSUME NEW c \in DOMAIN checkouts, NEW key \in IdempotencyKeys, Initiate(w, c, key)
      PROVE  Begins(w)
  <2>1. checkouts[c].device \in Devices
    BY RowsHold DEF Sound
  <2>2. JustRead([op |-> "pay", about |-> {checkouts[c].device}, checkout |-> c,
                  key |-> key])
    BY <1>2, <2>1 DEF JustRead, Fits, Checked, Names, Initiate, RequireCheckout
  <2>. QED
    BY <1>2, <2>2, StartTakes DEF Initiate, Begins
<1>. QED
  BY <1>1, <1>2 DEF CustomerStarts

\* A credential that has been read is good for the nonce to be reserved, or ends
\* the request.
LEMMA FindBegins ==
    ASSUME Sound, NEW w \in Workers, FindCredential(w)
    PROVE  Begins(w) \/ (Finish(w) /\ UNCHANGED tables)
<1> DEFINE m == request[w].message
           d == credentials[m.credential].device
           r == [op |-> "reserve_nonce", about |-> RowsOf(d, m.content), message |-> m,
                 checked |-> request[w].checked, device |-> d,
                 station |-> devices[d].station]
<1>1. request[w].op = "find_credential"
  BY DEF FindCredential
<1>2. /\ m \in Message /\ m.credential \in DOMAIN credentials
      /\ request[w].checked \in Nat
  BY <1>1 DEF Sound, RequestsFit, Fits
<1>3. m.content.locker \in Lockers \union {None}
  BY <1>2, FleetInputs DEF Message
<1>4. d \in Devices /\ Exists(d)
  BY <1>2, RowsHold DEF Sound, Rows, Keyed
<1>5. Fits(r)
  BY <1>2, <1>3, <1>4 DEF Fits, Names, RowsOf
<1>6. Checked(r)
  BY <1>1 DEF Checked
<1>7. \/ TakeUp(w, r) /\ UNCHANGED tables
      \/ Finish(w) /\ UNCHANGED tables
  BY DEF FindCredential
<1>. QED
  BY <1>1, <1>5, <1>6, <1>7 DEF Begins, Takes, JustRead

LEMMA AllBegin ==
    ASSUME Sound, NEW w \in Workers, Starts(w)
    PROVE  \/ \E s \in Stations, next \in StationTargets : CreateStation(w, s, next)
           \/ Begins(w)
BY StationBegins, DeviceBegins, LifecycleBegins, PlaceBegins, CredentialBegins,
   KeyedBegins, SignedBegins, CustomerBegins DEF Starts

-------------------------------------------------------------------------------
(* Requests that write *)

\* Only what is in the set changes.
Kept(a) ==
    /\ \A s \in Stations \ a : stations'[s] = stations[s]
    /\ \A d \in Devices \ a : devices'[d] = devices[d]
    /\ \A l \in Lockers \ a : lockers'[l] = lockers[l] /\ ports'[l] = ports[l]
    /\ \A e \in DOMAIN reports' \ DOMAIN reports :
          reports'[e].content.locker \in a \union {None}

\* A request writes to what it is about, and after that has nothing left to do
\* but to see to its report.
Wrote(w) ==
    /\ Kept(request[w].about)
    /\ UNCHANGED sessions
    /\ \E r : /\ Become(w, r)
              /\ r.about \subseteq request[w].about
              /\ r.op \in {"idle", "ingest", "handle", "beat", "settle"}

LEMMA Finished ==
    ASSUME Sound, NEW w \in Workers, Finish(w), Grow, Rows', Kept(request[w].about),
           UNCHANGED sessions
    PROVE  Sound' /\ Wrote(w)
<1>1. Idle.about \subseteq request[w].about /\ Idle.op = "idle"
  BY DEF Idle
<1>. QED
  BY <1>1, Finishing DEF Wrote, Finish, Sound

\* Where only the field changes.
LEMMA OnField ==
    ASSUME Sound, NEW w \in Workers, Finish(w), Fielded', Standing,
           Kept(request[w].about), UNCHANGED sessions,
           UNCHANGED <<credentials, reports, abandoned, checkouts, payments, signed, now>>,
           overtaken' \subseteq Devices
    PROVE  Sound' /\ Wrote(w)
<1>1. Grow
  BY DEF Grow
<1>2. Keyed'
  BY <1>1, RowsHold DEF Sound, Rows, Keyed, Grow, Standing
<1>3. Reported'
  BY <1>1, RowsHold DEF Sound, Rows, Reported, Grow, Standing
<1>4. Rows'
  BY <1>2, <1>3 DEF Sound, Rows, Sold, Accessed
<1>. QED
  BY <1>1, <1>4, Finished

LEMMA SetsStationStatus ==
    ASSUME Sound, NEW w \in Workers, SetStationStatus(w) PROVE Sound' /\ Wrote(w)
<1>1. PICK r : r = request[w]
  OBVIOUS
<1>2. /\ Fits(r) /\ r.op = "station_status"
      /\ stations' = [stations EXCEPT ![r.station] = r.next]
      /\ Finish(w)
      /\ UNCHANGED <<devices, lockers, ports, sessions, credentials, reports, abandoned,
                     checkouts, payments, overtaken, signed, now>>
  BY <1>1 DEF SetStationStatus, Sound, RequestsFit, rest, access, customers
<1>3. r.station \in Stations \intersect r.about /\ r.next \in StationStatus
  BY <1>2 DEF Fits
<1>4. r.next # None
  BY <1>3, FleetInputs
<1>5. \A s \in Stations : stations'[s] = IF s = r.station THEN r.next ELSE stations[s]
  BY <1>2 DEF Sound, Rows, Fielded
<1>6. stations' \in [Stations -> StationStatus \union {None}]
  BY <1>2, <1>3 DEF Sound, Rows, Fielded
<1>7. Standing
  BY <1>2, <1>4, <1>5 DEF Standing, Exists, HasLocker, HasPort
<1>8. \A d \in Devices : Exists(d) => devices[d].station \in Stations
  BY DEF Sound, Rows, Fielded, Exists, DeviceRow
<1>9. Fielded'
  BY <1>2, <1>6, <1>7, <1>8 DEF Sound, Rows, Fielded, Standing, Exists, HasLocker, HasPort
<1>10. Kept(r.about)
  BY <1>2, <1>3, <1>5 DEF Kept
<1>. QED
  BY <1>1, <1>2, <1>7, <1>9, <1>10, OnField DEF Sound, Rows, Sold

LEMMA CreatesStation ==
    ASSUME Sound, NEW w \in Workers, NEW s \in Stations, NEW status \in StationTargets,
           CreateStation(w, s, status)
    PROVE  Sound'
<1>1. /\ stations[s] = None /\ stations' = [stations EXCEPT ![s] = status]
      /\ UNCHANGED <<devices, lockers, ports, sessions, credentials, reports, abandoned,
                     checkouts, payments, overtaken, signed, now, request, disturbed>>
  BY DEF CreateStation, AtOnce, rest, access, customers
<1>2. status \in StationStatus /\ status # None
  BY FleetInputs
<1>3. \A t \in Stations : stations'[t] = IF t = s THEN status ELSE stations[t]
  BY <1>1 DEF Sound, Rows, Fielded
<1>4. stations' \in [Stations -> StationStatus \union {None}]
  BY <1>1, <1>2 DEF Sound, Rows, Fielded
<1>5. Standing
  BY <1>1, <1>2, <1>3 DEF Standing, Exists, HasLocker, HasPort
<1>6. \A d \in Devices : Exists(d) => devices[d].station \in Stations
  BY DEF Sound, Rows, Fielded, Exists, DeviceRow
<1>7. Fielded'
  BY <1>1, <1>4, <1>5, <1>6 DEF Sound, Rows, Fielded, Standing, Exists, HasLocker, HasPort
<1>8. Grow
  BY <1>1, <1>5 DEF Grow
<1>9. Keyed' /\ Reported'
  BY <1>1 DEF Sound, Rows, Keyed, Reported, Exists
<1>10. Rows'
  BY <1>1, <1>7, <1>9 DEF Sound, Rows, Sold, Accessed
<1>. QED
  BY <1>1, <1>8, <1>10, Happening DEF Sound, Overlap

LEMMA CreatesDevice ==
    ASSUME Sound, NEW w \in Workers, CreateDevice(w) PROVE Sound' /\ Wrote(w)
<1>1. PICK r : r = request[w]
  OBVIOUS
<1> DEFINE row == [station |-> r.station, lifecycle |-> "pending", online |-> FALSE]
<1>2. /\ Fits(r) /\ r.op = "create_device"
      /\ devices' = IF Exists(r.device) THEN devices ELSE [devices EXCEPT ![r.device] = row]
      /\ Finish(w)
      /\ UNCHANGED <<stations, lockers, ports, sessions, credentials, reports, abandoned,
                     checkouts, payments, overtaken, signed, now>>
  BY <1>1 DEF CreateDevice, Sound, RequestsFit, rest, access, customers
<1>3. /\ r.station \in Stations \intersect r.about /\ stations[r.station] # None
      /\ r.device \in Devices \intersect r.about
  BY <1>2 DEF Fits
<1>4. row \in DeviceRow /\ row.station = r.station
  BY <1>3 DEF DeviceRow, Lifecycle
<1>5. row # None
  BY <1>4, FleetInputs
<1> HIDE DEF row
<1>6. \A d \in Devices : \/ devices'[d] = devices[d]
                         \/ d = r.device /\ ~Exists(d) /\ devices'[d] = row
  <2>1. CASE Exists(r.device)
    BY <1>2, <2>1
  <2>2. CASE ~Exists(r.device)
    BY <1>2, <2>2 DEF Sound, Rows, Fielded
  <2>. QED
    BY <2>1, <2>2
<1>7. devices' \in [Devices -> DeviceRow \union {None}]
  BY <1>2, <1>3, <1>4 DEF Sound, Rows, Fielded
<1>8. Standing
  BY <1>2, <1>5, <1>6 DEF Standing, Exists, HasLocker, HasPort
<1>9. \A d \in Devices : Exists(d)' => stations'[devices'[d].station] # None
  BY <1>2, <1>3, <1>4, <1>6 DEF Sound, Rows, Fielded, Exists
<1>10. Fielded'
  BY <1>2, <1>7, <1>8, <1>9, FleetConstants
     DEF Sound, Rows, Fielded, Standing, HasLocker, HasPort
<1>11. Kept(r.about)
  BY <1>2, <1>3, <1>6 DEF Kept
<1>. QED
  BY <1>1, <1>2, <1>8, <1>10, <1>11, OnField DEF Sound, Rows, Sold

\* A device keeps its row, changed.
LEMMA ChangesDevice ==
    ASSUME Sound, NEW w \in Workers, NEW d \in Devices \intersect request[w].about,
           Exists(d), devices'[d] \in DeviceRow, stations[devices'[d].station] # None,
           devices' = [devices EXCEPT ![d] = devices'[d]],
           UNCHANGED <<stations, lockers, ports, sessions>>
    PROVE  Fielded' /\ Standing
<1>1. \A c \in Devices : c # d => devices'[c] = devices[c]
  BY DEF Sound, Rows, Fielded
<1>2. devices'[d] # None
  BY FleetInputs
<1>3. devices' \in [Devices -> DeviceRow \union {None}]
  BY DEF Sound, Rows, Fielded
<1>4. Standing
  BY <1>1, <1>2 DEF Standing, Exists, HasLocker, HasPort
<1>5. \A c \in Devices : Exists(c)' => stations'[devices'[c].station] # None
  BY <1>1 DEF Sound, Rows, Fielded, Exists
<1>6. Fielded'
  BY <1>3, <1>4, <1>5, FleetConstants DEF Sound, Rows, Fielded, Standing, HasLocker, HasPort
<1>. QED
  BY <1>4, <1>6

LEMMA MovesDevice ==
    ASSUME Sound, NEW w \in Workers, MoveDevice(w) PROVE Sound' /\ Wrote(w)
<1>1. PICK r : r = request[w]
  OBVIOUS
<1>2. /\ Fits(r) /\ r.op = "move_device"
      /\ devices' \in {devices, [devices EXCEPT ![r.device].station = r.station]}
      /\ Finish(w)
      /\ UNCHANGED <<stations, lockers, ports, sessions, credentials, reports, abandoned,
                     checkouts, payments, overtaken, signed, now>>
  BY <1>1 DEF MoveDevice, Sound, RequestsFit, rest, access, customers
<1>3. /\ r.station \in Stations \intersect r.about /\ stations[r.station] # None
      /\ r.device \in Devices \intersect r.about /\ Exists(r.device)
  BY <1>2 DEF Fits
<1>4. CASE devices' = devices
  <2>1. Fielded' /\ Standing /\ Kept(r.about)
    BY <1>2, <1>4 DEF Sound, Rows, Fielded, Standing, Kept, Exists, HasLocker, HasPort
  <2>. QED
    BY <1>1, <1>2, <2>1, OnField DEF Sound, Rows, Sold
<1>5. CASE devices' = [devices EXCEPT ![r.device].station = r.station]
  <2>1. devices[r.device] \in DeviceRow
    BY <1>3 DEF Sound, Rows, Fielded, Exists
  <2>2. devices'[r.device] = [devices[r.device] EXCEPT !.station = r.station]
    BY <1>3, <1>5 DEF Sound, Rows, Fielded
  <2>3. devices'[r.device] \in DeviceRow /\ devices'[r.device].station = r.station
    BY <1>3, <2>1, <2>2 DEF DeviceRow
  <2>4. devices' = [devices EXCEPT ![r.device] = devices'[r.device]]
    BY <1>5, <2>2
  <2>5. Fielded' /\ Standing
    BY <1>1, <1>2, <1>3, <2>3, <2>4, ChangesDevice
  <2>6. Kept(r.about)
    BY <1>2, <1>3, <1>5 DEF Kept, Sound, Rows, Fielded
  <2>. QED
    BY <1>1, <1>2, <2>5, <2>6, OnField DEF Sound, Rows, Sold
<1>. QED
  BY <1>2, <1>4, <1>5

LEMMA SetsLifecycle ==
    ASSUME Sound, NEW w \in Workers, SetLifecycle(w) PROVE Sound' /\ Wrote(w)
<1>1. PICK r : r = request[w]
  OBVIOUS
<1>2. /\ Fits(r) /\ r.op = "lifecycle"
      /\ devices' = [devices EXCEPT ![r.device].lifecycle = r.next]
      /\ overtaken' \subseteq overtaken \union {r.device}
      /\ Finish(w)
      /\ UNCHANGED <<stations, lockers, ports, sessions, credentials, reports, abandoned,
                     checkouts, payments, signed, now>>
  BY <1>1 DEF SetLifecycle, Sound, RequestsFit, access
<1>3. r.device \in Devices \intersect r.about /\ Exists(r.device) /\ r.next \in Lifecycle
  BY <1>2 DEF Fits
<1>4. devices[r.device] \in DeviceRow /\ stations[devices[r.device].station] # None
  BY <1>3 DEF Sound, Rows, Fielded, Exists
<1>5. devices'[r.device] = [devices[r.device] EXCEPT !.lifecycle = r.next]
  BY <1>2, <1>3 DEF Sound, Rows, Fielded
<1>6. devices'[r.device] \in DeviceRow /\ devices'[r.device].station = devices[r.device].station
  BY <1>3, <1>4, <1>5 DEF DeviceRow
<1>7. devices' = [devices EXCEPT ![r.device] = devices'[r.device]]
  BY <1>2, <1>5
<1>8. Fielded' /\ Standing
  BY <1>1, <1>2, <1>3, <1>4, <1>6, <1>7, ChangesDevice
<1>9. Kept(r.about)
  BY <1>2, <1>3 DEF Kept, Sound, Rows, Fielded
<1>10. overtaken' \subseteq Devices
  BY <1>2, <1>3 DEF Sound, Rows, Sold
<1>. QED
  BY <1>1, <1>2, <1>8, <1>9, <1>10, OnField

\* A locker or a port gets a row, or keeps one, changed.
LEMMA ChangesLocker ==
    ASSUME Sound, NEW l \in Lockers, Exists(DeviceOf[l]), lockers'[l] \in LockerRow,
           lockers' = [lockers EXCEPT ![l] = lockers'[l]],
           UNCHANGED <<stations, devices, ports, sessions>>
    PROVE  Fielded' /\ Standing
<1>1. \A k \in Lockers : k # l => lockers'[k] = lockers[k]
  BY DEF Sound, Rows, Fielded
<1>2. lockers'[l] # None
  BY FleetInputs
<1>3. lockers' \in [Lockers -> LockerRow \union {None}]
  BY DEF Sound, Rows, Fielded
<1>4. Standing
  BY <1>1, <1>2 DEF Standing, Exists, HasLocker, HasPort
<1>. QED
  BY <1>1, <1>3, <1>4 DEF Sound, Rows, Fielded, Standing, Exists, HasLocker, HasPort

LEMMA ChangesPort ==
    ASSUME Sound, NEW l \in Lockers, HasLocker(l), ports'[l] \in PortRow,
           ports' = [ports EXCEPT ![l] = ports'[l]],
           UNCHANGED <<stations, devices, lockers, sessions>>
    PROVE  Fielded' /\ Standing
<1>1. \A k \in Lockers : k # l => ports'[k] = ports[k]
  BY DEF Sound, Rows, Fielded
<1>2. ports'[l] # None
  BY FleetInputs
<1>3. ports' \in [Lockers -> PortRow \union {None}]
  BY DEF Sound, Rows, Fielded
<1>4. Standing
  BY <1>1, <1>2 DEF Standing, Exists, HasLocker, HasPort
<1>. QED
  BY <1>1, <1>3, <1>4 DEF Sound, Rows, Fielded, Standing, Exists, HasLocker, HasPort

LEMMA NoChange ==
    ASSUME Sound, NEW a, UNCHANGED <<stations, devices, lockers, ports, sessions, reports>>
    PROVE  Fielded' /\ Standing /\ Kept(a)
BY DEF Sound, Rows, Fielded, Standing, Kept, Exists, HasLocker, HasPort

LEMMA CreatesLocker ==
    ASSUME Sound, NEW w \in Workers, CreateLocker(w) PROVE Sound' /\ Wrote(w)
<1>1. PICK r : r = request[w]
  OBVIOUS
<1> DEFINE row == [availability |-> "available", door |-> "unknown", lock |-> "unknown"]
<1>2. /\ Fits(r) /\ r.op = "create_locker"
      /\ lockers' \in {lockers, [lockers EXCEPT ![r.locker] = row]}
      /\ Finish(w)
      /\ UNCHANGED <<stations, devices, ports, sessions, credentials, reports, abandoned,
                     checkouts, payments, overtaken, signed, now>>
  BY <1>1 DEF CreateLocker, Sound, RequestsFit, rest, access, customers
<1>3. r.locker \in Lockers \intersect r.about /\ Exists(DeviceOf[r.locker])
  BY <1>2 DEF Fits
<1>4. row \in LockerRow
  BY DEF LockerRow, DoorStatus, LockStatus
<1> HIDE DEF row
<1>5. Fielded' /\ Standing /\ Kept(r.about)
  <2>1. CASE lockers' = lockers
    BY <1>2, <2>1, NoChange
  <2>2. CASE lockers' = [lockers EXCEPT ![r.locker] = row]
    <3>1. lockers'[r.locker] = row
      BY <1>3, <2>2 DEF Sound, Rows, Fielded
    <3>2. Fielded' /\ Standing
      BY <1>2, <1>3, <1>4, <2>2, <3>1, ChangesLocker
    <3>3. Kept(r.about)
      BY <1>2, <1>3, <2>2 DEF Kept, Sound, Rows, Fielded
    <3>. QED
      BY <3>2, <3>3
  <2>. QED
    BY <1>2, <2>1, <2>2
<1>. QED
  BY <1>1, <1>2, <1>5, OnField DEF Sound, Rows, Sold

LEMMA SetsAvailability ==
    ASSUME Sound, NEW w \in Workers, SetAvailability(w) PROVE Sound' /\ Wrote(w)
<1>1. PICK r : r = request[w]
  OBVIOUS
<1>2. /\ Fits(r) /\ r.op = "availability"
      /\ lockers' = [lockers EXCEPT ![r.locker].availability = r.next]
      /\ Finish(w)
      /\ UNCHANGED <<stations, devices, ports, sessions, credentials, reports, abandoned,
                     checkouts, payments, overtaken, signed, now>>
  BY <1>1 DEF SetAvailability, Sound, RequestsFit, rest, access, customers
<1>3. /\ r.locker \in Lockers \intersect r.about /\ HasLocker(r.locker)
      /\ r.next \in {"available", "maintenance", "disabled"}
  BY <1>2 DEF Fits
<1>4. lockers[r.locker] \in LockerRow /\ Exists(DeviceOf[r.locker])
  BY <1>3 DEF Sound, Rows, Fielded, HasLocker
<1>5. lockers'[r.locker] = [lockers[r.locker] EXCEPT !.availability = r.next]
  BY <1>2, <1>3 DEF Sound, Rows, Fielded
<1>6. lockers'[r.locker] \in LockerRow
  BY <1>3, <1>4, <1>5 DEF LockerRow
<1>7. lockers' = [lockers EXCEPT ![r.locker] = lockers'[r.locker]]
  BY <1>2, <1>5
<1>8. Fielded' /\ Standing
  BY <1>2, <1>3, <1>4, <1>6, <1>7, ChangesLocker
<1>9. Kept(r.about)
  BY <1>2, <1>3 DEF Kept, Sound, Rows, Fielded
<1>. QED
  BY <1>1, <1>2, <1>8, <1>9, OnField DEF Sound, Rows, Sold

LEMMA CreatesPort ==
    ASSUME Sound, NEW w \in Workers, CreatePort(w) PROVE Sound' /\ Wrote(w)
<1>1. PICK r : r = request[w]
  OBVIOUS
<1> DEFINE row == [status |-> "available", power |-> "off", channel |-> r.channel]
<1>2. /\ Fits(r) /\ r.op = "create_port"
      /\ ports' \in {ports, [ports EXCEPT ![r.locker] = row]}
      /\ Finish(w)
      /\ UNCHANGED <<stations, devices, lockers, sessions, credentials, reports, abandoned,
                     checkouts, payments, overtaken, signed, now>>
  BY <1>1 DEF CreatePort, Sound, RequestsFit, rest, access, customers
<1>3. /\ r.locker \in Lockers \intersect r.about /\ HasLocker(r.locker)
      /\ r.channel \in Channels
  BY <1>2 DEF Fits
<1>4. row \in PortRow
  BY <1>3 DEF PortRow, PortStatus, PowerState
<1> HIDE DEF row
<1>5. Fielded' /\ Standing /\ Kept(r.about)
  <2>1. CASE ports' = ports
    BY <1>2, <2>1, NoChange
  <2>2. CASE ports' = [ports EXCEPT ![r.locker] = row]
    <3>1. ports'[r.locker] = row
      BY <1>3, <2>2 DEF Sound, Rows, Fielded
    <3>2. Fielded' /\ Standing
      BY <1>2, <1>3, <1>4, <2>2, <3>1, ChangesPort
    <3>3. Kept(r.about)
      BY <1>2, <1>3, <2>2 DEF Kept, Sound, Rows, Fielded
    <3>. QED
      BY <3>2, <3>3
  <2>. QED
    BY <1>2, <2>1, <2>2
<1>. QED
  BY <1>1, <1>2, <1>5, OnField DEF Sound, Rows, Sold

LEMMA SetsPort ==
    ASSUME Sound, NEW w \in Workers, SetChannel(w) \/ SetPortStatus(w)
    PROVE  Sound' /\ Wrote(w)
<1>1. PICK r : r = request[w]
  OBVIOUS
<1>2. /\ Fits(r) /\ r.op \in {"channel", "port_status"}
      /\ \/ ports' = ports
         \/ r.op = "channel" /\ ports' = [ports EXCEPT ![r.locker].channel = r.channel]
         \/ r.op = "port_status" /\ ports' = [ports EXCEPT ![r.locker].status = r.next]
      /\ Finish(w)
      /\ UNCHANGED <<stations, devices, lockers, sessions, credentials, reports, abandoned,
                     checkouts, payments, overtaken, signed, now>>
  BY <1>1 DEF SetChannel, SetPortStatus, Sound, RequestsFit, rest, access, customers
<1>3. r.locker \in Lockers \intersect r.about /\ HasPort(r.locker)
  BY <1>2 DEF Fits
<1>4. ports[r.locker] \in PortRow /\ HasLocker(r.locker)
  BY <1>3 DEF Sound, Rows, Fielded, HasPort
<1>5. CASE ports' = ports
  BY <1>1, <1>2, <1>5, NoChange, OnField DEF Sound, Rows, Sold
<1>6. ASSUME ports'[r.locker] \in PortRow,
             ports' = [ports EXCEPT ![r.locker] = ports'[r.locker]]
      PROVE  Sound' /\ Wrote(w)
  <2>1. Fielded' /\ Standing
    BY <1>2, <1>3, <1>4, <1>6, ChangesPort
  <2>2. \A l \in Lockers \ r.about : ports'[l] = ports[l]
    BY <1>3, <1>6 DEF Sound, Rows, Fielded
  <2>3. Kept(r.about)
    BY <1>2, <2>2 DEF Kept
  <2>. QED
    BY <1>1, <1>2, <2>1, <2>3, OnField DEF Sound, Rows, Sold
<1>7. CASE r.op = "channel" /\ ports' = [ports EXCEPT ![r.locker].channel = r.channel]
  <2>1. ports'[r.locker] = [ports[r.locker] EXCEPT !.channel = r.channel]
    BY <1>3, <1>7 DEF Sound, Rows, Fielded
  <2>2. r.channel \in Channels
    BY <1>2, <1>7 DEF Fits
  <2>3. ports'[r.locker] \in PortRow
    BY <1>4, <2>1, <2>2 DEF PortRow
  <2>4. ports' = [ports EXCEPT ![r.locker] = ports'[r.locker]]
    BY <1>7, <2>1
  <2>. QED
    BY <1>6, <2>3, <2>4
<1>8. CASE r.op = "port_status" /\ ports' = [ports EXCEPT ![r.locker].status = r.next]
  <2>1. ports'[r.locker] = [ports[r.locker] EXCEPT !.status = r.next]
    BY <1>3, <1>8 DEF Sound, Rows, Fielded
  <2>2. r.next \in {"available", "maintenance", "disabled"}
    BY <1>2, <1>8 DEF Fits
  <2>3. ports'[r.locker] \in PortRow
    BY <1>4, <2>1, <2>2 DEF PortRow, PortStatus
  <2>4. ports' = [ports EXCEPT ![r.locker] = ports'[r.locker]]
    BY <1>8, <2>1
  <2>. QED
    BY <1>6, <2>3, <2>4
<1>. QED
  BY <1>2, <1>5, <1>7, <1>8

\* Where only credentials change: old ones stay, of the same device.
LEMMA OnCredentials ==
    ASSUME Sound, NEW w \in Workers, Finish(w), Keyed',
           DOMAIN credentials \subseteq DOMAIN credentials',
           UNCHANGED <<stations, devices, lockers, ports, sessions, reports, abandoned,
                       checkouts, payments, overtaken, signed, now>>
    PROVE  Sound' /\ Wrote(w)
<1>1. Fielded' /\ Standing /\ Kept(request[w].about)
  BY NoChange
<1>2. Grow
  BY <1>1 DEF Grow
<1>3. Rows'
  BY <1>1 DEF Sound, Rows, Reported, Sold, Accessed, Exists
<1>. QED
  BY <1>1, <1>2, <1>3, Finished

\* One credential is put out of use.
Without(c) == [credentials EXCEPT ![c].active = FALSE]

LEMMA PutOut ==
    ASSUME Sound, NEW c \in DOMAIN credentials
    PROVE  /\ Without(c) \in Seq(CredentialRow) /\ Len(Without(c)) = Len(credentials)
           /\ DOMAIN Without(c) = DOMAIN credentials
           /\ \A b \in DOMAIN credentials :
                 /\ b # c => Without(c)[b] = credentials[b]
                 /\ Without(c)[b].device = credentials[b].device
                 /\ Without(c)[b].from = credentials[b].from
<1>1. /\ credentials \in Seq(CredentialRow) /\ Len(credentials) \in Nat
      /\ DOMAIN credentials = 1..Len(credentials)
      /\ \A b \in DOMAIN credentials : credentials[b] \in CredentialRow
  BY RowsHold DEF Sound, Rows, Keyed
<1>2. PICK after : after = [credentials EXCEPT ![c].active = FALSE]
  OBVIOUS
<1>3. after[c] = [credentials[c] EXCEPT !.active = FALSE]
  BY <1>1, <1>2
<1>4. /\ after[c] \in CredentialRow /\ after[c].device = credentials[c].device
      /\ after[c].from = credentials[c].from
  BY <1>1, <1>3 DEF CredentialRow
<1>5. after = [credentials EXCEPT ![c] = after[c]]
  BY <1>2, <1>3
<1>. QED
  BY <1>1, <1>2, <1>4, <1>5 DEF Without

LEMMA WritesCredential ==
    ASSUME Sound, NEW w \in Workers, CredentialSteps(w) PROVE Sound' /\ Wrote(w)
<1>1. PICK r : r = request[w]
  OBVIOUS
<1>2. Fits(r) /\ Keyed
  BY <1>1 DEF Sound, Rows, RequestsFit
<1>3. /\ credentials \in Seq(CredentialRow) /\ Len(credentials) \in Nat
      /\ DOMAIN credentials = 1..Len(credentials)
      /\ \A c \in DOMAIN credentials : credentials[c] \in CredentialRow
  BY RowsHold DEF Sound, Rows, Keyed
<1>4. \A row \in CredentialRow : row.device \in Devices /\ row.type \in CredentialTypes
  BY DEF CredentialRow
<1>5. \A d \in Devices, type \in CredentialTypes, from \in Nat :
         /\ Credential(d, type, from) \in CredentialRow
         /\ Credential(d, type, from).device = d /\ Credential(d, type, from).from = from
  BY DEF Credential, CredentialRow
<1>7. ASSUME NEW old \in Seq(CredentialRow), Len(old) = Len(credentials),
             \A b \in DOMAIN credentials :
                /\ old[b].device = credentials[b].device
                /\ old[b].from = credentials[b].from,
             NEW d \in Devices, NEW type \in CredentialTypes, NEW from \in Nat, Exists(d),
             from < Len(credentials) + 1,
             credentials' = Append(old, Credential(d, type, from)),
             UNCHANGED devices
      PROVE  Keyed' /\ DOMAIN credentials \subseteq DOMAIN credentials'
  <2>1. PICK row \in CredentialRow :
            row = Credential(d, type, from) /\ row.device = d /\ row.from = from
    BY <1>5
  <2>2. /\ credentials' \in Seq(CredentialRow)
        /\ Len(credentials') = Len(credentials) + 1
        /\ DOMAIN credentials' = 1..(Len(credentials) + 1)
        /\ credentials'[Len(credentials) + 1] = row
        /\ \A b \in DOMAIN credentials : credentials'[b] = old[b]
    BY <1>3, <1>7, <2>1
  <2>3. ASSUME NEW b \in DOMAIN credentials'
        PROVE  devices'[credentials'[b].device] # None /\ credentials'[b].from < b
    <3>1. CASE b \in DOMAIN credentials
      BY <1>2, <1>7, <2>2, <3>1 DEF Keyed, Exists
    <3>2. CASE b = Len(credentials) + 1
      BY <1>7, <2>1, <2>2, <3>2 DEF Exists
    <3>. QED
      BY <1>3, <2>2, <3>1, <3>2
  <2>. QED
    BY <1>3, <2>2, <2>3 DEF Keyed, Exists
<1>8. CASE CreateCredential(w)
  <2>1. /\ r.op = "create_credential"
        /\ credentials' = Append(credentials, Credential(r.device, r.type, 0))
        /\ Finish(w)
        /\ UNCHANGED <<stations, devices, lockers, ports, sessions, reports, abandoned,
                       checkouts, payments, overtaken, signed, now>>
    BY <1>1, <1>8 DEF CreateCredential, Untouched, fleet, access, customers
  <2>2. r.device \in Devices /\ Exists(r.device) /\ r.type \in CredentialTypes
    BY <1>2, <2>1 DEF Fits
  <2>3. Keyed' /\ DOMAIN credentials \subseteq DOMAIN credentials'
    BY <1>3, <1>7, <2>1, <2>2
  <2>. QED
    BY <2>1, <2>3, OnCredentials
<1>9. CASE Rotate(w)
  <2>1. PICK c \in DOMAIN credentials : c = r.credential
    BY <1>1, <1>2, <1>9 DEF Rotate, Fits
  <2>2. PICK old : old = Without(c)
    OBVIOUS
  <2>3. /\ credentials' = Append(old, Credential(credentials[c].device,
                                                 credentials[c].type, c))
        /\ Finish(w)
        /\ UNCHANGED <<stations, devices, lockers, ports, sessions, reports, abandoned,
                       checkouts, payments, overtaken, signed, now>>
    BY <1>1, <1>9, <2>1, <2>2 DEF Rotate, Untouched, fleet, access, customers, Without
  <2>4. /\ old \in Seq(CredentialRow) /\ Len(old) = Len(credentials)
        /\ \A b \in DOMAIN credentials :
              old[b].device = credentials[b].device /\ old[b].from = credentials[b].from
    BY <2>2, PutOut
  <2>5. /\ credentials[c].device \in Devices /\ credentials[c].type \in CredentialTypes
        /\ Exists(credentials[c].device)
        /\ c \in Nat /\ c < Len(credentials) + 1
    BY <1>2, <1>3, <1>4 DEF Keyed
  <2>6. Keyed' /\ DOMAIN credentials \subseteq DOMAIN credentials'
    BY <1>7, <2>3, <2>4, <2>5
  <2>. QED
    BY <2>3, <2>6, OnCredentials
<1>10. CASE Revoke(w)
  <2>1. PICK c \in DOMAIN credentials : c = r.credential
    BY <1>1, <1>2, <1>10 DEF Revoke, Fits
  <2>2. /\ credentials' = Without(c)
        /\ Finish(w)
        /\ UNCHANGED <<stations, devices, lockers, ports, sessions, reports, abandoned,
                       checkouts, payments, overtaken, signed, now>>
    BY <1>1, <1>10, <2>1 DEF Revoke, Untouched, fleet, access, customers, Without
  <2>3. /\ credentials' \in Seq(CredentialRow) /\ DOMAIN credentials' = DOMAIN credentials
        /\ \A b \in DOMAIN credentials :
              /\ credentials'[b].device = credentials[b].device
              /\ credentials'[b].from = credentials[b].from
    BY <2>2, PutOut
  <2>4. Keyed'
    BY <1>2, <2>2, <2>3 DEF Keyed, Exists
  <2>. QED
    BY <2>2, <2>3, <2>4, OnCredentials
<1>. QED
  BY <1>8, <1>9, <1>10 DEF CredentialSteps

-------------------------------------------------------------------------------
(* Reports *)

\* A request that goes on, where only the field changes.
LEMMA Going ==
    ASSUME Sound, NEW w \in Workers, NEW r, Become(w, r), Fits(r),
           r.about \subseteq request[w].about,
           r.op \in {"idle", "ingest", "handle", "beat", "settle"},
           Fielded', Standing, Kept(request[w].about), UNCHANGED sessions,
           UNCHANGED <<credentials, reports, abandoned, checkouts, payments, overtaken,
                       signed, now>>
    PROVE  Sound' /\ Wrote(w)
<1>1. Grow
  BY DEF Grow
<1>2. Keyed' /\ Reported'
  BY <1>1, RowsHold DEF Sound, Rows, Keyed, Reported, Grow, Standing
<1>3. Rows'
  BY <1>2 DEF Sound, Rows, Sold, Accessed
<1>4. Fits(r)'
  BY <1>1, StillFits
<1>5. Sound'
  BY <1>1, <1>3, <1>4, Becoming DEF Sound
<1>. QED
  BY <1>5 DEF Wrote

\* What becomes of a signed request that does not begin anything.
NonceSteps(w) ==
    NonceReserved(w) \/ NonceRefused(w) \/ (FindCredential(w) /\ Finish(w))

LEMMA NonceKeeps ==
    ASSUME NEW w \in Workers, NonceSteps(w)
    PROVE  UNCHANGED <<fleet, credentials, reports, abandoned, store, now, boot, signed>>
BY DEF NonceSteps, NonceReserved, NonceRefused, FindCredential, tables, access

LEMMA SpendsNonce ==
    ASSUME Sound, NEW w \in Workers, NonceSteps(w) PROVE Sound' /\ Wrote(w)
<1>1. UNCHANGED <<stations, devices, lockers, ports, sessions, credentials, reports,
                  abandoned, checkouts, payments, overtaken, signed, now>>
  BY NonceKeeps DEF fleet, customers
<1>2. /\ Fielded' /\ Standing /\ Kept(request[w].about)
  BY <1>1, NoChange
<1>3. CASE Finish(w)
  BY <1>1, <1>2, <1>3, OnField DEF Sound, Rows, Sold
<1>4. CASE NonceReserved(w)
  <2>1. PICK r : r = request[w]
    OBVIOUS
  <2>2. PICK next : next = Context(r.device, r.station, r.message.content)
    OBVIOUS
  <2>3. r.op = "reserve_nonce" /\ Become(w, next)
    BY <1>4, <2>1, <2>2 DEF NonceReserved
  <2>4. /\ r.message \in Message /\ r.device \in Devices \intersect r.about
        /\ Exists(r.device)
        /\ r.message.content.locker \in r.about \union {None}
    BY <2>1, <2>3 DEF Sound, RequestsFit, Fits
  <2>5. /\ next.op = "ingest" /\ next.device = r.device
        /\ next.content = r.message.content
        /\ next.about = RowsOf(r.device, r.message.content)
    BY <2>2 DEF Context
  <2>6. next.about \subseteq r.about /\ r.device \in next.about
        /\ r.message.content.locker \in next.about \union {None}
    BY <2>4, <2>5 DEF RowsOf
  <2>7. next.about \subseteq Names
    BY <2>1, <2>6 DEF Sound, RequestsFit, Fits
  <2>8. r.message.content \in Contents
    BY <2>4 DEF Message
  <2>9. Fits(next)
    BY <2>4, <2>5, <2>6, <2>7, <2>8 DEF Fits
  <2>. QED
    BY <1>1, <1>2, <2>1, <2>3, <2>5, <2>6, <2>9, Going
<1>. QED
  BY <1>3, <1>4 DEF NonceSteps, NonceRefused

\* What a handler holds.
LEMMA InHandling ==
    ASSUME Sound, NEW w \in Workers, NEW r, r = request[w], r.op \in {"handle", "beat", "settle"}
    PROVE  /\ Fits(r) /\ r.report \in DOMAIN reports
           /\ reports[r.report] \in ReportRow
           /\ reports[r.report].device \in Devices \intersect r.about
           /\ Exists(reports[r.report].device)
           /\ reports[r.report].content \in Contents
           /\ reports[r.report].content.locker \in r.about \union {None}
<1>1. Fits(r)
  BY DEF Sound, RequestsFit
<1>2. /\ r.report \in DOMAIN reports /\ reports[r.report].device \in r.about
      /\ reports[r.report].content.locker \in r.about \union {None}
  BY <1>1 DEF Fits
<1>. QED
  BY <1>1, <1>2, RowsHold DEF Sound, Rows, Reported

LEMMA SettlesFits ==
    ASSUME Sound, NEW w \in Workers, request[w].op \in {"handle", "beat"},
           NEW status \in {"processed", "failed"}
    PROVE  Fits([op |-> "settle", about |-> request[w].about,
                 report |-> request[w].report, status |-> status])
BY InHandling DEF Fits

LEMMA Ingests ==
    ASSUME Sound, NEW w \in Workers, Ingest(w) PROVE Sound' /\ Wrote(w)
<1>1. PICK r : r = request[w]
  OBVIOUS
<1>2. /\ Fits(r) /\ r.op = "ingest"
      /\ UNCHANGED <<stations, devices, lockers, ports, sessions, credentials, abandoned,
                     checkouts, payments, overtaken, signed, now>>
  BY <1>1 DEF Ingest, Fleet, access, customers, Sound, RequestsFit
<1>3. CASE Finish(w) /\ UNCHANGED reports
  BY <1>2, <1>3, NoChange, OnField DEF Sound, Rows, Sold
<1> DEFINE row == [device |-> r.device, content |-> r.content, status |-> "received"]
<1>4. ASSUME reports' = Append(reports, row), NEW next,
             next = [op |-> "handle", about |-> r.about, report |-> Len(reports) + 1],
             Become(w, next)
      PROVE  Sound' /\ Wrote(w)
  <2>1. /\ r.device \in Devices \intersect r.about /\ Exists(r.device)
        /\ r.content \in Contents /\ r.content.locker \in r.about \union {None}
    BY <1>2 DEF Fits
  <2>2. row \in ReportRow /\ row.device = r.device /\ row.content = r.content
    BY <2>1 DEF ReportRow
  <2>3. /\ next.op = "handle" /\ next.about = r.about /\ next.report = Len(reports) + 1
    BY <1>4
  <2> HIDE DEF row
  <2>4. /\ reports \in Seq(ReportRow) /\ Len(reports) \in Nat
        /\ DOMAIN reports = 1..Len(reports)
    BY RowsHold DEF Sound, Rows, Reported
  <2>5. /\ reports' \in Seq(ReportRow)
        /\ DOMAIN reports' = 1..(Len(reports) + 1)
        /\ reports'[Len(reports) + 1] = row
        /\ \A e \in DOMAIN reports : reports'[e] = reports[e]
    BY <1>4, <2>2, <2>4
  <2>6. \A e \in DOMAIN reports' : e \in DOMAIN reports \/ e = Len(reports) + 1
    BY <2>4, <2>5
  <2>7. Len(reports) + 1 \in DOMAIN reports' /\ DOMAIN reports \subseteq DOMAIN reports'
    BY <2>4, <2>5
  <2>8. Fielded' /\ Standing
    BY <1>2 DEF Sound, Rows, Fielded, Standing, Exists, HasLocker, HasPort
  <2>9. Grow
    BY <1>2, <2>5, <2>7, <2>8 DEF Grow
  <2>10. Reported'
    BY <1>2, <2>1, <2>2, <2>5, <2>6, <2>7 DEF Sound, Rows, Reported, Exists
  <2>11. Rows'
    BY <1>2, <2>8, <2>10 DEF Sound, Rows, Keyed, Sold, Accessed, Exists
  <2>12. Kept(r.about)
    BY <1>2, <2>1, <2>2, <2>5, <2>6 DEF Kept
  <2>13. next.about \subseteq Names
    BY <1>2, <2>3 DEF Fits
  <2>14. Fits(next)'
    BY <2>1, <2>2, <2>3, <2>5, <2>7, <2>13 DEF Fits, Names
  <2>15. Sound'
    BY <1>1, <1>4, <2>3, <2>9, <2>11, <2>14, Becoming DEF Sound
  <2>. QED
    BY <1>1, <1>2, <1>4, <2>3, <2>12, <2>15 DEF Wrote
<1>. QED
  BY <1>1, <1>3, <1>4 DEF Ingest

LEMMA Marks ==
    ASSUME Sound, NEW w \in Workers, Mark(w) PROVE Sound' /\ Wrote(w)
<1>1. PICK r : r = request[w]
  OBVIOUS
<1>2. /\ r.op = "settle" /\ Finish(w)
      /\ reports' = [reports EXCEPT ![r.report].status = r.status]
      /\ UNCHANGED <<stations, devices, lockers, ports, sessions, credentials, abandoned,
                     checkouts, payments, overtaken, signed, now>>
  BY <1>1 DEF Mark, Fleet, access, customers
<1>3. Fits(r) /\ r.report \in DOMAIN reports /\ reports[r.report] \in ReportRow
  BY <1>1, <1>2, InHandling
<1>4. r.status \in {"processed", "failed"}
  BY <1>2, <1>3 DEF Fits
<1>5. reports \in Seq(ReportRow) /\ DOMAIN reports = 1..Len(reports) /\ Len(reports) \in Nat
  BY RowsHold DEF Sound, Rows, Reported
<1>6. reports'[r.report] = [reports[r.report] EXCEPT !.status = r.status]
  BY <1>2, <1>3, <1>5
<1>7. /\ reports'[r.report] \in ReportRow
      /\ reports'[r.report].device = reports[r.report].device
      /\ reports'[r.report].content = reports[r.report].content
  BY <1>3, <1>4, <1>6 DEF ReportRow
<1>8. reports' = [reports EXCEPT ![r.report] = reports'[r.report]]
  BY <1>2, <1>6
<1>9. /\ reports' \in Seq(ReportRow) /\ DOMAIN reports' = DOMAIN reports
      /\ \A e \in DOMAIN reports : e # r.report => reports'[e] = reports[e]
  BY <1>3, <1>5, <1>7, <1>8
<1>10. Fielded' /\ Standing
  BY <1>2 DEF Sound, Rows, Fielded, Standing, Exists, HasLocker, HasPort
<1>11. Grow
  BY <1>2, <1>7, <1>9, <1>10 DEF Grow
<1>12. Reported'
  BY <1>2, <1>7, <1>9 DEF Sound, Rows, Reported, Exists
<1>13. Rows'
  BY <1>2, <1>10, <1>12 DEF Sound, Rows, Keyed, Sold, Accessed, Exists
<1>14. Kept(r.about)
  BY <1>2, <1>9 DEF Kept
<1>. QED
  BY <1>1, <1>2, <1>11, <1>13, <1>14, Finished

LEMMA GoesOnline ==
    ASSUME Sound, NEW d \in Devices, Exists(d),
           devices' = [devices EXCEPT ![d].online = TRUE]
    PROVE  /\ devices'[d] \in DeviceRow /\ devices' = [devices EXCEPT ![d] = devices'[d]]
           /\ devices'[d].station = devices[d].station
           /\ devices'[d].lifecycle = devices[d].lifecycle
           /\ stations[devices'[d].station] # None
           /\ \A c \in Devices : c # d => devices'[c] = devices[c]
<1>1. devices[d] \in DeviceRow /\ stations[devices[d].station] # None
  BY DEF Sound, Rows, Fielded, Exists
<1>2. devices'[d] = [devices[d] EXCEPT !.online = TRUE]
  BY DEF Sound, Rows, Fielded
<1>3. devices'[d] \in DeviceRow /\ devices'[d].station = devices[d].station
      /\ devices'[d].lifecycle = devices[d].lifecycle
  BY <1>1, <1>2 DEF DeviceRow
<1>. QED
  BY <1>1, <1>2, <1>3 DEF Sound, Rows, Fielded

LEMMA ReportsDevice ==
    ASSUME Sound, NEW w \in Workers, HeartbeatRead(w) \/ Heartbeat(w) \/ Telemetry(w)
    PROVE  Sound' /\ Wrote(w)
<1>1. PICK r : r = request[w]
  OBVIOUS
<1>2. /\ r.op \in {"handle", "beat"}
      /\ UNCHANGED <<stations, lockers, ports, sessions, credentials, reports, abandoned,
                     checkouts, payments, overtaken, signed, now>>
  BY <1>1 DEF HeartbeatRead, Heartbeat, Telemetry, Handling, Fleet, tables, fleet,
         access, customers
<1>3. PICK d : d = reports[r.report].device
  OBVIOUS
<1>4. /\ Fits(r) /\ r.report \in DOMAIN reports
      /\ d \in Devices \intersect r.about /\ Exists(d)
  BY <1>1, <1>2, <1>3, InHandling
<1>5. CASE HeartbeatRead(w)
  <2> DEFINE next == [op |-> "beat", about |-> r.about, report |-> r.report, device |-> d,
                      lifecycle |-> devices[d].lifecycle]
  <2>1. Become(w, next) /\ UNCHANGED devices
    BY <1>1, <1>3, <1>5 DEF HeartbeatRead, tables, fleet
  <2>2. Fits(next)
    BY <1>2, <1>3, <1>4 DEF Fits
  <2>3. next.about = r.about /\ next.op = "beat"
    OBVIOUS
  <2> HIDE DEF next
  <2>. QED
    BY <1>1, <1>2, <2>1, <2>2, <2>3, NoChange, Going
<1>6. CASE Heartbeat(w) \/ Telemetry(w)
  <2> DEFINE next == [op |-> "settle", about |-> r.about, report |-> r.report,
                      status |-> "processed"]
  <2>1. Become(w, next)
    BY <1>1, <1>6 DEF Heartbeat, Telemetry, Settle
  <2>2. Fits(next)
    BY <1>1, <1>2, SettlesFits
  <2>3. next.about = r.about /\ next.op = "settle"
    OBVIOUS
  <2> HIDE DEF next
  <2>4. devices' = devices \/ devices' = [devices EXCEPT ![d].online = TRUE]
    BY <1>1, <1>3, <1>4, <1>6 DEF Heartbeat, Telemetry, Fits
  <2>5. CASE devices' = devices
    BY <1>1, <1>2, <2>1, <2>2, <2>3, <2>5, NoChange, Going
  <2>6. CASE devices' = [devices EXCEPT ![d].online = TRUE]
    <3>1. /\ Fielded' /\ Standing
      BY <1>1, <1>2, <1>4, <2>6, GoesOnline, ChangesDevice
    <3>2. Kept(r.about)
      BY <1>2, <1>4, <2>6, GoesOnline DEF Kept
    <3>. QED
      BY <1>1, <1>2, <2>1, <2>2, <2>3, <3>1, <3>2, Going
  <2>. QED
    BY <2>4, <2>5, <2>6
<1>. QED
  BY <1>5, <1>6

\* A report puts a row that the code can write in place of one.
LEMMA SaysLocker ==
    ASSUME NEW row \in LockerRow, NEW said,
           MaySay(said.door, DoorStatus), MaySay(said.lock, LockStatus)
    PROVE  /\ LockerData(row, said) \in LockerRow
           /\ LockerData(row, said).door = Stated(said.door, row.door)
BY DEF LockerRow, LockerData, Stated, MaySay

LEMMA SaysPort ==
    ASSUME NEW row \in PortRow, NEW said,
           MaySay(said.status, PortStatus), MaySay(said.power, PowerState)
    PROVE  /\ PortData(row, said) \in PortRow
           /\ PortData(row, said).channel = row.channel
BY DEF PortRow, PortData, Stated, MaySay

LEMMA ReportsLocker ==
    ASSUME Sound, NEW w \in Workers, LockerReport(w) PROVE Sound' /\ Wrote(w)
<1>1. PICK r : r = request[w]
  OBVIOUS
<1>2. /\ r.op = "handle" /\ reports[r.report].content.kind = "locker"
      /\ UNCHANGED <<stations, devices, ports, sessions, credentials, reports, abandoned,
                     checkouts, payments, overtaken, signed, now>>
  BY <1>1 DEF LockerReport, Handling, Fleet, access, customers
<1>3. PICK said : said = reports[r.report].content
  OBVIOUS
<1>4. PICK l : l = said.locker
  OBVIOUS
<1>5. /\ Fits(r) /\ said \in Contents /\ l \in r.about \union {None}
  BY <1>1, <1>2, <1>3, <1>4, InHandling
<1>6. l \in Lockers
  BY <1>2, <1>3, <1>4, <1>5, FleetInputs
<1>7. l \in r.about
  BY <1>5, <1>6, FleetConstants
<1> DEFINE next(status) == [op |-> "settle", about |-> r.about, report |-> r.report,
                            status |-> status]
<1>8. ASSUME NEW status \in {"processed", "failed"}
      PROVE  Fits(next(status)) /\ next(status).about = r.about /\ next(status).op = "settle"
  BY <1>1, <1>2, <1>8, SettlesFits
<1> HIDE DEF next
<1>9. CASE Become(w, next("failed")) /\ UNCHANGED lockers
  BY <1>1, <1>2, <1>8, <1>9, NoChange, Going
<1>10. CASE /\ Found(w, lockers)
            /\ MaySay(said.door, DoorStatus) /\ MaySay(said.lock, LockStatus)
            /\ lockers' = [lockers EXCEPT ![l] = LockerData(@, said)]
            /\ Become(w, next("processed"))
  <2>1. lockers[l] # None
    BY <1>1, <1>3, <1>4, <1>10 DEF Found, Said
  <2>2. lockers[l] \in LockerRow /\ Exists(DeviceOf[l])
    BY <1>6, <2>1 DEF Sound, Rows, Fielded, HasLocker
  <2>4. lockers'[l] = LockerData(lockers[l], said)
    BY <1>6, <1>10 DEF Sound, Rows, Fielded
  <2>6. lockers'[l] \in LockerRow
    BY <1>10, <2>2, <2>4, SaysLocker
  <2>7. lockers' = [lockers EXCEPT ![l] = lockers'[l]]
    BY <1>10, <2>4
  <2>8. Fielded' /\ Standing
    BY <1>2, <1>6, <2>2, <2>6, <2>7, ChangesLocker
  <2>9. \A k \in Lockers \ r.about : lockers'[k] = lockers[k]
    BY <1>7, <2>7 DEF Sound, Rows, Fielded
  <2>10. Kept(r.about)
    BY <1>2, <2>9 DEF Kept
  <2>. QED
    BY <1>1, <1>2, <1>8, <1>10, <2>8, <2>10, Going
<1>. QED
  BY <1>1, <1>3, <1>4, <1>9, <1>10 DEF LockerReport, Throws, Settle, Said, next

LEMMA ReportsPort ==
    ASSUME Sound, NEW w \in Workers, PortReport(w) PROVE Sound' /\ Wrote(w)
<1>1. PICK r : r = request[w]
  OBVIOUS
<1>2. /\ r.op = "handle" /\ reports[r.report].content.kind = "port"
      /\ UNCHANGED <<stations, devices, lockers, sessions, credentials, reports, abandoned,
                     checkouts, payments, overtaken, signed, now>>
  BY <1>1 DEF PortReport, Handling, Fleet, access, customers
<1>3. PICK said : said = reports[r.report].content
  OBVIOUS
<1>4. PICK l : l = said.locker
  OBVIOUS
<1>5. /\ Fits(r) /\ said \in Contents /\ l \in r.about \union {None}
  BY <1>1, <1>2, <1>3, <1>4, InHandling
<1>6. l \in Lockers
  BY <1>2, <1>3, <1>4, <1>5, FleetInputs
<1>7. l \in r.about
  BY <1>5, <1>6, FleetConstants
<1> DEFINE next(status) == [op |-> "settle", about |-> r.about, report |-> r.report,
                            status |-> status]
<1>8. ASSUME NEW status \in {"processed", "failed"}
      PROVE  Fits(next(status)) /\ next(status).about = r.about /\ next(status).op = "settle"
  BY <1>1, <1>2, <1>8, SettlesFits
<1> HIDE DEF next
<1>9. CASE Become(w, next("failed")) /\ UNCHANGED ports
  BY <1>1, <1>2, <1>8, <1>9, NoChange, Going
<1>10. CASE /\ Found(w, ports)
            /\ MaySay(said.status, PortStatus) /\ MaySay(said.power, PowerState)
            /\ ports' = [ports EXCEPT ![l] = PortData(@, said)]
            /\ Become(w, next("processed"))
  <2>1. HasPort(l)
    BY <1>1, <1>3, <1>4, <1>10 DEF Found, Said, HasPort
  <2>2. ports[l] \in PortRow /\ HasLocker(l)
    BY <1>6, <2>1 DEF Sound, Rows, Fielded, HasPort
  <2>4. ports'[l] = PortData(ports[l], said)
    BY <1>6, <1>10 DEF Sound, Rows, Fielded
  <2>5. ports'[l] \in PortRow
    BY <1>10, <2>2, <2>4, SaysPort
  <2>6. ports' = [ports EXCEPT ![l] = ports'[l]]
    BY <1>10, <2>4
  <2>7. Fielded' /\ Standing
    BY <1>2, <1>6, <2>2, <2>5, <2>6, ChangesPort
  <2>8. \A k \in Lockers \ r.about : ports'[k] = ports[k]
    BY <1>7, <2>6 DEF Sound, Rows, Fielded
  <2>9. Kept(r.about)
    BY <1>2, <2>8 DEF Kept
  <2>. QED
    BY <1>1, <1>2, <1>8, <1>10, <2>7, <2>9, Going
<1>. QED
  BY <1>1, <1>3, <1>4, <1>9, <1>10 DEF PortReport, Throws, Settle, Said, next

LEMMA Reporting ==
    ASSUME Sound, NEW w \in Workers, ReportSteps(w) PROVE Sound' /\ Wrote(w)
<1>1. CASE Unhandled(w)
  <2>1. /\ Finish(w)
        /\ UNCHANGED <<stations, devices, lockers, ports, sessions, credentials, reports,
                       abandoned, checkouts, payments, overtaken, signed, now>>
    BY <1>1 DEF Unhandled, tables, fleet, access, customers
  <2>. QED
    BY <2>1, NoChange, OnField DEF Sound, Rows, Sold
<1>. QED
  BY <1>1, Ingests, ReportsDevice, ReportsLocker, ReportsPort, Marks DEF ReportSteps

-------------------------------------------------------------------------------
(* Customers, the clock, and servers that stop *)

LEMMA Sells ==
    ASSUME Sound, NEW w \in Workers, CustomerSteps(w) PROVE Sound' /\ Wrote(w)
<1>1. PICK r : r = request[w]
  OBVIOUS
<1>2. /\ Fits(r) /\ r.op \in {"issue", "pay"} /\ Finish(w)
      /\ UNCHANGED <<stations, devices, lockers, ports, sessions, credentials, reports,
                     abandoned, overtaken, signed, now>>
  BY <1>1 DEF CustomerSteps, IssueCheckout, CreatePayment, Elsewhere, access, Sound,
         RequestsFit
<1>3. Fielded' /\ Standing /\ Kept(r.about)
  BY <1>2, NoChange
<1>4. Keyed' /\ Reported' /\ Accessed'
  BY <1>2 DEF Sound, Rows, Keyed, Reported, Accessed, Exists
<1>5. /\ checkouts \in Seq(CheckoutRow) /\ Len(checkouts) \in Nat
      /\ DOMAIN checkouts = 1..Len(checkouts)
      /\ \A c \in DOMAIN checkouts : checkouts[c].device \in Devices
      /\ payments \in Seq(PaymentRow) /\ overtaken \subseteq Devices
  BY RowsHold DEF Sound, Rows, Sold
<1>6. CASE IssueCheckout(w)
  <2> DEFINE row == [device |-> r.device, expired |-> FALSE]
  <2>1. /\ checkouts' = Append(checkouts, row) /\ UNCHANGED payments
        /\ r.device \in Devices
    BY <1>1, <1>2, <1>6 DEF IssueCheckout, Fits
  <2>2. row \in CheckoutRow
    BY <2>1 DEF CheckoutRow
  <2> HIDE DEF row
  <2>3. /\ checkouts' \in Seq(CheckoutRow)
        /\ \A c \in DOMAIN checkouts : c \in DOMAIN checkouts' /\ checkouts'[c] = checkouts[c]
    BY <1>5, <2>1, <2>2
  <2>4. Grow
    BY <1>2, <1>3, <2>3 DEF Grow
  <2>5. Rows'
    BY <1>2, <1>3, <1>4, <1>5, <2>1, <2>3 DEF Rows, Sold
  <2>. QED
    BY <1>1, <1>2, <1>3, <2>4, <2>5, Finished
<1>7. CASE CreatePayment(w)
  <2> DEFINE row == [device |-> checkouts[r.checkout].device, checkout |-> r.checkout,
                     key |-> r.key, served |-> FALSE]
  <2>1. /\ payments' \in {payments, Append(payments, row)} /\ UNCHANGED checkouts
        /\ r.checkout \in DOMAIN checkouts /\ r.key \in IdempotencyKeys
    BY <1>1, <1>2, <1>7 DEF CreatePayment, Fits
  <2>2. row \in PaymentRow
    BY <1>5, <2>1 DEF PaymentRow
  <2> HIDE DEF row
  <2>3. payments' \in Seq(PaymentRow)
    BY <1>5, <2>1, <2>2
  <2>4. Grow
    BY <1>2, <1>3, <2>1 DEF Grow
  <2>5. Rows'
    BY <1>2, <1>3, <1>4, <1>5, <2>1, <2>3 DEF Rows, Sold
  <2>. QED
    BY <1>1, <1>2, <1>3, <2>4, <2>5, Finished
<1>. QED
  BY <1>6, <1>7 DEF CustomerSteps

LEMMA CheckoutEnds ==
    ASSUME Sound, NEW c \in DOMAIN checkouts, CheckoutExpires(c)
    PROVE  /\ Sound'
           /\ DOMAIN checkouts' = DOMAIN checkouts
           /\ \A k \in DOMAIN checkouts :
                 /\ checkouts'[k].device = checkouts[k].device
                 /\ checkouts[k].expired => checkouts'[k].expired
<1>1. /\ checkouts' = [checkouts EXCEPT ![c].expired = TRUE]
      /\ UNCHANGED <<stations, devices, lockers, ports, sessions, credentials, reports,
                     abandoned, payments, overtaken, signed, now, request, disturbed>>
  BY DEF CheckoutExpires, Elsewhere, access
<1>2. /\ checkouts \in Seq(CheckoutRow) /\ DOMAIN checkouts = 1..Len(checkouts)
      /\ checkouts[c] \in CheckoutRow
  BY RowsHold DEF Sound, Rows, Sold
<1>3. checkouts'[c] = [checkouts[c] EXCEPT !.expired = TRUE]
  BY <1>1, <1>2
<1>4. /\ checkouts'[c] \in CheckoutRow /\ checkouts'[c].device = checkouts[c].device
      /\ checkouts'[c].expired
  BY <1>2, <1>3 DEF CheckoutRow
<1>5. checkouts' = [checkouts EXCEPT ![c] = checkouts'[c]]
  BY <1>1, <1>3
<1>6. /\ checkouts' \in Seq(CheckoutRow) /\ DOMAIN checkouts' = DOMAIN checkouts
      /\ \A k \in DOMAIN checkouts : k # c => checkouts'[k] = checkouts[k]
  BY <1>2, <1>4, <1>5
<1>7. Fielded' /\ Standing
  BY <1>1, NoChange
<1>8. Grow
  BY <1>1, <1>4, <1>6, <1>7 DEF Grow
<1>9. Keyed' /\ Reported' /\ Accessed' /\ Sold'
  BY <1>1, <1>6 DEF Sound, Rows, Keyed, Reported, Accessed, Sold, Exists
<1>10. Sound'
  BY <1>1, <1>7, <1>8, <1>9, Happening DEF Sound, Rows, Overlap
<1>. QED
  BY <1>4, <1>6, <1>10

LEMMA SessionStarts ==
    ASSUME Sound, NEW i \in DOMAIN payments, NEW l \in Lockers, EnsureSession(i, l)
    PROVE  /\ Sound'
           /\ DeviceOf[l] = payments[i].device /\ ~payments[i].served
           /\ sessions' = sessions \union {l}
           /\ disturbed' = disturbed \union ({l, DeviceOf[l]} \intersect InHand)
           /\ DOMAIN payments' = DOMAIN payments
           /\ \A j \in DOMAIN payments :
                 /\ payments'[j].device = payments[j].device
                 /\ payments[j].served => payments'[j].served
           /\ \A k \in Lockers :
                 /\ HasLocker(k)' <=> HasLocker(k)
                 /\ HasLocker(k) => lockers'[k].door = lockers[k].door
           /\ UNCHANGED <<stations, devices, ports, credentials, reports, abandoned,
                          checkouts, overtaken, nonces, store, now, boot, signed, taken,
                          request>>
<1>1. /\ Slot(payments[i].device, l) /\ ~payments[i].served
      /\ lockers' = [lockers EXCEPT ![l].availability = "reserved"]
      /\ sessions' = sessions \union {l}
      /\ payments' = [payments EXCEPT ![i].served = TRUE]
      /\ disturbed' = disturbed \union ({l, payments[i].device} \intersect InHand)
      /\ UNCHANGED <<stations, devices, ports, credentials, reports, abandoned, checkouts,
                     overtaken, nonces, store, now, boot, signed, taken, request>>
  BY DEF EnsureSession, Elsewhere, access
<1>2. DeviceOf[l] = payments[i].device /\ HasLocker(l) /\ HasPort(l)
  BY <1>1 DEF Slot
<1>3. lockers[l] \in LockerRow
  BY <1>2 DEF Sound, Rows, Fielded, HasLocker
<1>4. lockers'[l] = [lockers[l] EXCEPT !.availability = "reserved"]
  BY <1>1 DEF Sound, Rows, Fielded
<1>5. lockers'[l] \in LockerRow /\ lockers'[l].door = lockers[l].door
  BY <1>3, <1>4 DEF LockerRow
<1>6. /\ \A k \in Lockers : k # l => lockers'[k] = lockers[k]
      /\ lockers' \in [Lockers -> LockerRow \union {None}]
  BY <1>1, <1>4, <1>5 DEF Sound, Rows, Fielded
<1>7. lockers'[l] # None
  BY <1>5, FleetInputs
<1>8. \A k \in Lockers : /\ HasLocker(k)' <=> HasLocker(k)
                         /\ HasLocker(k) => lockers'[k].door = lockers[k].door
  BY <1>2, <1>5, <1>6, <1>7 DEF HasLocker
<1>9. Standing
  BY <1>1, <1>8 DEF Standing, Exists, HasPort
<1>10. Fielded'
  BY <1>1, <1>2, <1>6, <1>8 DEF Sound, Rows, Fielded, Exists, HasPort
<1>11. /\ payments \in Seq(PaymentRow) /\ DOMAIN payments = 1..Len(payments)
       /\ payments[i] \in PaymentRow
  BY RowsHold DEF Sound, Rows, Sold
<1>12. payments'[i] = [payments[i] EXCEPT !.served = TRUE]
  BY <1>1, <1>11
<1>13. /\ payments'[i] \in PaymentRow /\ payments'[i].device = payments[i].device
       /\ payments'[i].served
  BY <1>11, <1>12 DEF PaymentRow
<1>14. payments' = [payments EXCEPT ![i] = payments'[i]]
  BY <1>1, <1>12
<1>15. /\ payments' \in Seq(PaymentRow) /\ DOMAIN payments' = DOMAIN payments
       /\ \A j \in DOMAIN payments : j # i => payments'[j] = payments[j]
  BY <1>11, <1>13, <1>14
<1>16. Grow
  BY <1>1, <1>9 DEF Grow
<1>17. Keyed' /\ Reported' /\ Accessed' /\ Sold'
  BY <1>1, <1>15 DEF Sound, Rows, Keyed, Reported, Accessed, Sold, Exists
<1>18. DeviceOf[l] \in Devices
  BY FleetConstants
<1>19. disturbed' \subseteq Names
  BY <1>1, <1>2, <1>18 DEF Sound, Overlap, Names
<1>20. Sound'
  BY <1>1, <1>10, <1>16, <1>17, <1>19, Happening DEF Sound, Rows
<1>. QED
  BY <1>1, <1>2, <1>8, <1>13, <1>15, <1>20

LEMMA CredentialEnds ==
    ASSUME Sound, NEW c \in DOMAIN credentials, CredentialExpires(c)
    PROVE  Sound'
<1>1. /\ credentials' = [credentials EXCEPT ![c].expired = TRUE]
      /\ UNCHANGED <<stations, devices, lockers, ports, sessions, reports, abandoned,
                     checkouts, payments, overtaken, signed, now, request, disturbed>>
  BY DEF CredentialExpires, Untouched, fleet, access, customers
<1>2. /\ credentials \in Seq(CredentialRow) /\ DOMAIN credentials = 1..Len(credentials)
      /\ credentials[c] \in CredentialRow
  BY RowsHold DEF Sound, Rows, Keyed
<1>3. credentials'[c] = [credentials[c] EXCEPT !.expired = TRUE]
  BY <1>1, <1>2
<1>4. /\ credentials'[c] \in CredentialRow
      /\ credentials'[c].device = credentials[c].device
      /\ credentials'[c].from = credentials[c].from
  BY <1>2, <1>3 DEF CredentialRow
<1>5. credentials' = [credentials EXCEPT ![c] = credentials'[c]]
  BY <1>1, <1>3
<1>6. /\ credentials' \in Seq(CredentialRow) /\ DOMAIN credentials' = DOMAIN credentials
      /\ \A k \in DOMAIN credentials : k # c => credentials'[k] = credentials[k]
  BY <1>2, <1>4, <1>5
<1>7. Keyed'
  BY <1>1, <1>4, <1>6 DEF Sound, Rows, Keyed, Exists
<1>8. Fielded' /\ Standing
  BY <1>1, NoChange
<1>9. Grow
  BY <1>1, <1>6, <1>8 DEF Grow
<1>10. Reported' /\ Accessed' /\ Sold'
  BY <1>1, <1>6 DEF Sound, Rows, Reported, Accessed, Sold, Exists
<1>. QED
  BY <1>1, <1>7, <1>8, <1>9, <1>10, Happening DEF Sound, Rows, Overlap

\* The step changes no row, and what is in flight goes on.
LEMMA RowsStay ==
    ASSUME Sound, UNCHANGED <<fleet, credentials, reports, abandoned>>, Accessed'
    PROVE  Rows' /\ Grow
BY DEF Sound, Rows, Fielded, Keyed, Reported, Sold, Grow, Standing, fleet, customers, Exists,
       HasLocker, HasPort

LEMMA ClockTicks ==
    ASSUME Sound, TimePasses PROVE Sound'
<1>1. /\ now' = now + 1
      /\ UNCHANGED <<fleet, credentials, reports, abandoned, signed, request, disturbed>>
  BY DEF TimePasses
<1>2. Accessed'
  BY <1>1 DEF Sound, Rows, Accessed
<1>. QED
  BY <1>1, <1>2, RowsStay, Happening DEF Sound, Overlap

LEMMA Stops ==
    ASSUME Sound PROVE  /\ ServerRestarts => Sound'
                        /\ \A w \in Workers : RequestDies(w) => Sound'
<1>1. now \in Nat
  BY DEF Sound, Rows, Accessed
<1>2. CASE ServerRestarts
  <2>1. /\ Dying({w \in Workers : request[w] # Idle})
        /\ UNCHANGED <<fleet, credentials, reports, signed, now>>
    BY <1>2 DEF ServerRestarts
  <2>2. {w \in Workers : request[w] # Idle} \in SUBSET Workers
    OBVIOUS
  <2>. QED
    BY <1>1, <2>1, <2>2, Perishing
<1>3. ASSUME NEW w \in Workers, RequestDies(w) PROVE Sound'
  BY <1>1, <1>3, Perishing DEF RequestDies, access
<1>. QED
  BY <1>2, <1>3

\* A report that will be marked failed after all.
LEMMA MarksFail ==
    ASSUME Sound, NEW w \in Workers, MarkFails(w)
    PROVE  /\ Sound'
           /\ request[w].op = "settle" /\ request'[w].op = "settle"
           /\ request'[w].report = request[w].report
           /\ request'[w].about = request[w].about
           /\ request'[w].status = "failed"
           /\ request[w].about \subseteq disturbed' /\ disturbed \subseteq disturbed'
           /\ \A v \in Workers \ {w} : request'[v] = request[v]
<1>1. PICK r : r = request[w]
  OBVIOUS
<1>2. PICK next : next = [r EXCEPT !.status = "failed"]
  OBVIOUS
<1>3. Fits(r) /\ r.op = "settle" /\ r.status = "processed"
  BY <1>1 DEF MarkFails, Sound, RequestsFit
<1>4. /\ request' = [request EXCEPT ![w] = next]
      /\ disturbed' = disturbed \union r.about
      /\ UNCHANGED <<fleet, credentials, reports, abandoned, signed, now>>
  BY <1>1, <1>2 DEF MarkFails, tables, access, Sound, RequestsFit
<1>5. /\ next.op = "settle" /\ next.report = r.report /\ next.about = r.about
      /\ next.status = "failed"
  BY <1>2, <1>3
<1>6. Accessed'
  BY <1>4 DEF Sound, Rows, Accessed
<1>7. Rows' /\ Grow
  BY <1>4, <1>6, RowsStay
<1>8. Fits(next)
  BY <1>3, <1>5 DEF Fits
<1>9. Fits(next)'
  BY <1>7, <1>8, StillFits
<1>10. /\ RequestsFit'
       /\ request'[w] = next /\ \A v \in Workers \ {w} : request'[v] = request[v]
  BY <1>4, <1>7, <1>9, OneMoves DEF Sound
<1>11. \A v \in Workers : request'[v].about = request[v].about
  BY <1>1, <1>5, <1>10
<1>12. disturbed' \subseteq Names
  BY <1>3, <1>4 DEF Fits, Sound, Overlap
<1>13. Overlap'
  BY <1>4, <1>11, <1>12 DEF Sound, Overlap, Names
<1>. QED
  BY <1>1, <1>3, <1>4, <1>5, <1>7, <1>10, <1>13 DEF Sound

LEMMA StartsSound ==
    ASSUME Sound, NEW w \in Workers, Begins(w) PROVE Sound'
<1>1. PICK r : TakeUp(w, r) /\ JustRead(r) /\ (UNCHANGED tables \/ Delivered)
  BY DEF Begins, Takes
<1>2. CASE UNCHANGED tables
  <2>1. UNCHANGED <<fleet, credentials, reports, abandoned, signed, now>>
    BY <1>2 DEF tables, access
  <2>2. Accessed'
    BY <2>1 DEF Sound, Rows, Accessed
  <2>. QED
    BY <1>1, <2>1, <2>2, RowsStay, Starting DEF JustRead, Sound
<1>3. CASE Delivered
  <2>1. PICK m \in Message :
          /\ m.credential \in DOMAIN credentials
          /\ signed' \in {signed, Append(signed, m)}
          /\ UNCHANGED <<fleet, credentials, reports, abandoned, now>>
    BY <1>3 DEF Delivered
  <2>2. signed \in Seq(Message) /\ DOMAIN signed = 1..Len(signed) /\ Len(signed) \in Nat
    BY RowsHold DEF Sound, Rows, Accessed
  <2>3. /\ signed' \in Seq(Message)
        /\ \A i \in DOMAIN signed' :
              \/ signed'[i] = m
              \/ i \in DOMAIN signed /\ signed'[i] = signed[i]
    BY <2>1, <2>2
  <2>4. Accessed'
    BY <2>1, <2>3 DEF Sound, Rows, Accessed
  <2>. QED
    BY <1>1, <2>1, <2>4, RowsStay, Starting DEF JustRead, Sound
<1>. QED
  BY <1>1, <1>2, <1>3

-------------------------------------------------------------------------------
(* The invariant holds *)

\* A request does what it came for.
Turn(w) ==
    \/ AdministrationSteps(w) \/ CredentialSteps(w) \/ NonceSteps(w)
    \/ ReportSteps(w) \/ CustomerSteps(w)

LEMMA Turns ==
    ASSUME Sound, NEW w \in Workers, Turn(w) PROVE Sound' /\ Wrote(w)
<1>1. AdministrationSteps(w) => Sound' /\ Wrote(w)
  BY SetsStationStatus, CreatesDevice, MovesDevice, SetsLifecycle, CreatesLocker,
     SetsAvailability, CreatesPort, SetsPort DEF AdministrationSteps
<1>. QED
  BY <1>1, WritesCredential, SpendsNonce, Reporting, Sells DEF Turn

LEMMA Stutters ==
    ASSUME Sound, UNCHANGED vars PROVE Sound'
<1>1. UNCHANGED <<fleet, credentials, reports, abandoned, signed, now, request, disturbed>>
  BY DEF vars, tables, access
<1>2. Accessed'
  BY <1>1 DEF Sound, Rows, Accessed
<1>. QED
  BY <1>1, <1>2, RowsStay, Happening DEF Sound, Overlap

\* What a step can be.
StepKind ==
    \/ \E w \in Workers : Begins(w) \/ Turn(w) \/ MarkFails(w) \/ RequestDies(w)
    \/ \E w \in Workers, s \in Stations, next \in StationTargets : CreateStation(w, s, next)
    \/ \E c \in DOMAIN checkouts : CheckoutExpires(c)
    \/ \E i \in DOMAIN payments, l \in Lockers : EnsureSession(i, l)
    \/ \E c \in DOMAIN credentials : CredentialExpires(c)
    \/ TimePasses
    \/ ServerRestarts
    \/ UNCHANGED vars

LEMMA Kinds ==
    ASSUME Sound, [Next]_vars PROVE StepKind
<1>1. ASSUME NEW w \in Workers, Starts(w) PROVE StepKind
  BY <1>1, AllBegin DEF StepKind
<1>2. ASSUME NEW w \in Workers, HmacSteps(w) PROVE StepKind
  <2>1. FindCredential(w) => Begins(w) \/ NonceSteps(w)
    BY FindBegins DEF NonceSteps
  <2>. QED
    BY <1>2, <2>1 DEF StepKind, Turn, HmacSteps, NonceSteps
<1>3. CASE \E w \in Workers : \/ AdministrationSteps(w) \/ CredentialSteps(w)
                              \/ ReportSteps(w) \/ CustomerSteps(w)
                              \/ MarkFails(w) \/ RequestDies(w)
  BY <1>3 DEF StepKind, Turn
<1>4. CASE CustomerEvents
  BY <1>4 DEF StepKind, CustomerEvents
<1>5. CASE AccessClock \/ TimePasses
  BY <1>5 DEF StepKind, AccessClock
<1>6. CASE UNCHANGED vars
  BY <1>6 DEF StepKind
<1>. QED
  BY <1>1, <1>2, <1>3, <1>4, <1>5, <1>6 DEF Next

LEMMA SoundStep ==
    ASSUME Sound, StepKind PROVE Sound'
BY StartsSound, Turns, MarksFail, CreatesStation, CheckoutEnds, SessionStarts, CredentialEnds,
   ClockTicks, Stops, Stutters DEF StepKind

LEMMA SoundInit == Init => Sound
<1> SUFFICES ASSUME Init PROVE Sound
  OBVIOUS
<1>1. PICK f \in Fleets :
          /\ stations = f.stations /\ devices = f.devices
          /\ lockers = f.lockers /\ ports = f.ports
          /\ credentials = f.credentials
          /\ payments = f.payments
  BY DEF Init
<1>2. /\ sessions = {} /\ checkouts = <<>> /\ overtaken = {}
      /\ reports = <<>> /\ signed = <<>> /\ now = 0
      /\ request = [w \in Workers |-> Idle]
      /\ disturbed = {} /\ abandoned = {}
  BY DEF Init
<1>3. Fielded
  BY <1>1, <1>2, InitialFleets DEF Fielded, Exists, HasLocker, HasPort
<1>4. /\ credentials \in Seq(CredentialRow) /\ payments \in Seq(PaymentRow)
      /\ \A c \in DOMAIN credentials :
            devices[credentials[c].device] # None /\ credentials[c].from < c
  BY <1>1, InitialFleets
<1>5. Keyed /\ Sold
  BY <1>2, <1>4 DEF Keyed, Sold, Exists
<1>6. Reported /\ Accessed
  BY <1>2 DEF Reported, Accessed
<1>7. RequestsFit
  BY <1>2, IdleFits DEF RequestsFit
<1>8. Overlap
  BY <1>2 DEF Overlap, Idle, Names
<1>. QED
  BY <1>3, <1>5, <1>6, <1>7, <1>8 DEF Sound, Rows

LEMMA SoundAlways == Spec => []Sound
<1>1. Sound /\ [Next]_vars => Sound'
  BY Kinds, SoundStep
<1>. QED
  BY <1>1, SoundInit, PTL DEF Spec

LEMMA TypesHold ==
    ASSUME Sound PROVE TypeOK
<1>1. /\ \A c \in DOMAIN credentials :
            credentials[c] \in CredentialRow /\ credentials[c].from < c
      /\ \A e \in DOMAIN reports : reports[e] \in ReportRow
      /\ \A c \in DOMAIN checkouts : checkouts[c] \in CheckoutRow
      /\ \A i \in DOMAIN payments : payments[i] \in PaymentRow
      /\ \A i \in DOMAIN signed : signed[i] \in Message
  BY RowsHold DEF Sound, Rows, Keyed
<1>2. \A i \in DOMAIN signed : signed[i] \in Messages
  BY <1>1 DEF Sound, Rows, Accessed, Message, Messages
<1>3. overtaken \subseteq Devices /\ abandoned \subseteq DOMAIN reports
  BY DEF Sound, Rows, Sold, Reported
<1>4. disturbed \subseteq Stations \union Devices \union Lockers
  BY DEF Sound, Overlap, Names
<1>. QED
  BY <1>1, <1>2, <1>3, <1>4 DEF Sound, Rows, Fielded, TypeOK

\* Every variable keeps its type, and what rows and requests refer to exists.
THEOREM TypeCorrect == Spec => []TypeOK
BY SoundAlways, TypesHold, PTL

-------------------------------------------------------------------------------
(* The last credential *)

KeepsACredential ==
    \A d \in Devices :
        /\ Exists(d) /\ devices[d].lifecycle = "active"
        /\ UsableCredentials(d) # {} /\ UsableCredentials(d)' = {}
        => \/ \E c \in UsableCredentials(d) : credentials'[c].expired
           \/ \E w \in Workers :
                 /\ request[w].op = "revoke"
                 /\ \/ request[w].force
                    \/ request[w].lifecycle # "active"
                    \/ /\ request[w].others # {}
                       /\ request[w].others \intersect UsableCredentials(d) = {}

LEMMA UsableIs ==
    ASSUME NEW d, NEW c
    PROVE  c \in UsableCredentials(d)
           <=> /\ c \in DOMAIN credentials /\ credentials[c].device = d
               /\ credentials[c].active /\ ~credentials[c].expired
               /\ credentials[c].type \in {"api_key", "hmac"}
BY DEF UsableCredentials, ActiveCredentials

LEMMA CredentialsRest ==
    ASSUME StepKind
    PROVE  \/ UNCHANGED credentials
           \/ \E w \in Workers : CredentialSteps(w)
           \/ \E c \in DOMAIN credentials : CredentialExpires(c)
<1>1. ASSUME NEW w \in Workers, Begins(w) PROVE UNCHANGED credentials
  BY <1>1 DEF Begins, tables, Delivered
<1>2. ASSUME NEW w \in Workers, AdministrationSteps(w) PROVE UNCHANGED credentials
  BY <1>2 DEF AdministrationSteps, SetStationStatus, CreateDevice, MoveDevice, SetLifecycle,
         CreateLocker, SetAvailability, CreatePort, SetChannel, SetPortStatus, rest
<1>3. ASSUME NEW w \in Workers, ReportSteps(w) PROVE UNCHANGED credentials
  BY <1>3 DEF ReportSteps, Ingest, Unhandled, HeartbeatRead, Heartbeat, Telemetry,
         LockerReport, PortReport, Mark, Fleet, tables
<1>4. ASSUME NEW w \in Workers, CustomerSteps(w) PROVE UNCHANGED credentials
  BY <1>4 DEF CustomerSteps, IssueCheckout, CreatePayment, Elsewhere
<1>5. ASSUME NEW w \in Workers, NonceSteps(w) \/ MarkFails(w) \/ RequestDies(w)
      PROVE  UNCHANGED credentials
  BY <1>5, NonceKeeps DEF MarkFails, RequestDies, tables
<1>6. ASSUME NEW w \in Workers, NEW s \in Stations, NEW next \in StationTargets,
             CreateStation(w, s, next)
      PROVE  UNCHANGED credentials
  BY <1>6 DEF CreateStation, rest
<1>7. ASSUME NEW c \in DOMAIN checkouts, CheckoutExpires(c) PROVE UNCHANGED credentials
  BY <1>7 DEF CheckoutExpires, Elsewhere
<1>8. ASSUME NEW i \in DOMAIN payments, NEW l \in Lockers, EnsureSession(i, l)
      PROVE  UNCHANGED credentials
  BY <1>8 DEF EnsureSession, Elsewhere
<1>9. TimePasses \/ ServerRestarts \/ UNCHANGED vars => UNCHANGED credentials
  BY DEF TimePasses, ServerRestarts, vars, tables
<1>. QED
  BY <1>1, <1>2, <1>3, <1>4, <1>5, <1>6, <1>7, <1>8, <1>9 DEF StepKind, Turn

LEMMA LosesCredentialKnowingly ==
    ASSUME Sound, StepKind PROVE KeepsACredential
<1> SUFFICES ASSUME NEW d \in Devices, UsableCredentials(d) # {}, UsableCredentials(d)' = {}
             PROVE  \/ \E c \in UsableCredentials(d) : credentials'[c].expired
                    \/ \E w \in Workers :
                         /\ request[w].op = "revoke"
                         /\ \/ request[w].force
                            \/ request[w].lifecycle # "active"
                            \/ /\ request[w].others # {}
                               /\ request[w].others \intersect UsableCredentials(d) = {}
  BY DEF KeepsACredential
<1>1. PICK x : x \in UsableCredentials(d)
  OBVIOUS
<1>2. /\ x \in DOMAIN credentials /\ credentials[x].device = d
      /\ credentials[x].active /\ ~credentials[x].expired
      /\ credentials[x].type \in {"api_key", "hmac"}
  BY <1>1, UsableIs
<1>3. ASSUME NEW c \in DOMAIN credentials', credentials'[c].device = d,
             credentials'[c].active, ~credentials'[c].expired,
             credentials'[c].type \in {"api_key", "hmac"}
      PROVE  FALSE
  BY <1>3 DEF UsableCredentials, ActiveCredentials
<1>4. /\ credentials \in Seq(CredentialRow) /\ DOMAIN credentials = 1..Len(credentials)
      /\ Len(credentials) \in Nat
      /\ \A c \in DOMAIN credentials : credentials[c] \in CredentialRow
  BY RowsHold DEF Sound, Rows, Keyed
<1>5. CASE UNCHANGED credentials
  BY <1>2, <1>3, <1>5
<1>6. ASSUME NEW c \in DOMAIN credentials, CredentialExpires(c)
      PROVE  credentials'[x].expired
  <2>1. credentials' = [credentials EXCEPT ![c].expired = TRUE]
    BY <1>6 DEF CredentialExpires
  <2>2. x # c => FALSE
    BY <1>2, <1>3, <1>4, <2>1
  <2>3. credentials'[c] = [credentials[c] EXCEPT !.expired = TRUE]
    BY <1>4, <2>1
  <2>. QED
    BY <1>4, <2>2, <2>3 DEF CredentialRow
<1>7. ASSUME NEW w \in Workers, CreateCredential(w) PROVE FALSE
  <2>1. PICK row \in {Credential(request[w].device, request[w].type, 0)} :
            credentials' = Append(credentials, row)
    BY <1>7 DEF CreateCredential
  <2>2. x \in DOMAIN credentials' /\ credentials'[x] = credentials[x]
    BY <1>2, <1>4, <2>1
  <2>. QED
    BY <1>2, <1>3, <2>2
<1>8. ASSUME NEW w \in Workers, Rotate(w) PROVE FALSE
  <2>1. PICK c \in DOMAIN credentials : c = request[w].credential
    BY <1>8 DEF Rotate, Sound, RequestsFit, Fits
  <2>2. PICK old : old = Without(c)
    OBVIOUS
  <2>3. PICK row : row = Credential(credentials[c].device, credentials[c].type, c)
    OBVIOUS
  <2>4. credentials' = Append(old, row)
    BY <1>8, <2>1, <2>2, <2>3 DEF Rotate, Without
  <2>5. /\ row.device = credentials[c].device /\ row.active /\ ~row.expired
        /\ row.type = credentials[c].type
    BY <2>3 DEF Credential
  <2>6. /\ old \in Seq(CredentialRow) /\ Len(old) = Len(credentials)
        /\ DOMAIN old = DOMAIN credentials
        /\ x # c => old[x] = credentials[x]
    BY <1>2, <2>2, PutOut
  <2>8. /\ Len(credentials) + 1 \in DOMAIN credentials'
        /\ credentials'[Len(credentials) + 1] = row
        /\ x \in DOMAIN credentials' /\ credentials'[x] = old[x]
    BY <1>2, <1>4, <2>4, <2>6
  <2>9. x # c
    BY <1>2, <1>3, <2>5, <2>8
  <2>. QED
    BY <1>2, <1>3, <2>6, <2>8, <2>9
<1>9. ASSUME NEW w \in Workers, Revoke(w)
      PROVE  \/ request[w].force
             \/ request[w].lifecycle # "active"
             \/ /\ request[w].others # {}
                /\ request[w].others \intersect UsableCredentials(d) = {}
  <2>1. PICK r : r = request[w]
    OBVIOUS
  <2>2. Fits(r) /\ r.op = "revoke"
    BY <1>9, <2>1 DEF Revoke, Sound, RequestsFit
  <2>3. /\ r.credential \in DOMAIN credentials /\ r.credential \notin r.others
        /\ r.force \/ r.lifecycle # "active" \/ r.others # {}
    BY <2>2 DEF Fits
  <2>4. credentials' = Without(r.credential)
    BY <1>9, <2>1 DEF Revoke, Without
  <2>5. ASSUME NEW y \in r.others, y \in UsableCredentials(d) PROVE FALSE
    <3>1. /\ y \in DOMAIN credentials /\ credentials[y].device = d
          /\ credentials[y].active /\ ~credentials[y].expired
          /\ credentials[y].type \in {"api_key", "hmac"}
      BY <2>5, UsableIs
    <3>2. y # r.credential
      BY <2>3
    <3>3. y \in DOMAIN credentials' /\ credentials'[y] = credentials[y]
      BY <2>3, <2>4, <3>1, <3>2, PutOut
    <3>. QED
      BY <1>3, <3>1, <3>3
  <2>. QED
    BY <2>1, <2>3, <2>5
<1>10. CASE \E w \in Workers : CredentialSteps(w)
  BY <1>7, <1>8, <1>9, <1>10 DEF CredentialSteps, Revoke
<1>. QED
  BY <1>1, <1>5, <1>6, <1>10, CredentialsRest

\* With any number of credentials, rotations and revocations in flight, a device
\* in service loses the last one it can use only to the clock, by force, or by a
\* revocation that met the device out of service or counted a credential that is
\* not usable by now.
THEOREM LastCredentialKept == Spec => LastCredentialIsLostToARace
<1>1. Sound /\ [Next]_vars
      => [ \A d \in Devices :
            /\ Exists(d) /\ devices[d].lifecycle = "active"
            /\ UsableCredentials(d) # {} /\ UsableCredentials(d)' = {}
            => \/ \E c \in UsableCredentials(d) : credentials'[c].expired
               \/ \E w \in Workers :
                     /\ request[w].op = "revoke"
                     /\ \/ request[w].force
                        \/ request[w].lifecycle # "active"
                        \/ /\ request[w].others # {}
                           /\ request[w].others \intersect UsableCredentials(d) = {}
         ]_vars
  BY Kinds, LosesCredentialKnowingly DEF KeepsACredential
<1>. QED
  BY <1>1, SoundAlways, PTL DEF Spec, LastCredentialIsLostToARace
-------------------------------------------------------------------------------
(* What becomes of devices *)

\* What worker w's step can do to the row of device d.
Registers(w, d) ==
    /\ request[w].op = "create_device" /\ request[w].device = d /\ ~Exists(d)
    /\ Exists(d)'
    /\ devices'[d].station = request[w].station /\ devices'[d].lifecycle = "pending"
Relocates(w, d) ==
    /\ request[w].op = "move_device" /\ request[w].device = d
    /\ Exists(d) /\ Exists(d)'
    /\ devices'[d].station = request[w].station
    /\ devices'[d].lifecycle = devices[d].lifecycle
    /\ devices'[d].online = devices[d].online
Advances(w, d) ==
    /\ SetLifecycle(w) /\ request[w].device = d /\ Exists(d) /\ Exists(d)'
    /\ devices'[d].station = devices[d].station
    /\ devices'[d].lifecycle = request[w].next
    /\ devices'[d].online = devices[d].online
Wakes(w, d) ==
    /\ request[w].op \in {"handle", "beat"} /\ reports[request[w].report].device = d
    /\ Exists(d) /\ Exists(d)'
    /\ devices'[d].station = devices[d].station
    /\ devices'[d].lifecycle = devices[d].lifecycle
    /\ \/ Said(w).kind = "telemetry"
       \/ request[w].op = "beat" /\ request[w].lifecycle # "decommissioned"

LEMMA RegistersOne ==
    ASSUME Sound, NEW w \in Workers, CreateDevice(w), NEW d \in Devices
    PROVE  devices'[d] = devices[d] \/ Registers(w, d)
<1>1. PICK r : r = request[w]
  OBVIOUS
<1> DEFINE row == [station |-> r.station, lifecycle |-> "pending", online |-> FALSE]
<1>2. /\ r.op = "create_device"
      /\ devices' = IF Exists(r.device) THEN devices ELSE [devices EXCEPT ![r.device] = row]
  BY <1>1 DEF CreateDevice
<1>3. row.station = r.station /\ row.lifecycle = "pending"
  OBVIOUS
<1>6. row \in DeviceRow
  BY <1>1, <1>2 DEF Sound, RequestsFit, Fits, DeviceRow, Lifecycle
<1>7. row # None
  BY <1>6, FleetInputs
<1> HIDE DEF row
<1>4. CASE Exists(r.device)
  BY <1>2, <1>4
<1>5. CASE ~Exists(r.device)
  <2>1. \/ devices'[d] = devices[d]
        \/ d = r.device /\ devices'[d] = row
    BY <1>2, <1>5 DEF Sound, Rows, Fielded
  <2>. QED
    BY <1>1, <1>2, <1>3, <1>5, <1>7, <2>1 DEF Registers, Exists
<1>. QED
  BY <1>4, <1>5

LEMMA RelocatesOne ==
    ASSUME Sound, NEW w \in Workers, MoveDevice(w), NEW d \in Devices
    PROVE  devices'[d] = devices[d] \/ Relocates(w, d)
<1>1. PICK r : r = request[w]
  OBVIOUS
<1>2. /\ Fits(r) /\ r.op = "move_device"
      /\ devices' \in {devices, [devices EXCEPT ![r.device].station = r.station]}
  BY <1>1 DEF MoveDevice, Sound, RequestsFit
<1>3. r.station \in Stations /\ r.device \in Devices /\ Exists(r.device)
  BY <1>2 DEF Fits
<1>4. CASE devices' = [devices EXCEPT ![r.device].station = r.station] /\ d = r.device
  <2>1. devices[d] \in DeviceRow
    BY <1>3, <1>4 DEF Sound, Rows, Fielded, Exists
  <2>2. devices'[d] = [devices[d] EXCEPT !.station = r.station]
    BY <1>4 DEF Sound, Rows, Fielded
  <2>3. /\ devices'[d].station = r.station
        /\ devices'[d].lifecycle = devices[d].lifecycle
        /\ devices'[d].online = devices[d].online
        /\ devices'[d] \in DeviceRow
    BY <1>3, <2>1, <2>2 DEF DeviceRow
  <2>4. Exists(d)'
    BY <2>3, FleetInputs DEF Exists
  <2>. QED
    BY <1>1, <1>2, <1>3, <1>4, <2>3, <2>4 DEF Relocates
<1>. QED
  BY <1>2, <1>4 DEF Sound, Rows, Fielded

LEMMA AdvancesOne ==
    ASSUME Sound, NEW w \in Workers, SetLifecycle(w), NEW d \in Devices
    PROVE  devices'[d] = devices[d] \/ Advances(w, d)
<1>1. PICK r : r = request[w]
  OBVIOUS
<1>2. /\ Fits(r) /\ r.op = "lifecycle"
      /\ devices' = [devices EXCEPT ![r.device].lifecycle = r.next]
  BY <1>1 DEF SetLifecycle, Sound, RequestsFit
<1>3. r.device \in Devices /\ Exists(r.device) /\ r.next \in Lifecycle
  BY <1>2 DEF Fits
<1>4. CASE d = r.device
  <2>1. devices[d] \in DeviceRow
    BY <1>3, <1>4 DEF Sound, Rows, Fielded, Exists
  <2>2. devices'[d] = [devices[d] EXCEPT !.lifecycle = r.next]
    BY <1>2, <1>4 DEF Sound, Rows, Fielded
  <2>3. /\ devices'[d].lifecycle = r.next
        /\ devices'[d].station = devices[d].station
        /\ devices'[d].online = devices[d].online
        /\ devices'[d] \in DeviceRow
    BY <1>3, <2>1, <2>2 DEF DeviceRow
  <2>4. Exists(d)'
    BY <2>3, FleetInputs DEF Exists
  <2>. QED
    BY <1>1, <1>2, <1>3, <1>4, <2>3, <2>4 DEF Advances
<1>. QED
  BY <1>2, <1>4 DEF Sound, Rows, Fielded

LEMMA WakesOne ==
    ASSUME Sound, NEW w \in Workers, Heartbeat(w) \/ Telemetry(w), NEW d \in Devices
    PROVE  devices'[d] = devices[d] \/ Wakes(w, d)
<1>1. PICK r : r = request[w]
  OBVIOUS
<1>2. PICK c : c = reports[r.report].device
  OBVIOUS
<1>3. /\ r.op \in {"handle", "beat"}
      /\ Fits(r) /\ c \in Devices /\ Exists(c)
  BY <1>1, <1>2, InHandling DEF Heartbeat, Telemetry, Handling
<1>4. \/ devices' = devices
      \/ /\ devices' = [devices EXCEPT ![c].online = TRUE]
         /\ \/ Said(w).kind = "telemetry"
            \/ r.op = "beat" /\ r.lifecycle # "decommissioned"
  BY <1>1, <1>2, <1>3 DEF Heartbeat, Telemetry, Handling, Said, Fits
<1>5. CASE devices' = [devices EXCEPT ![c].online = TRUE]
  <2>1. devices'[c] # None
    BY <1>3, <1>5, GoesOnline, FleetInputs
  <2>. QED
    BY <1>1, <1>2, <1>3, <1>4, <1>5, <2>1, GoesOnline DEF Wakes, Exists
<1>. QED
  BY <1>4, <1>5

\* A request changes a device in one of these ways.
LEMMA DeviceTurns ==
    ASSUME Sound, NEW w \in Workers, Turn(w), NEW d \in Devices
    PROVE  \/ devices'[d] = devices[d]
           \/ Registers(w, d) \/ Relocates(w, d) \/ Advances(w, d) \/ Wakes(w, d)
<1>1. CASE AdministrationSteps(w)
  BY <1>1, RegistersOne, RelocatesOne, AdvancesOne
     DEF AdministrationSteps, SetStationStatus, CreateLocker, SetAvailability, CreatePort,
         SetChannel, SetPortStatus
<1>2. CASE ReportSteps(w)
  BY <1>2, WakesOne
     DEF ReportSteps, Ingest, Unhandled, HeartbeatRead, LockerReport, PortReport, Mark,
         tables, fleet
<1>3. CASE CredentialSteps(w) \/ NonceSteps(w) \/ CustomerSteps(w)
  BY <1>3, NonceKeeps
     DEF CredentialSteps, CreateCredential, Rotate, Revoke, Untouched, fleet, CustomerSteps,
         IssueCheckout, CreatePayment, Elsewhere
<1>. QED
  BY <1>1, <1>2, <1>3 DEF Turn

LEMMA DevicesRest ==
    ASSUME StepKind PROVE UNCHANGED devices \/ \E w \in Workers : Turn(w)
<1>1. ASSUME NEW w \in Workers, Begins(w) PROVE UNCHANGED devices
  BY <1>1 DEF Begins, tables, fleet, Delivered
<1>2. ASSUME NEW w \in Workers, MarkFails(w) \/ RequestDies(w) PROVE UNCHANGED devices
  BY <1>2 DEF MarkFails, RequestDies, tables, fleet
<1>3. ASSUME NEW w \in Workers, NEW s \in Stations, NEW next \in StationTargets,
             CreateStation(w, s, next)
      PROVE  UNCHANGED devices
  BY <1>3 DEF CreateStation
<1>4. ASSUME NEW c \in DOMAIN checkouts, CheckoutExpires(c) PROVE UNCHANGED devices
  BY <1>4 DEF CheckoutExpires, Elsewhere
<1>5. ASSUME NEW i \in DOMAIN payments, NEW l \in Lockers, EnsureSession(i, l)
      PROVE  UNCHANGED devices
  BY <1>5 DEF EnsureSession, Elsewhere
<1>6. ASSUME NEW c \in DOMAIN credentials, CredentialExpires(c) PROVE UNCHANGED devices
  BY <1>6 DEF CredentialExpires, Untouched, fleet
<1>7. TimePasses \/ ServerRestarts \/ UNCHANGED vars => UNCHANGED devices
  BY DEF TimePasses, ServerRestarts, vars, tables, fleet
<1>. QED
  BY <1>1, <1>2, <1>3, <1>4, <1>5, <1>6, <1>7 DEF StepKind

\* With any number of devices and reports in flight, a decommissioned device is put
\* online by telemetry, or by a heartbeat that read the device before.
THEOREM RetiredDevicesWakeOnlyByReport == Spec => OnlyTelemetryWakesARetiredDevice
<1>1. Sound /\ [Next]_vars
      => [ \A d \in Devices :
            /\ Exists(d) /\ ~IsLive(d) /\ ~devices[d].online /\ devices'[d].online
            => \E w \in Workers :
                  /\ request[w].op \in {"handle", "beat"}
                  /\ reports[request[w].report].device = d
                  /\ \/ Said(w).kind = "telemetry"
                     \/ request[w].op = "beat" /\ request[w].lifecycle # "decommissioned"
         ]_vars
  <2> SUFFICES ASSUME Sound, [Next]_vars, NEW d \in Devices,
                      Exists(d), ~devices[d].online, devices'[d].online
               PROVE  \E w \in Workers :
                        /\ request[w].op \in {"handle", "beat"}
                        /\ reports[request[w].report].device = d
                        /\ \/ Said(w).kind = "telemetry"
                           \/ request[w].op = "beat" /\ request[w].lifecycle # "decommissioned"
    OBVIOUS
  <2>1. PICK w \in Workers : Turn(w)
    BY Kinds, DevicesRest
  <2>2. Wakes(w, d)
    BY <2>1, DeviceTurns DEF Registers, Relocates, Advances
  <2>. QED
    BY <2>2 DEF Wakes
<1>. QED
  BY <1>1, SoundAlways, PTL DEF Spec, OnlyTelemetryWakesARetiredDevice
-------------------------------------------------------------------------------
(* What becomes of reports *)

Handles(w) == request[w].op \in {"handle", "beat", "settle"}

\* A report in hand is in the hand of one request, and was not marked before.
InHandOfOne ==
    /\ \A w \in Workers : Handles(w) => reports[request[w].report].status = "received"
    /\ \A v, w \in Workers :
          v # w /\ Handles(v) /\ Handles(w) => request[v].report # request[w].report
    /\ ReceivedReportsAreInHand

Others(w) == \A v \in Workers \ {w} : request'[v] = request[v]

\* What worker w's step can do to its report.
TakesUp(w) ==
    /\ request[w].op = "ingest" /\ request'[w].op = "handle"
    /\ request'[w].report = Len(reports) + 1
    /\ \E row \in ReportRow : /\ reports' = Append(reports, row)
                              /\ row.content = request[w].content
                              /\ row.status = "received"
HoldsOn(w) ==
    /\ UNCHANGED reports
    /\ request[w].op \in {"handle", "beat"} /\ request'[w].op \in {"beat", "settle"}
    /\ request'[w].report = request[w].report
    /\ request'[w].op = "beat" => Said(w).kind = "heartbeat"
PutsDown(w) ==
    /\ request[w].op = "settle" /\ request'[w] = Idle
    /\ DOMAIN reports' = DOMAIN reports
    /\ \A e \in DOMAIN reports : e # request[w].report => reports'[e] = reports[e]
    /\ reports'[request[w].report].content = reports[request[w].report].content
    /\ reports'[request[w].report].status = request[w].status
LetsGo(w) ==
    /\ UNCHANGED reports /\ request[w].op # "settle"
    /\ request'[w].op \in {"idle", "ingest"}
    /\ Handles(w) => Said(w).kind \notin Handled

LEMMA BecomesOne ==
    ASSUME Sound, NEW w \in Workers, NEW r, Become(w, r)
    PROVE  request'[w] = r /\ Others(w)
BY DEF Sound, RequestsFit, Become, Others

LEMMA IngestTakesUp ==
    ASSUME Sound, NEW w \in Workers, Ingest(w)
    PROVE  Others(w) /\ (TakesUp(w) \/ LetsGo(w))
<1>1. PICK r : r = request[w]
  OBVIOUS
<1>2. r.op = "ingest" /\ Fits(r)
  BY <1>1 DEF Ingest, Sound, RequestsFit
<1>3. CASE Finish(w) /\ UNCHANGED reports
  BY <1>1, <1>2, <1>3, BecomesOne DEF Finish, LetsGo, Handles, Idle
<1>4. CASE ~(Finish(w) /\ UNCHANGED reports)
  <2> DEFINE row == [device |-> r.device, content |-> r.content, status |-> "received"]
             next == [op |-> "handle", about |-> r.about, report |-> Len(reports) + 1]
  <2>1. reports' = Append(reports, row) /\ Become(w, next)
    BY <1>1, <1>4 DEF Ingest
  <2>2. row \in ReportRow
    BY <1>2 DEF Fits, ReportRow
  <2>3. row.content = r.content /\ row.status = "received"
    OBVIOUS
  <2>4. request'[w] = next /\ Others(w)
    BY <2>1, BecomesOne
  <2>5. next.op = "handle" /\ next.report = Len(reports) + 1
    OBVIOUS
  <2> HIDE DEF row, next
  <2>. QED
    BY <1>1, <1>2, <2>1, <2>2, <2>3, <2>4, <2>5 DEF TakesUp
<1>. QED
  BY <1>3, <1>4

LEMMA MarkPutsDown ==
    ASSUME Sound, NEW w \in Workers, Mark(w) PROVE Others(w) /\ PutsDown(w)
<1>1. PICK r : r = request[w]
  OBVIOUS
<1>2. /\ r.op = "settle" /\ Become(w, Idle)
      /\ reports' = [reports EXCEPT ![r.report].status = r.status]
  BY <1>1 DEF Mark, Finish
<1>3. r.report \in DOMAIN reports /\ reports[r.report] \in ReportRow
  BY <1>1, <1>2, InHandling
<1>4. reports'[r.report] = [reports[r.report] EXCEPT !.status = r.status]
  BY <1>2, <1>3, RowsHold DEF Sound
<1>5. /\ reports'[r.report].content = reports[r.report].content
      /\ reports'[r.report].status = r.status
  BY <1>3, <1>4 DEF ReportRow
<1>6. /\ DOMAIN reports' = DOMAIN reports
      /\ \A e \in DOMAIN reports : e # r.report => reports'[e] = reports[e]
  BY <1>2, <1>3, RowsHold DEF Sound
<1>. QED
  BY <1>1, <1>2, <1>5, <1>6, BecomesOne DEF PutsDown

\* A handler goes on to its next statement.
LEMMA HandlerHoldsOn ==
    ASSUME Sound, NEW w \in Workers,
           \/ HeartbeatRead(w) \/ Heartbeat(w) \/ Telemetry(w)
           \/ LockerReport(w) \/ PortReport(w)
    PROVE  Others(w) /\ HoldsOn(w)
<1>1. request[w].op \in {"handle", "beat"} /\ UNCHANGED reports
  BY DEF HeartbeatRead, Heartbeat, Telemetry, LockerReport, PortReport, Handling, tables
<1>2. \E r : /\ Become(w, r) /\ r.op \in {"beat", "settle"}
             /\ r.report = request[w].report
             /\ r.op = "beat" => Said(w).kind = "heartbeat"
  <2>1. CASE HeartbeatRead(w)
    <3>1. PICK d : d = reports[request[w].report].device
      OBVIOUS
    <3> DEFINE r == [op |-> "beat", about |-> request[w].about, report |-> request[w].report,
                     device |-> d, lifecycle |-> devices[d].lifecycle]
    <3>2. Become(w, r) /\ r.op = "beat" /\ r.report = request[w].report
      BY <2>1, <3>1 DEF HeartbeatRead
    <3>. QED
      BY <2>1, <3>2 DEF HeartbeatRead, Handling, Said
  <2>2. CASE Heartbeat(w) \/ Telemetry(w) \/ LockerReport(w) \/ PortReport(w)
    <3>1. PICK status : Settle(w, status)
      BY <2>2 DEF Heartbeat, Telemetry, LockerReport, PortReport, Throws
    <3> DEFINE r == [op |-> "settle", about |-> request[w].about,
                     report |-> request[w].report, status |-> status]
    <3>2. Become(w, r) /\ r.op = "settle" /\ r.report = request[w].report
      BY <3>1 DEF Settle
    <3>. QED
      BY <3>2
  <2>. QED
    BY <2>1, <2>2
<1>. QED
  BY <1>1, <1>2, BecomesOne DEF HoldsOn

LEMMA ReportTurns ==
    ASSUME Sound, NEW w \in Workers, Turn(w)
    PROVE  /\ Others(w) /\ UNCHANGED abandoned
           /\ TakesUp(w) \/ HoldsOn(w) \/ PutsDown(w) \/ LetsGo(w)
<1>1. CASE ReportSteps(w)
  <2>1. CASE Unhandled(w)
    BY <2>1, BecomesOne DEF Unhandled, Finish, tables, LetsGo, Idle
  <2>2. UNCHANGED abandoned
    BY <1>1 DEF ReportSteps, Ingest, Unhandled, HeartbeatRead, Heartbeat, Telemetry,
           LockerReport, PortReport, Mark, tables
  <2>. QED
    BY <1>1, <2>1, <2>2, IngestTakesUp, MarkPutsDown, HandlerHoldsOn DEF ReportSteps
<1>2. CASE AdministrationSteps(w) \/ CredentialSteps(w) \/ CustomerSteps(w)
  <2>1. ~Handles(w)
    BY <1>2 DEF Handles, AdministrationSteps, SetStationStatus, CreateDevice, MoveDevice,
           SetLifecycle, CreateLocker, SetAvailability, CreatePort, SetChannel,
           SetPortStatus, CredentialSteps, CreateCredential, Rotate, Revoke, CustomerSteps,
           IssueCheckout, CreatePayment
  <2>2. Become(w, Idle)
    BY <1>2 DEF Finish, AdministrationSteps, SetStationStatus, CreateDevice, MoveDevice,
           SetLifecycle, CreateLocker, SetAvailability, CreatePort, SetChannel,
           SetPortStatus, CredentialSteps, CreateCredential, Rotate, Revoke, CustomerSteps,
           IssueCheckout, CreatePayment
  <2>3. UNCHANGED <<reports, abandoned>>
    BY <1>2 DEF rest, Untouched, Elsewhere, AdministrationSteps, SetStationStatus,
           CreateDevice, MoveDevice, SetLifecycle, CreateLocker, SetAvailability,
           CreatePort, SetChannel, SetPortStatus, CredentialSteps, CreateCredential, Rotate,
           Revoke, CustomerSteps, IssueCheckout, CreatePayment
  <2>. QED
    BY <2>1, <2>2, <2>3, BecomesOne DEF LetsGo, Handles, Idle
<1>3. CASE NonceSteps(w)
  <2>1. request[w].op \in {"find_credential", "reserve_nonce"}
    BY <1>3 DEF NonceSteps, NonceReserved, NonceRefused, FindCredential
  <2>2. PICK r : Become(w, r) /\ r.op \in {"idle", "ingest"}
    BY <1>3 DEF NonceSteps, NonceReserved, NonceRefused, Finish, Context, Idle
  <2>. QED
    BY <1>3, <2>1, <2>2, NonceKeeps, BecomesOne DEF LetsGo, Handles
<1>. QED
  BY <1>1, <1>2, <1>3 DEF Turn

\* A report in hand will be marked failed after all.
Fails(w) ==
    /\ request[w].op = "settle" /\ request'[w].op = "settle"
    /\ request'[w].report = request[w].report
    /\ request'[w].about = request[w].about
    /\ request'[w].status = "failed"
    /\ request[w].about \subseteq disturbed'

\* Reports stay, and one in hand is held on to or abandoned.
ReportsWait ==
    /\ UNCHANGED reports /\ abandoned \subseteq abandoned'
    /\ \A w \in Workers :
          \/ request'[w] = request[w]
          \/ Fails(w)
          \/ /\ ~Handles(w)'
             /\ Handles(w) => /\ request[w].report \in abandoned'
                               /\ request[w].about \subseteq disturbed'

LEMMA ReportsRest ==
    ASSUME Sound, StepKind PROVE (\E w \in Workers : Turn(w)) \/ ReportsWait
<1>1. ASSUME NEW w \in Workers, Begins(w) PROVE ReportsWait
  <2>1. PICK r : Takes(w, r) /\ JustRead(r) /\ UNCHANGED <<reports, abandoned>>
    BY <1>1 DEF Begins, tables, Delivered
  <2>2. /\ request[w].op \in {"idle", "find_credential"} /\ request'[w] = r
        /\ \A v \in Workers \ {w} : request'[v] = request[v]
    BY <2>1 DEF Takes, TakeUp, Sound, RequestsFit
  <2>3. ~Handles(w) /\ ~Handles(w)'
    BY <2>1, <2>2 DEF JustRead, Checked, Handles
  <2>. QED
    BY <2>1, <2>2, <2>3 DEF ReportsWait
<1>2. ASSUME NEW set \in SUBSET Workers, Dying(set), UNCHANGED reports PROVE ReportsWait
  <2>1. \A w \in Workers : request'[w] = IF w \in set THEN Idle ELSE request[w]
    BY <1>2 DEF Dying
  <2>2. abandoned' = abandoned \union
          {request[w].report : w \in {v \in set : request[v].op \in {"handle", "beat", "settle"}}}
    BY <1>2 DEF Dying
  <2>3. \A w \in set : ~Handles(w)' /\ (Handles(w) => request[w].report \in abandoned')
    BY <2>1, <2>2 DEF Handles, Idle
  <2>4. \A w \in set : request[w].about \subseteq disturbed'
    BY <1>2 DEF Dying
  <2>. QED
    BY <1>2, <2>1, <2>2, <2>3, <2>4 DEF ReportsWait
<1>3. ASSUME NEW w \in Workers, RequestDies(w) PROVE ReportsWait
  BY <1>2, <1>3 DEF RequestDies
<1>4. CASE ServerRestarts
  <2>1. {w \in Workers : request[w] # Idle} \in SUBSET Workers
    OBVIOUS
  <2>. QED
    BY <1>2, <1>4, <2>1 DEF ServerRestarts
<1>5. ASSUME UNCHANGED <<request, reports, abandoned>> PROVE ReportsWait
  BY <1>5 DEF ReportsWait
<1>6. ASSUME NEW w \in Workers, NEW s \in Stations, NEW next \in StationTargets,
             CreateStation(w, s, next)
      PROVE  ReportsWait
  BY <1>5, <1>6 DEF CreateStation, rest, AtOnce
<1>7. ASSUME NEW c \in DOMAIN checkouts, CheckoutExpires(c) PROVE ReportsWait
  BY <1>5, <1>7 DEF CheckoutExpires, Elsewhere
<1>8. ASSUME NEW i \in DOMAIN payments, NEW l \in Lockers, EnsureSession(i, l) PROVE ReportsWait
  BY <1>5, <1>8 DEF EnsureSession, Elsewhere
<1>9. ASSUME NEW c \in DOMAIN credentials, CredentialExpires(c) PROVE ReportsWait
  BY <1>5, <1>9 DEF CredentialExpires, Untouched
<1>10. CASE TimePasses \/ UNCHANGED vars
  BY <1>5, <1>10 DEF TimePasses, vars, tables
<1>11. ASSUME NEW w \in Workers, MarkFails(w) PROVE ReportsWait
  <2>1. Fails(w) /\ \A v \in Workers \ {w} : request'[v] = request[v]
    BY <1>11, MarksFail DEF Fails
  <2>. QED
    BY <1>11, <2>1 DEF MarkFails, tables, ReportsWait
<1>. QED
  BY <1>1, <1>3, <1>4, <1>6, <1>7, <1>8, <1>9, <1>10, <1>11 DEF StepKind

LEMMA StaysInHand ==
    ASSUME Sound, InHandOfOne, StepKind PROVE InHandOfOne'
<1>1. /\ DOMAIN reports = 1..Len(reports) /\ Len(reports) \in Nat
      /\ reports \in Seq(ReportRow)
  BY RowsHold DEF Sound, Rows, Reported
<1>2. \A v \in Workers : Handles(v) => request[v].report \in DOMAIN reports
  BY DEF Sound, RequestsFit, Fits, Handles
<1>3. \A e \in DOMAIN reports :
         /\ reports[e].content.kind \in Handled /\ reports[e].status = "received"
         => e \in abandoned \/ \E v \in Workers : Handles(v) /\ request[v].report = e
  BY DEF InHandOfOne, ReceivedReportsAreInHand, Handles
<1>4. /\ \A v \in Workers : Handles(v) => reports[request[v].report].status = "received"
      /\ \A u, v \in Workers :
            u # v /\ Handles(u) /\ Handles(v) => request[u].report # request[v].report
  BY DEF InHandOfOne
<1> SUFFICES
      /\ \A v \in Workers : Handles(v)' => reports'[request'[v].report].status = "received"
      /\ \A u, v \in Workers :
            u # v /\ Handles(u)' /\ Handles(v)' => request'[u].report # request'[v].report
      /\ \A e \in DOMAIN reports' :
            /\ reports'[e].content.kind \in Handled /\ reports'[e].status = "received"
            => e \in abandoned' \/ \E v \in Workers : Handles(v)' /\ request'[v].report = e
  BY DEF InHandOfOne, ReceivedReportsAreInHand, Handles
<1>5. CASE \E w \in Workers : Turn(w)
  <2>1. PICK w \in Workers : Turn(w)
    BY <1>5
  <2>2. /\ \A v \in Workers \ {w} : request'[v] = request[v] /\ (Handles(v)' <=> Handles(v))
        /\ UNCHANGED abandoned
    BY <2>1, ReportTurns DEF Others, Handles
  <2>3. CASE TakesUp(w)
    <3>1. PICK row \in ReportRow : reports' = Append(reports, row) /\ row.status = "received"
      BY <2>3 DEF TakesUp
    <3>2. /\ DOMAIN reports' = DOMAIN reports \union {Len(reports) + 1}
          /\ \A e \in DOMAIN reports : reports'[e] = reports[e]
          /\ reports'[Len(reports) + 1] = row
          /\ Len(reports) + 1 \notin DOMAIN reports
      BY <1>1, <3>1
    <3>3. ~Handles(w) /\ Handles(w)' /\ request'[w].report = Len(reports) + 1
      BY <2>3 DEF TakesUp, Handles
    <3>. QED
      BY <1>2, <1>3, <1>4, <2>2, <3>1, <3>2, <3>3
  <2>4. CASE HoldsOn(w)
    BY <1>2, <1>3, <1>4, <2>2, <2>4 DEF HoldsOn, Handles
  <2>5. CASE PutsDown(w)
    <3>1. Handles(w) /\ ~Handles(w)'
      BY <2>5 DEF PutsDown, Handles, Idle
    <3>2. request[w].status \in {"processed", "failed"}
      BY <2>5 DEF PutsDown, Sound, RequestsFit, Fits
    <3>3. /\ DOMAIN reports' = DOMAIN reports
          /\ \A e \in DOMAIN reports : e # request[w].report => reports'[e] = reports[e]
          /\ reports'[request[w].report].status # "received"
      BY <2>5, <3>2 DEF PutsDown
    <3>. QED
      BY <1>2, <1>3, <1>4, <2>2, <3>1, <3>3
  <2>6. CASE LetsGo(w)
    <3>1. ~Handles(w)' /\ UNCHANGED reports
      BY <2>6 DEF LetsGo, Handles, Idle
    <3>2. Handles(w) => reports[request[w].report].content.kind \notin Handled
      BY <2>6 DEF LetsGo, Said
    <3>. QED
      BY <1>2, <1>3, <1>4, <2>2, <3>1, <3>2
  <2>. QED
    BY <2>1, <2>3, <2>4, <2>5, <2>6, ReportTurns
<1>6. CASE ~\E w \in Workers : Turn(w)
  <2>1. /\ UNCHANGED reports /\ abandoned \subseteq abandoned'
        /\ \A w \in Workers :
              \/ /\ Handles(w)' <=> Handles(w)
                 /\ Handles(w) => request'[w].report = request[w].report
              \/ /\ ~Handles(w)'
                 /\ Handles(w) => request[w].report \in abandoned'
    BY <1>6, ReportsRest DEF Handles, ReportsWait, Fails
  <2>. QED
    BY <1>3, <1>4, <2>1
<1>. QED
  BY <1>5, <1>6

LEMMA InHandAlways == Spec => [](Sound /\ InHandOfOne)
<1>1. Init => Sound /\ InHandOfOne
  BY SoundInit DEF Init, InHandOfOne, ReceivedReportsAreInHand, Handles, Idle
<1>2. Sound /\ InHandOfOne /\ [Next]_vars => (Sound /\ InHandOfOne)'
  BY Kinds, SoundStep, StaysInHand
<1>. QED
  BY <1>1, <1>2, PTL DEF Spec

\* With any number of reports and requests in flight, a report with a handler is
\* marked or in hand, unless its request died.
THEOREM ReportsAreSeenTo == Spec => []ReceivedReportsAreInHand
BY InHandAlways, PTL DEF InHandOfOne

-------------------------------------------------------------------------------
(* Signed requests *)

Acceptance == [message : Message, checked : Nat, at : Nat, boot : Nat]

\* The nonce of an acceptance is remembered for Skew seconds.
Guarded(a, memory, time) ==
    \/ time >= a.at + Skew
    \/ \E n \in memory : /\ n.credential = a.message.credential
                         /\ n.nonce = a.message.nonce
                         /\ n.until = a.at + Skew

\* A stamp was in time when it was checked.
InTime(r) ==
    r.op \in {"find_credential", "reserve_nonce"} => r.checked <= r.message.stamp + Skew

\* What is known of the requests that were taken, and of those that wait to be.
Remembering ==
    /\ boot \in Nat /\ taken \in Seq(Acceptance)
    /\ \A w \in Workers : InTime(request[w])
    /\ \A i \in DOMAIN taken :
          /\ taken[i].boot <= boot
          /\ store = "redis" \/ taken[i].boot = boot => Guarded(taken[i], nonces, now)
    /\ TakenAgainOnlyAfterItsNonce

LEMMA StaysInTime ==
    ASSUME Sound, StepKind, \A w \in Workers : InTime(request[w])
    PROVE  \A w \in Workers : InTime(request'[w])
<1>1. ASSUME NEW w \in Workers, Begins(w) PROVE \A v \in Workers : InTime(request'[v])
  <2>1. PICK r : TakeUp(w, r) /\ Checked(r)
    BY <1>1 DEF Begins, Takes, JustRead
  <2>2. request'[w] = r /\ \A v \in Workers \ {w} : request'[v] = request[v]
    BY <2>1 DEF TakeUp, Sound, RequestsFit
  <2>3. InTime(r)
    BY <2>1 DEF Checked, InTime
  <2>. QED
    BY <2>2, <2>3
<1>2. ASSUME NEW w \in Workers, Turn(w) PROVE \A v \in Workers : InTime(request'[v])
  <2>1. PICK r : Become(w, r) /\ r.op \in {"idle", "ingest", "handle", "beat", "settle"}
    BY <1>2, Turns DEF Wrote
  <2>. QED
    BY <2>1, BecomesOne DEF Others, InTime
<1>3. ASSUME NEW set \in SUBSET Workers, Dying(set)
      PROVE  \A v \in Workers : InTime(request'[v])
  BY <1>3 DEF Dying, InTime, Idle
<1>4. CASE ServerRestarts
  <2>1. {w \in Workers : request[w] # Idle} \in SUBSET Workers
    OBVIOUS
  <2>. QED
    BY <1>3, <1>4, <2>1 DEF ServerRestarts
<1>5. ASSUME NEW w \in Workers, RequestDies(w) PROVE \A v \in Workers : InTime(request'[v])
  BY <1>3, <1>5 DEF RequestDies
<1>6. ASSUME NEW w \in Workers, MarkFails(w) PROVE \A v \in Workers : InTime(request'[v])
  <2>1. request'[w].op = "settle" /\ \A v \in Workers \ {w} : request'[v] = request[v]
    BY <1>6, MarksFail
  <2>. QED
    BY <2>1 DEF InTime
<1>7. UNCHANGED request => \A v \in Workers : InTime(request'[v])
  OBVIOUS
<1>8. ASSUME NEW w \in Workers, NEW s \in Stations, NEW next \in StationTargets,
             CreateStation(w, s, next)
      PROVE  UNCHANGED request
  BY <1>8 DEF CreateStation, AtOnce
<1>9. ASSUME NEW c \in DOMAIN checkouts, CheckoutExpires(c) PROVE UNCHANGED request
  BY <1>9 DEF CheckoutExpires
<1>10. ASSUME NEW i \in DOMAIN payments, NEW l \in Lockers, EnsureSession(i, l)
       PROVE  UNCHANGED request
  BY <1>10 DEF EnsureSession
<1>11. ASSUME NEW c \in DOMAIN credentials, CredentialExpires(c) PROVE UNCHANGED request
  BY <1>11 DEF CredentialExpires
<1>12. TimePasses \/ UNCHANGED vars => UNCHANGED request
  BY DEF TimePasses, vars
<1>. QED
  BY <1>1, <1>2, <1>4, <1>5, <1>6, <1>7, <1>8, <1>9, <1>10, <1>11, <1>12 DEF StepKind

LEMMA AccessRest ==
    ASSUME StepKind
    PROVE  \/ UNCHANGED <<nonces, store, now, boot, taken>>
           \/ \E w \in Workers : NonceReserved(w) \/ NonceRefused(w)
           \/ TimePasses \/ ServerRestarts
<1>1. ASSUME NEW w \in Workers, Begins(w)
      PROVE  UNCHANGED <<nonces, store, now, boot, taken>>
  BY <1>1 DEF Begins, Delivered, tables, access
<1>2. ASSUME NEW w \in Workers, Turn(w)
      PROVE  \/ UNCHANGED <<nonces, store, now, boot, taken>>
             \/ NonceReserved(w) \/ NonceRefused(w)
  <2>1. AdministrationSteps(w) => UNCHANGED access
    BY DEF AdministrationSteps, SetStationStatus, CreateDevice, MoveDevice, SetLifecycle,
           CreateLocker, SetAvailability, CreatePort, SetChannel, SetPortStatus, rest
  <2>2. CredentialSteps(w) => UNCHANGED access
    BY DEF CredentialSteps, CreateCredential, Rotate, Revoke, Untouched
  <2>3. ReportSteps(w) => UNCHANGED access
    BY DEF ReportSteps, Ingest, Unhandled, HeartbeatRead, Heartbeat, Telemetry,
           LockerReport, PortReport, Mark, Fleet, tables
  <2>4. CustomerSteps(w) => UNCHANGED access
    BY DEF CustomerSteps, IssueCheckout, CreatePayment, Elsewhere
  <2>5. NonceSteps(w) => UNCHANGED access \/ NonceReserved(w) \/ NonceRefused(w)
    BY DEF NonceSteps, FindCredential, tables
  <2>. QED
    BY <1>2, <2>1, <2>2, <2>3, <2>4, <2>5 DEF Turn, access
<1>3. ASSUME NEW w \in Workers, MarkFails(w) \/ RequestDies(w)
      PROVE  UNCHANGED <<nonces, store, now, boot, taken>>
  BY <1>3 DEF MarkFails, RequestDies, tables, access
<1>4. ASSUME NEW w \in Workers, NEW s \in Stations, NEW next \in StationTargets,
             CreateStation(w, s, next)
      PROVE  UNCHANGED <<nonces, store, now, boot, taken>>
  BY <1>4 DEF CreateStation, rest, access
<1>5. ASSUME NEW c \in DOMAIN checkouts, CheckoutExpires(c)
      PROVE  UNCHANGED <<nonces, store, now, boot, taken>>
  BY <1>5 DEF CheckoutExpires, Elsewhere, access
<1>6. ASSUME NEW i \in DOMAIN payments, NEW l \in Lockers, EnsureSession(i, l)
      PROVE  UNCHANGED <<nonces, store, now, boot, taken>>
  BY <1>6 DEF EnsureSession, Elsewhere, access
<1>7. ASSUME NEW c \in DOMAIN credentials, CredentialExpires(c)
      PROVE  UNCHANGED <<nonces, store, now, boot, taken>>
  BY <1>7 DEF CredentialExpires, Untouched, access
<1>8. UNCHANGED vars => UNCHANGED <<nonces, store, now, boot, taken>>
  BY DEF vars, tables, access
<1>. QED
  BY <1>1, <1>2, <1>3, <1>4, <1>5, <1>6, <1>7, <1>8 DEF StepKind

\* What a nonce that is reserved leaves remembered.
LEMMA GuardStays ==
    ASSUME Sound, NEW c, NEW nonce, ReserveNonce(c, nonce),
           NEW a \in Acceptance, Guarded(a, nonces, now)
    PROVE  Guarded(a, nonces', now)
<1>1. now \in Nat /\ Skew \in Nat /\ a.at \in Nat
  BY FleetConstants DEF Sound, Rows, Accessed, Acceptance
<1>2. \A n \in nonces : n.until > now => n \in nonces'
  BY DEF ReserveNonce, Remembered
<1>. QED
  BY <1>1, <1>2 DEF Guarded

\* A message that is taken while it is remembered was not taken before.
LEMMA TakesOnce ==
    ASSUME Sound, Remembering, NEW w \in Workers, NonceReserved(w),
           \A v \in Workers : InTime(request'[v])
    PROVE  Remembering'
<1>1. PICK r : r = request[w]
  OBVIOUS
<1>2. PICK m : m = r.message
  OBVIOUS
<1> DEFINE last == [message |-> m, checked |-> r.checked, at |-> now, boot |-> boot]
<1>3. /\ r.op = "reserve_nonce" /\ ReserveNonce(m.credential, m.nonce)
      /\ taken' = Append(taken, last)
      /\ UNCHANGED <<store, now, boot>>
  BY <1>1, <1>2 DEF NonceReserved
<1>4. m \in Message /\ r.checked \in Nat
  BY <1>1, <1>2, <1>3 DEF Sound, RequestsFit, Fits
<1>5. r.checked <= m.stamp + Skew
  BY <1>1, <1>2, <1>3 DEF Remembering, InTime
<1>6. /\ now \in Nat /\ Skew \in Nat /\ boot \in Nat /\ m.stamp \in Nat
      /\ taken \in Seq(Acceptance) /\ DOMAIN taken = 1..Len(taken) /\ Len(taken) \in Nat
      /\ \A i \in DOMAIN taken : taken[i] \in Acceptance
  BY <1>4, FleetConstants DEF Sound, Rows, Accessed, Remembering, Message
<1>7. \A a \in Acceptance : a.at \in Nat /\ a.boot \in Nat
  BY DEF Acceptance
<1>8. /\ last \in Acceptance /\ last.message = m /\ last.checked = r.checked
      /\ last.at = now /\ last.boot = boot
  BY <1>4, <1>6 DEF Acceptance
<1> HIDE DEF last
<1>9. /\ taken' \in Seq(Acceptance)
      /\ DOMAIN taken' = DOMAIN taken \union {Len(taken) + 1}
      /\ taken'[Len(taken) + 1] = last
      /\ \A i \in DOMAIN taken : taken'[i] = taken[i] /\ i < Len(taken) + 1
  BY <1>3, <1>6, <1>8
<1>10. /\ nonces' = Remembered \union
                     {[credential |-> m.credential, nonce |-> m.nonce, until |-> now + Skew]}
       /\ ~ \E n \in nonces : n.until > now /\ n.credential = m.credential /\ n.nonce = m.nonce
  BY <1>3 DEF ReserveNonce, Reserved, Remembered
<1>11. Guarded(last, nonces', now)
  <2> DEFINE n == [credential |-> m.credential, nonce |-> m.nonce, until |-> now + Skew]
  <2>1. /\ n \in nonces' /\ n.credential = m.credential /\ n.nonce = m.nonce
        /\ n.until = now + Skew
    BY <1>10
  <2> HIDE DEF n
  <2>. QED
    BY <1>8, <2>1 DEF Guarded
<1>12. \A i \in DOMAIN taken :
          /\ taken[i].boot <= boot
          /\ store = "redis" \/ taken[i].boot = boot => Guarded(taken[i], nonces, now)
  BY DEF Remembering
<1>13. ASSUME NEW i \in DOMAIN taken'
       PROVE  /\ taken'[i].boot <= boot
              /\ store = "redis" \/ taken'[i].boot = boot => Guarded(taken'[i], nonces', now)
  <2>1. CASE i \in DOMAIN taken
    <3>1. PICK a \in Acceptance : a = taken[i] /\ a = taken'[i]
      BY <1>6, <1>9, <2>1
    <3>2. store = "redis" \/ a.boot = boot => Guarded(a, nonces, now)
      BY <1>12, <2>1, <3>1
    <3>3. store = "redis" \/ a.boot = boot => Guarded(a, nonces', now)
      BY <1>3, <3>2, GuardStays
    <3>. QED
      BY <1>12, <2>1, <3>1, <3>3 DEF Guarded
  <2>2. CASE i = Len(taken) + 1
    BY <1>6, <1>8, <1>9, <1>11, <2>2 DEF Guarded
  <2>. QED
    BY <1>9, <2>1, <2>2
<1>14. ASSUME NEW i \in DOMAIN taken, taken[i].message = m,
              store = "redis" \/ taken[i].boot = boot
       PROVE  now >= taken[i].at + Skew /\ taken[i].at + r.checked <= now + m.stamp
  <2>1. PICK a \in Acceptance : a = taken[i]
    BY <1>6
  <2>2. Guarded(a, nonces, now)
    BY <1>12, <1>14, <2>1
  <2>3. now >= a.at + Skew
    <3>1. SUFFICES ASSUME ~(now >= a.at + Skew) PROVE FALSE
      OBVIOUS
    <3>2. PICK n \in nonces : /\ n.credential = m.credential /\ n.nonce = m.nonce
                              /\ n.until = a.at + Skew
      BY <1>14, <2>1, <2>2, <3>1 DEF Guarded
    <3>3. n.until > now
      BY <1>6, <1>7, <2>1, <3>1, <3>2
    <3>. QED
      BY <1>10, <3>2, <3>3
  <2>. QED
    BY <1>4, <1>5, <1>6, <1>7, <2>1, <2>3
<1>15. ASSUME NEW i \in DOMAIN taken', NEW j \in DOMAIN taken', i < j,
              taken'[i].message = taken'[j].message,
              store = "redis" \/ taken'[i].boot = taken'[j].boot
       PROVE  /\ taken'[j].at >= taken'[i].at + Skew
              /\ taken'[i].at + taken'[j].checked <= taken'[j].at + taken'[i].message.stamp
  <2>1. i \in DOMAIN taken
    BY <1>6, <1>9, <1>15
  <2>2. CASE j \in DOMAIN taken
    BY <1>9, <1>15, <2>1, <2>2 DEF Remembering, TakenAgainOnlyAfterItsNonce
  <2>3. CASE j = Len(taken) + 1
    BY <1>8, <1>9, <1>14, <1>15, <2>1, <2>3
  <2>. QED
    BY <1>9, <2>2, <2>3
<1>16. (TakenAgainOnlyAfterItsNonce)'
  BY <1>3, <1>15 DEF TakenAgainOnlyAfterItsNonce
<1>. QED
  BY <1>3, <1>6, <1>9, <1>13, <1>16 DEF Remembering, Guarded

\* A nonce that is refused may be kept, and drops none that counts.
LEMMA RefusesSafely ==
    ASSUME Sound, Remembering, NEW w \in Workers, NonceRefused(w),
           \A v \in Workers : InTime(request'[v])
    PROVE  Remembering'
<1>1. PICK m : m = request[w].message
  OBVIOUS
<1>2. /\ UNCHANGED <<store, now, boot, taken>>
      /\ UNCHANGED nonces \/ ReserveNonce(m.credential, m.nonce)
  BY <1>1 DEF NonceRefused
<1>3. \A i \in DOMAIN taken : taken[i] \in Acceptance
  BY DEF Remembering
<1>4. ASSUME NEW i \in DOMAIN taken, Guarded(taken[i], nonces, now)
      PROVE  Guarded(taken[i], nonces', now)
  BY <1>2, <1>3, <1>4, GuardStays
<1>. QED
  BY <1>2, <1>4 DEF Remembering, Guarded, TakenAgainOnlyAfterItsNonce

LEMMA StaysRemembering ==
    ASSUME Sound, Remembering, StepKind PROVE Remembering'
<1>1. /\ now \in Nat /\ Skew \in Nat /\ boot \in Nat
      /\ \A i \in DOMAIN taken : taken[i].at \in Nat /\ taken[i].boot \in Nat
  <2>1. \A a \in Acceptance : a.at \in Nat /\ a.boot \in Nat
    BY DEF Acceptance
  <2>2. taken \in Seq(Acceptance)
    BY DEF Remembering
  <2>3. \A i \in DOMAIN taken : taken[i] \in Acceptance
    BY <2>2
  <2>. QED
    BY <2>1, <2>3, FleetConstants DEF Sound, Rows, Accessed, Remembering
<1>2. \A w \in Workers : InTime(request'[w])
  BY StaysInTime DEF Remembering
<1>3. CASE UNCHANGED <<nonces, store, now, boot, taken>>
  BY <1>2, <1>3 DEF Remembering, Guarded, TakenAgainOnlyAfterItsNonce
<1>4. CASE TimePasses
  BY <1>1, <1>2, <1>4 DEF TimePasses, Remembering, Guarded, TakenAgainOnlyAfterItsNonce
<1>5. CASE ServerRestarts
  <2>1. /\ boot' = boot + 1 /\ UNCHANGED <<store, now, taken>>
        /\ nonces' = IF store = "memory" THEN {} ELSE nonces
    BY <1>5 DEF ServerRestarts
  <2>. QED
    BY <1>1, <1>2, <2>1 DEF Remembering, Guarded, TakenAgainOnlyAfterItsNonce
<1>. QED
  BY <1>2, <1>3, <1>4, <1>5, AccessRest, TakesOnce, RefusesSafely

\* For any skew, clock and number of messages and deliveries, within one run of the
\* server or with Redis, a signed request is taken twice only once its nonce has
\* run out, and if the repeat has waited, after its stamp was checked, for at least
\* as long as the device's clock was behind when it was first taken.
THEOREM TakenOncePerNonce == Spec => []TakenAgainOnlyAfterItsNonce
<1>1. Init => Remembering
  BY DEF Init, Remembering, TakenAgainOnlyAfterItsNonce, InTime, Idle
<1>2. Sound /\ Remembering /\ [Next]_vars => Remembering'
  BY Kinds, StaysRemembering
<1>3. Remembering => TakenAgainOnlyAfterItsNonce
  BY DEF Remembering
<1>. QED
  BY <1>1, <1>2, <1>3, SoundAlways, PTL DEF Spec

-------------------------------------------------------------------------------
(* What becomes of doors *)

\* A handler has shown what its report says of the door of locker l.
Shown(w, l) ==
    /\ request[w].op = "settle" /\ request[w].status = "processed"
    /\ Said(w).kind = "locker" /\ Said(w).door # None /\ Said(w).locker = l

\* What a step can do to the door of locker l.
ShowsDoor(w, l) ==
    /\ request[w].op = "handle"
    /\ Said(w).kind = "locker" /\ Said(w).door # None /\ Said(w).locker = l
    /\ UNCHANGED reports
    /\ request'[w].op = "settle" /\ request'[w].status = "processed"
    /\ request'[w].report = request[w].report
    /\ HasLocker(l) /\ HasLocker(l)' /\ lockers'[l].door = Said(w).door
DoorStays(l) == HasLocker(l) => HasLocker(l)' /\ lockers'[l].door = lockers[l].door

LEMMA LockersStayDoors ==
    ASSUME UNCHANGED lockers PROVE \A l \in Lockers : DoorStays(l)
BY DEF DoorStays, HasLocker

LEMMA AdministrationKeepsDoors ==
    ASSUME Sound, NEW w \in Workers, AdministrationSteps(w), NEW l \in Lockers
    PROVE  DoorStays(l)
<1>1. PICK r : r = request[w]
  OBVIOUS
<1>2. CASE CreateLocker(w)
  BY <1>1, <1>2 DEF CreateLocker, DoorStays, HasLocker, Sound, Rows, Fielded
<1>3. CASE SetAvailability(w)
  <2>1. /\ lockers' = [lockers EXCEPT ![r.locker].availability = r.next]
        /\ r.locker \in Lockers /\ HasLocker(r.locker)
        /\ r.next \in {"available", "maintenance", "disabled"}
    BY <1>1, <1>3 DEF SetAvailability, Sound, RequestsFit, Fits
  <2>2. lockers[r.locker] \in LockerRow
    BY <2>1 DEF Sound, Rows, Fielded, HasLocker
  <2>3. lockers'[r.locker] = [lockers[r.locker] EXCEPT !.availability = r.next]
    BY <2>1 DEF Sound, Rows, Fielded
  <2>4. lockers'[r.locker].door = lockers[r.locker].door /\ lockers'[r.locker] \in LockerRow
    BY <2>1, <2>2, <2>3 DEF LockerRow
  <2>5. lockers'[r.locker] # None
    BY <2>4, FleetInputs
  <2>. QED
    BY <2>1, <2>4, <2>5 DEF DoorStays, HasLocker, Sound, Rows, Fielded
<1>. QED
  BY <1>2, <1>3, LockersStayDoors
     DEF AdministrationSteps, SetStationStatus, CreateDevice, MoveDevice, SetLifecycle,
         CreatePort, SetChannel, SetPortStatus

LEMMA LockerReportDoors ==
    ASSUME Sound, NEW w \in Workers, LockerReport(w), NEW l \in Lockers
    PROVE  ShowsDoor(w, l) \/ (DoorStays(l) /\ ~Shown(w, l)')
<1>1. PICK r : r = request[w]
  OBVIOUS
<1>2. PICK c : c = Said(w)
  OBVIOUS
<1>3. /\ r.op = "handle" /\ c.kind = "locker" /\ UNCHANGED reports
      /\ c = reports[r.report].content
  BY <1>1, <1>2 DEF LockerReport, Handling, Said
<1>4. r.report \in DOMAIN reports /\ c \in Contents /\ c.locker \in Lockers
  BY <1>1, <1>3, InHandling, FleetInputs
<1>5. CASE /\ Found(w, lockers)
           /\ MaySay(c.door, DoorStatus) /\ MaySay(c.lock, LockStatus)
           /\ lockers' = [lockers EXCEPT ![c.locker] = LockerData(@, c)]
           /\ Settle(w, "processed")
  <2>1. HasLocker(c.locker)
    BY <1>2, <1>5 DEF Found, HasLocker
  <2>2. lockers[c.locker] \in LockerRow
    BY <1>4, <2>1 DEF Sound, Rows, Fielded, HasLocker
  <2> DEFINE next == [op |-> "settle", about |-> r.about, report |-> r.report,
                      status |-> "processed"]
  <2>3. request'[w] = next
    BY <1>1, <1>5, BecomesOne DEF Settle
  <2>4. next.op = "settle" /\ next.report = r.report /\ next.status = "processed"
    OBVIOUS
  <2> HIDE DEF next
  <2>5. CASE l = c.locker
    <3>1. lockers'[l] = LockerData(lockers[l], c)
      BY <1>5, <2>5 DEF Sound, Rows, Fielded
    <3>2. lockers'[l].door = Stated(c.door, lockers[l].door) /\ lockers'[l] \in LockerRow
      BY <1>5, <2>2, <2>5, <3>1, SaysLocker
    <3>3. HasLocker(l)'
      BY <3>2, FleetInputs DEF HasLocker
    <3>4. CASE c.door = None
      BY <1>3, <2>3, <2>4, <3>2, <3>3, <3>4 DEF DoorStays, Shown, Said, Stated
    <3>5. CASE c.door # None
      BY <1>1, <1>2, <1>3, <2>1, <2>3, <2>4, <2>5, <3>2, <3>3, <3>5 DEF ShowsDoor, Stated
    <3>. QED
      BY <3>4, <3>5
  <2>6. CASE l # c.locker
    <3>1. lockers'[l] = lockers[l]
      BY <1>4, <1>5, <2>6 DEF Sound, Rows, Fielded
    <3>. QED
      BY <1>3, <2>3, <2>4, <2>6, <3>1 DEF DoorStays, HasLocker, Shown, Said
  <2>. QED
    BY <2>5, <2>6
<1>6. CASE Settle(w, "failed") /\ UNCHANGED lockers
  <2> DEFINE next == [op |-> "settle", about |-> r.about, report |-> r.report,
                      status |-> "failed"]
  <2>1. request'[w] = next /\ next.status = "failed"
    BY <1>1, <1>6, BecomesOne DEF Settle
  <2> HIDE DEF next
  <2>. QED
    BY <1>6, <2>1, LockersStayDoors DEF Shown
<1>. QED
  BY <1>2, <1>5, <1>6 DEF LockerReport, Throws

\* A heartbeat is handled in two statements.
BeatsAreHeartbeats == \A w \in Workers : request[w].op = "beat" => Said(w).kind = "heartbeat"

LEMMA DoorTurns ==
    ASSUME Sound, BeatsAreHeartbeats, NEW w \in Workers, Turn(w), NEW l \in Lockers
    PROVE  ShowsDoor(w, l) \/ (DoorStays(l) /\ ~Shown(w, l)')
<1>1. ASSUME \/ HeartbeatRead(w) \/ Heartbeat(w) \/ Telemetry(w) \/ PortReport(w)
      PROVE  DoorStays(l) /\ ~Shown(w, l)'
  <2>1. UNCHANGED <<lockers, reports>>
    BY <1>1 DEF HeartbeatRead, Heartbeat, Telemetry, PortReport, tables, fleet
  <2>2. Said(w).kind # "locker"
    BY <1>1 DEF HeartbeatRead, Heartbeat, Telemetry, PortReport, Handling, Said,
           BeatsAreHeartbeats
  <2>3. request'[w].report = request[w].report
    BY <1>1, HandlerHoldsOn DEF HoldsOn
  <2>. QED
    BY <2>1, <2>2, <2>3, LockersStayDoors DEF Shown, Said
<1>2. ASSUME TakesUp(w) \/ PutsDown(w) \/ LetsGo(w) PROVE ~Shown(w, l)'
  BY <1>2 DEF TakesUp, PutsDown, LetsGo, Shown, Idle
<1>3. CASE ReportSteps(w)
  <2>1. CASE Ingest(w) \/ Unhandled(w) \/ Mark(w)
    <3>1. UNCHANGED lockers
      BY <2>1 DEF Ingest, Unhandled, Mark, tables, fleet
    <3>2. ~HoldsOn(w)
      BY <2>1, IngestTakesUp, MarkPutsDown, BecomesOne
         DEF HoldsOn, Unhandled, Finish, TakesUp, PutsDown, LetsGo, Idle
    <3>. QED
      BY <1>2, <1>3, <3>1, <3>2, LockersStayDoors, ReportTurns DEF Turn
  <2>. QED
    BY <1>1, <1>3, <2>1, LockerReportDoors DEF ReportSteps
<1>4. CASE \/ AdministrationSteps(w) \/ CredentialSteps(w) \/ NonceSteps(w)
           \/ CustomerSteps(w)
  <2>1. DoorStays(l)
    BY <1>4, AdministrationKeepsDoors, LockersStayDoors, NonceKeeps
       DEF CredentialSteps, CreateCredential, Rotate, Revoke, Untouched, fleet,
           CustomerSteps, IssueCheckout, CreatePayment
  <2>2. request[w].op \notin {"handle", "beat"}
    BY <1>4 DEF AdministrationSteps, SetStationStatus, CreateDevice, MoveDevice,
           SetLifecycle, CreateLocker, SetAvailability, CreatePort, SetChannel,
           SetPortStatus, CredentialSteps, CreateCredential, Rotate, Revoke, NonceSteps,
           NonceReserved, NonceRefused, FindCredential, CustomerSteps, IssueCheckout,
           CreatePayment
  <2>. QED
    BY <1>2, <1>4, <2>1, <2>2, ReportTurns DEF Turn, HoldsOn
<1>. QED
  BY <1>3, <1>4 DEF Turn

LEMMA DoorsRest ==
    ASSUME Sound, StepKind
    PROVE  (\E w \in Workers : Turn(w)) \/ \A l \in Lockers : DoorStays(l)
<1>1. ASSUME NEW w \in Workers, Begins(w) PROVE UNCHANGED lockers
  BY <1>1 DEF Begins, tables, fleet, Delivered
<1>2. ASSUME NEW w \in Workers, MarkFails(w) \/ RequestDies(w) PROVE UNCHANGED lockers
  BY <1>2 DEF MarkFails, RequestDies, tables, fleet
<1>3. ASSUME NEW w \in Workers, NEW s \in Stations, NEW next \in StationTargets,
             CreateStation(w, s, next)
      PROVE  UNCHANGED lockers
  BY <1>3 DEF CreateStation
<1>4. ASSUME NEW c \in DOMAIN checkouts, CheckoutExpires(c) PROVE UNCHANGED lockers
  BY <1>4 DEF CheckoutExpires
<1>5. ASSUME NEW i \in DOMAIN payments, NEW k \in Lockers, EnsureSession(i, k)
      PROVE  \A l \in Lockers : DoorStays(l)
  BY <1>5, SessionStarts DEF DoorStays
<1>6. ASSUME NEW c \in DOMAIN credentials, CredentialExpires(c) PROVE UNCHANGED lockers
  BY <1>6 DEF CredentialExpires, Untouched, fleet
<1>7. TimePasses \/ ServerRestarts \/ UNCHANGED vars => UNCHANGED lockers
  BY DEF TimePasses, ServerRestarts, vars, tables, fleet
<1>. QED
  BY <1>1, <1>2, <1>3, <1>4, <1>5, <1>6, <1>7, LockersStayDoors DEF StepKind

\* What is disturbed stays so.
LEMMA DisturbedGrows ==
    ASSUME Sound, StepKind PROVE disturbed \subseteq disturbed'
<1>1. ASSUME NEW w \in Workers, Begins(w) PROVE disturbed \subseteq disturbed'
  BY <1>1 DEF Begins, Takes, TakeUp
<1>2. ASSUME NEW w \in Workers, Turn(w) PROVE UNCHANGED disturbed
  BY <1>2, Turns DEF Wrote, Become
<1>3. ASSUME NEW set \in SUBSET Workers, Dying(set) PROVE disturbed \subseteq disturbed'
  BY <1>3 DEF Dying
<1>4. ASSUME NEW w \in Workers, RequestDies(w) PROVE disturbed \subseteq disturbed'
  BY <1>3, <1>4 DEF RequestDies
<1>5. CASE ServerRestarts
  <2>1. {w \in Workers : request[w] # Idle} \in SUBSET Workers
    OBVIOUS
  <2>. QED
    BY <1>3, <1>5, <2>1 DEF ServerRestarts
<1>6. ASSUME NEW w \in Workers, NEW s \in Stations, NEW next \in StationTargets,
             CreateStation(w, s, next)
      PROVE  UNCHANGED disturbed
  BY <1>6 DEF CreateStation, AtOnce
<1>7. ASSUME NEW c \in DOMAIN checkouts, CheckoutExpires(c) PROVE UNCHANGED disturbed
  BY <1>7 DEF CheckoutExpires
<1>8. ASSUME NEW i \in DOMAIN payments, NEW l \in Lockers, EnsureSession(i, l)
      PROVE  disturbed \subseteq disturbed'
  BY <1>8 DEF EnsureSession
<1>9. ASSUME NEW c \in DOMAIN credentials, CredentialExpires(c) PROVE UNCHANGED disturbed
  BY <1>9 DEF CredentialExpires
<1>10. TimePasses \/ UNCHANGED vars => UNCHANGED disturbed
  BY DEF TimePasses, vars
<1>11. ASSUME NEW w \in Workers, MarkFails(w) PROVE disturbed \subseteq disturbed'
  BY <1>11 DEF MarkFails
<1>. QED
  BY <1>1, <1>2, <1>4, <1>5, <1>6, <1>7, <1>8, <1>9, <1>10, <1>11 DEF StepKind

Holds(w, l) == Handles(w) /\ Said(w).locker = l

IsLatest(e, set) == e \in set /\ \A f \in set : f <= e

\* The door of a locker nobody disturbs is as its latest report says, or as one does
\* that is about to be marked; and the report in hand is the latest.
DoorFollows(l) ==
    /\ \A w \in Workers : Holds(w, l) => \A f \in DoorReports(l) : f <= request[w].report
    /\ \A w \in Workers : Shown(w, l) => lockers[l].door = Said(w).door
    /\ (\A w \in Workers : ~Shown(w, l))
       => \A e : IsLatest(e, DoorReports(l)) => lockers[l].door = reports[e].content.door

DoorSound(l) ==
    /\ DoorReports(l) # {} => HasLocker(l) /\ \E e : IsLatest(e, DoorReports(l))
    /\ \A w \in Workers : Shown(w, l) => HasLocker(l)
    /\ l \in disturbed \/ DoorFollows(l)

DoorsFollow == BeatsAreHeartbeats /\ \A l \in Lockers : DoorSound(l)

LEMMA StaysHeartbeat ==
    ASSUME Sound, BeatsAreHeartbeats, StepKind PROVE BeatsAreHeartbeats'
<1>1. /\ DOMAIN reports = 1..Len(reports) /\ Len(reports) \in Nat
      /\ reports \in Seq(ReportRow)
  BY RowsHold DEF Sound, Rows, Reported
<1>2. \A v \in Workers : request[v].op = "beat" => request[v].report \in DOMAIN reports
  BY DEF Sound, RequestsFit, Fits
<1>3. CASE \E w \in Workers : Turn(w)
  <2>1. PICK w \in Workers : Turn(w)
    BY <1>3
  <2>2. \A v \in Workers \ {w} : request'[v] = request[v]
    BY <2>1, ReportTurns DEF Others
  <2>3. request'[w].op = "beat" => HoldsOn(w)
    BY <2>1, ReportTurns DEF TakesUp, PutsDown, LetsGo, Idle
  <2>4. \A e \in DOMAIN reports : reports'[e].content = reports[e].content
    BY <1>1, <2>1, ReportTurns DEF TakesUp, HoldsOn, PutsDown, LetsGo
  <2>. QED
    BY <1>2, <2>2, <2>3, <2>4 DEF BeatsAreHeartbeats, HoldsOn, Said
<1>4. CASE ReportsWait
  BY <1>4 DEF ReportsWait, Fails, BeatsAreHeartbeats, Said, Handles
<1>. QED
  BY <1>3, <1>4, ReportsRest

LEMMA HoldsAbout ==
    ASSUME Sound, NEW v \in Workers, NEW l \in Lockers, Holds(v, l)
    PROVE  l \in request[v].about /\ request[v].report \in DOMAIN reports
<1>1. PICK r : r = request[v]
  OBVIOUS
<1>2. /\ r.report \in DOMAIN reports
      /\ reports[r.report].content.locker \in r.about \union {None}
  BY <1>1, InHandling DEF Holds, Handles
<1>3. l # None
  BY FleetConstants
<1>. QED
  BY <1>1, <1>2, <1>3 DEF Holds, Said

\* An undisturbed locker is in the hand of one request.
LEMMA HeldAlone ==
    ASSUME Sound, NEW v \in Workers, NEW w \in Workers, v # w, NEW l \in Lockers,
           l \notin disturbed, Holds(v, l)
    PROVE  ~Holds(w, l)
BY HoldsAbout DEF Sound, Overlap

LEMMA DoorsWait ==
    ASSUME Sound, StepKind, ReportsWait, NEW l \in Lockers, DoorStays(l), DoorSound(l)
    PROVE  DoorSound(l)'
<1>1. /\ UNCHANGED reports
      /\ \A w \in Workers : request'[w] = request[w] \/ ~Handles(w)' \/ Fails(w)
  BY DEF ReportsWait
<1>2. \A w \in Workers :
         Holds(w, l)' => Holds(w, l) /\ request'[w].report = request[w].report
  BY <1>1 DEF Holds, Handles, Said, Fails
<1>3. \A w \in Workers : Shown(w, l)' => Shown(w, l) /\ request'[w] = request[w]
  BY <1>1 DEF Shown, Handles, Said, Fails
<1>4. UNCHANGED DoorReports(l)
  BY <1>1 DEF DoorReports
<1>5. DoorReports(l) # {} => HasLocker(l)
  BY DEF DoorSound
<1>6. /\ DoorReports(l)' # {} => HasLocker(l)' /\ \E e : IsLatest(e, DoorReports(l))'
      /\ \A w \in Workers : Shown(w, l)' => HasLocker(l)'
  BY <1>3, <1>4, <1>5 DEF DoorSound, DoorStays, IsLatest
<1>7. CASE l \notin disturbed'
  <2>1. DoorFollows(l)
    BY <1>7, DisturbedGrows DEF DoorSound
  <2>2. ASSUME NEW w \in Workers, Holds(w, l)'
        PROVE  \A f \in DoorReports(l)' : f <= request'[w].report
    BY <1>2, <1>4, <2>1, <2>2 DEF DoorFollows
  <2>3. ASSUME NEW w \in Workers, Shown(w, l)' PROVE lockers'[l].door = Said(w)'.door
    BY <1>1, <1>3, <2>1, <2>3 DEF DoorFollows, DoorSound, DoorStays, Said
  <2>4. ASSUME NEW w \in Workers, Shown(w, l) PROVE Shown(w, l)'
    <3>1. Holds(w, l)
      BY <2>4 DEF Shown, Holds, Handles
    <3>2. request'[w] = request[w]
      BY <1>7, <3>1, HoldsAbout DEF ReportsWait, Holds, Fails
    <3>. QED
      BY <1>1, <2>4, <3>2 DEF Shown, Said
  <2>5. ASSUME \A w \in Workers : ~Shown(w, l)', NEW e, IsLatest(e, DoorReports(l))'
        PROVE  lockers'[l].door = reports'[e].content.door
    <3>1. IsLatest(e, DoorReports(l)) /\ \A w \in Workers : ~Shown(w, l)
      BY <1>4, <2>4, <2>5 DEF IsLatest
    <3>2. DoorReports(l) # {}
      BY <3>1 DEF IsLatest
    <3>. QED
      BY <1>1, <1>5, <2>1, <3>1, <3>2 DEF DoorFollows, DoorStays
  <2>. QED
    BY <1>6, <2>2, <2>3, <2>5 DEF DoorSound, DoorFollows, IsLatest
<1>. QED
  BY <1>6, <1>7 DEF DoorSound, IsLatest

LEMMA DoorIsShown ==
    ASSUME Sound, NEW w \in Workers, Others(w), UNCHANGED disturbed, NEW l \in Lockers,
           ShowsDoor(w, l), DoorSound(l)
    PROVE  DoorSound(l)'
<1>1. /\ UNCHANGED reports /\ Holds(w, l)
      /\ HasLocker(l)' /\ lockers'[l].door = Said(w).door
      /\ request'[w].report = request[w].report
  BY DEF ShowsDoor, Holds, Handles
<1>2. Shown(w, l)' /\ Said(w)' = Said(w)
  BY <1>1 DEF ShowsDoor, Shown, Said
<1>3. UNCHANGED DoorReports(l)
  BY <1>1 DEF DoorReports
<1>4. \A v \in Workers \ {w} :
         (Holds(v, l)' => Holds(v, l)) /\ (Shown(v, l)' => Shown(v, l))
  BY <1>1 DEF Others, Holds, Handles, Shown, Said
<1>5. CASE l \notin disturbed
  <2>1. DoorFollows(l)
    BY <1>5 DEF DoorSound
  <2>2. \A v \in Workers \ {w} : ~Holds(v, l)
    BY <1>1, <1>5, HeldAlone
  <2>3. \A v \in Workers \ {w} : ~Holds(v, l)' /\ ~Shown(v, l)'
    BY <1>4, <2>2 DEF Shown, Holds, Handles
  <2>4. \A f \in DoorReports(l)' : f <= request'[w].report
    BY <1>1, <1>3, <2>1 DEF DoorFollows
  <2>. QED
    BY <1>1, <1>2, <1>3, <2>3, <2>4 DEF DoorSound, DoorFollows, IsLatest
<1>. QED
  BY <1>1, <1>3, <1>5 DEF DoorSound, IsLatest

\* Where no report about l is marked processed.
LEMMA DoorIsKept ==
    ASSUME Sound, NEW w \in Workers, Others(w), UNCHANGED disturbed, NEW l \in Lockers,
           DoorStays(l), ~Shown(w, l), ~Shown(w, l)',
           UNCHANGED DoorReports(l),
           \A e \in DOMAIN reports :
              e \in DOMAIN reports' /\ reports'[e].content = reports[e].content,
           Holds(w, l)' => \/ Holds(w, l) /\ request'[w].report = request[w].report
                           \/ \A e \in DOMAIN reports : e <= request'[w].report,
           DoorSound(l)
    PROVE  DoorSound(l)'
<1>1. \A v \in Workers : Handles(v) => request[v].report \in DOMAIN reports
  BY InHandling DEF Handles
<1>2. \A v \in Workers \ {w} :
         /\ Holds(v, l)' => Holds(v, l) /\ request'[v] = request[v]
         /\ Shown(v, l)' <=> Shown(v, l)
         /\ Shown(v, l) => Said(v)' = Said(v)
  BY <1>1 DEF Others, Holds, Handles, Shown, Said
<1>3. DoorReports(l) \subseteq DOMAIN reports
  BY DEF DoorReports
<1>4. /\ DoorReports(l) # {} => HasLocker(l)
      /\ \A v \in Workers : Shown(v, l) => HasLocker(l)
  BY DEF DoorSound
<1>5. HasLocker(l) => HasLocker(l)' /\ lockers'[l].door = lockers[l].door
  BY DEF DoorStays
<1>6. CASE l \notin disturbed
  <2>1. DoorFollows(l)
    BY <1>6 DEF DoorSound
  <2>2. ASSUME NEW v \in Workers, Holds(v, l)'
        PROVE  \A f \in DoorReports(l)' : f <= request'[v].report
    BY <1>2, <1>3, <2>1, <2>2 DEF DoorFollows
  <2>3. ASSUME NEW v \in Workers, Shown(v, l)' PROVE lockers'[l].door = Said(v)'.door
    BY <1>2, <1>4, <1>5, <2>1, <2>3 DEF DoorFollows
  <2>4. ASSUME \A v \in Workers : ~Shown(v, l)', NEW e, IsLatest(e, DoorReports(l))'
        PROVE  lockers'[l].door = reports'[e].content.door
    <3>1. IsLatest(e, DoorReports(l)) /\ e \in DoorReports(l)
      BY <2>4 DEF IsLatest
    <3>2. lockers[l].door = reports[e].content.door
      BY <1>2, <2>1, <2>4, <3>1 DEF DoorFollows
    <3>. QED
      BY <1>3, <1>4, <1>5, <3>1, <3>2
  <2>. QED
    BY <1>2, <1>4, <1>5, <2>2, <2>3, <2>4 DEF DoorSound, DoorFollows, IsLatest
<1>. QED
  BY <1>2, <1>4, <1>5, <1>6 DEF DoorSound, IsLatest

\* Where a report is marked processed that says what the door shows by now.
LEMMA DoorIsMarked ==
    ASSUME Sound, InHandOfOne, NEW w \in Workers, Others(w), UNCHANGED disturbed,
           NEW l \in Lockers, DoorStays(l), PutsDown(w), Shown(w, l), DoorSound(l)
    PROVE  DoorSound(l)'
<1>1. PICK x : x = request[w].report
  OBVIOUS
<1>2. /\ Holds(w, l) /\ x \in DOMAIN reports /\ l \in request[w].about
  BY <1>1, HoldsAbout DEF Shown, Holds, Handles
<1>3. /\ DOMAIN reports' = DOMAIN reports
      /\ \A e \in DOMAIN reports : e # x => reports'[e] = reports[e]
      /\ \A e \in DOMAIN reports : reports'[e].content = reports[e].content
      /\ reports'[x].status = "processed" /\ ~Handles(w)'
  BY <1>1, <1>2 DEF PutsDown, Shown, Handles, Idle
<1>4. /\ reports[x].content.kind = "locker" /\ reports[x].content.locker = l
      /\ reports[x].content.door # None
  BY <1>1 DEF Shown, Said
<1>5. DoorReports(l)' = DoorReports(l) \union {x}
  BY <1>2, <1>3, <1>4 DEF DoorReports
<1>6. DoorReports(l)' \subseteq Nat /\ x \in DoorReports(l)'
  BY <1>2, <1>3, <1>5, RowsHold DEF DoorReports, Sound
<1>7. HasLocker(l) /\ HasLocker(l)' /\ lockers'[l].door = lockers[l].door
  BY DEF DoorSound, DoorStays
<1>8. \E e : IsLatest(e, DoorReports(l)')
  <2>1. CASE DoorReports(l) = {}
    BY <1>5, <1>6, <2>1 DEF IsLatest
  <2>2. CASE DoorReports(l) # {}
    <3>1. PICK m : IsLatest(m, DoorReports(l))
      BY <2>2 DEF DoorSound
    <3>2. m \in Nat /\ x \in Nat /\ m \in DoorReports(l)
      BY <1>5, <1>6, <3>1 DEF IsLatest
    <3>3. CASE m <= x
      <4>1. \A f \in DoorReports(l) : f <= x
        BY <1>5, <1>6, <3>1, <3>2, <3>3 DEF IsLatest
      <4>2. ASSUME NEW f \in DoorReports(l)' PROVE f <= x
        <5>1. f \in DoorReports(l) \/ f = x
          BY <1>5
        <5>2. x <= x
          BY <3>2
        <5>. QED
          BY <4>1, <5>1, <5>2
      <4>. QED
        BY <1>6, <4>2 DEF IsLatest
    <3>4. CASE x <= m
      BY <1>5, <3>1, <3>2, <3>4 DEF IsLatest
    <3>. QED
      BY <3>2, <3>3, <3>4
  <2>. QED
    BY <2>1, <2>2
<1>9. \A v \in Workers : Handles(v) => request[v].report \in DOMAIN reports
  BY InHandling DEF Handles
<1>10. \A v \in Workers : /\ Holds(v, l)' => v # w /\ Holds(v, l)
                          /\ Shown(v, l)' => v # w /\ Shown(v, l)
  BY <1>3, <1>9 DEF Others, Holds, Handles, Shown, Said
<1>11. CASE l \notin disturbed
  <2>1. DoorFollows(l)
    BY <1>11 DEF DoorSound
  <2>2. \A v \in Workers : ~Holds(v, l)' /\ ~Shown(v, l)'
    BY <1>2, <1>10, <1>11, HeldAlone DEF Shown, Holds, Handles
  <2>3. \A f \in DoorReports(l)' : f <= x
    BY <1>1, <1>2, <1>5, <1>6, <2>1 DEF DoorFollows
  <2>4. lockers'[l].door = reports'[x].content.door
    BY <1>1, <1>2, <1>3, <1>7, <2>1 DEF DoorFollows, Said
  <2>5. ASSUME NEW e, IsLatest(e, DoorReports(l)') PROVE e = x
    BY <1>6, <2>3, <2>5 DEF IsLatest
  <2>. QED
    BY <1>7, <1>8, <2>2, <2>4, <2>5 DEF DoorSound, DoorFollows, IsLatest
<1>. QED
  BY <1>7, <1>8, <1>11 DEF DoorSound, IsLatest

\* A step that marks no report about the door of l leaves them as they are.
LEMMA DoorReportsRest ==
    ASSUME Sound, InHandOfOne, NEW w \in Workers, NEW l \in Lockers, ~Shown(w, l),
           TakesUp(w) \/ HoldsOn(w) \/ PutsDown(w) \/ LetsGo(w)
    PROVE  /\ UNCHANGED DoorReports(l)
           /\ \A e \in DOMAIN reports :
                 e \in DOMAIN reports' /\ reports'[e].content = reports[e].content
<1>1. /\ DOMAIN reports = 1..Len(reports) /\ Len(reports) \in Nat
      /\ reports \in Seq(ReportRow)
  BY RowsHold DEF Sound, Rows, Reported
<1>2. CASE UNCHANGED reports
  BY <1>2 DEF DoorReports
<1>3. CASE TakesUp(w)
  <2>1. PICK row \in ReportRow : reports' = Append(reports, row) /\ row.status = "received"
    BY <1>3 DEF TakesUp
  <2>2. /\ DOMAIN reports' = DOMAIN reports \union {Len(reports) + 1}
        /\ \A e \in DOMAIN reports : reports'[e] = reports[e]
        /\ reports'[Len(reports) + 1].status = "received"
        /\ Len(reports) + 1 \notin DOMAIN reports
    BY <1>1, <2>1
  <2>. QED
    BY <2>2 DEF DoorReports
<1>4. CASE PutsDown(w)
  <2>1. PICK x : x = request[w].report
    OBVIOUS
  <2>2. /\ request[w].op = "settle" /\ x \in DOMAIN reports
        /\ reports[x].status = "received"
    BY <1>4, <2>1, InHandling DEF PutsDown, InHandOfOne, Handles
  <2>3. /\ DOMAIN reports' = DOMAIN reports
        /\ \A e \in DOMAIN reports : e # x => reports'[e] = reports[e]
        /\ \A e \in DOMAIN reports : reports'[e].content = reports[e].content
        /\ reports'[x].status = request[w].status
    BY <1>4, <2>1, <2>2 DEF PutsDown
  <2>4. ~ /\ reports[x].content.kind = "locker" /\ reports[x].content.locker = l
          /\ reports[x].content.door # None /\ reports'[x].status = "processed"
    BY <2>1, <2>2, <2>3 DEF Shown, Said
  <2>. QED
    BY <2>2, <2>3, <2>4 DEF DoorReports
<1>. QED
  BY <1>2, <1>3, <1>4 DEF HoldsOn, LetsGo

LEMMA TurnsDoor ==
    ASSUME Sound, InHandOfOne, BeatsAreHeartbeats, NEW w \in Workers, Turn(w),
           NEW l \in Lockers, DoorSound(l)
    PROVE  DoorSound(l)'
<1>1. Others(w) /\ UNCHANGED disturbed
  BY ReportTurns, Turns DEF Wrote, Become
<1>2. TakesUp(w) \/ HoldsOn(w) \/ PutsDown(w) \/ LetsGo(w)
  BY ReportTurns
<1>3. CASE ShowsDoor(w, l)
  BY <1>1, <1>3, DoorIsShown
<1>4. CASE DoorStays(l) /\ ~Shown(w, l)' /\ Shown(w, l)
  BY <1>1, <1>2, <1>4, DoorIsMarked DEF TakesUp, HoldsOn, LetsGo, Shown
<1>5. CASE DoorStays(l) /\ ~Shown(w, l)' /\ ~Shown(w, l)
  <2>1. /\ UNCHANGED DoorReports(l)
        /\ \A e \in DOMAIN reports :
              e \in DOMAIN reports' /\ reports'[e].content = reports[e].content
    BY <1>2, <1>5, DoorReportsRest
  <2>2. ASSUME Holds(w, l)'
        PROVE  \/ Holds(w, l) /\ request'[w].report = request[w].report
               \/ \A e \in DOMAIN reports : e <= request'[w].report
    <3>1. CASE TakesUp(w)
      <4>1. request'[w].report = Len(reports) + 1
        BY <3>1 DEF TakesUp
      <4>2. DOMAIN reports = 1..Len(reports) /\ Len(reports) \in Nat
        BY RowsHold DEF Sound
      <4>. QED
        BY <4>1, <4>2
    <3>2. CASE HoldsOn(w)
      BY <2>2, <3>2 DEF HoldsOn, Holds, Handles, Said
    <3>3. CASE PutsDown(w) \/ LetsGo(w)
      BY <2>2, <3>3 DEF PutsDown, LetsGo, Holds, Handles, Idle
    <3>. QED
      BY <1>2, <3>1, <3>2, <3>3
  <2>. QED
    BY <1>1, <1>5, <2>1, <2>2, DoorIsKept
<1>. QED
  BY <1>3, <1>4, <1>5, DoorTurns

LEMMA StaysFollowing ==
    ASSUME Sound, InHandOfOne, DoorsFollow, StepKind PROVE DoorsFollow'
<1>1. BeatsAreHeartbeats /\ BeatsAreHeartbeats'
  BY StaysHeartbeat DEF DoorsFollow
<1>2. ASSUME NEW l \in Lockers PROVE DoorSound(l)'
  <2>1. DoorSound(l)
    BY DEF DoorsFollow
  <2>2. CASE \E w \in Workers : Turn(w)
    BY <1>1, <2>1, <2>2, TurnsDoor
  <2>3. CASE ~\E w \in Workers : Turn(w)
    BY <2>1, <2>3, ReportsRest, DoorsRest, DoorsWait
  <2>. QED
    BY <2>2, <2>3
<1>. QED
  BY <1>1, <1>2 DEF DoorsFollow

LEMMA FollowingIsReported ==
    ASSUME Sound, DoorsFollow PROVE DoorIsAsLastReported
<1> SUFFICES ASSUME NEW l \in Lockers, l \notin disturbed, DoorReports(l) # {},
                    \A w \in Workers : l \notin request[w].about
             PROVE  lockers[l].door = reports[Latest(DoorReports(l))].content.door
  BY DEF DoorIsAsLastReported
<1>1. DoorFollows(l) /\ \E e : IsLatest(e, DoorReports(l))
  BY DEF DoorsFollow, DoorSound
<1>2. \A w \in Workers : ~Shown(w, l)
  BY HoldsAbout DEF Shown, Holds, Handles
<1>3. IsLatest(Latest(DoorReports(l)), DoorReports(l))
  BY <1>1 DEF Latest, IsLatest
<1>. QED
  BY <1>1, <1>2, <1>3 DEF DoorFollows

\* With any number of lockers, reports and requests in flight, a locker that no two
\* requests were about at once, no report about failed to be marked, and none is
\* about now, has its door as the latest of its processed reports to say something
\* of it says.
THEOREM DoorsAreAsReported == Spec => []DoorIsAsLastReported
<1>1. Init => DoorsFollow
  <2> SUFFICES ASSUME Init PROVE DoorsFollow
    OBVIOUS
  <2>1. reports = <<>> /\ \A w \in Workers : request[w] = Idle
    BY DEF Init
  <2>2. \A l \in Lockers : DoorReports(l) = {}
    BY <2>1 DEF DoorReports
  <2>. QED
    BY <2>1, <2>2 DEF DoorsFollow, DoorSound, DoorFollows, BeatsAreHeartbeats, Holds,
           Handles, Shown, Idle, IsLatest
<1>2. Sound /\ InHandOfOne /\ DoorsFollow /\ [Next]_vars => DoorsFollow'
  BY Kinds, StaysFollowing
<1>. QED
  BY <1>1, <1>2, InHandAlways, FollowingIsReported, PTL DEF Spec

-------------------------------------------------------------------------------
(* Checks that still stand *)

\* What a request checked holds until it writes, unless another request about the
\* same came in between.
Stands(r) ==
    /\ r.op = "station_status"
       => \/ r.station \in disturbed
          \/ /\ stations[r.station] = "decommissioned" => r.next = "decommissioned"
             /\ r.next = "decommissioned" => LiveDevicesAt(r.station) \subseteq disturbed
    /\ r.op = "create_device"
       => r.station \in disturbed \/ stations[r.station] # "decommissioned"
    /\ r.op = "move_device"
       => \/ {r.station, r.device} \intersect disturbed # {}
          \/ stations[r.station] # "decommissioned"
          \/ devices[r.device].station = r.station
    /\ r.op = "lifecycle"
       => \/ r.device \in disturbed
          \/ /\ ~IsLive(r.device) => r.next = "decommissioned"
             /\ r.next = "decommissioned" => SessionsOn(r.device) = {}
    /\ r.op = "channel"
       => \/ {r.locker, DeviceOf[r.locker]} \intersect disturbed # {}
          \/ AtRest(r.locker) /\ Reconfigurable(DeviceOf[r.locker])
    /\ r.op = "issue" => IsLive(r.device) \/ r.device \in disturbed
    /\ r.op = "pay"
       => \/ IsLive(checkouts[r.checkout].device)
          \/ checkouts[r.checkout].device \in disturbed \union overtaken

AllStand == \A w \in Workers : Stands(request[w])

\* Whoever is under way with a decommissioned device was overtaken, or disturbed.
NoneUnderway ==
    \A d \in Underway : IsLive(d) \/ d \in disturbed \union overtaken

Orderly ==
    /\ AllStand /\ NoneUnderway
    /\ ClosedStationsHaveNoLiveDevice /\ RetiredDevicesHoldNoSession

\* What worker w's step leaves of the order.
Respects(w) ==
    \A d \in Devices :
        /\ Exists(d) /\ ~IsLive(d) /\ IsLive(d)' => d \in disturbed
        /\ IsLive(d)'
           => \/ IsLive(d) /\ devices'[d].station = devices[d].station
              \/ d \in disturbed
              \/ /\ devices'[d].station \in request[w].about
                 /\ \/ stations[devices'[d].station] # "decommissioned"
                    \/ devices'[d].station \in disturbed
        /\ IsLive(d) /\ ~IsLive(d)'
           => /\ d \in disturbed \/ SessionsOn(d) = {}
              /\ d \in Underway => d \in overtaken'

LEMMA TurnsRespect ==
    ASSUME Sound, NEW w \in Workers, Turn(w), Stands(request[w]) PROVE Respects(w)
<1> SUFFICES ASSUME NEW d \in Devices
             PROVE  /\ Exists(d) /\ ~IsLive(d) /\ IsLive(d)' => d \in disturbed
                    /\ IsLive(d)'
                       => \/ IsLive(d) /\ devices'[d].station = devices[d].station
                          \/ d \in disturbed
                          \/ /\ devices'[d].station \in request[w].about
                             /\ \/ stations[devices'[d].station] # "decommissioned"
                                \/ devices'[d].station \in disturbed
                    /\ IsLive(d) /\ ~IsLive(d)'
                       => /\ d \in disturbed \/ SessionsOn(d) = {}
                          /\ d \in Underway => d \in overtaken'
  BY DEF Respects
<1>1. PICK r : r = request[w]
  OBVIOUS
<1>2. Fits(r) /\ Stands(r)
  BY <1>1 DEF Sound, RequestsFit
<1>3. CASE devices'[d] = devices[d]
  BY <1>3 DEF IsLive, Exists
<1>4. CASE Registers(w, d)
  <2>1. /\ r.op = "create_device" /\ ~Exists(d)
        /\ devices'[d].station = r.station /\ r.station \in r.about
        /\ r.station \in disturbed \/ stations[r.station] # "decommissioned"
    BY <1>1, <1>2, <1>4 DEF Registers, Fits, Stands
  <2>. QED
    BY <1>1, <2>1 DEF IsLive
<1>5. CASE Relocates(w, d)
  <2>1. /\ r.op = "move_device" /\ r.device = d
        /\ devices'[d].station = r.station /\ r.station \in r.about
        /\ IsLive(d)' <=> IsLive(d)
    BY <1>1, <1>2, <1>5 DEF Relocates, Fits, IsLive
  <2>2. \/ {r.station, r.device} \intersect disturbed # {}
        \/ stations[r.station] # "decommissioned"
        \/ devices[r.device].station = r.station
    BY <1>2, <2>1 DEF Stands
  <2>. QED
    BY <1>1, <2>1, <2>2
<1>6. CASE Advances(w, d)
  <2>1. /\ r.op = "lifecycle" /\ r.device = d
        /\ devices'[d].station = devices[d].station
        /\ IsLive(d)' <=> r.next # "decommissioned"
        /\ overtaken' = overtaken \union
              {c \in Underway : c = d /\ r.next = "decommissioned"}
    BY <1>1, <1>6 DEF Advances, SetLifecycle, IsLive
  <2>2. \/ d \in disturbed
        \/ /\ ~IsLive(d) => r.next = "decommissioned"
           /\ r.next = "decommissioned" => SessionsOn(d) = {}
    BY <1>2, <2>1 DEF Stands
  <2>. QED
    BY <2>1, <2>2
<1>7. CASE Wakes(w, d)
  BY <1>7 DEF Wakes, IsLive
<1>. QED
  BY <1>3, <1>4, <1>5, <1>6, <1>7, DeviceTurns

LEMMA UnderwayIs ==
    ASSUME NEW d
    PROVE  d \in Underway
           <=> \/ \E c \in DOMAIN checkouts : checkouts[c].device = d /\ ~checkouts[c].expired
               \/ \E i \in DOMAIN payments : payments[i].device = d /\ ~payments[i].served
BY DEF Underway

\* Who gets under way by a step.
Admits(w) ==
    /\ overtaken \subseteq overtaken'
    /\ \A c \in DOMAIN checkouts :
          c \in DOMAIN checkouts' /\ checkouts'[c].device = checkouts[c].device
    /\ \A d \in Underway' :
          \/ d \in Underway
          \/ IsLive(d) /\ UNCHANGED devices
          \/ d \in disturbed \union overtaken

LEMMA TurnsAdmit ==
    ASSUME Sound, NEW w \in Workers, Turn(w), Stands(request[w]) PROVE Admits(w)
<1>1. PICK r : r = request[w]
  OBVIOUS
<1>2. Fits(r) /\ Stands(r)
  BY <1>1 DEF Sound, RequestsFit
<1>3. /\ checkouts \in Seq(CheckoutRow) /\ Len(checkouts) \in Nat
      /\ DOMAIN checkouts = 1..Len(checkouts)
      /\ payments \in Seq(PaymentRow) /\ Len(payments) \in Nat
      /\ DOMAIN payments = 1..Len(payments)
  BY RowsHold DEF Sound, Rows, Sold
<1>4. CASE UNCHANGED <<checkouts, payments>> /\ overtaken \subseteq overtaken'
  BY <1>4 DEF Admits, Underway
<1>5. CASE IssueCheckout(w)
  <2>1. PICK row \in {[device |-> r.device, expired |-> FALSE]} :
            checkouts' = Append(checkouts, row)
    BY <1>1, <1>5 DEF IssueCheckout
  <2>2. /\ row.device = r.device /\ UNCHANGED <<payments, overtaken, devices>>
        /\ IsLive(r.device) \/ r.device \in disturbed
    BY <1>1, <1>2, <1>5 DEF IssueCheckout, Elsewhere, Stands
  <2>3. /\ DOMAIN checkouts' = DOMAIN checkouts \union {Len(checkouts) + 1}
        /\ \A c \in DOMAIN checkouts : checkouts'[c] = checkouts[c]
        /\ checkouts'[Len(checkouts) + 1] = row
    BY <1>3, <2>1
  <2>4. \A d \in Underway' : d \in Underway \/ d = r.device
    BY <2>2, <2>3 DEF Underway
  <2>. QED
    BY <2>2, <2>3, <2>4 DEF Admits
<1>6. CASE CreatePayment(w)
  <2>1. PICK c : c = r.checkout
    OBVIOUS
  <2>2. PICK row \in {[device |-> checkouts[c].device, checkout |-> c,
                       key |-> r.key, served |-> FALSE]} :
            payments' = payments \/ payments' = Append(payments, row)
    BY <1>1, <1>6, <2>1 DEF CreatePayment
  <2>3. /\ row.device = checkouts[c].device /\ UNCHANGED <<checkouts, overtaken, devices>>
        /\ IsLive(checkouts[c].device) \/ checkouts[c].device \in disturbed \union overtaken
    BY <1>1, <1>2, <1>6, <2>1, <2>2 DEF CreatePayment, Elsewhere, Stands
  <2>4. \/ payments' = payments
        \/ /\ DOMAIN payments' = DOMAIN payments \union {Len(payments) + 1}
           /\ \A i \in DOMAIN payments : payments'[i] = payments[i]
           /\ payments'[Len(payments) + 1] = row
    <3>1. ASSUME payments' = Append(payments, row)
          PROVE  /\ DOMAIN payments' = DOMAIN payments \union {Len(payments) + 1}
                 /\ \A i \in DOMAIN payments : payments'[i] = payments[i]
                 /\ payments'[Len(payments) + 1] = row
      BY <1>3, <3>1
    <3>. QED
      BY <2>2, <3>1
  <2>5. \A d \in Underway' : d \in Underway \/ d = row.device
    BY <2>3, <2>4 DEF Underway
  <2>. QED
    BY <2>3, <2>5 DEF Admits
<1>7. CASE AdministrationSteps(w)
  BY <1>4, <1>7 DEF AdministrationSteps, SetStationStatus, CreateDevice, MoveDevice,
         SetLifecycle, CreateLocker, SetAvailability, CreatePort, SetChannel, SetPortStatus,
         rest, customers
<1>8. CASE CredentialSteps(w) \/ NonceSteps(w) \/ ReportSteps(w)
  BY <1>4, <1>8, NonceKeeps
     DEF CredentialSteps, CreateCredential, Rotate, Revoke, Untouched, fleet, customers,
         ReportSteps, Ingest, Unhandled, HeartbeatRead, Heartbeat, Telemetry, LockerReport,
         PortReport, Mark, Fleet, tables
<1>. QED
  BY <1>5, <1>6, <1>7, <1>8 DEF Turn, CustomerSteps

\* A station changes its status by a request about it, and nothing else then moves.
Restates(w) ==
    \/ UNCHANGED stations
    \/ /\ request[w].op = "station_status" /\ UNCHANGED devices
       /\ stations'[request[w].station] = request[w].next
       /\ \A s \in Stations : s # request[w].station => stations'[s] = stations[s]

LEMMA TurnsRestate ==
    ASSUME Sound, NEW w \in Workers, Turn(w) PROVE Restates(w)
<1>1. CASE SetStationStatus(w)
  BY <1>1 DEF SetStationStatus, Restates, Sound, Rows, Fielded, RequestsFit, Fits
<1>2. CASE AdministrationSteps(w)
  BY <1>1, <1>2 DEF AdministrationSteps, CreateDevice, MoveDevice, SetLifecycle,
         CreateLocker, SetAvailability, CreatePort, SetChannel, SetPortStatus, Restates
<1>3. CASE \/ CredentialSteps(w) \/ NonceSteps(w) \/ ReportSteps(w) \/ CustomerSteps(w)
  BY <1>3, NonceKeeps
     DEF CredentialSteps, CreateCredential, Rotate, Revoke, Untouched, fleet,
         ReportSteps, Ingest, Unhandled, HeartbeatRead, Heartbeat, Telemetry, LockerReport,
         PortReport, Mark, Fleet, tables, CustomerSteps, IssueCheckout, CreatePayment,
         Elsewhere, Restates
<1>. QED
  BY <1>2, <1>3 DEF Turn

\* What another request checked stands.
LEMMA OthersStand ==
    ASSUME Sound, NEW v \in Workers, NEW w \in Workers, v # w,
           Others(w), Kept(request[w].about), UNCHANGED <<sessions, disturbed>>,
           Respects(w), Admits(w), Stands(request[v])
    PROVE  Stands(request[v])'
<1>1. PICK r : r = request[v]
  OBVIOUS
<1>2. Fits(r) /\ Stands(r)
  BY <1>1 DEF Sound, RequestsFit
<1>3. \A x \in r.about : x \in disturbed \/ x \notin request[w].about
  BY <1>1 DEF Sound, Overlap
<1>4. /\ \A s \in Stations \intersect r.about : s \in disturbed \/ stations'[s] = stations[s]
      /\ \A d \in Devices \intersect r.about : d \in disturbed \/ devices'[d] = devices[d]
      /\ \A l \in Lockers \intersect r.about : l \in disturbed \/ ports'[l] = ports[l]
  BY <1>3 DEF Kept
<1>5. r.op = "station_status"
      => \/ r.station \in disturbed
         \/ /\ stations'[r.station] = "decommissioned" => r.next = "decommissioned"
            /\ r.next = "decommissioned" => LiveDevicesAt(r.station)' \subseteq disturbed
  <2> SUFFICES ASSUME r.op = "station_status", r.station \notin disturbed
               PROVE  /\ stations'[r.station] = "decommissioned" => r.next = "decommissioned"
                      /\ r.next = "decommissioned"
                         => LiveDevicesAt(r.station)' \subseteq disturbed
    OBVIOUS
  <2>1. /\ r.station \in Stations \intersect r.about
        /\ stations'[r.station] = stations[r.station]
    BY <1>2, <1>4 DEF Fits
  <2>2. r.station \notin request[w].about
    BY <1>3, <2>1
  <2>3. ASSUME NEW d \in LiveDevicesAt(r.station)', r.next = "decommissioned"
        PROVE  d \in disturbed
    <3>1. d \in Devices /\ IsLive(d)' /\ devices'[d].station = r.station
      BY <2>3 DEF LiveDevicesAt
    <3>2. (IsLive(d) /\ devices'[d].station = devices[d].station) \/ d \in disturbed
      BY <2>2, <3>1 DEF Respects
    <3>3. LiveDevicesAt(r.station) \subseteq disturbed
      BY <1>2, <2>3 DEF Stands
    <3>. QED
      BY <3>1, <3>2, <3>3 DEF LiveDevicesAt
  <2>. QED
    BY <1>2, <2>1, <2>3 DEF Stands
<1>6. r.op = "create_device"
      => r.station \in disturbed \/ stations'[r.station] # "decommissioned"
  BY <1>2, <1>4 DEF Fits, Stands
<1>7. r.op = "move_device"
      => \/ {r.station, r.device} \intersect disturbed # {}
         \/ stations'[r.station] # "decommissioned"
         \/ devices'[r.device].station = r.station
  <2>1. r.op = "move_device"
        => /\ r.station \in disturbed \/ stations'[r.station] = stations[r.station]
           /\ r.device \in disturbed \/ devices'[r.device] = devices[r.device]
    BY <1>2, <1>4 DEF Fits
  <2>. QED
    BY <1>2, <2>1 DEF Stands
<1>8. r.op = "lifecycle"
      => \/ r.device \in disturbed
         \/ /\ ~IsLive(r.device)' => r.next = "decommissioned"
            /\ r.next = "decommissioned" => SessionsOn(r.device)' = {}
  <2>1. r.op = "lifecycle" => r.device \in disturbed \/ devices'[r.device] = devices[r.device]
    BY <1>2, <1>4 DEF Fits
  <2>. QED
    BY <1>2, <2>1 DEF Stands, IsLive, Exists, SessionsOn
<1>9. r.op = "channel"
      => \/ {r.locker, DeviceOf[r.locker]} \intersect disturbed # {}
         \/ AtRest(r.locker)' /\ Reconfigurable(DeviceOf[r.locker])'
  <2>1. r.op = "channel"
        => /\ r.locker \in disturbed \/ ports'[r.locker] = ports[r.locker]
           /\ \/ DeviceOf[r.locker] \in disturbed
              \/ devices'[DeviceOf[r.locker]] = devices[DeviceOf[r.locker]]
    BY <1>2, <1>4, FleetConstants DEF Fits
  <2>. QED
    BY <1>2, <2>1 DEF Stands, AtRest, Reconfigurable
<1>10. r.op = "issue" => IsLive(r.device)' \/ r.device \in disturbed
  <2>1. r.op = "issue" => r.device \in disturbed \/ devices'[r.device] = devices[r.device]
    BY <1>2, <1>4 DEF Fits
  <2>. QED
    BY <1>2, <2>1 DEF Stands, IsLive, Exists
<1>11. r.op = "pay"
       => \/ IsLive(checkouts[r.checkout].device)'
          \/ checkouts'[r.checkout].device \in disturbed \union overtaken'
  <2> SUFFICES ASSUME r.op = "pay"
               PROVE  \/ IsLive(checkouts[r.checkout].device)'
                      \/ checkouts'[r.checkout].device \in disturbed \union overtaken'
    OBVIOUS
  <2>1. PICK d : d = checkouts[r.checkout].device
    OBVIOUS
  <2>2. /\ d \in Devices \intersect r.about
        /\ checkouts'[r.checkout].device = d
    BY <1>2, <2>1, RowsHold DEF Fits, Admits, Sound
  <2>3. d \in disturbed \/ devices'[d] = devices[d]
    BY <1>4, <2>2
  <2>4. IsLive(d) \/ d \in disturbed \union overtaken
    BY <1>2, <2>1 DEF Stands
  <2>5. devices'[d] = devices[d] /\ IsLive(d) => IsLive(d)'
    BY DEF IsLive, Exists
  <2>. QED
    BY <2>2, <2>3, <2>4, <2>5 DEF Admits, IsLive, Exists
<1>12. Stands(r)'
  BY <1>5, <1>6, <1>7, <1>8, <1>9, <1>10, <1>11 DEF Stands
<1>13. request'[v] = r
  BY <1>1 DEF Others
<1>. QED
  BY <1>12, <1>13 DEF Stands

LEMMA TurnsInOrder ==
    ASSUME Sound, Orderly, NEW w \in Workers, Turn(w) PROVE Orderly'
<1>1. /\ AllStand /\ NoneUnderway
      /\ ClosedStationsHaveNoLiveDevice /\ RetiredDevicesHoldNoSession
  BY DEF Orderly
<1>2. Stands(request[w])
  BY <1>1 DEF AllStand
<1>3. Respects(w) /\ Admits(w) /\ Restates(w) /\ Others(w)
  BY <1>2, TurnsRespect, TurnsAdmit, TurnsRestate, ReportTurns
<1>4. Kept(request[w].about) /\ UNCHANGED <<sessions, disturbed>>
  BY Turns DEF Wrote, Become
<1>5. AllStand'
  <2>1. PICK r : Become(w, r) /\ r.op \in {"idle", "ingest", "handle", "beat", "settle"}
    BY Turns DEF Wrote
  <2>2. Stands(request[w])'
    BY <2>1, BecomesOne DEF Stands
  <2>3. ASSUME NEW v \in Workers, v # w PROVE Stands(request[v])'
    BY <1>1, <1>3, <1>4, <2>3, OthersStand DEF AllStand
  <2>. QED
    BY <2>2, <2>3 DEF AllStand
<1>6. NoneUnderway'
  <2> SUFFICES ASSUME NEW d \in Underway'
               PROVE  IsLive(d)' \/ d \in disturbed \union overtaken'
    BY <1>4 DEF NoneUnderway
  <2>1. CASE d \in Underway
    <3>1. d \in Devices
      BY <2>1, RowsHold DEF Underway, Sound
    <3>. QED
      BY <1>1, <1>3, <2>1, <3>1 DEF NoneUnderway, Respects, Admits
  <2>2. CASE d \notin Underway
    BY <1>3, <2>2 DEF Admits, IsLive, Exists
  <2>. QED
    BY <2>1, <2>2
<1>7. (ClosedStationsHaveNoLiveDevice)'
  <2> SUFFICES ASSUME NEW s \in Stations, stations'[s] = "decommissioned",
                      NEW d \in LiveDevicesAt(s)', s \notin disturbed
               PROVE  d \in disturbed
    BY <1>4 DEF ClosedStationsHaveNoLiveDevice
  <2>1. d \in Devices /\ IsLive(d)' /\ devices'[d].station = s
    BY DEF LiveDevicesAt
  <2>2. CASE stations[s] = "decommissioned"
    <3>1. (IsLive(d) /\ devices[d].station = s) \/ d \in disturbed
      BY <1>3, <2>1, <2>2 DEF Respects
    <3>. QED
      BY <1>1, <2>1, <2>2, <3>1 DEF ClosedStationsHaveNoLiveDevice, LiveDevicesAt
  <2>3. CASE stations[s] # "decommissioned"
    <3>1. /\ request[w].op = "station_status" /\ request[w].station = s
          /\ request[w].next = "decommissioned" /\ UNCHANGED devices
      BY <1>3, <2>3 DEF Restates
    <3>2. LiveDevicesAt(s) \subseteq disturbed
      BY <1>2, <3>1 DEF Stands
    <3>. QED
      BY <2>1, <3>1, <3>2 DEF LiveDevicesAt, IsLive, Exists
  <2>. QED
    BY <2>2, <2>3
<1>8. (RetiredDevicesHoldNoSession)'
  <2> SUFFICES ASSUME NEW l \in sessions, ~IsLive(DeviceOf[l])'
               PROVE  DeviceOf[l] \in disturbed \union overtaken'
    BY <1>4 DEF RetiredDevicesHoldNoSession
  <2>1. PICK d \in Devices : d = DeviceOf[l]
    BY FleetConstants DEF Sound, Rows, Fielded
  <2>2. CASE IsLive(d)
    BY <1>3, <2>1, <2>2 DEF Respects, SessionsOn
  <2>3. CASE ~IsLive(d)
    BY <1>1, <1>3, <2>1, <2>3 DEF RetiredDevicesHoldNoSession, Admits
  <2>. QED
    BY <2>1, <2>2, <2>3
<1>. QED
  BY <1>5, <1>6, <1>7, <1>8 DEF Orderly

\* Where no row of the field changes, what was checked stands.
LEMMA FieldInOrder ==
    ASSUME Sound, Orderly, UNCHANGED <<stations, devices, ports, sessions, checkouts,
                                       payments, overtaken>>,
           disturbed \subseteq disturbed'
    PROVE  /\ \A r : Stands(r) => Stands(r)'
           /\ NoneUnderway'
           /\ (ClosedStationsHaveNoLiveDevice)' /\ (RetiredDevicesHoldNoSession)'
<1>1. ASSUME NEW r, Stands(r) PROVE Stands(r)'
  BY <1>1 DEF Stands, LiveDevicesAt, IsLive, Exists, SessionsOn, AtRest, Reconfigurable
<1>2. NoneUnderway'
  BY DEF Orderly, NoneUnderway, Underway, IsLive, Exists
<1>3. (ClosedStationsHaveNoLiveDevice)' /\ (RetiredDevicesHoldNoSession)'
  BY DEF Orderly, ClosedStationsHaveNoLiveDevice, RetiredDevicesHoldNoSession,
         LiveDevicesAt, IsLive, Exists
<1>. QED
  BY <1>1, <1>2, <1>3

\* A step of the field's order where every request goes on, is idle, or has a report
\* to mark.
LEMMA GoesOn ==
    ASSUME Sound, AllStand, \A r : Stands(r) => Stands(r)',
           \A w \in Workers :
              request'[w] = request[w] \/ request'[w].op \in {"idle", "settle"}
    PROVE  AllStand'
<1>1. ASSUME NEW w \in Workers PROVE Stands(request[w])'
  <2>1. PICK q : q = request'[w]
    OBVIOUS
  <2>2. Stands(q)
    BY <2>1 DEF AllStand, Stands
  <2>3. Stands(q)'
    BY <2>2
  <2>. QED
    BY <2>1, <2>3 DEF Stands
<1>. QED
  BY <1>1 DEF AllStand

\* What a request has just checked stands.
LEMMA CheckedStands ==
    ASSUME Sound, NoneUnderway, NEW r, JustRead(r) PROVE Stands(r)
<1>1. Fits(r) /\ Checked(r)
  BY DEF JustRead
<1>2. r.op = "pay"
      => \/ IsLive(checkouts[r.checkout].device)
         \/ checkouts[r.checkout].device \in disturbed \union overtaken
  BY <1>1 DEF Fits, Checked, NoneUnderway, Underway
<1>3. r.op = "station_status" => LiveDevicesAt(r.station) = {} \/ r.next # "decommissioned"
  BY <1>1 DEF Checked
<1>. QED
  BY <1>1, <1>2, <1>3 DEF Checked, Stands

LEMMA BeginsInOrder ==
    ASSUME Sound, Orderly, NEW w \in Workers, Begins(w) PROVE Orderly'
<1>1. PICK r : TakeUp(w, r) /\ JustRead(r) /\ (UNCHANGED tables \/ Delivered)
  BY DEF Begins, Takes
<1>2. UNCHANGED <<stations, devices, ports, sessions, checkouts, payments, overtaken>>
  BY <1>1 DEF tables, fleet, customers, Delivered
<1>3. disturbed \subseteq disturbed'
  BY <1>1 DEF TakeUp
<1>4. /\ request'[w] = r /\ \A v \in Workers \ {w} : request'[v] = request[v]
  BY <1>1 DEF TakeUp, Sound, RequestsFit
<1>5. \A q : Stands(q) => Stands(q)'
  BY <1>2, <1>3, FieldInOrder
<1>6. Stands(r)
  BY <1>1, CheckedStands DEF Orderly
<1>7. ASSUME NEW v \in Workers PROVE Stands(request[v])'
  <2>1. PICK q : q = request'[v]
    OBVIOUS
  <2>2. Stands(q)
    BY <1>4, <1>6, <2>1 DEF Orderly, AllStand
  <2>3. Stands(q)'
    BY <1>5, <2>2
  <2>. QED
    BY <2>1, <2>3 DEF Stands
<1>. QED
  BY <1>2, <1>3, <1>7, FieldInOrder DEF Orderly, AllStand

LEMMA QuietInOrder ==
    ASSUME Sound, Orderly, UNCHANGED fleet, disturbed \subseteq disturbed',
           \A w \in Workers :
              request'[w] = request[w] \/ request'[w].op \in {"idle", "settle"}
    PROVE  Orderly'
<1>1. UNCHANGED <<stations, devices, ports, sessions, checkouts, payments, overtaken>>
  BY DEF fleet, customers
<1>. QED
  BY <1>1, FieldInOrder, GoesOn DEF Orderly

LEMMA StationInOrder ==
    ASSUME Sound, Orderly, NEW w \in Workers, NEW s \in Stations,
           NEW next \in StationTargets, CreateStation(w, s, next)
    PROVE  Orderly'
<1>1. /\ stations[s] = None
      /\ \A t \in Stations : t # s => stations'[t] = stations[t]
      /\ UNCHANGED <<devices, lockers, ports, sessions, checkouts, payments, overtaken,
                     request, disturbed>>
  BY DEF CreateStation, AtOnce, rest, customers, Sound, Rows, Fielded
<1>2. LiveDevicesAt(s) = {}
  BY <1>1 DEF LiveDevicesAt, IsLive, Sound, Rows, Fielded
<1>3. \A t : LiveDevicesAt(t)' = LiveDevicesAt(t)
  BY <1>1 DEF LiveDevicesAt, IsLive, Exists
<1>4. ASSUME NEW r, Fits(r), Stands(r) PROVE Stands(r)'
  <2>1. r.op \in {"station_status", "create_device", "move_device"}
        => stations'[r.station] = stations[r.station]
    BY <1>1, <1>4 DEF Fits
  <2>. QED
    BY <1>1, <1>3, <1>4, <2>1
       DEF Stands, IsLive, Exists, SessionsOn, AtRest, Reconfigurable
<1>5. ASSUME NEW v \in Workers PROVE Stands(request[v])'
  <2>1. PICK q : q = request[v]
    OBVIOUS
  <2>2. Stands(q)'
    BY <1>4, <2>1 DEF Orderly, AllStand, Sound, RequestsFit
  <2>. QED
    BY <1>1, <2>1, <2>2 DEF Stands
<1>6. NoneUnderway'
  BY <1>1 DEF Orderly, NoneUnderway, Underway, IsLive, Exists
<1>7. (ClosedStationsHaveNoLiveDevice)'
  BY <1>1, <1>2, <1>3 DEF Orderly, ClosedStationsHaveNoLiveDevice
<1>8. (RetiredDevicesHoldNoSession)'
  BY <1>1 DEF Orderly, RetiredDevicesHoldNoSession, IsLive, Exists
<1>. QED
  BY <1>5, <1>6, <1>7, <1>8 DEF Orderly, AllStand

LEMMA ExpiryInOrder ==
    ASSUME Sound, Orderly, NEW c \in DOMAIN checkouts, CheckoutExpires(c) PROVE Orderly'
<1>1. UNCHANGED <<stations, devices, ports, sessions, payments, overtaken, request, disturbed>>
  BY DEF CheckoutExpires, Elsewhere
<1>2. /\ DOMAIN checkouts' = DOMAIN checkouts
      /\ \A k \in DOMAIN checkouts :
            /\ checkouts'[k].device = checkouts[k].device
            /\ checkouts[k].expired => checkouts'[k].expired
  BY CheckoutEnds
<1>3. Underway' \subseteq Underway
  BY <1>1, <1>2 DEF Underway
<1>4. ASSUME NEW r, Fits(r), Stands(r) PROVE Stands(r)'
  <2>1. r.op = "pay" => checkouts'[r.checkout].device = checkouts[r.checkout].device
    BY <1>2, <1>4 DEF Fits
  <2>. QED
    BY <1>1, <1>4, <2>1
       DEF Stands, LiveDevicesAt, IsLive, Exists, SessionsOn, AtRest, Reconfigurable
<1>5. ASSUME NEW v \in Workers PROVE Stands(request[v])'
  <2>1. PICK q : q = request[v]
    OBVIOUS
  <2>2. Stands(q)'
    BY <1>4, <2>1 DEF Orderly, AllStand, Sound, RequestsFit
  <2>. QED
    BY <1>1, <2>1, <2>2 DEF Stands
<1>6. NoneUnderway'
  BY <1>1, <1>3 DEF Orderly, NoneUnderway, IsLive, Exists
<1>7. (ClosedStationsHaveNoLiveDevice)' /\ (RetiredDevicesHoldNoSession)'
  BY <1>1 DEF Orderly, ClosedStationsHaveNoLiveDevice, RetiredDevicesHoldNoSession,
         LiveDevicesAt, IsLive, Exists
<1>. QED
  BY <1>5, <1>6, <1>7 DEF Orderly, AllStand

LEMMA SessionInOrder ==
    ASSUME Sound, Orderly, NEW i \in DOMAIN payments, NEW l \in Lockers, EnsureSession(i, l)
    PROVE  Orderly'
<1>1. PICK d \in Devices : d = DeviceOf[l]
  BY FleetConstants
<1>2. /\ d = payments[i].device /\ ~payments[i].served
      /\ sessions' = sessions \union {l}
      /\ disturbed' = disturbed \union ({l, d} \intersect InHand)
      /\ UNCHANGED <<stations, devices, ports, checkouts, overtaken, request>>
  BY <1>1, SessionStarts
<1>3. Underway' \subseteq Underway
  BY <1>2, SessionStarts DEF Underway
<1>4. ASSUME NEW v \in Workers PROVE Stands(request[v])'
  <2>1. PICK r : r = request[v]
    OBVIOUS
  <2>2. Fits(r) /\ Stands(r) /\ r.about \subseteq InHand
    BY <2>1 DEF Orderly, AllStand, Sound, RequestsFit, InHand
  <2>3. r.op = "lifecycle"
        => r.device \in disturbed' \/ SessionsOn(r.device)' = SessionsOn(r.device)
    BY <1>1, <1>2, <2>2 DEF Fits, SessionsOn
  <2>4. r.op = "channel"
        => r.locker \in disturbed' \/ (AtRest(r.locker)' <=> AtRest(r.locker))
    BY <1>2, <2>2 DEF Fits, AtRest
  <2>5. disturbed \subseteq disturbed'
    BY <1>2
  <2>6. Stands(r)'
    BY <1>2, <2>2, <2>3, <2>4, <2>5
       DEF Stands, LiveDevicesAt, IsLive, Exists, Reconfigurable
  <2>. QED
    BY <1>2, <2>1, <2>6 DEF Stands
<1>5. NoneUnderway'
  BY <1>2, <1>3 DEF Orderly, NoneUnderway, IsLive, Exists
<1>6. (ClosedStationsHaveNoLiveDevice)'
  BY <1>2 DEF Orderly, ClosedStationsHaveNoLiveDevice, LiveDevicesAt, IsLive, Exists
<1>7. d \in Underway
  BY <1>2 DEF Underway
<1>8. (RetiredDevicesHoldNoSession)'
  BY <1>1, <1>2, <1>7
     DEF Orderly, RetiredDevicesHoldNoSession, NoneUnderway, IsLive, Exists
<1>. QED
  BY <1>4, <1>5, <1>6, <1>8 DEF Orderly, AllStand

LEMMA StaysOrderly ==
    ASSUME Sound, Orderly, StepKind PROVE Orderly'
<1>1. ASSUME NEW set \in SUBSET Workers, Dying(set), UNCHANGED fleet PROVE Orderly'
  <2>1. \A w \in Workers :
           request'[w] = request[w] \/ request'[w].op \in {"idle", "settle"}
    BY <1>1 DEF Dying, Idle
  <2>. QED
    BY <1>1, <2>1, QuietInOrder DEF Dying
<1>2. ASSUME NEW w \in Workers, RequestDies(w) PROVE Orderly'
  BY <1>1, <1>2 DEF RequestDies
<1>3. CASE ServerRestarts
  <2>1. {w \in Workers : request[w] # Idle} \in SUBSET Workers
    OBVIOUS
  <2>. QED
    BY <1>1, <1>3, <2>1 DEF ServerRestarts
<1>4. ASSUME UNCHANGED <<fleet, request, disturbed>> PROVE Orderly'
  BY <1>4, QuietInOrder
<1>5. ASSUME NEW c \in DOMAIN credentials, CredentialExpires(c) PROVE Orderly'
  BY <1>4, <1>5 DEF CredentialExpires, Untouched
<1>6. TimePasses \/ UNCHANGED vars => Orderly'
  BY <1>4 DEF TimePasses, vars, tables
<1>7. ASSUME NEW w \in Workers, MarkFails(w) PROVE Orderly'
  <2>1. /\ UNCHANGED fleet /\ disturbed \subseteq disturbed'
        /\ \A v \in Workers : request'[v] = request[v] \/ request'[v].op = "settle"
    BY <1>7, MarksFail DEF MarkFails, tables
  <2>. QED
    BY <2>1, QuietInOrder
<1>. QED
  BY <1>2, <1>3, <1>5, <1>6, <1>7, BeginsInOrder, TurnsInOrder, StationInOrder, ExpiryInOrder,
     SessionInOrder DEF StepKind

LEMMA OrderlyInit == Init => Orderly
<1> SUFFICES ASSUME Init PROVE Orderly
  OBVIOUS
<1>1. PICK f \in Fleets : /\ stations = f.stations /\ devices = f.devices
                          /\ payments = f.payments
  BY DEF Init
<1>2. /\ sessions = {} /\ checkouts = <<>> /\ \A w \in Workers : request[w] = Idle
  BY DEF Init
<1>3. \A d \in Devices :
         devices[d] # None /\ stations[devices[d].station] = "decommissioned"
         => devices[d].lifecycle = "decommissioned"
  BY <1>1, InitialFleets
<1>4. \A i \in DOMAIN payments : /\ devices[payments[i].device] # None
                                 /\ devices[payments[i].device].lifecycle # "decommissioned"
  BY <1>1, InitialFleets
<1>5. AllStand
  BY <1>2 DEF AllStand, Stands, Idle
<1>6. NoneUnderway
  BY <1>2, <1>4 DEF NoneUnderway, Underway, IsLive, Exists
<1>7. ClosedStationsHaveNoLiveDevice
  BY <1>3 DEF ClosedStationsHaveNoLiveDevice, LiveDevicesAt, IsLive, Exists
<1>8. RetiredDevicesHoldNoSession
  BY <1>2 DEF RetiredDevicesHoldNoSession
<1>. QED
  BY <1>5, <1>6, <1>7, <1>8 DEF Orderly

LEMMA OrderlyAlways == Spec => [](Sound /\ Orderly)
<1>1. Init => Sound /\ Orderly
  BY SoundInit, OrderlyInit
<1>2. Sound /\ Orderly /\ [Next]_vars => (Sound /\ Orderly)'
  BY Kinds, SoundStep, StaysOrderly
<1>. QED
  BY <1>1, <1>2, PTL DEF Spec

\* With any number of stations, devices and requests, no live device stands at a
\* decommissioned station that no two requests raced for.
THEOREM ClosedStationsAreEmpty == Spec => []ClosedStationsHaveNoLiveDevice
BY OrderlyAlways, PTL DEF Orderly

\* With any number of customers, a decommissioned device holds no session unless a
\* customer was overtaken or requests about the device raced.
THEOREM RetiredDevicesAreFree == Spec => []RetiredDevicesHoldNoSession
BY OrderlyAlways, PTL DEF Orderly

-------------------------------------------------------------------------------
(* What a step may not do *)

LEMMA StationsRest ==
    ASSUME Sound, StepKind
    PROVE  \/ UNCHANGED stations
           \/ \E w \in Workers : Turn(w)
           \/ \A s \in Stations : stations[s] # None => stations'[s] = stations[s]
<1>1. ASSUME NEW w \in Workers, Begins(w) PROVE UNCHANGED stations
  BY <1>1 DEF Begins, tables, fleet, Delivered
<1>2. ASSUME NEW w \in Workers, MarkFails(w) \/ RequestDies(w) PROVE UNCHANGED stations
  BY <1>2 DEF MarkFails, RequestDies, tables, fleet
<1>3. ASSUME NEW w \in Workers, NEW s \in Stations, NEW next \in StationTargets,
             CreateStation(w, s, next)
      PROVE  \A t \in Stations : stations[t] # None => stations'[t] = stations[t]
  BY <1>3 DEF CreateStation, Sound, Rows, Fielded
<1>4. ASSUME NEW c \in DOMAIN checkouts, CheckoutExpires(c) PROVE UNCHANGED stations
  BY <1>4 DEF CheckoutExpires, Elsewhere
<1>5. ASSUME NEW i \in DOMAIN payments, NEW l \in Lockers, EnsureSession(i, l)
      PROVE  UNCHANGED stations
  BY <1>5 DEF EnsureSession, Elsewhere
<1>6. ASSUME NEW c \in DOMAIN credentials, CredentialExpires(c) PROVE UNCHANGED stations
  BY <1>6 DEF CredentialExpires, Untouched, fleet
<1>7. TimePasses \/ ServerRestarts \/ UNCHANGED vars => UNCHANGED stations
  BY DEF TimePasses, ServerRestarts, vars, tables, fleet
<1>. QED
  BY <1>1, <1>2, <1>3, <1>4, <1>5, <1>6, <1>7 DEF StepKind

\* With any number of stations, devices and requests, a decommissioned station or
\* device comes back only where two requests raced for it.
THEOREM DecommissioningIsFinal == Spec => DecommissionIsFinal
<1>1. Sound /\ Orderly /\ [Next]_vars
      => [ /\ \A s \in Stations :
                 stations[s] = "decommissioned" /\ stations'[s] # "decommissioned"
                 => s \in disturbed
           /\ \A d \in Devices :
                 Exists(d) /\ ~IsLive(d) /\ IsLive(d)' => d \in disturbed ]_vars
  <2> SUFFICES ASSUME Sound, Orderly, StepKind
               PROVE  /\ \A s \in Stations :
                            stations[s] = "decommissioned" /\ stations'[s] # "decommissioned"
                            => s \in disturbed
                      /\ \A d \in Devices :
                            Exists(d) /\ ~IsLive(d) /\ IsLive(d)' => d \in disturbed
    BY Kinds
  <2>1. \A w \in Workers : Stands(request[w])
    BY DEF Orderly, AllStand
  <2>2. ASSUME NEW s \in Stations,
               stations[s] = "decommissioned", stations'[s] # "decommissioned"
        PROVE  s \in disturbed
    <3>1. stations[s] # None
      BY <2>2, FleetInputs DEF StationStatus
    <3>2. PICK w \in Workers : Turn(w)
      BY <2>2, <3>1, StationsRest
    <3>3. /\ request[w].op = "station_status" /\ request[w].station = s
          /\ request[w].next # "decommissioned"
      BY <2>2, <3>2, TurnsRestate DEF Restates
    <3>. QED
      BY <2>1, <2>2, <3>3 DEF Stands
  <2>3. ASSUME NEW d \in Devices, Exists(d), ~IsLive(d), IsLive(d)' PROVE d \in disturbed
    <3>1. PICK w \in Workers : Turn(w)
      BY <2>3, DevicesRest DEF IsLive, Exists
    <3>. QED
      BY <2>1, <2>3, <3>1, TurnsRespect DEF Respects
  <2>. QED
    BY <2>2, <2>3
<1>. QED
  BY <1>1, OrderlyAlways, PTL DEF Spec, DecommissionIsFinal

ChannelStays(l) == HasPort(l) => ports'[l].channel = ports[l].channel

\* Only a request for it changes a channel.
LEMMA ChannelTurns ==
    ASSUME Sound, NEW w \in Workers, Turn(w), NEW l \in Lockers
    PROVE  ChannelStays(l) \/ (request[w].op = "channel" /\ request[w].locker = l)
<1>1. PICK r : r = request[w]
  OBVIOUS
<1>2. UNCHANGED ports => ChannelStays(l)
  BY DEF ChannelStays
<1>3. CASE CreatePort(w)
  BY <1>1, <1>3 DEF CreatePort, ChannelStays, HasPort, Sound, Rows, Fielded
<1>4. CASE SetChannel(w)
  <2>1. /\ r.op = "channel"
        /\ ports' \in {ports, [ports EXCEPT ![r.locker].channel = r.channel]}
    BY <1>1, <1>4 DEF SetChannel
  <2>. QED
    BY <1>1, <2>1 DEF ChannelStays, Sound, Rows, Fielded
<1>5. CASE SetPortStatus(w)
  <2>1. /\ ports' = [ports EXCEPT ![r.locker].status = r.next]
        /\ r.locker \in Lockers /\ HasPort(r.locker)
    BY <1>1, <1>5 DEF SetPortStatus, Sound, RequestsFit, Fits
  <2>2. ports[r.locker] \in PortRow
    BY <2>1 DEF Sound, Rows, Fielded, HasPort
  <2>3. ports'[r.locker] = [ports[r.locker] EXCEPT !.status = r.next]
    BY <2>1 DEF Sound, Rows, Fielded
  <2>4. ports'[r.locker].channel = ports[r.locker].channel
    BY <2>2, <2>3 DEF PortRow
  <2>. QED
    BY <2>1, <2>4 DEF ChannelStays, Sound, Rows, Fielded
<1>6. CASE PortReport(w)
  <2>1. PICK c : c = Said(w)
    OBVIOUS
  <2>2. CASE /\ Found(w, ports)
             /\ MaySay(c.status, PortStatus) /\ MaySay(c.power, PowerState)
             /\ ports' = [ports EXCEPT ![c.locker] = PortData(@, c)]
    <3>1. CASE l = c.locker /\ HasPort(l)
      <4>1. ports[l] \in PortRow
        BY <3>1 DEF Sound, Rows, Fielded, HasPort
      <4>2. ports'[l] = PortData(ports[l], c)
        BY <2>2, <3>1 DEF Sound, Rows, Fielded
      <4>3. ports'[l].channel = ports[l].channel
        BY <2>2, <4>1, <4>2, SaysPort
      <4>. QED
        BY <4>3 DEF ChannelStays
    <3>2. CASE l # c.locker
      BY <2>2, <3>2 DEF ChannelStays, Sound, Rows, Fielded
    <3>. QED
      BY <3>1, <3>2 DEF ChannelStays
  <2>. QED
    BY <1>2, <1>6, <2>1, <2>2 DEF PortReport
<1>7. CASE AdministrationSteps(w)
  BY <1>2, <1>3, <1>4, <1>5, <1>7
     DEF AdministrationSteps, SetStationStatus, CreateDevice, MoveDevice, SetLifecycle,
         CreateLocker, SetAvailability
<1>8. CASE ReportSteps(w)
  BY <1>2, <1>6, <1>8
     DEF ReportSteps, Ingest, Unhandled, HeartbeatRead, Heartbeat, Telemetry, LockerReport,
         Mark, tables, fleet
<1>9. CASE CredentialSteps(w) \/ NonceSteps(w) \/ CustomerSteps(w)
  BY <1>2, <1>9, NonceKeeps
     DEF CredentialSteps, CreateCredential, Rotate, Revoke, Untouched, fleet, CustomerSteps,
         IssueCheckout, CreatePayment, Elsewhere
<1>. QED
  BY <1>7, <1>8, <1>9 DEF Turn

LEMMA PortsRest ==
    ASSUME StepKind PROVE UNCHANGED ports \/ \E w \in Workers : Turn(w)
<1>1. ASSUME NEW w \in Workers, Begins(w) PROVE UNCHANGED ports
  BY <1>1 DEF Begins, tables, fleet, Delivered
<1>2. ASSUME NEW w \in Workers, MarkFails(w) \/ RequestDies(w) PROVE UNCHANGED ports
  BY <1>2 DEF MarkFails, RequestDies, tables, fleet
<1>3. ASSUME NEW w \in Workers, NEW s \in Stations, NEW next \in StationTargets,
             CreateStation(w, s, next)
      PROVE  UNCHANGED ports
  BY <1>3 DEF CreateStation
<1>4. ASSUME NEW c \in DOMAIN checkouts, CheckoutExpires(c) PROVE UNCHANGED ports
  BY <1>4 DEF CheckoutExpires, Elsewhere
<1>5. ASSUME NEW i \in DOMAIN payments, NEW l \in Lockers, EnsureSession(i, l)
      PROVE  UNCHANGED ports
  BY <1>5 DEF EnsureSession, Elsewhere
<1>6. ASSUME NEW c \in DOMAIN credentials, CredentialExpires(c) PROVE UNCHANGED ports
  BY <1>6 DEF CredentialExpires, Untouched, fleet
<1>7. TimePasses \/ ServerRestarts \/ UNCHANGED vars => UNCHANGED ports
  BY DEF TimePasses, ServerRestarts, vars, tables, fleet
<1>. QED
  BY <1>1, <1>2, <1>3, <1>4, <1>5, <1>6, <1>7 DEF StepKind

\* With any number of ports, sessions and requests, a port changes its channel only
\* at rest and out of service, unless requests raced for it or its device.
THEOREM ChannelsAreSetAtRest == Spec => ChannelsChangeAtRest
<1>1. Sound /\ Orderly /\ [Next]_vars
      => [ \A l \in Lockers :
             /\ HasPort(l) /\ ports[l].channel # ports'[l].channel
             /\ {l, DeviceOf[l]} \intersect disturbed = {}
             => AtRest(l) /\ Reconfigurable(DeviceOf[l]) ]_vars
  <2> SUFFICES ASSUME Sound, Orderly, StepKind, NEW l \in Lockers, ~ChannelStays(l),
                      {l, DeviceOf[l]} \intersect disturbed = {}
               PROVE  AtRest(l) /\ Reconfigurable(DeviceOf[l])
    BY Kinds DEF ChannelStays
  <2>1. PICK w \in Workers : Turn(w)
    BY PortsRest DEF ChannelStays
  <2>2. request[w].op = "channel" /\ request[w].locker = l
    BY <2>1, ChannelTurns
  <2>3. Stands(request[w])
    BY DEF Orderly, AllStand
  <2>. QED
    BY <2>2, <2>3 DEF Stands
<1>. QED
  BY <1>1, OrderlyAlways, PTL DEF Spec, ChannelsChangeAtRest

================================================================================
