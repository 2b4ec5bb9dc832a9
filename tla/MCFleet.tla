-------------------------------- MODULE MCFleet ---------------------------------
(* One device in service with two lockers, a second one that is pending or not  *)
(* there yet, and two stations of which one may be closed.                      *)
EXTENDS Fleet, TLC

Device(s, lifecycle) == [station |-> s, lifecycle |-> lifecycle, online |-> FALSE]
Locker == [availability |-> "available", door |-> "unknown", lock |-> "unknown"]
Port(channel) == [status |-> "available", power |-> "off", channel |-> channel]
Paid == [device |-> "d1", checkout |-> 0, key |-> "k1", served |-> FALSE]
Key(type) == Credential("d1", type, 0)

Field(st2, dev1, dev2, places, keys, paid, what) ==
    [stations |-> [s \in Stations |-> IF s = "st1" THEN "active" ELSE st2],
     devices  |-> [d \in Devices |-> IF d = "d1" THEN dev1 ELSE dev2],
     lockers  |-> [l \in Lockers |-> IF l \in places THEN Locker ELSE None],
     ports    |-> [l \in Lockers |-> IF l \in places THEN Port("ch1") ELSE None],
     credentials |-> keys,
     payments |-> paid,
     stores   |-> IF "signed" \in what THEN {"memory", "redis"} ELSE {"memory"},
     asked    |-> what]

MCFleets ==
    {\* Stations are closed while devices come, move and go.
     Field("active", Device("st1", "disabled"), Device("st1", "pending"), {}, <<>>, <<>>,
           {"stations", "devices", "lifecycle"}),
     \* Customers arrive while their device and station are taken out of service.
     Field(None, Device("st1", "active"), None, {"l1"}, <<>>, <<>>,
           {"customers", "stations", "devices", "lifecycle"}),
     \* Lockers and ports are set up and reported on; a customer has paid before.
     Field("active", Device("st1", "maintenance"), None, {"l1"}, <<Key("api_key")>>,
           <<Paid>>, {"places", "lifecycle", "keyed"}),
     \* Reports, and what is retried of them.
     Field("active", Device("st1", "active"), Device("st2", "active"), {"l1"},
           <<Key("api_key"), Credential("d2", "api_key", 0)>>, <<>>, {"keyed"}),
     Field("active", Device("st1", "active"), None, {"l1"}, <<Key("api_key")>>, <<>>,
           {"keyed", "lifecycle", "clock"}),
     \* Credentials are rotated and revoked, and expire.
     Field("active", Device("st1", "active"), Device("st2", "disabled"), {"l1"},
           <<Key("hmac"), Key("api_key"), Credential("d2", "api_key", 0)>>, <<>>,
           {"credentials", "lifecycle", "clock"}),
     \* Requests are signed, and delivered again.
     Field("active", Device("st1", "active"), None, {"l1"}, <<Key("hmac")>>, <<>>,
           {"signed", "clock"})}

Hash(qr, status, expired) == [qr |-> qr, status |-> status, expired |-> expired]
MCQrSettings ==
    {[device |-> "d1", status |-> "active",
      hashes |-> {Hash("q1", "active", FALSE), Hash("q2", "rotated", FALSE)}]}

MCDeviceOf == [l \in {"l1", "l2"} |-> "d1"]
Says(external, sequence, kind, locker, door, lock, status, power) ==
    [external |-> external, sequence |-> sequence, kind |-> kind, locker |-> locker,
     door |-> door, lock |-> lock, status |-> status, power |-> power]
Opened == Says("e1", 1, "locker", "l1", "open", None, None, None)
MCSignable == {Opened}
MCContents ==
    {Opened,
     Says("e2", None, "locker", "l1", "closed", "unlocked", None, None),
     Says("e3", None, "port", "l1", None, None, "in_use", "on"),
     Says("e3", None, "port", "l1", None, None, "fault", "fault"),
     Says("e4", None, "heartbeat", None, None, None, None, None),
     Says("e5", None, "telemetry", None, None, None, None, None),
     Says("e6", 2, "locker", "l2", None, "ajar", None, None),
     Says("e7", 1, "system", None, None, None, None, None)}
MCSymmetry == Permutations(Workers)
================================================================================
