SPECIFICATION Spec
CONSTANTS
    Stations = {"st1", "st2"}
    Devices = {"d1", "d2"}
    Lockers = {"l1", "l2"}
    DeviceOf <- MCDeviceOf
    Channels = {"ch1", "ch2"}
    CredentialTypes = {"hmac", "api_key", "certificate"}
    QrTokens = {"q1", "q2"}
    QrSettings <- MCQrSettings
    IdempotencyKeys = {"k1", "k2"}
    Contents <- MCContents
    Signable <- MCSignable
    StationTargets = {"active", "decommissioned"}
    LifecycleTargets = {"active", "disabled", "decommissioned"}
    Workers = {w1, w2}
    Skew = 1
    MaxEvents = 3
    None = None
    Fleets <- MCFleets
INVARIANTS
    TypeOK
    ClosedStationsHaveNoLiveDevice
    RetiredDevicesHoldNoSession
    TakenAgainOnlyAfterItsNonce
    ReceivedReportsAreInHand
    DoorIsAsLastReported
PROPERTIES
    DecommissionIsFinal
    ChannelsChangeAtRest
    LastCredentialIsLostToARace
    OnlyTelemetryWakesARetiredDevice
SYMMETRY MCSymmetry
CHECK_DEADLOCK FALSE
