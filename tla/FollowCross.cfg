\* The comment on axisSignLocked, without an exception.
SPECIFICATION MCSpec
CONSTANTS
    MinSep = 2
    MinVSep = 3
    Notches = 1
    Uid = {"a", "b"}
    NoUid = "none"
    Config <- Configs
    BootConfig <- ChaseHigh
    Timeout = 1
    Heartbeat = 2
    Layout <- Layouts
    Flight <- Flights
    IdentRetry = 2
    BoxIdsEvery = 3
    GpsEvery = 2
    FixStale = 2
    StatusStale = 1
    RcWanted = FALSE
    MaxLag = 1
PROPERTIES
    SlotNeverCrossesLeader
