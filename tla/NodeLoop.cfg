\* Two radios, with jitter; what varies is in Setup.
SPECIFICATION FairSpec
CONSTANTS
    TimeHalf = 5
    NumSlots = 2
    Uid = {"self", "a"}
    NoUid = "none"
    Radio = {0, 1}
    PeerTimeout = 2
    MinInterval = 2
    MaxInterval = 4
    LoadPct = 100
    JitterPct = 25
    DutyPct = 25
    Self = "self"
    TaskFed = {0}
    ReceiveOnly = {}
    RingUsable = 1
    Setup <- Setups
    MaxCounter = 2
    WindowBits = 1
    ResyncTime = 1
    Airtime <- Instant
    AnnounceEvery = 2
    ExpireEvery = 1
    RadarEvery = 1
    MaxLag = 2
    MaxAge = 8
    MaxQuiet = 1
INVARIANTS
    SilentPeersGo
PROPERTIES
    BeaconSpacing
    CountersFresh
    DropsJustified
    RadarShowsEveryPeer
    BeaconsResume
