\* A listen-only node hears a peer, and drops it at once.
SPECIFICATION Spec
CONSTANTS
    TimeHalf = 5
    NumSlots = 1
    Uid = {"self", "a"}
    NoUid = "none"
    Radio = {0, 1}
    PeerTimeout = 2
    MinInterval = 2
    MaxInterval = 4
    LoadPct = 100
    JitterPct = 0
    DutyPct = 0
    Self = "self"
    TaskFed = {0}
    ReceiveOnly = {}
    Setup <- JustHearing
    RingUsable = 1
    MaxCounter = 0
    WindowBits = 1
    ResyncTime = 1
    Airtime <- Instant
    AnnounceEvery = 2
    ExpireEvery = 1
    RadarEvery = 1
    MaxLag = 1
    MaxAge = 7
    MaxQuiet = 1
PROPERTIES
    JustHeardKept
