\* A wrapped ring; two simulated peers and three changes; a log of three frames;
\* callbacks that may touch every timer, and stalls of the loop that outlast every period.
SPECIFICATION MCSpec
CONSTANTS
    Capacity = 4
    Item = {f1, f2, f3}
    NoItem = NoItem
    DropMod = 3
    SimUid = {1, 2}
    NoSimUid = 0
    MaxSimPeers = 2
    SimQueue = 4
    SimResync = 3
    SimTimeout = 2
    MaxUnits = 8
    MaxEdits = 3
    LogCapacity = 3
    ReplyMax = 2
    MaxLogged = 8
    MaxReboots = 1
    MaxCaught = 2
    TimeHalf = 5
    NumTimers = 2
    MaxDelay = 2
    MaxStall = 3
    MaxOps = 2
INVARIANTS
    NoDataRace
    SimPeersHeard
    GhostsFade
    FramesAccounted
    NothingOverdueAfterPoll
PROPERTIES
    ImplementsFifo
    OldestFrameDelivered
    NeverEarly
    PeriodicKeepsFiring
