\* Two chips; a frame of one tick, a window of two, a watchdog of two.
SPECIFICATION FairSpec
CONSTANTS
    NumChips = 2
    Frame = {"f", "g"}
    Content = {"x", "y"}
    NoContent = "none"
    Airtime = 1
    Timeout = 2
    DupWindow = 2
    MaxLag = 1
    DropMod = 2
INVARIANTS
    WatchdogJustified
    EachFrameOnce
PROPERTIES
    ImplementsTransmitter
    FrameGoesOutWhole
    HeldFrameGoesOut
