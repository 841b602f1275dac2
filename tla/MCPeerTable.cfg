SPECIFICATION Spec
CONSTANTS
    TimeHalf = 3
    NumSlots = 2
    Uid = {a, b, c}
    NoUid = NoUid
    Radio = {espnow, lora}
    PeerTimeout = 1
    MaxStep = 2
    MayWrap = FALSE
SYMMETRY Symmetry
INVARIANTS
    CountsAreTrue
