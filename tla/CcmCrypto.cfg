\* Two replay slots for three senders, one of them heard with every counter.
SPECIFICATION Spec
CONSTANTS
    TimeHalf = 4
    NumReplaySlots = 2
    Sender = {"a", "b", "c"}
    NoSender = "none"
    Frame <- ThreeSenders
    MaxCounter = 3
    WindowBits = 2
    ResyncTime = 1
    MaxStep = 2
PROPERTIES
    NoRepeatInsideWindow
    RejectionsJustified
