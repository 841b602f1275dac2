\* One sender: its previous newest frame is accepted twice.
SPECIFICATION Spec
CONSTANTS
    TimeHalf = 4
    NumReplaySlots = 1
    Sender = {"a"}
    NoSender = "none"
    Frame <- OneSender
    MaxCounter = 5
    WindowBits = 2
    ResyncTime = 1
    MaxStep = 2
PROPERTIES AcceptedOnce
