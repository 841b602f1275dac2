SPECIFICATION MCSpec
CONSTANTS
  Part = {"passphrase", "radio", "wifi"}
  Radios = {"radio"}
  BootParts = {"passphrase", "wifi"}
  Checked = {"passphrase"}
  Configs <- AllSettings
  Defaults <- Plain
  Flashed <- Seeded
  Absent = Absent
  Unreadable = Unreadable
  MaxRequests = 3
  Uploaders = {1, 2}
  Chunks = 2
  MaxUploads = 3
  Bauds <- Speeds2
  Factory = 9
  Kinds = {"modern", "old", "none"}
  Silence = 2
  RxCap = 3
INVARIANTS
  SavedSurvives
  BannerShown
  FlashWhole
  PositionFresh
  ModuleFound
PROPERTIES
  FileKept
  LoopReleased
CHECK_DEADLOCK FALSE
