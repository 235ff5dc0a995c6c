SPECIFICATION Spec
CONSTANTS
  Place <- LinePlace
  Origin = 0
  LevelEnd <- LineLevels
  Coarse <- None
  Coefficient = {1}
  EndsAt <- EndsTogether
  LastGrid = 1
  Demod <- LineDemod
  BootPlaces <- LineBoot
  Value <- LineValue
  Largish = 9
  Target <- Strict
  Peers = {p1}
  KeyMod = 64
  StaleLimit = 16
  JoinKeys = {1, 2, 3, 4, 5, 6, 7, 8, 9, 10, 11, 12}
  Window = 1
  SlowWrites = FALSE
  Faults = {"crash"}
  MaxFaults = 1
  LongTimers = {"save", "rollback"}
  NoImage = NoImage
  NoReport = NoReport
INVARIANTS Resumable
CHECK_DEADLOCK FALSE
