SPECIFICATION Spec
CONSTANTS
  Place <- LongPlace
  Origin = 0
  LevelEnd <- LongLevels
  Coarse <- None
  Coefficient = {1}
  EndsAt <- EndsTogether
  LastGrid = 1
  Demod <- LongDemod
  BootPlaces <- LongBoot
  Value <- LongValue
  Largish = 9
  Target <- Strict
  Peers = {p1}
  KeyMod = 64
  StaleLimit = 16
  JoinKeys = {1, 2, 3, 4, 5, 6, 7, 8, 9, 10, 11, 12}
  Window = 1
  SlowWrites = TRUE
  Faults = {}
  MaxFaults = 0
  LongTimers = {"save", "rollback"}
  NoImage = NoImage
  NoReport = NoReport
INVARIANTS BestOfVisited
CHECK_DEADLOCK FALSE
