SPECIFICATION FairSpec
CONSTANTS
  Place <- LinePlace
  Origin = 0
  LevelEnd <- LineLevels
  Coarse <- None
  Coefficient = {1}
  EndsAt <- EndsTogether
  LastGrid = 1
  Demod <- LineDemod
  BootPlaces <- LineBootLast
  Value <- LineValue
  Largish = 9
  Target <- Strict
  Peers = {p1, p2}
  KeyMod = 64
  StaleLimit = 16
  JoinKeys = {1, 2, 3, 4, 5, 6, 7, 8, 9, 10, 11, 12}
  Window = 0
  SlowWrites = FALSE
  Faults = {"leave"}
  MaxFaults = 1
  LongTimers = {}
  NoImage = NoImage
  NoReport = NoReport
PROPERTY Converges
CHECK_DEADLOCK FALSE
