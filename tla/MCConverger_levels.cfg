SPECIFICATION Spec
CONSTANTS
  Place <- SquarePlace
  Origin <- SquareOrigin
  LevelEnd <- SquareLevels
  Coarse <- None
  Coefficient = {1, 2}
  EndsAt <- EndsInTurn
  LastGrid = 2
  Demod <- SquareDemod
  BootPlaces <- SquareBoot
  Value <- SquareValue
  Largish = 9
  Target <- Strict
  Peers = {p1}
  KeyMod = 64
  StaleLimit = 16
  JoinKeys = {1, 2, 3, 4, 5, 6, 7, 8, 9, 10, 11, 12}
  Window = 1
  SlowWrites = FALSE
  Faults = {"leave", "crash", "deactivate"}
  MaxFaults = 2
  LongTimers = {"save", "rollback"}
  NoImage = NoImage
  NoReport = NoReport
INVARIANTS LocatesFromScratch
PROPERTY Implements
CHECK_DEADLOCK FALSE
