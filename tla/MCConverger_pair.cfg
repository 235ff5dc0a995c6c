SPECIFICATION Spec
CONSTANTS
  Place <- SquarePlace
  Origin <- SquareOrigin
  LevelEnd <- CrossLevels
  Coarse <- None
  Coefficient = {1, 2}
  EndsAt <- EndsTogether
  LastGrid = 1
  Demod <- SquareDemod
  BootPlaces <- SquareBoot
  Value <- SquareValue
  Largish = 9
  Target <- Strict
  Peers = {p1, p2}
  KeyMod = 64
  StaleLimit = 16
  JoinKeys = {1, 2, 3, 4, 5, 6, 7, 8, 9, 10, 11, 12}
  Window = 0
  SlowWrites = FALSE
  Faults = {"leave"}
  MaxFaults = 1
  LongTimers = {"rollback"}
  NoImage = NoImage
  NoReport = NoReport
SYMMETRY Symmetry
INVARIANTS OwesItsShare IdleMeansRedistribution
PROPERTY Implements
CHECK_DEADLOCK FALSE
