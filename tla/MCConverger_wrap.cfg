SPECIFICATION Spec
CONSTANTS
  Place <- SquarePlace
  Origin <- SquareOrigin
  LevelEnd <- CrossLevels
  Coarse <- None
  Coefficient = {1, 2}
  EndsAt <- EndsTogether
  LastGrid = 1
  Demod <- SquareDemod
  BootPlaces <- SquareBoot
  Value <- SquareValue
  Largish = 9
  Target <- Strict
  Peers = {p1, p2}
  KeyMod = 3
  StaleLimit = 2
  JoinKeys = {1, 2}
  Window = 0
  SlowWrites = TRUE
  Faults = {}
  MaxFaults = 0
  LongTimers = {}
  NoImage = NoImage
  NoReport = NoReport
SYMMETRY Symmetry
INVARIANTS KeyAgreement RecentreIsNews VisitedWasEvaluated
CHECK_DEADLOCK FALSE
