SPECIFICATION MCSpec
CONSTANTS
  Parts = {"course", "complexities", "coefficients", "keys"}
  Place <- SquarePlace
  Origin <- SquareOrigin
  LevelEnd <- StepsLevels
  Coarse <- None
  Coefficient = {1, 2}
  EndsAt <- EndsTogether
  LastGrid = 1
  Demod <- SquareDemod
  BootPlaces <- SquareBoot
  Value <- StepsValue
  Largish = 9
  Target <- Ratio
  NoImage = NoImage
  MaxRestarts = 1
  CacheSize = 4
  MaxVisited = 2
  MaxUniques = 1
  SizeMod = 64
  Grids <- SomeGrids
  MaxPeers = 2
  MaxSize = 5
INVARIANTS TypeOK VisitedWasEvaluated Coverage BestOfVisited
INVARIANTS Ordered NumbersWhatFits PeersFollow KeysArePlaces
PROPERTIES ShrinkOnlyAtOptimum RefinesSets RangesZoomIn
