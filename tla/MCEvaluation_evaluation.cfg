SPECIFICATION MCSpec
CONSTANTS
  Parts = {"caches", "design", "layout"}
  Models <- AllModels
  XSize = 2
  DrawsSets <- SomeDraws
  Respondents = 3
  SleepEvery = 1
  Values <- MovingValues
  Limit <- Limits
  Largish = Largish
  Tasks <- SomeTasks
INVARIANTS OnlyTauIsStale DesignIsRead ArraysAreApart AcceptedFits
