SPECIFICATION MCSpec
CONSTANTS
  Parts = {"caches"}
  Models = {"gmnl_2"}
  XSize = 2
  DrawsSets <- SomeDraws
  Respondents = 3
  SleepEvery = 1
  Values <- MovingValues
  Limit <- Limits
  Largish = Largish
  Tasks <- SomeTasks
INVARIANT Transparent
