SPECIFICATION MCSpec
CONSTANTS
  Parts = {"messages", "driver", "sessions", "loading", "update", "web"}
  Fields <- SomeFields
  Value = {1}
  MaxSize = 2
  MaxMessages = 2
  MaxCached = 8
  HeaderSize = 2
  BulkSizes = {3, 20}
  Sides = {1, 2}
  MaxUnderWay = 2
  Controllers = {1, 2}
  MaxTasks = 2
  MaxCrashes = 1
  MaxVersion = 3
  MaxReboots = 2
  Machines <- SomeMachines
  Missing = Missing
  Partial = Partial
  NoMessage = NoMessage
INVARIANTS RoundTrip BufferHolds OneWriteAtATime AliveIsKept AnswersFit ReportsAreOfTheTask DirectoriesAreAccountedFor UpdaterIsKept ProcessorsAreCurrent AnswersInTurn
PROPERTY Served
CHECK_DEADLOCK FALSE
