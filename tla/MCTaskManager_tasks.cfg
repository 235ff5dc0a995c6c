SPECIFICATION Spec
CONSTANTS
  p1 = p1
  p2 = p2
  Model = {"m"}
  Peer = {p1, p2}
  IdSpace = 4
  Margin = 2
  Steps <- TwoSteps
  CrashPoints = {"idle", "new", "delete", "pending", "purge", "move", "start"}
  MaxCrashes = 2
SYMMETRY Symmetry
INVARIANTS OnlyFrontIsActive NobodyWaits RestartKeepsTasks
PROPERTIES TasksAreKept IdsAreOwn
