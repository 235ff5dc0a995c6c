SPECIFICATION Spec
CONSTANTS
  p1 = p1
  p2 = p2
  Model = {"m"}
  Peer = {p1}
  IdSpace = 4
  Margin = 2
  Steps <- TwoSteps
  CrashPoints = {"complete"}
  MaxCrashes = 1
PROPERTY TasksAreKept
