SPECIFICATION FairSpec
CONSTANTS
  MaxMsg = 2
  PageSize = 1
  FirstTime = 2
  Dirs <- AllDirs
  MaxCrashes = 0
  MaxRetries = 1
  ApiErrors = TRUE
  FloodControl = TRUE
INVARIANTS EchoIsAccountedFor
PROPERTIES CatchUpEnds EveryMessageSettles
