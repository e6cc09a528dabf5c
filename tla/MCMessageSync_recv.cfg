SPECIFICATION Spec
CONSTANTS
  MaxMsg = 3
  PageSize = 1
  FirstTime = 2
  Dirs <- FromOthers
  MaxCrashes = 1
  MaxRetries = 0
  ApiErrors = TRUE
  FloodControl = TRUE
INVARIANTS AtMostOnce LossIsAccountedFor
PROPERTIES ImplementsMailbox
