SPECIFICATION FairSpec
CONSTANTS
  Transfers <- TwoTransfers
  Files <- TwoFiles
  MaxHttpRetries = 1
  MaxDeletes = 1
  MaxCrashes = 1
INVARIANTS ReferencesBalance CacheIsAccountedFor
PROPERTIES SentAsWanted TransfersEnd
