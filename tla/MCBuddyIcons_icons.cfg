SPECIFICATION IconsFairSpec
CONSTANTS
  MaxFetches = 6
  MaxRunning = 2
  MaxRetries = 1
INVARIANTS QueueInv StaleEntriesRest
PROPERTIES FetchesProceed
