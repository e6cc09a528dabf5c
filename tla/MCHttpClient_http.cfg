SPECIFICATION FairSpec
CONSTANTS
    Requests <- TwoRequests
    Hosts <- TwoHosts
    None = None
    MaxRedirects = 1
    MaxCloses = 1
CHECK_DEADLOCK FALSE
INVARIANTS PoolInv RunsAreAccountedFor
PROPERTIES KeepsPromise RequestsEnd
