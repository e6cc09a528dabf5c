SPECIFICATION FairSpec
CONSTANTS
  Calls <- TwoCalls
  Tokens <- OneToken
  NoToken = "none"
  Account = "account"
  MaxRetries = 1
  MaxRefusals = 1
  MaxRevocations = 1
  MaxCrashes = 1
INVARIANTS CallsInv OneAuthentication TokenIsSought
PROPERTIES EveryCallEnds
