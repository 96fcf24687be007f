SPECIFICATION FairSpec
CONSTANTS
  Accounts = {a1}
  MaxCalls = 2
  MaxAccountIds = 1
  MaxEvents = 1
  MaxTransfers = 0
  MaxMerges = 0
  MaxRetryTimers = 1
  UnholdRetries = 1
  PromoteRetries = 1
  BridgeRetries = 1
  BackendErrors = FALSE
  PromptPeer = TRUE
PROPERTIES EndedCallsLeave UnholdResolves
CHECK_DEADLOCK FALSE
