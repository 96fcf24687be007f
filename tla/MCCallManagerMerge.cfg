SPECIFICATION Spec
CONSTANTS
  Accounts = {a1}
  MaxCalls = 2
  MaxAccountIds = 1
  MaxEvents = 2
  MaxTransfers = 0
  MaxMerges = 1
  MaxRetryTimers = 1
  UnholdRetries = 1
  PromoteRetries = 1
  BridgeRetries = 1
  BackendErrors = FALSE
  PromptPeer = TRUE
PROPERTIES MergeBridges
CHECK_DEADLOCK FALSE
