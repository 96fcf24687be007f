SPECIFICATION Spec
CONSTANTS
  Accounts = {a1}
  MaxCalls = 2
  MaxAccountIds = 2
  MaxEvents = 2
  MaxTransfers = 0
  MaxMerges = 1
  MaxRetryTimers = 1
  UnholdRetries = 1
  PromoteRetries = 1
  BridgeRetries = 1
  BackendErrors = TRUE
  PromptPeer = FALSE
INVARIANTS WrappersAccountedFor ActiveIsLive NoZombieRecord

CHECK_DEADLOCK FALSE
