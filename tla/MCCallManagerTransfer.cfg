SPECIFICATION Spec
CONSTANTS
  Accounts = {a1}
  MaxCalls = 2
  MaxAccountIds = 1
  MaxEvents = 2
  MaxTransfers = 1
  MaxMerges = 0
  MaxRetryTimers = 0
  UnholdRetries = 1
  PromoteRetries = 1
  BridgeRetries = 1
  BackendErrors = TRUE
  PromptPeer = FALSE
INVARIANTS PendingTransfersLive
PROPERTIES NotifyHangsUpTheTransfer
CHECK_DEADLOCK FALSE
