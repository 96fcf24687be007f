SPECIFICATION MediaSpec
CONSTANT BackendErrors = FALSE
INVARIANT MutedMeansDisconnected
CHECK_DEADLOCK FALSE
