SPECIFICATION FairSpec
CONSTANTS
  MaxCalls = 2
  MaxAccounts = 2
  MaxWatches = 1
  MaxQueue = 1
  MaxListeners = 1
  MaxStops = 1
INVARIANTS KnownCallsLive OwnersOutliveObjects PostersQuiesced
PROPERTIES QuietAfterStop ReleaseKeepsWrapper TeardownCompletes ImplementsContract
CHECK_DEADLOCK FALSE
