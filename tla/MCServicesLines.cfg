CONSTANTS
  MaxCalls = 2
  MaxAccounts = 1
  MaxWatches = 1
  MaxQueue = 2
  MaxEpoch = 2
  KeychainRefs = {"r1", "r2"}
  Secrets = {1, 2}
  Openers = {"p1", "p2"}
  LineAccounts = {1, 2}
  MaxLine = 2
  MaxWatch = 3
  Peers = {"alice", "bob"}
  kThreadLimit = 2
  MaxMessages = 4
  MaxInbox = 2
  Releases <- MCReleases
  Running = 2
  MaxFeed = 2
  MaxChecks = 1
  MaxSignIns = 3
  Identities = {"a", "b"}
  MaxNamed = 2
  MaxBoot = 3
  HeadlessCalls = 2
  MaxRetries = 1
SPECIFICATION MCSpec
INVARIANT LinesStayWatched
CHECK_DEADLOCK FALSE
