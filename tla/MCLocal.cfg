CONSTANTS
  MaxId = 2
  MaxFaults = 1
  Codes = {"success"}
  BackendErrors = TRUE
  RingtoneFiles = {"a.wav", "b.wav"}
  MaxTests = 2
  HistoryAccounts = {"a1", "a2"}
  kMaxEntries = 2
  kMaxAge = 3
  MaxTime = 5
  MaxLogged = 4
  MaxContacts = 2
  MaxCardLines = 2
  MaxSections = 2
  MaxColumns = 2
SPECIFICATION LocalSpec
INVARIANTS
  MemoryMatchesDatabase SecretsKept CredentialsCurrent StateBelongsToBinding
  MicFollowsMute MediaObjectsAccountedFor RingtoneFollowsCalls HistoryKeepsNewest
  ContactsSound
CHECK_DEADLOCK FALSE
