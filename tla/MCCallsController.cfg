SPECIFICATION Spec
CONSTANTS
  MaxCalls = 2
  MaxQueue = 2
  MaxToggles = 1
  Targets = {t1}
  Features = {"dnd", "cfwdAlways", "cfwdBusy", "autoAnswer", "cfwdNoAnswer"}
  BackendErrors = TRUE
INVARIANTS HistoryComplete NoDuplicateOutbound SessionsMatchCalls RingingSettles PromptsAreCurrent AnsweredNotForwarded
CHECK_DEADLOCK FALSE
