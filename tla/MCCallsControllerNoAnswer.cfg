SPECIFICATION Spec
CONSTANTS
  MaxCalls = 2
  MaxQueue = 2
  MaxToggles = 0
  Targets = {t1}
  Features = {"cfwdNoAnswer"}
  BackendErrors = FALSE
PROPERTY NoAnswerForwards
CHECK_DEADLOCK FALSE
