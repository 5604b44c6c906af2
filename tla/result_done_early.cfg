SPECIFICATION Spec
CONSTANTS
  MaxRetries = 0
  MaxCrashes = 0
  MaxFailures = 0
  MaxDecisions = 0
CHECK_DEADLOCK FALSE
INVARIANT DoneIsReliable
