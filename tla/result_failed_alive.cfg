SPECIFICATION Spec
CONSTANTS
  MaxRetries = 1
  MaxCrashes = 0
  MaxFailures = 0
  MaxDecisions = 1
CHECK_DEADLOCK FALSE
INVARIANT FailedMeansGone
