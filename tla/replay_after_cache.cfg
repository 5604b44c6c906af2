SPECIFICATION Spec
CONSTANTS
  Runner = run
  Submitters = {a1}
  MaxRetries = 0
  MaxPlans = 1
  MaxTokens = 1
  MaxSlot = 1
  MaxCrashes = 0
  OneAtATime = TRUE
  Timeouts = FALSE
  CacheExpires = TRUE
  Expires = FALSE
  Durable = TRUE
  Choices = {"approve", "edit", "reject"}
CHECK_DEADLOCK FALSE
INVARIANT ReplayNeverRepeats
