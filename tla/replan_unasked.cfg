SPECIFICATION Spec
CONSTANTS
  Runner = run
  Submitters = {a1}
  MaxRetries = 1
  MaxPlans = 2
  MaxTokens = 1
  MaxSlot = 1
  MaxCrashes = 0
  OneAtATime = TRUE
  Timeouts = FALSE
  CacheExpires = FALSE
  Expires = FALSE
  Durable = TRUE
  Choices = {"approve", "edit", "reject"}
CHECK_DEADLOCK FALSE
INVARIANT RequestCoversEveryPlan
