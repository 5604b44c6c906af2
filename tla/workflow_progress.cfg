SPECIFICATION FairSpec
CONSTANTS
  Runner = run
  Submitters = {a1}
  MaxRetries = 1
  MaxPlans = 3
  MaxTokens = 2
  MaxSlot = 1
  MaxCrashes = 0
  OneAtATime = TRUE
  Timeouts = TRUE
  CacheExpires = FALSE
  Expires = FALSE
  Durable = TRUE
  Choices = {"approve", "reject"}
CHECK_DEADLOCK FALSE
PROPERTIES
  RunnerFinishes
  DecisionsFinish
