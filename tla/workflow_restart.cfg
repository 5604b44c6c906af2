SPECIFICATION Spec
CONSTANTS
  Runner = run
  Submitters = {a1, a2}
  MaxRetries = 0
  MaxPlans = 1
  MaxTokens = 2
  MaxSlot = 1
  MaxCrashes = 1
  OneAtATime = TRUE
  Timeouts = FALSE
  CacheExpires = TRUE
  Expires = TRUE
  Durable = TRUE
  Choices = {"approve", "reject"}
CHECK_DEADLOCK FALSE
SYMMETRY Interchangeable
INVARIANTS
  GatedOnlyIfApproved
  OneUndecidedToken
  FirstPauseKept
