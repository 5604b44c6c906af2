SPECIFICATION Spec
CONSTANTS
  Runner = run
  Submitters = {a1, a2}
  MaxRetries = 1
  MaxPlans = 3
  MaxTokens = 2
  MaxSlot = 1
  MaxCrashes = 0
  OneAtATime = TRUE
  Timeouts = FALSE
  CacheExpires = FALSE
  Expires = TRUE
  Durable = TRUE
  Choices = {"approve", "edit", "reject"}
CHECK_DEADLOCK FALSE
CONSTRAINT FailuresEarly
SYMMETRY Interchangeable
INVARIANTS
  TypeOK
  GatedOnlyIfApproved
  AnswerIsDelivered
  ReplayNeverRepeats
  SeenBeforeApproved
  ReplansBounded
  NoThreadLeft
  PendingIsResumable
PROPERTIES
  RefusalIsRespected
  KeepsTheGate
