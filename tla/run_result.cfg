SPECIFICATION ConsoleSpec
CONSTANTS
  MaxRetries = 1
  MaxCrashes = 1
  MaxFailures = 1
  MaxDecisions = 2
  Posts = {1, 2, 3}
  Keys = {9}
  NoKey = 0
  PerMinute = 2
  RunCap = 2
  MaxWindows = 1
CONSTRAINT OneAtATime
CHECK_DEADLOCK FALSE
INVARIANTS
  TypeOK
  DoneLabelTells
  KeyRunsOnce
  LimitedIsBusy
  ReplyIsOfItsRun
PROPERTIES
  NotPendingForever
