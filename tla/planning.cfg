SPECIFICATION Spec
CONSTANTS
  Runs = {r1, r2}
  Users = {"u1", "u2"}
  Texts = {"a", "b"}
  Past <- SomePast
  Servers = {"google", "finnhub"}
  Served <- SomeServed
  Retired <- SomeRetired
  Steps <- SomeSteps
  MaxSteps = 2
  Policy <- ThePolicy
  TrustedReads <- TheReads
  Send <- TheSend
  ExecutedWrites <- TheWrites
  Denied <- TheDenied
  Connected = {"google"}
  MinAfterGrade = 2
  TopN = 2
  ToolDocLimit = 4
  MaxEmails = 1
  MaxReindex = 1
CONSTRAINT OnePlans
SYMMETRY Interchangeable
CHECK_DEADLOCK FALSE
INVARIANTS
  TypeOK
  UnknownNeedsBlindPlan
  AskedUnlessMisnamed
  TaughtBySuccess
  HeldOnlyIfPointful
