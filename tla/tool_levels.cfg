SPECIFICATION FairSpec
CONSTANTS
  Ids = {a, b, c}
  Unknown = unknown
  MaxSteps = 3
INVARIANTS
  TypeOK
  CycleIffStuck
  DoneIsComplete
  OneLevelInFlight
PROPERTIES
  DependenciesFirst
  NodeEnds
CHECK_DEADLOCK FALSE
