SPECIFICATION MCSpec
CONSTANTS
  Resolvers = {h1, h2}
  Requests = {u1, u2}
  MaxGrants = 2
  MaxRows = 2
  Callers = {c1, c2}
  Keys <- SomeKeys
  Slots = {1, 2, 3, 4}
  PerDay = 2
  MaxTries = 2
  MaxEvents = 2
  MaxCalls = 2
  MaxLosses = 2
CONSTRAINT OneAtATime
CHECK_DEADLOCK FALSE
SYMMETRY Interchangeable
INVARIANTS
  TypeOK
  RowIsCurrent
  RenewalKept
  ResultTellsEffect
  RepeatNeedsFault
  DoubleBookingNeedsRace
  ClashIsWithAnother
  SuggestionIsEarliest
