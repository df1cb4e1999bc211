SPECIFICATION ScenarioSpec
CONSTANTS
  i1 = i1
  n1 = n1
  Inf = i1
  Tickets = {i1, n1}
  Class <- Classes
  OwnerOf <- Owners
  Limits = {1, 2}
  MaxCrashes = 1
  MaxAttempts = 2
  MaxMessages = 1
  Commands = {c1, c2}
  PageLimit = 1
CHECK_DEADLOCK FALSE
INVARIANTS
  StopHolds
  StreamComplete
  AttemptClosed
  CancelledCallerSettled
  PlacesAccounted
PROPERTIES
  InferenceSettles
