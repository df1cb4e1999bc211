CONSTANTS
  Messages = {m1}
  Workers = {w1}
  Commands = {}
  MaxFailures = 2
  MaxRounds = 1
  MaxAttempts = 1
SPECIFICATION Spec
CHECK_DEADLOCK FALSE
INVARIANTS NoFallbackAfterAnswer
