CONSTANTS
  Children = {a, d}
  Delegated = {d}
  Questions = {1}
  MaxRuns = 1
  MaxAmendments = 0
SPECIFICATION Spec
CHECK_DEADLOCK FALSE
PROPERTIES ResultAccepted
