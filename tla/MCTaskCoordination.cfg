CONSTANTS
  Children = {a, d}
  Delegated = {d}
  Questions = {1}
  MaxRuns = 3
  MaxAmendments = 1
SPECIFICATION Spec
CHECK_DEADLOCK FALSE
INVARIANTS TypeOK SynthesisComplete ReplyUsed InstructionsHonoured
PROPERTIES WaitingParentResumes
