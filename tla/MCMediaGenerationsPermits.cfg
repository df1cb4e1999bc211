CONSTANTS
  Ops = {o1, o2}
  RuntimeOps = {o2}
  Callers = {c1, c2}
  Users = {u1, u2}
  AgentQuota = 1
  MaxChanges = 1
SPECIFICATION OneSpec
CHECK_DEADLOCK FALSE
SYMMETRY Symmetry
ACTION_CONSTRAINT NoWaking
INVARIANTS SingleUse AgreedFirst RefusalFinal OneFile PermitTellsOutcome
