CONSTANTS
  Ops = {o1, o2}
  RuntimeOps = {o2}
  Callers = {c1}
  Users = {u1, u2}
  AgentQuota = 1
  MaxChanges = 0
SPECIFICATION LiveSpec
CHECK_DEADLOCK FALSE
ACTION_CONSTRAINT Focus
INVARIANTS WithinQuota
PROPERTIES SuspensionEnds EndedIsSettled
