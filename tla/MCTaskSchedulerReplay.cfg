SPECIFICATION Spec
CONSTANTS
  Tasks = {t1}
  Procs = {p1, p2}
  Agents = {a1}
  a1 = a1
  t1 = t1
  AgentOf <- OneAgent
  MaxParallel = 1
  LeaseTicks = 1
  ActionLimit = 2
  NetworkLimit = 2
  MaxClaims = 2
CHECK_DEADLOCK FALSE
PROPERTY NoReplayOfAdmittedRun
