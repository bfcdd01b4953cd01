\* Two supervisors compete for one slot and two steps of one agent.
CONSTANTS
  Supervisors = {p1, p2}
  Steps = {s1, s2}
  AgentOf <- OneAgent
  NoOne = NoOne
  GlobalLimit = 1
  AgentLimit = 1
  MaxContinuations = 1
  MaxVersion = 1
  MaxAttempts = 3
SPECIFICATION Spec
SYMMETRY Symmetry
INVARIANTS
  TypeOK
  StartsAreBounded
  WorkersWithinLimits
\* The bounds stop the supervisors.
CHECK_DEADLOCK FALSE
