\* One step whose lease is frozen, returned and granted again.
CONSTANTS
  Supervisors = {p1, p2}
  Steps = {s1}
  AgentOf <- OneAgent
  NoOne = NoOne
  GlobalLimit = 2
  AgentLimit = 2
  MaxContinuations = 1
  MaxVersion = 2
  MaxAttempts = 3
SPECIFICATION Spec
SYMMETRY Symmetry
INVARIANTS
  WorkerOwnsItsRun
PROPERTIES
  KeepsOwnership
\* The bounds stop the supervisors.
CHECK_DEADLOCK FALSE
