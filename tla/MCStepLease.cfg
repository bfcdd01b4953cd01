CONSTANTS
  Agents = {a1, a2}
  NoAgent = NoAgent
  TTL = 2
  Window = 1
  MaxVersion = 3
  MaxCheckpoint = 2
  MaxCommit = 2
SPECIFICATION Spec
SYMMETRY AgentSymmetry
INVARIANTS
  TypeOK
  SingleWriter
  LeaseTablesAgree
  MergeRequestsAgree
  WritesStayWithOwner
PROPERTIES
  EndedStaysEnded
  ImplementsOwnership
