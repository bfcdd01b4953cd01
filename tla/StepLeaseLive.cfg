CONSTANTS
  Agents = {a1, a2}
  NoAgent = NoAgent
  TTL = 1
  Window = 1
  MaxVersion = 2
  MaxCheckpoint = 1
  MaxCommit = 1
SPECIFICATION FairSpec
PROPERTIES
  SilentWorkIsInterrupted
  ProjectLockIsReleased
