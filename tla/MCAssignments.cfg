\* One agent without the project, two steps, an agent generated for each.
SPECIFICATION FairSpec
CONSTANTS
    x = x
    g1 = g1
    g2 = g2
    Servers = {a}
    Agents = {x, g1, g2}
    N = 2
    Generated <- TwoGenerated
    Fits <- Overlapping
    Capacity <- OneEach
    NoAgent = NoAgent
    MaxFaults = 2
    MaxOverrides = 2
    MaxMoves = 1
INVARIANTS TypeOK AssignedIsComplete
PROPERTIES GrantsOutliveCommit AssignmentContinues
\* An assigned task needs no more work here.
CHECK_DEADLOCK FALSE
