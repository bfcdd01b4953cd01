\* Two servers plan, deliver and rework one task of one step at a time; what
\* an administrator moves and repairs counts among the faults.
SPECIFICATION FairSpec
CONSTANTS
    Planners = {p1, p2}
    Deliverers = {d1, d2}
    Size <- OneEach
    MaxAttempts = 2
    MaxVersion = 2
    MaxFaults = 2
    Moves <- ValidTransition
INVARIANTS TypeOK InitialPlanOnce AwaitingIsWhole
PROPERTIES ImplementsCycle TaskSettles
\* A completed task ends.
CHECK_DEADLOCK FALSE
