\* A worker and an administrator; the second step depends on the first.  One
\* thing fails, and one provisioning is late.
SPECIFICATION FairSpec
CONSTANTS
    Runners = {w}
    NoRunner = NoRunner
    N = 2
    Needs <- Chain
    MaxFaults = 1
    MaxOrders = 1
    MaxLate = 1
    MaxLeases = 2
INVARIANTS TypeOK LeasedIsSynced
PROPERTIES  WorkspacesSettle
\* A delivered task needs no more work here.
CHECK_DEADLOCK FALSE
