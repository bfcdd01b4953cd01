\* Two servers share the job of one merge request.
SPECIFICATION FairSpec
CONSTANTS
    Workers = {a, b}
    MRs = {1}
    Reports <- Contents
    ScanLimit = 1
    Threshold = 2
    MaxFaults = 3
INVARIANTS CompletedIsDecided
PROPERTIES NoneForgotten KeepsDecisions
\* Nothing ends: a worker scans forever.
CHECK_DEADLOCK FALSE
