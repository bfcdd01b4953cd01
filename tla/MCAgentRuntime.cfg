\* One agent: requests, heartbeats, scans and conversations write its status.
SPECIFICATION FairSpec
CONSTANTS
    MaxActs = 2
    MaxRestarts = 1
INVARIANTS ClosedIsQuiet
PROPERTIES StatusFollowsProvider
\* A closed server rests.
CHECK_DEADLOCK FALSE
