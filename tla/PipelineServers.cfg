\* Two servers work on one run; one of them may crash.
SPECIFICATION FairSpec
CONSTANTS
    Servers = {a, b}
    Runs = {r1}
    Kinds = {"test", "build", "release"}
    Reversible = {"build", "release"}
    MaxAttempts <- Attempts
    Old = old
    MaxMerges = 0
    MaxCrashes = 1
    MaxUnsaved = 1
    MaxUnread = 1
INVARIANTS TypeOK ExecutionOwnsItsAttempt LaunchedReleaseCanBeUndone RunStatusHonest
PROPERTIES InterruptedReleaseNotRestarted RunningWorkSettles
\* When the run has ended and main is merged out nothing need happen.
CHECK_DEADLOCK FALSE
