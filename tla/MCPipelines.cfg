\* Two runs of one project share its main branch and its artifact.
SPECIFICATION Spec
CONSTANTS
    Servers = {a}
    Runs = {r1, r2}
    Kinds = {"build", "release"}
    Reversible = {"build", "release"}
    MaxAttempts <- BuildTwice
    Old = old
    MaxMerges = 1
    MaxCrashes = 1
    MaxUnsaved = 1
    MaxUnread = 0
SYMMETRY Symmetry
INVARIANTS LaunchIsGuarded
PROPERTIES RolledBackIsRestored
\* When every run has ended and main is merged out nothing need happen.
CHECK_DEADLOCK FALSE
