\* One server, one step in every plan, two rejections.
SPECIFICATION Spec
CONSTANTS
    Planners = {p1}
    Deliverers = {d1}
    Size <- OneEach
    MaxAttempts = 2
    MaxVersion = 3
    MaxFaults = 1
    Moves <- NoMoves
PROPERTIES ReworkKeepsHistory
\* A completed task ends.
CHECK_DEADLOCK FALSE
