--------------------------- MODULE MCAssignments ---------------------------
EXTENDS Assignments

CONSTANTS x, g1, g2

\* The agent generated for the second step has the capabilities of the first.
TwoGenerated == <<g1, g2>>
Overlapping  == <<{x, g1, g2}, {x, g2}>>
OneEach      == [a \in Agents |-> 1]
=============================================================================
