CONSTANTS
    Nodes = {n1, n2}
    QueueSize = 3
    MaxPlugs = 2
SPECIFICATION FairSpec
\* Monomes need not be plugged for ever.
CHECK_DEADLOCK FALSE
INVARIANTS
    SurplusIsLate
PROPERTIES
    SeenIsReported
