CONSTANTS
    Nodes = {n1}
    QueueSize = 3
    MaxPlugs = 2
    Devs = {d1, d2, d3}
    DetectorProc = DetectorProc
    NoNode = NoNode
SPECIFICATION FairSpec
\* Nothing has to happen once everything is served.
CHECK_DEADLOCK FALSE
INVARIANTS
    SurplusServerIsLate
PROPERTIES
    EnabledServes
