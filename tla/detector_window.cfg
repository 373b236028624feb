CONSTANTS
    Nodes = {n1}
    QueueSize = 2
    MaxPlugs = 1
SPECIFICATION FairSpec
CHECK_DEADLOCK FALSE
PROPERTIES
    PluggedIsReported
