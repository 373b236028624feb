CONSTANTS
    Devs = {d1}
    Detector = detector
    Clients = {c1}
    MaxNotify = 1
    SpawnMayFail = TRUE
    SigpipeKills = TRUE
SPECIFICATION FairSpec
\* The daemon may be corrupted or killed: then nothing is defined any more.
CHECK_DEADLOCK FALSE
PROPERTIES
    TeardownEnds
    RemovalFollows
    RemovedLeavesList
    ImplementsSwitch
