CONSTANTS
    Devs = {d1, d2}
    Detector = detector
    Clients = {c1}
    MaxNotify = 2
    SpawnMayFail = FALSE
    SigpipeKills = FALSE
SYMMETRY Symmetry
SPECIFICATION Spec
INVARIANTS
    TypeOK
    DisabledMeansQuiet
    HandlesIntact
    NamedWhenShown
    AskedToExitOnce
    OneShot
PROPERTIES
    NoWaiterDropped
    AnnouncedInPairs
