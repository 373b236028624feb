CONSTANTS
    n1 = n1
    n2 = n2
    other = other
    Nodes = {n1, n2, other}
    Usb = {n1, n2}
    NodeLength <- EvenLengths
    Garbage = Garbage
    MaxPlugs = 2
SPECIFICATION MCSpec
\* Monomes need not be plugged for ever.
CHECK_DEADLOCK FALSE
INVARIANTS
    MacNoSurplusReport
    WindowsSurplusIsEarly
PROPERTIES
    MacPluggedIsReported
    WindowsPluggedIsReported
