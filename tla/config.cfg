SPECIFICATION FairSpec
CONSTANTS
    Servers = {s1, s2}
    Settings = {usual, other}
    DefaultSettings = usual
    Ports = {p1, p2}
    NoPort = NoPort
    Empty = Empty
    Crashes = TRUE
INVARIANTS TypeOK
PROPERTIES ImplementsRegister HandOver PortComesFree
