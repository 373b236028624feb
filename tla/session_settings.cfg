CONSTANTS
    Hosts = {h1}
    DefaultHost = h1
    Names = {monome, other}
    DefaultName = monome
    PortArgs = {0}
    RotationArgs <- MCRotationArgs
    CableArgs = {3}
    NoPort = NoPort
    None = None
    MaxRegistrations = 3
SPECIFICATION Spec
INVARIANTS
    TypeOK
    MethodsFollowPrefix
    DestinationUpToDate
PROPERTIES
    SettingsSurvive
