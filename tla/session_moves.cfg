CONSTANTS
    Hosts = {h1, h2}
    DefaultHost = h1
    Names = {monome}
    DefaultName = monome
    PortArgs = {8000, 123456}
    RotationArgs = {}
    CableArgs = {}
    NoPort = NoPort
    None = None
    MaxRegistrations = 1
SPECIFICATION FairSpec
INVARIANTS
    FormerDestinationKnows
PROPERTIES
    SettingsSurvive
    ExitObeyed
    UnpluggedLeaves
