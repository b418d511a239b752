SPECIFICATION Spec
CONSTANTS
    None = None
    Events = {"god_mode"}
    Known = {"god_mode"}
    Category <- MCCategory
    Leviathans = {}
    BaseSeconds <- MCBaseSeconds
    Scales = {8}
    GateSettings <- AllGates
    Sliders = {"s"}
    Leads = {1}
    Heartbeat = 1
    CheatsWork = {TRUE}
    WritesWork = {TRUE}
    MaxWinners = 2
    MaxReloads = 0
    MaxDt = 1
    MaxResumes = 0
    MaxFailed = 0
PROPERTY ExpiryTurnsOff
