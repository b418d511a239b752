SPECIFICATION FairDelivery
CONSTANTS
    None = None
    Events = {"spawn_leviathan"}
    Known = {"spawn_leviathan"}
    Category <- MCCategory
    Leviathans = {"spawn_leviathan"}
    BaseSeconds <- MCBaseSeconds
    Scales = {4}
    GateSettings <- AllGates
    Sliders = {"s"}
    Leads = {0, 1}
    Heartbeat = 1
    CheatsWork = {TRUE}
    WritesWork = {TRUE}
    MaxWinners = 4
    MaxReloads = 1
    MaxDt = 1
    MaxResumes = 1
    MaxFailed = 0
    CooldownSeconds <- NoSeconds
    Voters = {}
    Tokens = {1, 2}
    InitialConfigs <- MCConfigs
    Reconfigs = {}
    Numbers = {}
    MaxRound = 2
    MaxLag = 1
    Seeded = FALSE
    StaleAfter = 1
    MaxPoll = 1
PROPERTIES
    ImplementsPromise
    PlayersGetChaos
