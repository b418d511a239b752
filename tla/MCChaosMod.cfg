SPECIFICATION Spec
CONSTANTS
    None = None
    Events = {"slomo_fast", "slomo_slow"}
    Known = {"slomo_fast", "slomo_slow"}
    Category <- MCCategory
    Leviathans = {}
    BaseSeconds <- MCBaseSeconds
    Scales = {4}
    GateSettings <- SomeGates
    Sliders = {"s"}
    Leads = {2}
    Heartbeat = 2
    CheatsWork = {TRUE}
    WritesWork = {TRUE, FALSE}
    MaxWinners = 2
    MaxReloads = 1
    MaxDt = 1
    MaxResumes = 2
    MaxFailed = 1
INVARIANTS
    OneFate
    StatusIsFresh
    SettingsRevert
    EffectsLastAsOwed
PROPERTIES
    PausedExecutesNothing
    HeadsUpKept
