SPECIFICATION FairSpec
CONSTANTS
    None = None
    s1 = s1  s2 = s2
    Settings <- TwoSettings
    RequireGame = TRUE
    Platforms = {TRUE, FALSE}
    StaleAfter = 1
    MaxBeat = 1
INVARIANTS
    TypeOK
    ActivityInOrder
    SettingsInOrder
PROPERTIES
    ClosedGamePauses
    MachineFollowsGame
