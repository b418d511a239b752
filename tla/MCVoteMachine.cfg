SPECIFICATION FairCountdown
CONSTANTS
    None = None
    e1 = e1  e2 = e2  e3 = e3
    v1 = v1  v2 = v2  v3 = v3
    Events <- Three
    CooldownSeconds <- ThreeSeconds
    Voters <- ThreeVoters
    Tokens = {"tok"}
    InitialConfigs <- MCConfigs
    Reconfigs <- MCReconfigs
    Numbers = {0, 1, 3, 4}
    MaxRound = 2
    MaxLag = 2
    MaxToggles = 3
INVARIANTS
    TypeOK
    WinnerLeadsPublishedTally
    NonceNamesDecision
    HoldOutlastsLead
    CountdownFollowsPlay
PROPERTIES
    PauseFreezes
    PhasesGetTheirTime
    ImplementsElection
    RoundsAreDecided
