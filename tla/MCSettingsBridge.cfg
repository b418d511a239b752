SPECIFICATION FairSpec
CONSTANTS
    GateKeys = {"enable_chaos", "enable_bad"}
    LevelKeys = {"log_level"}
    TunableKeys = {"swarm_size"}
    VoteKeys = {"vote_options"}
    Default = "high"
    MaxChanges = 3
    MaxReloads = 1
INVARIANTS
    LiveIsCached
PROPERTIES
    SettingsFollowed
CHECK_DEADLOCK FALSE
