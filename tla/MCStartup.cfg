SPECIFICATION Spec
CONSTANTS
    None = None
    Broken = Broken
    Files <- MCFiles
    Flags <- MCFlags
    Catalogs <- MCCatalogs
    Surroundings <- MCSurroundings
    Game <- DiskGame
INVARIANTS
    ReadyIsSound
    BothMeet
CHECK_DEADLOCK FALSE
