SPECIFICATION FairSpec
CONSTANTS
    None = None
    Torn = Torn
    MaxAge = 2
    Platforms = {TRUE, FALSE}
    Clients = {"page"}
    QueueSize = 2
    MaxRestarts = 1
INVARIANTS
    FileIsWhole
    SkipIsSound
    DrainedShowsLatest
PROPERTIES
    PublishNeverStalls
    FileCatchesUp
