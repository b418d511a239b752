SPECIFICATION FairSpec
CONSTANTS
    None = None
    reef = reef  cave = cave
    Volumes = {reef, cave}
    PreyTags = {"GenericPlayer"}
    OobTags = {"OutOfBounds"}
    Carries <- MCCarries
    ScanEvery = 2
    MaxTroubles = 3
INVARIANTS
    TagsAreLive
PROPERTIES
    HuntResumes
    LeviathansCome
