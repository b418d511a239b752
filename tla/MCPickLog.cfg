SPECIFICATION LogSpec
CONSTANTS
    e1 = e1  e2 = e2  e3 = e3
    Events <- Three
    CooldownSeconds <- Seconds
    Sizes = {1, 2, 5}
    MaxPicks = 4
    MaxGap = 2
INVARIANTS
    CooldownHonoured
    RepeatOnlyWhenStarved
CHECK_DEADLOCK FALSE
