SPECIFICATION FairSpec
CONSTANTS
    Kinds = {"all-chat", "twitch", "simulate"}
    Chatter = {1, 2, 3, 5}
    Privmsgs = {1, 2, 4}
    Stamp <- MCStamp
    Undated = {1}
    Clock <- MCClock
    Configured = {TRUE, FALSE}
    Room = 1
    MaxPosted = 5
    MaxTroubles = 3
INVARIANTS
    HandedOnceInOrder
    NoGap
PROPERTIES
    CancelEndsRun
    ChatCatchesUp
CHECK_DEADLOCK FALSE
