SPECIFICATION FairSpec
CONSTANTS
    Slots = {a1, a2}
    MaxTimers = 1
INVARIANTS PositionFollowed
PROPERTIES CompletionShown PositionLetGo CompletionKept
CHECK_DEADLOCK FALSE
