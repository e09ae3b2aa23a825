SPECIFICATION FairSpec
CONSTANTS
    Goal = {g1, g2}
    None = None
    max_error_ = 1
INVARIANTS
    WheelsObey
PROPERTIES
    LoneGoalsEnd
CHECK_DEADLOCK FALSE
