SPECIFICATION FairSpec
CONSTANTS
    Goal = {g1, g2}
    NoGoal = NoGoal
    max_retries_ = 1
INVARIANTS
    OwnResult
PROPERTIES
    FreshVerdict
    LoneGoalsEnd
CHECK_DEADLOCK FALSE
