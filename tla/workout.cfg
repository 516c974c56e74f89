CONSTANTS
    SECOND = 1
    TimerSize = 20
    Elapsed = {2}
    Loaded <- TwoRounds
    Lists <- Other
    Demands = {1}
    MaxRequests = 4
SPECIFICATION FairSpec
INVARIANTS
    TypeOK
    FollowsPlan
PROPERTIES
    WorkoutFinishes
CHECK_DEADLOCK FALSE
