SPECIFICATION Spec
CONSTANTS
    Workouts <- TwoWorkouts
    Found <- Running
    FilterRegister <- TwoFilters
    Puts <- EveryPut
    RuntimePuts <- SomeRuntimes
    SupplyLevels <- OffOn
    Elapsed <- ClockSteps
    Faults = {"lost", "error", "malformed"}
    MaxQueue = 2
    MaxPuts = 2
    MinRuntime <- MinusOne
INVARIANTS TypeOK OneOutstanding FirstOfBurstWins WorkoutFollowed
PROPERTIES OneBitWritten
CHECK_DEADLOCK FALSE
