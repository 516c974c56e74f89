SPECIFICATION Spec
CONSTANTS
    Workouts <- NoWorkout
    Found <- JustStarted
    FilterRegister <- TwoFilters
    Puts <- Buttons
    RuntimePuts <- None
    SupplyLevels <- Off
    Elapsed <- OneSecond
    Faults <- None
    MaxQueue = 5
    MaxPuts = 2
    MinRuntime = 0
INVARIANTS DeactivateHolds
CHECK_DEADLOCK FALSE
