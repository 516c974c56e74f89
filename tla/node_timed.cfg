SPECIFICATION TimedSpec
CONSTANTS
    Workouts <- LongWorkout
    Found <- JustStarted
    FilterRegister <- TwoFilters
    Puts <- SpeedPuts
    RuntimePuts <- NearEnd
    SupplyLevels <- Off
    Elapsed <- OneSecond
    Faults <- None
    MaxQueue = 7
    MaxPuts = 2
    MinRuntime = 0
    ReadEvery = 10
    MaxDelay = 4
INVARIANTS QueueBounded
PROPERTIES NeverUndoesItself QueueDrains KeepsReading WorkoutEnds
