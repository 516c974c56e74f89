SPECIFICATION FairSpec
CONSTANTS
    WordSize = 32
    MIN_DELAY = 3
    SAMPLE_INTERVAL = 2
    MaxCoeff = 15
    Deadband = 1
    Timeconst = 20
    Coeff = 9
    Passes = {1, 5}
    Traffic <- Orders
    SlaveId = 1
    MaxRead = 12
    MaxWritten = 11
    FilterScale = 2
    Noise <- Exact
    DivByZero = {0, 31}
    MaxPump = 4
    Supplies = {0}
INVARIANTS TypeOK ReadsAreCurrent MinDelayKept
PROPERTIES MessagesWanted Converges
