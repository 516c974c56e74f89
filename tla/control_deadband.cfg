SPECIFICATION Spec
CONSTANTS
    WordSize = 16
    MIN_DELAY = 3
    SAMPLE_INTERVAL = 2
    MaxCoeff = 7
    Deadband = 2
    Timeconst = 10
    Coeff = 4
    Passes = {0, 2}
    Traffic <- SomeTraffic
    SlaveId = 1
    MaxRead = 12
    MaxWritten = 11
    FilterScale = 2
    Noise <- Noisy
    DivByZero = {0, 15}
    MaxPump = 2
    Supplies = {0, 1}

PROPERTIES DeadbandQuiet
