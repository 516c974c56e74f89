CONSTANTS
    MaxRequests = 2
    Window = 2
    SERIAL_RETRIES = 2
    BufLen = 2
    Faults <- AllFaults
SPECIFICATION FairSpec
INVARIANTS
    NoCrossConnection
    NoRequestSkipped
PROPERTIES
    BackInService
    NextClientServed
CHECK_DEADLOCK FALSE
