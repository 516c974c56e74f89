CONSTANTS
    MaxRequests = 4
    Window = 2
    SERIAL_RETRIES = 2
    BufLen = 2
    Faults <- WholeFrameFaults
SPECIFICATION Spec
INVARIANTS
    TypeOK
    OneFrame
    Aligned
    ReadYourWrites
CHECK_DEADLOCK FALSE
