CONSTANTS
    MaxRequests = 2
    Window = 1
    SERIAL_RETRIES = 2
    BufLen = 2
    Faults <- AllFaults
SPECIFICATION Spec
PROPERTIES
    GotRestOfMessage
CHECK_DEADLOCK FALSE
