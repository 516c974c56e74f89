SPECIFICATION Spec
CONSTANTS
    MBAP_LENGTH = 7
    BodyLength <- MCBodyLength
    FunctionCodes = {2, 3, 4, 6}
    Handlers = {3, 4}
    MaxCalls = 3
    Window = 1
    Peers = {"server", "gateway"}
INVARIANTS TypeOK Aligned NoLeak
PROPERTIES ImplementsExchange
CHECK_DEADLOCK FALSE
