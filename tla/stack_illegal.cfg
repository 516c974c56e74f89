SPECIFICATION MasterSpec
CONSTANTS
    MBAP_LENGTH = 7
    BodyLength <- MCBodyLength
    FunctionCodes = {4, 6, 16}
    Handlers = {4}
INVARIANTS IllegalFunctionAnswered
CHECK_DEADLOCK FALSE
