SPECIFICATION Spec
CONSTANTS
    Entries = {"sir", "air", "mir"}
CHECK_DEADLOCK FALSE
INVARIANTS
    OperandsReachTheirArgument
    ProgramIsClosed
    NoSilentZeros
    SupportedIsEmitted
