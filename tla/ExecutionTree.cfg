SPECIFICATION ObjectSpec
CONSTANTS
    State = {loaded, unloaded}
    Unknown = Unknown
    MaxRun = 2
    MaxSequence = 2
    MaxNodes = 3
INVARIANTS WalksFindLatest
PROPERTY ImplementsRegister
CHECK_DEADLOCK FALSE
