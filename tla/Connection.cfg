SPECIFICATION FairSpec
CONSTANTS
    MaxStarts = 4
    Failures = {"new", "open", "create", "error", "read"}
INVARIANTS
    ConnectionInv
    UsesOwnPort
    CleanStop
PROPERTIES
    StopReturns
    ImplementsMotor
CHECK_DEADLOCK FALSE
