SPECIFICATION Spec
CONSTANTS
    IdMod = 5
    CmdSlots = 3
    Gui = gui
    Serial = serialThread
    Threads = {gui, serialThread}
    Commands = {"RECIPE_STEP", "MOVE_X"}
    QueueSize = 3
    DoneTimeout = 1
    MaxIdle = 1
    MaxRejected = 1
    Faults = {}
    EarlyReply = TRUE
    MaxLine = 0
INVARIANTS
    TypeOK
    OverlapExplained
    ResponseNeverDropped
    Conserved
    ConformingInv
    QueuedHaveHandlers
    PendingIdsDistinct
CONSTRAINT UntilOverlap
CHECK_DEADLOCK FALSE
