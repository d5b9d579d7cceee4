SPECIFICATION Spec
CONSTANTS
    IdMod = 4
    CmdSlots = 3
    Gui = gui
    Serial = serialThread
    Threads = {gui, serialThread}
    Commands = {"RECIPE_STEP"}
    QueueSize = 3
    DoneTimeout = 0
    MaxIdle = 1
    MaxRejected = 0
    Faults = {"loss", "repeat", "error", "merge"}
    EarlyReply = FALSE
    MaxLine = 1
INVARIANTS
    SendHasMessage
PROPERTIES
    ImplementsPipeline
CONSTRAINT UntilOverlap
CHECK_DEADLOCK FALSE
