SPECIFICATION FairSpec
CONSTANTS
    IdMod = 3
    CmdSlots = 2
    Gui = gui
    Serial = serialThread
    Threads = {gui, serialThread}
    Commands = {"RECIPE_STEP"}
    QueueSize = 3
    DoneTimeout = 0
    MaxIdle = 1
    MaxRejected = 0
    Faults = {"loss", "error", "write", "read", "stop", "split", "merge"}
    EarlyReply = FALSE
    MaxLine = 1
PROPERTIES
    EventuallySettled
CONSTRAINT UntilOverlap
CHECK_DEADLOCK FALSE
