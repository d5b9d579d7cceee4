SPECIFICATION Spec
CONSTANTS
    IdMod = 5
    CmdSlots = 3
    Gui = gui
    Serial = serialThread
    Threads = {gui, serialThread}
    Commands = {"RECIPE_STEP", "MOVE_X"}
    QueueSize = 3
    DoneTimeout = 1
    MaxIdle = 1
    MaxRejected = 1
    Faults = {"error"}
    EarlyReply = FALSE
    MaxLine = 0
PROPERTIES
    ErrorIsReported
CHECK_DEADLOCK FALSE
