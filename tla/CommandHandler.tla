----------------------------- MODULE CommandHandler -----------------------------
(***************************************************************************)
(* src/command_handler.c: the table that remembers, for each message id    *)
(* that was sent, which callback its DONE response must post to the GTK    *)
(* main loop.  The table has no removal: a slot is reused when the write   *)
(* index comes round again, and a lookup takes the first slot that matches.*)
(***************************************************************************)
EXTENDS Naturals, Sequences, FiniteSets

CONSTANTS IdMod,     \* ids are uint8_t: 256 in the code
          CmdSlots   \* COMMANDS_MAX_PENDING: 32

ASSUME IdModAssumption == IdMod \in Nat /\ IdMod >= 2
ASSUME CmdSlotsAssumption == CmdSlots \in Nat \ {0}

VARIABLES pendingCmds,   \* slot -> [id, func]
          handlerIndex,  \* slot the next pair is written to
          idle           \* callbacks posted with gdk_threads_add_idle, not yet run

handlerVars == <<pendingCmds, handlerIndex, idle>>

Ids == 0 .. IdMod - 1
Slots == 0 .. CmdSlots - 1

CmdType ==
    {"HELLO_THERE", "STOP", "RECIPE_STEP", "MOVE_X", "MOVE_Y", "PUMP_STEP"}

(* cmdFuncMap_, with a handler function named by the callback it posts. *)
cmdFuncMap ==
    [HELLO_THERE |-> "cb_cmd_hello_there_done", RECIPE_STEP |-> "cb_cmd_step_done",
     MOVE_X |-> "cb_cmd_move_x_done", MOVE_Y |-> "cb_cmd_move_y_done"]

Callbacks == {cmdFuncMap[cmd] : cmd \in DOMAIN cmdFuncMap}

HandlerFunc(cmd) == IF cmd \in DOMAIN cmdFuncMap THEN cmdFuncMap[cmd] ELSE "NULL"

CommandHandlerInit ==
    /\ pendingCmds = [s \in Slots |-> [id |-> 0, func |-> "NULL"]]
    /\ handlerIndex = 0
    /\ idle = <<>>

(* command_handler_add is two stores to the slot, seen one after the other *)
(* by the serial thread.                                                    *)
WriteSlotId(id) ==
    /\ pendingCmds' = [pendingCmds EXCEPT ![handlerIndex].id = id]
    /\ UNCHANGED <<handlerIndex, idle>>

BugNextSlot == handlerIndex
NextSlot == (handlerIndex + 1) % CmdSlots

WriteSlotFunc(cmd) ==
    /\ pendingCmds' = [pendingCmds EXCEPT ![handlerIndex].func = HandlerFunc(cmd)]
    /\ handlerIndex' = NextSlot
    /\ UNCHANGED idle

(* execute_cmd_handler's loop stops at the first slot with the id. *)
FirstSlot(id, s) ==
    /\ pendingCmds[s].id = id
    /\ \A u \in Slots : u < s => pendingCmds[u].id # id

HandlerOf(id) ==
    IF \E s \in Slots : FirstSlot(id, s)
    THEN pendingCmds[CHOOSE s \in Slots : FirstSlot(id, s)].func
    ELSE "NULL"

(* command_handler_execute_done: the result "no handler" is ignored by the *)
(* caller, so a response without a handler leaves no trace.                *)
ExecuteDone(id) ==
    /\ idle' = IF HandlerOf(id) = "NULL" THEN idle ELSE Append(idle, HandlerOf(id))
    /\ UNCHANGED <<pendingCmds, handlerIndex>>

(* The GTK main loop runs the oldest idle source and removes it. *)
RunIdle ==
    /\ idle # <<>>
    /\ idle' = Tail(idle)
    /\ UNCHANGED <<pendingCmds, handlerIndex>>

CommandHandlerTypeOK ==
    /\ pendingCmds \in [Slots -> [id : Ids, func : Callbacks \cup {"NULL"}]]
    /\ handlerIndex \in Slots
    /\ idle \in Seq(Callbacks)

================================================================================
