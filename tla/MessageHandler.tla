----------------------------- MODULE MessageHandler -----------------------------
(***************************************************************************)
(* src/message_handler.c (with CommandHandler, which only it calls).       *)
(*                                                                         *)
(* message_handler_add_outgoing is run by the GUI thread, and once by the  *)
(* serial thread; message_handler_process is run by the serial thread.     *)
(* They share the ring of ids waiting for a DONE, the queue of messages to *)
(* write and the handler table, and there is no lock: add_outgoing is cut  *)
(* into one action per shared structure it touches.  The ring, the queues  *)
(* and the counter are atomic here; RingBuffer shows why for one thread at *)
(* each end, and the serial thread alone is at the other.  Two calls of    *)
(* add_outgoing at once are a data race, after which the program may do    *)
(* more than the steps written here: `overlapped' remembers that it has    *)
(* happened, and what only holds before it says so.                        *)
(*                                                                         *)
(* SerialThread runs it, with the line and the microcontroller.             *)
(***************************************************************************)
EXTENDS CommandHandler

CONSTANTS Threads,      \* who may call add_outgoing
          Commands,     \* the commands they send
          QueueSize,    \* QUEUE_MAX_SIZE = RING_BUFFER_MAX_SIZE: 32
          DoneTimeout,  \* WORKER_TIMEOUT_DONE: 90 s, counted in Ticks
          MaxIdle,      \* bound: posted callbacks the GUI has not yet run
          MaxRejected   \* bound: calls refused in a row because the ring is full

ASSUME QueueSizeAssumption == QueueSize \in Nat /\ QueueSize >= 2
ASSUME CommandsAssumption == Commands \subseteq DOMAIN cmdFuncMap
ASSUME TimeAssumption == DoneTimeout \in Nat
ASSUME BoundsAssumption == MaxIdle \in Nat \ {0} /\ MaxRejected \in Nat

VARIABLES idCounter,           \* low byte of idCounter_, which init never resets
          pendingDones,        \* worker_.pendingDones, oldest first
          outQ, inQ,
          fsmState, error,     \* worker_
          timeoutDoneStarted,
          waited,              \* now - timestampDone while the timer runs, in Ticks
          processPc,           \* "outQ": before the check that ends DONE_PENDING
          adder,               \* thread -> [pc, msg]: where it is in add_outgoing
          rejected,            \* calls refused since the last accepted one
          overlapped           \* history: two calls have been under way at once

workerVars == <<fsmState, error, timeoutDoneStarted, waited, processPc>>
adderVars == <<idCounter, adder, rejected, overlapped>>
mhVars == <<idCounter, pendingDones, outQ, inQ, fsmState, error,
            timeoutDoneStarted, waited, processPc, adder, rejected, overlapped,
            handlerVars>>

Capacity == QueueSize - 1

Message == [id : Ids, type : DOMAIN cmdFuncMap]
ResponseType == {"RSP_UNDEFINED", "DONE", "ERROR", "EMERGENCY_STOP"}
Response == [id : Ids, type : ResponseType]

FsmState == {"IDLE", "SEND_CMD", "DONE_PENDING", "ERROR"}
ErrorType == {"UNKNOWN_MSG", "OOO_DONE", "OOO_MSG", "DONE_TIMEOUT",
              "SERIAL_WRITE", "SERIAL_READ", "RECIEVED_ERR"}

IdsOf(q) == [i \in DOMAIN q |-> q[i].id]

BugNextId(id) == id
NextId(id) == (id + 1) % IdMod

BugDropOldest(q) == SubSeq(q, 1, Len(q) - 1)
DropOldest(q) == IF q = <<>> THEN q ELSE Tail(q)

BugIsFull(q) == FALSE
IsFull(q) == Len(q) = Capacity

AdderIdle == [pc |-> "idle", msg |-> [id |-> 0, type |-> "HELLO_THERE"]]

(* message_handler_init runs before the serial thread is created; idCounter_ *)
(* keeps whatever an earlier connection left.                                 *)
MHInit ==
    /\ CommandHandlerInit
    /\ idCounter \in Ids
    /\ pendingDones = <<>> /\ outQ = <<>> /\ inQ = <<>>
    /\ fsmState = "IDLE" /\ error = "UNKNOWN_MSG"
    /\ timeoutDoneStarted = FALSE /\ waited = 0
    /\ processPc = "entry"
    /\ adder = [t \in Threads |-> AdderIdle]
    /\ rejected = 0
    /\ overlapped = FALSE

--------------------------------------------------------------------------------
(* message_handler_add_outgoing *)

AddNumber(t, cmd) ==
    /\ adder[t].pc = "idle"
    /\ IsFull(pendingDones) => rejected < MaxRejected
    /\ idCounter' = NextId(idCounter)
    /\ adder' = [adder EXCEPT ![t] =
                    [pc |-> "pending", msg |-> [id |-> NextId(idCounter), type |-> cmd]]]
    /\ overlapped' = (overlapped \/ \E u \in Threads \ {t} : adder[u].pc # "idle")
    /\ UNCHANGED <<pendingDones, outQ, inQ, rejected, workerVars, handlerVars>>

Return(t) == adder' = [adder EXCEPT ![t] = AdderIdle]
Goto(t, pc) == adder' = [adder EXCEPT ![t].pc = pc]

(* worker_add_new_pendings: a full ring makes the caller return -1. *)
AddPending(t) ==
    /\ adder[t].pc = "pending"
    /\ IF IsFull(pendingDones)
       THEN /\ Return(t)
            /\ rejected' = rejected + 1
            /\ UNCHANGED pendingDones
       ELSE /\ Goto(t, "push")
            /\ rejected' = 0
            /\ pendingDones' = Append(pendingDones, adder[t].msg.id)
    /\ UNCHANGED <<idCounter, outQ, inQ, overlapped, workerVars, handlerVars>>

(* out_msg_q_push: if it failed, the id would stay in the ring with no      *)
(* message behind it.                                                       *)
AddPush(t) ==
    /\ adder[t].pc = "push"
    /\ IF IsFull(outQ)
       THEN Return(t) /\ UNCHANGED outQ
       ELSE Goto(t, "slot id") /\ outQ' = Append(outQ, adder[t].msg)
    /\ UNCHANGED <<idCounter, pendingDones, inQ, rejected, overlapped, workerVars, handlerVars>>

AddSlotId(t) ==
    /\ adder[t].pc = "slot id"
    /\ IF HandlerFunc(adder[t].msg.type) = "NULL"
       THEN Return(t) /\ UNCHANGED handlerVars
       ELSE Goto(t, "slot func") /\ WriteSlotId(adder[t].msg.id)
    /\ UNCHANGED <<idCounter, pendingDones, outQ, inQ, rejected, overlapped, workerVars>>

AddSlotFunc(t) ==
    /\ adder[t].pc = "slot func"
    /\ WriteSlotFunc(adder[t].msg.type)
    /\ Return(t)
    /\ UNCHANGED <<idCounter, pendingDones, outQ, inQ, rejected, overlapped, workerVars>>

AddStep(t) == AddPending(t) \/ AddPush(t) \/ AddSlotId(t) \/ AddSlotFunc(t)

(* message_handler_add_incoming, where in_resp_q_push has room. *)
AddIncoming(resp) ==
    /\ ~IsFull(inQ)
    /\ inQ' = Append(inQ, resp)
    /\ UNCHANGED <<pendingDones, outQ, adderVars, workerVars, handlerVars>>

--------------------------------------------------------------------------------
(* handler_process_incoming: what one popped response does to the worker, *)
(* the ring and the posted callbacks.                                     *)

HandlerSetError(type) == fsmState' = "ERROR" /\ error' = type

(* ring_buffer_peek leaves its argument 0 when the ring is empty. *)
PeekPending == IF pendingDones = <<>> THEN 0 ELSE Head(pendingDones)

BugPopPending == <<>>
PopPending == DropOldest(pendingDones)

BugAfterDone == "IDLE"
AfterDone == IF PopPending = <<>> THEN "IDLE" ELSE "DONE_PENDING"

BugIsOldest(resp) == TRUE
IsOldest(resp) == resp.id = PeekPending

CompleteOldest(resp) ==
    /\ resp.type = "DONE"
    /\ fsmState = "DONE_PENDING"
    /\ IsOldest(resp)
    /\ Len(idle) < MaxIdle
    /\ ExecuteDone(resp.id)
    /\ pendingDones' = PopPending
    /\ fsmState' = AfterDone
    /\ UNCHANGED error

RejectDone(resp) ==
    /\ resp.type = "DONE"
    /\ \/ fsmState # "DONE_PENDING" /\ HandlerSetError("OOO_MSG")
       \/ /\ fsmState = "DONE_PENDING" /\ ~IsOldest(resp)
          /\ HandlerSetError("OOO_DONE")
    /\ UNCHANGED <<pendingDones, handlerVars>>

HandleFailure(resp) ==
    /\ \/ resp.type = "ERROR" /\ HandlerSetError("RECIEVED_ERR")
       \/ resp.type = "RSP_UNDEFINED" /\ HandlerSetError("UNKNOWN_MSG")
    /\ UNCHANGED <<pendingDones, handlerVars>>

IgnoreStop(resp) ==
    /\ resp.type = "EMERGENCY_STOP"
    /\ UNCHANGED <<fsmState, error, pendingDones, handlerVars>>

HandleIncoming(resp) ==
    CompleteOldest(resp) \/ RejectDone(resp) \/ HandleFailure(resp) \/ IgnoreStop(resp)

--------------------------------------------------------------------------------
(* message_handler_process, one action per state and branch *)

BugPopIncoming == inQ
PopIncoming == DropOldest(inQ)

IdleReceive ==
    /\ fsmState = "IDLE" /\ processPc = "entry" /\ inQ # <<>>
    /\ HandleIncoming(Head(inQ))
    /\ inQ' = PopIncoming
    /\ UNCHANGED <<outQ, adderVars, timeoutDoneStarted, waited, processPc>>

IdleLook ==
    /\ fsmState = "IDLE" /\ processPc = "entry" /\ inQ = <<>>
    /\ fsmState' = IF outQ = <<>> THEN "IDLE" ELSE "SEND_CMD"
    /\ UNCHANGED <<pendingDones, outQ, inQ, error, timeoutDoneStarted, waited,
                   processPc, adderVars, handlerVars>>

(* A message popped from outQ and lost to a failed write stays in the ring; *)
(* the state is set without handler_set_error, so error keeps its value.    *)
SendCmd(written) ==
    /\ fsmState = "SEND_CMD" /\ processPc = "entry"
    /\ fsmState' = IF outQ # <<>> /\ written THEN "DONE_PENDING" ELSE "ERROR"
    /\ outQ' = DropOldest(outQ)
    /\ UNCHANGED <<pendingDones, inQ, error, timeoutDoneStarted, waited,
                   processPc, adderVars, handlerVars>>

DoneReceive ==
    /\ fsmState = "DONE_PENDING" /\ processPc = "entry" /\ inQ # <<>>
    /\ HandleIncoming(Head(inQ))
    /\ inQ' = PopIncoming
    /\ timeoutDoneStarted' = FALSE /\ waited' = 0
    /\ processPc' = "outQ"
    /\ UNCHANGED <<outQ, adderVars>>

BugTimedOut == FALSE
TimedOut == timeoutDoneStarted /\ waited > DoneTimeout

DoneWait ==
    /\ fsmState = "DONE_PENDING" /\ processPc = "entry" /\ inQ = <<>>
    /\ ~TimedOut
    /\ timeoutDoneStarted' = TRUE
    /\ processPc' = "outQ"
    /\ UNCHANGED <<pendingDones, outQ, inQ, fsmState, error, waited, adderVars,
                   handlerVars>>

DoneTimesOut ==
    /\ fsmState = "DONE_PENDING" /\ processPc = "entry" /\ inQ = <<>>
    /\ TimedOut
    /\ HandlerSetError("DONE_TIMEOUT")
    /\ UNCHANGED <<pendingDones, outQ, inQ, timeoutDoneStarted, waited, processPc,
                   adderVars, handlerVars>>

(* The bug: SEND_CMD without looking for a message. *)
BugAfterLook == "SEND_CMD"
AfterLook == IF outQ = <<>> THEN fsmState ELSE "SEND_CMD"

(* The last lines of the DONE_PENDING case: whatever state the response just *)
(* handled has led to, a waiting message makes it SEND_CMD.                  *)
DoneLook ==
    /\ processPc = "outQ"
    /\ processPc' = "entry"
    /\ fsmState' = AfterLook
    /\ UNCHANGED <<pendingDones, outQ, inQ, error, timeoutDoneStarted, waited,
                   adderVars, handlerVars>>

(* The calls of process that return 0 without writing to the port. *)
ProcessOk ==
    \/ IdleReceive \/ IdleLook
    \/ DoneReceive \/ DoneWait \/ DoneTimesOut \/ DoneLook

(* The call that shows the error dialog and returns -1. *)
ProcessFails == fsmState = "ERROR" /\ processPc = "entry" /\ UNCHANGED mhVars

(* time() advances; one more Tick than the timeout is all the code can tell. *)
Tick ==
    /\ timeoutDoneStarted
    /\ waited <= DoneTimeout
    /\ waited' = waited + 1
    /\ UNCHANGED <<idCounter, pendingDones, outQ, inQ, fsmState, error,
                   timeoutDoneStarted, processPc, adderVars, handlerVars>>

GtkIdle ==
    /\ RunIdle
    /\ UNCHANGED <<pendingDones, outQ, inQ, adderVars, workerVars>>

--------------------------------------------------------------------------------
QueuesTypeOK ==
    /\ pendingDones \in Seq(Ids) /\ Len(pendingDones) <= Capacity
    /\ outQ \in Seq(Message) /\ Len(outQ) <= Capacity
    /\ inQ \in Seq(Response) /\ Len(inQ) <= Capacity

WorkerTypeOK ==
    /\ fsmState \in FsmState
    /\ error \in ErrorType
    /\ timeoutDoneStarted \in BOOLEAN /\ waited \in 0 .. DoneTimeout + 1
    /\ processPc \in {"entry", "outQ"}

AdderState ==
    [pc : {"idle", "pending", "push", "slot id", "slot func"}, msg : Message]

AddersTypeOK ==
    /\ idCounter \in Ids
    /\ adder \in [Threads -> AdderState]
    /\ rejected \in Nat
    /\ overlapped \in BOOLEAN

MHTypeOK == QueuesTypeOK /\ WorkerTypeOK /\ AddersTypeOK /\ CommandHandlerTypeOK

(* An id is never waiting twice: a DONE names one message (uint8_t ids wrap, *)
(* and a refused call uses one up), as long as calls have not overlapped.    *)
PendingIdsDistinct ==
    ~overlapped =>
        \A i, j \in DOMAIN pendingDones : i # j => pendingDones[i] # pendingDones[j]

(* A message that waits to be written has its own handler in the table once *)
(* add_outgoing has returned: slot reuse and id wrap never mix handlers up, *)
(* as long as calls have not overlapped.                                    *)
QueuedHaveHandlers ==
    ~overlapped =>
        \A i \in DOMAIN outQ :
            (\A t \in Threads : adder[t].pc # "idle" => adder[t].msg.id # outQ[i].id)
                => HandlerOf(outQ[i].id) = cmdFuncMap[outQ[i].type]

================================================================================
