------------------------------ MODULE SerialThread ------------------------------
(***************************************************************************)
(* src/proto_serial.c: one connection, from message_handler_init to the    *)
(* end of the serial thread, with the GUI thread that sends commands, the  *)
(* serial line and the microcontroller.  The microcontroller is external;  *)
(* a conforming one answers every message with a DONE, in order.  Faults   *)
(* says what else it, or the line, may do:                                 *)
(*   "error"  answer with an ERROR        "stop"   send an EMERGENCY_STOP  *)
(*   "loss"   a message gets no answer    "repeat" a message gets several  *)
(*   "write"  a write to the port fails   "read"   a read from it fails    *)
(*   "merge"  one read returns the bytes of two responses: they have no    *)
(*            frame, and the decoder keeps the last value of a field       *)
(*   "split"  one read returns a part of a response                        *)
(***************************************************************************)
EXTENDS MessageHandler

CONSTANTS Gui, Serial,   \* the two callers of add_outgoing
          Faults,
          EarlyReply,    \* may an answer overtake the end of add_outgoing?
          MaxLine        \* bound: responses on the line

ASSUME ThreadsAssumption == Threads = {Gui, Serial} /\ Gui # Serial
ASSUME FaultsAssumption ==
    Faults \subseteq {"error", "stop", "loss", "repeat", "write", "read", "merge", "split"}
ASSUME EarlyReplyAssumption == EarlyReply \in BOOLEAN
ASSUME MaxLineAssumption == MaxLine \in Nat

VARIABLES serial,         \* where the thread function is
          threadRunning,  \* threadRunning_
          toMc, fromMc    \* the serial line: messages out, responses in

lineVars == <<toMc, fromMc>>
vars == <<serial, threadRunning, toMc, fromMc, mhVars>>

(* No start resets threadRunning_: a thread that left its loop by itself    *)
(* has left it TRUE for the connection after it.                            *)
Init ==
    /\ MHInit
    /\ serial = "start"
    /\ threadRunning \in BOOLEAN
    /\ toMc = <<>> /\ fromMc = <<>>

--------------------------------------------------------------------------------
(* The serial thread sends HELLO_THERE itself, and only then says it runs.  *)
(* Whether the call was accepted is not asked.                              *)
SendHello ==
    /\ serial = "start"
    /\ AddNumber(Serial, "HELLO_THERE")
    /\ serial' = "hello"
    /\ UNCHANGED <<threadRunning, lineVars>>

EnterLoop ==
    /\ serial = "hello"
    /\ adder[Serial].pc = "idle"
    /\ serial' = "poll"
    /\ threadRunning' = TRUE
    /\ UNCHANGED <<lineVars, mhVars>>

(* The bug: no look at threadRunning_. *)
BugThreadRunning == TRUE
ThreadRunning == threadRunning

(* An order or a manual move: the GUI asks proto_comms_thread_running first. *)
(* What it sends before the thread begins leaves HELLO_THERE a place or, of   *)
(* the refused calls that the bound allows, one.                              *)
GuiRequest(cmd) ==
    /\ ThreadRunning
    /\ serial = "start" => Len(pendingDones) + rejected + 1 < Capacity + MaxRejected
    /\ AddNumber(Gui, cmd)
    /\ UNCHANGED <<serial, threadRunning, lineVars>>

Add(t) == AddStep(t) /\ UNCHANGED <<serial, threadRunning, lineVars>>

--------------------------------------------------------------------------------
(* One turn of the loop: poll, read, then message_handler_process *)

PollSilent ==
    /\ serial = "poll" /\ fromMc = <<>>
    /\ serial' = "process"
    /\ UNCHANGED <<threadRunning, lineVars, mhVars>>

(* What is left of two responses decoded as one. *)
Merge(r, s) ==
    [id |-> IF s.id = 0 THEN r.id ELSE s.id,
     type |-> IF s.type = "RSP_UNDEFINED" THEN r.type ELSE s.type]

(* proto_comms_read_response decoded resp; left is what stays on the line. *)
Received(resp, left) ==
    /\ serial = "poll"
    /\ fromMc' = left
    /\ IF IsFull(inQ)
       THEN serial' = "exited" /\ UNCHANGED mhVars
       ELSE serial' = "process" /\ AddIncoming(resp)
    /\ UNCHANGED <<threadRunning, toMc>>

ReadOne == fromMc # <<>> /\ Received(Head(fromMc), Tail(fromMc))

ReadMerged ==
    /\ "merge" \in Faults /\ Len(fromMc) > 1
    /\ Received(Merge(fromMc[1], fromMc[2]), Tail(Tail(fromMc)))

(* The id comes first on the wire (a zero id not at all), the type second. *)
ReadPart ==
    /\ "split" \in Faults /\ fromMc # <<>> /\ Head(fromMc).id # 0
    /\ Received([Head(fromMc) EXCEPT !.type = "RSP_UNDEFINED"],
                <<[Head(fromMc) EXCEPT !.id = 0]>> \o Tail(fromMc))

(* serial_poll, serial_read or pb_decode fails (the result -1 of a poll is no *)
(* 0 either): the thread leaves the loop, and the pop(0) at its end skips the *)
(* cleanup that would reset threadRunning_.                                   *)
ReadFails ==
    /\ serial = "poll"
    /\ "read" \in Faults
    /\ serial' = "exited"
    /\ fromMc' = <<>>
    /\ UNCHANGED <<threadRunning, toMc, mhVars>>

WriteWorks == {TRUE} \cup (IF "write" \in Faults THEN {FALSE} ELSE {})

Process ==
    /\ serial = "process"
    /\ ProcessOk
    /\ serial' = IF processPc' = "entry" THEN "poll" ELSE "process"
    /\ UNCHANGED <<threadRunning, lineVars>>

(* proto_comms_send_msg puts the message that process popped on the line. *)
Send(written) ==
    /\ serial = "process"
    /\ SendCmd(written)
    /\ toMc' = IF outQ # <<>> /\ written THEN Append(toMc, Head(outQ)) ELSE toMc
    /\ serial' = "poll"
    /\ UNCHANGED <<threadRunning, fromMc>>

ProcessError ==
    /\ serial = "process"
    /\ ProcessFails
    /\ serial' = "exited"
    /\ UNCHANGED <<threadRunning, lineVars>>

--------------------------------------------------------------------------------
(* The microcontroller and the line *)

(* A command takes the machine far longer than add_outgoing takes to return. *)
InTime(id) ==
    EarlyReply \/ \A t \in Threads : adder[t].pc # "idle" => adder[t].msg.id # id

Answer(type) ==
    /\ toMc # <<>>
    /\ InTime(Head(toMc).id)
    /\ fromMc' = Append(fromMc, [id |-> Head(toMc).id, type |-> type])
    /\ toMc' = Tail(toMc)

(* An answer after which the same message is answered once more. *)
Repeat ==
    /\ "repeat" \in Faults /\ Len(fromMc) < MaxLine
    /\ toMc # <<>>
    /\ InTime(Head(toMc).id)
    /\ fromMc' = Append(fromMc, [id |-> Head(toMc).id, type |-> "DONE"])
    /\ UNCHANGED toMc

Loss == "loss" \in Faults /\ toMc # <<>> /\ toMc' = Tail(toMc) /\ UNCHANGED fromMc

EmergencyStop ==
    /\ "stop" \in Faults /\ Len(fromMc) < MaxLine
    /\ fromMc' = Append(fromMc, [id |-> 0, type |-> "EMERGENCY_STOP"])
    /\ UNCHANGED toMc

Peer ==
    /\ \/ Answer("DONE") \/ ("error" \in Faults /\ Answer("ERROR"))
       \/ Loss \/ EmergencyStop \/ Repeat
    /\ UNCHANGED <<serial, threadRunning, mhVars>>

--------------------------------------------------------------------------------
Clock == Tick /\ UNCHANGED <<serial, threadRunning, lineVars>>
Gtk == GtkIdle /\ UNCHANGED <<serial, threadRunning, lineVars>>

Poll == PollSilent \/ ReadOne \/ ReadMerged \/ ReadPart \/ ReadFails

Loop ==
    \/ SendHello \/ EnterLoop \/ Poll
    \/ Process \/ ProcessError
    \/ \E written \in WriteWorks : Send(written)

Next ==
    \/ Loop
    \/ \E t \in Threads : Add(t)
    \/ \E cmd \in Commands : GuiRequest(cmd)
    \/ Peer \/ Clock \/ Gtk

Spec == Init /\ [][Next]_vars

--------------------------------------------------------------------------------
TypeOK ==
    /\ MHTypeOK
    /\ serial \in {"start", "hello", "poll", "process", "exited"}
    /\ threadRunning \in BOOLEAN
    /\ toMc \in Seq(Message) /\ fromMc \in Seq(Response)

(* At most one thread is in add_outgoing, which nothing locks. *)
NoConcurrentAdds ==
    \A t, u \in Threads :
        adder[t].pc # "idle" /\ adder[u].pc # "idle" => t = u

(* The race that message_handler.c:184 fears needs a connection that began  *)
(* with threadRunning_ left TRUE: the GUI's commands and the thread's own   *)
(* HELLO_THERE are in add_outgoing together only before the loop, when      *)
(* nothing but the flag of an earlier thread lets the GUI in.               *)
OverlapExplained ==
    NoConcurrentAdds \/ (serial = "hello" /\ threadRunning /\ overlapped)

(* SEND_CMD is only entered with a message to send: the pop cannot fail. *)
SendHasMessage == fsmState = "SEND_CMD" => outQ # <<>>

(* Room in the ring is room in the queue: a call that got its id into the  *)
(* ring can push its message, so no id waits for a message never sent.     *)
AcceptedIsQueued ==
    ~overlapped => \A t \in Threads : adder[t].pc = "push" => ~IsFull(outQ)

(* There is room for every response that can be read.  The loop reads one a *)
(* turn but a SEND_CMD turn handles none, so several may be waiting.        *)
ResponseNeverDropped ==
    ~overlapped /\ serial = "poll" /\ fromMc # <<>> => ~IsFull(inQ)

(* The id whose message add_outgoing has not pushed yet. *)
UnpushedOf(ad) ==
    LET held == {t \in Threads : ad[t].pc = "push"}
    IN  IF held = {} THEN <<>> ELSE <<ad[CHOOSE t \in held : TRUE].msg.id>>
Unpushed == UnpushedOf(adder)

(* With a conforming microcontroller and an intact line, and until calls    *)
(* overlap, the ring of ids waiting for a DONE is exactly what is under     *)
(* way, in order: the responses coming in, the messages going out, those    *)
(* queued, and the one being added.                                         *)
UnderWay ==
    pendingDones =
        IdsOf(inQ) \o IdsOf(fromMc) \o IdsOf(toMc) \o IdsOf(outQ) \o Unpushed
Conserved == ~overlapped => UnderWay

(* Who may be in add_outgoing at each place of the serial thread. *)
AdderShape ==
    /\ adder[Gui].pc # "idle" => threadRunning
    /\ adder[Serial].pc # "idle" => serial = "hello"
    /\ ~overlapped => NoConcurrentAdds

AllDone(q) == \A i \in DOMAIN q : q[i].type = "DONE"

IdleMeansQuiet == fsmState = "IDLE" => inQ = <<>> /\ fromMc = <<>> /\ toMc = <<>>
OnlyTimeouts == fsmState = "ERROR" => processPc = "entry" /\ error = "DONE_TIMEOUT"

(* The inductive invariant of a connection without faults: in particular    *)
(* IDLE means that nothing is on its way back, so that no DONE is rejected. *)
InStep ==
    /\ UnderWay
    /\ AllDone(inQ) /\ AllDone(fromMc)
    /\ IdleMeansQuiet
    /\ OnlyTimeouts

ConformingInv == AdderShape /\ SendHasMessage /\ (~overlapped => InStep)

(* Then the connection only ever fails for lack of an answer in time. *)
NoFalseAlarm == ~overlapped /\ fsmState = "ERROR" => error = "DONE_TIMEOUT"

--------------------------------------------------------------------------------
(* The abstract command behind a waiting id: the thread still in            *)
(* add_outgoing knows it, later only the handler table does.                *)
CallbackOf(id) ==
    LET held == {t \in Threads : adder[t].pc \in {"push", "slot id", "slot func"}
                                  /\ adder[t].msg.id = id}
    IN  IF held = {} THEN HandlerOf(id)
        ELSE cmdFuncMap[adder[CHOOSE t \in held : TRUE].msg.type]

Waiting == [i \in DOMAIN pendingDones |-> CallbackOf(pendingDones[i])]
Greeted == serial # "start" /\ adder[Serial].pc # "pending"

(* The connection runs commands in order and posts each one's own callback  *)
(* once, whatever the listed Faults do, until calls overlap.                *)
Pipeline == INSTANCE CommandPipeline
    WITH waiting <- Waiting, posted <- idle, greeted <- Greeted, open <- threadRunning,
         HelloDone <- cmdFuncMap["HELLO_THERE"]
ImplementsPipeline == Pipeline!Init /\ [][Pipeline!Next \/ overlapped']_(Pipeline!vars)

(* The loop never blocks, add_outgoing never waits, time passes and the GTK *)
(* main loop runs.  Nothing is assumed of the user, and of the              *)
(* microcontroller only that it does not send EMERGENCY_STOPs for ever:     *)
(* IDLE handles a response before it looks for a message to send.           *)
Fairness ==
    /\ WF_vars(Loop) /\ WF_vars(Clock) /\ WF_vars(Gtk)
    /\ \A t \in Threads : WF_vars(Add(t))
    /\ <>[][~EmergencyStop]_vars

FairSpec == Spec /\ Fairness

(* No command waits for ever: it is answered, or the thread gives up, or    *)
(* calls have overlapped, after which a queued message may have been lost.  *)
EventuallySettled ==
    \A id \in Ids :
        (\E i \in DOMAIN pendingDones : pendingDones[i] = id)
            ~> \/ serial = "exited" \/ overlapped
               \/ \A i \in DOMAIN pendingDones : pendingDones[i] # id

(* Bound of the runs: they follow a connection up to the first overlap and  *)
(* the state it leads to.  What they check of it claims nothing beyond, or  *)
(* is proved (TypeOK, SendHasMessage, OverlapExplained).                    *)
UntilOverlap == ~overlapped

--------------------------------------------------------------------------------
(* A statement of the sources that the code does not keep. *)

(* message_handler.c:32 "microcontroller sent an error": the error state is *)
(* left only through the dialog that reports it.                            *)
ErrorIsReported ==
    [][fsmState = "ERROR" => fsmState' = "ERROR"]_vars

================================================================================
