-------------------------------- MODULE Connection --------------------------------
(***************************************************************************)
(* The life of connections in src/proto_serial.c: the port's handle, the   *)
(* thread that runs over it, and the motor switch of                       *)
(* src/callbacks_position.c that starts, cancels and joins it.  What the   *)
(* thread does with messages is SerialThread.  Starts are numbered; the    *)
(* n-th start allocates handle n and creates thread n.  Failures:          *)
(*   "new", "open", "create"  that call of the start fails                 *)
(*   "error"  message_handler_process returns its error                    *)
(*   "read"   a read or a full inQ_ makes the thread leave its loop        *)
(***************************************************************************)
EXTENDS Naturals

CONSTANTS MaxStarts,  \* bound: connections that are begun
          Failures

ASSUME MaxStartsAssumption == MaxStarts \in Nat
ASSUME FailuresAssumption == Failures \subseteq {"new", "open", "create", "error", "read"}

VARIABLES starts,         \* connections begun
          ser,            \* ser_, Null or a handle
          port,           \* handle -> what has become of its port
          tinfo,          \* tinfo_
          created,        \* the latest thread
          place,          \* thread -> where it is
          cancelled,      \* threads that have been sent a cancellation
          joined,         \* threads that have been joined
          threadRunning,  \* threadRunning_
          motorSwitch,
          gtk,            \* what the GTK thread is doing
          contextLocked,  \* a thread was cancelled with the main loop's lock held
          stopTried       \* history: open ports to which a write of STOP was tried

portVars == <<starts, ser, port, stopTried>>
threadVars == <<tinfo, created, cancelled, joined>>
vars == <<starts, ser, port, tinfo, created, place, cancelled, joined, threadRunning,
          motorSwitch, gtk, contextLocked, stopTried>>

Null == 0
Handles == 1 .. MaxStarts

PortState == {"none", "closed", "open", "freed", "lost"}
InLoop == {"start", "hello", "poll", "turn", "post"}
InCleanup == {"stop", "close", "free"}
InError == {"error", "opening", "dialog"}
ThreadPlace == {"none", "leaving", "ended", "cancelled"} \cup InLoop \cup InCleanup \cup InError
GtkPlace == {"free", "open", "init", "create", "set on", "join", "quit"}

Init ==
    /\ starts = 0 /\ created = 0
    /\ ser = Null /\ tinfo = Null
    /\ port = [h \in Handles |-> "none"]
    /\ place = [t \in Handles |-> "none"]
    /\ cancelled = {} /\ joined = {} /\ stopTried = {}
    /\ threadRunning = FALSE /\ motorSwitch = FALSE
    /\ gtk = "free" /\ contextLocked = FALSE

SetPort(h, state) == port' = [port EXCEPT ![h] = state]
Transition(t, from, to) == place[t] = from /\ place' = [place EXCEPT ![t] = to]

(* serial_free gives up the memory; a descriptor that is still open is lost. *)
Free(h) == SetPort(h, IF port[h] = "open" THEN "lost" ELSE "freed") /\ ser' = Null

--------------------------------------------------------------------------------
(* cb_on_motor_switch_toggle and the functions it calls, on the GTK thread. *)
(* The user can reach the switch unless the modal error dialog is shown.    *)

DialogShown == \E t \in Handles : place[t] = "dialog"
GtkFree == gtk = "free" /\ ~contextLocked
UserActs == GtkFree /\ ~DialogShown

(* The bug: the switch is left as the user has set it. *)
BugStartFailed == gtk' = "free" /\ motorSwitch' = TRUE
StartFailed == gtk' = "free" /\ motorSwitch' = FALSE

(* serial_new: ser_ is overwritten whatever it held. *)
SwitchOn ==
    /\ UserActs /\ ~motorSwitch /\ starts < MaxStarts
    /\ starts' = starts + 1
    /\ \/ /\ ser' = starts'
          /\ SetPort(starts', "closed")
          /\ gtk' = "open" /\ UNCHANGED motorSwitch
       \/ "new" \in Failures /\ ser' = Null /\ StartFailed /\ UNCHANGED port
    /\ UNCHANGED <<threadVars, place, threadRunning, contextLocked, stopTried>>

OpenPort ==
    /\ gtk = "open"
    /\ \/ SetPort(ser, "open") /\ gtk' = "init" /\ UNCHANGED <<ser, motorSwitch>>
       \/ "open" \in Failures /\ Free(ser) /\ StartFailed
    /\ UNCHANGED <<starts, threadVars, place, threadRunning, contextLocked, stopTried>>

(* message_handler_init: the queues' init functions only ever return 0. *)
InitQueues ==
    /\ gtk = "init"
    /\ gtk' = "create"
    /\ UNCHANGED <<portVars, threadVars, place, threadRunning, motorSwitch, contextLocked>>

(* pthread_create; when it fails tinfo_ is undefined and the port not closed. *)
CreateThread ==
    /\ gtk = "create"
    /\ \/ /\ tinfo' = ser /\ created' = ser
          /\ Transition(ser, "none", "start")
          /\ gtk' = "set on"
          /\ UNCHANGED <<ser, port, motorSwitch>>
       \/ /\ "create" \in Failures
          /\ tinfo' \in {tinfo, Null}
          /\ Free(ser) /\ StartFailed
          /\ UNCHANGED <<created, place>>
    /\ UNCHANGED <<starts, cancelled, joined, threadRunning, contextLocked, stopTried>>

SetOn ==
    /\ gtk = "set on" /\ ~contextLocked
    /\ gtk' = "free" /\ motorSwitch' = TRUE
    /\ UNCHANGED <<portVars, threadVars, place, threadRunning, contextLocked>>

(* proto_comms_stop_serial_connection *)
SwitchOff ==
    /\ UserActs /\ motorSwitch
    /\ cancelled' = cancelled \cup {tinfo}
    /\ gtk' = "join"
    /\ UNCHANGED <<portVars, tinfo, created, joined, place, threadRunning, motorSwitch,
                   contextLocked>>

JoinReturns ==
    /\ gtk = "join"
    /\ place[tinfo] \in {"ended", "cancelled"}
    /\ joined' = joined \cup {tinfo}
    /\ gtk' = "free" /\ motorSwitch' = FALSE
    /\ UNCHANGED <<portVars, tinfo, created, cancelled, place, threadRunning, contextLocked>>

(* The window is closed or the quit button clicked: gtk_main returns, and    *)
(* so does main.                                                             *)
Quit ==
    /\ UserActs
    /\ gtk' = "quit"
    /\ UNCHANGED <<portVars, threadVars, place, threadRunning, motorSwitch, contextLocked>>

--------------------------------------------------------------------------------
(* proto_comms_serial_thread_func *)

Steady == UNCHANGED <<portVars, threadVars, gtk, contextLocked>>

SendHello(t) ==
    Transition(t, "start", "hello") /\ Steady /\ UNCHANGED <<threadRunning, motorSwitch>>

EnterLoop(t) ==
    Transition(t, "hello", "poll") /\ threadRunning' = TRUE /\ Steady /\ UNCHANGED motorSwitch

(* serial_poll, and gdk_threads_add_idle, which wakes the main loop with a   *)
(* write: they return only if no cancellation is pending.                    *)
Passes(t, from, to) == t \notin cancelled /\ Transition(t, from, to)

(* What is left of a turn of the loop: nothing more, a DONE whose callback   *)
(* is posted, an error or a failed read.                                     *)
Turn(t) ==
    /\ \/ Passes(t, "poll", "turn") \/ Passes(t, "post", "poll")
       \/ Transition(t, "turn", "poll") \/ Transition(t, "turn", "post")
       \/ "error" \in Failures /\ Transition(t, "turn", "error")
       \/ "read" \in Failures /\ Transition(t, "turn", "leaving")
    /\ Steady /\ UNCHANGED <<threadRunning, motorSwitch>>

(* cb_error_serial_communication sets the switch off and then builds and     *)
(* runs a dialog, which only the GTK thread can close.                       *)
ErrorSwitchesOff(t) ==
    Transition(t, "error", "opening") /\ motorSwitch' = FALSE /\ Steady /\ UNCHANGED threadRunning

DialogShows(t) ==
    Transition(t, "opening", "dialog") /\ Steady /\ UNCHANGED <<threadRunning, motorSwitch>>

BugAfterError == "poll"
AfterError == "leaving"

DialogClosed(t) ==
    /\ GtkFree
    /\ Transition(t, "dialog", AfterError)
    /\ Steady /\ UNCHANGED <<threadRunning, motorSwitch>>

(* pthread_cleanup_pop(0): the cleanup does not run. *)
Leave(t) ==
    Transition(t, "leaving", "ended") /\ Steady /\ UNCHANGED <<threadRunning, motorSwitch>>

(* A cancellation acts in the calls on the port, in the write that wakes the *)
(* main loop, and perhaps in what GTK does for the dialog.                   *)
BugCancelPoints == {"post"} \cup InError
CancelPoints == {"poll", "turn", "post"} \cup InError

BugFirstOfCleanup == "close"
FirstOfCleanup == "stop"

BugRunningAfterCancel == threadRunning
RunningAfterCancel == FALSE

CancelActs(t) ==
    /\ t \in cancelled
    /\ place[t] \in CancelPoints
    /\ place' = [place EXCEPT ![t] = FirstOfCleanup]
    /\ threadRunning' = RunningAfterCancel
    /\ contextLocked' = (contextLocked \/ place[t] = "post")
    /\ UNCHANGED <<portVars, threadVars, motorSwitch, gtk>>

(* proto_comms_serial_thread_cleanup, "fire and forget": whether the write   *)
(* of STOP has worked is not asked.                                          *)
SendStop(t) ==
    /\ Transition(t, "stop", "close")
    /\ stopTried' = IF ser # Null /\ port[ser] = "open" THEN stopTried \cup {ser} ELSE stopTried
    /\ UNCHANGED <<starts, ser, port, threadVars, threadRunning, motorSwitch, gtk, contextLocked>>

BugClosed == "open"
Closed == "closed"

ClosePort(t) ==
    /\ Transition(t, "close", "free")
    /\ SetPort(ser, Closed)
    /\ UNCHANGED <<starts, ser, stopTried, threadVars, threadRunning, motorSwitch, gtk,
                   contextLocked>>

FreePort(t) ==
    /\ Transition(t, "free", "cancelled")
    /\ Free(ser)
    /\ UNCHANGED <<starts, stopTried, threadVars, threadRunning, motorSwitch, gtk, contextLocked>>

--------------------------------------------------------------------------------
Start == SwitchOn \/ OpenPort \/ InitQueues \/ CreateThread \/ SetOn
Gtk == Start \/ SwitchOff \/ JoinReturns \/ Quit

Loop(t) == SendHello(t) \/ EnterLoop(t) \/ Turn(t)
Failing(t) == ErrorSwitchesOff(t) \/ DialogShows(t) \/ Leave(t)
Cleanup(t) == CancelActs(t) \/ SendStop(t) \/ ClosePort(t) \/ FreePort(t)
Serial(t) == Loop(t) \/ Failing(t) \/ Cleanup(t)

(* Nothing is left of the threads once main has returned. *)
Next ==
    /\ gtk # "quit"
    /\ Gtk \/ \E t \in Handles : Serial(t) \/ DialogClosed(t)

Spec == Init /\ [][Next]_vars

--------------------------------------------------------------------------------
TypeOK ==
    /\ starts \in 0 .. MaxStarts /\ created \in 0 .. MaxStarts
    /\ ser \in 0 .. MaxStarts /\ tinfo \in 0 .. MaxStarts
    /\ port \in [Handles -> PortState]
    /\ place \in [Handles -> ThreadPlace]
    /\ cancelled \subseteq Handles /\ joined \subseteq Handles /\ stopTried \subseteq Handles
    /\ threadRunning \in BOOLEAN /\ motorSwitch \in BOOLEAN /\ contextLocked \in BOOLEAN
    /\ gtk \in GtkPlace

(* ser_, the queues and the handler table have no owner written down: while *)
(* a thread may use them they are its own, although an earlier thread may   *)
(* still be busy with its dialog and a start may be under way.              *)
UsesOwnPort ==
    \A t \in Handles : place[t] \in InLoop \cup {"stop"} => ser = t /\ port[t] = "open"

(* However far it had come, a thread that was cancelled has tried to write   *)
(* STOP to its own open port, and has closed that port.                      *)
CleanStop ==
    \A t \in Handles : place[t] = "cancelled" => t \in stopTried /\ port[t] = "freed"

(* A port stays open without a thread only if its thread left the loop by    *)
(* itself, and its descriptor is lost only if it got no thread.              *)
Starting(h) == ser = h /\ gtk \in {"open", "init", "create"}
LeaksExplained ==
    \A h \in Handles :
        /\ port[h] = "open" => \/ Starting(h) \/ place[h] \in InLoop \cup {"stop", "close"}
                              \/ place[h] \in InError \cup {"leaving", "ended"}
        /\ port[h] = "lost" => place[h] = "none"

(* The thread that a stop cancels and joins exists and was not joined before *)
(* (either would be undefined), although tinfo_ is never reset.              *)
JoinsOnce ==
    motorSwitch \/ gtk = "join" =>
        tinfo # Null /\ place[tinfo] # "none" /\ tinfo \notin joined

(* The inductive invariant.  Held: the GUI counts on a thread, the one that  *)
(* tinfo_ names.  Only that one may drive the machine, a start begins only   *)
(* when there is none, and a pending cancellation is its own.                *)
Held == motorSwitch \/ gtk \in {"set on", "join"}

Numbered ==
    /\ created <= starts /\ ser <= starts
    /\ \A h \in Handles : (h > starts => port[h] = "none") /\ (h > created => place[h] = "none")

StartUnderWay ==
    gtk \in {"open", "init", "create"} =>
        /\ ~Held /\ created < starts /\ ser = starts
        /\ port[ser] = IF gtk = "open" THEN "closed" ELSE "open"

DriverIsHeld ==
    \A t \in Handles :
        /\ place[t] \in InLoop \cup InCleanup \cup {"error"} => Held /\ t = created
        /\ place[t] \in InCleanup => gtk = "join"
        /\ t \in cancelled => place[t] \in {"ended", "cancelled"} \/ (gtk = "join" /\ t = tinfo)

HeldHasPort ==
    Held =>
        /\ tinfo = created /\ tinfo # Null
        /\ place[tinfo] # "none" /\ tinfo \notin joined
        /\ CASE place[created] = "free" -> ser = created /\ port[created] = "closed"
             [] place[created] = "cancelled" -> TRUE
             [] OTHER -> ser = created /\ port[created] = "open"

Ended ==
    \A t \in Handles :
        /\ t \in joined => place[t] \in {"ended", "cancelled"}
        /\ place[t] = "cancelled" => (gtk = "join" /\ t = tinfo) \/ t \in joined
        /\ place[t] \in {"close", "free"} => t \in stopTried
        /\ port[t] = "closed" => Starting(t) \/ place[t] = "free"

ConnectionInv ==
    /\ TypeOK /\ Numbered /\ StartUnderWay /\ DriverIsHeld /\ HeldHasPort /\ Ended
    /\ CleanStop /\ LeaksExplained /\ JoinsOnce

(* The threads run, and pthread_join returns when its thread has ended.      *)
(* Nothing is assumed of the user, nor that a cancellation acts in a dialog. *)
Fairness ==
    /\ \A t \in Handles : WF_vars(gtk # "quit" /\ place[t] # "dialog" /\ Serial(t))
    /\ WF_vars(JoinReturns)

FairSpec == Spec /\ Fairness

(* Turning the motor off ends the wait for the thread, unless that thread    *)
(* has come to wait for the GTK thread to close its dialog.                  *)
StopReturns == gtk = "join" ~> gtk # "join" \/ place[tinfo] = "dialog"

--------------------------------------------------------------------------------
(* What the GUI sees: the switch is off as soon as the cleanup begins, since *)
(* nothing else of the GUI runs before the join has returned.                *)
Cancelling == tinfo # Null /\ place[tinfo] \in InCleanup \cup {"cancelled"}
ShownSwitch ==
    \/ gtk = "set on"
    \/ gtk = "join" /\ ~Cancelling
    \/ gtk \notin {"set on", "join"} /\ motorSwitch

ThreadSeen ==
    IF created = 0 \/ created \in joined THEN "none"
    ELSE CASE place[created] \in {"start", "hello"} -> place[created]
           [] place[created] \in {"poll", "turn", "post", "error"} -> "loop"
           [] place[created] \in {"opening", "dialog", "leaving", "ended"} -> "ended"
           [] OTHER -> "none"

Motor == INSTANCE Motor WITH motorSwitch <- ShownSwitch, thread <- ThreadSeen
ImplementsMotor == Motor!Spec

================================================================================
