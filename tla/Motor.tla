----------------------------------- MODULE Motor -----------------------------------
(***************************************************************************)
(* What the rest of the GUI sees of a connection: the motor switch, the    *)
(* flag that proto_comms_thread_running returns, and how far the thread of *)
(* the latest connection has come.  Connection implements this with ports, *)
(* handles and cancellation, and Ordering is built on it.                  *)
(***************************************************************************)
VARIABLES motorSwitch,    \* what the switch shows
          threadRunning,  \* threadRunning_
          thread          \* "none", or where the latest thread is

vars == <<motorSwitch, threadRunning, thread>>

Init == motorSwitch = FALSE /\ threadRunning = FALSE /\ thread = "none"

Live == thread \in {"start", "hello", "loop"}

On ==
    /\ ~motorSwitch
    /\ motorSwitch' = TRUE
    /\ thread' = "start"
    /\ UNCHANGED threadRunning

Hello == thread = "start" /\ thread' = "hello" /\ UNCHANGED <<motorSwitch, threadRunning>>

Enter == thread = "hello" /\ thread' = "loop" /\ threadRunning' = TRUE /\ UNCHANGED motorSwitch

BugEnded == "loop"
Ended == "ended"

(* The thread leaves its loop by itself.  An error also sets the switch off, *)
(* which the callback that has just turned it on may undo.                   *)
End ==
    /\ thread = "loop"
    /\ thread' = Ended
    /\ motorSwitch' \in {FALSE, motorSwitch}
    /\ UNCHANGED threadRunning

FlagsWhenOff == IF Live THEN {FALSE} ELSE {FALSE, threadRunning}

(* A live thread is cancelled, and its cleanup resets the flag; for one that *)
(* has left its loop this depends on how far it has come.                    *)
Off ==
    /\ motorSwitch
    /\ motorSwitch' = FALSE
    /\ thread' = "none"
    /\ threadRunning' \in FlagsWhenOff

Next == On \/ Hello \/ Enter \/ End \/ Off

Spec == Init /\ [][Next]_vars

(* The switch shows off only when no thread drives the machine. *)
SwitchShowsConnection == ~motorSwitch => ~Live

================================================================================
