----------------------------- MODULE CommandPipeline -----------------------------
(***************************************************************************)
(* What the GUI relies on when it hands a command to the message handler:  *)
(* commands finish one after the other in the order they were accepted,    *)
(* each posts the callback of its own kind exactly once, and the callbacks *)
(* run in that order.  HELLO_THERE comes once.  It is the first unless the *)
(* flag that lets the GUI submit is left from an earlier connection.       *)
(* SerialThread implements this with ids, a ring, two queues and a handler *)
(* table, as long as no two callers submit at the same time.               *)
(***************************************************************************)
EXTENDS Naturals, Sequences

CONSTANTS Capacity,  \* commands that may be unfinished at once
          Callbacks,
          HelloDone  \* the callback of HELLO_THERE

VARIABLES waiting,  \* callbacks of the unfinished commands, oldest first
          posted,   \* callbacks the main loop has yet to run, oldest first
          greeted,  \* HELLO_THERE has been submitted
          open      \* the GUI may submit: threadRunning_

vars == <<waiting, posted, greeted, open>>

(* Nothing resets threadRunning_ when a connection begins. *)
Init == waiting = <<>> /\ posted = <<>> /\ greeted = FALSE /\ open \in BOOLEAN

HasRoom == Len(waiting) < Capacity

(* Nobody asks whether HELLO_THERE was accepted. *)
Greet ==
    /\ ~greeted
    /\ greeted' = TRUE
    /\ waiting' = IF HasRoom THEN Append(waiting, HelloDone) ELSE waiting
    /\ UNCHANGED <<posted, open>>

Open ==
    /\ greeted
    /\ open' = TRUE
    /\ UNCHANGED <<waiting, posted, greeted>>

Submit(cb) ==
    /\ open
    /\ HasRoom
    /\ cb # HelloDone
    /\ waiting' = Append(waiting, cb)
    /\ UNCHANGED <<posted, greeted, open>>

Complete ==
    /\ waiting # <<>>
    /\ posted' = Append(posted, Head(waiting))
    /\ waiting' = Tail(waiting)
    /\ UNCHANGED <<greeted, open>>

Deliver ==
    /\ posted # <<>>
    /\ posted' = Tail(posted)
    /\ UNCHANGED <<waiting, greeted, open>>

Next == Greet \/ Open \/ (\E cb \in Callbacks : Submit(cb)) \/ Complete \/ Deliver

Spec == Init /\ [][Next]_vars

================================================================================
