--------------------------------- MODULE Ordering ---------------------------------
(***************************************************************************)
(* src/callbacks_position.c and the new-mixing function of                 *)
(* src/proto_serial.c: what the user may click, and how the buttons and    *)
(* the step counter follow the commands.  The connection is the one Motor  *)
(* specifies and Connection implements, its command queue the one          *)
(* CommandPipeline specifies and SerialThread implements; a new queue      *)
(* begins with every turn of the motor switch, while callbacks posted by   *)
(* an earlier one may still be waiting for the GTK main loop.  A command   *)
(* is accepted in one step here: what SerialThread says of calls that      *)
(* overlap is left to it.                                                  *)
(* A recipe is known by its ingCount.  Interrupts says what may happen     *)
(* beside orders and moves on a healthy connection:                        *)
(*   "switch"  the user turns the motor off while commands are unfinished  *)
(*   "error"   the worker enters its error state                           *)
(*   "read"    the serial thread leaves its loop without an error          *)
(*   "id"      an ingredient's id does not fit the lookup's uint8_t        *)
(***************************************************************************)
EXTENDS Naturals, Sequences, FiniteSets

CONSTANTS Recipes, NoRecipe,
          Capacity,    \* commands a connection holds
          CounterMod,  \* recipeStepDoneCounter_ is uint16_t: 65536
          Interrupts,
          MaxPosted    \* bound: callbacks waiting for the main loop

ASSUME RecipesAssumption == Recipes \subseteq Nat /\ NoRecipe \notin Recipes
ASSUME CounterAssumption == CounterMod \in Nat \ {0} /\ \A r \in Recipes : r + 1 < CounterMod
ASSUME RecipesFit == Capacity \in Nat /\ 3 <= Capacity /\ \A r \in Recipes : r + 3 <= Capacity
ASSUME InterruptsAssumption == Interrupts \subseteq {"switch", "error", "read", "id"}
ASSUME MaxPostedAssumption == MaxPosted \in Nat

VARIABLES activeRecipe,    \* activeRecipe_
          stepDone,        \* recipeStepDoneCounter_
          adding,          \* steps the order callback has yet to add
          orderSensitive, orderActive,         \* recipeOrderButton_
          comboSensitive,                      \* recipeComboBox_
          moveSensitive,   \* the manual buttons of each axis
          motorSwitch, threadRunning, thread,  \* of Motor
          waiting, posted, greeted             \* of CommandPipeline

widgets == <<orderSensitive, orderActive, comboSensitive, moveSensitive>>
order == <<activeRecipe, stepDone, adding>>
connection == <<motorSwitch, threadRunning, thread>>
queue == <<waiting, posted, greeted>>
vars == <<order, widgets, connection, queue>>

HelloDone == "cb_cmd_hello_there_done"
StepDone == "cb_cmd_step_done"
MoveDone == [x |-> "cb_cmd_move_x_done", y |-> "cb_cmd_move_y_done"]
Axes == DOMAIN MoveDone
Callbacks == {HelloDone, StepDone} \cup {MoveDone[axis] : axis \in Axes}

Pipeline == INSTANCE CommandPipeline WITH open <- threadRunning
Motor == INSTANCE Motor

(* populateStackPage_Two: orders wait for a connection. *)
OrderPage == orderSensitive = FALSE /\ orderActive = FALSE /\ comboSensitive = TRUE

(* populateStackPage_Three: the eight x buttons are disabled and enabled    *)
(* together, and none of the buttons waits for a connection.                *)
ManualPage == moveSensitive = [axis \in Axes |-> TRUE]

Init ==
    /\ activeRecipe = NoRecipe /\ stepDone = 0 /\ adding = 0
    /\ OrderPage
    /\ ManualPage
    /\ Motor!Init
    /\ waiting = <<>> /\ posted = <<>> /\ greeted = FALSE

(* message_handler_add_outgoing; its result is the caller's business. *)
BugAccept(cb) ==
    /\ waiting' = IF Len(waiting) + 1 < Capacity THEN Append(waiting, cb) ELSE waiting
    /\ UNCHANGED posted
Accept(cb) ==
    /\ waiting' = IF Len(waiting) < Capacity THEN Append(waiting, cb) ELSE waiting
    /\ UNCHANGED posted

(* The order callback holds the GTK thread while it adds steps; nothing     *)
(* else of the GUI runs meanwhile, but the serial thread does.              *)
GtkFree == adding = 0

--------------------------------------------------------------------------------
(* The motor switch *)

(* A start that succeeds: message_handler_init empties the queues, then the *)
(* thread starts.  One that fails changes nothing here.                     *)
SwitchOn ==
    /\ GtkFree
    /\ Motor!On
    /\ waiting' = <<>> /\ greeted' = FALSE
    /\ UNCHANGED <<order, widgets, posted>>

AtRest == thread = "loop" /\ waiting = <<>> /\ posted = <<>>

BugDisableOrder == UNCHANGED orderSensitive
DisableOrder == orderSensitive' = FALSE

SwitchOff ==
    /\ GtkFree
    /\ "switch" \in Interrupts \/ AtRest
    /\ Motor!Off
    /\ DisableOrder
    /\ UNCHANGED <<order, orderActive, comboSensitive, moveSensitive, queue>>

--------------------------------------------------------------------------------
(* The serial thread *)

SendHello ==
    /\ Motor!Hello
    /\ Accept(HelloDone)
    /\ greeted' = TRUE
    /\ UNCHANGED <<order, widgets>>

EnterLoop == Motor!Enter /\ UNCHANGED <<order, widgets, queue>>

(* The oldest command gets its DONE, and its callback is posted. *)
Complete ==
    /\ thread = "loop"
    /\ Len(posted) < MaxPosted
    /\ Pipeline!Complete
    /\ UNCHANGED <<order, widgets, motorSwitch, thread>>

(* cb_error_serial_communication, on the serial thread *)
ErrorExit ==
    /\ "error" \in Interrupts
    /\ Motor!End
    /\ orderSensitive' = FALSE
    /\ comboSensitive' = TRUE
    /\ UNCHANGED <<order, orderActive, moveSensitive, queue>>

ReadExit ==
    /\ "read" \in Interrupts
    /\ Motor!End
    /\ UNCHANGED <<order, widgets, motorSwitch, queue>>

--------------------------------------------------------------------------------
(* Orders and manual moves *)

(* drinks_io_get_recipe_by_id finds the recipe of every row of the list. *)
SelectRecipe(r) ==
    /\ GtkFree
    /\ comboSensitive
    /\ activeRecipe' = r
    /\ UNCHANGED <<stepDone, adding, widgets, connection, queue>>

(* proto_comms_start_new_mixing: a step for each ingredient and a last one  *)
(* to the final position.                                                   *)
BugSteps == activeRecipe
Steps == activeRecipe + 1

BugLockRecipe == UNCHANGED comboSensitive
LockRecipe == comboSensitive' = FALSE

(* proto_comms_thread_running *)
BugConnected == TRUE
Connected == threadRunning

(* The button goes down with a recipe chosen, a connection and, as          *)
(* Positions tells, every ingredient in its place; otherwise it comes up    *)
(* again and nothing has changed.                                           *)
Order ==
    /\ GtkFree
    /\ orderSensitive /\ ~orderActive
    /\ activeRecipe # NoRecipe
    /\ Connected
    /\ adding' = Steps
    /\ orderActive' = TRUE
    /\ DisableOrder /\ LockRecipe
    /\ UNCHANGED <<activeRecipe, stepDone, moveSensitive, connection, queue>>

OrderReleased ==
    /\ GtkFree
    /\ orderSensitive /\ orderActive
    /\ orderActive' = FALSE
    /\ UNCHANGED <<order, orderSensitive, comboSensitive, moveSensitive, connection, queue>>

(* proto_comms_start_new_mixing, a step at a time: a step that is refused   *)
(* ends it, and what was added before stays.                                *)
AddStep ==
    /\ adding > 0
    /\ adding' = IF Len(waiting) < Capacity THEN adding - 1 ELSE 0
    /\ Accept(StepDone)
    /\ UNCHANGED <<activeRecipe, stepDone, widgets, connection, greeted>>

StepHasNoPlace ==
    /\ "id" \in Interrupts
    /\ adding > 1
    /\ adding' = 0
    /\ UNCHANGED <<activeRecipe, stepDone, widgets, connection, queue>>

(* cb_on_manual_pos_toggle and cb_on_manual_pos_y_toggle; without a         *)
(* connection the button comes up again.                                    *)
Move(axis) ==
    /\ GtkFree
    /\ moveSensitive[axis]
    /\ Connected
    /\ moveSensitive' = [moveSensitive EXCEPT ![axis] = FALSE]
    /\ Accept(MoveDone[axis])
    /\ UNCHANGED <<order, orderSensitive, orderActive, comboSensitive, connection, greeted>>

--------------------------------------------------------------------------------
(* The callbacks the main loop runs for finished commands *)

Run(cb) == GtkFree /\ posted # <<>> /\ Head(posted) = cb /\ Pipeline!Deliver

RunHelloDone ==
    /\ Run(HelloDone)
    /\ orderSensitive' = TRUE
    /\ UNCHANGED <<order, orderActive, comboSensitive, moveSensitive, connection>>

(* cb_cmd_step_done *)
BugMaxMoves == activeRecipe
MaxMoves == activeRecipe + 1

BugCounted == stepDone + 1
Counted == (stepDone + 1) % CounterMod

StepCounted ==
    /\ Run(StepDone)
    /\ Counted # MaxMoves
    /\ stepDone' = Counted
    /\ UNCHANGED <<activeRecipe, adding, widgets, connection>>

(* The bug: the recipe is taken back with the order. *)
BugFinishOrder == stepDone' = 0 /\ activeRecipe' = NoRecipe
FinishOrder == stepDone' = 0 /\ UNCHANGED activeRecipe

(* The last step: "Drink ist fertig!" *)
DrinkReady ==
    /\ Run(StepDone)
    /\ Counted = MaxMoves
    /\ FinishOrder
    /\ orderSensitive' = TRUE /\ orderActive' = FALSE
    /\ comboSensitive' = TRUE
    /\ UNCHANGED <<adding, moveSensitive, connection>>

BugEnableMove(axis) == moveSensitive' = [a \in Axes |-> TRUE]
EnableMove(axis) == moveSensitive' = [moveSensitive EXCEPT ![axis] = TRUE]

RunMoveDone(axis) ==
    /\ Run(MoveDone[axis])
    /\ EnableMove(axis)
    /\ UNCHANGED <<order, orderSensitive, orderActive, comboSensitive, connection>>

RunPosted ==
    RunHelloDone \/ StepCounted \/ DrinkReady \/ \E axis \in Axes : RunMoveDone(axis)

Serial == SendHello \/ EnterLoop \/ Complete \/ ErrorExit \/ ReadExit

User ==
    \/ SwitchOn \/ SwitchOff \/ Order \/ OrderReleased
    \/ \E r \in Recipes : SelectRecipe(r)
    \/ \E axis \in Axes : Move(axis)

Next == User \/ Serial \/ AddStep \/ StepHasNoPlace \/ RunPosted

Spec == Init /\ [][Next]_vars

--------------------------------------------------------------------------------
TypeOK ==
    /\ activeRecipe \in Recipes \cup {NoRecipe}
    /\ stepDone \in 0 .. CounterMod - 1
    /\ adding \in Nat
    /\ orderSensitive \in BOOLEAN /\ orderActive \in BOOLEAN /\ comboSensitive \in BOOLEAN
    /\ moveSensitive \in [Axes -> BOOLEAN]
    /\ motorSwitch \in BOOLEAN /\ threadRunning \in BOOLEAN
    /\ thread \in {"none", "start", "hello", "loop", "ended"}
    /\ waiting \in Seq(Callbacks) /\ posted \in Seq(Callbacks) /\ greeted \in BOOLEAN

Places(q, cb) == {i \in DOMAIN q : q[i] = cb}
Outstanding(cb) == Cardinality(Places(waiting, cb)) + Cardinality(Places(posted, cb))

(* Without interrupts, every step of an order is counted, still to come or  *)
(* still to be added, from the click to the dialog; and no others are.      *)
StepsAccounted ==
    stepDone + Outstanding(StepDone) + adding = IF comboSensitive THEN 0 ELSE Steps

(* Commands of the manual buttons do not get between the steps of an order. *)
OrderIsUndisturbed ==
    \A i, j, k \in DOMAIN waiting :
        i < j /\ j < k /\ waiting[i] = StepDone /\ waiting[k] = StepDone
            => waiting[j] = StepDone

(* A manual button is off exactly while its move is under way. *)
ButtonsFollowMoves ==
    \A axis \in Axes :
        Outstanding(MoveDone[axis]) = IF moveSensitive[axis] THEN 0 ELSE 1

(* Whatever interrupts it, no second move of an axis is ordered while the   *)
(* callback of the first may still come.                                    *)
NoSecondMove ==
    \A axis \in Axes :
        Outstanding(MoveDone[axis]) <= IF moveSensitive[axis] THEN 0 ELSE 1

(* A recipe is never changed under the steps that were made from it. *)
MixingKeepsRecipe ==
    [][Outstanding(StepDone) + adding > 0 => activeRecipe' = activeRecipe]_vars

(* cb_cmd_step_done dereferences activeRecipe_ unchecked, also for callbacks *)
(* left from an earlier connection.                                          *)
NoNullRecipe == Outstanding(StepDone) + adding > 0 => activeRecipe # NoRecipe

(* Recipes that fit the queue leave room for the manual moves: nothing the  *)
(* user can click is refused.                                               *)
NothingRefused ==
    [][adding' < adding \/ moveSensitive' # moveSensitive
        => Len(waiting') + Len(posted') # Len(waiting) + Len(posted)]_vars

(* The GUI keeps the contract of a connection, whatever interrupts it and   *)
(* whatever flag the last one has left: a command is only submitted while   *)
(* threadRunning_ allows it, and HELLO_THERE once, by the thread.           *)
NewConnection == waiting' = <<>> /\ ~greeted' /\ UNCHANGED posted
UsesPipeline == [][Pipeline!Next \/ NewConnection]_queue

(* The switch shows off only when no thread drives the machine. *)
SwitchShowsConnection == Motor!SwitchShowsConnection

(* The commands are answered, the callbacks run and the order callback      *)
(* returns; nothing is assumed of the user.                                 *)
Fairness == WF_vars(Complete) /\ WF_vars(RunPosted) /\ WF_vars(AddStep)

FairSpec == Spec /\ Fairness

(* An order that was begun ends with the button ready for the next. *)
EventuallyReady == orderActive ~> orderSensitive /\ ~orderActive /\ comboSensitive

--------------------------------------------------------------------------------
(* What the code keeps only as long as nothing interrupts a connection. *)

(* An active order button has a connection behind it (pages.c:218). *)
OrderNeedsConnection == orderSensitive => thread = "loop"

(* callbacks_position.c:559 "Drink ist fertig!": at that moment no step of  *)
(* an order is left.                                                        *)
DrinkReadyMeansReady ==
    [][DrinkReady => Outstanding(StepDone)' = 0]_vars

================================================================================
