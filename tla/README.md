# Ultramat: specification, model checking and proofs

Ultramat is the user interface of a drink mixing robot: a GTK program in C that
lets a user place ingredients, order a recipe or move the machine by hand, and a
thread that speaks with the machine's microcontroller over a serial line. This
directory specifies the parts of it in which something can go wrong that a test
would hardly reach: the queues between the two threads, the protocol of the
message handler, the life of connections and their threads, the ingredient page,
the files it is filled from, and the buttons that follow all of this.  The
specifications are checked with TLC on small instances, and the most important
results are proved with TLAPS for all values of the constants.

## The system

| part | state | operations | talks to |
|---|---|---|---|
| ring buffer, message queues (`util/ring_buffer.c`, `util/queue.c`) | head and tail index, 32 slots | put or push, pop, peek, is empty, is full (find: no caller) | written by one thread, read by the other, no lock |
| command handler (`command_handler.c`) | table of 32 (id, function), write index | init, add, execute_done | posts callbacks to the GTK main loop |
| message handler (`message_handler.c`) | ring of ids waiting for a DONE, `outQ_`, `inQ_`, state IDLE / SEND_CMD / DONE_PENDING / ERROR, last error, timeout | init, add_outgoing, add_incoming, process | add_outgoing is called by the GTK and by the serial thread, the rest by the serial thread |
| life of connections (`proto_serial.c`, motor switch of `callbacks_position.c`) | `ser_`, `tinfo_`, `threadRunning_`, the switch | start with its four calls that may fail, cancel and join, cleanup, error dialog | GTK thread, serial thread, port |
| serial thread (`proto_serial.c`) | its place in the thread function | HELLO_THERE, then poll, read, process; send, start a new mixing | serial line, message handler, GUI |
| ingredient page (`callbacks_position.c`, `pages.c`, store of `drinklists.c`) | `activeIngredients_[9]`, the row each combo box shows, `images_[9]` | entry chosen, reset clicked, look an ingredient up | read by an order |
| orders, manual moves, motor switch (`callbacks_position.c`) | `activeRecipe_`, `recipeStepDoneCounter_`, which widgets are sensitive | the callbacks of the widgets, and those posted for finished commands | message handler, serial thread |
| files (`drinks.c`, `util/dynamic_array.c`) | ingredients and recipes | read once at the start | GUI |
| version check (`lua/check_latest_version.lua`) | none | compare the firmware with the latest release | release server |
| window, pages, build | | built once | |

How a command travels: a GTK callback builds a `Message` and calls
`message_handler_add_outgoing`, which numbers it, puts the id into the ring,
the message into `outQ_` and its handler into the table.  The serial thread
pops the message, writes it and waits in DONE_PENDING.  The microcontroller
carries it out and answers DONE with the same id.  The serial thread reads the
response into `inQ_`; if its id is the oldest in the ring, the handler found in
the table posts a callback to the GTK main loop, which enables buttons again.

What is hard about it:

- two threads share the ring, a queue and the table without a lock, and
  `add_outgoing` has two callers;
- ids are cut to 8 bits, table slots are reused and never cleared, refused
  calls use up ids;
- the line has no frames, and messages, answers or bytes may get lost;
- a thread can end in four ways (cancelled, by an error, by a failed read, by a
  full queue), and only one of them cleans up;
- a cancellation may act in the middle of a turn, the GTK thread waits for the
  thread it cancels, and `ser_`, `tinfo_` and the queues have no owner: a new
  connection may begin while the thread of the last is still in its dialog;
- callbacks posted by one connection can run in the next, and the widgets and
  the step counter live longer than any connection;
- the nine places of the ingredients have three numberings.

The properties that make each part correct are listed with its module below;
`PROJECT.json` lists the hazards at their lines with the properties that watch
them.

## The modules

```
BoundedFifo      <-- implemented by --  RingBuffer      RingBuffer_proofs
CommandPipeline  <-- implemented by --  SerialThread    SerialThread_proofs
      ^                                    | extends    CommandPipeline_proofs
      | uses                            MessageHandler
   Ordering      Ordering_proofs           | extends
      | uses                            CommandHandler
      v
Motor            <-- implemented by --  Connection      Connection_proofs

   Positions     MCPositions            Positions_proofs
   Drinks                               Drinks_proofs
   Versions (definitions and theorems)
```

**BoundedFifo** says what the callers of the three buffers rely on: an atomic
bounded first-in first-out buffer.  **RingBuffer** is the code, one action for
each access of either thread to an index or a slot.  The two queues are the
same code with another kind of item.  Stores are seen in program order, which is
what gcc emits for x86 and what the optimiser leaves of these functions.  The
abstract buffer changes at the store of the index (`PutAdvance`, `PopAdvance`).

**CommandHandler** is the table and the queue of callbacks posted with
`gdk_threads_add_idle`.  An add is two steps, because the serial thread may
look between its two stores.

**MessageHandler** has `add_outgoing` one statement at a time for every caller
(`adder[t].pc` says how far it has come), and `process` with one action for
each state and branch.  The end of the DONE_PENDING case, the look at `outQ_`
for which the response has already been handled, is an action of its own
(`DoneLook`), since the other thread may push in between; `processPc` remembers
that it is still to come.  A turn that handles a DONE posts its callback
(`message_handler.c:120`), pops the ring (`:123`) and looks whether it is empty
(`:125`); `CompleteOldest` is all three.  A call of the GUI that takes its place in
the ring in between leaves what it leaves by taking it just before, and the GUI of
SerialThread may call at any time, so its states are reached.  Only Ordering ties
calls to callbacks: there a click that the callback has allowed could meet the
ring with the finished id still in it, and be refused by a queue that is full to
the last place, which takes a recipe of 28 ingredients and a click within a few
instructions (`RecipesFit`).
Queues are sequences here, which `RingBuffer` justifies for one
writer and one reader.  `waited` is the time since the timeout was started.

`overlapped` remembers that two calls of `add_outgoing` have been under way at
once.  The code has no lock (`message_handler.c:184`), and what two writers do to
a ring, a queue and the counter is a data race, of which the models show less than
the machine may do.  So whatever depends on the order of the steps of one call
is claimed until calls overlap, and not after.

**SerialThread** is one connection: the thread function with the places
`start`, `hello`, `poll`, `process`, `exited`, the GUI that asks
`threadRunning_` first, the line in both directions and the microcontroller.
`threadRunning` begins with either value: no start resets it, and a thread that
left its loop by itself (`proto_serial.c:249`) leaves it on for the connection
after it.  Then the GUI's calls may come before HELLO_THERE or together with it.
`Faults` says what the microcontroller, the line and the port may do besides
answering in order; with `Faults = {}` the microcontroller is conforming.
`EarlyReply` says whether an answer may arrive before the call that sent its
command has returned.

**CommandPipeline** is what the GUI relies on: commands finish in the order in
which they were accepted, and each posts the callback of its own kind once; the
GUI submits only while `open` (`threadRunning_`) lets it; HELLO_THERE is sent
once, and like any command it is refused when there is no room, which nobody
asks.  It need not be the first: `open` may be left from an earlier connection.
`SerialThread!ImplementsPipeline` shows that a connection does that until two
calls overlap; the refinement mapping takes `waiting` from the ring of ids and
the handler of each, `posted` from the idle queue, and `open` from
`threadRunning`.

**Connection** is the life of connections: the handle in `ser_` and what has
become of its port, `tinfo_`, every thread that was ever created, pending
cancellations, and what the GTK thread is doing inside the callback of the
motor switch (`gtk`).  The n-th start allocates handle n and creates thread n,
so that a property can say whose port a thread uses.  `stopTried` are the ports to
which the cleanup tried to write STOP while they were open: whether the write
worked is not asked (`proto_serial.c:195`).  The thread function is
cut where a cancellation can act or where the other thread can see a difference;
what it does with messages is SerialThread.  `Failures` are the calls that may
fail and the two ways in which a thread leaves its loop by itself.
`contextLocked` is a cancellation that acted while the thread held the lock of
the main loop.

**Motor** is what the rest of the GUI sees of that: the switch, the flag and
the place of the latest thread.  `Connection!ImplementsMotor` shows that it sees
no more; the refinement mapping turns the switch off where the cleanup begins,
because no other callback runs before the join has returned.

**Ordering** is the other side: the callbacks of the order page, of the manual
buttons and of the switch, over as many connections as the user makes.  Each is
a Motor, its queue a CommandPipeline; a new queue begins with every turn of the
switch.  `posted` survives a connection as the idle queue does.  `adding` is the
number of steps that `proto_comms_start_new_mixing` still has to add: it runs
inside a GTK callback, so the rest of the GUI waits (`GtkFree`) while the serial
thread goes on.  `UsesPipeline` is the composition: whatever the GUI does with a
connection is a step of CommandPipeline with Motor's flag as `open`, also when the
flag is left from the connection before.  A command is accepted in one step here;
calls that overlap are SerialThread's.  A failed start of Connection changes
neither the buttons nor the order, and is no step here.

**Positions** is the ingredient page: the list store with its icons, nine
places, their combo boxes, images and reset buttons, and `PositionById` and
`Step`, with which an order becomes steps.  **MCPositions** gives the ingredient
file.

**Drinks** is one call of either function that reads a file.  A file is made of
symbols (words, numbers, separators, newlines), and every call of `fgets` and
`strtok` takes what it takes in the code, including the change of separator in
the middle of a line.  Where the code gives a NULL to `strncpy`, `atoi` or
`strcmp`, the model has crashed.  `Files` are what someone may have written:
lines as the shipped files have them, without the last separator, without the
newline, without an id, blank, or too long.

**Versions** is the comparison of the Lua script, which is a formula, and the
order of versions it is meant to be.  It has no states to check; both theorems
are proved.

### From the code to the models

| code | model |
|---|---|
| `uint8_t` ids, `COMMANDS_MAX_PENDING`, `QUEUE_MAX_SIZE`, `RING_BUFFER_MAX_SIZE` | `IdMod`, `CmdSlots`, `QueueSize`, `Size` |
| `ser_`, `tinfo_`, `threadRunning_` | `ser`, `tinfo`, `threadRunning` of Connection |
| `pthread_cleanup_push`, `_pop(0)` | only `CancelActs` leads into the cleanup, `Leave` does not |
| `recipeStepDoneCounter_`, a `uint16_t` | `stepDone`, modulo `CounterMod` |
| row i of the ingredient store, `ICON_PATHS` | `IngredientList[i]`, `IconOf(i)` |
| the `uint8_t` of `cb_get_position_by_id` | `% ByteMod` |
| a `Recipe` | its `ingCount` |
| a failing `assert` | `aborted` |
| texts, labels, payloads, the progress bar | left out |

## The runs

| run | question and answer |
|---|---|
| ring | a ring of 4 slots, all interleavings of two threads: an atomic FIFO, no slot written while it is copied |
| serial | conforming microcontroller, whose answers may overtake the end of `add_outgoing`: the ring of ids is exactly what is under way, no response is dropped, no waiting id is used twice, each queued message finds its own handler in a table whose slots and ids come round; all this until two calls of `add_outgoing` overlap, which happens only at HELLO_THERE of a connection that found the flag of an earlier thread |
| faults | answers lost, repeated, replaced by errors, merged: until calls overlap still an implementation of CommandPipeline |
| live | lost answers, errors, EMERGENCY_STOPs, merged and split answers, failing reads and writes: every accepted command is answered, the thread ends or calls have overlapped |
| drinks | every file of two lines, well written or not: a good line is read as it was written whatever stands before it, no good file crashes the parser, every file comes to an end |
| positions | no ingredient in two places, boxes and images show what is used, but for a place whose reset has just ended the program; an order finds each placed ingredient where it is and draws those at the pumps from their pump |
| connection | four connections, every call failing or not, cancellations everywhere: a thread uses its own port, a cancelled one has tried to stop the machine and has closed its port, a stop returns, and the GUI sees a Motor |
| ordering | orders and moves over healthy connections: every step is counted once, nothing clickable is refused, moves do not get between the steps of an order, the recipe stays, and an order that was begun ends with the button ready for the next |
| interrupted | errors, dying threads and the switch at any moment, and what earlier connections left: no callback finds a NULL recipe, no axis gets a second move, the switch never shows off over a live thread, and each connection is still used as CommandPipeline says, with the flag of the last one too |

Three runs find what the code does against a comment or an assert of its own;
`PROJECT.json` quotes each line.

| run | what it shows |
|---|---|
| masked_error | an ERROR answer is forgotten when another message waits: the look at `outQ_` in DONE_PENDING sets SEND_CMD over the error state |
| step_positions | the x position of a bar butler's step is not the one of its box: the lookup takes the array index, two too many |
| stale_steps | "Drink ist fertig!" too early after an interrupted order: the step counter outlives the connection |

Every property of a passing run also has a mutant, a plausible bug in the
definition of one step, which that run catches.

### Where the code departs from its comments

Observed while modelling, without a run of their own.  Most follow from a
definition that is in the models as the code has it:

- `ring_buffer_find` (`util/ring_buffer.c:70`) compares `buffer[i]` counted from
  slot 0, not from the tail.  Nothing calls it, and it is not modelled.
- An answer that is handled between the push and `command_handler_add`
  (`message_handler.c:202`) executes no handler, or that of an older command.
  With `EarlyReply = TRUE` the property `ImplementsPipeline` fails for this
  reason (and so it does if an answer is both repeated and split, as the half
  without an id can pass for the answer to command 0: `faults` leaves "split"
  to `live`); the properties of `serial` do not depend on it.
- `ERROR_SERIAL_WRITE` and `ERROR_SERIAL_READ` (`message_handler.c:30-31`) are
  never set: after a failed write the dialog shows the text of an earlier error
  or the initial one, after a failed read there is no dialog.
- Two DONEs that one read returns (`proto_serial.c:55`) are decoded as one
  response, in which the last id wins: an out-of-order error for answers in order.
- The worker waits `WORKER_TIMEOUT_DONE`, 90 seconds; the comment at
  `message_handler.c:283` says 60.
- The lookup gives a bar butler its array index as x position
  (`callbacks_position.c:502`), two more than the position its combo box was
  given (`pages.c`, `cb_get_array_index`), and an ingredient in the last two bar
  butlers becomes a step to FINAL or beyond (`proto/commands.proto:29`).  The run
  step_positions shows it (`StepsFollowBoxes`); `OrderFindsPlaces` says what does
  hold: the lookup finds the right place, and the pumps get the right step.
- The assert of the reset (`callbacks_position.c:68`) bounds the place by 7
  positions, not by the 9 places: a reset of one of the last two, and a second
  choice of an ingredient in their boxes, ends the program.  `ShownIsActive` says
  that this is the only way in which box and array come to differ.
- A ninth line of the ingredient file reads beyond `ICON_PATHS`
  (`drinklists.c:55`).  Two lines with the same id show the row that was chosen,
  but the machine is given the first record.
- "stop serial connection" (`callbacks_position.c:585`) is what the error
  callback says and does not do: the thread ends without its cleanup, the port
  stays open, `threadRunning_` true, and the machine is sent no STOP.  Quitting
  the program sends none either.  `LeaksExplained` says when a port is left open.
- `cb_on_motor_switch_toggle` sets the switch on after the thread was created
  (`callbacks_position.c:433`).  If the thread has failed by then, the switch
  shows on over an ended thread; the next stop joins it and closes nothing.
- The switch can be turned off while the thread is about to open its error
  dialog: the GTK thread waits in `pthread_join`, the thread for a click that
  only the GTK thread can take.  Whether the program hangs depends on GTK acting
  on the cancellation; `StopReturns` excepts this wait and no other.
- A cancellation that acts in the write of `gdk_threads_add_idle`
  (`command_handler.c`) ends the thread with the lock of the main loop held:
  the machine is stopped (`CleanStop`), but the window hangs (`contextLocked`).
- If `pthread_create` fails, the handle is freed without `serial_close`: the
  descriptor is lost.
- `message_handler_init` tests `ret > 0` of functions that return only 0.
- A HELLO_THERE callback that runs after its connection was stopped makes the
  order button active without one (`callbacks_position.c:514`).  The property
  `OrderNeedsConnection` therefore holds in `ordering` and not in `interrupted`.
- A recipe line without its last separator or without its newline, or with a
  name and no id, ends the program: `strcmp` or `atoi` is given NULL
  (`drinks.c:88`, `:127`).  `GoodFilesLoad` says which lines are safe.
- `threadRunning_` survives a thread that ended with an error or a failed read
  (`proto_serial.c:249`), and no start resets it (`:146-183`).  In the connection
  after it the GUI's commands may be accepted before HELLO_THERE, which then may be
  refused, and a call of the GUI may overlap that of the serial thread: the race
  that the TODO at `message_handler.c:184` names.  `OverlapExplained` says that it
  can happen nowhere else, and `CleanStartsNeverOverlap` that it cannot happen if
  the flag was off; `NoConcurrentAdds` alone fails after a GUI call and `SendHello`.

### Bounds

- `Size = 4`, `QueueSize = 3`: a full, an empty and a wrapped buffer, and more
  than one item in between.  The proofs hold for every size.
- `IdMod = 3` to `5`, `CmdSlots = 2` or `3`, more than what can be pending: ids and slots come round within
  a few commands.  `idCounter` starts anywhere, as an earlier connection may
  have left it.
- `MaxRejected` bounds how many calls in a row a full ring refuses.  This is an
  assumption about the environment: each refused call uses up an id.  No id
  waits twice while `Capacity * (MaxRejected + 1) < IdMod` (`WaitingIdsDiffer`),
  which the code's 31 waiting commands and 256 ids give for up to seven refusals
  between two accepted calls.  The handler table keeps the ids of the last
  `CmdSlots` accepted calls, so it needs `(CmdSlots - 1) * (MaxRejected + 1) <
  IdMod`, which the code's 32 slots and 256 ids give for up to seven refusals
  before each accepted call; `serial` is at that limit.  The GUI turns its
  buttons off after a refused call.
- `UntilOverlap`, a constraint of `serial`, `faults` and `live`: they follow a
  connection through the state in which two calls first overlap, and not beyond.
  Their properties claim nothing of what comes after it but the types,
  `SendHasMessage` and `OverlapExplained`, which are proved without the constraint.
- Before the thread begins, the GUI of the models leaves HELLO_THERE a place or
  one of the `MaxRejected` refusals (`GuiRequest`): a bound, without which the
  bound on refusals would stop the serial thread.
- `MaxIdle`, `MaxPosted`: callbacks that wait for the main loop.  The code has
  no limit; one or two behind another are enough to mix connections.
- `DoneTimeout = 0` or `1`: only the order of reaching it and of other events
  matters.
- `MaxLine`: what may be on the line when an unasked response is sent.
- `Commands` in `faults` and `live` is one kind, beside HELLO_THERE: two
  callbacks are enough to tell whose is posted.  `serial` has two.
- `0 \in Recipes`: a line of the recipe file can have no pairs at all.
  `RecipesFit` assumes that an order and two moves fit the queue (31), which
  holds for recipes of up to 28 ingredients; the shipped ones have two.
- `Numbers = {1, 5}`, `IdMod = CountMod = 4` in `drinks`: a number that fits and
  one that does not.  `BufferSize = 15` symbols hold every line of two pairs but
  the one with the long name.  `InitialSize = 1`, where a growth rounded down
  would stand still.
- `MCPositions!File` has five lines, `ByteMod = 4`: an id with the same last byte
  as another, the same id twice, and an icon that cannot be loaded beside the
  one that is NULL.
- `MaxStarts = 4`: a thread in its dialog, the connection after it, its failure,
  and a start after both.
- `Ordering`: recipes without, with one and with four ingredients;
  `Capacity = 7` is the least that `RecipesFit` allows, `CounterMod = 6` likewise.
  The interrupted runs have smaller ones, as commands of several connections
  pile up.

`CHECK_DEADLOCK FALSE` is set where the system really stops: a serial thread
that has ended, a program that has aborted or quit, all starts used up, a file
that has been read.
The runs of `Ordering` and of the ring check for deadlock.

### Assumptions

- *Fairness.*  `SerialThread!Fairness`: the loop of the serial thread polls
  without blocking and is never disabled, `add_outgoing` never waits, `time()`
  advances, and the GTK main loop runs its idle callbacks.  Unasked
  EMERGENCY_STOPs cease at some time: IDLE handles a response before it looks
  at `outQ_`, and DONE_PENDING starts its timeout again with each response, so
  an endless stream of them would keep commands waiting.  Nothing else is
  assumed of the microcontroller, the line or the user.  `Ordering!Fairness`: commands
  are answered (the run has no interrupts), callbacks run, and the order
  callback returns.  `Connection!Fairness`: threads run, and `pthread_join`
  returns when its thread has ended; not that a user closes a dialog, nor that a
  cancellation acts in one.
- *Cancellation* acts in the calls on the port, in the write that wakes the
  main loop, and perhaps in what GTK does for a dialog (`CancelPoints`): the
  thread does not change its type of cancellation.
- *Icons.*  The icon theme has `image-missing`, and the ingredient file at most
  eight lines (`IngredientListAssumption`).
- *EarlyReply = FALSE* in `faults` and `live`.  The machine takes seconds for a
  command and `add_outgoing` a few instructions after its push.  It is a matter
  of time, not of the code; `serial` does not assume it.
- *AtRest.*  In `ordering` the user turns the motor off only when nothing is
  unfinished.  The runs interrupted and stale_steps drop this.
- A callback is one step for the other callbacks of the GUI: GTK runs them one
  at a time.  Error dialogs run a nested main loop, but they are modal, and
  each is the last thing its callback does that matters here.
  `cb_error_serial_communication` runs on the serial thread; its changes of
  widgets are one step, and races inside GTK are outside the models.

## The proofs

*RingBuffer_proofs*, for every `Size >= 2` and every set of items.
The inductive invariant `IInv` joins the type of the indices, the room that the
producer saw and still has, the item that the consumer saw and still has, and
the equality of what was stored or read with what is published or released
(`RoomWhileStoring`, `ItemWhileReading`, `StoredBeforePublished`,
`CopiedBeforeReleased`).  None of the four is inductive without the type, and
the refinement needs all of them: `RingInvariant`, then `NoTornCopyHolds`, then
`RingImplementsFifo` with one step for each store of an index.

*SerialThread_proofs*: `TypeCorrect`, all types and the limits of all queues,
action by action through the three modules; `OverlapIsExplained`, from where
each caller can be at each place of the thread (`AdderShape`);
`CleanStartsNeverOverlap`, that no calls overlap in a connection that finds
`threadRunning_` off; and `SendHasMessageHolds`, because only the serial thread
pops.  They hold with any faults, and for either value of the flag but where it is
named.  For
`Faults = {}` the invariant `ConformingInv` is inductive: until calls overlap
(`~overlapped => InStep`), `UnderWay`, the
equation between the ring and what is under way, is preserved by the transfer
of one item from one term to the next; that no DONE is rejected needs that IDLE
implies quiet; and that needs `UnderWay` again, because the worker
goes to IDLE when the ring is empty.  `overlapped` never goes off again
(`OverlapStays`), so a step to a state without overlap begins in one, with
nobody else in `add_outgoing` (`BeginsAlone`).  `ConformingSafety` collects what
follows: ids in the ring are queued, no response is dropped, no false alarm.
`WaitingIdsDiffer` holds for any faults, but assumes
`Capacity * (MaxRejected + 1) < IdMod`: that waiting ids are distinct is not inductive, but
that they lie in the order in which they were given is, until calls overlap.  `InOrder` measures each
by how many numbers ago it was given (`Behind`), which is bounded by its place in
the ring and the calls refused since, and so never reaches a whole round.

*CommandPipeline_proofs*: the ring, the table and the line, with every fault
but "split", until two calls overlap (`Served`).  Everything follows from one invariant, `Followed`: there is a
sequence of all the messages that were ever accepted, of which `outQ_` and the ring
of ids are the end, the table holds the last `CmdSlots` (`History`), and
to which everything under way belongs in order (`Chronicle`).  In order means
that the responses in `inQ_`, those on the way from the microcontroller and the
messages on the way to it can be given places in that sequence which never
decrease and lie between what is finished and what was sent (`Dates`): a repeated
answer has the place of its original, a merged or lost one just has none.  A
place is an id only as far as a round of ids reaches, which is the measure of
`InOrder` over `CmdSlots` messages.
Three things follow.  The messages in `outQ_` are always among those that wait
in the ring, so an accepted message finds room (`AcceptedAreQueued`), and a queued one is
found in the table by the first slot with its id (`QueuedAreHandled`).  A DONE
that is accepted has the id in front of the ring, and by its place it is the oldest's
(`CompletedIsOldest`), although a stale one may come right before it: that has
an earlier place and another id.  And it
answers a call that has returned (`AnsweredHasReturned`), since with
`EarlyReply = FALSE` nothing under way has the place of the call that is still in
`add_outgoing`.  `PipelineImplemented`, the refinement of CommandPipeline,
is then a matter of reading the waiting commands off the end of the
sequence (`WaitingIsKinds`), whoever is asked
for their handlers, so nothing changes while `add_outgoing` hands the handler
over to the table (`AddSteps`); a call that takes an id submits, a DONE that is
handled completes the oldest.  It also needs that HELLO_THERE is the only
command of the serial thread and of nobody else (`CallerCommands`).  The three theorems assume
`Capacity < CmdSlots` and `CmdSlots * (MaxRejected + 1) < IdMod`: with the code's
32 slots, 31 places and 256 ids, six refusals in a row, one fewer than where
`serial` is.  `PipelineImplemented` also assumes `EarlyReply = FALSE` and that the GUI sends no
HELLO_THERE.

Why not "split": an answer that is read in two parts becomes two responses, one
with its id and no type, one with its type and the id 0.  The second
has no place in the sequence.  With `Faults = {"split", "repeat"}` TLC finds a
repeated DONE whose second part
finishes the command numbered 0 while the call that submits it is still in
`add_outgoing`, and `ImplementsPipeline` is violated; with "split" alone it holds
in the bounds of `faults`, and no proof is given.

*Connection_proofs*, for any number of starts and any `Failures`.  The
inductive invariant `ConnectionInv` adds to what matters (`CleanStop`,
`LeaksExplained`, `JoinsOnce`) who owns what: handles and threads are numbered,
a start under way has the handle just allocated (`StartUnderWay`), only the
thread that the GUI counts on may drive the machine or clean up
(`DriverIsHeld`), and that thread has its port (`HeldHasPort`).  `UsesOwnPort`
and the other theorems follow from it, and so does the refinement: each action
is one step of Motor or none.

*Ordering_proofs*, for every list of recipes and every size of the queue.
Whatever interrupts the connections: the types, `SwitchIsHonest`,
`GuiUsesPipeline` (from `ConnectionInv`: the flag that the order callback has
looked at stays up while it adds its steps), `MovesComeOneByOne` and `StepsHaveRecipe`; the last two count callbacks in two sequences, with lemmas
about `Append`, `Head` and `Tail`.  For `Interrupts = {}` the invariant
`HealthyInv` is inductive: `StepsAccounted` alone is not, because a step that is
refused would be lost.  That none is needs room in the queue, which follows
from the counts themselves (`QueueHasRoom`: one HELLO_THERE, the steps of one
order, one move for each axis); that HELLO_THERE and orders do not overlap needs
where the thread is (`Linked`) and what the buttons offer then (`Controls`); and
that no move gets between steps needs that the last step is at the end
of the queue while others are still to be added (`StepsAreLast`).

*Versions*: the three loose tests of the script are the order of versions, and
an update that was installed is not offered again.

*Positions_proofs*, for every ingredient file of at most eight lines:
`PositionsType`, `PlacesDiffer` (no ingredient in two places) and
`PlacesAreShown` (boxes, images and array agree but for the place of a failed
reset), and from the same invariant `OrdersFindPlaces`: the place found for an
ingredient is the only one that holds it, and at a pump it gives that pump's step.

*Drinks_proofs*, for every file, buffer and width of the numbers:
`ArrayAlwaysFits`, from the lemma that growing makes room; `FilesReadHaveType`;
and `ReadingEnds`, from what `strtok` and `fgets` take (`StrtokTakes`,
`FgetsTakes`) and the rank of each place in the loops.

`LinesAreAlone`, `GoodFilesAreLoaded` and `RecordsAreFound` say that the parser
gives back what was written, for any number of lines and pairs.  Their invariant
is `LinesInv`: `fgets` is between two lines, with the text of all further ones
before it, and while a good line is worked on, `Understood` says how far the
parser is in it: `AtPair(l, k)` is the place at which the record has the first k
pairs, `part` the id of the next one and `rest` the text from its count on.
(`EachLineAlone` alone is not inductive: it says nothing of a line that is half
read.)  One lemma for each action keeps it, from three steps:

- what a file is: `FlattenSeq` joins texts from the left, by a recursive function
  that first has to be shown to exist (`JoinedExists`, `FlattenIsJoined`), and the
  parser takes them from the left (`FlattenFirst`, then `PairsAreText`, `TextOfLine`
  and `ContentsAreText`); each induction is an argument about the least index that
  fails;
- what `strtok` and `fgets` return of a text whose first part they take
  (`StrtokTo`, `StrtokLast`, `FgetsReads`, `LineIsRead`);
- what the tokens of a good line are therefore, its head (`HeadIsTaken`) and
  its pairs (`NextPair`, `NextCount`).

The proofs assume what the modules assume of their constants, what a theorem
states after ASSUME, and nothing else. Only model-checked, and out of the
prover's reach: the liveness properties (`EventuallySettled`, `EventuallyReady`,
`StopReturns`).  Only model-checked so far: the implementation of
CommandPipeline with "split" alone.

## Not modelled

- `fopen` or `realloc` failing, names of 128 bytes or more (`strncpy` leaves them
  without an end), `vla_free`, which frees the pairs of the first recipe only.
- The layout and style of the window: `gui.c`, `pages.c`, `main.c` build widgets
  once.  What they start with and which place each stands for is in Positions
  and Ordering.
- The recipe store, a plain copy; the label of the microcontroller's version,
  whose numbers `cb_cmd_hello_there_done` cuts to `uint8_t`; the two update
  buttons, which only print.
- The script's request to the release server, of which Versions only takes that
  it answers with at most one version.
- `cmd_buffer.c`, `serialcomms.h`: left from an earlier protocol.
- The Python prompt that plays the microcontroller, and the build files.
- Memory: the `guint` that `gtk_tree_model_get` writes into a `uint16_t`, and
  freeing.
- Data races inside GTK when the error callback changes widgets on the serial
  thread.

## The plan

Done, in this order: RingBuffer and BoundedFifo; CommandHandler,
MessageHandler; CommandPipeline, SerialThread; Positions; Ordering; Drinks;
Motor, Connection; the list store and images in Positions; Versions; and the
proofs above.

What is left of the code is listed under "Not modelled" with the reason; no
further module is planned.  Next, proved:

1. `Conserved` with unasked EMERGENCY_STOPs, which the responses in the equation
   have to leave out;
2. the implementation of CommandPipeline with "split" alone.
