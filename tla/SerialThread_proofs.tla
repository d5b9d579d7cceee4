--------------------------- MODULE SerialThread_proofs ---------------------------
(***************************************************************************)
(* A connection: type correctness, who is in add_outgoing and when two may *)
(* be, that SEND_CMD has a message and that waiting ids differ, whatever   *)
(* the Faults; without Faults, that the ring of waiting ids is exactly     *)
(* what is under way.  threadRunning_ may be left from an earlier          *)
(* connection throughout.                                                  *)
(***************************************************************************)
EXTENDS SerialThread, SequenceTheorems, TLAPS

USE IdModAssumption, CmdSlotsAssumption, QueueSizeAssumption, TimeAssumption

(* A lookup in the handler table yields the function of some slot, or none. *)
LEMMA HandlerOfType ==
    ASSUME CommandHandlerTypeOK, NEW id
    PROVE  HandlerOf(id) \in Callbacks \cup {"NULL"}
<1>1. CASE \E s \in Slots : FirstSlot(id, s)
  BY <1>1 DEF HandlerOf, CommandHandlerTypeOK
<1>2. CASE ~\E s \in Slots : FirstSlot(id, s)
  BY <1>2 DEF HandlerOf
<1> QED BY <1>1, <1>2

(* Removing the oldest item, if any, and adding one keep a queue in its type. *)
LEMMA DropOldestType ==
    ASSUME NEW S, NEW q \in Seq(S)
    PROVE  DropOldest(q) \in Seq(S) /\ Len(DropOldest(q)) <= Len(q)
<1>1. CASE q = <<>>
  BY <1>1 DEF DropOldest
<1>2. CASE q # <<>>
  BY <1>2, HeadTailProperties, LenProperties DEF DropOldest
<1> QED BY <1>1, <1>2

LEMMA AppendType ==
    ASSUME NEW S, NEW q \in Seq(S), NEW e \in S, Len(q) <= Capacity, ~IsFull(q)
    PROVE  Append(q, e) \in Seq(S) /\ Len(Append(q, e)) <= Capacity
  BY AppendProperties, LenProperties DEF IsFull, Capacity

--------------------------------------------------------------------------------
(* Types of the command handler: the two stores of an add, and a lookup. *)

LEMMA HandlerInitType == CommandHandlerInit => CommandHandlerTypeOK
  BY DEF CommandHandlerInit, CommandHandlerTypeOK, Ids, Slots

LEMMA WriteSlotType ==
    ASSUME CommandHandlerTypeOK, NEW id \in Ids, NEW cmd \in DOMAIN cmdFuncMap
    PROVE  /\ WriteSlotId(id) => CommandHandlerTypeOK'
           /\ WriteSlotFunc(cmd) => CommandHandlerTypeOK'
<1>1. HandlerFunc(cmd) \in Callbacks \cup {"NULL"}
  BY DEF HandlerFunc, Callbacks
<1>2. NextSlot \in Slots
  BY DEF NextSlot, Slots, CommandHandlerTypeOK
<1>3. WriteSlotId(id) => CommandHandlerTypeOK'
  BY DEF WriteSlotId, CommandHandlerTypeOK
<1>4. WriteSlotFunc(cmd) => CommandHandlerTypeOK'
  BY <1>1, <1>2 DEF WriteSlotFunc, CommandHandlerTypeOK
<1> QED BY <1>3, <1>4

LEMMA ExecuteDoneType ==
    ASSUME CommandHandlerTypeOK, NEW id, ExecuteDone(id)
    PROVE  CommandHandlerTypeOK'
<1>1. CASE HandlerOf(id) = "NULL"
  BY <1>1 DEF ExecuteDone, CommandHandlerTypeOK
<1>2. CASE HandlerOf(id) # "NULL"
  <2>1. HandlerOf(id) \in Callbacks
    BY <1>2, HandlerOfType
  <2>2. Append(idle, HandlerOf(id)) \in Seq(Callbacks)
    BY <2>1, AppendProperties DEF CommandHandlerTypeOK
  <2> QED BY <1>2, <2>2 DEF ExecuteDone, CommandHandlerTypeOK
<1> QED BY <1>1, <1>2

LEMMA RunIdleType == CommandHandlerTypeOK /\ RunIdle => CommandHandlerTypeOK'
<1> SUFFICES ASSUME CommandHandlerTypeOK, RunIdle PROVE CommandHandlerTypeOK'
  OBVIOUS
<1>1. Tail(idle) \in Seq(Callbacks)
  BY HeadTailProperties DEF RunIdle, CommandHandlerTypeOK
<1> QED BY <1>1 DEF RunIdle, CommandHandlerTypeOK

--------------------------------------------------------------------------------
(* Types of the message handler.  What a step leaves alone keeps its type. *)

LEMMA Stutters ==
    /\ QueuesTypeOK /\ UNCHANGED <<pendingDones, outQ, inQ>> => QueuesTypeOK'
    /\ WorkerTypeOK /\ UNCHANGED workerVars => WorkerTypeOK'
    /\ AddersTypeOK /\ UNCHANGED adderVars => AddersTypeOK'
    /\ CommandHandlerTypeOK /\ UNCHANGED handlerVars => CommandHandlerTypeOK'
  BY DEF QueuesTypeOK, WorkerTypeOK, workerVars, AddersTypeOK, adderVars,
         CommandHandlerTypeOK, handlerVars

LEMMA AdderIdleType == AdderIdle \in AdderState
  BY DEF AdderIdle, AdderState, Message, Ids, cmdFuncMap

LEMMA MHInitType == MHInit => MHTypeOK
<1> SUFFICES ASSUME MHInit PROVE MHTypeOK
  OBVIOUS
<1>1. CommandHandlerTypeOK
  BY HandlerInitType DEF MHInit
<1>2. QueuesTypeOK
  BY EmptySeq DEF MHInit, QueuesTypeOK, Capacity
<1>3. WorkerTypeOK
  <2>1. timeoutDoneStarted \in BOOLEAN /\ error \in ErrorType
    BY Zenon DEF MHInit, ErrorType
  <2>2. waited \in 0 .. DoneTimeout + 1
    BY DEF MHInit
  <2> QED BY <2>1, <2>2 DEF MHInit, WorkerTypeOK, FsmState
<1>4. AddersTypeOK
  BY AdderIdleType DEF MHInit, AddersTypeOK
<1> QED BY <1>1, <1>2, <1>3, <1>4 DEF MHTypeOK

LEMMA AddNumberType ==
    ASSUME MHTypeOK, NEW t \in Threads, NEW cmd \in DOMAIN cmdFuncMap, AddNumber(t, cmd)
    PROVE  MHTypeOK'
<1>1. NextId(idCounter) \in Ids
  BY DEF MHTypeOK, AddersTypeOK, NextId, Ids
<1>2. [pc |-> "pending", msg |-> [id |-> NextId(idCounter), type |-> cmd]] \in AdderState
  BY <1>1 DEF AdderState, Message
<1>3. AddersTypeOK'
  <2>1. adder' \in [Threads -> AdderState] /\ idCounter' \in Ids /\ rejected' \in Nat
    BY <1>1, <1>2 DEF AddNumber, MHTypeOK, AddersTypeOK
  <2>2. overlapped' \in BOOLEAN
    BY DEF AddNumber
  <2> QED BY <2>1, <2>2 DEF AddersTypeOK
<1> QED BY <1>3, Stutters DEF AddNumber, MHTypeOK

(* Where the adder goes next, or back to idle, it carries a message. *)
LEMMA AdderType ==
    ASSUME AddersTypeOK, NEW t \in Threads,
           \/ Return(t)
           \/ \E pc \in {"push", "slot id", "slot func"} : Goto(t, pc),
           idCounter' = idCounter, rejected' \in Nat, overlapped' = overlapped
    PROVE  AddersTypeOK'
<1>1. CASE Return(t)
  BY <1>1, AdderIdleType DEF Return, AddersTypeOK
<1>2. ASSUME NEW pc \in {"push", "slot id", "slot func"}, Goto(t, pc) PROVE AddersTypeOK'
  <2>1. [adder[t] EXCEPT !.pc = pc] \in AdderState
    BY DEF AddersTypeOK, AdderState
  <2> QED BY <1>2, <2>1 DEF Goto, AddersTypeOK
<1> QED BY <1>1, <1>2

LEMMA AddStepType ==
    ASSUME MHTypeOK, NEW t \in Threads, AddStep(t)
    PROVE  MHTypeOK'
<1>0. /\ QueuesTypeOK /\ WorkerTypeOK /\ AddersTypeOK /\ CommandHandlerTypeOK
      /\ adder[t].msg \in Message /\ adder[t].msg.id \in Ids
      /\ adder[t].msg.type \in DOMAIN cmdFuncMap
      /\ rejected \in Nat /\ rejected + 1 \in Nat /\ 0 \in Nat
  <2>1. QueuesTypeOK /\ WorkerTypeOK /\ AddersTypeOK /\ CommandHandlerTypeOK
    BY DEF MHTypeOK
  <2>2. adder[t] \in AdderState /\ rejected \in Nat
    BY <2>1 DEF AddersTypeOK
  <2>3. adder[t].msg \in Message
    BY <2>2 DEF AdderState
  <2> QED BY <2>1, <2>2, <2>3 DEF Message
<1>1. CASE AddPending(t)
  <2>1. AddersTypeOK'
    BY <1>0, <1>1, AdderType DEF AddPending
  <2>2. \/ pendingDones' = pendingDones
        \/ ~IsFull(pendingDones) /\ pendingDones' = Append(pendingDones, adder[t].msg.id)
    BY <1>1 DEF AddPending
  <2>3. pendingDones' \in Seq(Ids) /\ Len(pendingDones') <= Capacity
    BY <1>0, <2>2, AppendType DEF QueuesTypeOK
  <2>4. QueuesTypeOK'
    BY <1>0, <1>1, <2>3 DEF AddPending, QueuesTypeOK
  <2> QED BY <1>0, <1>1, <2>1, <2>4, Stutters DEF AddPending, MHTypeOK
<1>2. CASE AddPush(t)
  <2>1. AddersTypeOK'
    BY <1>0, <1>2, AdderType DEF AddPush
  <2>2. outQ' = outQ \/ (~IsFull(outQ) /\ outQ' = Append(outQ, adder[t].msg))
    BY <1>2 DEF AddPush
  <2>3. outQ' \in Seq(Message) /\ Len(outQ') <= Capacity
    BY <1>0, <2>2, AppendType DEF QueuesTypeOK
  <2>4. QueuesTypeOK'
    BY <1>0, <1>2, <2>3 DEF AddPush, QueuesTypeOK
  <2> QED BY <1>0, <1>2, <2>1, <2>4, Stutters DEF AddPush, MHTypeOK
<1>3. CASE AddSlotId(t)
  <2>1. AddersTypeOK'
    BY <1>0, <1>3, AdderType DEF AddSlotId
  <2>2. CommandHandlerTypeOK'
    BY <1>0, <1>3, WriteSlotType, Stutters DEF AddSlotId
  <2> QED BY <1>0, <1>3, <2>1, <2>2, Stutters DEF AddSlotId, MHTypeOK
<1>4. CASE AddSlotFunc(t)
  <2>1. AddersTypeOK'
    BY <1>0, <1>4, AdderType DEF AddSlotFunc
  <2>2. CommandHandlerTypeOK'
    BY <1>0, <1>4, WriteSlotType DEF AddSlotFunc
  <2> QED BY <1>0, <1>4, <2>1, <2>2, Stutters DEF AddSlotFunc, MHTypeOK
<1> QED BY <1>1, <1>2, <1>3, <1>4 DEF AddStep

LEMMA AddIncomingType ==
    ASSUME MHTypeOK, NEW resp \in Response, AddIncoming(resp)
    PROVE  MHTypeOK'
<1>1. QueuesTypeOK
  BY DEF MHTypeOK
<1>2. ~IsFull(inQ) /\ inQ' = Append(inQ, resp)
  BY DEF AddIncoming
<1>3. inQ' \in Seq(Response) /\ Len(inQ') <= Capacity
  BY <1>1, <1>2, AppendType DEF QueuesTypeOK
<1>4. QueuesTypeOK'
  BY <1>1, <1>3 DEF AddIncoming, QueuesTypeOK
<1> QED BY <1>4, Stutters DEF AddIncoming, MHTypeOK

(* A handled response moves the worker, may take the oldest id out of the   *)
(* ring and may post one callback.                                          *)
LEMMA HandleIncomingType ==
    ASSUME MHTypeOK, NEW resp, HandleIncoming(resp)
    PROVE  /\ fsmState' \in FsmState /\ error' \in ErrorType
           /\ pendingDones' \in Seq(Ids) /\ Len(pendingDones') <= Capacity
           /\ CommandHandlerTypeOK'
<1>0. /\ QueuesTypeOK /\ WorkerTypeOK /\ CommandHandlerTypeOK
      /\ fsmState \in FsmState /\ error \in ErrorType
      /\ pendingDones \in Seq(Ids) /\ Len(pendingDones) <= Capacity
  BY DEF MHTypeOK, WorkerTypeOK, QueuesTypeOK
<1>1. CASE CompleteOldest(resp)
  <2>1. CommandHandlerTypeOK'
    BY <1>0, <1>1, ExecuteDoneType DEF CompleteOldest
  <2>2. PopPending \in Seq(Ids) /\ Len(PopPending) <= Len(pendingDones)
    BY <1>0, DropOldestType DEF PopPending
  <2>3. Len(PopPending) \in Nat /\ Len(pendingDones) \in Nat /\ Capacity \in Int
    BY <1>0, <2>2, LenProperties DEF Capacity
  <2>4. Len(PopPending) <= Capacity
    BY <1>0, <2>2, <2>3
  <2>5. AfterDone \in FsmState
    BY DEF AfterDone, FsmState
  <2> QED BY <1>0, <1>1, <2>1, <2>2, <2>4, <2>5 DEF CompleteOldest
<1>2. CASE RejectDone(resp)
  <2>1. fsmState' \in FsmState /\ error' \in ErrorType
    BY <1>2 DEF RejectDone, IsOldest, HandlerSetError, FsmState, ErrorType
  <2> QED BY <1>0, <1>2, <2>1, Stutters DEF RejectDone
<1>3. CASE HandleFailure(resp)
  <2>1. fsmState' \in FsmState /\ error' \in ErrorType
    BY <1>3 DEF HandleFailure, HandlerSetError, FsmState, ErrorType
  <2> QED BY <1>0, <1>3, <2>1, Stutters DEF HandleFailure
<1>4. CASE IgnoreStop(resp)
  BY <1>0, <1>4, Stutters DEF IgnoreStop
<1> QED BY <1>1, <1>2, <1>3, <1>4 DEF HandleIncoming

LEMMA PopTypes ==
    ASSUME QueuesTypeOK
    PROVE  /\ PopIncoming \in Seq(Response) /\ Len(PopIncoming) <= Capacity
           /\ DropOldest(outQ) \in Seq(Message) /\ Len(DropOldest(outQ)) <= Capacity
<1>1. PopIncoming \in Seq(Response) /\ Len(PopIncoming) <= Len(inQ)
  BY DropOldestType DEF QueuesTypeOK, PopIncoming
<1>2. DropOldest(outQ) \in Seq(Message) /\ Len(DropOldest(outQ)) <= Len(outQ)
  BY DropOldestType DEF QueuesTypeOK
<1>3. /\ Len(PopIncoming) \in Nat /\ Len(inQ) \in Nat
      /\ Len(DropOldest(outQ)) \in Nat /\ Len(outQ) \in Nat /\ Capacity \in Int
      /\ Len(inQ) <= Capacity /\ Len(outQ) <= Capacity
  BY <1>1, <1>2, LenProperties DEF Capacity, QueuesTypeOK
<1> QED BY <1>1, <1>2, <1>3

LEMMA ProcessOkType == MHTypeOK /\ ProcessOk => MHTypeOK'
<1> SUFFICES ASSUME MHTypeOK, ProcessOk PROVE MHTypeOK'
  OBVIOUS
<1>0. /\ QueuesTypeOK /\ WorkerTypeOK /\ AddersTypeOK /\ CommandHandlerTypeOK
  BY DEF MHTypeOK
<1>a. {"entry", "outQ"} \subseteq {"entry", "outQ"} /\ FALSE \in BOOLEAN /\ TRUE \in BOOLEAN
      /\ 0 \in 0 .. DoneTimeout + 1
  OBVIOUS
<1>1. CASE IdleReceive
  <2>1. HandleIncoming(Head(inQ))
    BY <1>1 DEF IdleReceive
  <2>2. QueuesTypeOK'
    BY <1>0, <1>1, <2>1, HandleIncomingType, PopTypes DEF IdleReceive, QueuesTypeOK
  <2>3. WorkerTypeOK'
    BY <1>0, <1>1, <2>1, HandleIncomingType DEF IdleReceive, WorkerTypeOK
  <2> QED BY <1>0, <1>1, <2>1, <2>2, <2>3, HandleIncomingType, Stutters
          DEF IdleReceive, MHTypeOK
<1>2. CASE IdleLook
  <2>1. WorkerTypeOK'
    BY <1>0, <1>2 DEF IdleLook, WorkerTypeOK, FsmState
  <2> QED BY <1>0, <1>2, <2>1, Stutters DEF IdleLook, MHTypeOK
<1>3. CASE DoneReceive
  <2>1. HandleIncoming(Head(inQ))
    BY <1>3 DEF DoneReceive
  <2>2. QueuesTypeOK'
    BY <1>0, <1>3, <2>1, HandleIncomingType, PopTypes DEF DoneReceive, QueuesTypeOK
  <2>3. WorkerTypeOK'
    BY <1>0, <1>3, <1>a, <2>1, HandleIncomingType DEF DoneReceive, WorkerTypeOK
  <2> QED BY <1>0, <1>3, <2>1, <2>2, <2>3, HandleIncomingType, Stutters
          DEF DoneReceive, MHTypeOK
<1>4. CASE DoneWait
  <2>1. WorkerTypeOK'
    BY <1>0, <1>4, <1>a DEF DoneWait, WorkerTypeOK
  <2> QED BY <1>0, <1>4, <2>1, Stutters DEF DoneWait, MHTypeOK
<1>5. CASE DoneTimesOut
  <2>1. WorkerTypeOK'
    BY <1>0, <1>5 DEF DoneTimesOut, WorkerTypeOK, HandlerSetError, FsmState, ErrorType
  <2> QED BY <1>0, <1>5, <2>1, Stutters DEF DoneTimesOut, MHTypeOK
<1>6. CASE DoneLook
  <2>1. WorkerTypeOK'
    BY <1>0, <1>6 DEF DoneLook, AfterLook, WorkerTypeOK, FsmState
  <2> QED BY <1>0, <1>6, <2>1, Stutters DEF DoneLook, MHTypeOK
<1> QED BY <1>1, <1>2, <1>3, <1>4, <1>5, <1>6 DEF ProcessOk

LEMMA SendCmdType ==
    ASSUME MHTypeOK, NEW written, SendCmd(written)
    PROVE  MHTypeOK'
<1>0. /\ QueuesTypeOK /\ WorkerTypeOK /\ AddersTypeOK /\ CommandHandlerTypeOK
  BY DEF MHTypeOK
<1>1. QueuesTypeOK'
  BY <1>0, PopTypes DEF SendCmd, QueuesTypeOK
<1>2. WorkerTypeOK'
  BY <1>0 DEF SendCmd, WorkerTypeOK, FsmState
<1> QED BY <1>0, <1>1, <1>2, Stutters DEF SendCmd, MHTypeOK

LEMMA ClockType == MHTypeOK /\ (Tick \/ GtkIdle) => MHTypeOK'
<1> SUFFICES ASSUME MHTypeOK, Tick \/ GtkIdle PROVE MHTypeOK'
  OBVIOUS
<1>0. /\ QueuesTypeOK /\ WorkerTypeOK /\ AddersTypeOK /\ CommandHandlerTypeOK
  BY DEF MHTypeOK
<1>1. CASE Tick
  <2>1. waited' \in 0 .. DoneTimeout + 1
    BY <1>0, <1>1 DEF Tick, WorkerTypeOK
  <2>2. WorkerTypeOK'
    BY <1>0, <1>1, <2>1 DEF Tick, WorkerTypeOK
  <2> QED BY <1>0, <1>1, <2>2, Stutters DEF Tick, MHTypeOK, adderVars
<1>2. CASE GtkIdle
  BY <1>0, <1>2, RunIdleType, Stutters DEF GtkIdle, MHTypeOK
<1> QED BY <1>1, <1>2

--------------------------------------------------------------------------------
(* Types of a connection, whatever the microcontroller and the line do. *)

LineTypeOK == toMc \in Seq(Message) /\ fromMc \in Seq(Response)
ThreadTypeOK ==
    /\ serial \in {"start", "hello", "poll", "process", "exited"}
    /\ threadRunning \in BOOLEAN

LEMMA TypeParts == TypeOK <=> MHTypeOK /\ ThreadTypeOK /\ LineTypeOK
  BY DEF TypeOK, ThreadTypeOK, LineTypeOK

LEMMA SerialStutters ==
    /\ ThreadTypeOK /\ UNCHANGED <<serial, threadRunning>> => ThreadTypeOK'
    /\ LineTypeOK /\ UNCHANGED lineVars => LineTypeOK'
    /\ MHTypeOK /\ UNCHANGED mhVars => MHTypeOK'
<1>1. ThreadTypeOK /\ UNCHANGED <<serial, threadRunning>> => ThreadTypeOK'
  BY DEF ThreadTypeOK
<1>2. LineTypeOK /\ UNCHANGED lineVars => LineTypeOK'
  BY DEF LineTypeOK, lineVars
<1>3. MHTypeOK /\ UNCHANGED mhVars => MHTypeOK'
  BY Stutters DEF MHTypeOK, mhVars, workerVars, adderVars, handlerVars
<1> QED BY <1>1, <1>2, <1>3

(* A step of the serial thread to one of its own places. *)
LEMMA SerialMoves ==
    ASSUME ThreadTypeOK, threadRunning' = threadRunning,
           serial' \in {"start", "hello", "poll", "process", "exited"}
    PROVE  ThreadTypeOK'
  BY DEF ThreadTypeOK

(* The line hands over a response that is one of those sent, or made of two. *)
LEMMA LineTypes ==
    ASSUME LineTypeOK
    PROVE  /\ toMc # <<>> => /\ Head(toMc) \in Message /\ Head(toMc).id \in Ids
                             /\ Tail(toMc) \in Seq(Message)
           /\ fromMc # <<>> => Head(fromMc) \in Response /\ Tail(fromMc) \in Seq(Response)
           /\ \A resp \in Response : Append(fromMc, resp) \in Seq(Response)
<1>1. ASSUME toMc # <<>>
      PROVE  Head(toMc) \in Message /\ Tail(toMc) \in Seq(Message)
  BY <1>1, HeadTailProperties DEF LineTypeOK
<1>2. ASSUME fromMc # <<>>
      PROVE  Head(fromMc) \in Response /\ Tail(fromMc) \in Seq(Response)
  BY <1>2, HeadTailProperties DEF LineTypeOK
<1>3. \A resp \in Response : Append(fromMc, resp) \in Seq(Response)
  BY AppendProperties DEF LineTypeOK
<1>4. \A msg \in Message : msg.id \in Ids
  BY DEF Message
<1> QED BY <1>1, <1>2, <1>3, <1>4

LEMMA ReceivedType ==
    ASSUME TypeOK, NEW resp \in Response, NEW left \in Seq(Response), Received(resp, left)
    PROVE  TypeOK'
<1>0. MHTypeOK /\ ThreadTypeOK /\ LineTypeOK
  BY TypeParts
<1>1. /\ \/ serial' = "exited" /\ UNCHANGED mhVars
         \/ serial' = "process" /\ AddIncoming(resp)
      /\ fromMc' = left /\ UNCHANGED <<threadRunning, toMc>>
  BY DEF Received
<1>2. MHTypeOK'
  BY <1>0, <1>1, AddIncomingType, SerialStutters
<1>3. ThreadTypeOK'
  BY <1>0, <1>1, SerialMoves
<1>4. LineTypeOK'
  BY <1>0, <1>1 DEF LineTypeOK
<1> QED BY <1>2, <1>3, <1>4, TypeParts DEF TypeOK, ThreadTypeOK, LineTypeOK

LEMMA PollType == TypeOK /\ Poll => TypeOK'
<1> SUFFICES ASSUME TypeOK, Poll PROVE TypeOK'
  OBVIOUS
<1>0. MHTypeOK /\ ThreadTypeOK /\ LineTypeOK
  BY TypeParts
<1>1. CASE PollSilent
  BY <1>0, <1>1, SerialStutters, SerialMoves DEF PollSilent, TypeOK, ThreadTypeOK, LineTypeOK
<1>2. CASE ReadOne
  BY <1>0, <1>2, LineTypes, ReceivedType DEF ReadOne
<1>3. CASE ReadMerged
  <2>1. fromMc \in Seq(Response) /\ Len(fromMc) > 1
    BY <1>0, <1>3 DEF LineTypeOK, ReadMerged
  <2>2. Tail(fromMc) \in Seq(Response) /\ Tail(Tail(fromMc)) \in Seq(Response)
    <3>1. fromMc # <<>>
      BY <2>1
    <3>2. Tail(fromMc) \in Seq(Response) /\ Len(Tail(fromMc)) = Len(fromMc) - 1
      BY <2>1, <3>1, HeadTailProperties
    <3>3. Tail(fromMc) # <<>>
      <4>1. Len(fromMc) \in Nat
        BY <2>1, LenProperties
      <4>2. Len(Tail(fromMc)) # 0
        BY <2>1, <3>2, <4>1
      <4> QED BY <3>2, <4>2, EmptySeq
    <3> QED BY <3>2, <3>3, HeadTailProperties
  <2>3. fromMc[1] \in Response /\ fromMc[2] \in Response
    BY <2>1, ElementOfSeq
  <2>4. Merge(fromMc[1], fromMc[2]) \in Response
    BY <2>3 DEF Merge, Response
  <2> QED BY <1>3, <2>2, <2>4, ReceivedType DEF ReadMerged
<1>4. CASE ReadPart
  <2>1. Head(fromMc) \in Response /\ Tail(fromMc) \in Seq(Response)
    BY <1>0, <1>4, LineTypes DEF ReadPart
  <2>2. /\ [Head(fromMc) EXCEPT !.type = "RSP_UNDEFINED"] \in Response
        /\ [Head(fromMc) EXCEPT !.id = 0] \in Response
    BY <2>1 DEF Response, ResponseType, Ids
  <2>3. <<[Head(fromMc) EXCEPT !.id = 0]>> \o Tail(fromMc) \in Seq(Response)
    BY <2>1, <2>2, ConcatProperties
  <2> QED BY <1>4, <2>2, <2>3, ReceivedType DEF ReadPart
<1>5. CASE ReadFails
  <2>1. LineTypeOK'
    BY <1>0, <1>5, EmptySeq DEF ReadFails, LineTypeOK
  <2> QED BY <1>0, <1>5, <2>1, SerialStutters, SerialMoves
          DEF ReadFails, TypeOK, ThreadTypeOK, LineTypeOK
<1> QED BY <1>1, <1>2, <1>3, <1>4, <1>5 DEF Poll

LEMMA SerialInitType == Init => TypeOK
  BY MHInitType, EmptySeq DEF Init, TypeOK

LEMMA LoopType == TypeOK /\ Loop => TypeOK'
<1> SUFFICES ASSUME TypeOK, Loop PROVE TypeOK'
  OBVIOUS
<1>0. MHTypeOK /\ ThreadTypeOK /\ LineTypeOK
  BY TypeParts
<1> SUFFICES MHTypeOK' /\ ThreadTypeOK' /\ LineTypeOK'
  BY DEF TypeOK, ThreadTypeOK, LineTypeOK
<1>1. CASE SendHello
  <2>1. Serial \in Threads /\ "HELLO_THERE" \in DOMAIN cmdFuncMap
    BY ThreadsAssumption DEF cmdFuncMap
  <2>2. MHTypeOK'
    BY <1>0, <1>1, <2>1, AddNumberType DEF SendHello
  <2> QED BY <1>0, <1>1, <2>2, SerialMoves, SerialStutters DEF SendHello
<1>2. CASE EnterLoop
  <2>1. ThreadTypeOK'
    BY <1>2 DEF EnterLoop, ThreadTypeOK
  <2> QED BY <1>0, <1>2, <2>1, SerialStutters DEF EnterLoop
<1>3. CASE Poll
  BY <1>3, PollType DEF TypeOK, ThreadTypeOK, LineTypeOK
<1>4. CASE Process
  <2>1. serial' \in {"start", "hello", "poll", "process", "exited"}
    BY <1>4 DEF Process
  <2> QED BY <1>0, <1>4, <2>1, ProcessOkType, SerialMoves, SerialStutters DEF Process
<1>5. CASE ProcessError
  <2>1. UNCHANGED mhVars
    BY <1>5 DEF ProcessError, ProcessFails
  <2> QED BY <1>0, <1>5, <2>1, SerialMoves, SerialStutters DEF ProcessError
<1>6. ASSUME NEW written \in WriteWorks, Send(written)
      PROVE  MHTypeOK' /\ ThreadTypeOK' /\ LineTypeOK'
  <2>1. MHTypeOK'
    BY <1>0, <1>6, SendCmdType DEF Send
  <2>2. ThreadTypeOK'
    BY <1>0, <1>6, SerialMoves DEF Send
  <2>3. outQ # <<>> => Head(outQ) \in Message
    BY <1>0, HeadTailProperties DEF MHTypeOK, QueuesTypeOK
  <2>4. toMc' = toMc \/ (outQ # <<>> /\ toMc' = Append(toMc, Head(outQ)))
    BY <1>6 DEF Send
  <2>5. LineTypeOK'
    BY <1>0, <1>6, <2>3, <2>4, AppendProperties DEF Send, LineTypeOK
  <2> QED BY <2>1, <2>2, <2>5
<1> QED BY <1>1, <1>2, <1>3, <1>4, <1>5, <1>6 DEF Loop

LEMMA PeerType == TypeOK /\ Peer => TypeOK'
<1> SUFFICES ASSUME TypeOK, Peer PROVE TypeOK'
  OBVIOUS
<1>0. MHTypeOK /\ ThreadTypeOK /\ LineTypeOK
  BY TypeParts
<1>1. ASSUME NEW type \in {"DONE", "ERROR"}, Answer(type) PROVE LineTypeOK'
  <2>1. toMc # <<>> /\ toMc' = Tail(toMc)
        /\ fromMc' = Append(fromMc, [id |-> Head(toMc).id, type |-> type])
    BY <1>1 DEF Answer
  <2>2. [id |-> Head(toMc).id, type |-> type] \in Response
    BY <1>0, <2>1, LineTypes DEF Response, ResponseType
  <2> QED BY <1>0, <2>1, <2>2, LineTypes DEF LineTypeOK
<1>2. ASSUME Loss PROVE LineTypeOK'
  BY <1>0, <1>2, LineTypes DEF Loss, LineTypeOK
<1>3. ASSUME EmergencyStop PROVE LineTypeOK'
  <2>1. [id |-> 0, type |-> "EMERGENCY_STOP"] \in Response
    BY DEF Response, ResponseType, Ids
  <2> QED BY <1>0, <1>3, <2>1, LineTypes DEF EmergencyStop, LineTypeOK
<1>4. ASSUME Repeat PROVE LineTypeOK'
  <2>1. toMc # <<>> /\ toMc' = toMc
        /\ fromMc' = Append(fromMc, [id |-> Head(toMc).id, type |-> "DONE"])
    BY <1>4 DEF Repeat
  <2>2. [id |-> Head(toMc).id, type |-> "DONE"] \in Response
    BY <1>0, <2>1, LineTypes DEF Response, ResponseType
  <2> QED BY <1>0, <2>1, <2>2, LineTypes DEF LineTypeOK
<1>5. LineTypeOK'
  BY <1>1, <1>2, <1>3, <1>4 DEF Peer
<1> QED BY <1>0, <1>5, SerialStutters DEF Peer, TypeOK, ThreadTypeOK, LineTypeOK

LEMMA NextType == TypeOK /\ [Next]_vars => TypeOK'
<1> SUFFICES ASSUME TypeOK, [Next]_vars PROVE TypeOK'
  OBVIOUS
<1>0. MHTypeOK /\ ThreadTypeOK /\ LineTypeOK
  BY TypeParts
<1>1. CASE Loop
  BY <1>1, LoopType
<1>2. ASSUME NEW t \in Threads, Add(t) PROVE TypeOK'
  <2>1. MHTypeOK'
    BY <1>0, <1>2, AddStepType DEF Add
  <2> QED BY <1>0, <1>2, <2>1, SerialStutters DEF Add, TypeOK, ThreadTypeOK, LineTypeOK
<1>3. ASSUME NEW cmd \in Commands, GuiRequest(cmd) PROVE TypeOK'
  <2>1. Gui \in Threads /\ cmd \in DOMAIN cmdFuncMap
    BY ThreadsAssumption, CommandsAssumption
  <2>2. MHTypeOK'
    BY <1>0, <1>3, <2>1, AddNumberType DEF GuiRequest
  <2> QED BY <1>0, <1>3, <2>2, SerialStutters
          DEF GuiRequest, TypeOK, ThreadTypeOK, LineTypeOK
<1>4. CASE Peer
  BY <1>4, PeerType
<1>5. CASE Clock
  BY <1>0, <1>5, ClockType, SerialStutters DEF Clock, TypeOK, ThreadTypeOK, LineTypeOK
<1>6. CASE Gtk
  BY <1>0, <1>6, ClockType, SerialStutters DEF Gtk, TypeOK, ThreadTypeOK, LineTypeOK
<1>7. CASE UNCHANGED vars
  BY <1>0, <1>7, SerialStutters DEF vars, lineVars, TypeOK, ThreadTypeOK, LineTypeOK
<1> QED BY <1>1, <1>2, <1>3, <1>4, <1>5, <1>6, <1>7 DEF Next

(* The variables of a connection keep their types, and no queue or ring ever *)
(* holds more than Capacity items, whatever the Faults and the sizes are.     *)
THEOREM TypeCorrect == Spec => []TypeOK
<1>1. Init => TypeOK
  BY SerialInitType
<1>2. TypeOK /\ [Next]_vars => TypeOK'
  BY NextType
<1> QED BY <1>1, <1>2, PTL DEF Spec

--------------------------------------------------------------------------------
USE ThreadsAssumption

(* The parts of TypeOK that the proofs below use. *)
LEMMA TypeFacts ==
    ASSUME TypeOK
    PROVE  /\ pendingDones \in Seq(Ids) /\ Len(pendingDones) <= Capacity
           /\ outQ \in Seq(Message) /\ inQ \in Seq(Response)
           /\ toMc \in Seq(Message) /\ fromMc \in Seq(Response)
           /\ adder \in [Threads -> AdderState]
           /\ Gui \in Threads /\ Serial \in Threads
           /\ \A t \in Threads : adder[t].msg \in Message /\ adder[t].msg.id \in Ids
           /\ threadRunning \in BOOLEAN
<1>1. MHTypeOK /\ ThreadTypeOK /\ LineTypeOK
  BY TypeParts
<1>2. adder \in [Threads -> AdderState]
  BY <1>1 DEF MHTypeOK, AddersTypeOK
<1>3. \A t \in Threads : adder[t].msg \in Message /\ adder[t].msg.id \in Ids
  BY <1>2 DEF AdderState, Message
<1> QED BY <1>1, <1>2, <1>3 DEF MHTypeOK, QueuesTypeOK, ThreadTypeOK, LineTypeOK

--------------------------------------------------------------------------------
(* Who is in add_outgoing *)

LEMMA InitAdderShape == Init => AdderShape
  BY DEF Init, MHInit, AdderIdle, AdderShape, NoConcurrentAdds

(* A step of add_outgoing is by a thread that is in it. *)
LEMMA AddStepAdder ==
    ASSUME TypeOK, NEW t \in Threads, AddStep(t)
    PROVE  /\ adder[t].pc # "idle"
           /\ \A u \in Threads : u # t => adder'[u] = adder[u]
<1>0. adder \in [Threads -> AdderState]
  BY TypeFacts
<1>1. adder[t].pc # "idle"
  BY DEF AddStep, AddPending, AddPush, AddSlotId, AddSlotFunc
<1>2. Return(t) \/ \E pc \in {"push", "slot id", "slot func"} : Goto(t, pc)
  BY DEF AddStep, AddPending, AddPush, AddSlotId, AddSlotFunc
<1>3. \A u \in Threads : u # t => adder'[u] = adder[u]
  BY <1>0, <1>2 DEF Return, Goto
<1> QED BY <1>1, <1>3

LEMMA AddNumberAdder ==
    ASSUME TypeOK, NEW t \in Threads, NEW cmd, AddNumber(t, cmd)
    PROVE  \A u \in Threads : u # t => adder'[u] = adder[u]
  BY TypeFacts DEF AddNumber

(* The steps of the loop after it was entered leave add_outgoing alone. *)
LEMMA LoopAdder ==
    ASSUME Poll \/ Process \/ ProcessError \/ \E written \in WriteWorks : Send(written)
    PROVE  /\ adder' = adder /\ threadRunning' = threadRunning
           /\ serial \in {"poll", "process"}
           /\ serial' \in {"poll", "process", "exited"}
<1>1. ASSUME Poll
      PROVE  /\ adder' = adder /\ threadRunning' = threadRunning
             /\ serial = "poll" /\ serial' \in {"process", "exited"}
  <2>1. ASSUME NEW resp, NEW left, Received(resp, left)
        PROVE  /\ adder' = adder /\ threadRunning' = threadRunning
               /\ serial = "poll" /\ serial' \in {"process", "exited"}
    BY <2>1 DEF Received, AddIncoming, mhVars, adderVars
  <2> QED BY <1>1, <2>1 DEF Poll, PollSilent, ReadOne, ReadMerged, ReadPart, ReadFails, mhVars
<1>2. ASSUME Process
      PROVE  /\ adder' = adder /\ threadRunning' = threadRunning
             /\ serial = "process" /\ serial' \in {"poll", "process"}
  BY <1>2 DEF Process, ProcessOk, IdleReceive, IdleLook, DoneReceive, DoneWait,
              DoneTimesOut, DoneLook, adderVars
<1>3. ASSUME ProcessError
      PROVE  /\ adder' = adder /\ threadRunning' = threadRunning
             /\ serial = "process" /\ serial' = "exited"
  BY <1>3 DEF ProcessError, ProcessFails, mhVars
<1>4. ASSUME NEW written \in WriteWorks, Send(written)
      PROVE  /\ adder' = adder /\ threadRunning' = threadRunning
             /\ serial = "process" /\ serial' = "poll"
  BY <1>4 DEF Send, SendCmd, adderVars
<1> QED BY <1>1, <1>2, <1>3, <1>4

(* Calls that have overlapped stay on record, and only the begin of a call  *)
(* puts them there.                                                         *)
LEMMA OverlapStays ==
    ASSUME [Next]_vars
    PROVE  /\ overlapped => overlapped'
           /\ \/ overlapped' = overlapped
              \/ \E t \in Threads : \E cmd : AddNumber(t, cmd)
<1>1. CASE SendHello \/ \E cmd \in Commands : GuiRequest(cmd)
  <2>1. \E t \in Threads : \E cmd : AddNumber(t, cmd)
    BY <1>1 DEF SendHello, GuiRequest
  <2>2. overlapped => overlapped'
    BY <2>1, Zenon DEF AddNumber
  <2> QED BY <2>1, <2>2
<1>2. CASE \E t \in Threads : Add(t)
  <2>1. ASSUME NEW t \in Threads, Add(t) PROVE overlapped' = overlapped
    BY <2>1, Zenon DEF Add, AddStep, AddPending, AddPush, AddSlotId, AddSlotFunc
  <2> QED BY <1>2, <2>1
<1>3. CASE Poll
  <2>1. ASSUME NEW resp, NEW left, Received(resp, left) PROVE overlapped' = overlapped
    BY <2>1 DEF Received, AddIncoming, mhVars, adderVars
  <2> QED BY <1>3, <2>1 DEF Poll, PollSilent, ReadOne, ReadMerged, ReadPart, ReadFails, mhVars
<1>4. CASE Process
  BY <1>4 DEF Process, ProcessOk, IdleReceive, IdleLook, DoneReceive, DoneWait, DoneTimesOut,
              DoneLook, adderVars
<1>5. CASE EnterLoop \/ ProcessError \/ (\E written \in WriteWorks : Send(written))
           \/ Peer \/ Clock \/ Gtk \/ UNCHANGED vars
  BY <1>5 DEF EnterLoop, ProcessError, ProcessFails, Send, SendCmd, Peer, Clock, Gtk, Tick,
              GtkIdle, vars, mhVars, adderVars
<1> QED BY <1>1, <1>2, <1>3, <1>4, <1>5 DEF Next, Loop

(* Until calls overlap, one that begins finds nobody else in add_outgoing.  *)
LEMMA BeginsAlone ==
    ASSUME TypeOK, NEW t \in Threads, NEW cmd, AddNumber(t, cmd), ~overlapped'
    PROVE  \A u \in Threads : adder[u].pc = "idle"
  BY DEF AddNumber

LEMMA NextAlone ==
    ASSUME TypeOK, ~overlapped => NoConcurrentAdds, [Next]_vars, ~overlapped'
    PROVE  NoConcurrentAdds'
<1>1. NoConcurrentAdds
  BY OverlapStays
<1>2. ASSUME NEW t \in Threads, NEW cmd, AddNumber(t, cmd) PROVE NoConcurrentAdds'
  <2>1. \A u \in Threads : u # t => adder'[u].pc = "idle"
    BY <1>2, BeginsAlone, AddNumberAdder
  <2> QED BY <2>1 DEF NoConcurrentAdds
<1>3. ASSUME NEW t \in Threads, Add(t) PROVE NoConcurrentAdds'
  <2>1. adder[t].pc # "idle" /\ \A u \in Threads : u # t => adder'[u] = adder[u]
    BY <1>3, AddStepAdder DEF Add
  <2>2. \A u \in Threads : u # t => adder'[u].pc = "idle"
    BY <1>1, <2>1 DEF NoConcurrentAdds
  <2> QED BY <2>2 DEF NoConcurrentAdds
<1>4. ASSUME adder' = adder PROVE NoConcurrentAdds'
  BY <1>1, <1>4 DEF NoConcurrentAdds
<1>5. CASE EnterLoop \/ Peer \/ Clock \/ Gtk \/ UNCHANGED vars
  BY <1>4, <1>5 DEF EnterLoop, Peer, Clock, Gtk, Tick, GtkIdle, vars, mhVars, adderVars
<1>6. CASE SendHello \/ \E cmd \in Commands : GuiRequest(cmd)
  BY <1>2, <1>6 DEF SendHello, GuiRequest
<1> QED BY <1>3, <1>4, <1>5, <1>6, LoopAdder DEF Next, Loop

LEMMA NextAdderShape == TypeOK /\ AdderShape /\ [Next]_vars => AdderShape'
<1> SUFFICES ASSUME TypeOK, AdderShape, [Next]_vars PROVE AdderShape'
  OBVIOUS
<1> DEFINE Callers == /\ adder[Gui].pc # "idle" => threadRunning
                      /\ adder[Serial].pc # "idle" => serial = "hello"
<1>0. Gui \in Threads /\ Serial \in Threads /\ Gui # Serial /\ Callers
  BY DEF AdderShape
<1>1. CASE SendHello
  <2>1. adder'[Gui] = adder[Gui] /\ serial' = "hello" /\ threadRunning' = threadRunning
    BY <1>0, <1>1, AddNumberAdder DEF SendHello
  <2>2. Callers'
    BY <1>0, <2>1, Zenon
  <2> QED BY <2>2, NextAlone DEF AdderShape
<1>2. CASE EnterLoop
  <2>1. Callers'
    BY <1>0, <1>2, Zenon DEF EnterLoop, mhVars
  <2> QED BY <2>1, NextAlone DEF AdderShape
<1>3. CASE Poll \/ Process \/ ProcessError \/ \E written \in WriteWorks : Send(written)
  <2>1. adder' = adder /\ threadRunning' = threadRunning /\ serial # "hello"
    BY <1>3, LoopAdder
  <2>2. Callers'
    BY <1>0, <2>1, Zenon
  <2> QED BY <2>2, NextAlone DEF AdderShape
<1>4. ASSUME NEW t \in Threads, Add(t) PROVE AdderShape'
  <2>1. /\ adder[t].pc # "idle" /\ \A u \in Threads : u # t => adder'[u] = adder[u]
        /\ serial' = serial /\ threadRunning' = threadRunning
    BY <1>4, AddStepAdder DEF Add
  <2>2. adder'[Gui].pc # "idle" => adder[Gui].pc # "idle"
    BY <1>0, <2>1, Zenon
  <2>3. adder'[Serial].pc # "idle" => adder[Serial].pc # "idle"
    BY <1>0, <2>1, Zenon
  <2>4. Callers'
    BY <1>0, <2>1, <2>2, <2>3, Zenon
  <2> QED BY <2>4, NextAlone DEF AdderShape
<1>5. ASSUME NEW cmd \in Commands, GuiRequest(cmd) PROVE AdderShape'
  <2>1. threadRunning /\ serial' = serial /\ threadRunning' = threadRunning
        /\ adder'[Serial] = adder[Serial]
    BY <1>0, <1>5, AddNumberAdder DEF GuiRequest, ThreadRunning
  <2>2. Callers'
    BY <1>0, <2>1, Zenon
  <2> QED BY <2>2, NextAlone DEF AdderShape
<1>6. CASE Peer \/ Clock \/ Gtk \/ UNCHANGED vars
  <2>1. adder' = adder /\ serial' = serial /\ threadRunning' = threadRunning
    BY <1>6 DEF Peer, Clock, Gtk, Tick, GtkIdle, vars, mhVars, adderVars
  <2>2. Callers'
    BY <1>0, <2>1, Zenon
  <2> QED BY <2>2, NextAlone DEF AdderShape
<1> QED BY <1>1, <1>2, <1>3, <1>4, <1>5, <1>6 DEF Next, Loop

LEMMA ShapeExplains == TypeOK /\ AdderShape => OverlapExplained
<1> SUFFICES ASSUME AdderShape, ~NoConcurrentAdds
             PROVE  serial = "hello" /\ threadRunning /\ overlapped
  BY DEF OverlapExplained
<1>1. adder[Gui].pc # "idle" /\ adder[Serial].pc # "idle"
  BY DEF NoConcurrentAdds
<1> QED BY <1>1, Zenon DEF AdderShape

(* No lock keeps the GUI thread and the serial thread apart in add_outgoing *)
(* (the TODO at message_handler.c:184).  Whatever the Faults, they are only *)
(* ever in it together while the thread sends HELLO_THERE, and only if      *)
(* threadRunning_ was TRUE before the loop: left so by a thread that ended  *)
(* by itself (proto_serial.c:249).                                          *)
THEOREM OverlapIsExplained == Spec => []OverlapExplained
<1>1. Init => TypeOK /\ AdderShape
  BY SerialInitType, InitAdderShape
<1>2. TypeOK /\ AdderShape /\ [Next]_vars => TypeOK' /\ AdderShape'
  BY NextType, NextAdderShape
<1> QED BY <1>1, <1>2, ShapeExplains, PTL DEF Spec

(* A connection that starts with the flag down, as the first one does and   *)
(* every one after a cancelled thread, keeps them apart: the flag and the   *)
(* order of the thread's start take the place of a lock.                    *)
THEOREM CleanStartsNeverOverlap == Spec /\ ~threadRunning => []NoConcurrentAdds
<1> DEFINE Clean == serial \in {"start", "hello"} => ~threadRunning
           Inv == TypeOK /\ AdderShape /\ Clean
<1>1. Init /\ ~threadRunning => Inv
  BY SerialInitType, InitAdderShape
<1>2. Inv /\ [Next]_vars => Inv'
  <2> SUFFICES ASSUME Inv, [Next]_vars PROVE Clean'
    BY NextType, NextAdderShape
  <2>1. CASE SendHello
    BY <2>1 DEF SendHello
  <2>2. CASE EnterLoop
    BY <2>2 DEF EnterLoop
  <2>3. CASE Poll \/ Process \/ ProcessError \/ \E written \in WriteWorks : Send(written)
    BY <2>3, LoopAdder
  <2>4. CASE (\E t \in Threads : Add(t)) \/ (\E cmd \in Commands : GuiRequest(cmd))
             \/ Peer \/ Clock \/ Gtk \/ UNCHANGED vars
    BY <2>4 DEF Add, GuiRequest, Peer, Clock, Gtk, vars
  <2> QED BY <2>1, <2>2, <2>3, <2>4 DEF Next, Loop
<1>3. Inv => NoConcurrentAdds
  <2> SUFFICES ASSUME Inv PROVE NoConcurrentAdds
    OBVIOUS
  <2>1. adder[Gui].pc = "idle" \/ adder[Serial].pc = "idle"
    BY DEF AdderShape
  <2> QED BY <2>1 DEF NoConcurrentAdds
<1> HIDE DEF Inv
<1> QED BY <1>1, <1>2, <1>3, PTL DEF Spec

--------------------------------------------------------------------------------
(* SEND_CMD has a message *)

(* add_outgoing only adds to the queue, and leaves the worker alone. *)
LEMMA AddStepQueue ==
    ASSUME TypeOK, NEW t \in Threads, AddStep(t)
    PROVE  /\ UNCHANGED <<inQ, fsmState, error, processPc>>
           /\ outQ # <<>> => outQ' # <<>>
<1>1. outQ \in Seq(Message) /\ adder[t].msg \in Message
  BY TypeFacts
<1>2. outQ' = outQ \/ outQ' = Append(outQ, adder[t].msg)
  BY DEF AddStep, AddPending, AddPush, AddSlotId, AddSlotFunc
<1>3. Append(outQ, adder[t].msg) # <<>>
  BY <1>1, AppendProperties
<1>4. UNCHANGED <<inQ, fsmState, error, processPc>>
  BY DEF AddStep, AddPending, AddPush, AddSlotId, AddSlotFunc, workerVars
<1> QED BY <1>2, <1>3, <1>4

LEMMA HandleIncomingState ==
    ASSUME NEW resp, HandleIncoming(resp), fsmState # "SEND_CMD"
    PROVE  fsmState' # "SEND_CMD"
  BY DEF HandleIncoming, CompleteOldest, RejectDone, HandleFailure, IgnoreStop,
         HandlerSetError, AfterDone

LEMMA ProcessSends ==
    ASSUME SendHasMessage, ProcessOk
    PROVE  SendHasMessage'
<1>1. CASE IdleReceive \/ DoneReceive
  BY <1>1, HandleIncomingState DEF IdleReceive, DoneReceive, SendHasMessage
<1>2. CASE IdleLook
  BY <1>2 DEF IdleLook, SendHasMessage
<1>3. CASE DoneWait \/ DoneTimesOut
  BY <1>3 DEF DoneWait, DoneTimesOut, SendHasMessage, HandlerSetError
<1>4. CASE DoneLook
  BY <1>4 DEF DoneLook, AfterLook, SendHasMessage
<1> QED BY <1>1, <1>2, <1>3, <1>4 DEF ProcessOk

LEMMA PollWorker ==
    ASSUME Poll
    PROVE  UNCHANGED <<pendingDones, outQ, fsmState, error, processPc, adder, toMc>>
<1>1. ASSUME NEW resp, NEW left, Received(resp, left)
      PROVE  UNCHANGED <<pendingDones, outQ, fsmState, error, processPc, adder, toMc>>
  BY <1>1 DEF Received, AddIncoming, mhVars, adderVars, workerVars
<1> QED BY <1>1 DEF Poll, PollSilent, ReadOne, ReadMerged, ReadPart, ReadFails,
                    mhVars, lineVars

LEMMA NextSends == TypeOK /\ SendHasMessage /\ [Next]_vars => SendHasMessage'
<1> SUFFICES ASSUME TypeOK, SendHasMessage, [Next]_vars PROVE SendHasMessage'
  OBVIOUS
<1>1. CASE UNCHANGED <<fsmState, outQ>>
  BY <1>1 DEF SendHasMessage
<1>2. CASE SendHello \/ EnterLoop \/ Poll \/ ProcessError
  BY <1>1, <1>2, PollWorker
     DEF SendHello, EnterLoop, ProcessError, ProcessFails, AddNumber, mhVars, workerVars
<1>3. CASE Process
  BY <1>3, ProcessSends DEF Process
<1>4. ASSUME NEW written \in WriteWorks, Send(written) PROVE SendHasMessage'
  BY <1>4 DEF Send, SendCmd, SendHasMessage
<1>5. ASSUME NEW t \in Threads, Add(t) PROVE SendHasMessage'
  BY <1>5, AddStepQueue DEF Add, SendHasMessage
<1>6. ASSUME NEW cmd \in Commands, GuiRequest(cmd) PROVE SendHasMessage'
  BY <1>1, <1>6 DEF GuiRequest, AddNumber, workerVars
<1>7. CASE Peer \/ Clock \/ Gtk \/ UNCHANGED vars
  BY <1>1, <1>7 DEF Peer, Clock, Gtk, Tick, GtkIdle, mhVars, workerVars, vars
<1> QED BY <1>2, <1>3, <1>4, <1>5, <1>6, <1>7 DEF Next, Loop

(* message_handler_process pops outQ_ only after it saw a message in it, and *)
(* nobody else takes it away: the failing pop of SEND_CMD is never reached.   *)
THEOREM SendHasMessageHolds == Spec => []SendHasMessage
<1>1. Init => TypeOK /\ SendHasMessage
  BY SerialInitType DEF Init, MHInit, SendHasMessage
<1>2. TypeOK /\ SendHasMessage /\ [Next]_vars => TypeOK' /\ SendHasMessage'
  BY NextType, NextSends
<1> QED BY <1>1, <1>2, PTL DEF Spec

--------------------------------------------------------------------------------
(* Ids of a queue of messages or responses *)

LEMMA IdsOfType ==
    ASSUME NEW S, \A r \in S : r.id \in Ids, NEW q \in Seq(S)
    PROVE  /\ IdsOf(q) \in Seq(Ids) /\ Len(IdsOf(q)) = Len(q)
           /\ \A i \in 1 .. Len(q) : IdsOf(q)[i] = q[i].id
<1>1. Len(q) \in Nat /\ DOMAIN q = 1 .. Len(q)
  BY LenProperties
<1>2. \A i \in 1 .. Len(q) : q[i] \in S
  BY ElementOfSeq
<1> QED BY <1>1, <1>2 DEF IdsOf

LEMMA IdsOfEmpty == IdsOf(<<>>) = <<>>
  BY DEF IdsOf

LEMMA IdsOfAppend ==
    ASSUME NEW S, \A r \in S : r.id \in Ids, NEW q \in Seq(S), NEW e \in S
    PROVE  IdsOf(Append(q, e)) = IdsOf(q) \o <<e.id>>
<1>1. Append(q, e) \in Seq(S) /\ Len(Append(q, e)) = Len(q) + 1
  BY AppendProperties
<1>2. /\ IdsOf(Append(q, e)) \in Seq(Ids) /\ Len(IdsOf(Append(q, e))) = Len(q) + 1
      /\ \A i \in 1 .. Len(q) + 1 : IdsOf(Append(q, e))[i] = Append(q, e)[i].id
  BY <1>1, IdsOfType
<1>3. /\ IdsOf(q) \in Seq(Ids) /\ Len(IdsOf(q)) = Len(q) /\ Len(q) \in Nat
      /\ \A i \in 1 .. Len(q) : IdsOf(q)[i] = q[i].id
  BY IdsOfType, LenProperties
<1>4. <<e.id>> \in Seq(Ids) /\ Len(<<e.id>>) = 1 /\ <<e.id>>[1] = e.id
  OBVIOUS
<1>5. /\ IdsOf(q) \o <<e.id>> \in Seq(Ids)
      /\ Len(IdsOf(q) \o <<e.id>>) = Len(q) + 1
      /\ \A i \in 1 .. Len(q) + 1 : (IdsOf(q) \o <<e.id>>)[i] =
             IF i <= Len(q) THEN IdsOf(q)[i] ELSE <<e.id>>[i - Len(q)]
  BY <1>3, <1>4, ConcatProperties
<1>6. \A i \in 1 .. Len(q) + 1 :
          IdsOf(Append(q, e))[i] = (IdsOf(q) \o <<e.id>>)[i]
  <2> SUFFICES ASSUME NEW i \in 1 .. Len(q) + 1
               PROVE  IdsOf(Append(q, e))[i] = (IdsOf(q) \o <<e.id>>)[i]
    OBVIOUS
  <2>1. CASE i <= Len(q)
    <3>1. i \in 1 .. Len(q)
      BY <1>3, <2>1
    <3>2. Append(q, e)[i] = q[i]
      BY <3>1, AppendProperties
    <3> QED BY <1>2, <1>3, <1>5, <2>1, <3>1, <3>2
  <2>2. CASE ~(i <= Len(q))
    <3>1. i = Len(q) + 1
      BY <1>3, <2>2
    <3>2. Append(q, e)[i] = e
      BY <3>1, AppendProperties
    <3>3. (IdsOf(q) \o <<e.id>>)[i] = <<e.id>>[1]
      BY <1>3, <1>5, <2>2, <3>1
    <3> QED BY <1>2, <1>4, <3>2, <3>3
  <2> QED BY <2>1, <2>2
<1> QED BY <1>2, <1>5, <1>6, SeqEqual

(* A queue's ids are its oldest one's followed by those of the rest. *)
LEMMA IdsOfHeadTail ==
    ASSUME NEW S, \A r \in S : r.id \in Ids, NEW q \in Seq(S), q # <<>>
    PROVE  /\ IdsOf(Tail(q)) \in Seq(Ids) /\ Head(q).id \in Ids
           /\ IdsOf(q) = <<Head(q).id>> \o IdsOf(Tail(q))
<1>1. /\ Head(q) \in S /\ Tail(q) \in Seq(S) /\ Len(Tail(q)) = Len(q) - 1
      /\ \A i \in 1 .. Len(Tail(q)) : Tail(q)[i] = q[i + 1]
  BY HeadTailProperties
<1>2. Len(q) \in Nat \ {0} /\ Head(q) = q[1]
  BY EmptySeq
<1>3. /\ IdsOf(q) \in Seq(Ids) /\ Len(IdsOf(q)) = Len(q)
      /\ \A i \in 1 .. Len(q) : IdsOf(q)[i] = q[i].id
  BY IdsOfType
<1>4. /\ IdsOf(Tail(q)) \in Seq(Ids) /\ Len(IdsOf(Tail(q))) = Len(q) - 1
      /\ \A i \in 1 .. Len(q) - 1 : IdsOf(Tail(q))[i] = Tail(q)[i].id
  BY <1>1, IdsOfType
<1>5. /\ <<Head(q).id>> \in Seq(Ids) /\ Len(<<Head(q).id>>) = 1
      /\ <<Head(q).id>>[1] = Head(q).id
  BY <1>1
<1>6. /\ <<Head(q).id>> \o IdsOf(Tail(q)) \in Seq(Ids)
      /\ Len(<<Head(q).id>> \o IdsOf(Tail(q))) = 1 + (Len(q) - 1)
      /\ \A i \in 1 .. 1 + (Len(q) - 1) : (<<Head(q).id>> \o IdsOf(Tail(q)))[i] =
             IF i <= 1 THEN <<Head(q).id>>[i] ELSE IdsOf(Tail(q))[i - 1]
  BY <1>4, <1>5, ConcatProperties
<1>7. \A i \in 1 .. Len(q) : IdsOf(q)[i] = (<<Head(q).id>> \o IdsOf(Tail(q)))[i]
  <2> SUFFICES ASSUME NEW i \in 1 .. Len(q)
               PROVE  IdsOf(q)[i] = (<<Head(q).id>> \o IdsOf(Tail(q)))[i]
    OBVIOUS
  <2>0. 1 + (Len(q) - 1) = Len(q) /\ 1 \in 1 .. Len(q)
    BY <1>2
  <2>1. CASE i = 1
    BY <1>2, <1>3, <1>5, <1>6, <2>0, <2>1
  <2>2. CASE i # 1
    <3>1. ~(i <= 1) /\ i - 1 \in 1 .. Len(q) - 1 /\ (i - 1) + 1 = i
      BY <1>2, <2>2
    <3>2. IdsOf(Tail(q))[i - 1] = q[i].id
      BY <1>1, <1>4, <3>1
    <3> QED BY <1>3, <1>6, <2>0, <3>1, <3>2
  <2> QED BY <2>1, <2>2
<1>8. Len(IdsOf(q)) = Len(<<Head(q).id>> \o IdsOf(Tail(q)))
  BY <1>2, <1>3, <1>6
<1> QED BY <1>1, <1>3, <1>4, <1>6, <1>7, <1>8, SeqEqual

--------------------------------------------------------------------------------
(* The id that add_outgoing holds *)

LEMMA UnpushedNone ==
    ASSUME NEW ad, \A t \in Threads : ad[t].pc # "push"
    PROVE  UnpushedOf(ad) = <<>>
  BY DEF UnpushedOf

LEMMA UnpushedOne ==
    ASSUME NEW ad, NEW t \in Threads, ad[t].pc = "push",
           \A u \in Threads : u # t => ad[u].pc # "push"
    PROVE  UnpushedOf(ad) = <<ad[t].msg.id>>
<1>1. {u \in Threads : ad[u].pc = "push"} = {t}
  OBVIOUS
<1> QED BY <1>1 DEF UnpushedOf

LEMMA UnpushedSame ==
    ASSUME NEW ad, NEW ad2, NEW t \in Threads, ad[t].pc # "push", ad2[t].pc # "push",
           \A u \in Threads : u # t => ad2[u] = ad[u]
    PROVE  UnpushedOf(ad2) = UnpushedOf(ad)
<1> DEFINE held == {u \in Threads : ad[u].pc = "push"}
<1>1. {u \in Threads : ad2[u].pc = "push"} = held
  OBVIOUS
<1>2. \A u \in held : ad2[u] = ad[u]
  OBVIOUS
<1>3. held # {} => (CHOOSE u \in held : TRUE) \in held
  OBVIOUS
<1> QED BY <1>1, <1>2, <1>3 DEF UnpushedOf

(* What is under way, typed. *)
LEMMA UnderWayType ==
    ASSUME TypeOK, NoConcurrentAdds
    PROVE  /\ IdsOf(inQ) \in Seq(Ids) /\ IdsOf(fromMc) \in Seq(Ids)
           /\ IdsOf(toMc) \in Seq(Ids) /\ IdsOf(outQ) \in Seq(Ids)
           /\ Unpushed \in Seq(Ids)
           /\ Len(IdsOf(inQ)) = Len(inQ) /\ Len(IdsOf(fromMc)) = Len(fromMc)
           /\ Len(IdsOf(toMc)) = Len(toMc) /\ Len(IdsOf(outQ)) = Len(outQ)
           /\ Len(inQ) \in Nat /\ Len(fromMc) \in Nat /\ Len(toMc) \in Nat
           /\ Len(outQ) \in Nat
<1>1. (\A r \in Message : r.id \in Ids) /\ (\A r \in Response : r.id \in Ids)
  BY DEF Message, Response
<1>2. Unpushed \in Seq(Ids)
  <2>1. CASE \A t \in Threads : adder[t].pc # "push"
    BY <2>1, UnpushedNone, EmptySeq DEF Unpushed
  <2>2. ASSUME NEW t \in Threads, adder[t].pc = "push" PROVE Unpushed \in Seq(Ids)
    <3>1. \A u \in Threads : u # t => adder[u].pc # "push"
      BY <2>2 DEF NoConcurrentAdds
    <3>2. Unpushed = <<adder[t].msg.id>> /\ adder[t].msg.id \in Ids
      BY <2>2, <3>1, UnpushedOne, TypeFacts DEF Unpushed
    <3> QED BY <3>2
  <2> QED BY <2>1, <2>2
<1> QED BY <1>1, <1>2, TypeFacts, IdsOfType, LenProperties

(* An id that moves from the head of one queue to the tail of the next. *)
LEMMA Shift ==
    ASSUME NEW S, NEW X \in Seq(S), NEW a \in Seq(S), NEW b \in Seq(S), NEW x \in S
    PROVE  (X \o (a \o <<x>>)) \o b = (X \o a) \o (<<x>> \o b)
<1>1. <<x>> \in Seq(S) /\ X \o a \in Seq(S)
  BY ConcatProperties
<1>2. X \o (a \o <<x>>) = (X \o a) \o <<x>>
  BY <1>1, ConcatAssociative
<1>3. ((X \o a) \o <<x>>) \o b = (X \o a) \o (<<x>> \o b)
  BY <1>1, ConcatAssociative
<1> QED BY <1>2, <1>3

(* A part under way is empty when nothing is waiting, and the parts that    *)
(* add_outgoing and the responses need room for are no longer than the ring.*)
LEMMA UnderWayBounds ==
    ASSUME TypeOK, NoConcurrentAdds, UnderWay
    PROVE  /\ Len(pendingDones) = Len(inQ) + Len(fromMc) + Len(toMc) + Len(outQ)
                                  + Len(Unpushed)
           /\ Len(Unpushed) \in Nat
           /\ pendingDones = <<>> =>
                  inQ = <<>> /\ fromMc = <<>> /\ toMc = <<>> /\ outQ = <<>>
<1> DEFINE a == IdsOf(inQ)
           b == IdsOf(fromMc)
           c == IdsOf(toMc)
           d == IdsOf(outQ)
<1>0. /\ a \in Seq(Ids) /\ b \in Seq(Ids) /\ c \in Seq(Ids) /\ d \in Seq(Ids)
      /\ Unpushed \in Seq(Ids)
      /\ Len(a) = Len(inQ) /\ Len(b) = Len(fromMc) /\ Len(c) = Len(toMc)
      /\ Len(d) = Len(outQ)
      /\ Len(inQ) \in Nat /\ Len(fromMc) \in Nat /\ Len(toMc) \in Nat /\ Len(outQ) \in Nat
  BY UnderWayType
<1>1. pendingDones = (((a \o b) \o c) \o d) \o Unpushed
  BY DEF UnderWay
<1> HIDE DEF a, b, c, d
<1>5. Len(pendingDones) = Len(a) + Len(b) + Len(c) + Len(d) + Len(Unpushed)
  <2>1. a \o b \in Seq(Ids) /\ Len(a \o b) = Len(a) + Len(b)
    BY <1>0, ConcatProperties
  <2> DEFINE ab == a \o b
  <2>2. ab \in Seq(Ids)
    BY <2>1
  <2> HIDE DEF ab
  <2>3. ab \o c \in Seq(Ids) /\ Len(ab \o c) = Len(ab) + Len(c)
    BY <1>0, <2>2, ConcatProperties
  <2> DEFINE abc == ab \o c
  <2>4. abc \in Seq(Ids)
    BY <2>3
  <2> HIDE DEF abc
  <2>5. abc \o d \in Seq(Ids) /\ Len(abc \o d) = Len(abc) + Len(d)
    BY <1>0, <2>4, ConcatProperties
  <2> DEFINE abcd == abc \o d
  <2>6. abcd \in Seq(Ids)
    BY <2>5
  <2> HIDE DEF abcd
  <2>7. Len(abcd \o Unpushed) = Len(abcd) + Len(Unpushed)
    BY <1>0, <2>6, ConcatProperties
  <2>8. pendingDones = abcd \o Unpushed
    BY <1>1 DEF ab, abc, abcd
  <2> QED BY <2>1, <2>3, <2>5, <2>7, <2>8, Zenon DEF ab, abc, abcd
<1>6. Len(Unpushed) \in Nat
  BY <1>0, LenProperties
<1>7. ASSUME pendingDones = <<>>
      PROVE  inQ = <<>> /\ fromMc = <<>> /\ toMc = <<>> /\ outQ = <<>>
  <2>1. Len(pendingDones) = 0
    BY <1>7, EmptySeq
  <2>2. 0 = Len(inQ) + Len(fromMc) + Len(toMc) + Len(outQ) + Len(Unpushed)
    BY <1>0, <1>5, <2>1
  <2>3. \A i, j, k, l, m \in Nat :
            0 = i + j + k + l + m => i = 0 /\ j = 0 /\ k = 0 /\ l = 0
    OBVIOUS
  <2>4. Len(inQ) = 0 /\ Len(fromMc) = 0 /\ Len(toMc) = 0 /\ Len(outQ) = 0
    BY <1>0, <1>6, <2>2, <2>3
  <2> QED BY <2>4, TypeFacts, EmptySeq
<1> QED BY <1>0, <1>5, <1>6, <1>7

--------------------------------------------------------------------------------
(* Without Faults, what is under way keeps in step with the waiting ids *)

(* A step that leaves the queues, the line and the worker alone. *)
LEMMA InStepStutters ==
    ASSUME InStep,
           UNCHANGED <<pendingDones, outQ, inQ, toMc, fromMc, fsmState, error, processPc>>,
           Unpushed' = Unpushed
    PROVE  InStep'
<1>1. UnderWay'
  BY Zenon DEF InStep, UnderWay, IdsOf
<1>2. AllDone(inQ)' /\ AllDone(fromMc)'
  BY Zenon DEF InStep, AllDone
<1>3. IdleMeansQuiet' /\ OnlyTimeouts'
  BY Zenon DEF InStep, IdleMeansQuiet, OnlyTimeouts
<1> QED BY <1>1, <1>2, <1>3 DEF InStep

LEMMA UnpushedKept == adder' = adder => Unpushed' = Unpushed
  BY DEF Unpushed, UnpushedOf

(* Every response and message has an id. *)
LEMMA HaveIds == (\A r \in Message : r.id \in Ids) /\ (\A r \in Response : r.id \in Ids)
  BY DEF Message, Response

LEMMA AddNumberInStep ==
    ASSUME TypeOK, InStep, NEW t \in Threads, NEW cmd, AddNumber(t, cmd),
           UNCHANGED lineVars
    PROVE  InStep'
<1>1. adder[t].pc # "push" /\ adder'[t].pc # "push"
      /\ \A u \in Threads : u # t => adder'[u] = adder[u]
  BY AddNumberAdder, TypeFacts DEF AddNumber
<1>2. Unpushed' = Unpushed
  BY <1>1, UnpushedSame DEF Unpushed
<1> QED BY <1>2, InStepStutters DEF AddNumber, workerVars, lineVars

(* Room in the ring was room in the queue. *)
LEMMA RoomToPush ==
    ASSUME TypeOK, NoConcurrentAdds, InStep, NEW t \in Threads, adder[t].pc = "push"
    PROVE  ~IsFull(outQ) /\ Unpushed = <<adder[t].msg.id>>
<1>1. \A u \in Threads : u # t => adder[u].pc # "push"
  BY DEF NoConcurrentAdds
<1>2. Unpushed = <<adder[t].msg.id>>
  BY <1>1, UnpushedOne DEF Unpushed
<1>3. Len(Unpushed) = 1
  BY <1>2
<1>4. /\ Len(pendingDones) = Len(inQ) + Len(fromMc) + Len(toMc) + Len(outQ) + Len(Unpushed)
      /\ Len(pendingDones) <= Capacity
      /\ Len(inQ) \in Nat /\ Len(fromMc) \in Nat /\ Len(toMc) \in Nat /\ Len(outQ) \in Nat
  BY UnderWayBounds, UnderWayType, TypeFacts DEF InStep
<1>5. Len(outQ) # Capacity
  BY <1>3, <1>4 DEF Capacity
<1> QED BY <1>2, <1>5 DEF IsFull

LEMMA AddStepInStep ==
    ASSUME TypeOK, NoConcurrentAdds, InStep, NEW t \in Threads, Add(t)
    PROVE  InStep'
<1>0. /\ adder[t].pc # "idle" /\ AddStep(t) /\ UNCHANGED lineVars
      /\ \A u \in Threads : u # t => adder'[u] = adder[u]
      /\ \A u \in Threads : u # t => adder[u].pc = "idle"
      /\ adder \in [Threads -> AdderState]
      /\ UNCHANGED <<inQ, fsmState, error, processPc>>
  BY AddStepAdder, AddStepQueue, TypeFacts DEF Add, NoConcurrentAdds
<1>1. CASE adder[t].pc # "push" /\ adder'[t].pc # "push" /\ UNCHANGED <<pendingDones, outQ>>
  BY <1>0, <1>1, UnpushedSame, InStepStutters DEF Unpushed, lineVars
<1>a. AllDone(inQ)' /\ AllDone(fromMc)' /\ IdleMeansQuiet' /\ OnlyTimeouts'
  <2>1. UNCHANGED <<toMc, fromMc>>
    BY <1>0 DEF lineVars
  <2> QED BY <1>0, <2>1, Zenon DEF InStep, AllDone, IdleMeansQuiet, OnlyTimeouts
<1>2. CASE AddPending(t) /\ ~IsFull(pendingDones)
  <2>1. /\ adder[t].pc = "pending" /\ adder'[t].pc = "push"
        /\ adder'[t].msg = adder[t].msg
        /\ pendingDones' = Append(pendingDones, adder[t].msg.id)
        /\ UNCHANGED <<outQ, inQ>>
    BY <1>0, <1>2 DEF AddPending, Goto, AdderState
  <2>2. Unpushed = <<>>
    BY <1>0, <2>1, UnpushedNone DEF Unpushed
  <2>3. Unpushed' = <<adder[t].msg.id>>
    BY <1>0, <2>1, UnpushedOne DEF Unpushed
  <2> DEFINE X == IdsOf(inQ) \o IdsOf(fromMc) \o IdsOf(toMc) \o IdsOf(outQ)
  <2>4. X \in Seq(Ids) /\ pendingDones = X
    <3>1. X \in Seq(Ids)
      BY UnderWayType, ConcatProperties, Zenon
    <3> QED BY <2>2, <3>1, ConcatEmptySeq DEF InStep, UnderWay
  <2>5. X' = X
    BY <1>0, <2>1, Zenon DEF IdsOf, lineVars
  <2>6. pendingDones' = X' \o Unpushed'
    <3> HIDE DEF X
    <3> QED BY <2>1, <2>3, <2>4, <2>5, TypeFacts, AppendIsConcat, ZenonT(60)
  <2>7. UnderWay'
    BY <2>6 DEF UnderWay
  <2> QED BY <1>a, <2>7 DEF InStep
<1>3. CASE AddPush(t)
  <2> DEFINE x == adder[t].msg.id
             X == IdsOf(inQ) \o IdsOf(fromMc) \o IdsOf(toMc)
  <2>1. adder[t].pc = "push" /\ UNCHANGED <<pendingDones, inQ, toMc, fromMc>>
    BY <1>0, <1>3 DEF AddPush, lineVars
  <2>2. ~IsFull(outQ) /\ Unpushed = <<x>>
    BY <2>1, RoomToPush
  <2>3. outQ' = Append(outQ, adder[t].msg) /\ Goto(t, "slot id")
    BY <1>3, <2>2 DEF AddPush
  <2>4. adder'[t].pc # "push"
    BY <1>0, <2>3 DEF Goto, AdderState
  <2>5. Unpushed' = <<>>
    BY <1>0, <2>4, UnpushedNone DEF Unpushed
  <2>6. X \in Seq(Ids) /\ IdsOf(outQ) \in Seq(Ids) /\ x \in Ids /\ <<x>> \in Seq(Ids)
    <3>1. x \in Ids /\ <<x>> \in Seq(Ids)
      BY TypeFacts
    <3> QED BY <3>1, UnderWayType, ConcatProperties, Zenon
  <2>7. IdsOf(outQ') = IdsOf(outQ) \o <<x>>
    BY <2>3, TypeFacts, HaveIds, IdsOfAppend
  <2>8. X' = X
    BY <2>1, Zenon DEF IdsOf
  <2>9. pendingDones = (X \o IdsOf(outQ)) \o <<x>>
    BY <2>2, Zenon DEF InStep, UnderWay
  <2>10. (X' \o IdsOf(outQ')) \o Unpushed' = pendingDones'
    <3> HIDE DEF X, x
    <3>1. X \o (IdsOf(outQ) \o <<x>>) = (X \o IdsOf(outQ)) \o <<x>>
      BY <2>6, ConcatAssociative
    <3>2. (X \o (IdsOf(outQ) \o <<x>>)) \in Seq(Ids)
      BY <2>6, ConcatProperties
    <3>3. (X \o (IdsOf(outQ) \o <<x>>)) \o <<>> = X \o (IdsOf(outQ) \o <<x>>)
      BY <3>2, ConcatEmptySeq
    <3> QED BY <2>1, <2>5, <2>7, <2>8, <2>9, <3>1, <3>3, Zenon
  <2>11. UnderWay'
    BY <2>10 DEF UnderWay
  <2> QED BY <1>a, <2>11 DEF InStep
<1>4. CASE AddPending(t) /\ IsFull(pendingDones)
  BY <1>0, <1>1, <1>4 DEF AddPending, Return, AdderIdle
<1>5. CASE AddSlotId(t) \/ AddSlotFunc(t)
  <2>1. adder[t].pc # "push"
    BY <1>5 DEF AddSlotId, AddSlotFunc
  <2>2. Return(t) \/ Goto(t, "slot func")
    BY <1>5 DEF AddSlotId, AddSlotFunc
  <2>3. adder'[t].pc # "push"
    <3>1. CASE Return(t)
      BY <1>0, <3>1 DEF Return, AdderIdle
    <3>2. CASE Goto(t, "slot func")
      BY <1>0, <3>2 DEF Goto, AdderState
    <3> QED BY <2>2, <3>1, <3>2
  <2> QED BY <1>1, <1>5, <2>1, <2>3 DEF AddSlotId, AddSlotFunc
<1> QED BY <1>0, <1>2, <1>3, <1>4, <1>5 DEF AddStep

(* DONEs appended to or taken from a queue of DONEs leave a queue of DONEs. *)
LEMMA AllDoneAppend ==
    ASSUME NEW q \in Seq(Response), AllDone(q), NEW r \in Response, r.type = "DONE"
    PROVE  AllDone(Append(q, r))
<1>1. /\ Append(q, r) \in Seq(Response) /\ Len(Append(q, r)) = Len(q) + 1
      /\ \A i \in 1 .. Len(q) : Append(q, r)[i] = q[i]
      /\ Append(q, r)[Len(q) + 1] = r
      /\ Len(q) \in Nat /\ DOMAIN q = 1 .. Len(q)
      /\ DOMAIN Append(q, r) = 1 .. Len(q) + 1
  BY AppendProperties, LenProperties
<1> SUFFICES ASSUME NEW i \in 1 .. Len(q) + 1 PROVE Append(q, r)[i].type = "DONE"
  BY <1>1 DEF AllDone
<1>2. CASE i \in 1 .. Len(q)
  BY <1>1, <1>2 DEF AllDone
<1>3. CASE i = Len(q) + 1
  BY <1>1, <1>3
<1> QED BY <1>1, <1>2, <1>3

LEMMA AllDoneTail ==
    ASSUME NEW q \in Seq(Response), AllDone(q), q # <<>>
    PROVE  /\ Head(q) \in Response /\ Head(q).type = "DONE"
           /\ Tail(q) \in Seq(Response) /\ AllDone(Tail(q))
<1>1. /\ Head(q) \in Response /\ Tail(q) \in Seq(Response) /\ Len(Tail(q)) = Len(q) - 1
      /\ \A i \in 1 .. Len(Tail(q)) : Tail(q)[i] = q[i + 1]
      /\ Len(q) \in Nat \ {0} /\ DOMAIN q = 1 .. Len(q)
      /\ DOMAIN Tail(q) = 1 .. Len(Tail(q))
  BY HeadTailProperties, LenProperties, EmptySeq
<1>2. Head(q).type = "DONE"
  <2>1. Head(q) = q[1] /\ 1 \in DOMAIN q
    BY <1>1
  <2> QED BY <2>1 DEF AllDone
<1>3. \A i \in 1 .. Len(Tail(q)) : i + 1 \in DOMAIN q /\ Tail(q)[i] = q[i + 1]
  BY <1>1
<1>4. AllDone(Tail(q))
  BY <1>1, <1>3 DEF AllDone
<1> QED BY <1>1, <1>2, <1>4

(* The read of a response: its id moves from the line to the incoming queue. *)
LEMMA ReadInStep ==
    ASSUME TypeOK, NoConcurrentAdds, InStep, ReadOne
    PROVE  InStep' /\ ~IsFull(inQ)
<1> DEFINE x == Head(fromMc).id
           rest == IdsOf(toMc)
<1>1. ~IsFull(inQ) /\ fromMc # <<>>
  <2>1. fromMc # <<>>
    BY DEF ReadOne
  <2>2. Len(fromMc) \in Nat \ {0}
    BY <2>1, TypeFacts, EmptySeq
  <2>3. /\ Len(pendingDones) = Len(inQ) + Len(fromMc) + Len(toMc) + Len(outQ) + Len(Unpushed)
        /\ Len(pendingDones) <= Capacity /\ Len(Unpushed) \in Nat
        /\ Len(inQ) \in Nat /\ Len(fromMc) \in Nat /\ Len(toMc) \in Nat /\ Len(outQ) \in Nat
    BY UnderWayBounds, UnderWayType, TypeFacts DEF InStep
  <2> QED BY <2>1, <2>2, <2>3 DEF IsFull, Capacity
<1>2. /\ inQ' = Append(inQ, Head(fromMc)) /\ fromMc' = Tail(fromMc)
      /\ UNCHANGED <<pendingDones, outQ, fsmState, error, processPc, adder, toMc>>
  <2>1. inQ' = Append(inQ, Head(fromMc)) /\ fromMc' = Tail(fromMc)
    BY <1>1 DEF ReadOne, Received, AddIncoming
  <2> QED BY <2>1, PollWorker DEF Poll
<1>3. /\ IdsOf(inQ') = IdsOf(inQ) \o <<x>> /\ IdsOf(fromMc) = <<x>> \o IdsOf(fromMc')
      /\ x \in Ids /\ <<x>> \in Seq(Ids)
      /\ IdsOf(inQ) \in Seq(Ids) /\ IdsOf(fromMc') \in Seq(Ids)
  <2>0. inQ \in Seq(Response) /\ fromMc \in Seq(Response)
    BY TypeFacts
  <2>1. Head(fromMc) \in Response
    BY <1>1, <2>0, HeadTailProperties
  <2>2. IdsOf(Append(inQ, Head(fromMc))) = IdsOf(inQ) \o <<x>>
    BY <2>0, <2>1, HaveIds, IdsOfAppend
  <2>3. IdsOf(Tail(fromMc)) \in Seq(Ids) /\ IdsOf(fromMc) = <<x>> \o IdsOf(Tail(fromMc))
    BY <1>1, <2>0, HaveIds, IdsOfHeadTail
  <2>4. x \in Ids /\ <<x>> \in Seq(Ids)
    BY <2>1, HaveIds
  <2> QED BY <1>2, <2>2, <2>3, <2>4, UnderWayType
<1>4. IdsOf(inQ') \o IdsOf(fromMc') = IdsOf(inQ) \o IdsOf(fromMc)
  <2> HIDE DEF x
  <2>1. (IdsOf(inQ) \o <<x>>) \o IdsOf(fromMc') = IdsOf(inQ) \o (<<x>> \o IdsOf(fromMc'))
    BY <1>3, ConcatAssociative
  <2> QED BY <1>3, <2>1, Zenon
<1>5. Unpushed' = Unpushed /\ IdsOf(toMc') = IdsOf(toMc) /\ IdsOf(outQ') = IdsOf(outQ)
  BY <1>2, UnpushedKept DEF IdsOf
<1>6. UnderWay'
  BY <1>2, <1>4, <1>5, Zenon DEF InStep, UnderWay
<1>7. AllDone(inQ)' /\ AllDone(fromMc)'
  <2>1. /\ inQ \in Seq(Response) /\ AllDone(inQ)
        /\ fromMc \in Seq(Response) /\ AllDone(fromMc)
    BY TypeFacts DEF InStep
  <2>2. AllDone(Append(inQ, Head(fromMc))) /\ AllDone(Tail(fromMc))
    BY <1>1, <2>1, AllDoneTail, AllDoneAppend
  <2>3. AllDone(inQ') /\ AllDone(fromMc')
    BY <1>2, <2>2
  <2> QED BY <2>3 DEF AllDone
<1>8. IdleMeansQuiet' /\ OnlyTimeouts'
  BY <1>1, <1>2, Zenon DEF InStep, IdleMeansQuiet, OnlyTimeouts
<1> QED BY <1>1, <1>6, <1>7, <1>8 DEF InStep

LEMMA AnswerInStep ==
    ASSUME TypeOK, NoConcurrentAdds, InStep, Answer("DONE"), UNCHANGED mhVars
    PROVE  InStep'
<1> DEFINE x == Head(toMc).id
           r == [id |-> x, type |-> "DONE"]
<1>0. toMc \in Seq(Message) /\ fromMc \in Seq(Response) /\ toMc # <<>>
      /\ toMc' = Tail(toMc) /\ fromMc' = Append(fromMc, r)
  BY TypeFacts DEF Answer
<1>1. /\ IdsOf(toMc') \in Seq(Ids) /\ x \in Ids /\ <<x>> \in Seq(Ids)
      /\ IdsOf(toMc) = <<x>> \o IdsOf(toMc')
  <2>1. Head(toMc).id \in Ids /\ IdsOf(Tail(toMc)) \in Seq(Ids)
        /\ IdsOf(toMc) = <<Head(toMc).id>> \o IdsOf(Tail(toMc))
    BY <1>0, HaveIds, IdsOfHeadTail
  <2> QED BY <1>0, <2>1
<1>2. r \in Response /\ r.type = "DONE" /\ r.id = x
  BY <1>1 DEF Response, ResponseType
<1>3. IdsOf(fromMc') = IdsOf(fromMc) \o <<x>> /\ AllDone(fromMc')
  <2> HIDE DEF r
  <2>1. IdsOf(Append(fromMc, r)) = IdsOf(fromMc) \o <<r.id>>
    BY <1>0, <1>2, HaveIds, IdsOfAppend
  <2>2. AllDone(Append(fromMc, r))
    BY <1>0, <1>2, AllDoneAppend DEF InStep
  <2> QED BY <1>0, <1>2, <2>1, <2>2
<1>4. UNCHANGED <<pendingDones, outQ, inQ, fsmState, error, processPc, adder>>
  BY DEF mhVars
<1>5. Unpushed' = Unpushed /\ IdsOf(inQ') = IdsOf(inQ) /\ IdsOf(outQ') = IdsOf(outQ)
  BY <1>4, UnpushedKept DEF IdsOf
<1>6. IdsOf(inQ) \o IdsOf(fromMc') \o IdsOf(toMc') = IdsOf(inQ) \o IdsOf(fromMc) \o IdsOf(toMc)
  <2>1. IdsOf(inQ) \in Seq(Ids) /\ IdsOf(fromMc) \in Seq(Ids)
    BY UnderWayType
  <2> HIDE DEF x
  <2>2. (IdsOf(inQ) \o (IdsOf(fromMc) \o <<x>>)) \o IdsOf(toMc')
            = (IdsOf(inQ) \o IdsOf(fromMc)) \o (<<x>> \o IdsOf(toMc'))
    BY <1>1, <2>1, Shift, SMTT(30)
  <2> QED BY <1>1, <1>3, <2>2, Zenon
<1>7. UnderWay'
  BY <1>4, <1>5, <1>6, Zenon DEF InStep, UnderWay
<1>8. AllDone(inQ)' /\ AllDone(fromMc)'
  BY <1>3, <1>4 DEF InStep, AllDone
<1>9. IdleMeansQuiet' /\ OnlyTimeouts'
  BY <1>0, <1>4, Zenon DEF InStep, IdleMeansQuiet, OnlyTimeouts
<1> QED BY <1>7, <1>8, <1>9 DEF InStep

LEMMA SendInStep ==
    ASSUME TypeOK, NoConcurrentAdds, SendHasMessage, InStep, Send(TRUE)
    PROVE  InStep'
<1> DEFINE x == Head(outQ).id
           X == IdsOf(inQ) \o IdsOf(fromMc)
<1>0. /\ fsmState = "SEND_CMD" /\ outQ # <<>> /\ outQ \in Seq(Message) /\ toMc \in Seq(Message)
      /\ outQ' = Tail(outQ) /\ toMc' = Append(toMc, Head(outQ)) /\ fsmState' = "DONE_PENDING"
      /\ UNCHANGED <<pendingDones, inQ, fromMc, adder>>
  BY TypeFacts DEF Send, SendCmd, SendHasMessage, DropOldest, adderVars
<1>1. /\ IdsOf(outQ') \in Seq(Ids) /\ x \in Ids /\ <<x>> \in Seq(Ids)
      /\ IdsOf(outQ) = <<x>> \o IdsOf(outQ')
  <2>1. Head(outQ).id \in Ids /\ IdsOf(Tail(outQ)) \in Seq(Ids)
        /\ IdsOf(outQ) = <<Head(outQ).id>> \o IdsOf(Tail(outQ))
    BY <1>0, HaveIds, IdsOfHeadTail
  <2> QED BY <1>0, <2>1
<1>2. IdsOf(toMc') = IdsOf(toMc) \o <<x>>
  <2>1. Head(outQ) \in Message
    BY <1>0, HeadTailProperties
  <2> QED BY <1>0, <2>1, HaveIds, IdsOfAppend
<1>3. Unpushed' = Unpushed /\ IdsOf(inQ') = IdsOf(inQ) /\ IdsOf(fromMc') = IdsOf(fromMc)
  BY <1>0, UnpushedKept DEF IdsOf
<1>4. (X \o IdsOf(toMc')) \o IdsOf(outQ') = (X \o IdsOf(toMc)) \o IdsOf(outQ)
  <2>1. X \in Seq(Ids) /\ IdsOf(toMc) \in Seq(Ids)
    BY UnderWayType, ConcatProperties, Zenon
  <2> DEFINE p == IdsOf(toMc)  r == IdsOf(outQ')
  <2>a. X \in Seq(Ids) /\ p \in Seq(Ids) /\ r \in Seq(Ids) /\ x \in Ids
    BY <1>1, <2>1
  <2> HIDE DEF x, X, p, r
  <2>b. (X \o (p \o <<x>>)) \o r = (X \o p) \o (<<x>> \o r)
    BY <2>a, Shift, SMTT(30)
  <2>2. (X \o (IdsOf(toMc) \o <<x>>)) \o IdsOf(outQ')
            = (X \o IdsOf(toMc)) \o (<<x>> \o IdsOf(outQ'))
    BY <2>b DEF p, r
  <2> QED BY <1>1, <1>2, <2>2, Zenon
<1>5. UnderWay'
  BY <1>0, <1>3, <1>4, Zenon DEF InStep, UnderWay
<1>6. AllDone(inQ)' /\ AllDone(fromMc)'
  BY <1>0, Zenon DEF InStep, AllDone
<1>7. IdleMeansQuiet' /\ OnlyTimeouts'
  BY <1>0, Zenon DEF IdleMeansQuiet, OnlyTimeouts
<1> QED BY <1>5, <1>6, <1>7 DEF InStep

LEMMA NoIdsNoItems ==
    ASSUME NEW S, \A r \in S : r.id \in Ids, NEW q \in Seq(S), IdsOf(q) = <<>>
    PROVE  q = <<>>
<1>1. Len(q) = 0
  BY IdsOfType, EmptySeq
<1> QED BY <1>1, EmptySeq

(* The oldest id of the first part is the oldest of all. *)
LEMMA OldestFirst ==
    ASSUME NEW S, NEW x \in S, NEW a \in Seq(S), NEW b \in Seq(S), NEW c \in Seq(S),
           NEW d \in Seq(S), NEW e \in Seq(S)
    PROVE  /\ (<<x>> \o a) \o b \o c \o d \o e = <<x>> \o (a \o b \o c \o d \o e)
           /\ a \o b \o c \o d \o e \in Seq(S)
<1>0. <<x>> \in Seq(S)
  OBVIOUS
<1>1. (<<x>> \o a) \o b = <<x>> \o (a \o b) /\ a \o b \in Seq(S)
  BY <1>0, ConcatAssociative, ConcatProperties, SMTT(30)
<1> DEFINE ab == a \o b
<1>a. ab \in Seq(S)
  BY <1>1
<1> HIDE DEF ab
<1>2. (<<x>> \o ab) \o c = <<x>> \o (ab \o c) /\ ab \o c \in Seq(S)
  BY <1>0, <1>a, ConcatAssociative, ConcatProperties, SMTT(30)
<1> DEFINE abc == ab \o c
<1>b. abc \in Seq(S)
  BY <1>2
<1> HIDE DEF abc
<1>3. (<<x>> \o abc) \o d = <<x>> \o (abc \o d) /\ abc \o d \in Seq(S)
  BY <1>0, <1>b, ConcatAssociative, ConcatProperties, SMTT(30)
<1> DEFINE abcd == abc \o d
<1>c. abcd \in Seq(S)
  BY <1>3
<1> HIDE DEF abcd
<1>4. (<<x>> \o abcd) \o e = <<x>> \o (abcd \o e) /\ abcd \o e \in Seq(S)
  <2>1. (<<x>> \o abcd) \o e = <<x>> \o (abcd \o e)
    BY <1>0, <1>c, ConcatAssociative
  <2>2. abcd \o e \in Seq(S)
    BY <1>c, ConcatProperties
  <2> QED BY <2>1, <2>2
<1> QED BY <1>1, <1>2, <1>3, <1>4, Zenon DEF ab, abc, abcd

(* A whole that is empty has empty parts. *)
LEMMA EmptyParts ==
    ASSUME NEW S, NEW a \in Seq(S), NEW b \in Seq(S), NEW c \in Seq(S), NEW d \in Seq(S),
           NEW e \in Seq(S), a \o b \o c \o d \o e = <<>>
    PROVE  a = <<>> /\ b = <<>> /\ c = <<>>
<1>1. a \o b \in Seq(S)
  BY ConcatProperties
<1> DEFINE ab == a \o b
<1> HIDE DEF ab
<1>2. ab \o c \in Seq(S)
  BY <1>1, ConcatProperties DEF ab
<1> DEFINE abc == ab \o c
<1> HIDE DEF abc
<1>3. abc \o d \in Seq(S)
  BY <1>2, ConcatProperties DEF abc
<1> DEFINE abcd == abc \o d
<1> HIDE DEF abcd
<1>4. abcd \in Seq(S) /\ abcd \o e = <<>>
  BY <1>3, Zenon DEF ab, abc, abcd
<1>5. abcd = <<>>
  BY <1>4, ConcatEqualIffEmpty
<1>6. abc = <<>>
  BY <1>2, <1>5, ConcatEqualIffEmpty DEF abc, abcd
<1>7. ab = <<>> /\ c = <<>>
  BY <1>1, <1>6, ConcatEqualIffEmpty DEF ab, abc
<1> QED BY <1>7, ConcatEqualIffEmpty DEF ab

(* A response that is handled is the DONE of the oldest id. *)
LEMMA DoneInStep ==
    ASSUME TypeOK, NoConcurrentAdds, InStep, DoneReceive, UNCHANGED lineVars
    PROVE  InStep'
<1> DEFINE x == Head(inQ).id
           a == IdsOf(Tail(inQ))
           b == IdsOf(fromMc)
           c == IdsOf(toMc)
           d == IdsOf(outQ)
           rest == a \o b \o c \o d \o Unpushed
<1>0. /\ inQ # <<>> /\ inQ \in Seq(Response) /\ AllDone(inQ) /\ inQ' = Tail(inQ)
      /\ fsmState = "DONE_PENDING" /\ HandleIncoming(Head(inQ))
      /\ processPc' = "outQ"
      /\ UNCHANGED <<outQ, toMc, fromMc, adder>>
  BY TypeFacts DEF DoneReceive, PopIncoming, DropOldest, InStep, adderVars, lineVars
<1>1. /\ Head(inQ).type = "DONE" /\ x \in Ids /\ Tail(inQ) \in Seq(Response)
      /\ AllDone(Tail(inQ)) /\ a \in Seq(Ids) /\ IdsOf(inQ) = <<x>> \o a
  BY <1>0, AllDoneTail, HaveIds, IdsOfHeadTail
<1>2. b \in Seq(Ids) /\ c \in Seq(Ids) /\ d \in Seq(Ids) /\ Unpushed \in Seq(Ids)
  BY UnderWayType
<1>3. pendingDones = <<x>> \o rest /\ rest \in Seq(Ids)
  <2>1. pendingDones = (<<x>> \o a) \o b \o c \o d \o Unpushed
    BY <1>1, Zenon DEF InStep, UnderWay
  <2>2. /\ (<<x>> \o a) \o b \o c \o d \o Unpushed = <<x>> \o rest
        /\ rest \in Seq(Ids)
    <3> HIDE DEF x, a, b, c, d
    <3> QED BY <1>1, <1>2, OldestFirst, Zenon
  <2> QED BY <2>1, <2>2, Zenon
<1>4. pendingDones # <<>> /\ Head(pendingDones) = x /\ Tail(pendingDones) = rest
  <2> HIDE DEF x, rest
  <2>1. <<x>> \in Seq(Ids) /\ Len(<<x>>) = 1 /\ <<x>>[1] = x
    BY <1>1
  <2>2. /\ Len(pendingDones) = 1 + Len(rest) /\ pendingDones \in Seq(Ids)
        /\ \A i \in 1 .. 1 + Len(rest) :
               pendingDones[i] = IF i <= 1 THEN <<x>>[i] ELSE rest[i - 1]
    BY <1>3, <2>1, ConcatProperties
  <2>3. Len(rest) \in Nat
    BY <1>3, LenProperties
  <2>4. pendingDones # <<>>
    BY <2>2, <2>3, EmptySeq
  <2>5. Head(pendingDones) = x
    BY <2>1, <2>2, <2>3
  <2>6. /\ Tail(pendingDones) \in Seq(Ids) /\ Len(Tail(pendingDones)) = Len(rest)
        /\ \A i \in 1 .. Len(rest) : Tail(pendingDones)[i] = pendingDones[i + 1]
    BY <2>2, <2>3, <2>4, HeadTailProperties
  <2>7. \A i \in 1 .. Len(rest) : Tail(pendingDones)[i] = rest[i]
    BY <2>2, <2>3, <2>6
  <2> QED BY <1>3, <2>4, <2>5, <2>6, <2>7, SeqEqual
<1>5. CompleteOldest(Head(inQ))
  BY <1>0, <1>1, <1>4
     DEF HandleIncoming, RejectDone, IsOldest, HandleFailure, IgnoreStop, PeekPending
<1>6. pendingDones' = rest /\ fsmState' = IF rest = <<>> THEN "IDLE" ELSE "DONE_PENDING"
  BY <1>4, <1>5 DEF CompleteOldest, IsOldest, AfterDone, PopPending, DropOldest
<1>7. UnderWay'
  <2>1. Unpushed' = Unpushed
    BY <1>0, UnpushedKept
  <2>2. IdsOf(inQ') = a /\ IdsOf(fromMc') = b /\ IdsOf(toMc') = c /\ IdsOf(outQ') = d
    BY <1>0, Zenon
  <2> QED BY <1>6, <2>1, <2>2, Zenon DEF UnderWay, IdsOf
<1>8. AllDone(inQ)' /\ AllDone(fromMc)'
  <2>1. AllDone(inQ') /\ AllDone(fromMc')
    BY <1>0, <1>1 DEF InStep
  <2> QED BY <2>1 DEF AllDone
<1>9. IdleMeansQuiet'
  <2>1. ASSUME rest = <<>> PROVE inQ' = <<>> /\ fromMc' = <<>> /\ toMc' = <<>>
    <3>1. a = <<>> /\ b = <<>> /\ c = <<>>
      <4> HIDE DEF a, b, c, d
      <4> QED BY <1>1, <1>2, <2>1, EmptyParts
    <3>2. Tail(inQ) = <<>> /\ fromMc = <<>> /\ toMc = <<>>
      BY <1>1, <3>1, TypeFacts, HaveIds, NoIdsNoItems
    <3> QED BY <1>0, <3>2
  <2> HIDE DEF rest
  <2> QED BY <1>6, <2>1 DEF IdleMeansQuiet
<1>10. OnlyTimeouts'
  <2> HIDE DEF rest
  <2> QED BY <1>6 DEF OnlyTimeouts
<1> QED BY <1>7, <1>8, <1>9, <1>10 DEF InStep

LEMMA InitInStep == Init => InStep
<1> SUFFICES ASSUME Init PROVE InStep
  OBVIOUS
<1>1. /\ inQ = <<>> /\ outQ = <<>> /\ pendingDones = <<>> /\ toMc = <<>> /\ fromMc = <<>>
      /\ fsmState = "IDLE"
  BY DEF Init, MHInit
<1>2. Unpushed = <<>>
  BY UnpushedNone DEF Init, MHInit, AdderIdle, Unpushed
<1>3. UnderWay
  <2>1. <<>> \o <<>> = <<>>
    OBVIOUS
  <2> QED BY <1>1, <1>2, <2>1, IdsOfEmpty, Zenon DEF UnderWay
<1> QED BY <1>1, <1>3 DEF InStep, AllDone, IdleMeansQuiet, OnlyTimeouts

(* The calls of process that handle no response. *)
LEMMA ProcessInStep ==
    ASSUME TypeOK, NoConcurrentAdds, InStep, Process
    PROVE  InStep'
<1>0. UNCHANGED lineVars
  BY DEF Process
<1>1. CASE IdleReceive
  <2>1. fsmState = "IDLE" /\ inQ # <<>>
    BY <1>1 DEF IdleReceive
  <2> QED BY <2>1 DEF InStep, IdleMeansQuiet
<1>2. CASE DoneReceive
  BY <1>0, <1>2, DoneInStep
<1>3. ASSUME UNCHANGED <<pendingDones, outQ, inQ, adder>>,
             IdleMeansQuiet', OnlyTimeouts'
      PROVE  InStep'
  <2>1. Unpushed' = Unpushed /\ UNCHANGED <<toMc, fromMc>>
    BY <1>0, <1>3, UnpushedKept DEF lineVars
  <2>2. UnderWay'
    BY <1>3, <2>1, Zenon DEF InStep, UnderWay, IdsOf
  <2>3. AllDone(inQ)' /\ AllDone(fromMc)'
    BY <1>3, <2>1, Zenon DEF InStep, AllDone
  <2> QED BY <1>3, <2>2, <2>3 DEF InStep
<1>4. CASE IdleLook
  <2>1. IdleMeansQuiet' /\ OnlyTimeouts'
    BY <1>0, <1>4 DEF IdleLook, InStep, IdleMeansQuiet, OnlyTimeouts, lineVars
  <2> QED BY <1>3, <1>4, <2>1 DEF IdleLook, adderVars
<1>5. CASE DoneWait
  <2>1. IdleMeansQuiet' /\ OnlyTimeouts'
    BY <1>5 DEF DoneWait, IdleMeansQuiet, OnlyTimeouts
  <2> QED BY <1>3, <1>5, <2>1 DEF DoneWait, adderVars
<1>6. CASE DoneTimesOut
  <2>1. IdleMeansQuiet' /\ OnlyTimeouts'
    BY <1>6 DEF DoneTimesOut, HandlerSetError, IdleMeansQuiet, OnlyTimeouts
  <2> QED BY <1>3, <1>6, <2>1 DEF DoneTimesOut, adderVars
<1>7. CASE DoneLook
  <2>1. processPc = "outQ" /\ fsmState' \in {fsmState, "SEND_CMD"}
        /\ UNCHANGED <<inQ, fromMc, toMc>>
    BY <1>0, <1>7 DEF DoneLook, AfterLook, lineVars
  <2>2. fsmState # "ERROR"
    BY <2>1 DEF InStep, OnlyTimeouts
  <2>3. IdleMeansQuiet' /\ OnlyTimeouts'
    BY <2>1, <2>2 DEF InStep, IdleMeansQuiet, OnlyTimeouts
  <2> QED BY <1>3, <1>7, <2>3 DEF DoneLook, AfterLook, adderVars
<1> QED BY <1>1, <1>2, <1>4, <1>5, <1>6, <1>7 DEF Process, ProcessOk

LEMMA NextInStep ==
    ASSUME Faults = {}, TypeOK, NoConcurrentAdds, SendHasMessage, InStep, [Next]_vars
    PROVE  InStep'
<1>0. Gui \in Threads /\ Serial \in Threads
  BY TypeFacts
<1>1. CASE SendHello
  BY <1>0, <1>1, AddNumberInStep DEF SendHello
<1>2. ASSUME UNCHANGED <<lineVars, mhVars>> PROVE InStep'
  BY <1>2, UnpushedKept, InStepStutters DEF lineVars, mhVars
<1>3. CASE EnterLoop \/ PollSilent \/ ProcessError \/ UNCHANGED vars
  BY <1>2, <1>3 DEF EnterLoop, PollSilent, ProcessError, ProcessFails, vars, lineVars
<1>4. CASE ReadOne
  BY <1>4, ReadInStep
<1>5. ~ReadMerged /\ ~ReadPart /\ ~ReadFails
  BY DEF ReadMerged, ReadPart, ReadFails
<1>6. CASE Process
  BY <1>6, ProcessInStep
<1>7. ASSUME NEW written \in WriteWorks, Send(written) PROVE InStep'
  <2>1. written = TRUE
    BY DEF WriteWorks
  <2> QED BY <1>7, <2>1, SendInStep
<1>8. ASSUME NEW t \in Threads, Add(t) PROVE InStep'
  BY <1>8, AddStepInStep
<1>9. ASSUME NEW cmd \in Commands, GuiRequest(cmd) PROVE InStep'
  BY <1>0, <1>9, AddNumberInStep DEF GuiRequest
<1>10. CASE Peer
  <2>1. Answer("DONE") /\ UNCHANGED mhVars
    BY <1>10 DEF Peer, Loss, EmergencyStop, Repeat
  <2> QED BY <2>1, AnswerInStep
<1>11. CASE Clock \/ Gtk
  <2>1. UNCHANGED <<pendingDones, outQ, inQ, toMc, fromMc, fsmState, error, processPc, adder>>
    BY <1>11 DEF Clock, Gtk, Tick, GtkIdle, lineVars, workerVars, adderVars
  <2> QED BY <2>1, UnpushedKept, InStepStutters
<1> QED BY <1>1, <1>3, <1>4, <1>5, <1>6, <1>7, <1>8, <1>9, <1>10, <1>11
        DEF Next, Loop, Poll

--------------------------------------------------------------------------------
(* A connection without Faults: until calls overlap, what is waiting is     *)
(* exactly what is under way, in order, for every number of commands, ids   *)
(* and slots.                                                               *)
THEOREM ConformingInvariant ==
    ASSUME Faults = {}
    PROVE  Spec => []ConformingInv
<1>1. Init => TypeOK /\ ConformingInv
  BY SerialInitType, InitAdderShape, InitInStep DEF Init, MHInit, SendHasMessage, ConformingInv
<1>2. TypeOK /\ ConformingInv /\ [Next]_vars => TypeOK' /\ ConformingInv'
  <2> SUFFICES ASSUME TypeOK, ConformingInv, [Next]_vars PROVE ~overlapped' => InStep'
    BY NextType, NextAdderShape, NextSends DEF ConformingInv
  <2> SUFFICES ASSUME ~overlapped' PROVE InStep'
    OBVIOUS
  <2>1. ~overlapped
    BY OverlapStays
  <2> QED BY <2>1, NextInStep DEF ConformingInv, AdderShape
<1> QED BY <1>1, <1>2, PTL DEF Spec

(* Its consequences until then: every id waiting belongs to a message, call or *)
(* response that is under way; the error state means that no answer came in *)
(* time; a call that has its id in the ring can queue its message; and the  *)
(* loop never meets a full incoming queue.                                  *)
THEOREM ConformingSafety ==
    ASSUME Faults = {}
    PROVE  Spec => [](Conserved /\ NoFalseAlarm /\ AcceptedIsQueued /\ ResponseNeverDropped)
<1>1. TypeOK /\ ConformingInv
        => Conserved /\ NoFalseAlarm /\ AcceptedIsQueued /\ ResponseNeverDropped
  <2> SUFFICES ASSUME TypeOK, ConformingInv
               PROVE  Conserved /\ NoFalseAlarm /\ AcceptedIsQueued /\ ResponseNeverDropped
    OBVIOUS
  <2> SUFFICES ASSUME ~overlapped
               PROVE  Conserved /\ NoFalseAlarm /\ AcceptedIsQueued /\ ResponseNeverDropped
    BY DEF Conserved, NoFalseAlarm, AcceptedIsQueued, ResponseNeverDropped
  <2>1. NoConcurrentAdds /\ InStep /\ UnderWay
    BY DEF ConformingInv, AdderShape, InStep
  <2>2. NoFalseAlarm /\ Conserved
    BY <2>1 DEF InStep, OnlyTimeouts, NoFalseAlarm, Conserved
  <2>3. AcceptedIsQueued
    BY <2>1, RoomToPush DEF AcceptedIsQueued
  <2>4. ResponseNeverDropped
    <3>1. ASSUME fromMc # <<>> PROVE ~IsFull(inQ)
      <4>1. Len(fromMc) \in Nat \ {0}
        BY <3>1, TypeFacts, EmptySeq
      <4>2. /\ Len(pendingDones) = Len(inQ) + Len(fromMc) + Len(toMc) + Len(outQ)
                                    + Len(Unpushed)
            /\ Len(pendingDones) <= Capacity /\ Len(Unpushed) \in Nat
            /\ Len(inQ) \in Nat /\ Len(toMc) \in Nat /\ Len(outQ) \in Nat
        BY <2>1, UnderWayBounds, UnderWayType, TypeFacts
      <4> QED BY <4>1, <4>2 DEF IsFull, Capacity
    <3> QED BY <3>1 DEF ResponseNeverDropped
  <2> QED BY <2>1, <2>2, <2>3, <2>4
<1> QED BY <1>1, TypeCorrect, ConformingInvariant, PTL

(* No response is thrown away by a full incoming queue (queue.c:34,         *)
(* message_handler.c:229), also not while answers overtake add_outgoing.    *)
THEOREM ResponsesAreKept ==
    ASSUME Faults = {} PROVE Spec => []ResponseNeverDropped
  BY ConformingSafety, PTL

--------------------------------------------------------------------------------
(* Waiting ids differ *)

USE IdModAssumption, QueueSizeAssumption, BoundsAssumption

(* How many numbers ago an id was given, and how far two neighbours in the  *)
(* ring can lie apart: each refused call uses up a number.                  *)
Behind(id, now) == IF id <= now THEN now - id ELSE now + IdMod - id
Spread == MaxRejected + 1

(* q holds ids in the order in which they were given, the latest of them    *)
(* refused calls ago; begun is 1 while another has its number already.      *)
InOrder(q, now, refused, begun) ==
    /\ \A i \in 1 .. Len(q) :
        /\ begun <= Behind(q[i], now)
        /\ Behind(q[i], now) <= (Len(q) - i) * Spread + refused + begun
    /\ \A i, j \in 1 .. Len(q) : i < j => Behind(q[j], now) < Behind(q[i], now)

LEMMA NextIdWraps ==
    ASSUME NEW id \in Ids
    PROVE  NextId(id) = (IF id = IdMod - 1 THEN 0 ELSE id + 1) /\ NextId(id) \in Ids
<1>1. id \in 0 .. IdMod - 1 /\ IdMod \in Nat \ {0}
  BY DEF Ids
<1>2. CASE id = IdMod - 1
  <2>1. (id + 1) % IdMod = 0
    BY <1>1, <1>2
  <2> QED BY <1>1, <1>2, <2>1 DEF NextId, Ids
<1>3. CASE id # IdMod - 1
  <2>1. (id + 1) % IdMod = id + 1
    BY <1>1, <1>3
  <2> QED BY <1>1, <1>3, <2>1 DEF NextId, Ids
<1> QED BY <1>2, <1>3

LEMMA NextIsFurther ==
    ASSUME NEW id \in Ids, NEW now \in Ids, Behind(id, now) + 1 < IdMod
    PROVE  Behind(id, NextId(now)) = Behind(id, now) + 1
  BY NextIdWraps DEF Behind, Ids

LEMMA BehindType ==
    ASSUME NEW id \in Ids, NEW now \in Ids
    PROVE  Behind(id, now) \in Nat /\ Behind(now, now) = 0
  BY DEF Behind, Ids

LEMMA Multiple ==
    ASSUME NEW a \in Nat
    PROVE  a * Spread \in Nat /\ (a + 1) * Spread = a * Spread + Spread
<1>1. Spread \in Nat
  BY DEF Spread
<1> QED BY <1>1

LEMMA MultiplesGrow ==
    ASSUME NEW a \in Nat, NEW b \in Nat, a <= b
    PROVE  a * Spread <= b * Spread
<1>1. Spread \in Nat
  BY DEF Spread
<1>2. (b - a) * Spread \in Nat /\ b * Spread = a * Spread + (b - a) * Spread
  BY <1>1
<1> QED BY <1>2, Multiple

LEMMA NumberKeepsOrder ==
    ASSUME NEW q \in Seq(Ids), NEW room \in Nat, Len(q) <= room, NEW now \in Ids,
           NEW refused \in 0 .. MaxRejected, room * Spread < IdMod,
           InOrder(q, now, refused, 0)
    PROVE  InOrder(q, NextId(now), refused, 1)
<1>0. Len(q) \in Nat /\ Spread \in Nat /\ Spread >= refused + 1
  BY LenProperties DEF Spread
<1>1. ASSUME NEW i \in 1 .. Len(q)
      PROVE  /\ Behind(q[i], now) \in Nat
             /\ Behind(q[i], NextId(now)) = Behind(q[i], now) + 1
  <2>1. q[i] \in Ids
    BY <1>0, ElementOfSeq
  <2>2. Behind(q[i], now) \in Nat
    BY <2>1, BehindType
  <2>3. Len(q) - i \in Nat /\ Len(q) - i + 1 \in Nat /\ Len(q) - i + 1 <= room
    BY <1>0
  <2>4. (Len(q) - i + 1) * Spread <= room * Spread /\ (Len(q) - i) * Spread \in Nat
        /\ (Len(q) - i + 1) * Spread = (Len(q) - i) * Spread + Spread
    BY <1>0, <2>3, Multiple, MultiplesGrow
  <2>5. Behind(q[i], now) <= (Len(q) - i) * Spread + refused + 0
    BY DEF InOrder
  <2>6. room * Spread \in Nat
    BY <1>0, Multiple
  <2>7. Behind(q[i], now) + 1 < IdMod
    <3> DEFINE a == (Len(q) - i) * Spread  b == room * Spread  c == (Len(q) - i + 1) * Spread
    <3>1. a \in Nat /\ b \in Nat /\ c = a + Spread /\ c <= b /\ b < IdMod
      BY <2>4, <2>6
    <3>2. Behind(q[i], now) <= a + refused + 0
      BY <2>5
    <3> HIDE DEF a, b, c
    <3> QED BY <1>0, <2>2, <3>1, <3>2
  <2> QED BY <2>1, <2>2, <2>7, NextIsFurther
<1>2. ASSUME NEW i \in 1 .. Len(q)
      PROVE  /\ 1 <= Behind(q[i], NextId(now))
             /\ Behind(q[i], NextId(now)) <= (Len(q) - i) * Spread + refused + 1
  <2>1. Len(q) - i \in Nat
    BY <1>0
  <2>2. (Len(q) - i) * Spread \in Nat
    BY <2>1, Multiple
  <2>3. Behind(q[i], now) <= (Len(q) - i) * Spread + refused + 0
    BY DEF InOrder
  <2> HIDE DEF Spread
  <2> QED BY <1>1, <2>2, <2>3
<1>3. ASSUME NEW i \in 1 .. Len(q), NEW j \in 1 .. Len(q), i < j
      PROVE  Behind(q[j], NextId(now)) < Behind(q[i], NextId(now))
  <2>1. Behind(q[j], now) < Behind(q[i], now)
    BY <1>3 DEF InOrder
  <2> QED BY <1>1, <2>1
<1> QED BY <1>2, <1>3 DEF InOrder

LEMMA RefusalKeepsOrder ==
    ASSUME NEW q \in Seq(Ids), NEW now \in Ids, NEW refused \in Nat,
           InOrder(q, now, refused, 1)
    PROVE  InOrder(q, now, refused + 1, 0)
<1>1. ASSUME NEW i \in 1 .. Len(q)
      PROVE  /\ 0 <= Behind(q[i], now)
             /\ Behind(q[i], now) <= (Len(q) - i) * Spread + (refused + 1) + 0
  <2>1. Len(q) \in Nat /\ Len(q) - i \in Nat /\ q[i] \in Ids
    BY LenProperties, ElementOfSeq
  <2>2. (Len(q) - i) * Spread \in Nat /\ Behind(q[i], now) \in Nat
    BY <2>1, Multiple, BehindType
  <2>3. Behind(q[i], now) <= (Len(q) - i) * Spread + refused + 1
    BY DEF InOrder
  <2> QED BY <2>2, <2>3
<1> QED BY <1>1 DEF InOrder

LEMMA AcceptKeepsOrder ==
    ASSUME NEW q \in Seq(Ids), NEW now \in Ids, NEW refused \in 0 .. MaxRejected,
           InOrder(q, now, refused, 1)
    PROVE  InOrder(Append(q, now), now, 0, 0)
<1> DEFINE r == Append(q, now)
<1>0. Spread \in Nat /\ Spread >= refused + 1
  BY DEF Spread
<1>1. /\ Len(q) \in Nat /\ Len(r) = Len(q) + 1 /\ r[Len(q) + 1] = now
      /\ \A i \in 1 .. Len(q) : r[i] = q[i] /\ q[i] \in Ids
  BY AppendProperties, LenProperties, ElementOfSeq
<1> HIDE DEF r
<1>2. ASSUME NEW i \in 1 .. Len(q)
      PROVE  /\ 1 <= Behind(q[i], now)
             /\ Behind(q[i], now) <= (Len(r) - i) * Spread
  <2>1. Len(q) - i \in Nat /\ Len(r) - i = Len(q) - i + 1
    BY <1>1
  <2>2. /\ (Len(q) - i) * Spread \in Nat
        /\ (Len(r) - i) * Spread = (Len(q) - i) * Spread + Spread
    BY <2>1, Multiple
  <2>3. Behind(q[i], now) <= (Len(q) - i) * Spread + refused + 1 /\ 1 <= Behind(q[i], now)
    BY DEF InOrder
  <2>4. Behind(q[i], now) \in Nat
    BY <1>1, BehindType
  <2> DEFINE a == (Len(q) - i) * Spread  b == (Len(r) - i) * Spread
  <2>5. a \in Nat /\ b = a + Spread /\ Behind(q[i], now) <= a + refused + 1
    BY <2>2, <2>3
  <2>6. Behind(q[i], now) <= b
    <3> HIDE DEF a, b
    <3> QED BY <1>0, <2>4, <2>5
  <2> QED BY <2>3, <2>6
<1>3. Behind(now, now) = 0
  BY BehindType
<1>4. ASSUME NEW i \in 1 .. Len(r)
      PROVE  /\ 0 <= Behind(r[i], now)
             /\ Behind(r[i], now) <= (Len(r) - i) * Spread + 0 + 0
  <2>1. CASE i = Len(q) + 1
    <3>1. Len(r) - i = 0 /\ Behind(r[i], now) = 0
      BY <1>1, <1>3, <2>1
    <3>2. 0 * Spread = 0
      BY <1>0
    <3> QED BY <3>1, <3>2
  <2>2. CASE i # Len(q) + 1
    <3>1. i \in 1 .. Len(q) /\ r[i] = q[i]
      BY <1>1, <2>2
    <3>2. Len(r) - i \in Nat
      BY <1>1
    <3>3. (Len(r) - i) * Spread \in Nat /\ Behind(q[i], now) \in Nat
      BY <1>1, <3>1, <3>2, Multiple, BehindType
    <3> QED BY <1>2, <3>1, <3>3
  <2> QED BY <2>1, <2>2
<1>5. ASSUME NEW i \in 1 .. Len(r), NEW j \in 1 .. Len(r), i < j
      PROVE  Behind(r[j], now) < Behind(r[i], now)
  <2>1. i \in 1 .. Len(q) /\ r[i] = q[i]
    BY <1>1, <1>5
  <2>2. CASE j = Len(q) + 1
    <3>1. Behind(r[j], now) = 0 /\ 1 <= Behind(q[i], now) /\ Behind(q[i], now) \in Nat
      BY <1>1, <1>2, <1>3, <2>1, <2>2, BehindType
    <3> QED BY <2>1, <3>1
  <2>3. CASE j # Len(q) + 1
    <3>1. j \in 1 .. Len(q) /\ r[j] = q[j]
      BY <1>1, <2>3
    <3> QED BY <1>5, <2>1, <3>1 DEF InOrder
  <2> QED BY <2>2, <2>3
<1>6. InOrder(r, now, 0, 0)
  BY <1>4, <1>5 DEF InOrder
<1> QED BY <1>6 DEF r

LEMMA DropKeepsOrder ==
    ASSUME NEW q \in Seq(Ids), NEW now \in Ids, NEW refused, NEW begun,
           InOrder(q, now, refused, begun)
    PROVE  InOrder(DropOldest(q), now, refused, begun)
<1>1. CASE q = <<>>
  BY <1>1 DEF DropOldest
<1>2. CASE q # <<>>
  <2> DEFINE r == Tail(q)
  <2>1. /\ Len(q) \in Nat \ {0} /\ Len(r) = Len(q) - 1
        /\ \A i \in 1 .. Len(r) : r[i] = q[i + 1] /\ i + 1 \in 1 .. Len(q)
    BY <1>2, HeadTailProperties, LenProperties, EmptySeq
  <2> HIDE DEF r
  <2>2. ASSUME NEW i \in 1 .. Len(r)
        PROVE  /\ begun <= Behind(r[i], now)
               /\ Behind(r[i], now) <= (Len(r) - i) * Spread + refused + begun
    <3>1. Len(r) - i = Len(q) - (i + 1) /\ r[i] = q[i + 1] /\ i + 1 \in 1 .. Len(q)
      BY <2>1
    <3> QED BY <3>1 DEF InOrder
  <2>3. ASSUME NEW i \in 1 .. Len(r), NEW j \in 1 .. Len(r), i < j
        PROVE  Behind(r[j], now) < Behind(r[i], now)
    <3>1. i + 1 < j + 1 /\ i + 1 \in 1 .. Len(q) /\ j + 1 \in 1 .. Len(q)
          /\ r[i] = q[i + 1] /\ r[j] = q[j + 1]
      BY <2>1, <2>3
    <3> QED BY <3>1 DEF InOrder
  <2>4. InOrder(r, now, refused, begun)
    BY <2>2, <2>3 DEF InOrder
  <2> QED BY <1>2, <2>4 DEF DropOldest, r
<1> QED BY <1>1, <1>2

(* The number that a call in add_outgoing has taken is the latest, and a    *)
(* full ring may still refuse it.                                           *)
Begun == IF \E t \in Threads : adder[t].pc = "pending" THEN 1 ELSE 0
IdsInOrder ==
    /\ rejected \in 0 .. MaxRejected
    /\ \A t \in Threads :
        adder[t].pc = "pending" =>
            /\ adder[t].msg.id = idCounter
            /\ IsFull(pendingDones) => rejected < MaxRejected
    /\ InOrder(pendingDones, idCounter, rejected, Begun)

LEMMA InitInOrder == Init => IdsInOrder
<1> SUFFICES ASSUME Init PROVE IdsInOrder
  OBVIOUS
<1>1. pendingDones = <<>> /\ rejected = 0 /\ \A t \in Threads : adder[t].pc = "idle"
  BY DEF Init, MHInit, AdderIdle
<1>2. InOrder(pendingDones, idCounter, rejected, Begun)
  BY <1>1 DEF InOrder
<1> QED BY <1>1, <1>2 DEF IdsInOrder

(* Either end of a step of add_outgoing *)
LEMMA AddStepLeaves ==
    ASSUME TypeOK, NEW t \in Threads,
           Return(t) \/ \E pc \in {"push", "slot id", "slot func"} : Goto(t, pc)
    PROVE  adder'[t].pc # "pending" /\ \A u \in Threads : u # t => adder'[u] = adder[u]
<1>0. adder \in [Threads -> AdderState]
  BY TypeFacts
<1>1. CASE Return(t)
  BY <1>0, <1>1 DEF Return, AdderIdle
<1>2. ASSUME NEW pc \in {"push", "slot id", "slot func"}, Goto(t, pc)
      PROVE  adder'[t].pc # "pending" /\ \A u \in Threads : u # t => adder'[u] = adder[u]
  <2>1. adder'[t].pc = pc /\ \A u \in Threads : u # t => adder'[u] = adder[u]
    BY <1>0, <1>2 DEF Goto, AdderState
  <2> QED BY <2>1
<1> QED BY <1>1, <1>2

LEMMA CounterType == ASSUME TypeOK PROVE idCounter \in Ids /\ rejected \in Nat
<1>1. MHTypeOK
  BY TypeParts
<1> QED BY <1>1 DEF MHTypeOK, AddersTypeOK

(* A call begins: nobody else is in add_outgoing. *)
LEMMA NumberInOrder ==
    ASSUME TypeOK, IdsInOrder, NEW t \in Threads, NEW cmd, AddNumber(t, cmd),
           \A u \in Threads : adder[u].pc = "idle", Capacity * Spread < IdMod
    PROVE  IdsInOrder'
<1>1. /\ adder \in [Threads -> AdderState] /\ pendingDones \in Seq(Ids)
      /\ Len(pendingDones) <= Capacity /\ idCounter \in Ids
  BY TypeFacts, CounterType
<1>2. /\ adder' = [adder EXCEPT ![t] =
                     [pc |-> "pending", msg |-> [id |-> NextId(idCounter), type |-> cmd]]]
      /\ idCounter' = NextId(idCounter) /\ pendingDones' = pendingDones /\ rejected' = rejected
      /\ IsFull(pendingDones) => rejected < MaxRejected
  BY DEF AddNumber
<1>3. Begun = 0
  BY DEF Begun
<1>4. adder'[t].pc = "pending" /\ adder'[t].msg.id = idCounter'
  BY <1>1, <1>2
<1>5. \A u \in Threads : u # t => adder'[u].pc = "idle"
  BY <1>1, <1>2
<1>6. Begun' = 1
  BY <1>4 DEF Begun
<1>7. InOrder(pendingDones', idCounter', rejected', Begun')
  <2>1. Capacity \in Nat
    BY DEF Capacity
  <2> QED BY <1>1, <1>2, <1>3, <1>6, <2>1, NumberKeepsOrder DEF IdsInOrder
<1>8. \A u \in Threads :
        adder'[u].pc = "pending" => adder'[u].msg.id = idCounter'
  BY <1>4, <1>5
<1> QED BY <1>2, <1>7, <1>8 DEF IdsInOrder, IsFull

(* The ring takes the id or refuses it. *)
LEMMA PendingInOrder ==
    ASSUME TypeOK, NoConcurrentAdds, IdsInOrder, NEW t \in Threads, AddPending(t)
    PROVE  IdsInOrder'
<1>1. /\ adder \in [Threads -> AdderState] /\ pendingDones \in Seq(Ids)
      /\ idCounter \in Ids
  BY TypeFacts, CounterType
<1>2. adder[t].pc = "pending" /\ \A u \in Threads : u # t => adder[u].pc = "idle"
  BY DEF AddPending, NoConcurrentAdds
<1>3. Begun = 1 /\ adder[t].msg.id = idCounter /\ idCounter' = idCounter
  BY <1>2 DEF Begun, IdsInOrder, AddPending
<1>4. adder'[t].pc # "pending" /\ \A u \in Threads : u # t => adder'[u] = adder[u]
  BY AddStepLeaves DEF AddPending
<1>5. \A u \in Threads : adder'[u].pc # "pending"
  BY <1>2, <1>4
<1>6. Begun' = 0
  BY <1>5 DEF Begun
<1>7. CASE IsFull(pendingDones)
  <2>1. pendingDones' = pendingDones /\ rejected' = rejected + 1 /\ rejected < MaxRejected
    BY <1>2, <1>7 DEF AddPending, IdsInOrder
  <2>2. InOrder(pendingDones, idCounter, rejected + 1, 0)
    BY <1>1, <1>3, RefusalKeepsOrder DEF IdsInOrder
  <2>3. rejected' \in 0 .. MaxRejected
    BY <2>1 DEF IdsInOrder
  <2> QED BY <1>3, <1>5, <1>6, <2>1, <2>2, <2>3 DEF IdsInOrder
<1>8. CASE ~IsFull(pendingDones)
  <2>1. pendingDones' = Append(pendingDones, idCounter) /\ rejected' = 0
    BY <1>3, <1>8 DEF AddPending
  <2>2. InOrder(Append(pendingDones, idCounter), idCounter, 0, 0)
    BY <1>1, <1>3, AcceptKeepsOrder DEF IdsInOrder
  <2> QED BY <1>3, <1>5, <1>6, <2>1, <2>2 DEF IdsInOrder
<1> QED BY <1>7, <1>8

(* Whatever else happens leaves the numbering alone; a DONE takes the       *)
(* oldest id out of the ring.                                               *)
LEMMA OtherInOrder ==
    ASSUME TypeOK, IdsInOrder, idCounter' = idCounter, rejected' = rejected,
           pendingDones' \in {pendingDones, DropOldest(pendingDones)},
           \A t \in Threads :
               /\ adder'[t].pc = "pending" <=> adder[t].pc = "pending"
               /\ adder[t].pc = "pending" => adder'[t] = adder[t]
    PROVE  IdsInOrder'
<1>1. pendingDones \in Seq(Ids) /\ Len(pendingDones) <= Capacity /\ idCounter \in Ids
  BY TypeFacts, CounterType
<1>2. Begun' = Begun
  <2>1. (\E t \in Threads : adder'[t].pc = "pending")
            <=> (\E t \in Threads : adder[t].pc = "pending")
    OBVIOUS
  <2> QED BY <2>1, Zenon DEF Begun
<1>3. InOrder(pendingDones', idCounter, rejected, Begun)
  BY <1>1, DropKeepsOrder DEF IdsInOrder
<1>4. IsFull(pendingDones') => IsFull(pendingDones)
  <2>1. Len(pendingDones') <= Len(pendingDones) /\ pendingDones' \in Seq(Ids)
    BY <1>1, DropOldestType, LenProperties
  <2>2. Len(pendingDones') \in Nat /\ Len(pendingDones) \in Nat /\ Capacity \in Nat
    BY <1>1, <2>1, LenProperties DEF Capacity
  <2> QED BY <1>1, <2>1, <2>2 DEF IsFull
<1>5. \A t \in Threads :
        adder'[t].pc = "pending" =>
            /\ adder'[t].msg.id = idCounter'
            /\ IsFull(pendingDones') => rejected' < MaxRejected
  <2> SUFFICES ASSUME NEW t \in Threads, adder'[t].pc = "pending"
               PROVE  /\ adder'[t].msg.id = idCounter'
                      /\ IsFull(pendingDones') => rejected' < MaxRejected
    OBVIOUS
  <2>1. adder[t].pc = "pending" /\ adder'[t] = adder[t]
    OBVIOUS
  <2>2. adder[t].msg.id = idCounter /\ (IsFull(pendingDones) => rejected < MaxRejected)
    BY <2>1 DEF IdsInOrder
  <2> QED BY <1>4, <2>1, <2>2
<1> QED BY <1>2, <1>3, <1>5 DEF IdsInOrder

LEMMA NextInOrder ==
    ASSUME Capacity * Spread < IdMod, TypeOK, NoConcurrentAdds, IdsInOrder, [Next]_vars,
           ~overlapped'
    PROVE  IdsInOrder'
<1>0. Threads = {Gui, Serial} /\ adder \in [Threads -> AdderState]
  BY TypeFacts
<1>1. CASE SendHello
  BY <1>0, <1>1, BeginsAlone, NumberInOrder DEF SendHello
<1>2. ASSUME NEW cmd \in Commands, GuiRequest(cmd) PROVE IdsInOrder'
  BY <1>0, <1>2, BeginsAlone, NumberInOrder DEF GuiRequest
<1>3. ASSUME NEW t \in Threads, Add(t) PROVE IdsInOrder'
  <2>1. CASE AddPending(t)
    BY <1>0, <2>1, PendingInOrder
  <2>2. CASE AddPush(t) \/ AddSlotId(t) \/ AddSlotFunc(t)
    <3>1. /\ adder[t].pc \in {"push", "slot id", "slot func"}
          /\ Return(t) \/ \E pc \in {"slot id", "slot func"} : Goto(t, pc)
          /\ idCounter' = idCounter /\ rejected' = rejected /\ pendingDones' = pendingDones
      BY <2>2 DEF AddPush, AddSlotId, AddSlotFunc
    <3>2. adder'[t].pc # "pending" /\ \A u \in Threads : u # t => adder'[u] = adder[u]
      BY <3>1, AddStepLeaves
    <3> QED BY <3>1, <3>2, OtherInOrder
  <2> QED BY <1>3, <2>1, <2>2 DEF Add, AddStep
<1>4. CASE EnterLoop \/ Peer \/ Clock \/ Gtk \/ UNCHANGED vars
  <2>1. UNCHANGED <<idCounter, rejected, pendingDones, adder>>
    BY <1>4 DEF EnterLoop, Peer, Clock, Gtk, Tick, GtkIdle, vars, mhVars, adderVars
  <2> QED BY <2>1, OtherInOrder
<1>5. CASE Poll
  <2>1. ASSUME NEW resp, NEW left, Received(resp, left)
        PROVE  UNCHANGED <<idCounter, rejected, pendingDones, adder>>
    BY <2>1 DEF Received, AddIncoming, mhVars, adderVars
  <2>2. UNCHANGED <<idCounter, rejected, pendingDones, adder>>
    BY <1>5, <2>1 DEF Poll, PollSilent, ReadOne, ReadMerged, ReadPart, ReadFails, mhVars
  <2> QED BY <2>2, OtherInOrder
<1>6. CASE Process \/ ProcessError \/ \E written \in WriteWorks : Send(written)
  <2>1. UNCHANGED <<idCounter, rejected, adder>>
    BY <1>6 DEF Process, ProcessOk, IdleReceive, IdleLook, DoneReceive, DoneWait,
                DoneTimesOut, DoneLook, ProcessError, ProcessFails, Send, SendCmd,
                adderVars, mhVars
  <2>2. ASSUME NEW resp, HandleIncoming(resp)
        PROVE  pendingDones' \in {pendingDones, DropOldest(pendingDones)}
    BY <2>2 DEF HandleIncoming, CompleteOldest, RejectDone, HandleFailure, IgnoreStop,
                PopPending
  <2>3. pendingDones' \in {pendingDones, DropOldest(pendingDones)}
    BY <1>6, <2>2 DEF Process, ProcessOk, IdleReceive, IdleLook, DoneReceive, DoneWait,
                DoneTimesOut, DoneLook, ProcessError, ProcessFails, Send, SendCmd, mhVars
  <2> QED BY <2>1, <2>3, OtherInOrder
<1> QED BY <1>1, <1>2, <1>3, <1>4, <1>5, <1>6 DEF Next, Loop

LEMMA OrderIsDistinct == TypeOK /\ IdsInOrder => PendingIdsDistinct
<1> SUFFICES ASSUME TypeOK, IdsInOrder, NEW i \in DOMAIN pendingDones,
                    NEW j \in DOMAIN pendingDones, i # j
             PROVE  pendingDones[i] # pendingDones[j]
  BY DEF PendingIdsDistinct
<1>1. /\ pendingDones \in Seq(Ids) /\ idCounter \in Ids
      /\ i \in 1 .. Len(pendingDones) /\ j \in 1 .. Len(pendingDones)
  BY TypeFacts, CounterType, LenProperties
<1>2. /\ Behind(pendingDones[i], idCounter) \in Nat
      /\ Behind(pendingDones[j], idCounter) \in Nat
  BY <1>1, ElementOfSeq, BehindType
<1>3. i < j \/ j < i
  BY <1>1
<1>4. \/ Behind(pendingDones[j], idCounter) < Behind(pendingDones[i], idCounter)
      \/ Behind(pendingDones[i], idCounter) < Behind(pendingDones[j], idCounter)
  BY <1>1, <1>3 DEF IdsInOrder, InOrder
<1> QED BY <1>2, <1>4

(* No two commands wait under one id, although ids are cut to a byte, never *)
(* start again with a connection and are used up by refused calls: as long  *)
(* as one round of ids outlasts a full ring (message_handler.c:187), and    *)
(* until two calls overlap, for which idCounter_ is not atomic.             *)
THEOREM WaitingIdsDiffer ==
    ASSUME Capacity * (MaxRejected + 1) < IdMod
    PROVE  Spec => []PendingIdsDistinct
<1>0. Capacity * Spread < IdMod
  BY DEF Spread
<1> DEFINE Inv == TypeOK /\ AdderShape /\ (~overlapped => IdsInOrder)
<1>1. Init => Inv
  BY SerialInitType, InitAdderShape, InitInOrder
<1>2. Inv /\ [Next]_vars => Inv'
  <2> SUFFICES ASSUME Inv, [Next]_vars, ~overlapped' PROVE IdsInOrder'
    BY NextType, NextAdderShape
  <2>1. ~overlapped
    BY OverlapStays
  <2> QED BY <1>0, <2>1, NextInOrder DEF AdderShape
<1>3. Inv => PendingIdsDistinct
  BY OrderIsDistinct DEF PendingIdsDistinct
<1> HIDE DEF Inv
<1> QED BY <1>1, <1>2, <1>3, PTL DEF Spec

================================================================================
