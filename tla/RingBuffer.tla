------------------------------- MODULE RingBuffer -------------------------------
(***************************************************************************)
(* src/util/ring_buffer.c and src/util/queue.c.  The three buffers of the  *)
(* message handler (pendingDones, outQ_, inQ_) are the same structure: an  *)
(* array, a head index only the producer moves and a tail index only the   *)
(* consumer moves, one slot always left free.  There is no lock: the GUI   *)
(* thread puts while the serial thread peeks and pops.  One action is one  *)
(* access to the shared indices or to a slot, in program order (the order  *)
(* the x86 builds of the project keep).                                    *)
(***************************************************************************)
EXTENDS Naturals, Sequences, FiniteSets

CONSTANTS Data,   \* the items
          Zero,   \* the item of an all-zero slot (memset, static storage)
          Size,   \* RING_BUFFER_MAX_SIZE, QUEUE_MAX_SIZE: 32 in the code
          Failed  \* return value -1

ASSUME SizeAssumption == Size \in Nat /\ Size >= 2
ASSUME DataAssumption == Zero \in Data /\ Failed \notin Data

Capacity == Size - 1

VARIABLES head,      \* next slot to write
          tail,      \* oldest slot in use
          buffer,
          producer,  \* [pc, item]: where the producer is inside put / push
          consumer,  \* where the consumer is inside pop / peek
          putRet,    \* outcome of the producer's last call
          got        \* *data after the consumer's last call

vars == <<head, tail, buffer, producer, consumer, putRet, got>>

Indices == 0 .. Size - 1

BugNextIndex(i) == (i + 1) % (Size - 1)
NextIndex(i) == (i + 1) % Size

BugIsFull == head + 1 = tail
IsFull == NextIndex(head) = tail
IsEmpty == head = tail

Init ==
    /\ head = 0 /\ tail = 0
    /\ buffer = [i \in Indices |-> Zero]
    /\ producer = [pc |-> "idle", item |-> Zero]
    /\ consumer = "idle"
    /\ putRet = "none"
    /\ got = Failed

--------------------------------------------------------------------------------
(* ring_buffer_put, out_msg_q_push, in_resp_q_push *)

PutCheck(d) ==
    /\ producer.pc = "idle"
    /\ IF IsFull
       THEN putRet' = "full" /\ UNCHANGED producer
       ELSE producer' = [pc |-> "store", item |-> d] /\ UNCHANGED putRet
    /\ UNCHANGED <<head, tail, buffer, consumer, got>>

PutStore ==
    /\ producer.pc = "store"
    /\ buffer' = [buffer EXCEPT ![head] = producer.item]
    /\ producer' = [producer EXCEPT !.pc = "advance"]
    /\ UNCHANGED <<head, tail, consumer, putRet, got>>

PutAdvance ==
    /\ producer.pc = "advance"
    /\ head' = NextIndex(head)
    /\ producer' = [producer EXCEPT !.pc = "idle"]
    /\ putRet' = "ok"
    /\ UNCHANGED <<tail, buffer, consumer, got>>

(* ring_buffer_pop, ring_buffer_peek, out_msg_q_pop, in_resp_q_pop *)

GetCheck(op) ==
    /\ consumer = "idle"
    /\ IF IsEmpty
       THEN got' = Failed /\ UNCHANGED consumer
       ELSE consumer' = op /\ UNCHANGED got
    /\ UNCHANGED <<head, tail, buffer, producer, putRet>>

PeekRead ==
    /\ consumer = "peek"
    /\ got' = buffer[tail]
    /\ consumer' = "idle"
    /\ UNCHANGED <<head, tail, buffer, producer, putRet>>

PopRead ==
    /\ consumer = "pop"
    /\ got' = buffer[tail]
    /\ consumer' = "advance"
    /\ UNCHANGED <<head, tail, buffer, producer, putRet>>

PopAdvance ==
    /\ consumer = "advance"
    /\ tail' = NextIndex(tail)
    /\ consumer' = "idle"
    /\ UNCHANGED <<head, buffer, producer, putRet, got>>

Produce == (\E d \in Data : PutCheck(d)) \/ PutStore \/ PutAdvance
Consume == (\E op \in {"pop", "peek"} : GetCheck(op))
           \/ PeekRead \/ PopRead \/ PopAdvance

Next == Produce \/ Consume

Spec == Init /\ [][Next]_vars

--------------------------------------------------------------------------------
(* ring_buffer_used: the number of items between tail and head. *)
Used ==
    IF head >= tail THEN head - tail ELSE Capacity - ((tail - head) - 1)

(* The slot of the k-th oldest item. *)
Slot(k) == (tail + k - 1) % Size

Contents == [k \in 1 .. Used |-> buffer[Slot(k)]]

--------------------------------------------------------------------------------
TypeOK ==
    /\ head \in Indices /\ tail \in Indices
    /\ buffer \in [Indices -> Data]
    /\ producer \in [pc : {"idle", "store", "advance"}, item : Data]
    /\ consumer \in {"idle", "pop", "peek", "advance"}
    /\ putRet \in {"none", "ok", "full"}
    /\ got \in Data \cup {Failed}

(* What the producer found out before it stored still holds: the consumer  *)
(* can only make more room (check-then-act in put, without a lock).        *)
RoomWhileStoring == producer.pc # "idle" => ~IsFull

(* What the consumer found out before it read still holds. *)
ItemWhileReading == consumer # "idle" => ~IsEmpty

(* The item about to be published by the head index is in its slot. *)
StoredBeforePublished == producer.pc = "advance" => buffer[head] = producer.item

(* The slot about to be released is the one that was copied out. *)
CopiedBeforeReleased == consumer = "advance" => got = buffer[tail]

IInv ==
    /\ TypeOK
    /\ RoomWhileStoring
    /\ ItemWhileReading
    /\ StoredBeforePublished
    /\ CopiedBeforeReleased

(* No slot is written by the GUI thread while the serial thread copies it  *)
(* out: the memcpy of a Message or Response is never torn (queue.c:45,67). *)
NoTornCopy ==
    ~(producer.pc = "store" /\ consumer \in {"pop", "peek"} /\ head = tail)

(* The lock-free index arithmetic behaves as an atomic bounded queue of    *)
(* Size - 1 items: nothing lost, duplicated, reordered or refused early.   *)
Fifo == INSTANCE BoundedFifo WITH fifo <- Contents
ImplementsFifo == Fifo!Spec

================================================================================
