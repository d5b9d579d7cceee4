------------------------------ MODULE BoundedFifo ------------------------------
(***************************************************************************)
(* What the callers of ring_buffer_t and of the two message queues rely on *)
(* (ring_buffer.h, queue.h): a bounded first-in first-out buffer whose      *)
(* operations are atomic.  RingBuffer shows that the index arithmetic of    *)
(* the code, interleaved between a producing and a consuming thread,        *)
(* implements it.                                                           *)
(***************************************************************************)
EXTENDS Naturals, Sequences

CONSTANTS Data,      \* what the buffer holds: message ids, messages, responses
          Capacity,  \* how many items fit
          Failed     \* a call's return value -1

VARIABLES fifo,      \* the items put and not yet popped, oldest first
          putRet,    \* outcome of the producer's last call
          got        \* what the consumer's last call returned

vars == <<fifo, putRet, got>>

Init == fifo = <<>> /\ putRet = "none" /\ got = Failed

Put(d) ==
    /\ Len(fifo) < Capacity
    /\ fifo' = Append(fifo, d)
    /\ putRet' = "ok"
    /\ UNCHANGED got

Refuse ==
    /\ Len(fifo) = Capacity
    /\ putRet' = "full"
    /\ UNCHANGED <<fifo, got>>

Peek ==
    /\ fifo # <<>>
    /\ got' = Head(fifo)
    /\ UNCHANGED <<fifo, putRet>>

Pop ==
    /\ fifo # <<>>
    /\ got' = Head(fifo)
    /\ fifo' = Tail(fifo)
    /\ UNCHANGED putRet

Empty ==
    /\ fifo = <<>>
    /\ got' = Failed
    /\ UNCHANGED <<fifo, putRet>>

Next == (\E d \in Data : Put(d)) \/ Refuse \/ Peek \/ Pop \/ Empty

Spec == Init /\ [][Next]_vars

================================================================================
