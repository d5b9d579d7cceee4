---------------------------- MODULE RingBuffer_proofs ----------------------------
(***************************************************************************)
(* The lock-free ring of RingBuffer behaves as an atomic bounded queue, for *)
(* every size and every set of items.                                       *)
(***************************************************************************)
EXTENDS RingBuffer, SequenceTheorems, TLAPS

(* The modulus of the index arithmetic is a wrap at the last slot. *)
LEMMA WrapOnce ==
    ASSUME NEW i \in Nat, i < 2 * Size
    PROVE  i % Size = IF i < Size THEN i ELSE i - Size
<1> USE SizeAssumption
<1>1. CASE i < Size
  BY <1>1
<1>2. CASE i >= Size
  BY <1>2
<1> QED BY <1>1, <1>2

LEMMA NextIndexWraps ==
    ASSUME NEW i \in Indices
    PROVE  NextIndex(i) = (IF i = Size - 1 THEN 0 ELSE i + 1) /\ NextIndex(i) \in Indices
<1> DEFINE j == i + 1
<1>1. i \in Nat /\ j \in Nat /\ j < 2 * Size
  BY SizeAssumption DEF Indices
<1>2. j % Size = IF j < Size THEN j ELSE j - Size
  <2> HIDE DEF j
  <2> QED BY <1>1, WrapOnce
<1>3. NextIndex(i) = j % Size
  BY DEF NextIndex
<1> QED BY <1>1, <1>2, <1>3, SizeAssumption DEF Indices

--------------------------------------------------------------------------------
(* The indices start inside the array, both threads outside their calls. *)
LEMMA InitIInv == Init => IInv
  BY SizeAssumption, DataAssumption
  DEF Init, IInv, TypeOK, Indices, RoomWhileStoring, ItemWhileReading,
      StoredBeforePublished, CopiedBeforeReleased

(* Every access of either thread keeps the checks of the other one valid. *)
LEMMA NextIInv == IInv /\ [Next]_vars => IInv'
<1> SUFFICES ASSUME IInv, [Next]_vars PROVE IInv'
  OBVIOUS
<1> USE SizeAssumption, DataAssumption
<1>0. /\ NextIndex(head) \in Indices /\ NextIndex(tail) \in Indices
      /\ NextIndex(head) = NextIndex(tail) => head = tail
      /\ NextIndex(head) # head
  BY NextIndexWraps DEF IInv, TypeOK, Indices
<1> USE DEF IInv, TypeOK, RoomWhileStoring, ItemWhileReading,
            StoredBeforePublished, CopiedBeforeReleased, IsFull, IsEmpty
<1>1. ASSUME NEW d \in Data, PutCheck(d) PROVE IInv'
  BY <1>1 DEF PutCheck
<1>2. CASE PutStore
  <2>1. buffer' \in [Indices -> Data] /\ buffer'[head] = producer.item
    BY <1>2 DEF PutStore
  <2>2. CopiedBeforeReleased'
    BY <1>2 DEF PutStore
  <2> QED BY <1>2, <2>1, <2>2 DEF PutStore
<1>3. CASE PutAdvance
  BY <1>0, <1>3 DEF PutAdvance
<1>4. ASSUME NEW op \in {"pop", "peek"}, GetCheck(op) PROVE IInv'
  BY <1>4 DEF GetCheck
<1>5. CASE PeekRead
  BY <1>5 DEF PeekRead
<1>6. CASE PopRead
  BY <1>6 DEF PopRead
<1>7. CASE PopAdvance
  BY <1>0, <1>7 DEF PopAdvance
<1>8. CASE UNCHANGED vars
  BY <1>8 DEF vars
<1> QED BY <1>1, <1>2, <1>3, <1>4, <1>5, <1>6, <1>7, <1>8 DEF Next, Produce, Consume

(* The invariant the run RingBuffer checks, for every size. *)
THEOREM RingInvariant == Spec => []IInv
<1> QED BY InitIInv, NextIInv, PTL DEF Spec

(* The GUI thread never writes the slot the serial thread is copying out. *)
THEOREM NoTornCopyHolds == Spec => []NoTornCopy
<1>1. IInv => NoTornCopy
  BY DEF IInv, ItemWhileReading, NoTornCopy, IsEmpty
<1> QED BY <1>1, RingInvariant, PTL

--------------------------------------------------------------------------------
(* How many items there are, in terms of the two indices. *)
LEMMA UsedFacts ==
    ASSUME TypeOK
    PROVE  /\ Used \in 0 .. Capacity
           /\ IsEmpty <=> Used = 0
           /\ IsFull <=> Used = Capacity
<1>1. NextIndex(head) = IF head = Size - 1 THEN 0 ELSE head + 1
  BY NextIndexWraps DEF TypeOK
<1> QED BY <1>1, SizeAssumption DEF TypeOK, Indices, Used, Capacity, IsEmpty, IsFull

(* The slot of the k-th item, without the modulus. *)
LEMMA SlotWraps ==
    ASSUME TypeOK, NEW k \in 1 .. Size
    PROVE  /\ Slot(k) = IF tail + k - 1 < Size THEN tail + k - 1 ELSE tail + k - 1 - Size
           /\ Slot(k) \in Indices
<1> DEFINE j == tail + k - 1
<1>1. j \in Nat /\ j < 2 * Size
  BY SizeAssumption DEF TypeOK, Indices
<1>2. j % Size = IF j < Size THEN j ELSE j - Size
  <2> HIDE DEF j
  <2> QED BY <1>1, WrapOnce
<1>3. Slot(k) = j % Size
  BY DEF Slot
<1> QED BY <1>1, <1>2, <1>3, SizeAssumption DEF TypeOK, Indices

(* The items in use sit in distinct slots from the tail up to the head. *)
LEMMA SlotFacts ==
    ASSUME TypeOK
    PROVE  /\ \A k \in 1 .. Used : Slot(k) \in Indices /\ Slot(k) # head
           /\ Slot(Used + 1) = head
           /\ Slot(1) = tail
<1>1. Used \in Nat /\ Used + 1 \in 1 .. Size /\ 1 \in 1 .. Size
  BY UsedFacts, SizeAssumption DEF Capacity
<1>2. ASSUME NEW k \in 1 .. Used PROVE Slot(k) \in Indices /\ Slot(k) # head
  <2>1. k \in 1 .. Size
    BY <1>1, SizeAssumption
  <2> QED BY <1>1, <2>1, SlotWraps, SizeAssumption DEF TypeOK, Indices, Used, Capacity
<1>3. Slot(Used + 1) = head
  <2>1. Slot(Used + 1) = IF tail + (Used + 1) - 1 < Size
                          THEN tail + (Used + 1) - 1 ELSE tail + (Used + 1) - 1 - Size
    BY <1>1, SlotWraps
  <2> QED BY <1>1, <2>1, SizeAssumption DEF TypeOK, Indices, Used, Capacity
<1>4. Slot(1) = tail
  <2>1. Slot(1) = IF tail + 1 - 1 < Size THEN tail + 1 - 1 ELSE tail + 1 - 1 - Size
    BY <1>1, SlotWraps
  <2> QED BY <2>1, SizeAssumption DEF TypeOK, Indices
<1> QED BY <1>2, <1>3, <1>4

(* Contents is a sequence of Used items, and its head is in the tail slot. *)
LEMMA ContentsFacts ==
    ASSUME TypeOK
    PROVE  /\ Contents \in Seq(Data)
           /\ Len(Contents) = Used
           /\ ~IsEmpty => Contents # <<>> /\ Head(Contents) = buffer[tail]
           /\ IsEmpty => Contents = <<>>
<1>1. Used \in Nat
  BY UsedFacts
<1>2. \A k \in 1 .. Used : buffer[Slot(k)] \in Data
  BY SlotFacts DEF TypeOK
<1>3. Contents \in [1 .. Used -> Data]
  BY <1>2 DEF Contents
<1>4. Contents \in Seq(Data) /\ Len(Contents) = Used
  BY <1>1, <1>3
<1>5. ~IsEmpty => Used >= 1
  BY <1>1, UsedFacts
<1>6. ~IsEmpty => Contents[1] = buffer[tail]
  BY <1>5, <1>1, SlotFacts DEF Contents
<1> QED BY <1>1, <1>4, <1>5, <1>6, UsedFacts, EmptySeq, HeadTailProperties

--------------------------------------------------------------------------------
(* Storing into the free slot changes none of the items in use. *)
LEMMA StoreKeepsContents ==
    ASSUME IInv, PutStore
    PROVE  Contents' = Contents
<1>1. TypeOK
  BY DEF IInv
<1>2. buffer' = [buffer EXCEPT ![head] = producer.item] /\ head' = head /\ tail' = tail
  BY DEF PutStore
<1>3. Used' = Used /\ \A k \in 1 .. Used : Slot(k)' = Slot(k)
  BY <1>2 DEF Used, Slot
<1>4. \A k \in 1 .. Used : buffer'[Slot(k)] = buffer[Slot(k)]
  BY <1>1, <1>2, SlotFacts DEF TypeOK
<1> QED BY <1>3, <1>4 DEF Contents

(* Advancing the head appends the stored item. *)
LEMMA AdvanceAppends ==
    ASSUME IInv, PutAdvance, TypeOK'
    PROVE  Contents' = Append(Contents, producer.item)
<1>1. TypeOK /\ ~IsFull /\ buffer[head] = producer.item /\ producer.item \in Data
  BY DEF IInv, TypeOK, RoomWhileStoring, StoredBeforePublished, PutAdvance
<1>2. head' = NextIndex(head) /\ buffer' = buffer /\ tail' = tail
  BY DEF PutAdvance
<1>3. NextIndex(head) = IF head = Size - 1 THEN 0 ELSE head + 1
  BY <1>1, NextIndexWraps DEF TypeOK
<1>4. Used' = Used + 1 /\ Used \in Nat
  BY <1>1, <1>2, <1>3, UsedFacts, SizeAssumption
  DEF Used, IsFull, TypeOK, Indices, Capacity
<1>5. \A k : Slot(k)' = Slot(k)
  BY <1>2 DEF Slot
<1>6. Contents' = [k \in 1 .. Used + 1 |-> buffer[Slot(k)]]
  BY <1>2, <1>4, <1>5 DEF Contents
<1>7. Contents \in Seq(Data) /\ Len(Contents) = Used
  BY <1>1, ContentsFacts
<1>8. Append(Contents, producer.item) \in Seq(Data)
      /\ Len(Append(Contents, producer.item)) = Used + 1
      /\ \A k \in 1 .. Used : Append(Contents, producer.item)[k] = Contents[k]
      /\ Append(Contents, producer.item)[Used + 1] = producer.item
  BY <1>1, <1>7, AppendProperties
<1>9. Contents' \in Seq(Data) /\ Len(Contents') = Used + 1
  <2>1. Slot(Used + 1) = head /\ \A k \in 1 .. Used : Slot(k) \in Indices
    BY <1>1, SlotFacts
  <2>2. \A k \in 1 .. Used + 1 : buffer[Slot(k)] \in Data
    BY <1>1, <1>4, <2>1 DEF TypeOK
  <2> QED BY <1>4, <1>6, <2>2
<1>10. \A k \in 1 .. Used + 1 : Contents'[k] = Append(Contents, producer.item)[k]
  <2>1. Slot(Used + 1) = head
    BY <1>1, SlotFacts
  <2> QED BY <1>1, <1>4, <1>6, <1>8, <2>1 DEF Contents
<1> QED BY <1>8, <1>9, <1>10, SeqEqual

(* Advancing the tail drops the oldest item and keeps the others in order. *)
LEMMA AdvanceDrops ==
    ASSUME IInv, PopAdvance
    PROVE  Contents' = Tail(Contents)
<1>1. TypeOK /\ ~IsEmpty
  BY DEF IInv, ItemWhileReading, PopAdvance
<1>2. tail' = NextIndex(tail) /\ buffer' = buffer /\ head' = head
  BY DEF PopAdvance
<1>3. NextIndex(tail) = IF tail = Size - 1 THEN 0 ELSE tail + 1
  BY <1>1, NextIndexWraps DEF TypeOK
<1>4. Used' = Used - 1 /\ Used \in Nat \ {0} /\ Used < Size
  BY <1>1, <1>2, <1>3, UsedFacts, SizeAssumption
  DEF Used, IsEmpty, TypeOK, Indices, Capacity
<1>5. ASSUME NEW k \in 1 .. Used - 1 PROVE Slot(k)' = Slot(k + 1)
  <2> DEFINE j == (IF tail = Size - 1 THEN 0 ELSE tail + 1) + k - 1
  <2>1. Slot(k)' = j % Size
    BY <1>2, <1>3 DEF Slot
  <2>2. j \in Nat /\ j < 2 * Size
    BY <1>1, <1>4, SizeAssumption DEF TypeOK, Indices
  <2>3. j % Size = IF j < Size THEN j ELSE j - Size
    <3> HIDE DEF j
    <3> QED BY <2>2, WrapOnce
  <2>4. k + 1 \in 1 .. Size
    BY <1>4, SizeAssumption
  <2>5. Slot(k + 1) = IF tail + (k + 1) - 1 < Size
                      THEN tail + (k + 1) - 1 ELSE tail + (k + 1) - 1 - Size
    BY <1>1, <2>4, SlotWraps
  <2> QED BY <1>1, <1>4, <2>1, <2>3, <2>5, SizeAssumption DEF TypeOK, Indices
<1>6. Contents \in Seq(Data) /\ Len(Contents) = Used /\ Contents # <<>>
  BY <1>1, ContentsFacts
<1>7. Tail(Contents) \in Seq(Data) /\ Len(Tail(Contents)) = Used - 1
      /\ \A k \in 1 .. Used - 1 : Tail(Contents)[k] = Contents[k + 1]
  BY <1>6, HeadTailProperties
<1>8. \A k \in 1 .. Used - 1 : Contents[k + 1] = buffer[Slot(k + 1)]
  BY <1>4 DEF Contents
<1>9. Contents' = [k \in 1 .. Used - 1 |-> buffer[Slot(k + 1)]]
  <2>1. Contents' = [k \in 1 .. Used - 1 |-> buffer[Slot(k)']]
    BY <1>2, <1>4 DEF Contents
  <2> QED BY <1>5, <2>1
<1>10. Contents' \in Seq(Data) /\ Len(Contents') = Used - 1
  <2>1. \A k \in 1 .. Used - 1 : k + 1 \in 1 .. Used
    BY <1>4
  <2>2. \A k \in 1 .. Used - 1 : buffer[Slot(k + 1)] \in Data
    BY <1>1, <2>1, SlotFacts DEF TypeOK
  <2> QED BY <1>4, <1>9, <2>2
<1> QED BY <1>4, <1>7, <1>8, <1>9, <1>10, SeqEqual

LEMMA InitRefines == Init => Fifo!Init
<1> SUFFICES ASSUME Init PROVE Fifo!Init
  OBVIOUS
<1>1. TypeOK /\ IsEmpty
  BY InitIInv DEF IInv, Init, IsEmpty
<1> QED BY <1>1, ContentsFacts DEF Init, Fifo!Init

(* Put takes effect when head advances, a peek when the slot is read, a pop *)
(* when tail advances; a refusal or a failed get when the indices are       *)
(* compared.                                                                *)
LEMMA NextRefines == IInv /\ IInv' /\ [Next]_vars => [Fifo!Next]_Fifo!vars
<1> SUFFICES ASSUME IInv, IInv', [Next]_vars PROVE [Fifo!Next]_Fifo!vars
  OBVIOUS
<1>0. TypeOK /\ TypeOK'
  BY DEF IInv
<1> USE DEF Fifo!vars, Fifo!Next
<1>a. ASSUME UNCHANGED <<head, tail, buffer>> PROVE Contents' = Contents
  BY <1>a DEF Contents, Used, Slot
<1>b. Contents \in Seq(Data) /\ Len(Contents) = Used
      /\ (~IsEmpty => Contents # <<>> /\ Head(Contents) = buffer[tail])
      /\ (IsEmpty => Contents = <<>>)
  BY <1>0, ContentsFacts
<1>c. Used \in 0 .. Capacity /\ (IsFull <=> Used = Capacity) /\ Capacity \in Nat
  BY <1>0, UsedFacts, SizeAssumption DEF Capacity
<1>1. ASSUME NEW d \in Data, PutCheck(d) PROVE [Fifo!Next]_Fifo!vars
  <2>1. Contents' = Contents
    BY <1>1, <1>a DEF PutCheck
  <2>2. CASE IsFull
    BY <1>1, <1>b, <1>c, <2>1, <2>2 DEF PutCheck, Fifo!Refuse
  <2>3. CASE ~IsFull
    BY <1>1, <2>1, <2>3 DEF PutCheck
  <2> QED BY <2>2, <2>3
<1>2. CASE PutStore
  BY <1>2, StoreKeepsContents DEF PutStore
<1>3. CASE PutAdvance
  <2>1. Contents' = Append(Contents, producer.item)
    BY <1>0, <1>3, AdvanceAppends
  <2>2. ~IsFull /\ producer.item \in Data
    BY <1>0, <1>3 DEF IInv, TypeOK, RoomWhileStoring, PutAdvance
  <2>3. Fifo!Put(producer.item)
    BY <1>3, <1>b, <1>c, <2>1, <2>2 DEF PutAdvance, Fifo!Put
  <2> QED BY <2>2, <2>3
<1>4. ASSUME NEW op \in {"pop", "peek"}, GetCheck(op) PROVE [Fifo!Next]_Fifo!vars
  <2>1. Contents' = Contents
    BY <1>4, <1>a DEF GetCheck
  <2>2. CASE IsEmpty
    BY <1>4, <1>b, <2>1, <2>2 DEF GetCheck, Fifo!Empty
  <2>3. CASE ~IsEmpty
    BY <1>4, <2>1, <2>3 DEF GetCheck
  <2> QED BY <2>2, <2>3
<1>5. CASE PeekRead \/ PopRead
  <2>1. Contents' = Contents
    BY <1>5, <1>a DEF PeekRead, PopRead
  <2>2. ~IsEmpty
    BY <1>5 DEF IInv, ItemWhileReading, PeekRead, PopRead
  <2>3. Fifo!Peek
    BY <1>5, <1>b, <2>1, <2>2 DEF PeekRead, PopRead, Fifo!Peek
  <2> QED BY <2>3
<1>6. CASE PopAdvance
  <2>1. Contents' = Tail(Contents)
    BY <1>6, AdvanceDrops
  <2>2. ~IsEmpty /\ got = buffer[tail]
    BY <1>6 DEF IInv, ItemWhileReading, CopiedBeforeReleased, PopAdvance
  <2>3. Fifo!Pop
    BY <1>6, <1>b, <2>1, <2>2 DEF PopAdvance, Fifo!Pop
  <2> QED BY <2>3
<1>7. CASE UNCHANGED vars
  BY <1>7, <1>a DEF vars
<1> QED BY <1>1, <1>2, <1>3, <1>4, <1>5, <1>6, <1>7 DEF Next, Produce, Consume

(* The ring the code indexes without a lock is an atomic bounded FIFO. *)
THEOREM RingImplementsFifo == Spec => ImplementsFifo
<1> QED BY RingInvariant, InitRefines, NextRefines, PTL
        DEF Spec, ImplementsFifo, Fifo!Spec

================================================================================
