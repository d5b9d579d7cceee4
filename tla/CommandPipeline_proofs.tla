------------------------- MODULE CommandPipeline_proofs -------------------------
(***************************************************************************)
(* The connection implements CommandPipeline although answers are lost,    *)
(* repeated, merged or errors and writes fail: the table of handlers keeps *)
(* up with the queue, and what comes back never runs ahead of what was     *)
(* accepted.                                                               *)
(***************************************************************************)
EXTENDS SerialThread_proofs

USE ThreadsAssumption, IdModAssumption, QueueSizeAssumption, BoundsAssumption

--------------------------------------------------------------------------------
(* The table of handlers keeps up with the queue *)

USE CmdSlotsAssumption

(* The slot that was written k calls before the slot next is. *)
Back(next, k) == IF k <= next THEN next - k ELSE next + CmdSlots - k
Following(slot) == IF slot = CmdSlots - 1 THEN 0 ELSE slot + 1

(* o is what q ends with, but for its last items. *)
EndsWith(q, o, later) ==
    /\ Len(o) + later <= Len(q)
    /\ \A i \in 1 .. Len(o) : o[i] = q[Len(q) - later - Len(o) + i]

(* The first m messages of q are the latest in the table, the first done of *)
(* them with their handlers; only a table that is not full has other slots. *)
InTable(q, m, done, cmds, next) ==
    /\ m \in 0 .. CmdSlots /\ done \in 0 .. m
    /\ m < CmdSlots => next = m
    /\ \A x \in 1 .. m : cmds[Back(next, m - x + 1)].id = q[x].id
    /\ \A x \in 1 .. done : cmds[Back(next, m - x + 1)].func = cmdFuncMap[q[x].type]

LEMMA FollowingSlot ==
    ASSUME NEW slot \in Slots
    PROVE  (slot + 1) % CmdSlots = Following(slot) /\ Following(slot) \in Slots
<1>1. slot \in 0 .. CmdSlots - 1 /\ CmdSlots \in Nat \ {0}
  BY DEF Slots
<1>2. CASE slot = CmdSlots - 1
  <2>1. (slot + 1) % CmdSlots = 0
    BY <1>1, <1>2
  <2> QED BY <1>1, <1>2, <2>1 DEF Following, Slots
<1>3. CASE slot # CmdSlots - 1
  <2>1. (slot + 1) % CmdSlots = slot + 1
    BY <1>1, <1>3
  <2> QED BY <1>1, <1>3, <2>1 DEF Following, Slots
<1> QED BY <1>2, <1>3

LEMMA BackType ==
    ASSUME NEW next \in Slots, NEW k \in 1 .. CmdSlots
    PROVE  /\ Back(next, k) \in Slots
           /\ k < CmdSlots => Back(next, k) # next
           /\ k < CmdSlots => Back(Following(next), k + 1) = Back(next, k)
           /\ Back(Following(next), 1) = next
           /\ k > 1 => Back(Following(next), k) # next
           /\ \A j \in 1 .. CmdSlots : Back(next, j) = Back(next, k) => j = k
  BY DEF Back, Following, Slots

(* command_handler_add writes the id of the last message, *)
LEMMA IdIsListed ==
    ASSUME NEW q \in Seq(Message), q # <<>>, NEW slot \in Slots,
           NEW cmds \in [Slots -> [id : Ids, func : Callbacks \cup {"NULL"}]],
           InTable(q, Len(q) - 1, Len(q) - 1, cmds, slot)
    PROVE  LET new == [cmds EXCEPT ![slot].id = q[Len(q)].id]
           IN  \/ InTable(q, Len(q), Len(q) - 1, new, Following(slot))
               \/ /\ Len(q) = CmdSlots + 1
                  /\ InTable(Tail(q), CmdSlots, CmdSlots - 1, new, Following(slot))
<1> DEFINE new == [cmds EXCEPT ![slot].id = q[Len(q)].id]
           m == Len(q) - 1
           next == Following(slot)
<1>1. /\ m \in Nat /\ Len(q) = m + 1 /\ m \in 0 .. CmdSlots /\ next \in Slots
  BY EmptySeq, LenProperties, FollowingSlot DEF InTable
<1>2. /\ new[slot].id = q[m + 1].id
      /\ \A u \in Slots : u # slot => new[u] = cmds[u]
  BY <1>1
<1>3. ASSUME NEW x \in 1 .. m
      PROVE  /\ cmds[Back(slot, m - x + 1)].id = q[x].id
             /\ cmds[Back(slot, m - x + 1)].func = cmdFuncMap[q[x].type]
  BY DEF InTable
<1>0. m < CmdSlots => slot = m
  BY DEF InTable
<1> HIDE DEF m
<1>4. CASE m < CmdSlots
  <2>1. m + 1 < CmdSlots => next = m + 1
    BY <1>0, <1>1, <1>4 DEF Following
  <2>2. ASSUME NEW x \in 1 .. m
        PROVE  /\ new[Back(next, (m + 1) - x + 1)].id = q[x].id
               /\ new[Back(next, (m + 1) - x + 1)].func = cmdFuncMap[q[x].type]
    <3>1. m - x + 1 \in 1 .. CmdSlots /\ m - x + 1 < CmdSlots
      BY <1>1, <1>4
    <3>2. /\ Back(next, (m - x + 1) + 1) = Back(slot, m - x + 1)
          /\ Back(slot, m - x + 1) \in Slots /\ Back(slot, m - x + 1) # slot
      BY <3>1, BackType
    <3>3. (m + 1) - x + 1 = (m - x + 1) + 1
      BY <1>1
    <3> QED BY <1>2, <1>3, <3>2, <3>3
  <2>3. new[Back(next, (m + 1) - (m + 1) + 1)].id = q[m + 1].id
    <3>1. (m + 1) - (m + 1) + 1 = 1 /\ 1 \in 1 .. CmdSlots
      BY <1>1
    <3>2. Back(next, 1) = slot
      BY <3>1, BackType
    <3> QED BY <1>2, <3>1, <3>2
  <2>4. InTable(q, m + 1, m, new, next)
    <3> HIDE DEF new, next
    <3>1. \A x \in 1 .. m + 1 : x \in 1 .. m \/ x = m + 1
      BY <1>1
    <3>2. m + 1 \in 0 .. CmdSlots /\ m \in 0 .. m + 1
      BY <1>1, <1>4
    <3>3. m + 1 < CmdSlots => next = m + 1
      BY <2>1
    <3> HIDE DEF m
    <3> QED BY <2>2, <2>3, <3>1, <3>2, <3>3 DEF InTable
  <2>5. m = Len(q) - 1 /\ m + 1 = Len(q)
    BY <1>1 DEF m
  <2> QED BY <2>4, <2>5
<1>5. CASE m = CmdSlots
  <2> DEFINE r == Tail(q)
  <2>1. /\ Len(r) = CmdSlots
        /\ \A x \in 1 .. CmdSlots : r[x] = q[x + 1]
    BY <1>1, <1>5, HeadTailProperties
  <2> HIDE DEF r
  <2>2. ASSUME NEW x \in 1 .. CmdSlots - 1
        PROVE  /\ new[Back(next, CmdSlots - x + 1)].id = r[x].id
               /\ new[Back(next, CmdSlots - x + 1)].func = cmdFuncMap[r[x].type]
    <3>1. CmdSlots - x \in 1 .. CmdSlots /\ CmdSlots - x < CmdSlots
      BY <1>1
    <3>2. /\ Back(next, (CmdSlots - x) + 1) = Back(slot, CmdSlots - x)
          /\ Back(slot, CmdSlots - x) \in Slots /\ Back(slot, CmdSlots - x) # slot
      BY <3>1, BackType
    <3>3. x + 1 \in 1 .. m /\ m - (x + 1) + 1 = CmdSlots - x /\ r[x] = q[x + 1]
      BY <1>1, <1>5, <2>1
    <3> QED BY <1>2, <1>3, <3>2, <3>3
  <2>3. new[Back(next, CmdSlots - CmdSlots + 1)].id = r[CmdSlots].id
    <3>1. CmdSlots - CmdSlots + 1 = 1 /\ 1 \in 1 .. CmdSlots
      BY <1>1
    <3>2. Back(next, 1) = slot
      BY <3>1, BackType
    <3>3. CmdSlots \in 1 .. CmdSlots
      BY <1>1
    <3> QED BY <1>2, <1>5, <2>1, <3>1, <3>2, <3>3
  <2>4. InTable(r, CmdSlots, CmdSlots - 1, new, next)
    <3> HIDE DEF new, next, m
    <3>1. \A x \in 1 .. CmdSlots : x \in 1 .. CmdSlots - 1 \/ x = CmdSlots
      BY <1>1
    <3>2. CmdSlots \in 0 .. CmdSlots /\ CmdSlots - 1 \in 0 .. CmdSlots
      BY <1>1
    <3> QED BY <2>2, <2>3, <3>1, <3>2 DEF InTable
  <2> QED BY <1>1, <1>5, <2>4 DEF r
<1> QED BY <1>1, <1>4, <1>5 DEF m

(* and then its handler. *)
LEMMA FuncIsListed ==
    ASSUME NEW q \in Seq(Message), q # <<>>, NEW slot \in Slots,
           NEW cmds \in [Slots -> [id : Ids, func : Callbacks \cup {"NULL"}]],
           InTable(q, Len(q), Len(q) - 1, cmds, Following(slot))
    PROVE  InTable(q, Len(q), Len(q),
                   [cmds EXCEPT ![slot].func = cmdFuncMap[q[Len(q)].type]], Following(slot))
<1> DEFINE m == Len(q)
           next == Following(slot)
           new == [cmds EXCEPT ![slot].func = cmdFuncMap[q[m].type]]
<1>1. m \in Nat \ {0} /\ m \in 0 .. CmdSlots
  BY EmptySeq, LenProperties DEF InTable
<1>2. /\ new[slot].func = cmdFuncMap[q[m].type] /\ new[slot].id = cmds[slot].id
      /\ \A u \in Slots : u # slot => new[u] = cmds[u]
  OBVIOUS
<1>3. Back(next, 1) = slot /\ \A k \in 1 .. CmdSlots : k > 1 => Back(next, k) # slot
  <2>1. 1 \in 1 .. CmdSlots
    BY <1>1
  <2> QED BY <2>1, BackType
<1>4. \A k \in 1 .. CmdSlots : Back(next, k) \in Slots
  BY FollowingSlot, BackType
<1> HIDE DEF new, next
<1>5. ASSUME NEW x \in 1 .. m
      PROVE  /\ new[Back(next, m - x + 1)].id = q[x].id
             /\ new[Back(next, m - x + 1)].func = cmdFuncMap[q[x].type]
  <2>1. cmds[Back(next, m - x + 1)].id = q[x].id
    BY DEF InTable, next
  <2>2. CASE x = m
    <3>1. m - x + 1 = 1
      BY <1>1, <2>2
    <3> QED BY <1>2, <1>3, <2>1, <2>2, <3>1
  <2>3. CASE x # m
    <3>1. m - x + 1 \in 1 .. CmdSlots /\ m - x + 1 > 1 /\ x \in 1 .. m - 1
      BY <1>1, <2>3
    <3>2. new[Back(next, m - x + 1)] = cmds[Back(next, m - x + 1)]
      BY <1>2, <1>3, <1>4, <3>1
    <3>3. cmds[Back(next, m - x + 1)].func = cmdFuncMap[q[x].type]
      BY <3>1 DEF InTable, next
    <3> QED BY <2>1, <3>2, <3>3
  <2> QED BY <2>2, <2>3
<1>6. m < CmdSlots => next = m
  BY DEF InTable, next
<1>7. m \in 0 .. m
  BY <1>1
<1> HIDE DEF m
<1>8. InTable(q, m, m, new, next)
  BY <1>1, <1>5, <1>6, <1>7 DEF InTable
<1> QED BY <1>8 DEF m, new, next

LEMMA AcceptedIsLast ==
    ASSUME NEW S, NEW q \in Seq(S), NEW o \in Seq(S), NEW new \in S,
           EndsWith(q, o, 0)
    PROVE  EndsWith(Append(q, new), o, 1)
<1> DEFINE r == Append(q, new)
<1>1. /\ Len(q) \in Nat /\ Len(o) \in Nat /\ Len(r) = Len(q) + 1
      /\ \A i \in 1 .. Len(q) : r[i] = q[i]
  BY LenProperties, AppendProperties
<1> HIDE DEF r
<1>2. ASSUME NEW i \in 1 .. Len(o) PROVE o[i] = r[Len(r) - 1 - Len(o) + i]
  <2>1. o[i] = q[Len(q) - 0 - Len(o) + i] /\ Len(o) + 0 <= Len(q)
    BY DEF EndsWith
  <2>2. /\ Len(q) - 0 - Len(o) + i \in 1 .. Len(q)
        /\ Len(r) - 1 - Len(o) + i = Len(q) - 0 - Len(o) + i
    BY <1>1, <2>1
  <2> QED BY <1>1, <2>1, <2>2
<1>3. Len(o) + 1 <= Len(r)
  BY <1>1 DEF EndsWith
<1>4. EndsWith(r, o, 1)
  BY <1>2, <1>3 DEF EndsWith
<1> QED BY <1>4 DEF r

LEMMA LastIsQueued ==
    ASSUME NEW S, NEW q \in Seq(S), NEW o \in Seq(S), NEW new \in S,
           EndsWith(q, o, 1), q[Len(q)] = new
    PROVE  EndsWith(q, Append(o, new), 0)
<1> DEFINE p == Append(o, new)
<1>1. /\ Len(q) \in Nat /\ Len(o) \in Nat /\ Len(p) = Len(o) + 1
      /\ p[Len(o) + 1] = new /\ \A i \in 1 .. Len(o) : p[i] = o[i]
  BY LenProperties, AppendProperties
<1> HIDE DEF p
<1>2. ASSUME NEW i \in 1 .. Len(p) PROVE p[i] = q[Len(q) - 0 - Len(p) + i]
  <2>1. CASE i = Len(o) + 1
    <3>1. Len(q) - 0 - Len(p) + i = Len(q)
      BY <1>1, <2>1
    <3> QED BY <1>1, <2>1, <3>1
  <2>2. CASE i # Len(o) + 1
    <3>1. i \in 1 .. Len(o) /\ Len(q) - 0 - Len(p) + i = Len(q) - 1 - Len(o) + i
      BY <1>1, <2>2
    <3>2. o[i] = q[Len(q) - 1 - Len(o) + i]
      BY <3>1 DEF EndsWith
    <3> QED BY <1>1, <3>1, <3>2
  <2> QED BY <2>1, <2>2
<1>3. Len(p) + 0 <= Len(q)
  BY <1>1 DEF EndsWith
<1>4. EndsWith(q, p, 0)
  BY <1>2, <1>3 DEF EndsWith
<1> QED BY <1>4 DEF p

LEMMA OldestIsSent ==
    ASSUME NEW S, NEW q \in Seq(S), NEW o \in Seq(S), NEW later \in {0, 1},
           EndsWith(q, o, later)
    PROVE  EndsWith(q, DropOldest(o), later)
<1>1. CASE o = <<>>
  BY <1>1 DEF DropOldest
<1>2. CASE o # <<>>
  <2> DEFINE p == Tail(o)
  <2>1. /\ Len(q) \in Nat /\ Len(o) \in Nat \ {0} /\ Len(p) = Len(o) - 1
        /\ \A i \in 1 .. Len(p) : p[i] = o[i + 1]
    BY <1>2, LenProperties, EmptySeq, HeadTailProperties
  <2> HIDE DEF p
  <2>2. ASSUME NEW i \in 1 .. Len(p) PROVE p[i] = q[Len(q) - later - Len(p) + i]
    <3>1. i + 1 \in 1 .. Len(o)
          /\ Len(q) - later - Len(p) + i = Len(q) - later - Len(o) + (i + 1)
      BY <2>1
    <3>2. o[i + 1] = q[Len(q) - later - Len(o) + (i + 1)]
      BY <3>1 DEF EndsWith
    <3> QED BY <2>1, <3>1, <3>2
  <2>3. Len(p) + later <= Len(q)
    BY <2>1 DEF EndsWith
  <2>4. EndsWith(q, p, later)
    BY <2>2, <2>3 DEF EndsWith
  <2> QED BY <1>2, <2>4 DEF p, DropOldest
<1> QED BY <1>1, <1>2

LEMMA OldestIsForgotten ==
    ASSUME NEW S, NEW q \in Seq(S), q # <<>>, NEW o \in Seq(S), Len(o) <= Len(q) - 1,
           EndsWith(q, o, 0)
    PROVE  EndsWith(Tail(q), o, 0)
<1> DEFINE r == Tail(q)
<1>1. /\ Len(q) \in Nat \ {0} /\ Len(o) \in Nat /\ Len(r) = Len(q) - 1
      /\ \A i \in 1 .. Len(r) : r[i] = q[i + 1]
  BY LenProperties, EmptySeq, HeadTailProperties
<1> HIDE DEF r
<1>2. ASSUME NEW i \in 1 .. Len(o) PROVE o[i] = r[Len(r) - 0 - Len(o) + i]
  <2>1. o[i] = q[Len(q) - 0 - Len(o) + i]
    BY DEF EndsWith
  <2>2. /\ Len(r) - 0 - Len(o) + i \in 1 .. Len(r)
        /\ (Len(r) - 0 - Len(o) + i) + 1 = Len(q) - 0 - Len(o) + i
    BY <1>1
  <2> QED BY <1>1, <2>1, <2>2
<1>3. Len(o) + 0 <= Len(r)
  BY <1>1
<1>4. EndsWith(r, o, 0)
  BY <1>2, <1>3 DEF EndsWith
<1> QED BY <1>4 DEF r

(* A message that was accepted but not yet listed changes nothing. *)
LEMMA TableOfLonger ==
    ASSUME NEW q \in Seq(Message), NEW new \in Message, NEW cmds, NEW next,
           InTable(q, Len(q), Len(q), cmds, next)
    PROVE  InTable(Append(q, new), Len(q), Len(q), cmds, next)
<1>1. \A x \in 1 .. Len(q) : Append(q, new)[x] = q[x]
  BY AppendProperties
<1> QED BY <1>1 DEF InTable

LEMMA IdsOfTail ==
    ASSUME NEW q \in Seq(Message), q # <<>>
    PROVE  IdsOf(Tail(q)) = DropOldest(IdsOf(q))
<1>1. /\ IdsOf(Tail(q)) \in Seq(Ids) /\ Head(q).id \in Ids
      /\ IdsOf(q) = <<Head(q).id>> \o IdsOf(Tail(q))
  BY HaveIds, IdsOfHeadTail
<1>2. IdsOf(q) # <<>> /\ Tail(IdsOf(q)) = IdsOf(Tail(q))
  <2> DEFINE h == Head(q).id  r == IdsOf(Tail(q))
  <2>1. h \in Ids /\ r \in Seq(Ids) /\ IdsOf(q) = <<h>> \o r
    BY <1>1
  <2> HIDE DEF h, r
  <2>2. IdsOf(q) # <<>> /\ Tail(IdsOf(q)) = r
    BY <2>1, ConcatSimplifications, ConcatProperties
  <2> QED BY <2>2 DEF r
<1> QED BY <1>2 DEF DropOldest

(* The lookup: a listed message whose id none of the others has is found. *)
LEMMA ListedIsFound ==
    ASSUME NEW q \in Seq(Message), NEW m, NEW done, NEW next \in Slots,
           m <= Len(q), InTable(q, m, done, pendingCmds, next),
           \A x, y \in 1 .. Len(q) : x # y => q[x].id # q[y].id,
           NEW x \in 1 .. done
    PROVE  HandlerOf(q[x].id) = cmdFuncMap[q[x].type]
<1> DEFINE s == Back(next, m - x + 1)
<1>1. /\ m \in 0 .. CmdSlots /\ done \in 0 .. m /\ Len(q) \in Nat /\ CmdSlots \in Nat \ {0}
      /\ m - x + 1 \in 1 .. CmdSlots /\ x \in 1 .. m /\ x \in 1 .. Len(q)
  <2>1. m \in 0 .. CmdSlots /\ done \in 0 .. m
    BY DEF InTable
  <2>2. Len(q) \in Nat /\ CmdSlots \in Nat \ {0}
    BY LenProperties
  <2>3. x \in 1 .. m /\ x \in 1 .. Len(q)
    BY <2>1, <2>2
  <2> QED BY <2>1, <2>2, <2>3
<1>2. /\ s \in Slots /\ pendingCmds[s].id = q[x].id
      /\ pendingCmds[s].func = cmdFuncMap[q[x].type]
  BY <1>1, BackType DEF InTable
<1>3. ASSUME NEW u \in Slots, u < s, pendingCmds[u].id = q[x].id
      PROVE  FALSE
  <2> DEFINE k == IF u < next THEN next - u ELSE next + CmdSlots - u
             y == m - k + 1
  <2>1. k \in 1 .. m
    <3>1. k \in 1 .. CmdSlots
      BY <1>1 DEF Slots
    <3>2. ASSUME m < CmdSlots PROVE k <= m
      <4>1. next = m
        BY <3>2 DEF InTable
      <4>2. s < next
        BY <1>1, <4>1 DEF Back
      <4> QED BY <1>1, <1>2, <1>3, <4>1, <4>2 DEF Slots
    <3> QED BY <1>1, <3>1, <3>2
  <2>2. Back(next, k) = u
    BY <1>1 DEF Back, Slots
  <2> HIDE DEF k
  <2>3. y \in 1 .. m /\ m - y + 1 = k /\ y \in 1 .. Len(q)
    BY <1>1, <2>1
  <2>4. pendingCmds[u].id = q[y].id
    BY <2>2, <2>3 DEF InTable
  <2>5. y = x
    BY <1>1, <1>3, <2>3, <2>4
  <2>6. u = s
    BY <1>1, <2>2, <2>3, <2>5
  <2> QED BY <1>2, <1>3, <2>6 DEF Slots
<1> HIDE DEF s
<1>4. FirstSlot(q[x].id, s)
  BY <1>2, <1>3 DEF FirstSlot
<1>5. \A u \in Slots : FirstSlot(q[x].id, u) => u = s
  BY <1>2, <1>4 DEF FirstSlot, Slots
<1>6. (CHOOSE u \in Slots : FirstSlot(q[x].id, u)) = s
  BY <1>2, <1>4, <1>5
<1>7. HandlerOf(q[x].id) = pendingCmds[s].func
  BY <1>2, <1>4, <1>6 DEF HandlerOf
<1> QED BY <1>2, <1>7

Inside == {"push", "slot id", "slot func"}
Unqueued(ad) == IF \E t \in Threads : ad[t].pc = "push" THEN 1 ELSE 0
Unlisted(ad) == IF \E t \in Threads : ad[t].pc \in {"push", "slot id"} THEN 1 ELSE 0
Unfinished(ad) == IF \E t \in Threads : ad[t].pc \in Inside THEN 1 ELSE 0
Upcoming(ad, slot) ==
    IF \E t \in Threads : ad[t].pc = "slot func" THEN Following(slot) ELSE slot

(* q is what was accepted, as far as the table reaches back: the ring of    *)
(* ids is its end, and so is the queue, but for a message still to be       *)
(* pushed.                                                                  *)
History(q) ==
    /\ InOrder(IdsOf(q), idCounter, rejected, Begun)
    /\ EndsWith(q, outQ, Unqueued(adder))
    /\ EndsWith(IdsOf(q), pendingDones, 0)
    /\ InTable(q, Len(q) - Unlisted(adder),
                  Len(q) - Unfinished(adder),
                  pendingCmds, Upcoming(adder, handlerIndex))
    /\ \A t \in Threads :
        adder[t].pc \in Inside => q # <<>> /\ q[Len(q)] = adder[t].msg
HandlersKept == \E q \in Seq(Message) : History(q)

LEMMA OneInside ==
    ASSUME NEW ad, NEW t \in Threads, NEW slot,
           \A u \in Threads : u # t => ad[u].pc = "idle"
    PROVE  /\ Unqueued(ad) = IF ad[t].pc = "push" THEN 1 ELSE 0
           /\ Unlisted(ad) = IF ad[t].pc \in {"push", "slot id"} THEN 1 ELSE 0
           /\ Unfinished(ad) = IF ad[t].pc \in Inside THEN 1 ELSE 0
           /\ Upcoming(ad, slot) = IF ad[t].pc = "slot func" THEN Following(slot) ELSE slot
<1> DEFINE pc(u) == ad[u].pc
<1>0. \A u \in Threads : u # t => pc(u) = "idle"
  OBVIOUS
<1>1. \A u \in Threads : pc(u) = "push" \/ pc(u) = "slot id" \/ pc(u) = "slot func" => u = t
  BY <1>0
<1>2. /\ (\E u \in Threads : pc(u) = "push") <=> pc(t) = "push"
      /\ (\E u \in Threads : pc(u) \in {"push", "slot id"}) <=> pc(t) \in {"push", "slot id"}
      /\ (\E u \in Threads : pc(u) \in Inside) <=> pc(t) \in Inside
      /\ (\E u \in Threads : pc(u) = "slot func") <=> pc(t) = "slot func"
  BY <1>1 DEF Inside
<1> QED BY <1>2, Zenon DEF Unqueued, Unlisted, Unfinished, Upcoming

LEMMA NobodyInside ==
    ASSUME NEW ad, NEW slot, \A u \in Threads : ad[u].pc \in {"idle", "pending"}
    PROVE  /\ Unqueued(ad) = 0 /\ Unlisted(ad) = 0 /\ Unfinished(ad) = 0
           /\ Upcoming(ad, slot) = slot
  BY DEF Unqueued, Unlisted, Unfinished, Upcoming, Inside

LEMMA TableFacts ==
    ASSUME TypeOK
    PROVE  /\ pendingCmds \in [Slots -> [id : Ids, func : Callbacks \cup {"NULL"}]]
           /\ handlerIndex \in Slots
           /\ outQ \in Seq(Message) /\ Len(outQ) <= Capacity
<1>1. MHTypeOK
  BY TypeParts
<1> QED BY <1>1 DEF MHTypeOK, CommandHandlerTypeOK, QueuesTypeOK

LEMMA AloneInside ==
    ASSUME NoConcurrentAdds, NEW t \in Threads, adder[t].pc # "idle"
    PROVE  \A u \in Threads : u # t => adder[u].pc = "idle"
  BY DEF NoConcurrentAdds

LEMMA InitHistory == Init => HandlersKept
<1> SUFFICES ASSUME Init PROVE HandlersKept
  OBVIOUS
<1>1. /\ outQ = <<>> /\ pendingDones = <<>> /\ handlerIndex = 0 /\ \A t \in Threads : adder[t].pc = "idle"
      /\ <<>> \in Seq(Message) /\ Len(<<>>) = 0
  BY DEF Init, MHInit, CommandHandlerInit, AdderIdle
<1>3. InOrder(IdsOf(<<>>), idCounter, rejected, Begun)
  BY IdsOfEmpty DEF InOrder
<1>4. /\ Unqueued(adder) = 0 /\ Unlisted(adder) = 0
      /\ Unfinished(adder) = 0 /\ Upcoming(adder, handlerIndex) = 0
  BY <1>1, NobodyInside
<1>5. /\ EndsWith(<<>>, outQ, 0) /\ EndsWith(IdsOf(<<>>), pendingDones, 0)
      /\ InTable(<<>>, 0, 0, pendingCmds, 0)
  BY <1>1, IdsOfEmpty DEF EndsWith, InTable
<1>6. History(<<>>)
  <2>1. Len(<<>>) - 0 = 0
    BY <1>1
  <2>2. \A t \in Threads : adder[t].pc \notin Inside
    BY <1>1 DEF Inside
  <2> QED BY <1>3, <1>4, <1>5, <2>1, <2>2 DEF History
<1> QED BY <1>1, <1>6 DEF HandlersKept

(* A call takes a number. *)
LEMMA NumberHistory ==
    ASSUME TypeOK, IdsInOrder, NEW t \in Threads, NEW cmd, AddNumber(t, cmd),
           \A u \in Threads : adder[u].pc = "idle", CmdSlots * Spread < IdMod,
           NEW q \in Seq(Message), History(q)
    PROVE  History(q)'
<1>1. adder \in [Threads -> AdderState] /\ idCounter \in Ids /\ rejected \in 0 .. MaxRejected
  BY TypeFacts, CounterType DEF IdsInOrder
<1>2. /\ adder' = [adder EXCEPT ![t] =
                     [pc |-> "pending", msg |-> [id |-> NextId(idCounter), type |-> cmd]]]
      /\ idCounter' = NextId(idCounter) /\ rejected' = rejected
      /\ outQ' = outQ /\ pendingCmds' = pendingCmds /\ handlerIndex' = handlerIndex
      /\ pendingDones' = pendingDones
  BY DEF AddNumber, handlerVars
<1>3. adder'[t].pc = "pending" /\ \A u \in Threads : u # t => adder'[u].pc = "idle"
  BY <1>1, <1>2
<1>4. Begun = 0 /\ Begun' = 1
  BY <1>3 DEF Begun
<1>5. /\ Unqueued(adder) = 0 /\ Unlisted(adder) = 0 /\ Unfinished(adder) = 0
      /\ Upcoming(adder, handlerIndex) = handlerIndex
  BY NobodyInside
<1>6. /\ InTable(q, Len(q), Len(q), pendingCmds, handlerIndex) /\ EndsWith(q, outQ, 0)
      /\ EndsWith(IdsOf(q), pendingDones, 0)
  <2>1. Len(q) - 0 = Len(q)
    BY LenProperties
  <2> QED BY <1>5, <2>1 DEF History
<1>7. InOrder(IdsOf(q), NextId(idCounter), rejected, 1)
  <2>1. IdsOf(q) \in Seq(Ids) /\ Len(IdsOf(q)) = Len(q) /\ Len(q) <= CmdSlots
    BY <1>6, HaveIds, IdsOfType DEF InTable
  <2>2. CmdSlots \in Nat /\ InOrder(IdsOf(q), idCounter, rejected, 0)
    BY <1>4 DEF History
  <2> QED BY <1>1, <2>1, <2>2, NumberKeepsOrder
<1>8. Len(q) - 0 = Len(q)
  BY LenProperties
<1>9. \A u \in Threads : adder'[u].pc \notin Inside
  BY <1>3 DEF Inside
<1>10. /\ Unqueued(adder') = 0 /\ Unlisted(adder') = 0
       /\ Unfinished(adder') = 0 /\ Upcoming(adder', handlerIndex) = handlerIndex
  BY <1>3, NobodyInside
<1> QED BY <1>2, <1>4, <1>6, <1>7, <1>8, <1>9, <1>10 DEF History

(* The ring takes the id or refuses it. *)
LEMMA PendingHistory ==
    ASSUME TypeOK, NoConcurrentAdds, IdsInOrder, NEW t \in Threads, AddPending(t),
           NEW q \in Seq(Message), History(q)
    PROVE  \E r \in Seq(Message) :
               /\ History(r)'
               /\ r = IF IsFull(pendingDones) THEN q ELSE Append(q, adder[t].msg)
<1>1. /\ adder \in [Threads -> AdderState] /\ idCounter \in Ids
      /\ rejected \in 0 .. MaxRejected /\ adder[t].msg \in Message
  BY TypeFacts, CounterType DEF IdsInOrder
<1>2. adder[t].pc = "pending" /\ \A u \in Threads : u # t => adder[u].pc = "idle"
  BY AloneInside DEF AddPending
<1>3. Begun = 1 /\ adder[t].msg.id = idCounter /\ idCounter' = idCounter
  BY <1>2 DEF Begun, IdsInOrder, AddPending
<1>4. adder'[t].pc # "pending" /\ \A u \in Threads : u # t => adder'[u] = adder[u]
  BY AddStepLeaves DEF AddPending
<1>5. \A u \in Threads : u # t => adder'[u].pc = "idle"
  BY <1>2, <1>4
<1>6. Begun' = 0
  BY <1>4, <1>5 DEF Begun
<1>7. outQ' = outQ /\ pendingCmds' = pendingCmds /\ handlerIndex' = handlerIndex
  BY DEF AddPending, handlerVars
<1>8. /\ Unqueued(adder) = 0 /\ Unlisted(adder) = 0
      /\ Unfinished(adder) = 0 /\ Upcoming(adder, handlerIndex) = handlerIndex
  BY <1>2, OneInside DEF Inside
<1>9. Len(q) \in Nat /\ Len(q) - 0 = Len(q) /\ IdsOf(q) \in Seq(Ids)
  BY LenProperties, HaveIds, IdsOfType
<1>10. /\ InTable(q, Len(q), Len(q), pendingCmds, handlerIndex) /\ EndsWith(q, outQ, 0)
       /\ InOrder(IdsOf(q), idCounter, rejected, 1) /\ EndsWith(IdsOf(q), pendingDones, 0)
  BY <1>3, <1>8, <1>9 DEF History
<1>11. CASE IsFull(pendingDones)
  <2>1. adder'[t].pc = "idle" /\ rejected' = rejected + 1 /\ pendingDones' = pendingDones
    BY <1>1, <1>11 DEF AddPending, Return, AdderIdle
  <2>2. InOrder(IdsOf(q), idCounter, rejected + 1, 0)
    BY <1>1, <1>9, <1>10, RefusalKeepsOrder
  <2>3. /\ Unqueued(adder') = 0 /\ Unlisted(adder') = 0
        /\ Unfinished(adder') = 0 /\ Upcoming(adder', handlerIndex) = handlerIndex
    BY <1>5, <2>1, OneInside DEF Inside
  <2>4. \A u \in Threads : adder'[u].pc \notin Inside
    BY <1>5, <2>1 DEF Inside
  <2>5. History(q)'
    BY <1>3, <1>6, <1>7, <1>9, <1>10, <2>1, <2>2, <2>3, <2>4 DEF History
  <2> QED BY <1>11, <2>5
<1>12. CASE ~IsFull(pendingDones)
  <2>0. PICK r \in Seq(Message) : r = Append(q, adder[t].msg)
    BY <1>1, AppendProperties
  <2>1. /\ adder'[t].pc = "push" /\ adder'[t].msg = adder[t].msg /\ rejected' = 0
        /\ pendingDones' = Append(pendingDones, adder[t].msg.id)
    BY <1>1, <1>12, ZenonT(60) DEF AddPending, Goto, AdderState
  <2>2. /\ r \in Seq(Message) /\ Len(r) = Len(q) + 1 /\ r[Len(r)] = adder[t].msg /\ r # <<>>
    BY <1>1, <1>9, <2>0, AppendProperties
  <2>a. IdsOf(r) = Append(IdsOf(q), idCounter)
    <3>1. IdsOf(r) = IdsOf(q) \o <<adder[t].msg.id>>
      BY <1>1, <2>0, HaveIds, IdsOfAppend
    <3> QED BY <1>1, <1>3, <1>9, <3>1, AppendIsConcat
  <2>3. InOrder(IdsOf(r), idCounter, 0, 0)
    BY <1>1, <1>9, <1>10, <2>a, AcceptKeepsOrder
  <2>b. EndsWith(IdsOf(r), pendingDones', 0)
    <3> DEFINE p == Append(IdsOf(q), idCounter)
    <3>1. pendingDones \in Seq(Ids) /\ p \in Seq(Ids) /\ p[Len(p)] = idCounter
      BY <1>1, <1>9, TypeFacts, AppendProperties, LenProperties
    <3>2. EndsWith(p, pendingDones, 1)
      BY <1>1, <1>9, <1>10, <3>1, AcceptedIsLast
    <3> HIDE DEF p
    <3>3. EndsWith(p, Append(pendingDones, idCounter), 0)
      BY <1>1, <3>1, <3>2, LastIsQueued
    <3> QED BY <1>3, <2>1, <2>a, <3>3 DEF p
  <2>4. EndsWith(r, outQ, 1) /\ InTable(r, Len(q), Len(q), pendingCmds, handlerIndex)
    BY <1>1, <1>10, <2>0, TableFacts, AcceptedIsLast, TableOfLonger
  <2>5. /\ Unqueued(adder') = 1 /\ Unlisted(adder') = 1
        /\ Unfinished(adder') = 1 /\ Upcoming(adder', handlerIndex) = handlerIndex
    BY <1>5, <2>1, OneInside DEF Inside
  <2>6. Len(r) - 1 = Len(q)
    BY <1>9, <2>2
  <2>7. \A u \in Threads : adder'[u].pc \in Inside => u = t
    BY <1>5 DEF Inside
  <2>8. History(r)'
    BY <1>3, <1>6, <1>7, <2>1, <2>2, <2>3, <2>b, <2>4, <2>5, <2>6, <2>7 DEF History
  <2> QED BY <1>12, <2>0, <2>8
<1> QED BY <1>11, <1>12

(* Where a call goes next *)
LEMMA CallGoes ==
    ASSUME TypeOK, NoConcurrentAdds, NEW t \in Threads, AddStep(t)
    PROVE  /\ \A u \in Threads : u # t => adder[u].pc = "idle"
           /\ \A u \in Threads : u # t => adder'[u].pc = "idle"
           /\ Return(t) => adder'[t].pc = "idle"
           /\ \A pc \in {"push", "slot id", "slot func"} :
                Goto(t, pc) => adder'[t].pc = pc /\ adder'[t].msg = adder[t].msg
<1>1. adder \in [Threads -> AdderState]
  BY TypeFacts
<1>2. /\ adder[t].pc # "idle"
      /\ \A u \in Threads : u # t => adder'[u] = adder[u]
  BY AddStepAdder
<1>3. \A u \in Threads : u # t => adder[u].pc = "idle"
  BY <1>2, AloneInside
<1>4. Return(t) => adder'[t].pc = "idle"
  BY <1>1 DEF Return, AdderIdle
<1>5. \A pc \in {"push", "slot id", "slot func"} :
        Goto(t, pc) => adder'[t].pc = pc /\ adder'[t].msg = adder[t].msg
  BY <1>1, ZenonT(60) DEF Goto, AdderState
<1> QED BY <1>2, <1>3, <1>4, <1>5

(* out_msg_q_push *)
LEMMA PushHistory ==
    ASSUME TypeOK, NoConcurrentAdds, ~IsFull(outQ), NEW t \in Threads, AddPush(t),
           NEW q \in Seq(Message), History(q)
    PROVE  History(q)'
<1>1. adder[t].pc = "push" /\ adder[t].msg \in Message
  BY TypeFacts DEF AddPush
<1>2. /\ outQ' = Append(outQ, adder[t].msg) /\ Goto(t, "slot id")
      /\ idCounter' = idCounter /\ rejected' = rejected
      /\ pendingCmds' = pendingCmds /\ handlerIndex' = handlerIndex
      /\ pendingDones' = pendingDones
  BY DEF AddPush, handlerVars
<1>3. /\ \A u \in Threads : u # t => adder[u].pc = "idle" /\ adder'[u].pc = "idle"
      /\ adder'[t].pc = "slot id" /\ adder'[t].msg = adder[t].msg
  BY <1>2, CallGoes DEF AddStep
<1>4. /\ Unqueued(adder) = 1 /\ Unlisted(adder) = 1 /\ Unfinished(adder) = 1
      /\ Upcoming(adder, handlerIndex) = handlerIndex
  BY <1>1, <1>3, OneInside, ZenonT(60) DEF Inside
<1>5. /\ Unqueued(adder') = 0 /\ Unlisted(adder') = 1 /\ Unfinished(adder') = 1
      /\ Upcoming(adder', handlerIndex) = handlerIndex
  BY <1>3, OneInside DEF Inside
<1>6. q # <<>> /\ q[Len(q)] = adder[t].msg
  BY <1>1 DEF History, Inside
<1>7. EndsWith(q, outQ', 0)
  BY <1>1, <1>2, <1>4, <1>6, TableFacts, LastIsQueued DEF History
<1>8. InTable(q, Len(q) - 1, Len(q) - 1, pendingCmds, handlerIndex)
  BY <1>4 DEF History
<1>9. Begun' = Begun
  <2>1. \A u \in Threads : adder[u].pc # "pending" /\ adder'[u].pc # "pending"
    BY <1>1, <1>3
  <2> QED BY <2>1 DEF Begun
<1>10. \A u \in Threads : adder'[u].pc \in Inside => u = t
  BY <1>3 DEF Inside
<1> QED BY <1>2, <1>3, <1>5, <1>6, <1>7, <1>8, <1>9, <1>10 DEF History

(* The id of the message in its slot, where it may replace the oldest *)
LEMMA SlotIdHistory ==
    ASSUME TypeOK, NoConcurrentAdds, Capacity <= CmdSlots, NEW t \in Threads, AddSlotId(t),
           NEW q \in Seq(Message), History(q)
    PROVE  \E r \in Seq(Message) :
               /\ History(r)'
               /\ r = q \/ (r = Tail(q) /\ Len(q) = CmdSlots + 1)
<1>1. adder[t].pc = "slot id" /\ adder[t].msg \in Message
  BY TypeFacts DEF AddSlotId
<1>2. HandlerFunc(adder[t].msg.type) # "NULL"
  <2>1. adder[t].msg.type \in DOMAIN cmdFuncMap
    BY <1>1 DEF Message
  <2>2. \A cmd \in DOMAIN cmdFuncMap : cmdFuncMap[cmd] # "NULL"
    BY DEF cmdFuncMap
  <2> QED BY <2>1, <2>2 DEF HandlerFunc
<1>3. /\ Goto(t, "slot func") /\ outQ' = outQ /\ idCounter' = idCounter /\ rejected' = rejected
      /\ pendingCmds' = [pendingCmds EXCEPT ![handlerIndex].id = adder[t].msg.id]
      /\ handlerIndex' = handlerIndex /\ pendingDones' = pendingDones
  BY <1>2 DEF AddSlotId, WriteSlotId
<1>4. /\ \A u \in Threads : u # t => adder[u].pc = "idle" /\ adder'[u].pc = "idle"
      /\ adder'[t].pc = "slot func" /\ adder'[t].msg = adder[t].msg
  BY <1>3, CallGoes DEF AddStep
<1>5. /\ Unqueued(adder) = 0 /\ Unlisted(adder) = 1 /\ Unfinished(adder) = 1
      /\ Upcoming(adder, handlerIndex) = handlerIndex
  BY <1>1, <1>4, OneInside, ZenonT(60) DEF Inside
<1>6. /\ Unqueued(adder') = 0 /\ Unlisted(adder') = 0 /\ Unfinished(adder') = 1
      /\ Upcoming(adder', handlerIndex) = Following(handlerIndex)
  BY <1>4, OneInside DEF Inside
<1>7. q # <<>> /\ q[Len(q)] = adder[t].msg
  BY <1>1 DEF History, Inside
<1>8. Begun' = Begun
  <2>1. \A u \in Threads : adder[u].pc # "pending" /\ adder'[u].pc # "pending"
    BY <1>1, <1>4
  <2> QED BY <2>1 DEF Begun
<1>9. /\ InOrder(IdsOf(q), idCounter, rejected, Begun) /\ EndsWith(q, outQ, 0)
      /\ EndsWith(IdsOf(q), pendingDones, 0)
      /\ InTable(q, Len(q) - 1, Len(q) - 1, pendingCmds, handlerIndex)
  BY <1>5 DEF History
<1>10. \A u \in Threads : adder'[u].pc \in Inside => u = t
  BY <1>4 DEF Inside
<1>11. Len(q) \in Nat \ {0} /\ Len(q) - 0 = Len(q)
  BY <1>7, EmptySeq, LenProperties
<1>12. CASE InTable(q, Len(q), Len(q) - 1, pendingCmds', Following(handlerIndex))
  <2>1. History(q)'
    BY <1>3, <1>4, <1>6, <1>7, <1>8, <1>9, <1>10, <1>11, <1>12 DEF History
  <2> QED BY <2>1
<1>13. CASE /\ Len(q) = CmdSlots + 1
            /\ InTable(Tail(q), CmdSlots, CmdSlots - 1, pendingCmds', Following(handlerIndex))
  <2>0. PICK r \in Seq(Message) : r = Tail(q)
    BY <1>7, HeadTailProperties
  <2>1. Len(r) = CmdSlots /\ Len(r) - 0 = CmdSlots /\ CmdSlots \in Nat \ {0}
        /\ r # <<>> /\ r[Len(r)] = q[Len(q)]
    <3>1. Len(r) = CmdSlots /\ CmdSlots \in Nat \ {0}
          /\ \A i \in 1 .. CmdSlots : r[i] = q[i + 1]
      BY <1>7, <1>11, <1>13, <2>0, HeadTailProperties
    <3>2. CmdSlots \in 1 .. CmdSlots
      BY <3>1
    <3>3. r[CmdSlots] = q[CmdSlots + 1]
      BY <3>1, <3>2
    <3> QED BY <1>13, <3>1, <3>3, EmptySeq
  <2>a. IdsOf(r) = DropOldest(IdsOf(q)) /\ IdsOf(q) \in Seq(Ids) /\ Len(IdsOf(q)) = Len(q)
    BY <1>7, <2>0, IdsOfTail, HaveIds, IdsOfType
  <2>2. InOrder(IdsOf(r), idCounter, rejected, Begun)
    <3>2. idCounter \in Ids
      BY CounterType
    <3> QED BY <1>9, <2>a, <3>2, DropKeepsOrder
  <2>3. EndsWith(r, outQ, 0)
    <3>1. Len(outQ) <= Len(q) - 1
      <4>1. Len(outQ) \in Nat /\ Capacity \in Nat /\ Len(outQ) <= Capacity
        BY TableFacts, LenProperties DEF Capacity
      <4> QED BY <1>13, <2>1, <4>1
    <3> QED BY <1>7, <1>9, <2>0, <3>1, TableFacts, OldestIsForgotten
  <2>b. EndsWith(IdsOf(r), pendingDones, 0)
    <3>1. /\ pendingDones \in Seq(Ids) /\ IdsOf(q) # <<>>
          /\ IdsOf(r) = Tail(IdsOf(q))
      BY <1>11, <2>a, TypeFacts, EmptySeq DEF DropOldest
    <3>2. Len(pendingDones) <= Len(IdsOf(q)) - 1
      <4>1. Len(pendingDones) \in Nat /\ Capacity \in Nat /\ Len(pendingDones) <= Capacity
        BY TypeFacts, LenProperties DEF Capacity
      <4> QED BY <1>13, <2>1, <2>a, <4>1
    <3> QED BY <1>9, <2>a, <3>1, <3>2, OldestIsForgotten
  <2>4. History(r)'
    BY <1>3, <1>4, <1>6, <1>7, <1>8, <1>10, <1>13, <2>0, <2>1, <2>2, <2>3, <2>b DEF History
  <2> QED BY <1>13, <2>0, <2>4
<1> QED BY <1>3, <1>7, <1>9, <1>12, <1>13, TableFacts, IdIsListed

(* The handler in the slot *)
LEMMA SlotFuncHistory ==
    ASSUME TypeOK, NoConcurrentAdds, NEW t \in Threads, AddSlotFunc(t),
           NEW q \in Seq(Message), History(q)
    PROVE  History(q)'
<1>1. adder[t].pc = "slot func" /\ adder[t].msg \in Message
  BY TypeFacts DEF AddSlotFunc
<1>2. HandlerFunc(adder[t].msg.type) = cmdFuncMap[adder[t].msg.type]
  BY <1>1 DEF HandlerFunc, Message
<1>3. /\ Return(t) /\ outQ' = outQ /\ idCounter' = idCounter /\ rejected' = rejected
      /\ pendingCmds' = [pendingCmds EXCEPT ![handlerIndex].func = cmdFuncMap[adder[t].msg.type]]
      /\ handlerIndex' = Following(handlerIndex) /\ pendingDones' = pendingDones
  BY <1>2, TableFacts, FollowingSlot DEF AddSlotFunc, WriteSlotFunc, NextSlot
<1>4. /\ \A u \in Threads : u # t => adder[u].pc = "idle" /\ adder'[u].pc = "idle"
      /\ adder'[t].pc = "idle"
  BY <1>3, CallGoes DEF AddStep
<1>5. /\ Unqueued(adder) = 0 /\ Unlisted(adder) = 0 /\ Unfinished(adder) = 1
      /\ Upcoming(adder, handlerIndex) = Following(handlerIndex)
  BY <1>1, <1>4, OneInside DEF Inside
<1>6. /\ Unqueued(adder') = 0 /\ Unlisted(adder') = 0 /\ Unfinished(adder') = 0
      /\ Upcoming(adder', handlerIndex') = handlerIndex'
  <2>1. \A u \in Threads : adder'[u].pc \in {"idle", "pending"}
    BY <1>4
  <2> QED BY <2>1, NobodyInside
<1>7. q # <<>> /\ q[Len(q)] = adder[t].msg
  BY <1>1 DEF History, Inside
<1>8. Begun' = Begun
  <2>1. \A u \in Threads : adder[u].pc # "pending" /\ adder'[u].pc # "pending"
    BY <1>1, <1>4
  <2> QED BY <2>1 DEF Begun
<1>9. Len(q) - 0 = Len(q)
  BY LenProperties
<1>10. /\ InOrder(IdsOf(q), idCounter, rejected, Begun) /\ EndsWith(q, outQ, 0)
       /\ EndsWith(IdsOf(q), pendingDones, 0)
       /\ InTable(q, Len(q), Len(q) - 1, pendingCmds, Following(handlerIndex))
  BY <1>5, <1>9 DEF History
<1>11. InTable(q, Len(q), Len(q), pendingCmds', handlerIndex')
  BY <1>3, <1>7, <1>10, TableFacts, FuncIsListed
<1>12. \A u \in Threads : adder'[u].pc \notin Inside
  BY <1>4 DEF Inside
<1> QED BY <1>3, <1>6, <1>8, <1>9, <1>10, <1>11, <1>12 DEF History

(* Whatever else happens only takes messages out of the queue. *)
LEMMA OtherHistory ==
    ASSUME TypeOK,
           UNCHANGED <<adder, idCounter, rejected, pendingCmds, handlerIndex>>,
           outQ' \in {outQ, DropOldest(outQ)},
           pendingDones' \in {pendingDones, DropOldest(pendingDones)},
           NEW q \in Seq(Message), History(q)
    PROVE  History(q)'
<1>1. EndsWith(q, outQ', Unqueued(adder))
  <2>1. Unqueued(adder) \in {0, 1} /\ EndsWith(q, outQ, Unqueued(adder))
    BY DEF Unqueued, History
  <2> QED BY <2>1, TableFacts, OldestIsSent
<1>2. EndsWith(IdsOf(q), pendingDones', 0)
  <2>1. IdsOf(q) \in Seq(Ids) /\ pendingDones \in Seq(Ids)
    BY HaveIds, IdsOfType, TypeFacts
  <2>2. EndsWith(IdsOf(q), pendingDones, 0)
    BY DEF History
  <2> QED BY <2>1, <2>2, OldestIsSent
<1>3. Begun' = Begun
  BY DEF Begun
<1> QED BY <1>1, <1>2, <1>3 DEF History

(* InOrder keeps the ids of what the table holds apart. *)
LEMMA OrderedDiffer ==
    ASSUME NEW q \in Seq(Message), NEW now \in Ids, NEW refused, NEW begun,
           InOrder(IdsOf(q), now, refused, begun),
           NEW x \in 1 .. Len(q), NEW y \in 1 .. Len(q), x # y
    PROVE  q[x].id # q[y].id
<1>1. /\ IdsOf(q) \in Seq(Ids) /\ Len(IdsOf(q)) = Len(q) /\ Len(q) \in Nat
      /\ IdsOf(q)[x] = q[x].id /\ IdsOf(q)[y] = q[y].id
  BY HaveIds, IdsOfType, LenProperties
<1>2. Behind(q[x].id, now) \in Nat /\ Behind(q[y].id, now) \in Nat
  <2>1. q[x].id \in Ids /\ q[y].id \in Ids
    BY <1>1, ElementOfSeq
  <2> QED BY <2>1, BehindType
<1>3. x < y \/ y < x
  BY <1>1
<1>4. \/ Behind(q[y].id, now) < Behind(q[x].id, now)
      \/ Behind(q[x].id, now) < Behind(q[y].id, now)
  BY <1>1, <1>3 DEF InOrder
<1> QED BY <1>2, <1>4

LEMMA KeptIsFound == TypeOK /\ NoConcurrentAdds /\ HandlersKept => QueuedHaveHandlers
<1> SUFFICES ASSUME TypeOK, NoConcurrentAdds, HandlersKept, NEW i \in DOMAIN outQ,
                    \A t \in Threads : adder[t].pc # "idle" => adder[t].msg.id # outQ[i].id
             PROVE  HandlerOf(outQ[i].id) = cmdFuncMap[outQ[i].type]
  BY DEF QueuedHaveHandlers
<1>0. PICK q \in Seq(Message) : History(q)
  BY DEF HandlersKept
<1> DEFINE a == Unqueued(adder)  b == Unlisted(adder)  c == Unfinished(adder)
           x == Len(q) - a - Len(outQ) + i
           next == Upcoming(adder, handlerIndex)
<1>1. a \in {0, 1} /\ b \in {0, 1} /\ c \in {0, 1} /\ a <= b /\ b <= c
  <2>1. a = 1 => b = 1
    BY DEF Unqueued, Unlisted
  <2>2. b = 1 => c = 1
    BY DEF Unlisted, Unfinished, Inside
  <2>3. a \in {0, 1} /\ b \in {0, 1} /\ c \in {0, 1}
    BY DEF Unqueued, Unlisted, Unfinished
  <2> QED BY <2>1, <2>2, <2>3
<1>2. c = 1 => q # <<>> /\ q[Len(q)].id # outQ[i].id
  <2>1. ASSUME c = 1 PROVE \E t \in Threads : adder[t].pc \in Inside
    BY <2>1 DEF Unfinished
  <2>2. ASSUME NEW t \in Threads, adder[t].pc \in Inside
        PROVE  q # <<>> /\ q[Len(q)].id # outQ[i].id
    BY <1>0, <2>2 DEF History, Inside
  <2> QED BY <2>1, <2>2
<1>3. /\ EndsWith(q, outQ, a) /\ InTable(q, Len(q) - b, Len(q) - c, pendingCmds, next)
      /\ InOrder(IdsOf(q), idCounter, rejected, Begun)
  BY <1>0 DEF History
<1>4. next \in Slots
  BY TableFacts, FollowingSlot DEF Upcoming
<1> HIDE DEF a, b, c, next
<1>5. Len(outQ) \in Nat /\ Len(q) \in Nat /\ i \in 1 .. Len(outQ)
  BY TableFacts, LenProperties
<1>6. outQ[i] = q[x] /\ Len(outQ) + a <= Len(q) /\ x \in 1 .. Len(q)
  <2>1. outQ[i] = q[x] /\ Len(outQ) + a <= Len(q)
    BY <1>3, <1>5 DEF EndsWith
  <2> QED BY <1>1, <1>5, <2>1
<1> HIDE DEF x
<1>7. x \in 1 .. Len(q) - c
  <2>1. c = 1 => x # Len(q)
    BY <1>2, <1>6
  <2> QED BY <1>1, <1>5, <1>6, <2>1
<1>8. \A y, z \in 1 .. Len(q) : y # z => q[y].id # q[z].id
  BY <1>3, CounterType, OrderedDiffer
<1>9. Len(q) - b <= Len(q)
  BY <1>1, <1>5
<1>10. HandlerOf(q[x].id) = cmdFuncMap[q[x].type]
  BY <1>3, <1>4, <1>7, <1>8, <1>9, ListedIsFound
<1> QED BY <1>6, <1>10

(* A round of ids longer than the table is longer than the ring. *)
LEMMA RoundsAreLong ==
    ASSUME Capacity <= CmdSlots, CmdSlots * (MaxRejected + 1) < IdMod
    PROVE  CmdSlots * Spread < IdMod /\ Capacity * Spread < IdMod
<1>1. CmdSlots * Spread < IdMod
  BY DEF Spread
<1>2. Capacity \in Nat /\ CmdSlots \in Nat
  BY DEF Capacity
<1>3. Capacity * Spread <= CmdSlots * Spread /\ Capacity * Spread \in Nat
      /\ CmdSlots * Spread \in Nat
  BY <1>2, Multiple, MultiplesGrow
<1> QED BY <1>1, <1>3

--------------------------------------------------------------------------------
(* The line never runs ahead of the history *)

(* m is the k-th message of h, or an answer to it.  An EMERGENCY_STOP       *)
(* answers nothing.                                                         *)
Concerns(h, m, k) == m.type # "EMERGENCY_STOP" => k \in 1 .. Len(h) /\ m.id = h[k].id

(* s concerns messages of h one after the other, none before lo or behind hi. *)
InTurn(h, s, lo, hi) ==
    /\ lo <= hi
    /\ \E at \in [1 .. Len(s) -> Nat] :
        /\ \A i \in 1 .. Len(s) : lo <= at[i] /\ at[i] <= hi /\ Concerns(h, s[i], at[i])
        /\ \A i, j \in 1 .. Len(s) : i <= j => at[i] <= at[j]

LEMMA InTurnEmpty ==
    ASSUME NEW h, NEW lo \in Nat, NEW hi \in Nat, lo <= hi
    PROVE  InTurn(h, <<>>, lo, hi)
<1> DEFINE at == [i \in 1 .. 0 |-> 0]
<1>1. at \in [1 .. 0 -> Nat] /\ Len(<<>>) = 0 /\ 1 .. 0 = {}
  OBVIOUS
<1> HIDE DEF at
<1> QED BY <1>1 DEF InTurn

LEMMA InTurnWider ==
    ASSUME NEW h, NEW s, NEW lo \in Nat, NEW hi \in Nat, InTurn(h, s, lo, hi),
           NEW lo2 \in Nat, NEW hi2 \in Nat, lo2 <= lo, hi <= hi2
    PROVE  InTurn(h, s, lo2, hi2)
<1>1. PICK at \in [1 .. Len(s) -> Nat] :
        /\ \A i \in 1 .. Len(s) : lo <= at[i] /\ at[i] <= hi /\ Concerns(h, s[i], at[i])
        /\ \A i, j \in 1 .. Len(s) : i <= j => at[i] <= at[j]
  BY DEF InTurn
<1>2. \A i \in 1 .. Len(s) : lo2 <= at[i] /\ at[i] <= hi2
  BY <1>1
<1>3. lo2 <= hi2
  BY DEF InTurn
<1> QED BY <1>1, <1>2, <1>3 DEF InTurn

(* What is taken from the front concerns the earliest of them. *)
LEMMA InTurnHead ==
    ASSUME NEW h, NEW S, NEW s \in Seq(S), s # <<>>, NEW lo \in Nat, NEW hi \in Nat,
           InTurn(h, s, lo, hi)
    PROVE  \E k \in Nat :
              /\ lo <= k /\ k <= hi /\ Concerns(h, Head(s), k)
              /\ InTurn(h, Tail(s), k, hi) /\ InTurn(h, s, k, hi)
<1>1. PICK at \in [1 .. Len(s) -> Nat] :
        /\ \A i \in 1 .. Len(s) : lo <= at[i] /\ at[i] <= hi /\ Concerns(h, s[i], at[i])
        /\ \A i, j \in 1 .. Len(s) : i <= j => at[i] <= at[j]
  BY DEF InTurn
<1> DEFINE n == Len(s)  r == Tail(s)  rt == [i \in 1 .. n - 1 |-> at[i + 1]]
<1>2. /\ n \in Nat \ {0} /\ Head(s) = s[1] /\ Len(r) = n - 1
      /\ \A i \in 1 .. n - 1 : r[i] = s[i + 1]
  BY EmptySeq, LenProperties, HeadTailProperties
<1>3. 1 \in 1 .. n /\ at[1] \in Nat
  BY <1>1, <1>2
<1>4. rt \in [1 .. n - 1 -> Nat]
  <2>1. \A i \in 1 .. n - 1 : i + 1 \in 1 .. n
    BY <1>2
  <2> QED BY <1>1, <2>1
<1> HIDE DEF n, r
<1>5. \A i \in 1 .. n - 1 : rt[i] = at[i + 1] /\ i + 1 \in 1 .. n /\ 1 <= i + 1
  BY <1>2
<1> HIDE DEF rt
<1>6. lo <= at[1] /\ at[1] <= hi /\ Concerns(h, Head(s), at[1])
  BY <1>1, <1>2, <1>3 DEF n
<1>7. \A i \in 1 .. n - 1 : at[1] <= rt[i] /\ rt[i] <= hi /\ Concerns(h, r[i], rt[i])
  BY <1>1, <1>2, <1>3, <1>5 DEF n
<1>8. \A i, j \in 1 .. n - 1 : i <= j => rt[i] <= rt[j]
  <2>1. \A i, j \in 1 .. n - 1 : i <= j => i + 1 <= j + 1
    BY <1>2
  <2> QED BY <1>1, <1>5, <2>1 DEF n
<1>9. InTurn(h, r, at[1], hi)
  BY <1>2, <1>4, <1>6, <1>7, <1>8 DEF InTurn
<1>10. InTurn(h, s, at[1], hi)
  <2>1. \A i \in 1 .. n : at[1] <= at[i]
    BY <1>1, <1>2, <1>3 DEF n
  <2> QED BY <1>1, <1>6, <2>1 DEF InTurn, n
<1> QED BY <1>3, <1>6, <1>9, <1>10 DEF r

(* What joins at the end concerns nothing earlier. *)
LEMMA InTurnLast ==
    ASSUME NEW h, NEW S, NEW s \in Seq(S), NEW e \in S, NEW lo \in Nat, NEW hi \in Nat,
           InTurn(h, s, lo, hi), NEW k \in Nat, hi <= k, Concerns(h, e, k)
    PROVE  InTurn(h, Append(s, e), lo, k)
<1>1. PICK at \in [1 .. Len(s) -> Nat] :
        /\ \A i \in 1 .. Len(s) : lo <= at[i] /\ at[i] <= hi /\ Concerns(h, s[i], at[i])
        /\ \A i, j \in 1 .. Len(s) : i <= j => at[i] <= at[j]
  BY DEF InTurn
<1> DEFINE n == Len(s)  r == Append(s, e)
           rt == [i \in 1 .. n + 1 |-> IF i = n + 1 THEN k ELSE at[i]]
<1>2. /\ n \in Nat /\ Len(r) = n + 1 /\ r[n + 1] = e /\ \A i \in 1 .. n : r[i] = s[i]
  BY LenProperties, AppendProperties
<1>3. /\ rt \in [1 .. n + 1 -> Nat] /\ rt[n + 1] = k
      /\ \A i \in 1 .. n : rt[i] = at[i]
      /\ \A i \in 1 .. n + 1 : i = n + 1 \/ i \in 1 .. n
  <2>1. \A i \in 1 .. n + 1 : i = n + 1 \/ i \in 1 .. n
    BY <1>2
  <2>2. n + 1 \in 1 .. n + 1 /\ n + 1 \notin 1 .. n /\ 1 .. n \subseteq 1 .. n + 1
    BY <1>2
  <2> QED BY <1>1, <2>1, <2>2
<1> HIDE DEF n, r, rt
<1>4. lo <= hi
  BY DEF InTurn
<1>5. \A i \in 1 .. n + 1 : lo <= rt[i] /\ rt[i] <= k /\ Concerns(h, r[i], rt[i])
  <2>1. \A i \in 1 .. n : lo <= at[i] /\ at[i] <= hi /\ at[i] \in Nat /\ Concerns(h, s[i], at[i])
    BY <1>1 DEF n
  <2> QED BY <1>2, <1>3, <1>4, <2>1
<1>6. \A i, j \in 1 .. n + 1 : i <= j => rt[i] <= rt[j]
  <2> SUFFICES ASSUME NEW i \in 1 .. n + 1, NEW j \in 1 .. n + 1, i <= j
               PROVE  rt[i] <= rt[j]
    OBVIOUS
  <2>1. CASE j = n + 1
    BY <1>3, <1>5, <2>1
  <2>2. CASE j # n + 1
    <3>1. i \in 1 .. n /\ j \in 1 .. n
      BY <1>2, <2>2
    <3> QED BY <1>1, <1>3, <3>1 DEF n
  <2> QED BY <2>1, <2>2
<1>7. InTurn(h, r, lo, k)
  <2>1. lo <= k
    BY <1>4
  <2>2. /\ rt \in [1 .. Len(r) -> Nat]
        /\ \A i \in 1 .. Len(r) : lo <= rt[i] /\ rt[i] <= k /\ Concerns(h, r[i], rt[i])
        /\ \A i, j \in 1 .. Len(r) : i <= j => rt[i] <= rt[j]
    BY <1>2, <1>3, <1>5, <1>6
  <2> QED BY <2>1, <2>2 DEF InTurn
<1> QED BY <1>7 DEF r

(* A message that is accepted leaves what came before where it was. *)
LEMMA InTurnLonger ==
    ASSUME NEW h \in Seq(Message), NEW new \in Message, NEW s, NEW lo, NEW hi,
           InTurn(h, s, lo, hi)
    PROVE  InTurn(Append(h, new), s, lo, hi)
<1> DEFINE g == Append(h, new)
<1>1. /\ Len(h) \in Nat /\ Len(g) = Len(h) + 1 /\ \A i \in 1 .. Len(h) : g[i] = h[i]
  BY LenProperties, AppendProperties
<1> HIDE DEF g
<1>2. \A m, k : Concerns(h, m, k) => Concerns(g, m, k)
  <2>1. 1 .. Len(h) \subseteq 1 .. Len(g)
    BY <1>1
  <2> QED BY <1>1, <2>1 DEF Concerns
<1>3. InTurn(g, s, lo, hi)
  BY <1>2 DEF InTurn
<1> QED BY <1>3 DEF g

(* Where the queues and the line stand in the history h: done of its        *)
(* messages are finished, sent have left outQ, and what comes back concerns *)
(* none behind limit.                                                       *)
Dates(h, in, from, to, done, sent, limit) ==
    \E x, y \in Nat :
        /\ InTurn(h, in, done, x) /\ InTurn(h, from, x, y) /\ InTurn(h, to, y, sent)
        /\ y <= limit

LEMMA DatesRead ==
    ASSUME NEW h, NEW in \in Seq(Response), NEW from \in Seq(Response), NEW to,
           NEW done \in Nat, NEW sent \in Nat, NEW limit \in Nat,
           Dates(h, in, from, to, done, sent, limit), from # <<>>
    PROVE  Dates(h, Append(in, Head(from)), Tail(from), to, done, sent, limit)
<1>1. PICK x \in Nat, y \in Nat :
        /\ InTurn(h, in, done, x) /\ InTurn(h, from, x, y) /\ InTurn(h, to, y, sent)
        /\ y <= limit
  BY DEF Dates
<1>2. PICK k \in Nat :
        /\ x <= k /\ k <= y /\ Concerns(h, Head(from), k) /\ InTurn(h, Tail(from), k, y)
  BY <1>1, InTurnHead
<1>3. Head(from) \in Response
  BY HeadTailProperties
<1>4. InTurn(h, Append(in, Head(from)), done, k)
  BY <1>1, <1>2, <1>3, InTurnLast
<1> QED BY <1>1, <1>2, <1>4 DEF Dates

(* Two responses decoded as one concern a message that one of them does. *)
LEMMA DatesMerged ==
    ASSUME NEW h, NEW in \in Seq(Response), NEW from \in Seq(Response), NEW to,
           NEW done \in Nat, NEW sent \in Nat, NEW limit \in Nat,
           Dates(h, in, from, to, done, sent, limit), Len(from) > 1,
           \A i \in 1 .. Len(from) : from[i].type = "EMERGENCY_STOP" => from[i].id = 0
    PROVE  Dates(h, Append(in, Merge(from[1], from[2])), Tail(Tail(from)), to,
                 done, sent, limit)
<1> DEFINE r == from[1]  s == from[2]  m == Merge(r, s)
<1>1. PICK x \in Nat, y \in Nat :
        /\ InTurn(h, in, done, x) /\ InTurn(h, from, x, y) /\ InTurn(h, to, y, sent)
        /\ y <= limit
  BY DEF Dates
<1>2. /\ from # <<>> /\ Tail(from) \in Seq(Response) /\ Tail(from) # <<>>
      /\ Head(from) = r /\ Head(Tail(from)) = s
      /\ r \in Response /\ s \in Response
      /\ r.type = "EMERGENCY_STOP" => r.id = 0
  <2>1. Len(from) \in Nat /\ 1 \in 1 .. Len(from) /\ 2 \in 1 .. Len(from)
    BY LenProperties
  <2>2. from # <<>>
    BY <2>1, EmptySeq
  <2>3. /\ Tail(from) \in Seq(Response) /\ Len(Tail(from)) = Len(from) - 1
        /\ Head(from) = r /\ Tail(from)[1] = from[2]
    BY <2>1, <2>2, HeadTailProperties
  <2>4. Tail(from) # <<>>
    <3> DEFINE t == Tail(from)
    <3>1. t \in Seq(Response) /\ Len(t) # 0
      BY <2>1, <2>3
    <3> HIDE DEF t
    <3>2. t # <<>>
      BY <3>1
    <3> QED BY <3>2 DEF t
  <2> QED BY <2>1, <2>2, <2>3, <2>4, HeadTailProperties, ElementOfSeq
<1> HIDE DEF r, s
<1>3. PICK k \in Nat :
        /\ x <= k /\ k <= y /\ Concerns(h, r, k) /\ InTurn(h, Tail(from), k, y)
  BY <1>1, <1>2, InTurnHead
<1>4. PICK l \in Nat :
        /\ k <= l /\ l <= y /\ Concerns(h, s, l) /\ InTurn(h, Tail(Tail(from)), l, y)
  BY <1>2, <1>3, InTurnHead
<1>5. /\ m \in Response
      /\ m.type = IF s.type = "RSP_UNDEFINED" THEN r.type ELSE s.type
      /\ m.id = IF s.id = 0 THEN r.id ELSE s.id
  BY <1>2 DEF Merge, Response
<1>6. Concerns(h, m, k) \/ Concerns(h, m, l)
  <2>1. CASE s.type # "EMERGENCY_STOP" /\ m.id = s.id
    BY <1>4, <2>1 DEF Concerns
  <2>2. CASE r.type # "EMERGENCY_STOP" /\ m.id = r.id
    BY <1>3, <2>2 DEF Concerns
  <2>3. CASE m.type = "EMERGENCY_STOP"
    BY <2>3 DEF Concerns
  <2> QED BY <1>2, <1>5, <2>1, <2>2, <2>3
<1> HIDE DEF m
<1>7. CASE Concerns(h, m, l)
  <2>1. InTurn(h, Append(in, m), done, l)
    BY <1>1, <1>3, <1>4, <1>5, <1>7, InTurnLast
  <2> QED BY <1>1, <1>4, <2>1 DEF Dates, m, r, s
<1>8. CASE Concerns(h, m, k)
  <2>1. InTurn(h, Append(in, m), done, k)
    BY <1>1, <1>3, <1>5, <1>8, InTurnLast
  <2>2. InTurn(h, Tail(Tail(from)), k, y)
    BY <1>4, InTurnWider
  <2> QED BY <1>1, <2>1, <2>2 DEF Dates, m, r, s
<1> QED BY <1>6, <1>7, <1>8

LEMMA DatesLost ==
    ASSUME NEW h, NEW in, NEW from, NEW to,
           NEW done \in Nat, NEW sent \in Nat, NEW limit \in Nat,
           Dates(h, in, from, to, done, sent, limit)
    PROVE  Dates(h, in, <<>>, to, done, sent, limit)
<1>1. PICK x \in Nat, y \in Nat :
        /\ InTurn(h, in, done, x) /\ InTurn(h, from, x, y) /\ InTurn(h, to, y, sent)
        /\ y <= limit
  BY DEF Dates
<1>2. x <= y
  BY <1>1 DEF InTurn
<1> QED BY <1>1, <1>2, InTurnEmpty DEF Dates

(* An answer, after which the message may be answered once more. *)
LEMMA DatesAnswered ==
    ASSUME NEW h, NEW in, NEW from \in Seq(Response), NEW to \in Seq(Message),
           NEW done \in Nat, NEW sent \in Nat, NEW limit \in Nat,
           Dates(h, in, from, to, done, sent, limit), to # <<>>,
           NEW resp \in Response, resp.id = Head(to).id,
           \A k \in Nat : k <= sent /\ Concerns(h, Head(to), k) => k <= limit
    PROVE  /\ Dates(h, in, Append(from, resp), Tail(to), done, sent, limit)
           /\ Dates(h, in, Append(from, resp), to, done, sent, limit)
<1>1. PICK x \in Nat, y \in Nat :
        /\ InTurn(h, in, done, x) /\ InTurn(h, from, x, y) /\ InTurn(h, to, y, sent)
        /\ y <= limit
  BY DEF Dates
<1>2. PICK k \in Nat :
        /\ y <= k /\ k <= sent /\ Concerns(h, Head(to), k)
        /\ InTurn(h, Tail(to), k, sent) /\ InTurn(h, to, k, sent)
  BY <1>1, InTurnHead
<1>3. Concerns(h, resp, k)
  <2>1. Head(to) \in Message
    BY HeadTailProperties
  <2>2. Head(to).type # "EMERGENCY_STOP"
    BY <2>1 DEF Message, cmdFuncMap
  <2> QED BY <1>2, <2>2 DEF Concerns
<1>4. InTurn(h, Append(from, resp), x, k)
  BY <1>1, <1>2, <1>3, InTurnLast
<1> QED BY <1>1, <1>2, <1>4 DEF Dates

LEMMA DatesDropped ==
    ASSUME NEW h, NEW in, NEW from, NEW to \in Seq(Message),
           NEW done \in Nat, NEW sent \in Nat, NEW limit \in Nat,
           Dates(h, in, from, to, done, sent, limit), to # <<>>
    PROVE  Dates(h, in, from, Tail(to), done, sent, limit)
<1>1. PICK x \in Nat, y \in Nat :
        /\ InTurn(h, in, done, x) /\ InTurn(h, from, x, y) /\ InTurn(h, to, y, sent)
        /\ y <= limit
  BY DEF Dates
<1>2. PICK k \in Nat : y <= k /\ k <= sent /\ InTurn(h, Tail(to), k, sent)
  BY <1>1, InTurnHead
<1>3. InTurn(h, Tail(to), y, sent)
  BY <1>2, InTurnWider
<1> QED BY <1>1, <1>3 DEF Dates

LEMMA DatesStopped ==
    ASSUME NEW h, NEW in, NEW from \in Seq(Response), NEW to,
           NEW done \in Nat, NEW sent \in Nat, NEW limit \in Nat,
           Dates(h, in, from, to, done, sent, limit),
           NEW resp \in Response, resp.type = "EMERGENCY_STOP"
    PROVE  Dates(h, in, Append(from, resp), to, done, sent, limit)
<1>1. PICK x \in Nat, y \in Nat :
        /\ InTurn(h, in, done, x) /\ InTurn(h, from, x, y) /\ InTurn(h, to, y, sent)
        /\ y <= limit
  BY DEF Dates
<1>2. Concerns(h, resp, y)
  BY DEF Concerns
<1>3. InTurn(h, Append(from, resp), x, y)
  BY <1>1, <1>2, InTurnLast
<1> QED BY <1>1, <1>3 DEF Dates

(* The next message leaves outQ, whether the write works or not. *)
LEMMA DatesSent ==
    ASSUME NEW h, NEW in, NEW from, NEW to \in Seq(Message),
           NEW done \in Nat, NEW sent \in Nat, NEW limit \in Nat,
           Dates(h, in, from, to, done, sent, limit),
           NEW msg \in Message, Concerns(h, msg, sent + 1)
    PROVE  /\ Dates(h, in, from, Append(to, msg), done, sent + 1, limit)
           /\ Dates(h, in, from, to, done, sent + 1, limit)
<1>1. PICK x \in Nat, y \in Nat :
        /\ InTurn(h, in, done, x) /\ InTurn(h, from, x, y) /\ InTurn(h, to, y, sent)
        /\ y <= limit
  BY DEF Dates
<1>2. InTurn(h, to, y, sent + 1)
  BY <1>1, InTurnWider
<1>3. InTurn(h, Append(to, msg), y, sent + 1)
  BY <1>1, InTurnLast
<1> QED BY <1>1, <1>2, <1>3 DEF Dates

(* The response that is handled *)
LEMMA DatesHandled ==
    ASSUME NEW h, NEW in \in Seq(Response), NEW from, NEW to,
           NEW done \in Nat, NEW sent \in Nat, NEW limit \in Nat,
           Dates(h, in, from, to, done, sent, limit), in # <<>>
    PROVE  \E k \in Nat :
              /\ done <= k /\ k <= sent /\ k <= limit /\ Concerns(h, Head(in), k)
              /\ Dates(h, Tail(in), from, to, k, sent, limit)
              /\ Dates(h, Tail(in), from, to, done, sent, limit)
<1>1. PICK x \in Nat, y \in Nat :
        /\ InTurn(h, in, done, x) /\ InTurn(h, from, x, y) /\ InTurn(h, to, y, sent)
        /\ y <= limit
  BY DEF Dates
<1>2. PICK k \in Nat :
        /\ done <= k /\ k <= x /\ Concerns(h, Head(in), k) /\ InTurn(h, Tail(in), k, x)
  BY <1>1, InTurnHead
<1>3. x <= y /\ y <= sent
  BY <1>1 DEF InTurn
<1>4. InTurn(h, Tail(in), done, x)
  BY <1>2, InTurnWider
<1>5. k <= sent /\ k <= limit
  BY <1>1, <1>2, <1>3
<1> QED BY <1>1, <1>2, <1>4, <1>5 DEF Dates

LEMMA DatesLonger ==
    ASSUME NEW h \in Seq(Message), NEW new \in Message, NEW in, NEW from, NEW to,
           NEW done \in Nat, NEW sent \in Nat, NEW limit \in Nat, NEW later \in Nat,
           limit <= later, Dates(h, in, from, to, done, sent, limit)
    PROVE  Dates(Append(h, new), in, from, to, done, sent, later)
<1>1. PICK x \in Nat, y \in Nat :
        /\ InTurn(h, in, done, x) /\ InTurn(h, from, x, y) /\ InTurn(h, to, y, sent)
        /\ y <= limit
  BY DEF Dates
<1>2. y <= later
  BY <1>1
<1> QED BY <1>1, <1>2, InTurnLonger DEF Dates

(* They never run ahead of each other. *)
LEMMA DatesBounds ==
    ASSUME NEW h, NEW in, NEW from, NEW to,
           NEW done \in Nat, NEW sent \in Nat, NEW limit \in Nat,
           Dates(h, in, from, to, done, sent, limit)
    PROVE  done <= sent
  BY DEF Dates, InTurn

LEMMA DatesLater ==
    ASSUME NEW h, NEW in, NEW from, NEW to, NEW done, NEW sent,
           NEW limit \in Nat, NEW later \in Nat, limit <= later,
           Dates(h, in, from, to, done, sent, limit)
    PROVE  Dates(h, in, from, to, done, sent, later)
<1>1. \A y \in Nat : y <= limit => y <= later
  OBVIOUS
<1> QED BY <1>1 DEF Dates

(* A response that was read and thrown away *)
LEMMA DatesUnread ==
    ASSUME NEW h, NEW in, NEW from \in Seq(Response), NEW to,
           NEW done \in Nat, NEW sent \in Nat, NEW limit \in Nat,
           Dates(h, in, from, to, done, sent, limit), from # <<>>
    PROVE  Dates(h, in, Tail(from), to, done, sent, limit)
<1>1. PICK x \in Nat, y \in Nat :
        /\ InTurn(h, in, done, x) /\ InTurn(h, from, x, y) /\ InTurn(h, to, y, sent)
        /\ y <= limit
  BY DEF Dates
<1>2. PICK k \in Nat : x <= k /\ k <= y /\ InTurn(h, Tail(from), k, y)
  BY <1>1, InTurnHead
<1>3. InTurn(h, Tail(from), x, y)
  BY <1>2, InTurnWider
<1> QED BY <1>1, <1>3 DEF Dates

--------------------------------------------------------------------------------
(* h is everything that was accepted, and q what History needs of it.       *)
Finished(h) == Len(h) - Len(pendingDones)
Sent(h) == Len(h) - Len(outQ) - Unqueued(adder)
Limit(h) == IF EarlyReply THEN Len(h) ELSE Len(h) - Unfinished(adder)
Chronicle(h, q) ==
    /\ History(q)
    /\ EndsWith(h, q, 0)
    /\ Len(q) = Len(h) \/ CmdSlots <= Len(q)
    /\ Dates(h, inQ, fromMc, toMc, Finished(h), Sent(h), Limit(h))

StopsAreNameless ==
    \A i \in 1 .. Len(fromMc) : fromMc[i].type = "EMERGENCY_STOP" => fromMc[i].id = 0
SomeonePending == fsmState = "DONE_PENDING" => pendingDones # <<>>

Followed ==
    /\ \E h, q \in Seq(Message) : Chronicle(h, q)
    /\ StopsAreNameless
    /\ SomeonePending

LEMMA AddersInside ==
    /\ Unqueued(adder) \in {0, 1} /\ Unfinished(adder) \in {0, 1}
    /\ Unqueued(adder) <= Unfinished(adder)
    /\ \A t \in Threads : adder[t].pc \in Inside => Unfinished(adder) = 1
    /\ Unfinished(adder) = 1 => \E t \in Threads : adder[t].pc \in Inside
    /\ \A t \in Threads : adder[t].pc = "push" => Unqueued(adder) = 1
<1>1. (\E t \in Threads : adder[t].pc = "push") => \E t \in Threads : adder[t].pc \in Inside
  BY DEF Inside
<1> QED BY <1>1 DEF Unqueued, Unfinished

LEMMA EndOf ==
    ASSUME NEW h \in Seq(Message), NEW q \in Seq(Message), EndsWith(h, q, 0)
    PROVE  /\ Len(h) \in Nat /\ Len(q) \in Nat /\ Len(q) <= Len(h)
           /\ \A i \in 1 .. Len(q) : q[i] = h[Len(h) - Len(q) + i]
<1>1. Len(h) \in Nat /\ Len(q) \in Nat
  BY LenProperties
<1>2. Len(q) + 0 <= Len(h) /\ \A i \in 1 .. Len(q) : q[i] = h[Len(h) - 0 - Len(q) + i]
  BY DEF EndsWith
<1>3. Len(h) - 0 = Len(h) /\ Len(q) + 0 = Len(q)
  BY <1>1
<1> QED BY <1>1, <1>2, <1>3

(* What the history says of the ring, the queue and the calls *)
LEMMA ChronicleFacts ==
    ASSUME Capacity < CmdSlots, TypeOK, NEW h \in Seq(Message), NEW q \in Seq(Message),
           Chronicle(h, q)
    PROVE  /\ Len(h) \in Nat /\ Finished(h) \in Nat /\ Sent(h) \in Nat /\ Limit(h) \in Nat
           /\ Len(outQ) \in Nat /\ Len(outQ) + Unqueued(adder) <= Len(pendingDones)
           /\ outQ # <<>> => Sent(h) + 1 \in 1 .. Len(h) /\ h[Sent(h) + 1] = Head(outQ)
           /\ pendingDones # <<>> =>
                Finished(h) + 1 \in 1 .. Len(h) /\ h[Finished(h) + 1].id = Head(pendingDones)
           /\ \A i, j \in 1 .. Len(h) :
                Finished(h) <= i /\ Finished(h) <= j /\ h[i].id = h[j].id => i = j
           /\ \A t \in Threads :
                adder[t].pc \in Inside => Len(h) # 0 /\ h[Len(h)] = adder[t].msg
<1> DEFINE n == Len(pendingDones)  a == Unqueued(adder)  f == Unfinished(adder)
<1>1. /\ History(q) /\ EndsWith(h, q, 0) /\ (Len(q) = Len(h) \/ CmdSlots <= Len(q))
      /\ Dates(h, inQ, fromMc, toMc, Finished(h), Sent(h), Limit(h))
  BY DEF Chronicle
<1>2. /\ InOrder(IdsOf(q), idCounter, rejected, Begun)
      /\ EndsWith(q, outQ, Unqueued(adder)) /\ EndsWith(IdsOf(q), pendingDones, 0)
      /\ \A t \in Threads :
            adder[t].pc \in Inside => q # <<>> /\ q[Len(q)] = adder[t].msg
  BY <1>1 DEF History
<1> HIDE DEF n, a, f
<1>3. /\ Len(h) \in Nat /\ Len(q) \in Nat /\ Len(q) <= Len(h)
      /\ \A i \in 1 .. Len(q) : q[i] = h[Len(h) - Len(q) + i]
  <2>1. EndsWith(h, q, 0)
    BY <1>1
  <2> QED BY <2>1, EndOf
<1>4. /\ pendingDones \in Seq(Ids) /\ n \in Nat /\ n <= Capacity /\ Capacity \in Nat
      /\ outQ \in Seq(Message) /\ Len(outQ) \in Nat
      /\ CmdSlots \in Nat
  <2>1. /\ pendingDones \in Seq(Ids) /\ Len(pendingDones) <= Capacity
        /\ outQ \in Seq(Message)
    BY TypeFacts
  <2>2. Capacity \in Nat /\ CmdSlots \in Nat
    BY DEF Capacity
  <2> QED BY <2>1, <2>2, LenProperties DEF n
<1>5. Len(IdsOf(q)) = Len(q) /\ \A i \in 1 .. Len(q) : IdsOf(q)[i] = q[i].id
  BY HaveIds, IdsOfType
<1>6. a \in {0, 1} /\ f \in {0, 1} /\ a <= f
  BY AddersInside DEF a, f
<1>7. /\ n <= Len(q) /\ \A i \in 1 .. n : pendingDones[i] = q[Len(q) - n + i].id
      /\ Len(outQ) + a <= Len(q)
      /\ \A i \in 1 .. Len(outQ) : outQ[i] = q[Len(q) - a - Len(outQ) + i]
  <2>1. n + 0 <= Len(q) /\ \A i \in 1 .. n : pendingDones[i] = IdsOf(q)[Len(q) - 0 - n + i]
    BY <1>2, <1>5 DEF EndsWith, n
  <2>2. n <= Len(q) /\ \A i \in 1 .. n : Len(q) - 0 - n + i = Len(q) - n + i
                                          /\ Len(q) - n + i \in 1 .. Len(q)
    BY <1>3, <1>4, <2>1
  <2> QED BY <1>2, <1>5, <2>1, <2>2 DEF EndsWith, a
<1>8. f = 1 => Len(q) # 0
  <2>1. f = 1 => q # <<>>
    BY <1>2, AddersInside DEF f
  <2> QED BY <2>1, EmptySeq
<1>9. Finished(h) = Len(h) - n /\ Sent(h) = Len(h) - Len(outQ) - a
      /\ Limit(h) = IF EarlyReply THEN Len(h) ELSE Len(h) - f
  BY DEF Finished, Sent, Limit, n, a, f
<1>10. Finished(h) \in Nat /\ Sent(h) \in Nat /\ Limit(h) \in Nat
  BY <1>3, <1>4, <1>6, <1>7, <1>8, <1>9
<1>11. Finished(h) <= Sent(h)
  BY <1>1, <1>10, DatesBounds
<1>12. Len(outQ) + a <= n
  BY <1>3, <1>4, <1>6, <1>9, <1>11
<1>13. ASSUME outQ # <<>>
       PROVE  Sent(h) + 1 \in 1 .. Len(h) /\ h[Sent(h) + 1] = Head(outQ)
  <2>1. Len(outQ) # 0 /\ Head(outQ) = outQ[1]
    BY <1>4, <1>13, EmptySeq
  <2>2. 1 \in 1 .. Len(outQ) /\ Len(q) - a - Len(outQ) + 1 \in 1 .. Len(q)
    BY <1>3, <1>4, <1>6, <1>7, <2>1
  <2>3. Len(h) - Len(q) + (Len(q) - a - Len(outQ) + 1) = Sent(h) + 1
        /\ Sent(h) + 1 \in 1 .. Len(h)
    BY <1>3, <1>4, <1>6, <1>7, <1>9, <2>1
  <2>4. outQ[1] = q[Len(q) - a - Len(outQ) + 1]
    BY <1>7, <2>2
  <2> QED BY <1>3, <2>1, <2>2, <2>3, <2>4
<1>14. ASSUME pendingDones # <<>>
       PROVE  Finished(h) + 1 \in 1 .. Len(h) /\ h[Finished(h) + 1].id = Head(pendingDones)
  <2>1. n # 0 /\ Head(pendingDones) = pendingDones[1]
    BY <1>4, <1>14, EmptySeq DEF n
  <2>2. 1 \in 1 .. n /\ Len(q) - n + 1 \in 1 .. Len(q)
    BY <1>3, <1>4, <1>7, <2>1
  <2>3. Len(h) - Len(q) + (Len(q) - n + 1) = Finished(h) + 1
        /\ Finished(h) + 1 \in 1 .. Len(h)
    BY <1>3, <1>4, <1>7, <1>9, <2>1
  <2>4. pendingDones[1] = q[Len(q) - n + 1].id
    BY <1>7, <2>2
  <2> QED BY <1>3, <2>1, <2>2, <2>3, <2>4
<1>15. ASSUME NEW i \in 1 .. Len(h), NEW j \in 1 .. Len(h),
              Finished(h) <= i, Finished(h) <= j, h[i].id = h[j].id
       PROVE  i = j
  <2> DEFINE d == Len(h) - Len(q)  x == i - d  y == j - d
  <2>1. d \in Nat /\ d + 1 <= i /\ d + 1 <= j
    BY <1>1, <1>3, <1>4, <1>9, <1>15, SMTT(30)
  <2>2. x \in 1 .. Len(q) /\ y \in 1 .. Len(q) /\ d + x = i /\ d + y = j
    BY <1>3, <2>1
  <2>3. q[x] = h[i] /\ q[y] = h[j]
    BY <1>3, <2>2
  <2> HIDE DEF x, y
  <2>4. x = y
    BY <1>2, <1>15, <2>2, <2>3, CounterType, OrderedDiffer
  <2> QED BY <2>2, <2>4
<1>16. ASSUME NEW t \in Threads, adder[t].pc \in Inside
       PROVE  Len(h) # 0 /\ h[Len(h)] = adder[t].msg
  <2>1. q # <<>> /\ q[Len(q)] = adder[t].msg
    BY <1>2, <1>16
  <2>2. Len(q) # 0
    BY <2>1, EmptySeq
  <2>3. Len(q) \in 1 .. Len(q) /\ Len(h) - Len(q) + Len(q) = Len(h) /\ Len(h) # 0
    BY <1>3, <2>2
  <2> QED BY <1>3, <2>1, <2>3
<1> QED BY <1>3, <1>4, <1>10, <1>12, <1>13, <1>14, <1>15, <1>16 DEF n, a

LEMMA InitFollowed == Init => Followed
<1> SUFFICES ASSUME Init PROVE Followed
  OBVIOUS
<1>1. /\ outQ = <<>> /\ inQ = <<>> /\ pendingDones = <<>> /\ toMc = <<>> /\ fromMc = <<>>
      /\ fsmState = "IDLE" /\ \A t \in Threads : adder[t].pc \in {"idle", "pending"}
      /\ <<>> \in Seq(Message) /\ Len(<<>>) = 0
  BY DEF Init, MHInit, AdderIdle
<1>2. PICK q \in Seq(Message) : History(q)
  BY InitHistory DEF HandlersKept
<1>3. Unqueued(adder) = 0 /\ Unfinished(adder) = 0
  BY <1>1, NobodyInside
<1>4. Len(q) \in Nat /\ Finished(q) = Len(q) /\ Sent(q) = Len(q) /\ Limit(q) = Len(q)
  BY <1>1, <1>3, LenProperties DEF Finished, Sent, Limit
<1>5. InTurn(q, <<>>, Len(q), Len(q))
  BY <1>4, InTurnEmpty
<1>6. Dates(q, inQ, fromMc, toMc, Finished(q), Sent(q), Limit(q))
  BY <1>1, <1>4, <1>5 DEF Dates
<1>7. EndsWith(q, q, 0)
  <2>1. Len(q) + 0 <= Len(q) /\ \A i \in 1 .. Len(q) : Len(q) - 0 - Len(q) + i = i
    BY <1>4
  <2> QED BY <2>1 DEF EndsWith
<1>8. Chronicle(q, q)
  BY <1>2, <1>6, <1>7 DEF Chronicle
<1>9. StopsAreNameless /\ SomeonePending
  BY <1>1 DEF StopsAreNameless, SomeonePending
<1> QED BY <1>8, <1>9 DEF Followed

(* Room in the ring is room in the queue. *)
LEMMA FollowedIsQueued ==
    ASSUME Capacity < CmdSlots, TypeOK, Followed
    PROVE  HandlersKept /\ \A t \in Threads : adder[t].pc = "push" => ~IsFull(outQ)
<1>1. PICK h \in Seq(Message), q \in Seq(Message) : Chronicle(h, q)
  BY DEF Followed
<1>2. HandlersKept
  BY <1>1 DEF Chronicle, HandlersKept
<1>3. /\ Len(outQ) \in Nat /\ Len(outQ) + Unqueued(adder) <= Len(pendingDones)
      /\ Len(pendingDones) <= Capacity /\ Capacity \in Nat /\ Len(pendingDones) \in Nat
  BY <1>1, ChronicleFacts, TypeFacts, LenProperties DEF Capacity
<1>4. ASSUME NEW t \in Threads, adder[t].pc = "push" PROVE ~IsFull(outQ)
  <2>1. Unqueued(adder) = 1
    BY <1>4, AddersInside
  <2> QED BY <1>3, <2>1 DEF IsFull
<1> QED BY <1>2, <1>4

--------------------------------------------------------------------------------
(* What leaves add_outgoing and the table alone *)
LEMMA OtherChronicle ==
    ASSUME TypeOK,
           UNCHANGED <<adder, idCounter, rejected, pendingCmds, handlerIndex>>,
           outQ' \in {outQ, DropOldest(outQ)},
           pendingDones' \in {pendingDones, DropOldest(pendingDones)},
           NEW h \in Seq(Message), NEW q \in Seq(Message), Chronicle(h, q),
           Dates(h, inQ', fromMc', toMc', Finished(h)', Sent(h)', Limit(h))
    PROVE  Chronicle(h, q)'
<1>1. History(q)'
  BY OtherHistory DEF Chronicle
<1>2. Limit(h)' = Limit(h)
  BY DEF Limit
<1> QED BY <1>1, <1>2 DEF Chronicle

LEMMA NumberChronicle ==
    ASSUME TypeOK, IdsInOrder, NEW t \in Threads, NEW cmd, AddNumber(t, cmd),
           \A u \in Threads : adder[u].pc = "idle", CmdSlots * Spread < IdMod,
           UNCHANGED lineVars,
           NEW h \in Seq(Message), NEW q \in Seq(Message), Chronicle(h, q)
    PROVE  Chronicle(h, q)'
<1>1. History(q)'
  BY NumberHistory DEF Chronicle
<1>2. /\ adder \in [Threads -> AdderState]
      /\ adder' = [adder EXCEPT ![t] =
                     [pc |-> "pending", msg |-> [id |-> NextId(idCounter), type |-> cmd]]]
      /\ UNCHANGED <<outQ, pendingDones, inQ, fromMc, toMc>>
  BY TypeFacts DEF AddNumber, lineVars
<1>3. \A u \in Threads : adder'[u].pc \in {"idle", "pending"}
  BY <1>2
<1>4. Unqueued(adder) = 0 /\ Unfinished(adder) = 0
  BY NobodyInside
<1>5. Unqueued(adder') = 0 /\ Unfinished(adder') = 0
  BY <1>3, NobodyInside
<1>6. Finished(h)' = Finished(h) /\ Sent(h)' = Sent(h) /\ Limit(h)' = Limit(h)
  BY <1>2, <1>4, <1>5 DEF Finished, Sent, Limit
<1> QED BY <1>1, <1>2, <1>6 DEF Chronicle

(* A message is accepted, or refused. *)
LEMMA PendingChronicle ==
    ASSUME Capacity < CmdSlots, TypeOK, NoConcurrentAdds, IdsInOrder, NEW t \in Threads,
           AddPending(t), UNCHANGED lineVars,
           NEW h \in Seq(Message), NEW q \in Seq(Message), Chronicle(h, q)
    PROVE  \E g, r \in Seq(Message) : Chronicle(g, r)'
<1>1. /\ adder[t].msg \in Message /\ pendingDones \in Seq(Ids) /\ adder[t].pc = "pending"
      /\ adder[t].msg.id \in Ids
      /\ UNCHANGED <<outQ, inQ, fromMc, toMc>>
  BY TypeFacts DEF AddPending, lineVars
<1>2. /\ \A u \in Threads : u # t => adder[u].pc = "idle" /\ adder'[u].pc = "idle"
      /\ Return(t) => adder'[t].pc = "idle"
      /\ Goto(t, "push") => adder'[t].pc = "push"
  BY CallGoes DEF AddStep
<1>3. Unqueued(adder) = 0 /\ Unfinished(adder) = 0
  BY <1>1, <1>2, OneInside DEF Inside
<1>4. PICK r \in Seq(Message) :
        /\ History(r)'
        /\ r = IF IsFull(pendingDones) THEN q ELSE Append(q, adder[t].msg)
  BY PendingHistory DEF Chronicle
<1>5. /\ Len(h) \in Nat /\ Finished(h) \in Nat /\ Sent(h) \in Nat /\ Limit(h) \in Nat
      /\ Len(outQ) \in Nat
  BY ChronicleFacts
<1>6. CASE IsFull(pendingDones)
  <2>1. pendingDones' = pendingDones /\ adder'[t].pc = "idle" /\ r = q
    BY <1>2, <1>4, <1>6 DEF AddPending
  <2>2. Unqueued(adder') = 0 /\ Unfinished(adder') = 0
    BY <1>2, <2>1, OneInside DEF Inside
  <2>3. Finished(h)' = Finished(h) /\ Sent(h)' = Sent(h) /\ Limit(h)' = Limit(h)
    BY <1>1, <1>3, <2>1, <2>2 DEF Finished, Sent, Limit
  <2>4. Chronicle(h, r)'
    BY <1>1, <1>4, <2>1, <2>3 DEF Chronicle
  <2> QED BY <2>4
<1>7. CASE ~IsFull(pendingDones)
  <2>0. PICK g \in Seq(Message) : g = Append(h, adder[t].msg)
    BY <1>1, AppendProperties
  <2>1. /\ pendingDones' = Append(pendingDones, adder[t].msg.id) /\ adder'[t].pc = "push"
        /\ r = Append(q, adder[t].msg)
    BY <1>2, <1>4, <1>7 DEF AddPending
  <2>2. Unqueued(adder') = 1 /\ Unfinished(adder') = 1
    BY <1>2, <2>1, OneInside DEF Inside
  <2>3. Len(g) = Len(h) + 1
    BY <1>1, <2>0, AppendProperties
  <2>4. EndsWith(g, r, 0)
    <3>1. EndsWith(g, q, 1)
      BY <1>1, <2>0, AcceptedIsLast DEF Chronicle
    <3>2. g[Len(g)] = adder[t].msg
      BY <1>1, <1>5, <2>0, AppendProperties
    <3> QED BY <1>1, <2>1, <2>3, <3>1, <3>2, LastIsQueued
  <2>5. Len(r) = Len(g) \/ CmdSlots <= Len(r)
    <3>1. Len(r) = Len(q) + 1 /\ Len(q) \in Nat
      BY <1>1, <2>1, AppendProperties, LenProperties
    <3>2. Len(q) = Len(h) \/ CmdSlots <= Len(q)
      BY DEF Chronicle
    <3> QED BY <1>5, <2>3, <3>1, <3>2
  <2>6. Finished(g)' = Finished(h) /\ Sent(g)' = Sent(h) /\ Limit(h) <= Limit(g)'
        /\ Limit(g)' \in Nat
    <3>1. Len(pendingDones') = Len(pendingDones) + 1 /\ Len(pendingDones) \in Nat
      BY <1>1, <2>1, AppendProperties, LenProperties
    <3>2. Finished(g)' = Len(g) - Len(pendingDones')
          /\ Sent(g)' = Len(g) - Len(outQ) - 1
          /\ Limit(g)' = IF EarlyReply THEN Len(g) ELSE Len(g) - 1
      BY <1>1, <2>2 DEF Finished, Sent, Limit
    <3>3. Finished(h) = Len(h) - Len(pendingDones)
          /\ Sent(h) = Len(h) - Len(outQ) - 0
          /\ Limit(h) = IF EarlyReply THEN Len(h) ELSE Len(h) - 0
      BY <1>3 DEF Finished, Sent, Limit
    <3> QED BY <1>5, <2>3, <3>1, <3>2, <3>3
  <2>7. Dates(g, inQ', fromMc', toMc', Finished(g)', Sent(g)', Limit(g)')
    <3>1. Dates(h, inQ, fromMc, toMc, Finished(h), Sent(h), Limit(h))
      BY DEF Chronicle
    <3>2. Dates(g, inQ, fromMc, toMc, Finished(h), Sent(h), Limit(g)')
      BY <1>1, <1>5, <2>0, <2>6, <3>1, DatesLonger
    <3> QED BY <1>1, <2>6, <3>2
  <2>8. Chronicle(g, r)'
    BY <1>4, <2>4, <2>5, <2>7 DEF Chronicle
  <2> QED BY <2>8
<1> QED BY <1>6, <1>7

LEMMA PushChronicle ==
    ASSUME Capacity < CmdSlots, TypeOK, NoConcurrentAdds, ~IsFull(outQ), NEW t \in Threads,
           AddPush(t), UNCHANGED lineVars,
           NEW h \in Seq(Message), NEW q \in Seq(Message), Chronicle(h, q)
    PROVE  Chronicle(h, q)'
<1>1. /\ History(q)' /\ adder[t].pc = "push" /\ adder[t].msg \in Message /\ outQ \in Seq(Message)
      /\ outQ' = Append(outQ, adder[t].msg) /\ Goto(t, "slot id")
      /\ UNCHANGED <<pendingDones, inQ, fromMc, toMc>>
  BY PushHistory, TypeFacts DEF Chronicle, AddPush, lineVars
<1>2. /\ \A u \in Threads : u # t => adder[u].pc = "idle" /\ adder'[u].pc = "idle"
      /\ adder'[t].pc = "slot id"
  BY <1>1, CallGoes DEF AddStep
<1>3. Unqueued(adder) = 1 /\ Unfinished(adder) = 1
  BY <1>1, <1>2, OneInside DEF Inside
<1>4. Unqueued(adder') = 0 /\ Unfinished(adder') = 1
  BY <1>2, OneInside DEF Inside
<1>5. Len(outQ') = Len(outQ) + 1 /\ Len(outQ) \in Nat /\ Len(h) \in Nat
  BY <1>1, AppendProperties, LenProperties
<1>6. Finished(h)' = Finished(h) /\ Limit(h)' = Limit(h)
  BY <1>1, <1>3, <1>4 DEF Finished, Limit
<1>7. Sent(h)' = Sent(h)
  <2>1. Sent(h)' = Len(h) - Len(outQ') - 0 /\ Sent(h) = Len(h) - Len(outQ) - 1
    BY <1>3, <1>4 DEF Sent
  <2> QED BY <1>5, <2>1
<1> QED BY <1>1, <1>6, <1>7 DEF Chronicle

LEMMA SlotIdChronicle ==
    ASSUME Capacity < CmdSlots, TypeOK, NoConcurrentAdds, NEW t \in Threads,
           AddSlotId(t), UNCHANGED lineVars,
           NEW h \in Seq(Message), NEW q \in Seq(Message), Chronicle(h, q)
    PROVE  \E r \in Seq(Message) :
               /\ Chronicle(h, r)'
               /\ r = q \/ (r = Tail(q) /\ Len(q) = CmdSlots + 1)
<1>1. Capacity <= CmdSlots
  BY DEF Capacity
<1>2. PICK r \in Seq(Message) :
        /\ History(r)'
        /\ r = q \/ (r = Tail(q) /\ Len(q) = CmdSlots + 1)
  BY <1>1, SlotIdHistory DEF Chronicle
<1>3. /\ adder[t].pc = "slot id" /\ adder[t].msg \in Message
      /\ UNCHANGED <<pendingDones, outQ, inQ, fromMc, toMc>>
  BY TypeFacts DEF AddSlotId, lineVars
<1>4. HandlerFunc(adder[t].msg.type) # "NULL"
  <2>1. adder[t].msg.type \in DOMAIN cmdFuncMap
    BY <1>3 DEF Message
  <2>2. \A cmd \in DOMAIN cmdFuncMap : cmdFuncMap[cmd] # "NULL"
    BY DEF cmdFuncMap
  <2> QED BY <2>1, <2>2 DEF HandlerFunc
<1>5. Goto(t, "slot func")
  BY <1>4 DEF AddSlotId
<1>6. /\ \A u \in Threads : u # t => adder[u].pc = "idle" /\ adder'[u].pc = "idle"
      /\ adder'[t].pc = "slot func"
  BY <1>5, CallGoes DEF AddStep
<1>7. Unqueued(adder) = 0 /\ Unfinished(adder) = 1
  BY <1>3, <1>6, OneInside DEF Inside
<1>8. Unqueued(adder') = 0 /\ Unfinished(adder') = 1
  BY <1>6, OneInside DEF Inside
<1>9. Finished(h)' = Finished(h) /\ Sent(h)' = Sent(h) /\ Limit(h)' = Limit(h)
  BY <1>3, <1>7, <1>8 DEF Finished, Sent, Limit
<1>10. EndsWith(h, r, 0) /\ (Len(r) = Len(h) \/ CmdSlots <= Len(r))
  <2>1. CASE r = q
    BY <2>1 DEF Chronicle
  <2>2. CASE r = Tail(q) /\ Len(q) = CmdSlots + 1
    <3>1. q # <<>>
      BY <2>2, EmptySeq
    <3>2. DropOldest(q) = r /\ Len(r) = CmdSlots
      BY <2>2, <3>1, HeadTailProperties DEF DropOldest
    <3>3. EndsWith(h, DropOldest(q), 0)
      BY OldestIsSent DEF Chronicle
    <3> QED BY <3>2, <3>3
  <2> QED BY <1>2, <2>1, <2>2
<1>11. Chronicle(h, r)'
  BY <1>2, <1>3, <1>9, <1>10 DEF Chronicle
<1> QED BY <1>2, <1>11

(* The call returns; its answer may come. *)
LEMMA SlotFuncChronicle ==
    ASSUME Capacity < CmdSlots, TypeOK, NoConcurrentAdds, NEW t \in Threads,
           AddSlotFunc(t), UNCHANGED lineVars,
           NEW h \in Seq(Message), NEW q \in Seq(Message), Chronicle(h, q)
    PROVE  Chronicle(h, q)'
<1>1. /\ History(q)' /\ adder[t].pc = "slot func" /\ Return(t)
      /\ UNCHANGED <<pendingDones, outQ, inQ, fromMc, toMc>>
  BY SlotFuncHistory DEF Chronicle, AddSlotFunc, lineVars
<1>2. /\ \A u \in Threads : u # t => adder[u].pc = "idle" /\ adder'[u].pc = "idle"
      /\ adder'[t].pc = "idle"
  BY <1>1, CallGoes DEF AddStep
<1>3. Unqueued(adder) = 0 /\ Unfinished(adder) = 1
  BY <1>1, <1>2, OneInside DEF Inside
<1>4. Unqueued(adder') = 0 /\ Unfinished(adder') = 0
  BY <1>2, OneInside DEF Inside
<1>5. Finished(h)' = Finished(h) /\ Sent(h)' = Sent(h)
  BY <1>1, <1>3, <1>4 DEF Finished, Sent
<1>6. Limit(h) \in Nat /\ Limit(h)' \in Nat /\ Limit(h) <= Limit(h)'
  <2>1. Limit(h) = IF EarlyReply THEN Len(h) ELSE Len(h) - 1
    BY <1>3 DEF Limit
  <2>2. Limit(h)' = IF EarlyReply THEN Len(h) ELSE Len(h) - 0
    BY <1>4 DEF Limit
  <2>3. Len(h) \in Nat /\ Limit(h) \in Nat
    BY ChronicleFacts
  <2> QED BY <2>1, <2>2, <2>3
<1>7. Dates(h, inQ, fromMc, toMc, Finished(h), Sent(h), Limit(h)')
  BY <1>6, DatesLater DEF Chronicle
<1> QED BY <1>1, <1>5, <1>7 DEF Chronicle

LEMMA AddFollowed ==
    ASSUME Capacity < CmdSlots, TypeOK, NoConcurrentAdds, IdsInOrder, Followed,
           NEW t \in Threads, Add(t)
    PROVE  Followed'
<1>1. PICK h \in Seq(Message), q \in Seq(Message) : Chronicle(h, q)
  BY DEF Followed
<1>2. AddStep(t) /\ UNCHANGED lineVars
  BY DEF Add
<1>3. \E g, r \in Seq(Message) : Chronicle(g, r)'
  <2>1. CASE AddPending(t)
    BY <1>1, <1>2, <2>1, PendingChronicle
  <2>2. CASE AddPush(t)
    <3>1. ~IsFull(outQ)
      BY <2>2, FollowedIsQueued DEF AddPush
    <3> QED BY <1>1, <1>2, <2>2, <3>1, PushChronicle
  <2>3. CASE AddSlotId(t)
    BY <1>1, <1>2, <2>3, SlotIdChronicle
  <2>4. CASE AddSlotFunc(t)
    BY <1>1, <1>2, <2>4, SlotFuncChronicle
  <2> QED BY <1>2, <2>1, <2>2, <2>3, <2>4 DEF AddStep
<1>4. StopsAreNameless'
  BY <1>2 DEF Followed, StopsAreNameless, lineVars
<1>5. SomeonePending'
  <2>1. fsmState' = fsmState
    BY <1>2, AddStepQueue
  <2>2. pendingDones # <<>> => pendingDones' # <<>>
    <3>1. pendingDones' = pendingDones \/ pendingDones' = Append(pendingDones, adder[t].msg.id)
      BY <1>2 DEF AddStep, AddPending, AddPush, AddSlotId, AddSlotFunc
    <3>2. pendingDones \in Seq(Ids) /\ adder[t].msg.id \in Ids
      BY TypeFacts
    <3> QED BY <3>1, <3>2, AppendProperties
  <2> QED BY <2>1, <2>2 DEF Followed, SomeonePending
<1> QED BY <1>3, <1>4, <1>5 DEF Followed

--------------------------------------------------------------------------------
(* Reads: a response goes from the line to inQ, or is thrown away with the  *)
(* connection.                                                              *)
LEMMA ReadFollowed ==
    ASSUME "split" \notin Faults, Capacity < CmdSlots, TypeOK, Followed, Poll
    PROVE  Followed'
<1>1. PICK h \in Seq(Message), q \in Seq(Message) : Chronicle(h, q)
  BY DEF Followed
<1>2. /\ Finished(h) \in Nat /\ Sent(h) \in Nat /\ Limit(h) \in Nat
      /\ Dates(h, inQ, fromMc, toMc, Finished(h), Sent(h), Limit(h))
      /\ inQ \in Seq(Response) /\ fromMc \in Seq(Response) /\ toMc \in Seq(Message)
  BY <1>1, ChronicleFacts, TypeFacts DEF Chronicle
<1>3. /\ \A resp, left : Received(resp, left) =>
            UNCHANGED <<pendingDones, outQ, fsmState, adder, toMc, idCounter, rejected,
                        pendingCmds, handlerIndex>>
      /\ UNCHANGED <<pendingDones, outQ, fsmState, adder, toMc, idCounter, rejected,
                     pendingCmds, handlerIndex>>
  <2>1. \A resp, left : Received(resp, left) =>
            UNCHANGED <<pendingDones, outQ, fsmState, adder, toMc, idCounter, rejected,
                        pendingCmds, handlerIndex>>
    BY DEF Received, AddIncoming, mhVars, adderVars, workerVars, handlerVars
  <2> QED BY <2>1 DEF Poll, PollSilent, ReadOne, ReadMerged, ReadPart, ReadFails, mhVars,
                      handlerVars, lineVars
<1>4. Finished(h)' = Finished(h) /\ Sent(h)' = Sent(h)
  BY <1>3 DEF Finished, Sent
<1>5. ASSUME Dates(h, inQ', fromMc', toMc, Finished(h), Sent(h), Limit(h))
      PROVE  \E g, r \in Seq(Message) : Chronicle(g, r)'
  <2>1. Chronicle(h, q)'
    BY <1>1, <1>3, <1>4, <1>5, OtherChronicle
  <2> QED BY <2>1
<1>6. SomeonePending'
  BY <1>3 DEF Followed, SomeonePending
<1>7. StopsAreNameless
  BY DEF Followed
<1>8. CASE PollSilent
  BY <1>2, <1>5, <1>6, <1>7, <1>8
     DEF PollSilent, lineVars, mhVars, Followed, StopsAreNameless
<1>9. CASE ReadOne
  <2>1. fromMc # <<>> /\ fromMc' = Tail(fromMc)
        /\ inQ' \in {inQ, Append(inQ, Head(fromMc))}
    BY <1>9 DEF ReadOne, Received, AddIncoming, mhVars
  <2>2. Dates(h, inQ', fromMc', toMc, Finished(h), Sent(h), Limit(h))
    <3>1. Dates(h, Append(inQ, Head(fromMc)), Tail(fromMc), toMc,
                Finished(h), Sent(h), Limit(h))
      BY <1>2, <2>1, DatesRead
    <3>2. Dates(h, inQ, Tail(fromMc), toMc, Finished(h), Sent(h), Limit(h))
      BY <1>2, <2>1, DatesUnread
    <3> QED BY <2>1, <3>1, <3>2
  <2>3. StopsAreNameless'
    <3>1. \A i \in 1 .. Len(Tail(fromMc)) :
              Tail(fromMc)[i] = fromMc[i + 1] /\ i + 1 \in 1 .. Len(fromMc)
      BY <1>2, <2>1, HeadTailProperties, LenProperties
    <3> QED BY <1>7, <2>1, <3>1 DEF StopsAreNameless
  <2> QED BY <1>5, <1>6, <2>2, <2>3 DEF Followed
<1>10. CASE ReadMerged
  <2>1. Len(fromMc) > 1 /\ fromMc' = Tail(Tail(fromMc))
        /\ inQ' \in {inQ, Append(inQ, Merge(fromMc[1], fromMc[2]))}
    BY <1>10 DEF ReadMerged, Received, AddIncoming, mhVars
  <2>0. PICK t : t = Tail(fromMc)
    OBVIOUS
  <2>2. /\ Len(fromMc) \in Nat /\ fromMc # <<>>
        /\ t \in Seq(Response) /\ Len(t) = Len(fromMc) - 1
        /\ \A i \in 1 .. Len(t) : t[i] = fromMc[i + 1]
    BY <1>2, <2>0, <2>1, EmptySeq, LenProperties, HeadTailProperties
  <2>3. Len(t) # 0
    <3>1. Len(fromMc) > 1 /\ Len(fromMc) \in Nat /\ Len(t) = Len(fromMc) - 1
      BY <2>1, <2>2
    <3>2. \A m, n \in Nat : m > 1 /\ n = m - 1 => n # 0
      OBVIOUS
    <3>3. Len(t) \in Nat
      BY <2>2, LenProperties
    <3> QED BY <3>1, <3>2, <3>3
  <2>4. t # <<>>
    BY <2>2, <2>3, EmptySeq
  <2>5. /\ Len(fromMc') = Len(t) - 1
        /\ \A i \in 1 .. Len(fromMc') : fromMc'[i] = t[i + 1]
    BY <2>0, <2>1, <2>2, <2>4, HeadTailProperties
  <2>6. Dates(h, inQ', fromMc', toMc, Finished(h), Sent(h), Limit(h))
    <3>1. Dates(h, inQ, fromMc', toMc, Finished(h), Sent(h), Limit(h))
      <4>1. Dates(h, inQ, t, toMc, Finished(h), Sent(h), Limit(h))
        BY <1>2, <2>0, <2>2, DatesUnread
      <4> QED BY <1>2, <2>0, <2>1, <2>2, <2>4, <4>1, DatesUnread
    <3>2. Dates(h, Append(inQ, Merge(fromMc[1], fromMc[2])), fromMc', toMc,
                Finished(h), Sent(h), Limit(h))
      BY <1>2, <1>7, <2>1, DatesMerged DEF StopsAreNameless
    <3> QED BY <2>1, <3>1, <3>2
  <2>7. StopsAreNameless'
    <3>1. \A i \in 1 .. Len(fromMc') :
              i + 1 \in 1 .. Len(t) /\ i + 1 + 1 \in 1 .. Len(fromMc)
      BY <2>2, <2>5
    <3>2. \A i \in 1 .. Len(fromMc') : fromMc'[i] = fromMc[i + 1 + 1]
      BY <2>2, <2>5, <3>1
    <3> QED BY <1>7, <3>1, <3>2 DEF StopsAreNameless
  <2> QED BY <1>5, <1>6, <2>6, <2>7 DEF Followed
<1>11. CASE ReadFails
  <2>1. inQ' = inQ /\ fromMc' = <<>>
    BY <1>11 DEF ReadFails, mhVars
  <2>2. Dates(h, inQ', fromMc', toMc, Finished(h), Sent(h), Limit(h))
    BY <1>2, <2>1, DatesLost
  <2>3. StopsAreNameless'
    BY <2>1 DEF StopsAreNameless
  <2> QED BY <1>5, <1>6, <2>2, <2>3 DEF Followed
<1> QED BY <1>8, <1>9, <1>10, <1>11 DEF Poll, ReadPart

(* The microcontroller and the line: an answer concerns no message whose    *)
(* call may not be answered yet.                                            *)
LEMMA AnswerInTime ==
    ASSUME Capacity < CmdSlots, TypeOK,
           NEW h \in Seq(Message), NEW q \in Seq(Message), Chronicle(h, q),
           toMc # <<>>, InTime(Head(toMc).id),
           NEW k \in Nat, Concerns(h, Head(toMc), k)
    PROVE  k <= Limit(h)
<1>1. /\ Len(h) \in Nat
      /\ \A t \in Threads :
            adder[t].pc \in Inside => Len(h) # 0 /\ h[Len(h)] = adder[t].msg
  BY ChronicleFacts
<1>2. k \in 1 .. Len(h) /\ Head(toMc).id = h[k].id
  <2>1. Head(toMc) \in Message
    BY TypeFacts, HeadTailProperties
  <2>2. Head(toMc).type # "EMERGENCY_STOP"
    BY <2>1 DEF Message, cmdFuncMap
  <2> QED BY <2>2 DEF Concerns
<1>3. CASE EarlyReply \/ Unfinished(adder) = 0
  BY <1>1, <1>2, <1>3 DEF Limit
<1>4. CASE ~EarlyReply /\ Unfinished(adder) = 1
  <2>1. PICK t \in Threads : adder[t].pc \in Inside
    BY <1>4, AddersInside
  <2>2. h[Len(h)] = adder[t].msg /\ adder[t].msg.id # Head(toMc).id
    BY <1>1, <1>4, <2>1 DEF InTime, Inside
  <2>3. k # Len(h)
    BY <1>2, <2>2
  <2>4. Limit(h) = Len(h) - 1
    BY <1>4 DEF Limit
  <2> QED BY <1>1, <1>2, <2>3, <2>4
<1> QED BY <1>3, <1>4, AddersInside

LEMMA PeerFollowed ==
    ASSUME Capacity < CmdSlots, TypeOK, Followed, Peer
    PROVE  Followed'
<1>1. PICK h \in Seq(Message), q \in Seq(Message) : Chronicle(h, q)
  BY DEF Followed
<1>2. /\ Finished(h) \in Nat /\ Sent(h) \in Nat /\ Limit(h) \in Nat
      /\ Dates(h, inQ, fromMc, toMc, Finished(h), Sent(h), Limit(h))
      /\ inQ \in Seq(Response) /\ fromMc \in Seq(Response) /\ toMc \in Seq(Message)
  BY <1>1, ChronicleFacts, TypeFacts DEF Chronicle
<1>3. UNCHANGED <<pendingDones, outQ, inQ, fsmState, adder, idCounter, rejected,
                  pendingCmds, handlerIndex>>
  BY DEF Peer, mhVars, handlerVars
<1>4. Finished(h)' = Finished(h) /\ Sent(h)' = Sent(h)
  BY <1>3 DEF Finished, Sent
<1>5. ASSUME Dates(h, inQ, fromMc', toMc', Finished(h), Sent(h), Limit(h)),
             StopsAreNameless'
      PROVE  Followed'
  <2>1. Chronicle(h, q)'
    BY <1>1, <1>3, <1>4, <1>5, OtherChronicle
  <2>2. SomeonePending'
    BY <1>3 DEF Followed, SomeonePending
  <2> QED BY <1>5, <2>1, <2>2 DEF Followed
<1>6. StopsAreNameless
  BY DEF Followed
<1>7. ASSUME NEW resp \in Response, fromMc' = Append(fromMc, resp),
             resp.type = "EMERGENCY_STOP" => resp.id = 0
      PROVE  StopsAreNameless'
  <2>1. /\ Len(fromMc') = Len(fromMc) + 1 /\ Len(fromMc) \in Nat
        /\ fromMc'[Len(fromMc) + 1] = resp
        /\ \A i \in 1 .. Len(fromMc) : fromMc'[i] = fromMc[i]
    BY <1>2, <1>7, AppendProperties, LenProperties
  <2>2. \A i \in 1 .. Len(fromMc') : i \in 1 .. Len(fromMc) \/ i = Len(fromMc) + 1
    BY <2>1
  <2> QED BY <1>6, <1>7, <2>1, <2>2 DEF StopsAreNameless
<1>8. ASSUME toMc # <<>>, InTime(Head(toMc).id), NEW type \in {"DONE", "ERROR"},
             fromMc' = Append(fromMc, [id |-> Head(toMc).id, type |-> type]),
             toMc' \in {toMc, Tail(toMc)}
      PROVE  Followed'
  <2>1. PICK resp \in Response : resp = [id |-> Head(toMc).id, type |-> type]
    <3>1. Head(toMc) \in Message
      BY <1>2, <1>8, HeadTailProperties
    <3>2. Head(toMc).id \in Ids
      BY <3>1 DEF Message
    <3>3. [id |-> Head(toMc).id, type |-> type] \in Response
      BY <3>2 DEF Response, ResponseType
    <3> QED BY <3>3
  <2>2. \A k \in Nat : k <= Sent(h) /\ Concerns(h, Head(toMc), k) => k <= Limit(h)
    BY <1>1, <1>8, AnswerInTime
  <2>3. /\ Dates(h, inQ, Append(fromMc, resp), Tail(toMc), Finished(h), Sent(h), Limit(h))
        /\ Dates(h, inQ, Append(fromMc, resp), toMc, Finished(h), Sent(h), Limit(h))
    <3>1. resp.id = Head(toMc).id
      BY <2>1
    <3> QED BY <1>2, <1>8, <2>2, <3>1, DatesAnswered
  <2>4. StopsAreNameless'
    BY <1>7, <1>8, <2>1
  <2> QED BY <1>5, <1>8, <2>1, <2>3, <2>4
<1>9. CASE Answer("DONE") \/ Answer("ERROR")
  BY <1>8, <1>9 DEF Answer
<1>10. CASE Repeat
  BY <1>8, <1>10 DEF Repeat
<1>11. CASE Loss
  <2>1. toMc # <<>> /\ toMc' = Tail(toMc) /\ fromMc' = fromMc
    BY <1>11 DEF Loss
  <2>2. Dates(h, inQ, fromMc, Tail(toMc), Finished(h), Sent(h), Limit(h))
    BY <1>2, <2>1, DatesDropped
  <2> QED BY <1>5, <1>6, <2>1, <2>2 DEF StopsAreNameless
<1>12. CASE EmergencyStop
  <2>1. PICK resp \in Response : resp = [id |-> 0, type |-> "EMERGENCY_STOP"]
    <3>1. 0 \in Ids
      BY DEF Ids
    <3>2. [id |-> 0, type |-> "EMERGENCY_STOP"] \in Response
      BY <3>1 DEF Response, ResponseType
    <3> QED BY <3>2
  <2>2. fromMc' = Append(fromMc, resp) /\ toMc' = toMc
    BY <1>12, <2>1 DEF EmergencyStop
  <2>3. Dates(h, inQ, Append(fromMc, resp), toMc, Finished(h), Sent(h), Limit(h))
    <3>1. resp.type = "EMERGENCY_STOP"
      BY <2>1
    <3> QED BY <1>2, <3>1, DatesStopped
  <2>4. StopsAreNameless'
    BY <1>7, <2>1, <2>2
  <2> QED BY <1>5, <2>2, <2>3, <2>4
<1> QED BY <1>9, <1>10, <1>11, <1>12 DEF Peer

(* The oldest queued message goes out, or is lost to a failed write. *)
LEMMA SendFollowed ==
    ASSUME Capacity < CmdSlots, TypeOK, SendHasMessage, Followed,
           NEW written \in WriteWorks, Send(written)
    PROVE  Followed'
<1>1. PICK h \in Seq(Message), q \in Seq(Message) : Chronicle(h, q)
  BY DEF Followed
<1>2. /\ Finished(h) \in Nat /\ Sent(h) \in Nat /\ Limit(h) \in Nat /\ Len(h) \in Nat
      /\ Dates(h, inQ, fromMc, toMc, Finished(h), Sent(h), Limit(h))
      /\ toMc \in Seq(Message) /\ outQ \in Seq(Message) /\ pendingDones \in Seq(Ids)
  BY <1>1, ChronicleFacts, TypeFacts DEF Chronicle
<1>3. /\ outQ # <<>> /\ outQ' = Tail(outQ) /\ fromMc' = fromMc
      /\ toMc' \in {toMc, Append(toMc, Head(outQ))}
      /\ UNCHANGED <<pendingDones, inQ, adder, idCounter, rejected, pendingCmds, handlerIndex>>
  BY DEF Send, SendCmd, SendHasMessage, DropOldest, adderVars, handlerVars
<1>4. /\ Head(outQ) \in Message /\ Len(outQ) \in Nat \ {0} /\ Len(outQ') = Len(outQ) - 1
  BY <1>2, <1>3, HeadTailProperties, LenProperties, EmptySeq
<1>5. Sent(h)' = Sent(h) + 1 /\ Finished(h)' = Finished(h)
  <2>1. Unqueued(adder) \in Nat
    BY DEF Unqueued
  <2>2. Sent(h) = Len(h) - Len(outQ) - Unqueued(adder)
        /\ Sent(h)' = Len(h) - Len(outQ') - Unqueued(adder)
    BY <1>3 DEF Sent
  <2>3. Finished(h)' = Finished(h)
    BY <1>3 DEF Finished
  <2> QED BY <1>2, <1>4, <2>1, <2>2, <2>3
<1>6. Concerns(h, Head(outQ), Sent(h) + 1)
  BY <1>1, <1>3, ChronicleFacts DEF Concerns
<1>7. /\ Dates(h, inQ, fromMc, Append(toMc, Head(outQ)), Finished(h), Sent(h) + 1, Limit(h))
      /\ Dates(h, inQ, fromMc, toMc, Finished(h), Sent(h) + 1, Limit(h))
  BY <1>2, <1>4, <1>6, DatesSent
<1>8. Chronicle(h, q)'
  <2>1. Dates(h, inQ', fromMc', toMc', Finished(h)', Sent(h)', Limit(h))
    BY <1>3, <1>5, <1>7
  <2>2. outQ' = DropOldest(outQ)
    BY <1>3 DEF DropOldest
  <2> QED BY <1>1, <1>3, <2>1, <2>2, OtherChronicle
<1>9. SomeonePending'
  <2>1. Len(outQ) + Unqueued(adder) <= Len(pendingDones) /\ Unqueued(adder) \in {0, 1}
    BY <1>1, ChronicleFacts, AddersInside
  <2>2. Len(pendingDones) # 0 /\ Len(pendingDones) \in Nat
    BY <1>2, <1>4, <2>1, LenProperties
  <2> QED BY <1>2, <1>3, <2>2, EmptySeq DEF SomeonePending
<1>10. StopsAreNameless'
  BY <1>3 DEF Followed, StopsAreNameless
<1> QED BY <1>8, <1>9, <1>10 DEF Followed

--------------------------------------------------------------------------------
(* A DONE that is accepted answers the oldest command, and comes after its  *)
(* call has returned, unless answers may come early.                        *)
LEMMA CompletedIsOldest ==
    ASSUME Capacity < CmdSlots, TypeOK, SomeonePending,
           NEW h \in Seq(Message), NEW q \in Seq(Message), Chronicle(h, q),
           inQ # <<>>, CompleteOldest(Head(inQ))
    PROVE  /\ pendingDones # <<>>
           /\ Finished(h) + 1 <= Limit(h)
           /\ Dates(h, Tail(inQ), fromMc, toMc, Finished(h) + 1, Sent(h), Limit(h))
<1>1. /\ Head(inQ).type = "DONE" /\ fsmState = "DONE_PENDING"
      /\ Head(inQ).id = PeekPending
  BY DEF CompleteOldest, IsOldest
<1>2. pendingDones # <<>>
  BY <1>1 DEF SomeonePending
<1>3. Head(inQ).id = Head(pendingDones)
  BY <1>1, <1>2 DEF PeekPending
<1>4. /\ Finished(h) \in Nat /\ Sent(h) \in Nat /\ Limit(h) \in Nat /\ Len(h) \in Nat
      /\ Finished(h) + 1 \in 1 .. Len(h) /\ h[Finished(h) + 1].id = Head(pendingDones)
      /\ \A i, j \in 1 .. Len(h) :
            Finished(h) <= i /\ Finished(h) <= j /\ h[i].id = h[j].id => i = j
  BY <1>2, ChronicleFacts
<1>5. PICK k \in Nat :
        /\ Finished(h) <= k /\ k <= Sent(h) /\ k <= Limit(h) /\ Concerns(h, Head(inQ), k)
        /\ Dates(h, Tail(inQ), fromMc, toMc, k, Sent(h), Limit(h))
  <2>1. Dates(h, inQ, fromMc, toMc, Finished(h), Sent(h), Limit(h)) /\ inQ \in Seq(Response)
    BY TypeFacts DEF Chronicle
  <2> QED BY <1>4, <2>1, DatesHandled
<1>6. k \in 1 .. Len(h) /\ h[k].id = Head(inQ).id
  BY <1>1, <1>5 DEF Concerns
<1>7. k = Finished(h) + 1
  <2>1. Finished(h) <= Finished(h) + 1
    BY <1>4
  <2> QED BY <1>3, <1>4, <1>5, <1>6, <2>1
<1> QED BY <1>2, <1>5, <1>7

LEMMA ProcessFollowed ==
    ASSUME Capacity < CmdSlots, TypeOK, Followed, Process
    PROVE  Followed'
<1>1. PICK h \in Seq(Message), q \in Seq(Message) : Chronicle(h, q)
  BY DEF Followed
<1>2. /\ Finished(h) \in Nat /\ Sent(h) \in Nat /\ Limit(h) \in Nat /\ Len(h) \in Nat
      /\ Dates(h, inQ, fromMc, toMc, Finished(h), Sent(h), Limit(h))
      /\ inQ \in Seq(Response) /\ pendingDones \in Seq(Ids)
  BY <1>1, ChronicleFacts, TypeFacts DEF Chronicle
<1>3. /\ UNCHANGED <<toMc, fromMc, outQ, adder, idCounter, rejected>>
      /\ StopsAreNameless' /\ SomeonePending
  <2>1. UNCHANGED <<toMc, fromMc, outQ, adder, idCounter, rejected>>
    BY DEF Process, ProcessOk, IdleReceive, IdleLook, DoneReceive, DoneWait, DoneTimesOut,
           DoneLook, adderVars, lineVars
  <2> QED BY <2>1 DEF Followed, StopsAreNameless
<1>4. Sent(h)' = Sent(h)
  BY <1>3 DEF Sent
<1>5. ASSUME UNCHANGED <<pendingCmds, handlerIndex>>, SomeonePending',
             pendingDones' \in {pendingDones, DropOldest(pendingDones)},
             Dates(h, inQ', fromMc, toMc, Finished(h)', Sent(h), Limit(h))
      PROVE  Followed'
  <2>1. Chronicle(h, q)'
    BY <1>1, <1>3, <1>4, <1>5, OtherChronicle
  <2> QED BY <1>3, <1>5, <2>1 DEF Followed
<1>6. ASSUME UNCHANGED <<pendingDones, inQ, handlerVars>>,
             fsmState' = "DONE_PENDING" => fsmState = "DONE_PENDING"
      PROVE  Followed'
  <2>1. Finished(h)' = Finished(h)
    BY <1>6 DEF Finished
  <2>2. SomeonePending'
    BY <1>3, <1>6 DEF SomeonePending
  <2> QED BY <1>2, <1>5, <1>6, <2>1, <2>2 DEF handlerVars
<1>7. ASSUME inQ # <<>>, HandleIncoming(Head(inQ)), inQ' = PopIncoming PROVE Followed'
  <2>1. inQ' = Tail(inQ)
    BY <1>7 DEF PopIncoming, DropOldest
  <2>2. CASE CompleteOldest(Head(inQ))
    <3>1. /\ pendingDones # <<>>
          /\ Dates(h, Tail(inQ), fromMc, toMc, Finished(h) + 1, Sent(h), Limit(h))
      BY <1>1, <1>3, <1>7, <2>2, CompletedIsOldest
    <3>2. /\ pendingDones' = Tail(pendingDones) /\ pendingDones' = DropOldest(pendingDones)
          /\ UNCHANGED <<pendingCmds, handlerIndex>>
      BY <2>2, <3>1 DEF CompleteOldest, ExecuteDone, PopPending, DropOldest
    <3>3. Finished(h)' = Finished(h) + 1
      <4>1. Len(pendingDones') = Len(pendingDones) - 1 /\ Len(pendingDones) \in Nat
        BY <1>2, <3>1, <3>2, HeadTailProperties, LenProperties
      <4>2. Finished(h) = Len(h) - Len(pendingDones)
            /\ Finished(h)' = Len(h) - Len(pendingDones')
        BY DEF Finished
      <4> QED BY <1>2, <4>1, <4>2
    <3>4. SomeonePending'
      BY <2>2 DEF CompleteOldest, AfterDone, SomeonePending
    <3>5. Dates(h, inQ', fromMc, toMc, Finished(h)', Sent(h), Limit(h))
      BY <2>1, <3>1, <3>3
    <3> QED BY <1>5, <3>2, <3>4, <3>5
  <2>3. CASE ~CompleteOldest(Head(inQ))
    <3>1. /\ UNCHANGED <<pendingDones, handlerVars>>
          /\ fsmState' = "DONE_PENDING" => fsmState = "DONE_PENDING"
      BY <1>7, <2>3 DEF HandleIncoming, RejectDone, HandleFailure, IgnoreStop, HandlerSetError
    <3>2. Finished(h)' = Finished(h) /\ SomeonePending'
      BY <1>3, <3>1 DEF Finished, SomeonePending
    <3>3. Dates(h, Tail(inQ), fromMc, toMc, Finished(h), Sent(h), Limit(h))
      BY <1>2, <1>7, DatesHandled
    <3> QED BY <1>5, <2>1, <3>1, <3>2, <3>3 DEF handlerVars
  <2> QED BY <2>2, <2>3
<1>8. CASE IdleReceive \/ DoneReceive
  BY <1>7, <1>8 DEF IdleReceive, DoneReceive
<1>9. CASE IdleLook \/ DoneWait \/ DoneTimesOut \/ DoneLook
  BY <1>6, <1>9 DEF IdleLook, DoneWait, DoneTimesOut, DoneLook, AfterLook, HandlerSetError,
                    handlerVars
<1> QED BY <1>8, <1>9 DEF Process, ProcessOk

LEMMA NextFollowed ==
    ASSUME "split" \notin Faults, Capacity < CmdSlots, CmdSlots * Spread < IdMod,
           TypeOK, NoConcurrentAdds, IdsInOrder, SendHasMessage, Followed, [Next]_vars,
           ~overlapped'
    PROVE  Followed'
<1>1. PICK h \in Seq(Message), q \in Seq(Message) : Chronicle(h, q)
  BY DEF Followed
<1>2. ASSUME NEW t \in Threads, NEW cmd, AddNumber(t, cmd), UNCHANGED lineVars,
             \A u \in Threads : adder[u].pc = "idle"
      PROVE  Followed'
  <2>1. Chronicle(h, q)'
    BY <1>1, <1>2, NumberChronicle
  <2>2. StopsAreNameless' /\ SomeonePending'
    BY <1>2 DEF Followed, StopsAreNameless, SomeonePending, AddNumber, lineVars, workerVars
  <2> QED BY <2>1, <2>2 DEF Followed
<1>3. CASE SendHello
  <2>1. AddNumber(Serial, "HELLO_THERE") /\ UNCHANGED lineVars
    BY <1>3 DEF SendHello
  <2>3. Serial \in Threads
    OBVIOUS
  <2>2. \A u \in Threads : adder[u].pc = "idle"
    BY <2>1, <2>3, BeginsAlone
  <2> QED BY <1>2, <2>1, <2>2, <2>3
<1>4. ASSUME NEW cmd \in Commands, GuiRequest(cmd) PROVE Followed'
  <2>1. AddNumber(Gui, cmd) /\ UNCHANGED lineVars
    BY <1>4 DEF GuiRequest
  <2>3. Gui \in Threads
    OBVIOUS
  <2>2. \A u \in Threads : adder[u].pc = "idle"
    BY <2>1, <2>3, BeginsAlone
  <2> QED BY <1>2, <2>1, <2>2, <2>3
<1>5. CASE EnterLoop \/ Clock \/ Gtk \/ ProcessError \/ UNCHANGED vars
  <2>1. UNCHANGED <<pendingDones, outQ, inQ, fsmState, adder, idCounter, rejected,
                    pendingCmds, handlerIndex, toMc, fromMc>>
    BY <1>5 DEF EnterLoop, Clock, Gtk, Tick, GtkIdle, RunIdle, ProcessError, ProcessFails,
                vars, mhVars, adderVars, workerVars, handlerVars, lineVars
  <2>2. Finished(h)' = Finished(h) /\ Sent(h)' = Sent(h)
    BY <2>1 DEF Finished, Sent
  <2>3. Dates(h, inQ', fromMc', toMc', Finished(h)', Sent(h)', Limit(h))
    BY <1>1, <2>1, <2>2 DEF Chronicle
  <2>4. Chronicle(h, q)'
    BY <1>1, <2>1, <2>3, OtherChronicle
  <2>5. StopsAreNameless' /\ SomeonePending'
    BY <2>1 DEF Followed, StopsAreNameless, SomeonePending
  <2> QED BY <2>4, <2>5 DEF Followed
<1>6. ASSUME NEW t \in Threads, Add(t) PROVE Followed'
  BY <1>6, AddFollowed
<1>7. ASSUME NEW written \in WriteWorks, Send(written) PROVE Followed'
  BY <1>7, SendFollowed
<1> QED BY <1>3, <1>4, <1>5, <1>6, <1>7, ReadFollowed, PeerFollowed, ProcessFollowed
        DEF Next, Loop

(* What holds of a connection whose answers come whole, until calls overlap *)
Served ==
    /\ TypeOK /\ AdderShape /\ SendHasMessage
    /\ ~overlapped => IdsInOrder /\ Followed

LEMMA ServedHolds ==
    ASSUME "split" \notin Faults, Capacity < CmdSlots, CmdSlots * (MaxRejected + 1) < IdMod
    PROVE  Spec => []Served
<1>0. CmdSlots * Spread < IdMod /\ Capacity * Spread < IdMod
  BY RoundsAreLong DEF Capacity
<1>1. Init => Served
  <2>1. Init => SendHasMessage
    BY DEF Init, MHInit, SendHasMessage
  <2> QED BY <2>1, SerialInitType, InitAdderShape, InitInOrder, InitFollowed DEF Served
<1>2. Served /\ [Next]_vars => Served'
  <2> SUFFICES ASSUME Served, [Next]_vars, ~overlapped' PROVE IdsInOrder' /\ Followed'
    BY NextType, NextAdderShape, NextSends DEF Served
  <2>1. ~overlapped
    BY OverlapStays
  <2>2. TypeOK /\ NoConcurrentAdds /\ SendHasMessage /\ IdsInOrder /\ Followed
    BY <2>1 DEF Served, AdderShape
  <2> QED BY <1>0, <2>2, NextInOrder, NextFollowed
<1> QED BY <1>1, <1>2, PTL DEF Spec

(* Until calls overlap, one that got its id into the ring can queue its     *)
(* message (message_handler.c:192): the queue never holds more than the     *)
(* ring, although a DONE may be repeated, merged with another answer or     *)
(* lost, and a message lost to a failed write.                              *)
THEOREM AcceptedAreQueued ==
    ASSUME "split" \notin Faults, Capacity < CmdSlots, CmdSlots * (MaxRejected + 1) < IdMod
    PROVE  Spec => []AcceptedIsQueued
<1>1. Served => AcceptedIsQueued
  BY FollowedIsQueued DEF Served, AcceptedIsQueued
<1> QED BY <1>1, ServedHolds, PTL

(* A message that waits to be written has its own handler in the table once *)
(* add_outgoing has returned and calls have not overlapped, although slots  *)
(* are reused and never cleared (command_handler.c:86) and whatever goes wrong on the line, as long as   *)
(* answers come whole: the table has to be longer than the queue, and one   *)
(* round of ids longer than the table with the refused calls between its    *)
(* entries.                                                                 *)
THEOREM QueuedAreHandled ==
    ASSUME "split" \notin Faults, Capacity < CmdSlots, CmdSlots * (MaxRejected + 1) < IdMod
    PROVE  Spec => []QueuedHaveHandlers
<1>1. Served => QueuedHaveHandlers
  <2> SUFFICES ASSUME Served, ~overlapped PROVE QueuedHaveHandlers
    BY DEF QueuedHaveHandlers
  <2> QED BY FollowedIsQueued, KeptIsFound DEF Served, AdderShape
<1> QED BY <1>1, ServedHolds, PTL

--------------------------------------------------------------------------------
(* The connection is the pipeline, whatever goes wrong on the line *)

(* HELLO_THERE is the only command of the serial thread, and of nobody else. *)
CallerCommands ==
    /\ adder[Serial].pc # "idle" => adder[Serial].msg.type = "HELLO_THERE"
    /\ adder[Gui].pc # "idle" => adder[Gui].msg.type # "HELLO_THERE"

LEMMA InitCommands == Init => CallerCommands
  BY DEF Init, MHInit, AdderIdle, CallerCommands

LEMMA NextCommands ==
    ASSUME "HELLO_THERE" \notin Commands, TypeOK, CallerCommands, [Next]_vars
    PROVE  CallerCommands'
<1>0. adder \in [Threads -> AdderState] /\ Gui \in Threads /\ Serial \in Threads /\ Gui # Serial
  BY TypeFacts
<1>1. ASSUME NEW t \in Threads, NEW cmd, AddNumber(t, cmd)
      PROVE  adder'[t].msg.type = cmd /\ \A u \in Threads : u # t => adder'[u] = adder[u]
  BY <1>0, <1>1 DEF AddNumber
<1>2. CASE SendHello
  BY <1>0, <1>1, <1>2 DEF SendHello, CallerCommands
<1>3. ASSUME NEW cmd \in Commands, GuiRequest(cmd) PROVE CallerCommands'
  <2>1. cmd # "HELLO_THERE"
    OBVIOUS
  <2> QED BY <1>0, <1>1, <1>3, <2>1 DEF GuiRequest, CallerCommands
<1>4. ASSUME NEW t \in Threads, Add(t) PROVE CallerCommands'
  <2>1. AddStep(t) /\ adder[t].pc # "idle" /\ \A u \in Threads : u # t => adder'[u] = adder[u]
    BY <1>4, AddStepAdder DEF Add
  <2>2. Return(t) \/ \E pc \in {"push", "slot id", "slot func"} : Goto(t, pc)
    BY <2>1 DEF AddStep, AddPending, AddPush, AddSlotId, AddSlotFunc
  <2>3. adder'[t].pc # "idle" => adder'[t].msg = adder[t].msg
    <3>1. CASE Return(t)
      BY <1>0, <3>1 DEF Return, AdderIdle
    <3>2. ASSUME NEW pc \in {"push", "slot id", "slot func"}, Goto(t, pc)
          PROVE  adder'[t].msg = adder[t].msg
      BY <1>0, <3>2 DEF Goto, AdderState
    <3> QED BY <2>2, <3>1, <3>2
  <2> QED BY <1>0, <2>1, <2>3 DEF CallerCommands
<1>5. ASSUME adder' = adder PROVE CallerCommands'
  BY <1>5 DEF CallerCommands
<1>6. CASE EnterLoop \/ Peer \/ Clock \/ Gtk \/ UNCHANGED vars
  BY <1>5, <1>6 DEF EnterLoop, Peer, Clock, Gtk, Tick, GtkIdle, vars, mhVars, adderVars
<1>7. CASE Poll \/ ProcessError
  <2>1. ASSUME NEW resp, NEW left, Received(resp, left) PROVE adder' = adder
    BY <2>1 DEF Received, AddIncoming, mhVars, adderVars
  <2> QED BY <1>5, <1>7, <2>1 DEF Poll, PollSilent, ReadOne, ReadMerged, ReadPart, ReadFails,
                                  ProcessError, ProcessFails, mhVars
<1>8. CASE Process \/ \E written \in WriteWorks : Send(written)
  BY <1>5, <1>8 DEF Process, ProcessOk, IdleReceive, IdleLook, DoneReceive, DoneWait,
                    DoneTimesOut, DoneLook, Send, SendCmd, adderVars
<1> QED BY <1>2, <1>3, <1>4, <1>6, <1>7, <1>8 DEF Next, Loop

(* The callbacks of the last n messages of q. *)
Kinds(q, n) == [i \in 1 .. n |-> cmdFuncMap[q[Len(q) - n + i].type]]

(* The calls that have their id in the ring; CallbackOf asks them first. *)
Holders(ad, id) == {t \in Threads : ad[t].pc \in Inside /\ ad[t].msg.id = id}

LEMMA CallbackIs ==
    ASSUME NEW id
    PROVE  /\ Holders(adder, id) = {} => CallbackOf(id) = HandlerOf(id)
           /\ \A t \in Threads : Holders(adder, id) = {t} =>
                CallbackOf(id) = cmdFuncMap[adder[t].msg.type]
  BY DEF CallbackOf, Holders, Inside

(* Whoever asks, the ring's commands are the latest in the history. *)
LEMMA WaitingIsKinds ==
    ASSUME TypeOK, NoConcurrentAdds, NEW q \in Seq(Message), History(q)
    PROVE  Waiting = Kinds(q, Len(pendingDones))
<1> DEFINE n == Len(pendingDones)  b == Unlisted(adder)  c == Unfinished(adder)
           next == Upcoming(adder, handlerIndex)
<1>1. b \in {0, 1} /\ c \in {0, 1} /\ b <= c
  <2>1. b = 1 => c = 1
    BY DEF Unlisted, Unfinished, Inside
  <2>2. b \in {0, 1} /\ c \in {0, 1}
    BY DEF Unlisted, Unfinished
  <2> QED BY <2>1, <2>2
<1>2. /\ InTable(q, Len(q) - b, Len(q) - c, pendingCmds, next)
      /\ InOrder(IdsOf(q), idCounter, rejected, Begun)
      /\ EndsWith(IdsOf(q), pendingDones, 0)
      /\ \A t \in Threads :
            adder[t].pc \in Inside => q # <<>> /\ q[Len(q)] = adder[t].msg /\ c = 1
  BY DEF History, Unfinished
<1>3. c = 1 => \E t \in Threads : adder[t].pc \in Inside
  BY DEF Unfinished
<1>4. next \in Slots
  BY TableFacts, FollowingSlot DEF Upcoming
<1> HIDE DEF b, c, next
<1>5. /\ n \in Nat /\ Len(q) \in Nat /\ DOMAIN pendingDones = 1 .. n
      /\ Len(IdsOf(q)) = Len(q) /\ n <= Len(q)
      /\ \A x \in 1 .. Len(q) : IdsOf(q)[x] = q[x].id
  <2>1. /\ n \in Nat /\ Len(q) \in Nat /\ DOMAIN pendingDones = 1 .. n
        /\ Len(IdsOf(q)) = Len(q)
        /\ \A x \in 1 .. Len(q) : IdsOf(q)[x] = q[x].id
    BY TypeFacts, LenProperties, HaveIds, IdsOfType
  <2> QED BY <1>2, <2>1 DEF EndsWith
<1>6. \A y, z \in 1 .. Len(q) : y # z => q[y].id # q[z].id
  BY <1>2, CounterType, OrderedDiffer
<1>7. ASSUME NEW i \in 1 .. n
      PROVE  CallbackOf(pendingDones[i]) = cmdFuncMap[q[Len(q) - n + i].type]
  <2> DEFINE x == Len(q) - n + i
  <2>1. x \in 1 .. Len(q) /\ Len(q) - 0 - n + i = x
    BY <1>5
  <2>2. pendingDones[i] = q[x].id
    <3>1. pendingDones[i] = IdsOf(q)[Len(q) - 0 - n + i]
      BY <1>2, <1>5 DEF EndsWith
    <3> QED BY <1>5, <2>1, <3>1
  <2> HIDE DEF x, n
  <2>3. ASSUME NEW t \in Holders(adder, q[x].id)
        PROVE  CallbackOf(q[x].id) = cmdFuncMap[q[x].type]
    <3>1. t \in Threads /\ adder[t].pc \in Inside /\ adder[t].msg.id = q[x].id
      BY DEF Holders
    <3>2. q[Len(q)] = adder[t].msg /\ q # <<>>
      BY <1>2, <3>1
    <3>3. Len(q) \in 1 .. Len(q)
      BY <2>1
    <3>4. x = Len(q)
      BY <1>6, <2>1, <3>1, <3>2, <3>3
    <3>5. Holders(adder, q[x].id) = {t}
      <4>1. \A u \in Threads : u # t => adder[u].pc = "idle"
        BY <3>1, AloneInside DEF Inside
      <4> QED BY <3>1, <4>1 DEF Holders, Inside
    <3> QED BY <3>1, <3>2, <3>4, <3>5, CallbackIs
  <2>4. ASSUME Holders(adder, q[x].id) = {}
        PROVE  CallbackOf(q[x].id) = cmdFuncMap[q[x].type]
    <3>1. c = 1 => x # Len(q)
      <4>1. ASSUME NEW t \in Threads, adder[t].pc \in Inside PROVE x # Len(q)
        BY <1>2, <2>4, <4>1 DEF Holders
      <4> QED BY <1>3, <4>1
    <3>2. x \in 1 .. Len(q) - c /\ Len(q) - b <= Len(q)
      BY <1>1, <1>5, <2>1, <3>1
    <3>3. HandlerOf(q[x].id) = cmdFuncMap[q[x].type]
      BY <1>2, <1>4, <1>6, <3>2, ListedIsFound
    <3> QED BY <2>4, <3>3, CallbackIs
  <2>5. CallbackOf(q[x].id) = cmdFuncMap[q[x].type]
    <3>1. ASSUME Holders(adder, q[x].id) # {}
          PROVE  CallbackOf(q[x].id) = cmdFuncMap[q[x].type]
      <4>1. PICK t \in Holders(adder, q[x].id) : TRUE
        BY <3>1
      <4> QED BY <2>3, <4>1
    <3> QED BY <2>4, <3>1
  <2>6. cmdFuncMap[q[Len(q) - n + i].type] = cmdFuncMap[q[x].type]
    BY DEF x
  <2> QED BY <2>2, <2>5, <2>6
<1> QED BY <1>5, <1>7 DEF Waiting, Kinds

LEMMA WaitingIsKindsThen ==
    ASSUME NEW q \in Seq(Message)
    PROVE  (TypeOK /\ NoConcurrentAdds /\ History(q) => Waiting = Kinds(q, Len(pendingDones)))'
<1>1. TypeOK /\ NoConcurrentAdds /\ History(q) => Waiting = Kinds(q, Len(pendingDones))
  BY WaitingIsKinds
<1> QED BY <1>1, PTL

(* CallbackOf as a function of the calls and the table. *)
Lookup(cmds, id) ==
    LET First(s) == cmds[s].id = id /\ \A u \in Slots : u < s => cmds[u].id # id
    IN  IF \E s \in Slots : First(s) THEN cmds[CHOOSE s \in Slots : First(s)].func
        ELSE "NULL"
Callback(ad, cmds, id) ==
    IF Holders(ad, id) = {} THEN Lookup(cmds, id)
    ELSE cmdFuncMap[ad[CHOOSE t \in Holders(ad, id) : TRUE].msg.type]
Seen(ring, ad, cmds) == [i \in DOMAIN ring |-> Callback(ad, cmds, ring[i])]

LEMMA WaitingIsSeen == Waiting = Seen(pendingDones, adder, pendingCmds)
  BY Zenon DEF Waiting, CallbackOf, HandlerOf, FirstSlot, Seen, Callback, Lookup, Holders, Inside

LEMMA WaitingIsSeenThen == (Waiting = Seen(pendingDones, adder, pendingCmds))'
  BY WaitingIsSeen, PTL

(* Waiting depends on the ring, the ids and types held, and the table. *)
LEMMA SameWaiting ==
    ASSUME pendingDones' = pendingDones, pendingCmds' = pendingCmds,
           \A t \in Threads :
              /\ adder'[t].pc \in Inside <=> adder[t].pc \in Inside
              /\ adder[t].pc \in Inside => adder'[t].msg = adder[t].msg
    PROVE  Waiting' = Waiting
<1>1. \A id : Holders(adder', id) = Holders(adder, id)
  BY DEF Holders
<1>2. \A id : Holders(adder, id) # {} =>
          adder'[CHOOSE t \in Holders(adder, id) : TRUE].msg
            = adder[CHOOSE t \in Holders(adder, id) : TRUE].msg
  <2> SUFFICES ASSUME NEW id, Holders(adder, id) # {}
               PROVE  adder'[CHOOSE t \in Holders(adder, id) : TRUE].msg
                        = adder[CHOOSE t \in Holders(adder, id) : TRUE].msg
    OBVIOUS
  <2>1. (CHOOSE t \in Holders(adder, id) : TRUE) \in Holders(adder, id)
    OBVIOUS
  <2> QED BY <2>1 DEF Holders
<1>3. \A id : Callback(adder', pendingCmds, id) = Callback(adder, pendingCmds, id)
  <2> SUFFICES ASSUME NEW id
               PROVE  Callback(adder', pendingCmds, id) = Callback(adder, pendingCmds, id)
    OBVIOUS
  <2> DEFINE held == Holders(adder, id)  u == CHOOSE t \in held : TRUE
  <2>1. Holders(adder', id) = held /\ (held # {} => adder'[u].msg = adder[u].msg)
    BY <1>1, <1>2
  <2> HIDE DEF held
  <2>2. Callback(adder, pendingCmds, id) =
            IF held = {} THEN Lookup(pendingCmds, id) ELSE cmdFuncMap[adder[u].msg.type]
    BY DEF Callback, held
  <2>3. Callback(adder', pendingCmds, id) =
            IF held = {} THEN Lookup(pendingCmds, id) ELSE cmdFuncMap[adder'[u].msg.type]
    BY <2>1 DEF Callback
  <2> HIDE DEF u
  <2>4. held # {} => cmdFuncMap[adder'[u].msg.type] = cmdFuncMap[adder[u].msg.type]
    BY <2>1
  <2> QED BY <2>2, <2>3, <2>4
<1> QED BY <1>3, WaitingIsSeen, WaitingIsSeenThen DEF Seen

LEMMA PipelineStutters ==
    ASSUME Waiting' = Waiting, idle' = idle, Greeted' = Greeted,
           threadRunning' = threadRunning
    PROVE  [Pipeline!Next]_Pipeline!vars
  BY DEF Pipeline!vars

LEMMA NumberSteps ==
    ASSUME TypeOK, SendHello \/ \E cmd \in Commands : GuiRequest(cmd)
    PROVE  [Pipeline!Next]_Pipeline!vars
<1>0. adder \in [Threads -> AdderState] /\ Gui \in Threads /\ Serial \in Threads
  BY TypeFacts
<1>1. ASSUME NEW t \in Threads, NEW cmd, AddNumber(t, cmd)
      PROVE  /\ Waiting' = Waiting /\ idle' = idle /\ adder'[t].pc = "pending"
             /\ \A u \in Threads : u # t => adder'[u] = adder[u]
  <2>1. /\ adder' = [adder EXCEPT ![t] =
                        [pc |-> "pending", msg |-> [id |-> NextId(idCounter), type |-> cmd]]]
        /\ adder[t].pc = "idle"
        /\ UNCHANGED <<pendingDones, pendingCmds, idle>>
    BY <1>1 DEF AddNumber, handlerVars
  <2>2. adder'[t].pc = "pending" /\ \A u \in Threads : u # t => adder'[u] = adder[u]
    BY <1>0, <2>1
  <2>3. \A u \in Threads :
              /\ adder'[u].pc \in Inside <=> adder[u].pc \in Inside
              /\ adder[u].pc \in Inside => adder'[u].msg = adder[u].msg
    BY <2>1, <2>2 DEF Inside
  <2> QED BY <2>1, <2>2, <2>3, SameWaiting
<1>2. CASE SendHello
  <2>1. serial = "start" /\ AddNumber(Serial, "HELLO_THERE") /\ threadRunning' = threadRunning
    BY <1>2 DEF SendHello
  <2>2. Greeted = FALSE /\ Greeted' = FALSE
    BY <1>0, <1>1, <2>1 DEF Greeted
  <2> QED BY <1>0, <1>1, <2>1, <2>2, PipelineStutters
<1>3. ASSUME NEW cmd \in Commands, GuiRequest(cmd) PROVE [Pipeline!Next]_Pipeline!vars
  <2>1. serial' = serial /\ AddNumber(Gui, cmd) /\ threadRunning' = threadRunning
    BY <1>3 DEF GuiRequest
  <2>2. Greeted' = Greeted
    BY <1>0, <1>1, <2>1 DEF Greeted
  <2> QED BY <1>0, <1>1, <2>1, <2>2, PipelineStutters
<1> QED BY <1>2, <1>3

(* The ring takes the id: the command is submitted.  HELLO_THERE may be refused. *)
LEMMA PendingSteps ==
    ASSUME TypeOK, AdderShape, NoConcurrentAdds, IdsInOrder, CallerCommands,
           NEW t \in Threads, Add(t), AddPending(t)
    PROVE  [Pipeline!Next]_Pipeline!vars
<1>0. /\ adder \in [Threads -> AdderState] /\ Gui \in Threads /\ Serial \in Threads
      /\ Gui # Serial /\ t \in {Gui, Serial} /\ adder[t].msg \in Message
      /\ pendingDones \in Seq(Ids) /\ idCounter \in Ids
  BY TypeFacts, CounterType
<1>1. /\ adder[t].pc = "pending" /\ serial' = serial
      /\ UNCHANGED <<pendingCmds, idle, threadRunning>>
  BY DEF Add, AddPending, handlerVars
<1>2. \A u \in Threads : u # t => adder[u].pc = "idle"
  BY <1>1, AloneInside
<1>3. \A u \in Threads : u # t => adder'[u] = adder[u]
  BY <1>0 DEF AddPending, Return, Goto
<1>c. Len(Waiting) = Len(pendingDones)
  BY <1>0, LenProperties DEF Waiting
<1>g. ASSUME adder'[t].pc # "pending"
      PROVE  /\ t = Serial => ~Greeted /\ Greeted'
             /\ t = Gui => Greeted' = Greeted
  <2>1. t = Serial => ~Greeted /\ Greeted'
    BY <1>1, <1>g DEF AdderShape, Greeted
  <2>2. t = Gui => Greeted' = Greeted
    BY <1>0, <1>1, <1>3 DEF Greeted
  <2> QED BY <2>1, <2>2
<1>4. CASE IsFull(pendingDones)
  <2>1. adder'[t].pc = "idle" /\ pendingDones' = pendingDones
    BY <1>0, <1>4 DEF AddPending, Return, AdderIdle
  <2>2. \A u \in Threads : adder[u].pc \notin Inside /\ adder'[u].pc \notin Inside
    BY <1>1, <1>2, <1>3, <2>1 DEF Inside
  <2>3. Waiting' = Waiting
    BY <1>1, <2>1, <2>2, SameWaiting
  <2>4. CASE t = Serial
    <3>1. ~Pipeline!HasRoom
      BY <1>4, <1>c DEF IsFull, Capacity, Pipeline!HasRoom
    <3>2. Pipeline!Greet
      BY <1>1, <1>g, <2>1, <2>3, <2>4, <3>1 DEF Pipeline!Greet
    <3> QED BY <3>2 DEF Pipeline!Next
  <2>5. CASE t = Gui
    BY <1>1, <1>g, <2>1, <2>3, <2>5, PipelineStutters
  <2> QED BY <1>0, <2>4, <2>5
<1>5. CASE ~IsFull(pendingDones)
  <2> DEFINE id == adder[t].msg.id  cb == cmdFuncMap[adder[t].msg.type]
             n == Len(pendingDones)
  <2>1. /\ adder'[t].pc = "push" /\ adder'[t].msg = adder[t].msg
        /\ pendingDones' = Append(pendingDones, id)
    BY <1>0, <1>5, ZenonT(60) DEF AddPending, Goto, AdderState
  <2>2. id = idCounter /\ id \in Ids /\ cb \in Callbacks
    <3>1. adder[t].msg.type \in DOMAIN cmdFuncMap
      BY <1>0 DEF Message
    <3> QED BY <1>0, <1>1, <3>1 DEF IdsInOrder, Callbacks
  <2>3. /\ n \in Nat /\ DOMAIN pendingDones = 1 .. n /\ DOMAIN pendingDones' = 1 .. n + 1
        /\ \A i \in 1 .. n : pendingDones'[i] = pendingDones[i]
        /\ pendingDones'[n + 1] = id
    <3>1. Append(pendingDones, id) \in Seq(Ids)
      BY <1>0, <2>2, AppendProperties
    <3> QED BY <1>0, <2>1, <2>2, <3>1, AppendProperties, LenProperties
  <2>4. n < Capacity
    <3>1. n <= Capacity /\ n # Capacity /\ Capacity \in Nat
      BY <1>5, TypeFacts DEF IsFull, Capacity
    <3> QED BY <2>3, <3>1
  <2>5. \A i \in 1 .. n : pendingDones[i] # id
    <3> SUFFICES ASSUME NEW i \in 1 .. n PROVE pendingDones[i] # id
      OBVIOUS
    <3>1. Begun = 1
      BY <1>1 DEF Begun
    <3>2. 1 <= Behind(pendingDones[i], idCounter)
      BY <3>1 DEF IdsInOrder, InOrder
    <3>3. Behind(idCounter, idCounter) = 0
      BY <1>0, BehindType
    <3> QED BY <2>2, <3>2, <3>3
  <2> HIDE DEF id, cb, n
  <2>6. \A k : Holders(adder, k) = {}
    BY <1>1, <1>2 DEF Holders, Inside
  <2>7. \A k : k # id => Holders(adder', k) = {}
    <3> SUFFICES ASSUME NEW k, k # id, NEW u \in Holders(adder', k) PROVE FALSE
      OBVIOUS
    <3>1. u \in Threads /\ adder'[u].pc \in Inside /\ adder'[u].msg.id = k
      BY DEF Holders
    <3>2. u = t
      BY <1>2, <1>3, <3>1 DEF Inside
    <3> QED BY <2>1, <3>1, <3>2 DEF id
  <2>8. Holders(adder', id) = {t}
    BY <1>2, <1>3, <2>1 DEF Holders, Inside, id
  <2>9. Callback(adder', pendingCmds, id) = cb
    <3>1. (CHOOSE u \in Holders(adder', id) : TRUE) = t
      BY <2>8
    <3> QED BY <2>1, <2>8, <3>1 DEF Callback, cb
  <2>10. \A k : k # id => Callback(adder', pendingCmds, k) = Callback(adder, pendingCmds, k)
    BY <2>6, <2>7 DEF Callback
  <2>11. /\ Waiting = [i \in 1 .. n |-> Callback(adder, pendingCmds, pendingDones[i])]
         /\ Waiting' = [i \in 1 .. n + 1 |->
                            Callback(adder', pendingCmds, pendingDones'[i])]
    BY <1>1, <2>3, WaitingIsSeen, WaitingIsSeenThen DEF Seen
  <2>12. Waiting' = Append(Waiting, cb) /\ Len(Waiting) = n
    BY <2>2, <2>3, <2>5, <2>9, <2>10, <2>11
  <2>13. Pipeline!HasRoom
    BY <2>4, <2>12 DEF Pipeline!HasRoom
  <2>14. CASE t = Serial
    <3>1. cb = cmdFuncMap["HELLO_THERE"]
      BY <1>1, <2>14 DEF CallerCommands, cb
    <3>2. Pipeline!Greet
      BY <1>1, <1>g, <2>1, <2>12, <2>13, <2>14, <3>1 DEF Pipeline!Greet
    <3> QED BY <3>2 DEF Pipeline!Next
  <2>15. CASE t = Gui
    <3>1. adder[t].msg.type \in DOMAIN cmdFuncMap /\ adder[t].msg.type # "HELLO_THERE"
      BY <1>0, <1>1, <2>15 DEF CallerCommands, Message
    <3>2. cb # cmdFuncMap["HELLO_THERE"]
      BY <3>1 DEF cb, cmdFuncMap
    <3>3. threadRunning
      BY <1>1, <2>15 DEF AdderShape
    <3>4. Pipeline!Submit(cb)
      BY <1>1, <1>g, <2>1, <2>12, <2>13, <2>15, <3>2, <3>3 DEF Pipeline!Submit
    <3> QED BY <2>2, <3>4 DEF Pipeline!Next
  <2> QED BY <1>0, <2>14, <2>15
<1> QED BY <1>4, <1>5

(* Later the call goes on with the table; what is waiting stays the same. *)
LEMMA AddSteps ==
    ASSUME Capacity < CmdSlots, TypeOK, AdderShape, NoConcurrentAdds, TypeOK',
           NoConcurrentAdds', IdsInOrder, Followed, CallerCommands,
           NEW t \in Threads, Add(t)
    PROVE  [Pipeline!Next]_Pipeline!vars
<1>0. /\ adder \in [Threads -> AdderState] /\ Gui \in Threads /\ Serial \in Threads
      /\ Len(pendingDones) \in Nat /\ Len(pendingDones) <= Capacity
      /\ HandlersKept /\ Capacity <= CmdSlots
      /\ \A u \in Threads : adder[u].pc = "push" => ~IsFull(outQ)
  BY TypeFacts, LenProperties, FollowedIsQueued DEF Capacity
<1>1. AddStep(t) /\ serial' = serial /\ threadRunning' = threadRunning
  BY DEF Add
<1>2. /\ \A u \in Threads : u # t => adder[u].pc = "idle"
      /\ \A u \in Threads : u # t => adder'[u] = adder[u]
      /\ Return(t) => adder'[t].pc = "idle"
      /\ \A pc \in {"push", "slot id", "slot func"} :
            Goto(t, pc) => adder'[t].pc = pc /\ adder'[t].msg = adder[t].msg
  BY <1>1, CallGoes, AddStepAdder
<1>3. ASSUME adder[t].pc # "pending", adder'[t].pc # "pending"
      PROVE  Greeted' = Greeted
  BY <1>0, <1>1, <1>2, <1>3 DEF Greeted
<1>4. CASE AddPending(t)
  BY <1>4, PendingSteps
<1>5. CASE AddPush(t)
  <2>1. adder[t].pc = "push" /\ UNCHANGED <<pendingDones, pendingCmds, idle>>
    BY <1>5 DEF AddPush, handlerVars
  <2>2. ~IsFull(outQ)
    BY <1>0, <2>1
  <2>3. adder'[t].pc = "slot id" /\ adder'[t].msg = adder[t].msg
    BY <1>2, <1>5, <2>2 DEF AddPush
  <2>4. \A u \in Threads :
              /\ adder'[u].pc \in Inside <=> adder[u].pc \in Inside
              /\ adder[u].pc \in Inside => adder'[u].msg = adder[u].msg
    BY <1>2, <2>1, <2>3 DEF Inside
  <2> QED BY <1>1, <1>3, <2>1, <2>3, <2>4, SameWaiting, PipelineStutters
<1>6. PICK q \in Seq(Message) : History(q)
  BY <1>0 DEF HandlersKept
<1>7. ASSUME NEW r \in Seq(Message), History(r)', pendingDones' = pendingDones,
             r = q \/ (r = Tail(q) /\ Len(q) = CmdSlots + 1)
      PROVE  Waiting' = Waiting
  <2> DEFINE n == Len(pendingDones)
  <2>1. Waiting = Kinds(q, n)
    BY <1>6, WaitingIsKinds
  <2>2. Waiting' = Kinds(r, n)
    BY <1>7, WaitingIsKindsThen
  <2>3. Kinds(r, n) = Kinds(q, n)
    <3>1. CASE r = q
      BY <3>1
    <3>2. CASE r = Tail(q) /\ Len(q) = CmdSlots + 1
      <4>1. q # <<>>
        BY <3>2, EmptySeq
      <4>2. /\ Len(r) = Len(q) - 1 /\ Len(q) \in Nat
            /\ \A i \in 1 .. Len(r) : r[i] = q[i + 1]
        BY <3>2, <4>1, HeadTailProperties, LenProperties
      <4>3. n <= Len(r)
        BY <1>0, <3>2, <4>2 DEF Capacity
      <4> HIDE DEF n
      <4>4. n \in Nat
        BY <1>0 DEF n
      <4>5. ASSUME NEW i \in 1 .. n
            PROVE  r[Len(r) - n + i] = q[Len(q) - n + i]
        <5>1. /\ Len(r) - n + i \in 1 .. Len(r)
              /\ (Len(r) - n + i) + 1 = Len(q) - n + i
          BY <4>2, <4>3, <4>4
        <5> QED BY <4>2, <5>1
      <4> QED BY <4>5 DEF Kinds
    <3> QED BY <1>7, <3>1, <3>2
  <2> QED BY <2>1, <2>2, <2>3
<1>8. CASE AddSlotId(t)
  <2>1. adder[t].pc = "slot id" /\ UNCHANGED <<pendingDones, idle>>
    BY <1>8 DEF AddSlotId, WriteSlotId, handlerVars
  <2>2. adder'[t].pc # "pending"
    BY <1>2, <1>8 DEF AddSlotId
  <2>3. Waiting' = Waiting
    BY <1>0, <1>6, <1>7, <1>8, <2>1, SlotIdHistory
  <2> QED BY <1>1, <1>3, <2>1, <2>2, <2>3, PipelineStutters
<1>9. CASE AddSlotFunc(t)
  <2>1. adder[t].pc = "slot func" /\ UNCHANGED <<pendingDones, idle>>
    BY <1>9 DEF AddSlotFunc, WriteSlotFunc
  <2>2. adder'[t].pc # "pending"
    BY <1>2, <1>9 DEF AddSlotFunc
  <2>3. Waiting' = Waiting
    BY <1>6, <1>7, <1>9, <2>1, SlotFuncHistory
  <2> QED BY <1>1, <1>3, <2>1, <2>2, <2>3, PipelineStutters
<1> QED BY <1>1, <1>4, <1>5, <1>8, <1>9 DEF AddStep

(* Each waiting command posts a callback. *)
LEMMA WaitingType ==
    ASSUME TypeOK, NoConcurrentAdds, HandlersKept
    PROVE  Waiting \in Seq(Callbacks) /\ Len(Waiting) = Len(pendingDones)
<1>1. PICK q \in Seq(Message) : History(q)
  BY DEF HandlersKept
<1> DEFINE n == Len(pendingDones)
<1>2. Waiting = Kinds(q, n) /\ EndsWith(IdsOf(q), pendingDones, 0)
  BY <1>1, WaitingIsKinds DEF History
<1>3. n \in Nat /\ n <= Len(q) /\ Len(q) \in Nat
  <2>1. n \in Nat /\ Len(IdsOf(q)) = Len(q) /\ Len(q) \in Nat
    BY TypeFacts, HaveIds, IdsOfType, LenProperties
  <2> QED BY <1>2, <2>1 DEF EndsWith
<1> HIDE DEF n
<1>4. \A i \in 1 .. n : cmdFuncMap[q[Len(q) - n + i].type] \in Callbacks
  <2> SUFFICES ASSUME NEW i \in 1 .. n
               PROVE  cmdFuncMap[q[Len(q) - n + i].type] \in Callbacks
    OBVIOUS
  <2>1. Len(q) - n + i \in 1 .. Len(q)
    BY <1>3
  <2>2. q[Len(q) - n + i] \in Message
    BY <2>1, ElementOfSeq
  <2>3. q[Len(q) - n + i].type \in DOMAIN cmdFuncMap
    BY <2>2 DEF Message
  <2> QED BY <2>3 DEF Callbacks
<1>5. Kinds(q, n) \in Seq(Callbacks) /\ Len(Kinds(q, n)) = n
  BY <1>3, <1>4 DEF Kinds
<1> QED BY <1>2, <1>5 DEF n

(* Nobody is still adding the command whose answer has come. *)
LEMMA AnsweredHasReturned ==
    ASSUME ~EarlyReply, Capacity < CmdSlots, TypeOK, Followed,
           inQ # <<>>, CompleteOldest(Head(inQ))
    PROVE  pendingDones # <<>> /\ Holders(adder, Head(pendingDones)) = {}
<1>1. PICK h \in Seq(Message), q \in Seq(Message) : Chronicle(h, q)
  BY DEF Followed
<1>2. pendingDones # <<>> /\ Finished(h) + 1 <= Limit(h)
  BY <1>1, CompletedIsOldest DEF Followed
<1>3. /\ Finished(h) \in Nat /\ Limit(h) \in Nat /\ Len(h) \in Nat
      /\ Finished(h) + 1 \in 1 .. Len(h) /\ h[Finished(h) + 1].id = Head(pendingDones)
      /\ \A i, j \in 1 .. Len(h) :
            Finished(h) <= i /\ Finished(h) <= j /\ h[i].id = h[j].id => i = j
      /\ \A t \in Threads :
            adder[t].pc \in Inside => Len(h) # 0 /\ h[Len(h)] = adder[t].msg
  BY <1>1, <1>2, ChronicleFacts
<1>4. ASSUME NEW t \in Threads, adder[t].pc \in Inside,
             adder[t].msg.id = Head(pendingDones)
      PROVE  FALSE
  <2>1. h[Len(h)].id = h[Finished(h) + 1].id /\ Len(h) \in 1 .. Len(h)
        /\ Finished(h) <= Len(h) /\ Finished(h) <= Finished(h) + 1
    BY <1>3, <1>4
  <2>2. Len(h) = Finished(h) + 1
    BY <1>3, <2>1
  <2>3. Limit(h) = Len(h) - 1
    BY <1>4, AddersInside DEF Limit
  <2> QED BY <1>2, <1>3, <2>2, <2>3
<1> QED BY <1>2, <1>4 DEF Holders

(* A response that is handled completes the oldest command, or nothing. *)
LEMMA CompleteSteps ==
    ASSUME ~EarlyReply, Capacity < CmdSlots, TypeOK, NoConcurrentAdds, Followed, inQ # <<>>,
           CompleteOldest(Head(inQ)), adder' = adder, threadRunning' = threadRunning,
           serial # "start", serial' # "start"
    PROVE  [Pipeline!Next]_Pipeline!vars
<1> DEFINE id == Head(pendingDones)
<1>0. pendingDones # <<>> /\ pendingDones \in Seq(Ids) /\ HandlersKept
  BY AnsweredHasReturned, FollowedIsQueued, TypeFacts
<1>1. /\ ExecuteDone(id) /\ pendingDones' = Tail(pendingDones)
      /\ pendingCmds' = pendingCmds
  BY <1>0 DEF CompleteOldest, IsOldest, PeekPending, PopPending, DropOldest, ExecuteDone
<1>2. Waiting \in Seq(Callbacks) /\ Len(Waiting) = Len(pendingDones) /\ Waiting # <<>>
  BY <1>0, WaitingType, EmptySeq
<1>3. Head(Waiting) = HandlerOf(id) /\ Head(Waiting) \in Callbacks
  <2>1. CallbackOf(id) = HandlerOf(id)
    BY AnsweredHasReturned, CallbackIs
  <2>2. 1 \in DOMAIN pendingDones /\ id = pendingDones[1]
    BY <1>0, EmptySeq, LenProperties
  <2>3. Waiting[1] = CallbackOf(pendingDones[1])
    BY <2>2 DEF Waiting
  <2>4. Head(Waiting) = Waiting[1] /\ Head(Waiting) \in Callbacks
    BY <1>2, HeadTailProperties
  <2> QED BY <2>1, <2>2, <2>3, <2>4
<1>4. idle' = Append(idle, Head(Waiting))
  <2>1. "NULL" \notin Callbacks
    BY DEF Callbacks, cmdFuncMap
  <2> QED BY <1>1, <1>3, <2>1 DEF ExecuteDone
<1>5. Waiting' = Tail(Waiting)
  <2> DEFINE n == Len(pendingDones)  F(k) == Callback(adder, pendingCmds, k)
             r == Tail(pendingDones)
  <2>1. /\ n \in Nat \ {0} /\ DOMAIN pendingDones = 1 .. n
        /\ r \in Seq(Ids) /\ Len(r) = n - 1 /\ DOMAIN r = 1 .. n - 1
        /\ \A i \in 1 .. n - 1 : r[i] = pendingDones[i + 1]
    BY <1>0, EmptySeq, LenProperties, HeadTailProperties
  <2>2. Waiting = [i \in 1 .. n |-> F(pendingDones[i])]
    BY <2>1, WaitingIsSeen DEF Seen
  <2>3. Waiting' = [i \in 1 .. n - 1 |-> F(r[i])]
    BY <1>1, <2>1, WaitingIsSeenThen DEF Seen
  <2> HIDE DEF n, r, F
  <2>4. /\ Tail(Waiting) \in Seq(Callbacks) /\ Len(Tail(Waiting)) = n - 1
        /\ \A i \in 1 .. n - 1 : Tail(Waiting)[i] = Waiting[i + 1]
    BY <1>2, HeadTailProperties DEF n
  <2>5. ASSUME NEW i \in 1 .. n - 1
        PROVE  F(r[i]) = Tail(Waiting)[i]
    <3>1. i + 1 \in 1 .. n
      BY <2>1
    <3>2. F(r[i]) = F(pendingDones[i + 1])
      BY <2>1
    <3> QED BY <2>2, <2>4, <3>1, <3>2
  <2>6. Tail(Waiting) = [i \in 1 .. n - 1 |-> Tail(Waiting)[i]]
    BY <2>1, <2>4, LenProperties
  <2> QED BY <2>3, <2>5, <2>6
<1>6. Greeted' = Greeted
  BY DEF Greeted
<1>7. Pipeline!Complete
  BY <1>2, <1>4, <1>5, <1>6 DEF Pipeline!Complete
<1> QED BY <1>7 DEF Pipeline!Next

LEMMA ProcessSteps ==
    ASSUME ~EarlyReply, Capacity < CmdSlots, TypeOK, NoConcurrentAdds, Followed, Process
    PROVE  [Pipeline!Next]_Pipeline!vars
<1>0. serial # "start" /\ serial' # "start" /\ threadRunning' = threadRunning
  BY DEF Process
<1>1. ASSUME UNCHANGED <<pendingDones, pendingCmds, idle, adder>>
      PROVE  [Pipeline!Next]_Pipeline!vars
  <2>1. Waiting' = Waiting
    BY <1>1, SameWaiting
  <2>2. Greeted' = Greeted
    BY <1>0, <1>1 DEF Greeted
  <2> QED BY <1>0, <1>1, <2>1, <2>2, PipelineStutters
<1>2. ASSUME inQ # <<>>, HandleIncoming(Head(inQ)), adder' = adder
      PROVE  [Pipeline!Next]_Pipeline!vars
  <2>1. CASE CompleteOldest(Head(inQ))
    BY <1>0, <1>2, <2>1, CompleteSteps
  <2>2. CASE ~CompleteOldest(Head(inQ))
    <3>1. UNCHANGED <<pendingDones, handlerVars>>
      BY <1>2, <2>2 DEF HandleIncoming, RejectDone, HandleFailure, IgnoreStop
    <3> QED BY <1>1, <1>2, <3>1 DEF handlerVars
  <2> QED BY <2>1, <2>2
<1>3. CASE IdleReceive \/ DoneReceive
  BY <1>2, <1>3 DEF IdleReceive, DoneReceive, adderVars
<1>4. CASE IdleLook \/ DoneWait \/ DoneTimesOut \/ DoneLook
  BY <1>1, <1>4 DEF IdleLook, DoneWait, DoneTimesOut, DoneLook, adderVars, handlerVars
<1> QED BY <1>3, <1>4 DEF Process, ProcessOk

LEMMA InitPipeline == Init => Pipeline!Init
<1> SUFFICES ASSUME Init PROVE Pipeline!Init
  OBVIOUS
<1>1. pendingDones = <<>> /\ idle = <<>> /\ serial = "start" /\ threadRunning \in BOOLEAN
  BY DEF Init, MHInit, CommandHandlerInit
<1>2. Waiting = <<>>
  BY <1>1 DEF Waiting
<1> QED BY <1>1, <1>2 DEF Pipeline!Init, Greeted

LEMMA NextPipeline ==
    ASSUME ~EarlyReply, Capacity < CmdSlots, TypeOK, AdderShape, NoConcurrentAdds, TypeOK',
           NoConcurrentAdds', IdsInOrder, Followed, CallerCommands, [Next]_vars
    PROVE  [Pipeline!Next]_Pipeline!vars
<1>1. ASSUME UNCHANGED <<pendingDones, pendingCmds, idle, adder, threadRunning>>,
             serial' = serial \/ (serial # "start" /\ serial' # "start")
      PROVE  [Pipeline!Next]_Pipeline!vars
  <2>1. Waiting' = Waiting
    BY <1>1, SameWaiting
  <2>2. Greeted' = Greeted
    BY <1>1 DEF Greeted
  <2> QED BY <1>1, <2>1, <2>2, PipelineStutters
<1>2. CASE SendHello \/ \E cmd \in Commands : GuiRequest(cmd)
  BY <1>2, NumberSteps
<1>3. ASSUME NEW t \in Threads, Add(t) PROVE [Pipeline!Next]_Pipeline!vars
  BY <1>3, AddSteps
<1>4. CASE Peer \/ Clock \/ UNCHANGED vars
  BY <1>1, <1>4 DEF Peer, Clock, Tick, vars, mhVars, adderVars, handlerVars
<1>9. CASE EnterLoop
  <2>1. /\ serial = "hello" /\ adder[Serial].pc = "idle" /\ serial' = "poll"
        /\ UNCHANGED <<pendingDones, pendingCmds, adder, idle>> /\ threadRunning' = TRUE
    BY <1>9 DEF EnterLoop, mhVars, adderVars, handlerVars
  <2>2. Waiting' = Waiting /\ Greeted /\ Greeted'
    BY <2>1, SameWaiting DEF Greeted
  <2>3. Greeted' = Greeted
    BY <2>2 DEF Greeted
  <2>4. Pipeline!Open
    BY <2>1, <2>2, <2>3 DEF Pipeline!Open
  <2> QED BY <2>4 DEF Pipeline!Next
<1>5. CASE Gtk
  <2>1. idle # <<>> /\ idle' = Tail(idle)
        /\ UNCHANGED <<pendingDones, pendingCmds, adder, serial, threadRunning>>
    BY <1>5 DEF Gtk, GtkIdle, RunIdle, adderVars
  <2>2. Waiting' = Waiting /\ Greeted' = Greeted
    BY <2>1, SameWaiting DEF Greeted
  <2>3. Pipeline!Deliver
    BY <2>1, <2>2 DEF Pipeline!Deliver
  <2> QED BY <2>3 DEF Pipeline!Next
<1>6. CASE Poll \/ ProcessError
  <2>1. ASSUME NEW resp, NEW left, Received(resp, left)
        PROVE  /\ UNCHANGED <<pendingDones, pendingCmds, idle, adder, threadRunning>>
               /\ serial # "start" /\ serial' # "start"
    BY <2>1 DEF Received, AddIncoming, mhVars, adderVars, handlerVars
  <2>2. /\ UNCHANGED <<pendingDones, pendingCmds, idle, adder, threadRunning>>
        /\ serial # "start" /\ serial' # "start"
    BY <1>6, <2>1 DEF Poll, PollSilent, ReadOne, ReadMerged, ReadPart, ReadFails,
                      ProcessError, ProcessFails, mhVars, handlerVars
  <2> QED BY <1>1, <2>2
<1>7. CASE \E written \in WriteWorks : Send(written)
  BY <1>1, <1>7 DEF Send, SendCmd, adderVars, handlerVars
<1>8. CASE Process
  BY <1>8, ProcessSteps
<1> QED BY <1>2, <1>3, <1>4, <1>5, <1>6, <1>7, <1>8, <1>9 DEF Next, Loop

(* Until calls overlap, a connection does what the GUI relies on: commands  *)
(* finish in the order in which add_outgoing accepted them                  *)
(* (message_handler.c:184), HELLO_THERE once, and each DONE posts the       *)
(* callback of its own command, once, although DONEs, ERRORs and            *)
(* EMERGENCY_STOPs may be lost, repeated or merged and reads and writes may *)
(* fail.  For any number of commands, ids and slots, if answers come whole  *)
(* and do not overtake the call that sent their command, the GUI leaves     *)
(* HELLO_THERE to the serial thread, the table is longer than the queue,    *)
(* and a round of ids longer than the table with the refused calls.         *)
THEOREM PipelineImplemented ==
    ASSUME "split" \notin Faults, ~EarlyReply, "HELLO_THERE" \notin Commands,
           Capacity < CmdSlots, CmdSlots * (MaxRejected + 1) < IdMod
    PROVE  Spec => ImplementsPipeline
<1>1. Init => CallerCommands
  BY InitCommands
<1>2. Served /\ CallerCommands /\ [Next]_vars => CallerCommands'
  BY NextCommands DEF Served
<1>3. Served /\ Served' /\ CallerCommands /\ [Next]_vars
        => [Pipeline!Next \/ overlapped']_(Pipeline!vars)
  <2> SUFFICES ASSUME Served, Served', CallerCommands, [Next]_vars, ~overlapped'
               PROVE  [Pipeline!Next]_Pipeline!vars
    OBVIOUS
  <2>1. ~overlapped
    BY OverlapStays
  <2>2. /\ TypeOK /\ AdderShape /\ NoConcurrentAdds /\ IdsInOrder /\ Followed
        /\ TypeOK' /\ NoConcurrentAdds'
    BY <2>1 DEF Served, AdderShape
  <2> QED BY <2>2, NextPipeline
<1>4. Init => Pipeline!Init
  BY InitPipeline
<1> QED BY <1>1, <1>2, <1>3, <1>4, ServedHolds, PTL DEF Spec, ImplementsPipeline

================================================================================
