------------------------------ MODULE Ordering_proofs ------------------------------
(***************************************************************************)
(* The invariants of the runs "ordering" and "interrupted", for every list *)
(* of recipes and every size of the queue.                                 *)
(***************************************************************************)
EXTENDS Ordering, FiniteSetTheorems, SequenceTheorems, TLAPS

USE RecipesAssumption, CounterAssumption, RecipesFit

--------------------------------------------------------------------------------
(* Counting the callbacks of a queue *)

Count(q, cb) == Cardinality(Places(q, cb))

LEMMA CallbacksDiffer ==
    /\ Axes = {"x", "y"}
    /\ Callbacks = {HelloDone, StepDone, MoveDone["x"], MoveDone["y"]}
    /\ HelloDone # StepDone
    /\ \A axis \in Axes : MoveDone[axis] # HelloDone /\ MoveDone[axis] # StepDone
    /\ MoveDone["x"] # MoveDone["y"]
<1>1. Axes = {"x", "y"}
  BY DEF Axes, MoveDone
<1> QED BY <1>1 DEF Callbacks, HelloDone, StepDone, MoveDone

LEMMA CountType ==
    ASSUME NEW q \in Seq(Callbacks), NEW cb
    PROVE  /\ IsFiniteSet(Places(q, cb))
           /\ Count(q, cb) \in Nat
           /\ Places(q, cb) \subseteq 1 .. Len(q)
<1>1. Places(q, cb) \subseteq 1 .. Len(q) /\ Len(q) \in Nat
  BY LenProperties DEF Places
<1>2. IsFiniteSet(1 .. Len(q))
  BY <1>1, FS_Interval
<1>3. IsFiniteSet(Places(q, cb))
  BY <1>1, <1>2, FS_Subset
<1> QED BY <1>1, <1>3, FS_CardinalityType DEF Count

LEMMA CountEmpty == \A cb : Count(<<>>, cb) = 0
  BY FS_EmptySet DEF Count, Places

LEMMA CountZero ==
    ASSUME NEW q \in Seq(Callbacks), NEW cb, Count(q, cb) = 0
    PROVE  \A i \in DOMAIN q : q[i] # cb
<1>1. Places(q, cb) = {}
  BY CountType, FS_EmptySet DEF Count
<1> QED BY <1>1 DEF Places

LEMMA CountAppend ==
    ASSUME NEW q \in Seq(Callbacks), NEW x \in Callbacks, NEW cb
    PROVE  Count(Append(q, x), cb) = Count(q, cb) + (IF x = cb THEN 1 ELSE 0)
<1> DEFINE r == Append(q, x)  n == Len(q) + 1
<1>1. /\ Len(q) \in Nat /\ DOMAIN q = 1 .. Len(q)
      /\ DOMAIN r = 1 .. n /\ r[n] = x
      /\ \A i \in 1 .. Len(q) : r[i] = q[i]
  BY AppendProperties, LenProperties
<1>2. IsFiniteSet(Places(q, cb)) /\ n \notin Places(q, cb) /\ Count(q, cb) \in Nat
  BY <1>1, CountType
<1> HIDE DEF r
<1>3. CASE x = cb
  <2>1. Places(r, cb) = Places(q, cb) \cup {n}
    BY <1>1, <1>3 DEF Places
  <2>2. Cardinality(Places(q, cb) \cup {n}) = Cardinality(Places(q, cb)) + 1
    BY <1>2, FS_AddElement
  <2> QED BY <1>3, <2>1, <2>2 DEF Count, r
<1>4. CASE x # cb
  <2>1. Places(r, cb) = Places(q, cb)
    BY <1>1, <1>4 DEF Places
  <2> QED BY <1>2, <1>4, <2>1 DEF Count, r
<1> QED BY <1>3, <1>4

(* Counting from the second place is counting the tail. *)
LEMMA CountTail ==
    ASSUME NEW q \in Seq(Callbacks), q # <<>>, NEW cb
    PROVE  Count(q, cb) = Count(Tail(q), cb) + (IF Head(q) = cb THEN 1 ELSE 0)
<1> DEFINE r == Tail(q)  later == Places(q, cb) \ {1}
           up == [i \in Places(r, cb) |-> i + 1]
<1>1. /\ Len(q) \in Nat \ {0} /\ DOMAIN q = 1 .. Len(q) /\ Head(q) = q[1]
      /\ r \in Seq(Callbacks) /\ DOMAIN r = 1 .. Len(q) - 1
      /\ \A i \in 1 .. Len(q) - 1 : r[i] = q[i + 1]
  BY HeadTailProperties, LenProperties, EmptySeq
<1> HIDE DEF r
<1>2. Places(r, cb) = {i \in 1 .. Len(q) - 1 : q[i + 1] = cb}
  BY <1>1 DEF Places
<1>3. Places(q, cb) = {i \in 1 .. Len(q) : q[i] = cb}
  BY <1>1 DEF Places
<1>4. up \in Bijection(Places(r, cb), later)
  <2>1. up \in [Places(r, cb) -> later]
    BY <1>1, <1>2, <1>3
  <2>2. \A i, j \in Places(r, cb) : up[i] = up[j] => i = j
    BY <1>1, <1>2
  <2>3. \A k \in later : \E i \in Places(r, cb) : up[i] = k
    <3> SUFFICES ASSUME NEW k \in later PROVE k - 1 \in Places(r, cb) /\ up[k - 1] = k
      OBVIOUS
    <3>1. k \in 2 .. Len(q) /\ q[k] = cb
      BY <1>1, <1>3
    <3>2. k - 1 \in 1 .. Len(q) - 1 /\ (k - 1) + 1 = k
      BY <1>1, <3>1
    <3>3. k - 1 \in Places(r, cb)
      BY <1>2, <3>1, <3>2
    <3> QED BY <3>2, <3>3
  <2> QED BY <2>1, <2>2, <2>3 DEF Bijection, Injection, Surjection, IsInjective
<1>5. Cardinality(later) = Count(r, cb)
  BY <1>1, <1>4, CountType, FS_Bijection DEF ExistsBijection, Count
<1>6. /\ IsFiniteSet(Places(q, cb)) /\ Count(q, cb) \in Nat
      /\ Cardinality(later) = IF 1 \in Places(q, cb) THEN Count(q, cb) - 1 ELSE Count(q, cb)
  BY CountType, FS_RemoveElement DEF Count
<1>7. 1 \in Places(q, cb) <=> Head(q) = cb
  BY <1>1, <1>3
<1> QED BY <1>5, <1>6, <1>7 DEF r

(* Every callback of a queue is of one of the four kinds. *)
LEMMA CountAll ==
    ASSUME NEW q \in Seq(Callbacks)
    PROVE  Len(q) <= Count(q, HelloDone) + Count(q, StepDone)
                     + Count(q, MoveDone["x"]) + Count(q, MoveDone["y"])
<1> DEFINE H == Places(q, HelloDone)  S == Places(q, StepDone)
           X == Places(q, MoveDone["x"])  Y == Places(q, MoveDone["y"])
<1>1. /\ IsFiniteSet(H) /\ IsFiniteSet(S) /\ IsFiniteSet(X) /\ IsFiniteSet(Y)
      /\ Cardinality(H) \in Nat /\ Cardinality(S) \in Nat
      /\ Cardinality(X) \in Nat /\ Cardinality(Y) \in Nat
  BY CountType DEF Count
<1>2. 1 .. Len(q) \subseteq (H \cup S) \cup (X \cup Y)
  BY CallbacksDiffer, LenProperties DEF Places
<1> HIDE DEF H, S, X, Y
<1>3. /\ IsFiniteSet(H \cup S) /\ Cardinality(H \cup S) \in Nat
      /\ Cardinality(H \cup S) <= Cardinality(H) + Cardinality(S)
  <2>1. /\ IsFiniteSet(H \cup S)
        /\ Cardinality(H \cup S) = Cardinality(H) + Cardinality(S) - Cardinality(H \cap S)
    BY <1>1, FS_Union
  <2>2. Cardinality(H \cap S) \in Nat
    BY <1>1, FS_Intersection, FS_CardinalityType
  <2> QED BY <1>1, <2>1, <2>2, FS_CardinalityType
<1>4. /\ IsFiniteSet(X \cup Y) /\ Cardinality(X \cup Y) \in Nat
      /\ Cardinality(X \cup Y) <= Cardinality(X) + Cardinality(Y)
  <2>1. /\ IsFiniteSet(X \cup Y)
        /\ Cardinality(X \cup Y) = Cardinality(X) + Cardinality(Y) - Cardinality(X \cap Y)
    BY <1>1, FS_Union
  <2>2. Cardinality(X \cap Y) \in Nat
    BY <1>1, FS_Intersection, FS_CardinalityType
  <2> QED BY <1>1, <2>1, <2>2, FS_CardinalityType
<1> DEFINE A == H \cup S  B == X \cup Y
<1>5. /\ IsFiniteSet(A \cup B) /\ Cardinality(A \cup B) \in Nat
      /\ Cardinality(A \cup B) <= Cardinality(A) + Cardinality(B)
  <2> HIDE DEF A, B
  <2>1. /\ IsFiniteSet(A) /\ IsFiniteSet(B) /\ Cardinality(A) \in Nat /\ Cardinality(B) \in Nat
    BY <1>3, <1>4 DEF A, B
  <2>2. /\ IsFiniteSet(A \cup B)
        /\ Cardinality(A \cup B) = Cardinality(A) + Cardinality(B) - Cardinality(A \cap B)
    BY <2>1, FS_Union
  <2>3. Cardinality(A \cap B) \in Nat
    BY <2>1, FS_Intersection, FS_CardinalityType
  <2> QED BY <2>1, <2>2, <2>3, FS_CardinalityType
<1>6. Len(q) \in Nat /\ Cardinality(1 .. Len(q)) = Len(q)
  <2>1. Len(q) \in Nat
    BY LenProperties
  <2>2. Cardinality(1 .. Len(q)) = IF 1 > Len(q) THEN 0 ELSE Len(q) - 1 + 1
    BY <2>1, FS_Interval
  <2> QED BY <2>1, <2>2
<1>7. Cardinality(1 .. Len(q)) <= Cardinality(A \cup B)
  BY <1>2, <1>5, FS_Subset
<1> QED BY <1>1, <1>3, <1>4, <1>5, <1>6, <1>7 DEF Count, H, S, X, Y

--------------------------------------------------------------------------------
(* What holds whatever interrupts a connection *)

LEMMA QueueFacts ==
    ASSUME TypeOK, NEW cb
    PROVE  /\ Count(waiting, cb) \in Nat /\ Count(posted, cb) \in Nat
           /\ Outstanding(cb) = Count(waiting, cb) + Count(posted, cb)
           /\ Outstanding(cb) \in Nat
<1>1. Count(waiting, cb) \in Nat /\ Count(posted, cb) \in Nat
  BY CountType DEF TypeOK
<1> QED BY <1>1 DEF Outstanding, Count

(* What accepting a command, finishing one and running its callback do to  *)
(* the queues, and to the number of callbacks to come.                     *)
LEMMA AcceptFacts ==
    ASSUME TypeOK, NEW x \in Callbacks, Accept(x)
    PROVE  /\ waiting' \in Seq(Callbacks) /\ posted' = posted
           /\ \A cb : Outstanding(cb)' = Outstanding(cb)
                        + (IF Len(waiting) < Capacity /\ x = cb THEN 1 ELSE 0)
<1>1. waiting \in Seq(Callbacks) /\ posted' = posted
  BY DEF TypeOK, Accept
<1>2. ASSUME NEW cb
      PROVE  Outstanding(cb)' = Outstanding(cb)
                        + (IF Len(waiting) < Capacity /\ x = cb THEN 1 ELSE 0)
  <2>1. Outstanding(cb)' = Count(waiting', cb) + Count(posted, cb)
    BY <1>1 DEF Outstanding, Count
  <2>2. CASE Len(waiting) < Capacity
    <3>1. waiting' = Append(waiting, x)
      BY <2>2 DEF Accept
    <3>2. Count(waiting', cb) = Count(waiting, cb) + (IF x = cb THEN 1 ELSE 0)
      BY <1>1, <3>1, CountAppend
    <3> QED BY <2>1, <2>2, <3>2, QueueFacts
  <2>3. CASE ~(Len(waiting) < Capacity)
    <3>1. waiting' = waiting
      BY <2>3 DEF Accept
    <3> QED BY <2>1, <2>3, <3>1, QueueFacts
  <2> QED BY <2>2, <2>3
<1>3. waiting' \in Seq(Callbacks)
  BY <1>1, AppendProperties DEF Accept
<1> QED BY <1>1, <1>2, <1>3

LEMMA CompleteFacts ==
    ASSUME TypeOK, Pipeline!Complete
    PROVE  /\ waiting # <<>> /\ Head(waiting) \in Callbacks
           /\ waiting' = Tail(waiting) /\ posted' = Append(posted, Head(waiting))
           /\ waiting' \in Seq(Callbacks) /\ posted' \in Seq(Callbacks)
           /\ greeted' = greeted /\ threadRunning' = threadRunning
           /\ \A cb : Outstanding(cb)' = Outstanding(cb)
<1>1. /\ waiting # <<>> /\ waiting' = Tail(waiting)
      /\ posted' = Append(posted, Head(waiting)) /\ greeted' = greeted
      /\ threadRunning' = threadRunning
      /\ waiting \in Seq(Callbacks) /\ posted \in Seq(Callbacks)
  BY DEF Pipeline!Complete, TypeOK
<1>2. /\ Head(waiting) \in Callbacks /\ waiting' \in Seq(Callbacks)
      /\ posted' \in Seq(Callbacks)
  BY <1>1, HeadTailProperties, AppendProperties
<1>3. ASSUME NEW cb PROVE Outstanding(cb)' = Outstanding(cb)
  <2>1. Count(waiting, cb) = Count(waiting', cb) + (IF Head(waiting) = cb THEN 1 ELSE 0)
    BY <1>1, CountTail
  <2>2. Count(posted', cb) = Count(posted, cb) + (IF Head(waiting) = cb THEN 1 ELSE 0)
    BY <1>1, <1>2, CountAppend
  <2>3. Count(waiting', cb) \in Nat /\ Outstanding(cb)' = Count(waiting', cb) + Count(posted', cb)
    BY <1>2, CountType DEF Outstanding, Count
  <2> QED BY <2>1, <2>2, <2>3, QueueFacts
<1> QED BY <1>1, <1>2, <1>3

LEMMA RunFacts ==
    ASSUME TypeOK, NEW x \in Callbacks, Run(x)
    PROVE  /\ waiting' = waiting /\ greeted' = greeted
           /\ posted # <<>> /\ posted' \in Seq(Callbacks) /\ Len(posted') = Len(posted) - 1
           /\ Outstanding(x) > 0
           /\ \A cb : Outstanding(cb)' = Outstanding(cb) - (IF x = cb THEN 1 ELSE 0)
<1>1. /\ posted # <<>> /\ Head(posted) = x /\ posted' = Tail(posted)
      /\ waiting' = waiting /\ greeted' = greeted /\ posted \in Seq(Callbacks)
  BY DEF Run, Pipeline!Deliver, TypeOK
<1>2. posted' \in Seq(Callbacks) /\ Len(posted') = Len(posted) - 1
  BY <1>1, HeadTailProperties
<1>3. ASSUME NEW cb
      PROVE  /\ Outstanding(cb)' = Outstanding(cb) - (IF x = cb THEN 1 ELSE 0)
             /\ Outstanding(cb)' \in Nat
  <2>1. Count(posted, cb) = Count(posted', cb) + (IF x = cb THEN 1 ELSE 0)
    BY <1>1, CountTail
  <2>2. Count(posted', cb) \in Nat /\ Outstanding(cb)' = Count(waiting, cb) + Count(posted', cb)
    BY <1>1, <1>2, CountType DEF Outstanding, Count
  <2> QED BY <2>1, <2>2, QueueFacts
<1>4. Outstanding(x) > 0
  BY <1>3, QueueFacts
<1> QED BY <1>1, <1>2, <1>3, <1>4

LEMMA NewQueueFacts ==
    ASSUME TypeOK, waiting' = <<>>, posted' = posted, NEW cb
    PROVE  Outstanding(cb)' <= Outstanding(cb)
<1>1. Outstanding(cb)' = Count(<<>>, cb) + Count(posted, cb)
  BY DEF Outstanding, Count
<1> QED BY <1>1, CountEmpty, QueueFacts

(* No step disturbs the numbers when it leaves both queues alone. *)
LEMMA SameQueueFacts ==
    ASSUME waiting' = waiting, posted' = posted
    PROVE  \A cb : Outstanding(cb)' = Outstanding(cb)
  BY DEF Outstanding

LEMMA TypeStep == TypeOK /\ [Next]_vars => TypeOK'
<1> SUFFICES ASSUME TypeOK, [Next]_vars PROVE TypeOK'
  OBVIOUS
<1> USE CallbacksDiffer
<1>1. CASE UNCHANGED vars
  BY <1>1 DEF TypeOK, vars, order, widgets, connection, queue
<1>2. CASE SwitchOn \/ SwitchOff
  <2>1. <<>> \in Seq(Callbacks)
    BY EmptySeq
  <2> QED BY <1>2, <2>1 DEF TypeOK, SwitchOn, SwitchOff, Motor!On, Motor!Off, DisableOrder,
                            Motor!FlagsWhenOff, order, widgets, queue
<1>3. CASE SendHello
  BY <1>3, AcceptFacts DEF TypeOK, SendHello, Motor!Hello, order, widgets
<1>4. CASE EnterLoop \/ ErrorExit \/ ReadExit
  BY <1>4 DEF TypeOK, EnterLoop, ErrorExit, ReadExit, Motor!Enter, Motor!End, Motor!Ended,
              order, widgets, queue
<1>5. CASE Complete
  BY <1>5, CompleteFacts DEF TypeOK, Complete, order, widgets, connection
<1>6. CASE \E r \in Recipes : SelectRecipe(r)
  BY <1>6 DEF TypeOK, SelectRecipe, widgets, connection, queue
<1>7. CASE Order
  <2>1. activeRecipe + 1 \in Nat
    BY <1>7 DEF Order, TypeOK
  <2> QED BY <1>7, <2>1 DEF TypeOK, Order, Steps, DisableOrder, LockRecipe, connection, queue
<1>14. CASE OrderReleased
  BY <1>14 DEF TypeOK, OrderReleased, order, connection, queue
<1>8. CASE AddStep
  BY <1>8, AcceptFacts DEF TypeOK, AddStep, widgets, connection
<1>9. CASE StepHasNoPlace
  BY <1>9 DEF TypeOK, StepHasNoPlace, widgets, connection, queue
<1>10. ASSUME NEW axis \in Axes, Move(axis) PROVE TypeOK'
  <2>1. MoveDone[axis] \in Callbacks
    BY DEF Callbacks
  <2> QED BY <1>10, <2>1, AcceptFacts DEF TypeOK, Move, order, connection
<1>11. CASE RunHelloDone
  BY <1>11, RunFacts DEF TypeOK, RunHelloDone, order, connection
<1>12. CASE StepCounted \/ DrinkReady
  <2>1. Counted \in 0 .. CounterMod - 1
    BY DEF TypeOK, Counted
  <2>2. 0 \in 0 .. CounterMod - 1
    OBVIOUS
  <2>3. posted' \in Seq(Callbacks) /\ waiting' = waiting /\ greeted' = greeted
    BY <1>12, RunFacts DEF StepCounted, DrinkReady
  <2>4. CASE StepCounted
    BY <2>1, <2>3, <2>4 DEF TypeOK, StepCounted, widgets, connection
  <2>5. CASE DrinkReady
    BY <2>2, <2>3, <2>5 DEF TypeOK, DrinkReady, FinishOrder, connection
  <2> QED BY <1>12, <2>4, <2>5
<1>13. ASSUME NEW axis \in Axes, RunMoveDone(axis) PROVE TypeOK'
  <2>1. MoveDone[axis] \in Callbacks
    BY DEF Callbacks
  <2> QED BY <1>13, <2>1, RunFacts DEF TypeOK, RunMoveDone, EnableMove, order, connection
<1> QED BY <1>1, <1>2, <1>3, <1>4, <1>5, <1>6, <1>7, <1>8, <1>9, <1>10, <1>11, <1>12, <1>13,
           <1>14
        DEF Next, User, Serial, RunPosted

LEMMA TypeInit == Init => TypeOK
<1>1. <<>> \in Seq(Callbacks) /\ 0 \in 0 .. CounterMod - 1 /\ 0 \in Nat
  BY EmptySeq
<1> QED BY <1>1 DEF Init, TypeOK, OrderPage, ManualPage, Motor!Init

(* Every variable keeps its type: in particular the counter of steps and    *)
(* what the order callback still has to add.                                *)
THEOREM OrderingType == Spec => []TypeOK
  BY TypeInit, TypeStep, PTL DEF Spec

(* A step either leaves the switch and the thread alone or is one of Motor. *)
LEMMA MotorSteps == [Next]_vars => [Motor!Next]_connection
<1> SUFFICES ASSUME [Next]_vars, connection' # connection PROVE Motor!Next
  OBVIOUS
<1> QED BY DEF Next, User, Serial, RunPosted, SwitchOn, SwitchOff, SendHello, EnterLoop,
                Complete, ErrorExit, ReadExit, SelectRecipe, Order, OrderReleased, AddStep,
                StepHasNoPlace, Move, RunHelloDone, StepCounted, DrinkReady, RunMoveDone,
                vars, connection, Motor!Next,
                Pipeline!Complete, Pipeline!Deliver, Run

(* Orders use a connection only as Motor allows, which is what Connection   *)
(* implements.                                                              *)
THEOREM OrderingUsesMotor == Spec => Motor!Spec
<1>1. Init => Motor!Init
  BY DEF Init
<1>2. [Next]_vars => [Motor!Next]_(Motor!vars)
  BY MotorSteps DEF connection, Motor!vars
<1> QED BY <1>1, <1>2, PTL DEF Spec, Motor!Spec

LEMMA SwitchStep == SwitchShowsConnection /\ [Next]_vars => SwitchShowsConnection'
<1> SUFFICES ASSUME SwitchShowsConnection, [Motor!Next]_connection
             PROVE  SwitchShowsConnection'
  BY MotorSteps
<1> QED BY DEF SwitchShowsConnection, Motor!SwitchShowsConnection, Motor!Live, Motor!Next,
                Motor!On, Motor!Hello, Motor!Enter, Motor!End, Motor!Ended, Motor!Off, connection

(* However a connection is interrupted, a switch that shows off has no      *)
(* thread behind it that drives the machine.                                *)
THEOREM SwitchIsHonest == Spec => []SwitchShowsConnection
<1>1. Init => SwitchShowsConnection
  BY DEF Init, Motor!Init, SwitchShowsConnection, Motor!SwitchShowsConnection, Motor!Live
<1> QED BY <1>1, SwitchStep, PTL DEF Spec

(* Steps that neither submit a move nor finish one. *)
LEMMA OtherStepsKeepMoves ==
    ASSUME TypeOK, [Next]_vars, NEW axis \in Axes
    PROVE  \/ \E a \in Axes : Move(a) \/ RunMoveDone(a)
           \/ /\ moveSensitive' = moveSensitive
              /\ Outstanding(MoveDone[axis])' <= Outstanding(MoveDone[axis])
<1> DEFINE Kept == /\ moveSensitive' = moveSensitive
                   /\ Outstanding(MoveDone[axis])' <= Outstanding(MoveDone[axis])
<1> USE CallbacksDiffer
<1>0. Outstanding(MoveDone[axis]) \in Nat
  BY QueueFacts
<1>1. CASE UNCHANGED vars \/ SwitchOff \/ EnterLoop \/ ErrorExit \/ ReadExit
           \/ (\E r \in Recipes : SelectRecipe(r)) \/ Order \/ OrderReleased \/ StepHasNoPlace
  <2>1. waiting' = waiting /\ posted' = posted /\ moveSensitive' = moveSensitive
    BY <1>1 DEF vars, widgets, queue, SwitchOff, EnterLoop, ErrorExit, ReadExit, SelectRecipe,
                Order, OrderReleased, StepHasNoPlace
  <2> QED BY <1>0, <2>1, SameQueueFacts
<1>2. CASE SwitchOn
  BY <1>2, NewQueueFacts DEF SwitchOn, widgets
<1>3. CASE SendHello \/ AddStep
  BY <1>0, <1>3, AcceptFacts DEF SendHello, AddStep, widgets
<1>4. CASE Complete
  BY <1>0, <1>4, CompleteFacts DEF Complete, widgets
<1>5. CASE RunHelloDone \/ StepCounted \/ DrinkReady
  BY <1>0, <1>5, RunFacts DEF RunHelloDone, StepCounted, DrinkReady, widgets
<1> QED BY <1>1, <1>2, <1>3, <1>4, <1>5 DEF Next, User, Serial, RunPosted

LEMMA SecondMoveStep == TypeOK /\ NoSecondMove /\ [Next]_vars => NoSecondMove'
<1> SUFFICES ASSUME TypeOK, NoSecondMove, [Next]_vars, NEW axis \in Axes
             PROVE  Outstanding(MoveDone[axis])' <= IF moveSensitive'[axis] THEN 0 ELSE 1
  BY DEF NoSecondMove, Axes
<1>1. /\ Outstanding(MoveDone[axis]) <= IF moveSensitive[axis] THEN 0 ELSE 1
      /\ Outstanding(MoveDone[axis]) \in Nat
  BY QueueFacts DEF NoSecondMove
<1>2. moveSensitive \in [Axes -> BOOLEAN]
  BY DEF TypeOK
<1>3. ASSUME NEW a \in Axes, Move(a)
      PROVE  Outstanding(MoveDone[axis])' <= IF moveSensitive'[axis] THEN 0 ELSE 1
  <2>1. MoveDone[a] \in Callbacks /\ Accept(MoveDone[a]) /\ moveSensitive[a]
    BY <1>3 DEF Move, Callbacks
  <2>2. CASE a = axis
    <3>1. Outstanding(MoveDone[axis])' <= 0 + 1 /\ ~moveSensitive'[axis]
      BY <1>1, <1>2, <1>3, <2>1, <2>2, AcceptFacts DEF Move
    <3> QED BY <3>1
  <2>3. CASE a # axis
    <3>1. MoveDone[a] # MoveDone[axis]
      BY <2>3, CallbacksDiffer
    <3>2. moveSensitive'[axis] = moveSensitive[axis]
      BY <1>2, <1>3, <2>3 DEF Move
    <3> QED BY <1>1, <2>1, <3>1, <3>2, AcceptFacts
  <2> QED BY <2>2, <2>3
<1>4. ASSUME NEW a \in Axes, RunMoveDone(a)
      PROVE  Outstanding(MoveDone[axis])' <= IF moveSensitive'[axis] THEN 0 ELSE 1
  <2>1. MoveDone[a] \in Callbacks /\ Run(MoveDone[a])
    BY <1>4 DEF RunMoveDone, Callbacks
  <2>2. CASE a = axis
    BY <1>1, <2>1, <2>2, RunFacts
  <2>3. CASE a # axis
    <3>1. MoveDone[a] # MoveDone[axis]
      BY <2>3, CallbacksDiffer
    <3>2. moveSensitive'[axis] = moveSensitive[axis]
      BY <1>2, <1>4, <2>3 DEF RunMoveDone, EnableMove
    <3> QED BY <1>1, <2>1, <3>1, <3>2, RunFacts
  <2> QED BY <2>2, <2>3
<1>5. CASE /\ moveSensitive' = moveSensitive
           /\ Outstanding(MoveDone[axis])' <= Outstanding(MoveDone[axis])
  <2>1. Outstanding(MoveDone[axis])' \in Nat
    <3>1. TypeOK'
      BY TypeStep
    <3> QED BY <3>1, CountType DEF TypeOK, Outstanding, Count
  <2> QED BY <1>1, <1>5, <2>1
<1> QED BY <1>3, <1>4, <1>5, OtherStepsKeepMoves

LEMMA OutstandingNone == Init => \A cb : Outstanding(cb) = 0
<1>1. Init => waiting = <<>> /\ posted = <<>>
  BY DEF Init, Pipeline!Init
<1> QED BY <1>1, CountEmpty DEF Outstanding, Count

(* Whatever interrupts the connections, an axis is never ordered to move    *)
(* again while the callback of its last move may still come.                *)
THEOREM MovesComeOneByOne == Spec => []NoSecondMove
<1>1. Init => NoSecondMove
  <2> SUFFICES ASSUME Init PROVE NoSecondMove
    OBVIOUS
  <2>1. \A axis \in Axes : moveSensitive[axis] = TRUE /\ Outstanding(MoveDone[axis]) = 0
    BY OutstandingNone DEF Init, ManualPage
  <2> QED BY <2>1 DEF NoSecondMove
<1> QED BY <1>1, TypeInit, TypeStep, SecondMoveStep, PTL DEF Spec

LEMMA NullRecipeStep == TypeOK /\ NoNullRecipe /\ [Next]_vars => NoNullRecipe'
<1> SUFFICES ASSUME TypeOK, NoNullRecipe, [Next]_vars PROVE NoNullRecipe'
  OBVIOUS
<1>0. Outstanding(StepDone)' \in Nat /\ adding' \in Nat
  <2>1. TypeOK'
    BY TypeStep
  <2>2. waiting' \in Seq(Callbacks) /\ posted' \in Seq(Callbacks) /\ adding' \in Nat
    BY <2>1 DEF TypeOK
  <2> QED BY <2>2, CountType DEF Outstanding, Count
<1> SUFFICES ASSUME activeRecipe' = NoRecipe
             PROVE  Outstanding(StepDone)' + adding' = 0
  BY <1>0 DEF NoNullRecipe
<1> USE CallbacksDiffer
<1>1. activeRecipe = NoRecipe /\ ~Order
  <2>1. CASE \E r \in Recipes : SelectRecipe(r)
    BY <2>1 DEF SelectRecipe
  <2>2. CASE Order
    BY <2>2 DEF Order
  <2>3. activeRecipe' = activeRecipe \/ (\E r \in Recipes : SelectRecipe(r)) \/ Order
    BY DEF Next, User, Serial, RunPosted, SwitchOn, SwitchOff, SendHello, EnterLoop,
           Complete, ErrorExit, ReadExit, OrderReleased, AddStep, StepHasNoPlace, Move,
           RunHelloDone, StepCounted, DrinkReady, FinishOrder, RunMoveDone, vars, order
  <2> QED BY <2>1, <2>2, <2>3 DEF Order
<1>2. Outstanding(StepDone) = 0 /\ adding = 0
  <2>1. Outstanding(StepDone) \in Nat /\ adding \in Nat
    BY QueueFacts DEF TypeOK
  <2> QED BY <1>1, <2>1 DEF NoNullRecipe
<1>3. StepDone \in Callbacks
  OBVIOUS
<1>4. adding' = 0 /\ ~AddStep /\ ~StepCounted /\ ~DrinkReady
  <2>1. ~AddStep /\ ~StepHasNoPlace
    BY <1>2 DEF AddStep, StepHasNoPlace
  <2>2. ~StepCounted /\ ~DrinkReady
    BY <1>2, <1>3, RunFacts DEF StepCounted, DrinkReady
  <2> QED BY <1>1, <1>2, <2>1, <2>2 DEF Next, User, Serial, RunPosted, SwitchOn, SwitchOff,
             SendHello, EnterLoop, Complete, ErrorExit, ReadExit, SelectRecipe, OrderReleased,
             Move, RunHelloDone, RunMoveDone, vars, order
<1>5. Outstanding(StepDone)' <= 0
  <2>1. CASE UNCHANGED vars \/ SwitchOff \/ EnterLoop \/ ErrorExit \/ ReadExit
             \/ (\E r \in Recipes : SelectRecipe(r)) \/ OrderReleased \/ StepHasNoPlace
    <3>1. waiting' = waiting /\ posted' = posted
      BY <2>1 DEF vars, queue, SwitchOff, EnterLoop, ErrorExit, ReadExit, SelectRecipe,
                  OrderReleased, StepHasNoPlace
    <3> QED BY <1>2, <3>1, SameQueueFacts
  <2>2. CASE SwitchOn
    BY <1>2, <2>2, NewQueueFacts DEF SwitchOn
  <2>3. CASE SendHello
    BY <1>2, <2>3, AcceptFacts DEF SendHello
  <2>4. CASE Complete
    BY <1>2, <2>4, CompleteFacts DEF Complete
  <2>5. ASSUME NEW a \in Axes, Move(a) PROVE Outstanding(StepDone)' <= 0
    <3>1. MoveDone[a] \in Callbacks /\ MoveDone[a] # StepDone
      BY DEF Callbacks
    <3> QED BY <1>2, <2>5, <3>1, AcceptFacts DEF Move
  <2>6. CASE RunHelloDone
    BY <1>2, <2>6, RunFacts DEF RunHelloDone
  <2>7. ASSUME NEW a \in Axes, RunMoveDone(a) PROVE Outstanding(StepDone)' <= 0
    <3>1. MoveDone[a] \in Callbacks /\ MoveDone[a] # StepDone
      BY DEF Callbacks
    <3> QED BY <1>2, <2>7, <3>1, RunFacts DEF RunMoveDone
  <2> QED BY <1>1, <1>4, <2>1, <2>2, <2>3, <2>4, <2>5, <2>6, <2>7
          DEF Next, User, Serial, RunPosted
<1> QED BY <1>0, <1>4, <1>5

(* cb_cmd_step_done never finds activeRecipe_ NULL, also when it is run for *)
(* a step of an earlier connection.                                         *)
THEOREM StepsHaveRecipe == Spec => []NoNullRecipe
<1>1. Init => NoNullRecipe
  BY OutstandingNone DEF Init, NoNullRecipe
<1> QED BY <1>1, TypeInit, TypeStep, NullRecipeStep, PTL DEF Spec

--------------------------------------------------------------------------------
(* The order of steps and moves in a queue *)

StepsLast(q) ==
    \A i, j \in DOMAIN q : i < j /\ q[i] = StepDone => q[j] = StepDone
Undisturbed(q) ==
    \A i, j, k \in DOMAIN q :
        i < j /\ j < k /\ q[i] = StepDone /\ q[k] = StepDone => q[j] = StepDone

LEMMA TailKeepsOrder ==
    ASSUME NEW q \in Seq(Callbacks), q # <<>>, Undisturbed(q)
    PROVE  Undisturbed(Tail(q))
<1> DEFINE r == Tail(q)
<1>1. /\ Len(q) \in Nat \ {0} /\ DOMAIN q = 1 .. Len(q) /\ DOMAIN r = 1 .. Len(q) - 1
      /\ \A i \in 1 .. Len(q) - 1 : r[i] = q[i + 1]
  BY HeadTailProperties, LenProperties, EmptySeq
<1> HIDE DEF r
<1>2. ASSUME NEW i \in DOMAIN r, NEW j \in DOMAIN r, NEW k \in DOMAIN r,
             i < j, j < k, r[i] = StepDone, r[k] = StepDone
      PROVE  r[j] = StepDone
  <2>1. /\ i + 1 \in DOMAIN q /\ j + 1 \in DOMAIN q /\ k + 1 \in DOMAIN q
        /\ i + 1 < j + 1 /\ j + 1 < k + 1
    BY <1>1, <1>2
  <2>2. q[i + 1] = StepDone /\ q[k + 1] = StepDone /\ r[j] = q[j + 1]
    BY <1>1, <1>2
  <2> QED BY <2>1, <2>2 DEF Undisturbed
<1> QED BY <1>2 DEF Undisturbed, r

LEMMA TailKeepsLast ==
    ASSUME NEW q \in Seq(Callbacks), q # <<>>, StepsLast(q)
    PROVE  StepsLast(Tail(q))
<1> DEFINE r == Tail(q)
<1>1. /\ Len(q) \in Nat \ {0} /\ DOMAIN q = 1 .. Len(q) /\ DOMAIN r = 1 .. Len(q) - 1
      /\ \A i \in 1 .. Len(q) - 1 : r[i] = q[i + 1]
  BY HeadTailProperties, LenProperties, EmptySeq
<1> HIDE DEF r
<1>2. ASSUME NEW i \in DOMAIN r, NEW j \in DOMAIN r, i < j, r[i] = StepDone
      PROVE  r[j] = StepDone
  <2>1. i + 1 \in DOMAIN q /\ j + 1 \in DOMAIN q /\ i + 1 < j + 1
    BY <1>1, <1>2
  <2>2. q[i + 1] = StepDone /\ r[j] = q[j + 1]
    BY <1>1, <1>2
  <2> QED BY <2>1, <2>2 DEF StepsLast
<1> QED BY <1>2 DEF StepsLast, r

(* A step may be added while no other command has come behind one. *)
LEMMA AppendKeepsOrder ==
    ASSUME NEW q \in Seq(Callbacks), NEW x \in Callbacks, Undisturbed(q),
           x = StepDone => StepsLast(q)
    PROVE  Undisturbed(Append(q, x)) /\ (x = StepDone => StepsLast(Append(q, x)))
<1> DEFINE r == Append(q, x)  n == Len(q) + 1
<1>1. /\ Len(q) \in Nat /\ DOMAIN q = 1 .. Len(q) /\ DOMAIN r = 1 .. n
      /\ r[n] = x /\ \A i \in 1 .. Len(q) : r[i] = q[i]
  BY AppendProperties, LenProperties
<1> HIDE DEF r
<1>2. ASSUME NEW i \in DOMAIN r, NEW j \in DOMAIN r, NEW k \in DOMAIN r,
             i < j, j < k, r[i] = StepDone, r[k] = StepDone
      PROVE  r[j] = StepDone
  <2>1. i \in DOMAIN q /\ j \in DOMAIN q /\ q[i] = StepDone /\ r[j] = q[j]
    BY <1>1, <1>2
  <2>2. CASE k \in DOMAIN q
    BY <1>1, <1>2, <2>1, <2>2 DEF Undisturbed
  <2>3. CASE k \notin DOMAIN q
    <3>1. k = n
      BY <1>1, <2>3
    <3> QED BY <1>1, <1>2, <2>1, <3>1 DEF StepsLast
  <2> QED BY <2>2, <2>3
<1>3. ASSUME x = StepDone, NEW i \in DOMAIN r, NEW j \in DOMAIN r, i < j, r[i] = StepDone
      PROVE  r[j] = StepDone
  <2>1. i \in DOMAIN q /\ q[i] = StepDone
    BY <1>1, <1>3
  <2>2. CASE j \in DOMAIN q
    BY <1>1, <1>3, <2>1, <2>2 DEF StepsLast
  <2>3. CASE j \notin DOMAIN q
    BY <1>1, <1>3, <2>3
  <2> QED BY <2>2, <2>3
<1> QED BY <1>2, <1>3 DEF Undisturbed, StepsLast, r

(* A queue without steps has all its steps last. *)
LEMMA NoStepsLast ==
    ASSUME NEW q \in Seq(Callbacks), Count(q, StepDone) = 0 PROVE StepsLast(q)
  BY CountZero DEF StepsLast

--------------------------------------------------------------------------------
(* What holds while nothing interrupts a connection *)

Linked ==
    /\ thread \in {"none", "start", "hello", "loop"}
    /\ motorSwitch <=> thread # "none"
    /\ threadRunning <=> thread = "loop"
    /\ thread \in {"none", "start"} => waiting = <<>>
    /\ thread # "loop" => posted = <<>>
    /\ thread = "start" => ~greeted
    /\ thread \in {"hello", "loop"} => greeted

(* The order button is offered to a greeted connection without an order,    *)
(* and is down, with the list of recipes locked, exactly during one.        *)
Controls ==
    /\ orderActive <=> ~comboSensitive
    /\ orderSensitive => thread = "loop" /\ comboSensitive /\ Outstanding(HelloDone) = 0
    /\ ~comboSensitive =>
          /\ thread = "loop" /\ Outstanding(HelloDone) = 0
          /\ activeRecipe # NoRecipe /\ stepDone < Steps
    /\ Outstanding(HelloDone) <= 1

StepsAreLast == adding > 0 => StepsLast(waiting)

(* StepsAccounted alone does not say who may add to the queue, nor that it  *)
(* has room: that needs to know where the thread is and what the buttons    *)
(* offer.                                                                   *)
HealthyInv ==
    /\ TypeOK /\ Linked /\ Controls /\ StepsAreLast
    /\ StepsAccounted /\ OrderIsUndisturbed /\ ButtonsFollowMoves

LEMMA HealthyFacts ==
    ASSUME HealthyInv
    PROVE  /\ Outstanding(StepDone) \in Nat /\ Outstanding(HelloDone) \in Nat
           /\ stepDone \in Nat /\ adding \in Nat
           /\ comboSensitive => stepDone = 0 /\ adding = 0 /\ Outstanding(StepDone) = 0
           /\ ~comboSensitive =>
                  /\ activeRecipe \in Recipes /\ Steps \in Nat /\ Steps < CounterMod
                  /\ Steps + 2 <= Capacity
                  /\ stepDone + Outstanding(StepDone) + adding = Steps
           /\ adding > 0 => ~comboSensitive
           /\ Undisturbed(waiting)
<1>1. /\ Outstanding(StepDone) \in Nat /\ Outstanding(HelloDone) \in Nat
      /\ stepDone \in Nat /\ adding \in Nat
  BY QueueFacts DEF HealthyInv, TypeOK
<1>2. ~comboSensitive => /\ activeRecipe \in Recipes /\ Steps \in Nat /\ Steps < CounterMod
                         /\ Steps + 2 <= Capacity
  <2> SUFFICES ASSUME ~comboSensitive
               PROVE  /\ activeRecipe \in Recipes /\ Steps \in Nat /\ Steps < CounterMod
                      /\ Steps + 2 <= Capacity
    OBVIOUS
  <2>1. activeRecipe \in Recipes
    BY DEF HealthyInv, Controls, TypeOK
  <2> QED BY <2>1 DEF Steps
<1>3. /\ comboSensitive => stepDone + Outstanding(StepDone) + adding = 0
      /\ ~comboSensitive => stepDone + Outstanding(StepDone) + adding = Steps
  BY DEF HealthyInv, StepsAccounted
<1> QED BY <1>1, <1>2, <1>3 DEF HealthyInv, OrderIsUndisturbed, Undisturbed

(* The queue has room for whatever can be added to it. *)
LEMMA QueueHasRoom ==
    ASSUME HealthyInv
    PROVE  /\ adding > 0 => Len(waiting) < Capacity
           /\ thread = "start" => Len(waiting) < Capacity
           /\ \A axis \in Axes : GtkFree /\ moveSensitive[axis] => Len(waiting) < Capacity
<1> DEFINE h == Outstanding(HelloDone)  s == Outstanding(StepDone)
           x == Outstanding(MoveDone["x"])  y == Outstanding(MoveDone["y"])
<1>1. TypeOK /\ waiting \in Seq(Callbacks) /\ Len(waiting) \in Nat
  BY LenProperties DEF HealthyInv, TypeOK
<1>2. Len(waiting) <= h + s + x + y /\ h \in Nat /\ s \in Nat /\ x \in Nat /\ y \in Nat
  <2>1. Len(waiting) <= Count(waiting, HelloDone) + Count(waiting, StepDone)
                        + Count(waiting, MoveDone["x"]) + Count(waiting, MoveDone["y"])
    BY <1>1, CountAll
  <2>2. /\ Count(waiting, HelloDone) <= h /\ Count(waiting, StepDone) <= s
        /\ Count(waiting, MoveDone["x"]) <= x /\ Count(waiting, MoveDone["y"]) <= y
        /\ h \in Nat /\ s \in Nat /\ x \in Nat /\ y \in Nat
        /\ Count(waiting, HelloDone) \in Nat /\ Count(waiting, StepDone) \in Nat
        /\ Count(waiting, MoveDone["x"]) \in Nat /\ Count(waiting, MoveDone["y"]) \in Nat
    BY <1>1, QueueFacts
  <2> HIDE DEF h, s, x, y
  <2> QED BY <1>1, <2>1, <2>2
<1>3. /\ x = (IF moveSensitive["x"] THEN 0 ELSE 1)
      /\ y = (IF moveSensitive["y"] THEN 0 ELSE 1)
  BY CallbacksDiffer DEF HealthyInv, ButtonsFollowMoves
<1>4. h <= 1 /\ (~comboSensitive => h = 0)
  BY DEF HealthyInv, Controls
<1>5. comboSensitive => s = 0
  BY HealthyFacts
<1>6. ~comboSensitive => Steps + 2 <= Capacity /\ Steps \in Nat /\ s + adding <= Steps
  BY HealthyFacts
<1> HIDE DEF h, s, x, y
<1>7. ASSUME adding > 0 PROVE Len(waiting) < Capacity
  <2>1. ~comboSensitive /\ adding \in Nat
    BY <1>7, HealthyFacts
  <2> QED BY <1>1, <1>2, <1>3, <1>4, <1>6, <1>7, <2>1
<1>8. ASSUME thread = "start" PROVE Len(waiting) < Capacity
  <2>1. waiting = <<>>
    BY <1>8 DEF HealthyInv, Linked
  <2> QED BY <2>1, EmptySeq
<1>9. ASSUME NEW axis \in Axes, GtkFree, moveSensitive[axis] PROVE Len(waiting) < Capacity
  <2>1. x + y <= 1
    BY <1>3, <1>9, CallbacksDiffer
  <2>2. adding = 0
    BY <1>9 DEF GtkFree
  <2>3. CASE comboSensitive
    BY <1>1, <1>2, <1>4, <1>5, <2>1, <2>3
  <2>4. CASE ~comboSensitive
    BY <1>1, <1>2, <1>4, <1>6, <2>1, <2>2, <2>4
  <2> QED BY <2>3, <2>4
<1> QED BY <1>7, <1>8, <1>9

LEMMA HealthyInit == Init => HealthyInv
<1> SUFFICES ASSUME Init PROVE HealthyInv
  OBVIOUS
<1>1. \A cb : Outstanding(cb) = 0
  BY OutstandingNone
<1>2. /\ waiting = <<>> /\ posted = <<>> /\ greeted = FALSE
      /\ thread = "none" /\ motorSwitch = FALSE /\ threadRunning = FALSE
      /\ stepDone = 0 /\ adding = 0 /\ orderSensitive = FALSE /\ orderActive = FALSE
      /\ comboSensitive = TRUE /\ \A axis \in Axes : moveSensitive[axis] = TRUE
  BY DEF Init, OrderPage, ManualPage, Motor!Init
<1>3. Linked
  BY <1>2 DEF Linked
<1>4. Controls
  BY <1>1, <1>2 DEF Controls
<1>5. StepsAreLast /\ StepsAccounted /\ ButtonsFollowMoves
  BY <1>1, <1>2 DEF StepsAreLast, StepsAccounted, ButtonsFollowMoves
<1>6. OrderIsUndisturbed
  BY <1>2 DEF OrderIsUndisturbed
<1> QED BY <1>3, <1>4, <1>5, <1>6, TypeInit DEF HealthyInv

(* A step that changes neither the order, the widgets nor the number of     *)
(* callbacks to come.                                                       *)
LEMMA QuietStep ==
    ASSUME HealthyInv, UNCHANGED <<order, widgets>>,
           \A cb : Outstanding(cb)' = Outstanding(cb), thread = "loop" => thread' = "loop"
    PROVE  Controls' /\ StepsAccounted' /\ ButtonsFollowMoves'
<1> USE DEF order, widgets
<1>1. Steps' = Steps
  BY DEF Steps
<1>2. Controls'
  BY <1>1 DEF HealthyInv, Controls
<1>3. StepsAccounted'
  BY <1>1 DEF HealthyInv, StepsAccounted
<1>4. ButtonsFollowMoves'
  BY DEF HealthyInv, ButtonsFollowMoves
<1> QED BY <1>2, <1>3, <1>4

(* A step that leaves the queue of commands alone, and adds no steps. *)
LEMMA SameWaiting ==
    ASSUME HealthyInv, waiting' = waiting, adding' = adding \/ adding' = 0
    PROVE  StepsAreLast' /\ OrderIsUndisturbed'
  BY DEF HealthyInv, StepsAreLast, StepsLast, OrderIsUndisturbed

LEMMA HealthySwitchOn == ASSUME HealthyInv, SwitchOn, TypeOK' PROVE HealthyInv'
<1>1. /\ motorSwitch = FALSE /\ thread = "none" /\ threadRunning = FALSE
      /\ waiting = <<>> /\ posted = <<>>
  BY DEF HealthyInv, TypeOK, Linked, SwitchOn, Motor!On
<1>2. /\ motorSwitch' = TRUE /\ thread' = "start" /\ threadRunning' = FALSE
      /\ waiting' = <<>> /\ posted' = <<>> /\ greeted' = FALSE /\ UNCHANGED <<order, widgets>>
  BY <1>1 DEF SwitchOn, Motor!On
<1>3. \A cb : Outstanding(cb)' = Outstanding(cb)
  BY <1>1, <1>2, SameQueueFacts
<1>4. Linked'
  BY <1>2 DEF Linked
<1>5. Controls' /\ StepsAccounted' /\ ButtonsFollowMoves'
  BY <1>1, <1>2, <1>3, QuietStep
<1>6. StepsAreLast' /\ OrderIsUndisturbed'
  BY <1>1, <1>2, SameWaiting DEF order
<1> QED BY <1>4, <1>5, <1>6 DEF HealthyInv

LEMMA HealthySwitchOff ==
    ASSUME HealthyInv, SwitchOff, Interrupts = {}, TypeOK' PROVE HealthyInv'
<1>1. /\ thread = "loop" /\ waiting = <<>> /\ posted = <<>> /\ adding = 0
      /\ orderSensitive' = FALSE
      /\ UNCHANGED <<order, orderActive, comboSensitive, moveSensitive, queue>>
  BY DEF SwitchOff, AtRest, GtkFree, DisableOrder
<1>2. motorSwitch' = FALSE /\ thread' = "none" /\ threadRunning' = FALSE
  BY <1>1 DEF SwitchOff, Motor!Off, Motor!FlagsWhenOff, Motor!Live
<1>3. \A cb : Outstanding(cb) = 0 /\ Outstanding(cb)' = 0
  BY <1>1, CountEmpty DEF Outstanding, Count, queue
<1>4. comboSensitive /\ ~orderActive
  <2>1. CASE ~comboSensitive
    <3>1. stepDone < Steps /\ stepDone + 0 + 0 = Steps
      BY <1>1, <1>3, <2>1, HealthyFacts DEF HealthyInv, Controls
    <3> QED BY <3>1, HealthyFacts
  <2> QED BY <2>1 DEF HealthyInv, Controls
<1>5. Linked'
  BY <1>1, <1>2 DEF Linked, queue
<1>6. Controls'
  BY <1>1, <1>3, <1>4 DEF Controls
<1>7. StepsAccounted'
  BY <1>1, <1>3, <1>4, HealthyFacts DEF StepsAccounted, order
<1>8. ButtonsFollowMoves'
  BY <1>1, <1>3 DEF HealthyInv, ButtonsFollowMoves
<1>9. StepsAreLast' /\ OrderIsUndisturbed'
  BY <1>1, SameWaiting DEF order, queue
<1> QED BY <1>5, <1>6, <1>7, <1>8, <1>9 DEF HealthyInv

LEMMA HealthyHello == ASSUME HealthyInv, SendHello, TypeOK' PROVE HealthyInv'
<1>1. /\ thread = "start" /\ thread' = "hello" /\ UNCHANGED <<motorSwitch, threadRunning>>
      /\ UNCHANGED <<order, widgets>> /\ Accept(HelloDone)
  BY DEF SendHello, Motor!Hello
<1>2. Len(waiting) < Capacity
  BY <1>1, QueueHasRoom
<1>3. /\ waiting' = Append(waiting, HelloDone) /\ greeted' = TRUE /\ posted' = posted
      /\ waiting = <<>> /\ posted = <<>>
  BY <1>1, <1>2 DEF SendHello, Accept, HealthyInv, Linked
<1>4. /\ Outstanding(HelloDone) = 0
      /\ \A cb : Outstanding(cb)' = Outstanding(cb) + (IF HelloDone = cb THEN 1 ELSE 0)
  <2>1. HelloDone \in Callbacks
    BY CallbacksDiffer
  <2>2. \A cb : Outstanding(cb)' = Outstanding(cb) + (IF HelloDone = cb THEN 1 ELSE 0)
    BY <1>1, <1>2, <2>1, AcceptFacts DEF HealthyInv
  <2> QED BY <1>3, <2>2, CountEmpty DEF Outstanding, Count
<1>5. /\ Outstanding(StepDone)' = Outstanding(StepDone)
      /\ \A axis \in Axes : Outstanding(MoveDone[axis])' = Outstanding(MoveDone[axis])
  BY <1>4, CallbacksDiffer, QueueFacts DEF HealthyInv
<1>6. ~orderSensitive /\ comboSensitive /\ ~orderActive /\ adding = 0
  BY <1>1, HealthyFacts DEF HealthyInv, Controls
<1>7. Linked'
  BY <1>1, <1>3 DEF HealthyInv, Linked
<1>8. Controls'
  BY <1>1, <1>4, <1>6 DEF Controls, widgets
<1>9. StepsAccounted'
  BY <1>1, <1>5, <1>6 DEF HealthyInv, StepsAccounted, order, widgets
<1>10. ButtonsFollowMoves'
  BY <1>1, <1>5 DEF HealthyInv, ButtonsFollowMoves, widgets
<1>11. StepsAreLast' /\ OrderIsUndisturbed'
  <2>1. Undisturbed(Append(waiting, HelloDone))
    BY HealthyFacts, AppendKeepsOrder, CallbacksDiffer DEF HealthyInv, TypeOK
  <2> QED BY <1>1, <1>3, <1>6, <2>1 DEF StepsAreLast, OrderIsUndisturbed, Undisturbed, order
<1> QED BY <1>7, <1>8, <1>9, <1>10, <1>11 DEF HealthyInv

LEMMA HealthyEnter == ASSUME HealthyInv, EnterLoop, TypeOK' PROVE HealthyInv'
<1>1. /\ thread = "hello" /\ thread' = "loop" /\ threadRunning' = TRUE
      /\ UNCHANGED <<motorSwitch, order, widgets, waiting, posted, greeted>>
  BY DEF EnterLoop, Motor!Enter, queue
<1>2. Linked'
  BY <1>1 DEF HealthyInv, Linked
<1>3. Controls' /\ StepsAccounted' /\ ButtonsFollowMoves'
  BY <1>1, SameQueueFacts, QuietStep
<1>4. StepsAreLast' /\ OrderIsUndisturbed'
  BY <1>1, SameWaiting DEF order
<1> QED BY <1>2, <1>3, <1>4 DEF HealthyInv

LEMMA HealthyComplete == ASSUME HealthyInv, Complete, TypeOK' PROVE HealthyInv'
<1>1. /\ thread = "loop" /\ Pipeline!Complete /\ UNCHANGED <<order, widgets, connection>>
      /\ TypeOK
  BY DEF Complete, HealthyInv, Pipeline!Complete, connection
<1>2. /\ waiting # <<>> /\ waiting' = Tail(waiting) /\ greeted' = greeted
      /\ \A cb : Outstanding(cb)' = Outstanding(cb)
  BY <1>1, CompleteFacts
<1>3. Linked'
  BY <1>1, <1>2 DEF HealthyInv, Linked, connection
<1>4. Controls' /\ StepsAccounted' /\ ButtonsFollowMoves'
  BY <1>1, <1>2, QuietStep DEF connection
<1>5. StepsAreLast'
  BY <1>1, <1>2, TailKeepsLast DEF HealthyInv, TypeOK, StepsAreLast, order
<1>6. OrderIsUndisturbed'
  <2>1. Undisturbed(Tail(waiting))
    BY <1>1, <1>2, HealthyFacts, TailKeepsOrder DEF TypeOK
  <2> QED BY <1>2, <2>1 DEF OrderIsUndisturbed, Undisturbed
<1> QED BY <1>3, <1>4, <1>5, <1>6 DEF HealthyInv

LEMMA HealthySelect ==
    ASSUME HealthyInv, NEW r \in Recipes, SelectRecipe(r), TypeOK' PROVE HealthyInv'
<1>1. /\ comboSensitive
      /\ UNCHANGED <<stepDone, adding, widgets, connection, queue>>
  BY DEF SelectRecipe
<1>2. \A cb : Outstanding(cb)' = Outstanding(cb)
  BY <1>1, SameQueueFacts DEF queue
<1>3. Linked'
  BY <1>1 DEF HealthyInv, Linked, connection, queue
<1>4. Controls'
  BY <1>1, <1>2 DEF HealthyInv, Controls, widgets, connection
<1>5. StepsAccounted'
  BY <1>1, <1>2 DEF HealthyInv, StepsAccounted, widgets
<1>6. ButtonsFollowMoves'
  BY <1>1, <1>2 DEF HealthyInv, ButtonsFollowMoves, widgets
<1>7. StepsAreLast' /\ OrderIsUndisturbed'
  BY <1>1, SameWaiting DEF queue
<1> QED BY <1>3, <1>4, <1>5, <1>6, <1>7 DEF HealthyInv

LEMMA HealthyOrder == ASSUME HealthyInv, Order, TypeOK' PROVE HealthyInv'
<1>1. /\ activeRecipe' = activeRecipe /\ activeRecipe \in Recipes
      /\ stepDone' = stepDone /\ adding' = Steps /\ Steps \in Nat /\ 0 < Steps /\ Steps' = Steps
      /\ orderSensitive' = FALSE /\ orderActive' = TRUE /\ comboSensitive' = FALSE
      /\ UNCHANGED <<moveSensitive, connection, queue>>
  BY DEF Order, DisableOrder, LockRecipe, HealthyInv, TypeOK, Steps
<1>2. /\ thread = "loop" /\ comboSensitive /\ Outstanding(HelloDone) = 0
      /\ stepDone = 0 /\ Outstanding(StepDone) = 0
  BY HealthyFacts DEF Order, HealthyInv, Controls
<1>3. \A cb : Outstanding(cb)' = Outstanding(cb)
  BY <1>1, SameQueueFacts DEF queue
<1>4. Linked'
  BY <1>1 DEF HealthyInv, Linked, connection, queue
<1>5. Controls'
  <2>1. activeRecipe' # NoRecipe /\ stepDone' < Steps'
    BY <1>1, <1>2
  <2> QED BY <1>1, <1>2, <1>3, <2>1 DEF Controls, connection
<1>6. StepsAccounted'
  <2>1. stepDone' + Outstanding(StepDone)' + adding' = Steps'
    BY <1>1, <1>2, <1>3
  <2> QED BY <1>1, <2>1 DEF StepsAccounted
<1>7. ButtonsFollowMoves'
  BY <1>1, <1>3 DEF HealthyInv, ButtonsFollowMoves
<1>8. StepsAreLast'
  <2>1. Count(waiting, StepDone) = 0
    BY <1>2, QueueFacts DEF HealthyInv
  <2> QED BY <1>1, <2>1, NoStepsLast DEF HealthyInv, TypeOK, StepsAreLast, queue
<1>9. OrderIsUndisturbed'
  BY <1>1 DEF HealthyInv, OrderIsUndisturbed, queue
<1> QED BY <1>4, <1>5, <1>6, <1>7, <1>8, <1>9 DEF HealthyInv

LEMMA HealthyAddStep == ASSUME HealthyInv, AddStep, TypeOK' PROVE HealthyInv'
<1>1. /\ adding > 0 /\ Accept(StepDone) /\ Len(waiting) < Capacity /\ adding' = adding - 1
      /\ UNCHANGED <<activeRecipe, stepDone, widgets, connection>> /\ Steps' = Steps
  BY QueueHasRoom DEF AddStep, Steps
<1>2. ~comboSensitive /\ thread = "loop" /\ greeted
  BY <1>1, HealthyFacts DEF HealthyInv, Controls, Linked
<1>3. waiting' = Append(waiting, StepDone) /\ greeted' = TRUE /\ posted' = posted
  BY <1>1, <1>2 DEF Accept, AddStep
<1>4. /\ Outstanding(StepDone)' = Outstanding(StepDone) + 1
      /\ Outstanding(HelloDone)' = Outstanding(HelloDone)
      /\ \A axis \in Axes : Outstanding(MoveDone[axis])' = Outstanding(MoveDone[axis])
  <2>1. \A cb : Outstanding(cb)' = Outstanding(cb) + (IF StepDone = cb THEN 1 ELSE 0)
    BY <1>1, AcceptFacts, CallbacksDiffer DEF HealthyInv
  <2> QED BY <2>1, CallbacksDiffer, QueueFacts DEF HealthyInv
<1>5. Linked'
  BY <1>1, <1>2, <1>3 DEF HealthyInv, Linked, connection
<1>6. Controls'
  BY <1>1, <1>4 DEF HealthyInv, Controls, widgets, connection
<1>7. StepsAccounted'
  <2>1. stepDone' + Outstanding(StepDone)' + adding' = Steps'
    BY <1>1, <1>2, <1>4, HealthyFacts
  <2> QED BY <1>1, <1>2, <2>1 DEF StepsAccounted, widgets
<1>8. ButtonsFollowMoves'
  BY <1>1, <1>4 DEF HealthyInv, ButtonsFollowMoves, widgets
<1>9. StepsAreLast' /\ OrderIsUndisturbed'
  <2>1. StepsLast(Append(waiting, StepDone)) /\ Undisturbed(Append(waiting, StepDone))
    BY <1>1, HealthyFacts, AppendKeepsOrder, CallbacksDiffer
       DEF HealthyInv, TypeOK, StepsAreLast
  <2> QED BY <1>3, <2>1 DEF StepsAreLast, OrderIsUndisturbed, Undisturbed
<1> QED BY <1>5, <1>6, <1>7, <1>8, <1>9 DEF HealthyInv

LEMMA HealthyMove ==
    ASSUME HealthyInv, NEW axis \in Axes, Move(axis), TypeOK' PROVE HealthyInv'
<1> DEFINE x == MoveDone[axis]
<1>1. /\ GtkFree /\ moveSensitive[axis] /\ threadRunning /\ Accept(x)
      /\ moveSensitive' = [moveSensitive EXCEPT ![axis] = FALSE]
      /\ UNCHANGED <<order, orderSensitive, orderActive, comboSensitive, connection>>
      /\ Len(waiting) < Capacity /\ adding = 0
  BY QueueHasRoom DEF Move, Connected, GtkFree
<1>2. x \in Callbacks /\ x # StepDone /\ x # HelloDone /\ thread = "loop" /\ greeted
  BY <1>1, CallbacksDiffer DEF Callbacks, HealthyInv, Linked
<1>3. waiting' = Append(waiting, x) /\ greeted' = TRUE /\ posted' = posted
  BY <1>1, <1>2 DEF Accept, Move
<1>4. \A cb : Outstanding(cb)' = Outstanding(cb) + (IF x = cb THEN 1 ELSE 0)
  BY <1>1, <1>2, AcceptFacts DEF HealthyInv
<1>5. /\ Outstanding(StepDone)' = Outstanding(StepDone)
      /\ Outstanding(HelloDone)' = Outstanding(HelloDone)
  BY <1>2, <1>4, QueueFacts DEF HealthyInv
<1>6. Steps' = Steps
  BY <1>1 DEF Steps, order
<1>7. Linked'
  BY <1>1, <1>2, <1>3 DEF HealthyInv, Linked, connection
<1>8. Controls'
  BY <1>1, <1>5, <1>6 DEF HealthyInv, Controls, connection, order
<1>9. StepsAccounted'
  BY <1>1, <1>5, <1>6 DEF HealthyInv, StepsAccounted, order
<1>10. ASSUME NEW a \in Axes
       PROVE  Outstanding(MoveDone[a])' = IF moveSensitive'[a] THEN 0 ELSE 1
  <2>1. /\ Outstanding(MoveDone[a]) = IF moveSensitive[a] THEN 0 ELSE 1
        /\ moveSensitive \in [Axes -> BOOLEAN]
    BY DEF HealthyInv, ButtonsFollowMoves, TypeOK
  <2>2. CASE a = axis
    BY <1>1, <1>4, <2>1, <2>2
  <2>3. CASE a # axis
    <3>1. MoveDone[a] # x /\ moveSensitive'[a] = moveSensitive[a]
      BY <1>1, <2>1, <2>3, CallbacksDiffer
    <3>2. Outstanding(MoveDone[a])' = Outstanding(MoveDone[a])
      BY <1>4, <3>1, QueueFacts DEF HealthyInv
    <3> QED BY <2>1, <3>1, <3>2
  <2> QED BY <2>2, <2>3
<1>11. StepsAreLast' /\ OrderIsUndisturbed'
  <2>1. Undisturbed(Append(waiting, x))
    BY <1>2, HealthyFacts, AppendKeepsOrder DEF HealthyInv, TypeOK
  <2> QED BY <1>1, <1>3, <2>1 DEF StepsAreLast, OrderIsUndisturbed, Undisturbed, order
<1>12. ButtonsFollowMoves'
  BY <1>10 DEF ButtonsFollowMoves, Axes
<1> QED BY <1>7, <1>8, <1>9, <1>11, <1>12 DEF HealthyInv

LEMMA HealthyRunHello == ASSUME HealthyInv, RunHelloDone, TypeOK' PROVE HealthyInv'
<1>1. /\ Run(HelloDone) /\ orderSensitive' = TRUE
      /\ UNCHANGED <<order, orderActive, comboSensitive, moveSensitive, connection>>
      /\ HelloDone \in Callbacks /\ TypeOK
  BY CallbacksDiffer DEF RunHelloDone, HealthyInv
<1>2. /\ waiting' = waiting /\ greeted' = greeted /\ posted # <<>>
      /\ Outstanding(HelloDone) > 0
      /\ \A cb : Outstanding(cb)' = Outstanding(cb) - (IF HelloDone = cb THEN 1 ELSE 0)
  BY <1>1, RunFacts
<1>3. thread = "loop" /\ comboSensitive /\ Outstanding(HelloDone) = 1
  BY <1>2, HealthyFacts DEF HealthyInv, Controls, Linked
<1>4. /\ Outstanding(HelloDone)' = 0
      /\ Outstanding(StepDone)' = Outstanding(StepDone)
      /\ \A axis \in Axes : Outstanding(MoveDone[axis])' = Outstanding(MoveDone[axis])
  <2>1. Outstanding(HelloDone)' = 0
    BY <1>2, <1>3
  <2>2. Outstanding(StepDone)' = Outstanding(StepDone)
    BY <1>1, <1>2, CallbacksDiffer, QueueFacts
  <2>3. ASSUME NEW axis \in Axes
        PROVE  Outstanding(MoveDone[axis])' = Outstanding(MoveDone[axis])
    BY <1>1, <1>2, CallbacksDiffer, QueueFacts
  <2> QED BY <2>1, <2>2, <2>3
<1>5. Linked'
  BY <1>1, <1>2, <1>3 DEF HealthyInv, Linked, connection
<1>6. Controls'
  BY <1>1, <1>3, <1>4 DEF HealthyInv, Controls, connection
<1>7. StepsAccounted'
  BY <1>1, <1>3, <1>4 DEF HealthyInv, StepsAccounted, order
<1>8. ButtonsFollowMoves'
  BY <1>1, <1>4 DEF HealthyInv, ButtonsFollowMoves
<1>9. StepsAreLast' /\ OrderIsUndisturbed'
  BY <1>1, <1>2, SameWaiting DEF order
<1> QED BY <1>5, <1>6, <1>7, <1>8, <1>9 DEF HealthyInv

(* What the callback of a step finds: the order it belongs to. *)
LEMMA StepFacts ==
    ASSUME HealthyInv, Run(StepDone)
    PROVE  /\ waiting' = waiting /\ greeted' = greeted /\ thread = "loop" /\ ~comboSensitive
           /\ adding = 0 /\ Counted = stepDone + 1
           /\ Outstanding(StepDone) > 0 /\ Outstanding(HelloDone) = 0
           /\ Outstanding(StepDone)' = Outstanding(StepDone) - 1
           /\ Outstanding(HelloDone)' = 0
           /\ \A axis \in Axes : Outstanding(MoveDone[axis])' = Outstanding(MoveDone[axis])
<1>1. /\ waiting' = waiting /\ greeted' = greeted /\ Outstanding(StepDone) > 0
      /\ \A cb : Outstanding(cb)' = Outstanding(cb) - (IF StepDone = cb THEN 1 ELSE 0)
  BY RunFacts, CallbacksDiffer DEF HealthyInv
<1>2. ~comboSensitive /\ adding = 0
  BY <1>1, HealthyFacts DEF Run, GtkFree
<1>3. thread = "loop" /\ Outstanding(HelloDone) = 0 /\ stepDone < Steps
  BY <1>2 DEF HealthyInv, Controls
<1>4. Counted = stepDone + 1
  <2>1. stepDone + 1 \in Nat /\ stepDone + 1 < CounterMod /\ CounterMod \in Nat \ {0}
    BY <1>2, <1>3, HealthyFacts
  <2> QED BY <2>1 DEF Counted
<1>5. /\ Outstanding(StepDone)' = Outstanding(StepDone) - 1
      /\ Outstanding(HelloDone)' = 0
      /\ \A axis \in Axes : Outstanding(MoveDone[axis])' = Outstanding(MoveDone[axis])
  <2>1. Outstanding(StepDone)' = Outstanding(StepDone) - 1
    BY <1>1
  <2>2. Outstanding(HelloDone)' = 0
    BY <1>1, <1>3, CallbacksDiffer
  <2>3. ASSUME NEW axis \in Axes
        PROVE  Outstanding(MoveDone[axis])' = Outstanding(MoveDone[axis])
    BY <1>1, CallbacksDiffer, QueueFacts DEF HealthyInv
  <2> QED BY <2>1, <2>2, <2>3
<1> QED BY <1>1, <1>2, <1>3, <1>4, <1>5

LEMMA HealthyStepCounted == ASSUME HealthyInv, StepCounted, TypeOK' PROVE HealthyInv'
<1>1. /\ Counted # MaxMoves /\ stepDone' = Counted /\ Run(StepDone)
      /\ UNCHANGED <<activeRecipe, adding, widgets, connection>>
      /\ Steps' = Steps /\ MaxMoves = Steps
  BY DEF StepCounted, Steps, MaxMoves
<1>2. stepDone' = stepDone + 1 /\ stepDone' < Steps'
  BY <1>1, StepFacts, HealthyFacts DEF HealthyInv, Controls
<1>3. Linked'
  BY <1>1, StepFacts DEF HealthyInv, Linked, connection
<1>4. Controls'
  BY <1>1, <1>2, StepFacts DEF HealthyInv, Controls, widgets, connection
<1>5. StepsAccounted'
  <2>1. stepDone' + Outstanding(StepDone)' + adding' = Steps'
    BY <1>1, <1>2, StepFacts, HealthyFacts
  <2> QED BY <1>1, <2>1, StepFacts DEF StepsAccounted, widgets
<1>6. ButtonsFollowMoves'
  BY <1>1, StepFacts DEF HealthyInv, ButtonsFollowMoves, widgets
<1>7. StepsAreLast' /\ OrderIsUndisturbed'
  BY <1>1, StepFacts, SameWaiting
<1> QED BY <1>3, <1>4, <1>5, <1>6, <1>7 DEF HealthyInv

LEMMA HealthyDrinkReady == ASSUME HealthyInv, DrinkReady, TypeOK' PROVE HealthyInv'
<1>1. /\ Counted = Steps /\ stepDone' = 0 /\ Run(StepDone)
      /\ orderSensitive' = TRUE /\ orderActive' = FALSE /\ comboSensitive' = TRUE
      /\ UNCHANGED <<activeRecipe, adding, moveSensitive, connection>>
  BY DEF DrinkReady, Steps, MaxMoves, FinishOrder
<1>2. Outstanding(StepDone)' = 0
  BY <1>1, StepFacts, HealthyFacts
<1>3. Linked'
  BY <1>1, StepFacts DEF HealthyInv, Linked, connection
<1>4. Controls'
  BY <1>1, StepFacts DEF Controls, connection
<1>5. StepsAccounted'
  BY <1>1, <1>2, StepFacts DEF StepsAccounted
<1>6. ButtonsFollowMoves'
  BY <1>1, StepFacts DEF HealthyInv, ButtonsFollowMoves
<1>7. StepsAreLast' /\ OrderIsUndisturbed'
  BY <1>1, StepFacts, SameWaiting
<1> QED BY <1>3, <1>4, <1>5, <1>6, <1>7 DEF HealthyInv

LEMMA HealthyMoveDone ==
    ASSUME HealthyInv, NEW axis \in Axes, RunMoveDone(axis), TypeOK' PROVE HealthyInv'
<1> DEFINE x == MoveDone[axis]
<1>1. /\ Run(x) /\ moveSensitive' = [moveSensitive EXCEPT ![axis] = TRUE]
      /\ UNCHANGED <<order, orderSensitive, orderActive, comboSensitive, connection>>
      /\ Steps' = Steps
  BY DEF RunMoveDone, EnableMove, Steps, order
<1>2. x \in Callbacks /\ x # StepDone /\ x # HelloDone
  BY CallbacksDiffer DEF Callbacks
<1>3. /\ waiting' = waiting /\ greeted' = greeted /\ posted # <<>> /\ Outstanding(x) > 0
      /\ \A cb : Outstanding(cb)' = Outstanding(cb) - (IF x = cb THEN 1 ELSE 0)
  BY <1>1, <1>2, RunFacts DEF HealthyInv
<1>4. /\ Outstanding(StepDone)' = Outstanding(StepDone)
      /\ Outstanding(HelloDone)' = Outstanding(HelloDone)
  BY <1>2, <1>3, QueueFacts DEF HealthyInv
<1>5. Linked'
  BY <1>1, <1>3 DEF HealthyInv, Linked, connection
<1>6. Controls'
  BY <1>1, <1>4 DEF HealthyInv, Controls, connection, order
<1>7. StepsAccounted'
  BY <1>1, <1>4 DEF HealthyInv, StepsAccounted, order
<1>8. ASSUME NEW a \in Axes
      PROVE  Outstanding(MoveDone[a])' = IF moveSensitive'[a] THEN 0 ELSE 1
  <2>1. /\ Outstanding(MoveDone[a]) = IF moveSensitive[a] THEN 0 ELSE 1
        /\ moveSensitive \in [Axes -> BOOLEAN]
    BY DEF HealthyInv, ButtonsFollowMoves, TypeOK
  <2>2. CASE a = axis
    BY <1>1, <1>3, <2>1, <2>2
  <2>3. CASE a # axis
    <3>1. MoveDone[a] # x /\ moveSensitive'[a] = moveSensitive[a]
      BY <1>1, <2>1, <2>3, CallbacksDiffer
    <3>2. Outstanding(MoveDone[a])' = Outstanding(MoveDone[a])
      BY <1>3, <3>1, QueueFacts DEF HealthyInv
    <3> QED BY <2>1, <3>1, <3>2
  <2> QED BY <2>2, <2>3
<1>9. StepsAreLast' /\ OrderIsUndisturbed'
  BY <1>1, <1>3, SameWaiting DEF order
<1>10. ButtonsFollowMoves'
  BY <1>8 DEF ButtonsFollowMoves, Axes
<1> QED BY <1>5, <1>6, <1>7, <1>9, <1>10 DEF HealthyInv

LEMMA HealthyStep == ASSUME Interrupts = {} PROVE HealthyInv /\ [Next]_vars => HealthyInv'
<1> SUFFICES ASSUME HealthyInv, [Next]_vars PROVE HealthyInv'
  OBVIOUS
<1>1. TypeOK'
  BY TypeStep DEF HealthyInv
<1>2. CASE UNCHANGED vars
  BY <1>1, <1>2 DEF HealthyInv, Linked, Controls, StepsAreLast, StepsLast, StepsAccounted,
        OrderIsUndisturbed, ButtonsFollowMoves, Outstanding, Steps,
        vars, order, widgets, connection, queue
<1>3. CASE User
  <2>1. ~OrderReleased
    BY DEF OrderReleased, HealthyInv, Controls
  <2> QED BY <1>1, <1>3, <2>1, HealthySwitchOn, HealthySwitchOff, HealthyOrder, HealthySelect,
             HealthyMove DEF User
<1>4. CASE Serial
  <2>1. ~ErrorExit /\ ~ReadExit
    BY DEF ErrorExit, ReadExit
  <2> QED BY <1>1, <1>4, <2>1, HealthyHello, HealthyEnter, HealthyComplete DEF Serial
<1>5. CASE AddStep \/ StepHasNoPlace
  <2>1. ~StepHasNoPlace
    BY DEF StepHasNoPlace
  <2> QED BY <1>1, <1>5, <2>1, HealthyAddStep
<1>6. CASE RunPosted
  BY <1>1, <1>6, HealthyRunHello, HealthyStepCounted, HealthyDrinkReady, HealthyMoveDone
     DEF RunPosted
<1> QED BY <1>2, <1>3, <1>4, <1>5, <1>6 DEF Next

(* Where the thread is, what the buttons offer and what the queue holds fit *)
(* together as long as nothing interrupts a connection.                     *)
THEOREM HealthyInvariant == ASSUME Interrupts = {} PROVE Spec => []HealthyInv
  BY HealthyInit, HealthyStep, PTL DEF Spec

(* From the click to the dialog every step of an order is counted once, for *)
(* recipes of every length that fits.                                       *)
THEOREM OrdersAreAccounted ==
    ASSUME Interrupts = {} PROVE Spec => []StepsAccounted
<1>1. HealthyInv => StepsAccounted
  BY DEF HealthyInv
<1> QED BY <1>1, HealthyInvariant, PTL

(* No manual move comes between the steps of an order, although they are    *)
(* added one by one and the thread takes the first ones meanwhile.          *)
THEOREM OrdersAreUndisturbed ==
    ASSUME Interrupts = {} PROVE Spec => []OrderIsUndisturbed
<1>1. HealthyInv => OrderIsUndisturbed
  BY DEF HealthyInv
<1> QED BY <1>1, HealthyInvariant, PTL

(* A manual button is off exactly while its move is under way. *)
THEOREM ButtonsAreHonest ==
    ASSUME Interrupts = {} PROVE Spec => []ButtonsFollowMoves
<1>1. HealthyInv => ButtonsFollowMoves
  BY DEF HealthyInv
<1> QED BY <1>1, HealthyInvariant, PTL

(* An active order button has a connection behind it. *)
THEOREM OrdersHaveConnection ==
    ASSUME Interrupts = {} PROVE Spec => []OrderNeedsConnection
<1>1. HealthyInv => OrderNeedsConnection
  BY DEF HealthyInv, Controls, OrderNeedsConnection
<1> QED BY <1>1, HealthyInvariant, PTL

(* No recipe is changed under the steps that were made from it. *)
THEOREM RecipeIsKept == ASSUME Interrupts = {} PROVE Spec => MixingKeepsRecipe
<1>1. HealthyInv /\ [Next]_vars
        => [Outstanding(StepDone) + adding > 0 => activeRecipe' = activeRecipe]_vars
  <2> SUFFICES ASSUME HealthyInv, Next, Outstanding(StepDone) + adding > 0
               PROVE  activeRecipe' = activeRecipe
    BY DEF vars
  <2>1. ~comboSensitive
    BY HealthyFacts
  <2> QED BY <2>1 DEF Next, User, Serial, RunPosted, SwitchOn, SwitchOff, SendHello, EnterLoop,
             Complete, ErrorExit, ReadExit, SelectRecipe, Order, OrderReleased, AddStep,
             StepHasNoPlace, Move, RunHelloDone, StepCounted, DrinkReady, FinishOrder,
             RunMoveDone, order
<1> QED BY <1>1, HealthyInvariant, PTL DEF Spec, MixingKeepsRecipe

--------------------------------------------------------------------------------
(* What the GUI asks of a connection *)

(* While the order callback adds its steps nobody turns the motor off, so   *)
(* the flag it has looked at stays up; and only the thread's first command  *)
(* is HELLO_THERE.                                                          *)
ConnectionInv ==
    /\ TypeOK
    /\ adding > 0 => threadRunning
    /\ thread = "start" => ~greeted

LEMMA ConnectionInit == Init => ConnectionInv
  BY TypeInit DEF Init, ConnectionInv, Motor!Init

LEMMA ConnectionStep == ConnectionInv /\ [Next]_vars => ConnectionInv'
<1> SUFFICES ASSUME ConnectionInv, [Next]_vars PROVE ConnectionInv'
  OBVIOUS
<1>1. TypeOK' /\ TypeOK /\ adding \in Nat
  BY TypeStep DEF ConnectionInv, TypeOK
<1>2. adding' > 0 => threadRunning'
  <2>1. CASE Order
    BY <2>1 DEF Order, Connected, connection
  <2>2. CASE AddStep
    BY <1>1, <2>2 DEF AddStep, ConnectionInv, connection
  <2>3. CASE SwitchOn \/ SwitchOff
    BY <2>3 DEF SwitchOn, SwitchOff, GtkFree, order
  <2>4. CASE StepHasNoPlace
    BY <2>4 DEF StepHasNoPlace
  <2>5. CASE Serial
    BY <2>5 DEF Serial, SendHello, EnterLoop, Complete, ErrorExit, ReadExit, Pipeline!Complete,
                Motor!Hello, Motor!Enter, Motor!End, ConnectionInv, order
  <2>6. CASE UNCHANGED vars \/ RunPosted \/ OrderReleased \/ (\E r \in Recipes : SelectRecipe(r))
             \/ (\E axis \in Axes : Move(axis))
    BY <2>6 DEF RunPosted, RunHelloDone, StepCounted, DrinkReady, RunMoveDone, OrderReleased,
                SelectRecipe, Move, ConnectionInv, vars, order, connection
  <2> QED BY <2>1, <2>2, <2>3, <2>4, <2>5, <2>6 DEF Next, User
<1>3. thread' = "start" => ~greeted'
  <2>1. CASE SwitchOn
    BY <2>1 DEF SwitchOn
  <2>2. CASE SwitchOff \/ SendHello \/ EnterLoop \/ ErrorExit \/ ReadExit
    BY <2>2 DEF SwitchOff, SendHello, EnterLoop, ErrorExit, ReadExit, Motor!Off, Motor!Hello,
                Motor!Enter, Motor!End, Motor!Ended
  <2> QED BY <2>1, <2>2 DEF Next, User, Serial, RunPosted, Complete, SelectRecipe, Order,
             OrderReleased, AddStep, StepHasNoPlace, Move, RunHelloDone, StepCounted, DrinkReady,
             RunMoveDone, Run, Pipeline!Complete, Pipeline!Deliver,
             ConnectionInv, vars, connection, queue
<1> QED BY <1>1, <1>2, <1>3 DEF ConnectionInv

(* A command of the GUI, accepted or refused. *)
LEMMA SubmitStep ==
    ASSUME ConnectionInv, NEW x \in Callbacks, x # HelloDone, Accept(x), threadRunning,
           greeted' = greeted, threadRunning' = threadRunning
    PROVE  Pipeline!Next \/ UNCHANGED queue
<1>1. CASE Len(waiting) < Capacity
  BY <1>1 DEF Accept, Pipeline!Next, Pipeline!Submit, Pipeline!HasRoom
<1>2. CASE ~(Len(waiting) < Capacity)
  BY <1>2 DEF Accept, queue
<1> QED BY <1>1, <1>2

LEMMA QueueStep ==
    ASSUME ConnectionInv, Next
    PROVE  Pipeline!Next \/ NewConnection \/ UNCHANGED queue
<1> USE CallbacksDiffer
<1>1. CASE SwitchOn
  BY <1>1 DEF SwitchOn, NewConnection
<1>2. CASE SendHello
  <2>1. Pipeline!Greet
    BY <1>2 DEF SendHello, Motor!Hello, Accept, ConnectionInv, Pipeline!Greet, Pipeline!HasRoom
  <2> QED BY <2>1 DEF Pipeline!Next
<1>3. CASE AddStep
  <2>1. Accept(StepDone) /\ threadRunning /\ UNCHANGED <<greeted, threadRunning>>
    BY <1>3 DEF AddStep, ConnectionInv, connection
  <2> QED BY <2>1, SubmitStep
<1>4. ASSUME NEW axis \in Axes, Move(axis) PROVE Pipeline!Next \/ UNCHANGED queue
  <2>1. /\ Accept(MoveDone[axis]) /\ threadRunning /\ UNCHANGED <<greeted, threadRunning>>
        /\ MoveDone[axis] \in Callbacks
    BY <1>4 DEF Move, Connected, connection, Callbacks
  <2> QED BY <2>1, SubmitStep
<1>5. CASE Complete \/ RunPosted
  BY <1>5 DEF Complete, RunPosted, RunHelloDone, StepCounted, DrinkReady, RunMoveDone, Run,
              Pipeline!Next
<1>6. CASE SwitchOff \/ EnterLoop \/ ErrorExit \/ ReadExit \/ Order \/ OrderReleased
           \/ StepHasNoPlace \/ \E r \in Recipes : SelectRecipe(r)
  BY <1>6 DEF SwitchOff, EnterLoop, ErrorExit, ReadExit, Order, OrderReleased, StepHasNoPlace,
              SelectRecipe
<1> QED BY <1>1, <1>2, <1>3, <1>4, <1>5, <1>6 DEF Next, User, Serial

(* Whatever interrupts a connection, and whatever flag the last one has     *)
(* left, the GUI keeps the contract that a connection implements: it        *)
(* submits only while threadRunning_ is up, HELLO_THERE comes once, and     *)
(* there are never more commands than the queue holds.                      *)
THEOREM GuiUsesPipeline == Spec => UsesPipeline
<1>1. ConnectionInv /\ [Next]_vars => [Pipeline!Next \/ NewConnection]_queue
  BY QueueStep DEF vars, queue
<1>2. Spec => []ConnectionInv
  BY ConnectionInit, ConnectionStep, PTL DEF Spec
<1> QED BY <1>1, <1>2, PTL DEF Spec, UsesPipeline

(* Whatever the user can click is accepted: a step that is added is queued, *)
(* and so is the move of a button that goes down.                           *)
THEOREM NothingIsRefused == ASSUME Interrupts = {} PROVE Spec => NothingRefused
<1>1. HealthyInv /\ [Next]_vars
        => [adding' < adding \/ moveSensitive' # moveSensitive
             => Len(waiting') + Len(posted') # Len(waiting) + Len(posted)]_vars
  <2> DEFINE Total == Len(waiting) + Len(posted)
  <2> SUFFICES ASSUME HealthyInv, Next, adding' < adding \/ moveSensitive' # moveSensitive
               PROVE  Total' # Total
    OBVIOUS
  <2>1. waiting \in Seq(Callbacks) /\ posted \in Seq(Callbacks)
    BY DEF HealthyInv, TypeOK
  <2>2. Len(waiting) \in Nat /\ Len(posted) \in Nat
    BY <2>1, LenProperties
  <2>3. ASSUME NEW x \in Callbacks, Accept(x), Len(waiting) < Capacity PROVE Total' # Total
    <3>1. waiting' = Append(waiting, x) /\ posted' = posted
      BY <2>3 DEF Accept
    <3>2. Len(waiting') = Len(waiting) + 1
      BY <2>1, <3>1, AppendProperties
    <3> QED BY <2>2, <3>1, <3>2
  <2>4. CASE AddStep
    BY <2>3, <2>4, QueueHasRoom, CallbacksDiffer DEF AddStep
  <2>5. ASSUME NEW axis \in Axes, Move(axis) PROVE Total' # Total
    BY <2>3, <2>5, QueueHasRoom DEF Move, Callbacks
  <2>6. ASSUME NEW axis \in Axes, RunMoveDone(axis) PROVE Total' # Total
    <3>1. waiting' = waiting /\ Len(posted') = Len(posted) - 1
      BY <2>6, RunFacts DEF RunMoveDone, Callbacks, HealthyInv
    <3> QED BY <2>2, <3>1
  <2>7. AddStep \/ \E axis \in Axes : Move(axis) \/ RunMoveDone(axis)
    <3>1. ~StepHasNoPlace
      BY DEF StepHasNoPlace
    <3>2. adding \in Nat /\ (Order => adding = 0 /\ adding' \in Nat)
      <4>1. Order => activeRecipe \in Recipes
        BY DEF Order, HealthyInv, TypeOK
      <4> QED BY <4>1 DEF Order, GtkFree, Steps, HealthyInv, TypeOK
    <3>3. CASE Order
      BY <3>2, <3>3 DEF Order
    <3> QED BY <3>1, <3>2, <3>3 DEF Next, User, Serial, RunPosted, SwitchOn, SwitchOff,
               SendHello, EnterLoop, Complete, ErrorExit, ReadExit, SelectRecipe, OrderReleased,
               RunHelloDone, StepCounted, DrinkReady, order, widgets
  <2> QED BY <2>4, <2>5, <2>6, <2>7
<1> QED BY <1>1, HealthyInvariant, PTL DEF Spec, NothingRefused

================================================================================
