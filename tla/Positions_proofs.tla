----------------------------- MODULE Positions_proofs -----------------------------
(***************************************************************************)
(* The invariants of the run "positions", for every ingredient file of at  *)
(* most eight lines, whichever icons load, and every width of the lookup.  *)
(***************************************************************************)
EXTENDS Positions, TLAPS

USE IngredientListAssumption, NoIngredientAssumption, ByteModAssumption
USE DEF Places, MaxIngredientPositions, ComboPosNum, PumpNum, PumpInvalid

(* Each combo box's own position leads back to its slot of the array. *)
LEMMA IndexOfPosition ==
    ASSUME NEW p \in Places PROVE ArrayIndex(IngPos(p)) = p
<1>1. CASE p < PumpNum
  BY <1>1 DEF ArrayIndex, IngPos
<1>2. CASE p >= PumpNum
  <2>1. IngPos(p) = [xPos |-> p - 2, pumpPos |-> PumpInvalid] /\ p - 2 # 0
    BY <1>2 DEF IngPos
  <2> QED BY <2>1 DEF ArrayIndex
<1> QED BY <1>1, <1>2

(* What the list store holds. *)
LEMMA RowsAreLines ==
    /\ Rows = 1 .. Len(IngredientList) /\ NoRow \notin Rows
    /\ \A row \in Rows : IngredientList[row] \in Ingredients
    /\ Ingredients \subseteq Nat /\ NoIngredient \notin Ingredients
    /\ \A row \in Rows : IconOf(row) \in 0 .. 8
<1>1. Rows = 1 .. Len(IngredientList) /\ Len(IngredientList) \in Nat
  <2>1. IngredientList \in Seq(Nat)
    OBVIOUS
  <2> QED BY <2>1 DEF Rows
<1>2. \A row \in Rows : IngredientList[row] \in Nat
  BY DEF Rows
<1>3. \A row \in Rows : IconOf(row) \in 0 .. 8
  BY <1>1 DEF IconOf, LoadIcon, ImageMissing
<1>4. NoRow \notin Rows
  BY <1>1 DEF NoRow
<1>5. /\ \A row \in Rows : IngredientList[row] \in Ingredients
      /\ Ingredients \subseteq Nat
  BY <1>2 DEF Ingredients
<1> QED BY <1>1, <1>3, <1>4, <1>5

(* What a step does: it empties a place, or puts the ingredient of a row   *)
(* that had no place into one, or ends the program.                        *)
LEMMA StepShape ==
    ASSUME TypeOK, Next
    PROVE  \/ \E p \in Places : Reset(p)
           \/ \E p \in Places, row \in Rows :
                 /\ ~AlreadyExists(IngredientList[row])
                 /\ activeIngredients' = [activeIngredients EXCEPT ![p] = IngredientList[row]]
                 /\ shown' = [shown EXCEPT ![p] = row]
                 /\ images' = [images EXCEPT ![p] = IconOf(row)]
                 /\ UNCHANGED aborted
  BY IndexOfPosition DEF Next, ResetClicked, ComboChanged

Inv == TypeOK /\ NoDuplicates /\ ShownIsActive

LEMMA InitInv == Init => Inv
<1> SUFFICES ASSUME Init PROVE Inv
  OBVIOUS
<1>1. TypeOK
  <2>1. /\ NoIngredient \in Ingredients \cup {NoIngredient} /\ NoRow \in Rows \cup {NoRow}
        /\ ImageLoading \in -1 .. 8
    BY DEF ImageLoading
  <2> QED BY <2>1 DEF Init, TypeOK
<1>2. NoDuplicates /\ ShownIsActive
  BY DEF Init, NoDuplicates, ShownIsActive, Agree
<1> QED BY <1>1, <1>2 DEF Inv

LEMMA ResetInv ==
    ASSUME Inv, ~aborted, NEW p \in Places, Reset(p) PROVE Inv'
<1> USE DEF Inv, TypeOK
<1>1. /\ shown' = [shown EXCEPT ![p] = NoRow]
      /\ images' = [images EXCEPT ![p] = ImageLoading]
  BY DEF Reset
<1>2. CASE p < ComboPosNum
  <2>1. /\ activeIngredients' = [activeIngredients EXCEPT ![p] = NoIngredient]
        /\ aborted' = aborted
    BY <1>2 DEF Reset, ResetIngredient, Emptied
  <2>2. TypeOK' BY <1>1, <2>1 DEF ImageLoading
  <2>3. NoDuplicates' BY <2>1 DEF NoDuplicates
  <2>4. ~aborted /\ \A q \in Places : Agree(q)
    BY DEF ShownIsActive
  <2>5. ASSUME NEW q \in Places PROVE Agree(q)'
    <3>1. CASE q = p
      BY <1>1, <2>1, <3>1 DEF Agree
    <3>2. CASE q # p
      <4>1. /\ activeIngredients'[q] = activeIngredients[q]
            /\ shown'[q] = shown[q] /\ images'[q] = images[q]
        BY <1>1, <2>1, <3>2
      <4> QED BY <4>1, <2>4 DEF Agree
    <3> QED BY <3>1, <3>2
  <2>6. ShownIsActive'
    BY <2>1, <2>4, <2>5 DEF ShownIsActive
  <2> QED BY <2>2, <2>3, <2>6
<1>3. CASE ~(p < ComboPosNum)
  <2>1. activeIngredients' = activeIngredients /\ aborted' = TRUE
    BY <1>3 DEF Reset, ResetIngredient
  <2>2. TypeOK' BY <1>1, <2>1 DEF ImageLoading
  <2>3. LostReset(p)'
    BY <1>1, <1>3 DEF LostReset
  <2>4. ASSUME NEW q \in Places PROVE Agree(q)' \/ LostReset(q)'
    <3>1. CASE q # p
      <4>1. /\ activeIngredients'[q] = activeIngredients[q]
            /\ shown'[q] = shown[q] /\ images'[q] = images[q]
        BY <1>1, <2>1, <3>1
      <4> QED BY <4>1 DEF ShownIsActive, Agree
    <3> QED BY <2>3, <3>1
  <2>5. ShownIsActive'
    BY <2>1, <2>3, <2>4 DEF ShownIsActive
  <2> QED BY <2>1, <2>2, <2>5 DEF NoDuplicates
<1> QED BY <1>2, <1>3

(* A row is chosen for a place, and its ingredient had none. *)
LEMMA ChosenInv ==
    ASSUME Inv, NEW p \in Places, NEW row \in Rows, ~AlreadyExists(IngredientList[row]),
           activeIngredients' = [activeIngredients EXCEPT ![p] = IngredientList[row]],
           shown' = [shown EXCEPT ![p] = row],
           images' = [images EXCEPT ![p] = IconOf(row)], ~aborted, UNCHANGED aborted
    PROVE  Inv'
<1> USE DEF Inv, TypeOK
<1>1. TypeOK'
  <2>1. /\ IngredientList[row] \in Ingredients
        /\ IconOf(row) \in -1 .. 8
    BY RowsAreLines
  <2> QED BY <2>1
<1>2. \A q \in Places : activeIngredients[q] # IngredientList[row]
  BY DEF AlreadyExists
<1>3. NoDuplicates' BY <1>2 DEF NoDuplicates
<1>4. ASSUME NEW q \in Places PROVE Agree(q)'
  <2>1. CASE q = p
    BY <2>1, RowsAreLines DEF Agree
  <2>2. CASE q # p
    <3>1. /\ activeIngredients'[q] = activeIngredients[q]
          /\ shown'[q] = shown[q] /\ images'[q] = images[q]
      BY <2>2
    <3> QED BY <3>1 DEF ShownIsActive, Agree
  <2> QED BY <2>1, <2>2
<1> QED BY <1>1, <1>3, <1>4 DEF ShownIsActive

LEMMA StepInv == Inv /\ [Next]_vars => Inv'
<1> SUFFICES ASSUME Inv, [Next]_vars PROVE Inv'
  OBVIOUS
<1>1. CASE UNCHANGED vars
  BY <1>1 DEF Inv, TypeOK, NoDuplicates, ShownIsActive, Agree, LostReset, vars
<1>2. CASE Next
  <2>1. ~aborted
    BY <1>2 DEF Next, ResetClicked, ComboChanged
  <2>2. CASE \E p \in Places : Reset(p)
    BY <2>1, <2>2, ResetInv
  <2> QED BY <1>2, <2>1, <2>2, StepShape, ChosenInv DEF Inv
<1> QED BY <1>1, <1>2

LEMMA Invariant == Spec => []Inv
  BY InitInv, StepInv, PTL DEF Spec

(* The page keeps its type, for every list. *)
THEOREM PositionsType == Spec => []TypeOK
  BY Invariant, PTL DEF Inv

(* No ingredient ever has two places. *)
THEOREM PlacesDiffer == Spec => []NoDuplicates
  BY Invariant, PTL DEF Inv

(* The boxes and images of every place show what the machine will use, but *)
(* for the one whose reset has just ended the program.                     *)
THEOREM PlacesAreShown == Spec => []ShownIsActive
  BY Invariant, PTL DEF Inv

--------------------------------------------------------------------------------
(* The lookup: a placed ingredient is found, where it is. *)

LEMMA PlacedIsFound ==
    ASSUME Inv, NEW ing \in Placed
    PROVE  \E p \in Places :
              /\ \A q \in Places : activeIngredients[q] = ing <=> q = p
              /\ \A q \in Places : FirstPlace(ing, q) <=> q = p
<1>1. ing \in Nat /\ ing < ByteMod /\ ing # NoIngredient
  BY RowsAreLines DEF Placed
<1>2. ing % ByteMod = ing
  BY <1>1
<1>3. PICK p \in Places : activeIngredients[p] = ing
  BY DEF Placed, AlreadyExists
<1>4. \A q \in Places : activeIngredients[q] = ing <=> q = p
  BY <1>1, <1>3 DEF Inv, NoDuplicates
<1>5. \A q \in Places : Holds(q, ing) <=> q = p
  BY <1>1, <1>2, <1>4 DEF Holds
<1>6. \A q \in Places : FirstPlace(ing, q) <=> q = p
  BY <1>5 DEF FirstPlace
<1> QED BY <1>4, <1>6

(* A place with a pump becomes the step of that pump. *)
LEMMA StepOfPump ==
    ASSUME NEW ing, NEW p \in Places, p < PumpNum,
           \A q \in Places : FirstPlace(ing, q) <=> q = p
    PROVE  Step(ing) = [xPos |-> 1, pump |-> p]
<1> DEFINE found == CHOOSE q \in Places : FirstPlace(ing, q)
<1>1. found = p
  OBVIOUS
<1>2. PositionById(ing) = [xPos |-> 0, pumpPos |-> p]
  BY <1>1 DEF PositionById
<1> HIDE DEF found
<1>3. PositionById(ing).xPos = 0 /\ PositionById(ing).pumpPos = p /\ p # PumpInvalid
  BY <1>2
<1> QED BY <1>3 DEF Step

LEMMA InvOrder == Inv => OrderFindsPlaces
<1> SUFFICES ASSUME Inv, NEW ing \in Placed
             PROVE  \E p \in Places :
                       /\ \A q \in Places : activeIngredients[q] = ing <=> q = p
                       /\ FirstPlace(ing, p)
                       /\ p < PumpNum => Step(ing) = [xPos |-> IngPos(p).xPos + 1,
                                                      pump |-> IngPos(p).pumpPos]
  BY DEF OrderFindsPlaces
<1>1. PICK p \in Places : /\ \A q \in Places : activeIngredients[q] = ing <=> q = p
                          /\ \A q \in Places : FirstPlace(ing, q) <=> q = p
  BY PlacedIsFound
<1>2. ASSUME p < PumpNum
      PROVE  Step(ing) = [xPos |-> IngPos(p).xPos + 1, pump |-> IngPos(p).pumpPos]
  <2>1. IngPos(p) = [xPos |-> 0, pumpPos |-> p]
    BY <1>2 DEF IngPos
  <2>2. Step(ing) = [xPos |-> 1, pump |-> p]
    BY <1>1, <1>2, StepOfPump
  <2> QED BY <2>1, <2>2
<1> QED BY <1>1, <1>2

(* Every ingredient that passes the check of an order is found again when  *)
(* the order becomes steps, in the only place that holds it, and one at a  *)
(* pump becomes the step of that pump.                                     *)
THEOREM OrdersFindPlaces == Spec => []OrderFindsPlaces
  BY Invariant, InvOrder, PTL

================================================================================
