-------------------------------- MODULE Positions --------------------------------
(***************************************************************************)
(* The ingredient page of src/callbacks_position.c: nine combo boxes, each *)
(* for the place of one ingredient (three pumps, six bar butlers), over    *)
(* the list store of src/drinklists.c, and the lookups with which          *)
(* src/proto_serial.c turns a recipe into steps of the machine.  The GTK   *)
(* main loop runs one callback at a time.                                  *)
(***************************************************************************)
EXTENDS Integers, Sequences

CONSTANTS IngredientList,  \* the ids in the ingredient file, line by line
          IconFiles,       \* the lines whose icon can be loaded
          NoIngredient,    \* the NULL of a place without one
          ByteMod          \* cb_get_position_by_id takes a uint8_t: 256

ASSUME IngredientListAssumption == IngredientList \in Seq(Nat) /\ Len(IngredientList) <= 8
ASSUME NoIngredientAssumption == NoIngredient \notin Nat
ASSUME ByteModAssumption == ByteMod \in Nat \ {0}

VARIABLES activeIngredients,  \* activeIngredients_, from 0
          shown,              \* the row that the combo box of a place shows
          images,             \* images_
          aborted             \* a failed assert() has ended the program

vars == <<activeIngredients, shown, images, aborted>>

(* lists_add_ingredients: row i of the store has the id of line i and the   *)
(* i-th of ICON_PATHS, of which the third is NULL.                          *)
Rows == DOMAIN IngredientList
NoRow == 0
Ingredients == {IngredientList[row] : row \in Rows}

ImageLoading == -1
ImageMissing == 0
IconPaths == (1 .. 8) \ {3}
LoadIcon(line) == IF line \in IconFiles THEN line ELSE ImageMissing
IconOf(row) == IF row \in IconPaths THEN LoadIcon(row) ELSE ImageMissing

(* PAGES_COMBO_POS_ONE .. SEVEN are 0 .. 6; the first has three pumps. *)
ComboPosNum == 7
PumpNum == 3
MaxIngredientPositions == ComboPosNum + PumpNum - 1
Places == 0 .. MaxIngredientPositions - 1
PumpInvalid == -1

(* selectPositions: where each combo box of page one says it is. *)
IngPos(place) ==
    IF place < PumpNum THEN [xPos |-> 0, pumpPos |-> place]
    ELSE [xPos |-> place - 2, pumpPos |-> PumpInvalid]

(* cb_get_array_index *)
BugArrayIndex(pos) == IF pos.xPos = 0 THEN pos.xPos + pos.pumpPos ELSE 1 + pos.xPos
ArrayIndex(pos) == IF pos.xPos = 0 THEN pos.xPos + pos.pumpPos ELSE 2 + pos.xPos

(* add_ing_selection, for each place *)
Init ==
    /\ activeIngredients = [p \in Places |-> NoIngredient]
    /\ shown = [p \in Places |-> NoRow]
    /\ images = [p \in Places |-> ImageLoading]
    /\ aborted = FALSE

BugAlreadyExists(ing) == \E p \in Places : p < PumpNum /\ activeIngredients[p] = ing
AlreadyExists(ing) == \E p \in Places : activeIngredients[p] = ing

(* cb_reset_ingredient bounds the place by the 7 positions, not the 9. *)
BugEmptied == 0
Emptied == NoIngredient
ResetIngredient(p) ==
    IF p < ComboPosNum
    THEN activeIngredients' = [activeIngredients EXCEPT ![p] = Emptied] /\ UNCHANGED aborted
    ELSE aborted' = TRUE /\ UNCHANGED activeIngredients

(* cb_reset_combo_box *)
Reset(p) ==
    /\ shown' = [shown EXCEPT ![p] = NoRow]
    /\ images' = [images EXCEPT ![p] = ImageLoading]
    /\ ResetIngredient(p)

(* cb_on_combo_position_changed: GTK emits it when another row is chosen.   *)
(* An ingredient that has a place already empties this one.                 *)
ComboChanged(p, row) ==
    /\ ~aborted
    /\ shown[p] # row
    /\ LET pos == ArrayIndex(IngPos(p))
       IN  IF AlreadyExists(IngredientList[row]) THEN Reset(pos)
           ELSE /\ activeIngredients' = [activeIngredients EXCEPT ![pos] = IngredientList[row]]
                /\ shown' = [shown EXCEPT ![p] = row]
                /\ images' = [images EXCEPT ![pos] = IconOf(row)]
                /\ UNCHANGED aborted

ResetClicked(p) == ~aborted /\ Reset(ArrayIndex(IngPos(p)))

Next == \E p \in Places : ResetClicked(p) \/ \E row \in Rows : ComboChanged(p, row)

Spec == Init /\ [][Next]_vars

--------------------------------------------------------------------------------
(* cb_get_position_by_id, for an id that, cut to a byte, has a place *)

Holds(p, id) == activeIngredients[p] # NoIngredient /\ activeIngredients[p] = id % ByteMod
FirstPlace(id, p) == Holds(p, id) /\ \A q \in Places : q < p => ~Holds(q, id)

PositionById(id) ==
    LET p == CHOOSE q \in Places : FirstPlace(id, q)
    IN  IF p < PumpNum THEN [xPos |-> 0, pumpPos |-> p]
        ELSE [xPos |-> p, pumpPos |-> PumpInvalid]

BugStep(id) == [xPos |-> PositionById(id).xPos + 1]

(* The step of one ingredient in proto_comms_start_new_mixing. *)
Step(id) ==
    LET pos == PositionById(id)
    IN  IF pos.xPos = 0 /\ pos.pumpPos # PumpInvalid
        THEN [xPos |-> 1, pump |-> pos.pumpPos]
        ELSE [xPos |-> pos.xPos + 1]

--------------------------------------------------------------------------------
TypeOK ==
    /\ activeIngredients \in [Places -> Ingredients \cup {NoIngredient}]
    /\ shown \in [Places -> Rows \cup {NoRow}]
    /\ images \in [Places -> -1 .. 8]
    /\ aborted \in BOOLEAN

(* However the nine boxes are changed and reset, no ingredient has two places. *)
NoDuplicates ==
    \A p, q \in Places :
        activeIngredients[p] = activeIngredients[q] /\ p # q
            => activeIngredients[p] = NoIngredient

(* The user sees what the machine will use: the three records of a place,   *)
(* two of them in GTK, agree after every callback.  The one exception is    *)
(* the reset of one of the last two places, which ends the program with its *)
(* ingredient still there.                                                  *)
Agree(p) ==
    IF activeIngredients[p] = NoIngredient
    THEN shown[p] = NoRow /\ images[p] = ImageLoading
    ELSE /\ shown[p] \in Rows /\ IngredientList[shown[p]] = activeIngredients[p]
         /\ images[p] = IconOf(shown[p])
LostReset(p) == p >= ComboPosNum /\ shown[p] = NoRow /\ images[p] = ImageLoading
ShownIsActive ==
    /\ \A p \in Places : Agree(p) \/ (aborted /\ LostReset(p))
    /\ aborted => \E p \in Places : LostReset(p)

(* An order that passed the check for missing ingredients finds each of     *)
(* them in the only place that holds it, as long as ids fit the byte that   *)
(* the lookup takes; and what stands at a pump is drawn from that pump.     *)
Placed == {ing \in Ingredients : ing < ByteMod /\ AlreadyExists(ing)}
OrderFindsPlaces ==
    \A ing \in Placed : \E p \in Places :
        /\ \A q \in Places : activeIngredients[q] = ing <=> q = p
        /\ FirstPlace(ing, p)
        /\ p < PumpNum => Step(ing) = [xPos |-> IngPos(p).xPos + 1, pump |-> IngPos(p).pumpPos]

--------------------------------------------------------------------------------
(* A statement of the sources that the code does not keep. *)

(* callbacks_position.h:39 "7 approchable positions on the X axis", of which *)
(* each combo box has its own as "x position": the machine fetches an        *)
(* ingredient where the box says it is.                                      *)
StepsFollowBoxes ==
    \A p \in Places :
        activeIngredients[p] \in Placed => Step(activeIngredients[p]).xPos = IngPos(p).xPos + 1

================================================================================
