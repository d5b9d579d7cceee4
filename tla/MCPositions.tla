-------------------------------- MODULE MCPositions --------------------------------
(* An ingredient file of five lines; the last has the id of the second, and *)
(* the fourth an id that does not fit the lookup's byte.                    *)
EXTENDS Positions

File == <<1, 2, 3, 5, 2>>

================================================================================
