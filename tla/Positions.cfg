SPECIFICATION Spec
CONSTANTS
    IngredientList <- File
    IconFiles = {1, 2, 3, 5}
    NoIngredient = none
    ByteMod = 4
INVARIANTS
    TypeOK
    NoDuplicates
    ShownIsActive
    OrderFindsPlaces
CHECK_DEADLOCK FALSE
