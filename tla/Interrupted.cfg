SPECIFICATION Spec
CONSTANTS
    Recipes = {1, 2}
    NoRecipe = none
    Capacity = 5
    CounterMod = 5
    Interrupts = {"switch", "error", "read", "id"}
    MaxPosted = 4
INVARIANTS
    TypeOK
    NoNullRecipe
    NoSecondMove
    SwitchShowsConnection
PROPERTIES
    UsesPipeline
