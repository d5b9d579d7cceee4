SPECIFICATION Spec
CONSTANTS
    Recipes = {1, 2}
    NoRecipe = none
    Capacity = 5
    CounterMod = 5
    Interrupts = {"switch"}
    MaxPosted = 4
PROPERTY
    DrinkReadyMeansReady
