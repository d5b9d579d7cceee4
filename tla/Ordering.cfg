SPECIFICATION FairSpec
CONSTANTS
    Recipes = {0, 1, 4}
    NoRecipe = none
    Capacity = 7
    CounterMod = 6
    Interrupts = {}
    MaxPosted = 8
INVARIANTS
    StepsAccounted
    OrderIsUndisturbed
    ButtonsFollowMoves
    OrderNeedsConnection
PROPERTIES
    MixingKeepsRecipe
    NothingRefused
    EventuallyReady
