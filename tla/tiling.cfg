SPECIFICATION Spec
CONSTANTS
    View = {v1, v2, v3}
    SheetNr = {0, 1}
    Users <- AllUsers
    NULL = NULL
    Detached = Detached
SYMMETRY ViewSymmetry
INVARIANTS TilesAreLinked TilesFollowOperations OperationsApply TiledViewsAreNormal ExchangeSwaps RestackKeepsOrder
CHECK_DEADLOCK FALSE
