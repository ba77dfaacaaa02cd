SPECIFICATION Spec
CONSTANTS
    Things <- ThingsDef
    Form <- FormDef
    Starts <- StartsDef
    PageSize = 2
    MaxArrivals = 2
    MaxRemovals = 1
INVARIANTS NothingMissed ShiftsAccountFor
PROPERTY Ends
CHECK_DEADLOCK FALSE
