\* A card's window: half the retention.  A transaction may be any time late.
CONSTANTS
    Window = 2
    Retention = 4
    MaxEvents = 3
    High = 2
    Extreme = 3
    Skew = 1
    Horizon = 7
    MaxArrivals = 7
SPECIFICATION Spec
INVARIANTS TypeOK HoldsTheNewest NewestFlaggedExactly CountsItsWindow SweptIsForgettable
\* The clock and the arrivals are bounded.
CHECK_DEADLOCK FALSE
