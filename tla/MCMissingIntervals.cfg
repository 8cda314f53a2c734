\* Each kind of model, in half units of time.
SPECIFICATION Spec
CONSTANTS
    Nodes <- MCNodes
    Horizon = 6
    WithStart = FALSE
    AfterTick = FALSE
    Signals <- WholeUnits
    Failures = FALSE
INVARIANTS
    TypeOK
    WholeIntervals
    LookedBack
    CaughtUp
    RestatedAnew
