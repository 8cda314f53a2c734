\* The batch that looks back fails, a newer one does not.
SPECIFICATION Spec
CONSTANTS
    Nodes <- BatchedNodes
    Horizon = 6
    WithStart = FALSE
    AfterTick = FALSE
    Signals <- NothingUnready
    Failures = TRUE
INVARIANT
    LookedBack
