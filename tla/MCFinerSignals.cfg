\* What is not ready is shorter than the units of the model: later units wait, too.
SPECIFICATION Spec
CONSTANTS
    Nodes <- BatchedNodes
    Horizon = 6
    WithStart = FALSE
    AfterTick = FALSE
    Signals <- FinerUnits
    Failures = FALSE
INVARIANT
    CaughtUp
