\* Every graph, every failure, every interleaving.
SPECIFICATION MCSpec
CONSTANTS
    Nodes <- MCNodes
    TasksNums = {1, 2, 3}
INVARIANTS
    AsInSequence
PROPERTIES
    TraversalSpec
    RunEnds
\* The run ends.
CHECK_DEADLOCK FALSE
