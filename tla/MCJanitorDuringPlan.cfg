\* The janitor works while a plan is applied: a table is promoted and dropped.
SPECIFICATION Spec
CONSTANTS
    p1 = p1
    p2 = p2
    p3 = p3
    PlanIds = {p1, p2}
    EnvNames = {"prod", "dev"}
    Prod = "prod"
    NoPlan = NoPlan
    NoEnv = NoEnv
    Never = Never
    NoTable = NoTable
    MaxClock = 3
    EnvTtl = 1
    BatchSize = 1
    IgnoreTtl = {FALSE}
    Overlap = {"janitor"}
    SnapshotIds <- MCSnapshotIds
    Name <- MCName
    Version <- MCVersion
    DevVersion <- MCDevVersion
    Ttl <- MCTtl
    Rank <- MCRank
    ForwardOnly <- MCForwardOnly
    Requests <- ProdRequests
SYMMETRY PlanSymmetry
PROPERTIES
    DroppedTablesUnused
\* Every plan has been applied, the clock has reached its bound: nothing is left to do.
CHECK_DEADLOCK FALSE
