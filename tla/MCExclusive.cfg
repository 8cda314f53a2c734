\* Three plans of prod and the janitor, one after the other; each may stop half way.
SPECIFICATION Spec
CONSTANTS
    p1 = p1
    p2 = p2
    p3 = p3
    PlanIds = {p1, p2, p3}
    EnvNames = {"prod", "dev"}
    Prod = "prod"
    NoPlan = NoPlan
    NoEnv = NoEnv
    Never = Never
    NoTable = NoTable
    MaxClock = 2
    EnvTtl = 1
    BatchSize = 2
    IgnoreTtl = {FALSE, TRUE}
    Overlap = {}
    SnapshotIds <- MCSnapshotIds
    Name <- MCName
    Version <- MCVersion
    DevVersion <- MCDevVersion
    Ttl <- MCTtl
    Rank <- MCRank
    ForwardOnly <- MCForwardOnly
    Requests <- ProdRequests
SYMMETRY PlanSymmetry
INVARIANTS
    FinalizedViews
    FinalizedTablesExist
    ProdUnpaused
\* Every plan has been applied, the clock has reached its bound: nothing is left to do.
CHECK_DEADLOCK FALSE
