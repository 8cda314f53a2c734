\* Two plans, on prod and dev, and the janitor, all at the same time.
SPECIFICATION Spec
CONSTANTS
    p1 = p1
    p2 = p2
    p3 = p3
    PlanIds = {p1, p2}
    EnvNames = {"prod", "dev"}
    Prod = "prod"
    NoPlan = NoPlan
    NoEnv = NoEnv
    Never = Never
    NoTable = NoTable
    MaxClock = 2
    EnvTtl = 1
    BatchSize = 1
    IgnoreTtl = {FALSE, TRUE}
    Overlap = {"plans", "janitor"}
    SnapshotIds <- MCSnapshotIds
    Name <- MCName
    Version <- MCVersion
    DevVersion <- MCDevVersion
    Ttl <- MCTtl
    Rank <- MCRank
    ForwardOnly <- MCForwardOnly
    Requests <- DevRequests
SYMMETRY PlanSymmetry
INVARIANTS
    EnvironmentsResolve
PROPERTIES
    NoLostUpdate
    RollbackTargetsKept
    RegistrySpec
\* Every plan has been applied, the clock has reached its bound: nothing is left to do.
CHECK_DEADLOCK FALSE
