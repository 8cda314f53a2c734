\* Two plans of prod, for the same or for different versions of a model, and the janitor,
\* all at the same time.
SPECIFICATION FairTtlSpec
CONSTANTS
    p1 = p1
    p2 = p2
    p3 = p3
    PlanIds = {p1, p2}
    EnvNames = {"prod"}
    Prod = "prod"
    NoPlan = NoPlan
    NoEnv = NoEnv
    Never = Never
    NoTable = NoTable
    MaxClock = 2
    EnvTtl = 1
    BatchSize = 1
    IgnoreTtl = {FALSE}
    Overlap = {"plans", "janitor"}
    SnapshotIds <- MCSnapshotIds
    Name <- MCName
    Version <- MCVersion
    DevVersion <- MCDevVersion
    Ttl <- MCTtl
    Rank <- MCRank
    ForwardOnly <- MCForwardOnly
    Requests <- NextVersion
PROPERTIES
    DemotedKeptForTtl
    PlansEnd
    JanitorEnds
\* Every plan has been applied, the clock has reached its bound: nothing is left to do.
CHECK_DEADLOCK FALSE
