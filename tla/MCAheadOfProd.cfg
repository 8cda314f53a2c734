\* Development is filled further than prod.
SPECIFICATION StartedSpec
CONSTANTS
    Models <- MCModels
    Parents <- ChainParents
    Revisions <- AddedBehind
    Output <- BehindOutput
    Additive <- MCAdditive
    Prod = "prod"
    Dev = "dev"
    Last = 2
    MaxPlans = 3
    NoStamp = NoStamp
    NoRow = NoRow
    Preview = Preview
    NoEnv = NoEnv
    NoSnapshot = NoSnapshot
INVARIANTS
    NothingWasMissing
CHECK_DEADLOCK FALSE
