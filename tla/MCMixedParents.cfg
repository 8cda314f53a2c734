\* A parent was broken in another plan, the other one adds a column in this one.
SPECIFICATION StartedSpec
CONSTANTS
    Models <- MCModels
    Parents <- JoinParents
    Revisions <- AddedBeside
    Output <- BesideOutput
    Additive <- MCAdditive
    Prod = "prod"
    Dev = "dev"
    Last = 1
    MaxPlans = 3
    NoStamp = NoStamp
    NoRow = NoRow
    Preview = Preview
    NoEnv = NoEnv
    NoSnapshot = NoSnapshot
INVARIANTS
    ProdIsRebuilt
CHECK_DEADLOCK FALSE
