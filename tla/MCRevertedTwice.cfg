\* A model is reverted to the same text for the second time.
SPECIFICATION StartedSpec
CONSTANTS
    Models <- MCModels
    Parents <- ChainParents
    Revisions <- ManyRevisions
    Output <- ManyOutput
    Additive <- MCAdditive
    Prod = "prod"
    Dev = "dev"
    Last = 2
    MaxPlans = 5
    NoStamp = NoStamp
    NoRow = NoRow
    Preview = Preview
    NoEnv = NoEnv
    NoSnapshot = NoSnapshot
INVARIANTS
    ProdIsRebuilt
CHECK_DEADLOCK FALSE
