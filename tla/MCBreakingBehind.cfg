\* A model breaks and the next one adds a column: the one behind them is not rebuilt.
SPECIFICATION Spec
CONSTANTS
    Models <- MCModels
    Parents <- ChainParents
    Revisions <- AddedBehind
    Output <- BehindOutput
    Additive <- MCAdditive
    Prod = "prod"
    Dev = "dev"
    Last = 1
    MaxPlans = 2
    NoStamp = NoStamp
    NoRow = NoRow
    Preview = Preview
    NoEnv = NoEnv
    NoSnapshot = NoSnapshot
INVARIANTS
    ProdIsRebuilt
CHECK_DEADLOCK FALSE
