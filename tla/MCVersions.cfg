\* Four plans on a chain of models, the first of them a plan of prod.
SPECIFICATION StartedSpec
CONSTANTS
    Models <- MCModels
    Parents <- ChainParents
    Revisions <- SomeRevisions
    Output <- SomeOutput
    Additive <- MCAdditive
    Prod = "prod"
    Dev = "dev"
    Last = 2
    MaxPlans = 4
    NoStamp = NoStamp
    NoRow = NoRow
    Preview = Preview
    NoEnv = NoEnv
    NoSnapshot = NoSnapshot
INVARIANTS
    TypeOK
    ProdIsRebuilt
    ReadyForProd
CHECK_DEADLOCK FALSE
