\* Three nodes, provider rke2 with synchronized_updates.
CONSTANTS
    NoNode = NoNode
    Node = {n1, n2, n3}
    Synchronized = TRUE
    WaitForNodeTimeout = FALSE
    Plans <- SerialisedPlans
SPECIFICATION FairSpec
INVARIANTS TypeOK OneNodeOut OkMeansInService OkMeansLabelled
PROPERTIES HaltAfterFailure Rollout EveryUpdateEnds
