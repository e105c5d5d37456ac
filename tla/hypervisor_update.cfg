\* Harvester nodes and ESX hosts in one apply with synchronized_updates.
CONSTANTS
    NoNode = NoNode
    Node = {n1, n2}
    Synchronized = TRUE
    Plans <- Mixed
    Providers <- AllProviders
    Probes = 2
SPECIFICATION FairSpec
INVARIANTS TypeOK OkMeansInService
PROPERTIES Rollout OffBeforeRewrite EvacuatedBeforeOff EveryUpdateEnds
