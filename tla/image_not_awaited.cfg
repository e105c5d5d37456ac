\* New images for masters with synchronized_updates and provider rancher2.
CONSTANTS
    NoNode = NoNode
    Node = {n1, n2}
    Synchronized = TRUE
    WaitForNodeTimeout = TRUE
    Plans <- MasterImages
SPECIFICATION Spec
INVARIANT OneNodeOut
