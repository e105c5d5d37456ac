\* Two nodes, any provider, the mutex not used.
CONSTANTS
    NoNode = NoNode
    Node = {n1, n2}
    Synchronized = FALSE
    WaitForNodeTimeout = TRUE
    Plans <- MixedPlans
SPECIFICATION Spec
PROPERTIES OffBeforeRewrite DrainedBeforeOff RejoinsAnew
