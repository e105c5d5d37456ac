\* A new image for an ESX host.
CONSTANTS
    NoNode = NoNode
    Node = {n1}
    Synchronized = TRUE
    Plans <- EsxImages
    Providers <- Enabled
    Probes = 3
SPECIFICATION Spec
INVARIANT HostIsInstalled
