\* One snapshot with fsfreeze and one without, "/" and one more file system.
CONSTANTS
    Name = {a, b}
    Freeze = {a}
    Volumes = 1
    Polls = 3
    Window = 4
    Latency = 2
SPECIFICATION FairSpec
INVARIANTS TypeOK TakenWhileFrozen ThawedOnReturn
PROPERTIES Reconciled OthersKept EventuallyThawed EveryApplyEnds
