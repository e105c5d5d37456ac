\* Two attempts per loop; any number of faults, counted up to two.
CONSTANTS
    Attempts = 2
    MaxFaults = 2
    Configs <- AllDisks
SPECIFICATION FairSpec
INVARIANTS ReimagedIsNew CreatedIsComplete EveryAttemptCounts DeletedIsGone
PROPERTIES VolumeKept EveryOperationEnds
