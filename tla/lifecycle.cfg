\* One server with two interfaces, its configuration changing between runs.
CONSTANTS
    Server = {s1}
    Kinds = {"server", "harvester", "esx"}
    Blade = {b1, b2}
    NoBlade = NoBlade
    Tries = 2
    Interfaces = 2
    t1 = t1
    t2 = t2
    n1 = n1
    n2 = n2
    Configs <- Changes
    Absent = Absent
    NoAddress = NoAddress
SPECIFICATION FairSpec
INVARIANTS TypeOK KeptIsWhole DroppedIsGone
PROPERTIES OffBeforeDelete UnknownKept EveryRunEnds
