\* Two servers that compete for two blades; no address manager.
CONSTANTS
    Server = {s1, s2}
    Kinds = {"server"}
    Blade = {b1, b2}
    NoBlade = NoBlade
    Tries = 2
    Interfaces = 0
    t1 = t1
    t2 = t2
    n1 = n1
    n2 = n2
    Configs <- OneConfig
    Absent = Absent
    NoAddress = NoAddress
SPECIFICATION Spec
INVARIANTS RacesAreWon
