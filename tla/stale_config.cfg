\* A server whose template changes: the check finds it made from the old one.
CONSTANTS
    Server = {s1}
    Kinds = {"server"}
    Blade = {b1}
    NoBlade = NoBlade
    Tries = 1
    Interfaces = 0
    t1 = t1
    t2 = t2
    n1 = n1
    n2 = n2
    Configs <- Changes
    Absent = Absent
    NoAddress = NoAddress
SPECIFICATION Spec
PROPERTIES CreatedFromTemplate
