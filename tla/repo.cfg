\* One resource over an empty or a filled array; it may stop for good: a
\* volume of templates without their directory makes every refresh fail.
CONSTANTS
    a = a
    b = b
    Name = {a, b}
    Location = {"file", "web"}
    Web = {"web"}
    Unlisted = "unlisted"
    Configs <- AllConfigs
SPECIFICATION Spec
CHECK_DEADLOCK FALSE
INVARIANTS TypeOK SyncedUnlessReported
PROPERTIES OthersKept DroppedIsGone
