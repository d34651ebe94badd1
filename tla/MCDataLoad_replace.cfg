CONSTANTS
    None = None
    Old = Old
    l1 = l1
    l2 = l2
    k1 = k1
    k2 = k2
    Loads = {l1}
    Keys = {k1, k2}
    Seeded = {}
    MaxTries = 2
    CommitEvery = 1
    Setups <- NoIndexSetups
SPECIFICATION Spec
INVARIANT ReplaceIsUpsert
CHECK_DEADLOCK FALSE
