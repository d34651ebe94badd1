CONSTANTS
    None = None
    Old = Old
    l1 = l1
    l2 = l2
    k1 = k1
    k2 = k2
    Loads = {l1, l2}
    Keys = {k1, k2}
    Seeded = {k1}
    MaxTries = 2
    CommitEvery = 1
    Setups <- MCSetups
SPECIFICATION Spec
INVARIANTS TypeOK UpsertIsRetriable SuccessMeansLoaded IsolationAsConfigured
PROPERTY UntouchedColumns
CHECK_DEADLOCK FALSE
