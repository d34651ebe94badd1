CONSTANTS
    s1 = s1
    s2 = s2
    Schedulers = {s1, s2}
    PriorSuccesses = 0
    MaxPolls = 2
    MaxFaults = 1
SPECIFICATION FairSpec
CHECK_DEADLOCK FALSE
INVARIANTS
    TypeOK
    PassedMeansSucceeded
    FailedHasCause
    CrashIsMentioned
PROPERTIES
    ScriptEnds
