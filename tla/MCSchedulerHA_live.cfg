CONSTANTS
    s1 = s1
    s2 = s2
    t1 = t1
    t2 = t2
    t3 = t3
    Schedulers = {s1, s2}
    Tasks = {t1, t2, t3}
    None = None
    Knobs <- PatchedRoutes
    Parallelism = 2
    MaxConflicts = 1
    MaxFailures = 1
SPECIFICATION FairSpec
PROPERTIES
    EventuallyRuns
    ImplementsHandoff
