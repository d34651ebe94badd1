CONSTANTS
    s1 = s1
    s2 = s2
    t1 = t1
    t2 = t2
    t3 = t3
    Schedulers = {s1, s2}
    Tasks = {t1, t2, t3}
    None = None
    Knobs <- AllRoutes
    Parallelism = 2
    MaxConflicts = 2
    MaxFailures = 1
SPECIFICATION Spec
SYMMETRY Symmetry
CHECK_DEADLOCK FALSE
INVARIANTS
    TypeOK
    OneInCriticalSection
    NoOrphanWorkload
    NoLostTask
    DispatchedOnce
    SurvivesConflicts
    SlotsRespected
    LockGivenBack
PROPERTIES
    RoundsAdvance
