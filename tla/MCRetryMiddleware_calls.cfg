CONSTANTS
    c1 = c1
    c2 = c2
    c3 = c3
    Clients = {c1, c2, c3}
    Wrappers <- AllWrappers
    MaxRetries = 2
    MaxFaults = 2
SPECIFICATION FairSpec
CHECK_DEADLOCK FALSE
INVARIANTS
    TypeOK
    AppliedAsReported
    GivesUpOnlyUnderLoad
    SleepsWithoutTransaction
    SessionsClosed
PROPERTIES
    CallsEnd
    ImplementsAtLeastOnce
