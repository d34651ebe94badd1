CONSTANTS
    c1 = c1
    c2 = c2
    Clients = {c1, c2}
    Wrappers <- Decorator
    MaxRetries = 2
    MaxFaults = 0
SPECIFICATION Spec
CHECK_DEADLOCK FALSE
INVARIANTS
    ConflictsAreRetried
