CONSTANTS
    s1 = s1
    s2 = s2
    Schedulers = {s1, s2}
    PriorSuccesses = 0
    MaxPolls = 3
    MaxFaults = 0
SPECIFICATION Spec
CHECK_DEADLOCK FALSE
INVARIANTS
    PollsUntilTerminal
