CONSTANTS
    r1 = r1
    r2 = r2
    n1 = n1
    n2 = n2
    n3 = n3
    Runs = {r1, r2}
    Nodes = {n1, n2, n3}
    Retries <- MCRetries
    Mixes <- MCMixes
    MaxChanges = 2
SPECIFICATION Spec
SYMMETRY Symmetry
INVARIANTS TypeOK SuccessCleansUp QueryCountsInserts RaisesWithCause OutageReported
CHECK_DEADLOCK FALSE
