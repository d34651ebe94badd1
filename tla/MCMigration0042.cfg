CONSTANTS
    r1 = r1
    r2 = r2
    r3 = r3
    r4 = r4
    r5 = r5
    r6 = r6
    r7 = r7
    f1 = f1
    f2 = f2
    f3 = f3
    Rows = {r1, r2, r3, r4, r5, r6, r7}
    ForeignKeys = {f1, f2, f3}
    BatchSize = 3
    MaxLives = 3
SPECIFICATION FairSpec
CHECK_DEADLOCK FALSE
INVARIANTS
    TypeOK
    NeverRefused
    AssertionsHold
    OneIdPerRow
    RoundTrip
PROPERTIES
    HarnessEnds
    RetryHarmless
