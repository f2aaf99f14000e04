CONSTANTS
    Timers = {t1, t2}
    NoRow = NoRow
    BatchSize = 2
    MaxFaults = 2
    MaxRuns = 2

SPECIFICATION Spec

INVARIANTS
    TypeOK
    RevokedNeverFires
    FiredIsSettled
    FiresOnceUnlessDisturbed

PROPERTY DueTimersSettle

CHECK_DEADLOCK FALSE
