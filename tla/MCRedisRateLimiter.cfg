SPECIFICATION Spec
CONSTANTS
    Callers = {c1, c2, c3}
    Keys = {k1}
    NoKey = NoKey
    requests_per_minute = 2
    WindowSeconds = 2
    FailOpenCallers = {c3}
    MaxWindow = 1
    MaxCount = 3
    MaxFailures = 2
SYMMETRY Symmetry
INVARIANTS TypeOK WindowLimit RefusalsAreEarned LeakBound
\* No further request need arrive once the bounds are reached.
CHECK_DEADLOCK FALSE
