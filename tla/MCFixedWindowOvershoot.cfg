SPECIFICATION Spec
CONSTANTS
    Callers = {c1, c2}
    Keys = {k1}
    NoKey = NoKey
    requests_per_minute = 2
    MaxWindow = 1
INVARIANT WindowLimit
