SPECIFICATION Spec
CONSTANTS
    Callers = {c1, c2, c3}
    Keys = {k1, k2}
    NoKey = NoKey
    requests_per_minute = 2
    MaxWindow = 1
SYMMETRY Symmetry
INVARIANTS TypeOK AdmissionBound RefusalsAreEarned
