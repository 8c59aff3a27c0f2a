SPECIFICATION Spec
CONSTANTS
    Threads = {t1, t2, t3}
    Kids = {"a", "b"}
    KeySets <- MCKeySets
    cache_ttl_seconds = 2
    MaxClock = 4
    MaxVersion = 2
SYMMETRY Symmetry
INVARIANTS TypeOK KeysAreFresh
