SPECIFICATION Spec
CONSTANTS
    Tenants = {t1, t2}
    OrphanTenants = {t2}
    NoTenant = NoTenant
    Workers = {w1, w2}
    Admins = {}
    Plans = {"starter"}
    JobMaxAttempts = 3
    DefaultMaxAttempts = 2
    RetryBase = 1
    LostCommitAcks = TRUE
    MaxClock = 1
    MaxCrashes = 1
SYMMETRY Symmetry
INVARIANTS TypeOK ExclusiveClaim StrandedBound DoneMeansActive PendingIsExplained RetryCeiling
