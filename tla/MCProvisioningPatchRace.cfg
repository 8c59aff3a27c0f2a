SPECIFICATION Spec
CONSTANTS
    Tenants = {t1}
    OrphanTenants = {}
    NoTenant = NoTenant
    Workers = {w1}
    Admins = {a1}
    Plans = {"starter", "pro"}
    JobMaxAttempts = 2
    DefaultMaxAttempts = 2
    RetryBase = 0
    LostCommitAcks = FALSE
    MaxClock = 0
    MaxCrashes = 0
INVARIANT DoneMeansActive
