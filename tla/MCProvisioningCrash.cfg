SPECIFICATION FairSpec
CONSTANTS
    Tenants = {t1}
    OrphanTenants = {}
    NoTenant = NoTenant
    Workers = {w1, w2}
    Admins = {}
    Plans = {"starter"}
    JobMaxAttempts = 3
    DefaultMaxAttempts = 2
    RetryBase = 1
    LostCommitAcks = FALSE
    MaxClock = 0
    MaxCrashes = 1
PROPERTY AcceptedTenantSettles
