SPECIFICATION FairSpec
CONSTANTS
    Tenants = {t1}
    OrphanTenants = {}
    NoTenant = NoTenant
    Workers = {w1, w2}
    Admins = {a1, a2}
    Plans = {"starter", "pro"}
    JobMaxAttempts = 3
    DefaultMaxAttempts = 2
    RetryBase = 1
    LostCommitAcks = FALSE
    MaxClock = 0
    MaxCrashes = 0
INVARIANTS RetryBudget EarliestAttempt
PROPERTIES ImplementsLifecycle ProvisionedIsFinal PlanChangesStick AcceptedTenantSettles
