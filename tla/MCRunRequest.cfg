SPECIFICATION Spec
CONSTANTS
    Tenants = {"t1", "t2"}
    Customers = {"u1"}
    Admins = {m1}
    AdminTokens <- MCAdminTokens
    Requests = {r1, r2}
    Inputs <- MCInputs
    Deployments <- MCDeployments
    NoInput = NoInput
    MaxFaults = 2
SYMMETRY Symmetry
CHECK_DEADLOCK FALSE
INVARIANTS TypeOK ThreadsBound UnchargedBound ChargesAreForRuns SendersActForThemselves AuthorizationFollowsContract
PROPERTY AccessIsWarranted
