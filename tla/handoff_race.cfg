SPECIFICATION Spec
CONSTANTS
    Requests = {r1, r2, r3, r4}
    Workers = {w1, w2}
    NoOne = NoOne
    MaxAttempts = 2
    BatchLimit = 1
    Recommended <- TwoRoutes
    MaxOpen = 2
    MaxAborts = 0
SYMMETRY ProcessSymmetry
INVARIANT VersionCovered ApprovableIsComplete
INVARIANT TypeOK NoClaimWithoutAcceptance OnlyApprovedPlansLeave RetryBudget
PROPERTY ContractKept
CHECK_DEADLOCK FALSE
