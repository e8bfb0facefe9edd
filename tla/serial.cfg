SPECIFICATION Spec
CONSTANTS
    Requests = {r1, r2, r3, r4, r5, r6}
    Workers = {w1}
    NoOne = NoOne
    MaxAttempts = 2
    BatchLimit = 5
    Recommended <- TwoRoutes
    MaxOpen = 1
    MaxAborts = 1
SYMMETRY RequestSymmetry
INVARIANT CurrentIsLatest QueuedHasOneEntry RouteIsRecommended HandedOffIsCurrent CompletedOnce
PROPERTY CompletedIsFinal PlanningFollowsTable
CHECK_DEADLOCK FALSE
