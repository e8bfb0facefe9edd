SPECIFICATION Spec
CONSTANTS
    Jobs = {j1}
    Tasks = {t1, t2, t3, t4, t5, t6}
    NoJob = NoJob
    MaxConcurrent = 1
    Calls <- NotCancel
    MaxOpen = 1
    MaxRestarts = 1
SYMMETRY TaskSymmetry
INVARIANT BuiltFromAnswers PushOffersPassed OneRepository
PROPERTY FollowsTable
CHECK_DEADLOCK FALSE
