SPECIFICATION Spec
CONSTANTS
    Jobs = {j1}
    Tasks = {t1, t2, t3, t4}
    NoJob = NoJob
    MaxConcurrent = 1
    Calls <- AllCalls
    MaxOpen = 2
    MaxRestarts = 1
SYMMETRY TaskSymmetry
INVARIANT TypeOK VerifiedPassed PushedIsPublished
CHECK_DEADLOCK FALSE
