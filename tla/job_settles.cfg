SPECIFICATION FairSpec
CONSTANTS
    Jobs = {j1, j2}
    Tasks = {t1, t2, t3}
    NoJob = NoJob
    MaxConcurrent = 1
    Calls <- AllCalls
    MaxOpen = 2
    MaxRestarts = 0
INVARIANT SlotsExact
PROPERTY SlotsKept SlotComesBack WorkIsFinished
CHECK_DEADLOCK FALSE
