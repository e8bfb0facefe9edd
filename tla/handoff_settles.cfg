SPECIFICATION FairSpec
CONSTANTS
    Requests = {r1, r2, r3}
    Workers = {w1}
    NoOne = NoOne
    MaxAttempts = 2
    BatchLimit = 2
    Recommended <- SomeRoutes
    MaxOpen = 2
    MaxAborts = 1
PROPERTY EntrySettles QueueDrains
CHECK_DEADLOCK FALSE
