SPECIFICATION FairSpec
CONSTANTS
    Build = build
    Cancels = {c1}
    Watchers = {w1}
    MaxRounds = 2
    MaxFindings = 1
    FirstCancel = 2
    Leaves <- BareOrBroken
INVARIANT FeedHasOneSeam ReportMatchesFeed
PROPERTY CycleKeepsContract WatcherLearnsEnd
CHECK_DEADLOCK FALSE
