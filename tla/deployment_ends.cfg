SPECIFICATION FairSpec
CONSTANTS
    Sessions = {s1}
    Senders = {r1, r2}
    Sockets = {w1}
    Nobody = Nobody
    MaxIterations = 1
    MaxTools = 1
PROPERTY DeploymentEnds
CHECK_DEADLOCK FALSE
