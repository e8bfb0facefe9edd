SPECIFICATION Spec
CONSTANTS
    Sessions = {s1}
    Senders = {r1, r2}
    Sockets = {w1, w2}
    Nobody = Nobody
    MaxIterations = 1
    MaxTools = 1
INVARIANT ListedWhileThere
INVARIANT SandboxesAreOwned LogAgreesWithStatus NobodyPassedOver
PROPERTY DeploymentKept
SYMMETRY DeploymentSymmetry
CHECK_DEADLOCK FALSE
