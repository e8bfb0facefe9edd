SPECIFICATION FairSpec
CONSTANTS
    Sessions = {s1}
    Sockets = {c1, c2}
    Nobody = Nobody
    Calls = {"create", "approve"}
    Fetches = {f1}
    MaxHistory = 1
    MaxVersion = 1
    MaxEvents = 2
INVARIANT ConnectedIsOpen
PROPERTY EventIsRefetched
CHECK_DEADLOCK FALSE
