SPECIFICATION Spec
CONSTANTS
    Sessions = {s1, s2}
    Sockets = {c1, c2, c3}
    Nobody = Nobody
    Calls = {"create", "approve"}
    Fetches = {f1}
    MaxHistory = 1
    MaxVersion = 1
    MaxEvents = 2
PROPERTY ApprovesWhatIsShown
CHECK_DEADLOCK FALSE
