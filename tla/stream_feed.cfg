SPECIFICATION Spec
CONSTANTS
    Sessions = {s1, s2}
    Sockets = {c1, c2}
    Nobody = Nobody
    MaxHistory = 2
    MaxEvents = 5
PROPERTY FeedKept
