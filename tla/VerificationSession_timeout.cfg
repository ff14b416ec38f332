\* Clients that keep completing a session whose token has run out.
SPECIFICATION PersistentSpec
CONSTANTS
    Sessions = {s1}
    Workers = {w1}
    Ttls = {1}
    Requests <- MCFewRequests
    MaxTime = 1
    NoJob = NoJob
PROPERTY TimeoutResolves
CHECK_DEADLOCK FALSE
