\* One worker and one completion are enough; the second worker only widens the search.
SPECIFICATION Spec
CONSTANTS
    Sessions = {s1}
    Workers = {w1, w2}
    Ttls = {1, 2}
    Requests <- MCRequests
    MaxTime = 2
    NoJob = NoJob
SYMMETRY WorkerSymmetry
INVARIANT EvidenceDemanded
CHECK_DEADLOCK FALSE
