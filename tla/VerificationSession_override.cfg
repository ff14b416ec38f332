\* Two completions of one session overlap.
SPECIFICATION Spec
CONSTANTS
    Sessions = {s1}
    Workers = {w1, w2}
    Ttls = {1, 2}
    Requests <- MCRequests
    MaxTime = 2
    NoJob = NoJob
SYMMETRY WorkerSymmetry
PROPERTY SettledOnce
CHECK_DEADLOCK FALSE
