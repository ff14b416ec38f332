\* Two workers complete one session, or two servers of the desk score, explain
\* and judge one transaction; workers and servers are the same model values.
SPECIFICATION MCSpec
CONSTANTS
    Sessions = {s1}
    Workers = {w1, w2}
    Ttls = {1, 2}
    Requests <- MCRequests
    MaxTime = 2
    NoJob = NoJob
    Servers = {w1, w2}
    Transactions = {t1}
    MaxVerdicts = 2
    NoEntry = NoEntry
SYMMETRY WorkerSymmetry
INVARIANTS OutcomeFitsTier ApprovalsChecked SoleCompletionSettles QueueMatchesHistory
    LookupsResolve VerdictsReach RepeatsBounded
PROPERTY ImplementsLifecycle
\* A session that was decided is served no more.
CHECK_DEADLOCK FALSE
