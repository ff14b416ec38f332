\* Three attestations of one challenge; two threads on a window of two; three
\* recorders of two ids; portals with one view.
SPECIFICATION MCSpec
CONSTANTS
    Challenges = {c1}
    Bindings = {x1, x2}
    Nonces = {y1, y2}
    Workers = {w1, w2, w3}
    MaxTime = 2
    Nothing = Nothing
    Threads = {x1, x2}
    Observations <- MCObservations
    References <- MCReferences
    Labels = {"CONFIRMED_FRAUD"}
    LogOf <- MCLogOf
    MaxLen = 2
    MinWindow = 2
    MinLabels = 1
    Bins = 2
    BaseRows <- MCBaseRows
    Substitute <- MCSubstitute
    MaxObserved = 3
    None = None
    Recorders = {w1, w2, w3}
    EventIds = {1, 2}
    TransactionIds = {1, 2}
    States = {"PENDING", "APPROVED"}
    MaxEvents = 4
    Absent = Absent
    TokenTexts = {1, 2}
    Configurations <- MCConfigurations
    Merchants = {x1, x2}
    ViewIds = {y1, y2}
    MaxViews = 1
    Missing = Missing
SYMMETRY ServiceSymmetry
INVARIANTS VerdictsEarned ReplayRefused WindowKept LabelsConsistent EventsDistinct FailClosed
\* A consumed challenge, or a full list of events, may be all there is left.
CHECK_DEADLOCK FALSE
