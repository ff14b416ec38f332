\* Two jobs promote models, or three threads consume a token, or two agents open
\* and move disputes.
SPECIFICATION StoresSpec
CONSTANTS
    v1 = v1
    v2 = v2
    Versions <- MCVersions
    Metrics <- MCMetrics
    Trained <- TwoModels
    Tolerance = 1
    Jobs = {p1, p2}
    Tasks <- AllTasks
    MayFail = TRUE
    Scorers = {s1}
    Nothing = Nothing
    Torn = Torn
    Tokens = {t1}
    Records = {p1, p2}
    Threads = {h1, h2, h3}
    Limits <- MCLimits
    MaxClock = 1
    MaxGrants = 3
    NoRecord = NoRecord
    Agents = {p1, p2}
    Disputes = {p1, p2}
    Keys = {p1, p2}
    Items = {e1}
    NoCase = NoCase
SYMMETRY StoreSymmetry
INVARIANTS RegistryCoherent PersistedFirst GatedUnlessOvertaken KeptUnlessOvertaken
    ScoresTraceable UsesCounted SoleConsumerLimited KeysHonoured ReversalEarned
PROPERTY MovesLegal
\* A request answered from what it read leaves the state unchanged.
CHECK_DEADLOCK FALSE
