\* One run after the other, retrainings and rollbacks; nothing dies.
SPECIFICATION MCSpec
CONSTANTS
    v1 = v1
    v2 = v2
    Versions <- MCVersions
    Metrics <- MCMetrics
    Trained <- TwoModels
    Tolerance = 1
    Jobs = {j1}
    Tasks <- Rewound
    MayFail = FALSE
    Scorers = {}
    Nothing = Nothing
    Torn = Torn
SYMMETRY PromotionSymmetry
INVARIANT ServedIsLatest
