\* Two retrainings at once; nothing dies.
SPECIFICATION MCSpec
CONSTANTS
    v1 = v1
    v2 = v2
    Versions <- MCVersions
    Metrics <- MCMetrics
    Trained <- ThreeModels
    Tolerance = 1
    Jobs = {j1, j2}
    Tasks <- Promotions
    MayFail = FALSE
    Scorers = {}
    Nothing = Nothing
    Torn = Torn
SYMMETRY PromotionSymmetry
INVARIANT PromotionGated
