\* One retraining and a scoring request; nothing dies.
SPECIFICATION MCSpec
CONSTANTS
    v1 = v1
    v2 = v2
    Versions <- MCVersions
    Metrics <- MCMetrics
    Trained <- TwoModels
    Tolerance = 1
    Jobs = {j1}
    Tasks <- Promotions
    MayFail = FALSE
    Scorers = {s1}
    Nothing = Nothing
    Torn = Torn
SYMMETRY PromotionSymmetry
PROPERTY PartialArtifactDegrades
