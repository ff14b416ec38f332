------------------------- MODULE MCModelPromotion -------------------------
(* Instances of ModelPromotion for TLC.                                     *)
EXTENDS ModelPromotion, TLC

CONSTANTS v1, v2

\* Compared with each other by ROC-AUC, by PR-AUC, or not at all.
Measured(roc, pr) == [k \in Measure |-> IF k = "roc_auc" THEN roc ELSE pr]
MCMetrics == {Measured(1, 3), Measured(3, Nothing), Measured(Nothing, 1)}

Yield(v, roc, pr) == [version |-> v, metrics |-> Measured(roc, pr)]
TwoModels   == {Yield(v1, 1, 3), Yield(v2, Nothing, 1)}
ThreeModels == {Yield(v1, 1, 3), Yield(v2, Nothing, 1), Yield(v1, 3, Nothing)}
MCVersions == {v1, v2}

AllTasks   == {"retrain", "train", "rollback"}
Promotions == {"retrain"}
Rewound    == {"retrain", "rollback"}

PromotionSymmetry == Permutations(Jobs)

-----------------------------------------------------------------------------
\* Either jobs race and nobody looks, or a scoring request meets the files that
\* jobs one after the other write, leave behind or die over.
VARIABLE load

MCInit == Init /\ load \in {"races", "serving"}

Solitary == \A j, k \in Jobs : pc[j] # "idle" /\ pc[k] # "idle" => j = k

MCNext ==
    /\ Next /\ UNCHANGED load
    /\ IF load = "races" THEN UNCHANGED scorerVars ELSE Solitary'

MCSpec == MCInit /\ [][MCNext]_<<vars, load>>
=============================================================================
