----------------------------- MODULE ScorePipeline -----------------------------
(***************************************************************************)
(* Scoring one customer's payments in the analyst API: the two models and  *)
(* the graph are asked, verdicts and drift adjust what the models say, the *)
(* axes that answered are fused, the decision engine is asked, and its     *)
(* answer becomes the analyst's decision.  Payments may be recorded in any *)
(* order of their times, between verdicts on earlier ones.                 *)
(***************************************************************************)
EXTENDS CustomerProfile, RiskPolicy

CONSTANTS
    Payments,       \* payments that may be scored
    Seeds,          \* histories recorded before
    Verdicts,       \* labels an analyst may give
    Percents,       \* what a loaded model may answer
    Risks,          \* what the graph may answer
    Findings,       \* sets of the counts that the graph's findings may name
    ClientVectors,  \* with each payment, the model features a client may send
    MaxPayments,    \* bound: payments scored
    MaxVerdicts     \* bound: verdicts given

Vector ==
    [amountLog : Nat, velocity : Nat, signals : Signals, hour : Nat, weekend : Nat, distance : Nat]

ASSUME PipelineAssumption ==
    /\ Payments \subseteq Payment /\ \A p \in Payments : AmountLog[p.amount] \in Nat
    /\ \A h \in Seeds : h \in Seq(Payment) /\ InOrder(h)
    /\ Verdicts \subseteq Labels /\ Percents \cup Risks \subseteq 0..100
    /\ Findings \subseteq SUBSET Nat /\ ClientVectors \in [Payments -> SUBSET Vector]
    /\ TrustWindow \in Nat \ {0} /\ MaxPayments \in Nat /\ MaxVerdicts \in Nat

AlertAdd == 10              \* HEIGHTENED_ALERT_ADD, a percentage
TrustFactor == 7            \* TRUST_BOOST_FACTOR and the drift factors, in tenths
GradualFactor == 6
SuddenFactor == 12
FraudQuadrant == 50         \* the quadrant thresholds, percentages
AnomalyQuadrant == 50
ReferenceThreshold == 50    \* _THRESHOLD of the comparison of the modes

-----------------------------------------------------------------------------
(* What the models answer.                                                 *)

(* The weights of the heuristic that stands in for a missing model, in     *)
(* hundredths.  A trust signal costs more when it is bad than when it is   *)
(* unknown, and nothing when it is good.                                   *)
TrustRisk(signal, untrusted, unknown) ==
    IF signal = 0 THEN untrusted ELSE IF signal < 0 THEN unknown ELSE 0

HeuristicRisk(v) ==
    LET s == v.signals
        total == 2 * v.amountLog + 30 * s.mcc + 200 * v.velocity + 2000 * s.travel
                 + 1500 * s.newDevice + 40 * v.hour + 300 * v.weekend + v.distance
                 + TrustRisk(s.device, 1200, 400) + TrustRisk(s.network, 1000, 300)
    IN  Min({100, Rounded(total, 100)})

(* An axis is a score in percent, and whether its source was there.        *)
Axis == [score : 0..100, available : BOOLEAN]

Answer(scores, fallback) ==
    {[score |-> s, available |-> TRUE] : s \in scores} \cup {[score |-> fallback, available |-> FALSE]}

(* The heuristic stands in for the supervised model, zero for the others. *)
Answers(vector) ==
    Answer(Percents, HeuristicRisk(vector)) \X Answer(Percents, 0) \X Answer(Risks, 0)

-----------------------------------------------------------------------------
(* Adjustments.                                                            *)

FeedbackAdjustment(labels) ==
    [factor |-> IF RecentBenign(labels) THEN TrustFactor ELSE 10,
     add |-> IF HasConfirmedFraud(labels) THEN AlertAdd ELSE 0,
     effect |-> IF HasConfirmedFraud(labels) THEN "heightened_alert"
                ELSE IF RecentBenign(labels) THEN "trust_boost" ELSE "no_adjustment"]

(* Variant: a gradual drift needs no confirmation. *)
UnconfirmedDrift(kind, confirmed) ==
    [factor |-> IF kind = "gradual" THEN GradualFactor
                ELSE IF kind = "sudden" THEN SuddenFactor ELSE 10,
     effect |-> kind]

DriftAdjustment(kind, confirmed) ==
    [factor |-> IF kind = "gradual" /\ confirmed THEN GradualFactor
                ELSE IF kind = "sudden" THEN SuddenFactor ELSE 10,
     effect |-> IF kind = "gradual" /\ ~ confirmed THEN "none" ELSE kind]

AdjustedFraud(raw, feedback) == Min({100, raw + feedback.add})

(* In ten-thousandths, as both factors are tenths. *)
AdjustedAnomaly(raw, feedback, drift) == Min({10000, raw * feedback.factor * drift.factor})

-----------------------------------------------------------------------------
(* Fusion: weights of the axes that are missing go to those that answered. *)

(* Variant: the score of a missing axis counts as well. *)
FuseAll(axes) == Rounded(5 * axes[1].score + 5 * axes[2].score + 2 * axes[3].score, 12)

FuseRisk(axes) ==
    LET present(i, n) == IF axes[i].available THEN n ELSE 0
        weight == present(1, 5) + present(2, 5) + present(3, 2)
        score == present(1, 5 * axes[1].score) + present(2, 5 * axes[2].score)
                 + present(3, 2 * axes[3].score)
    IN  IF weight = 0 THEN 100 ELSE Rounded(score, weight)

-----------------------------------------------------------------------------
(* The answer.                                                             *)

(* Nothing that would decide earlier is sent, so the cost decides. *)
DecisionRequest(score) ==
    LET tier == TierForScore(score) IN
    [score |-> score, band |-> BandForTier[tier], tier |-> tier, rail |-> "CARD",
     path |-> Unset, outcome |-> "PENDING", costs |-> DefaultCosts, reversal |-> FALSE, blocked |-> FALSE,
     evidence |-> TRUE, explained |-> TRUE]

MapDecision(action) ==
    CASE action = "ALLOW" -> "PASS"
      [] action \in {"MONITOR", "CHALLENGE"} -> "REVIEW_UNUSUAL"
      [] action = "REVIEW" -> "REVIEW_STEALTH"
      [] action \in {"DECLINE", "REVERSE"} -> "BLOCK"

DocDecision(action, fraud, anomaly) ==
    IF /\ MapDecision(action) = "BLOCK"
       /\ fraud >= FraudQuadrant
       /\ anomaly < 100 * AnomalyQuadrant
    THEN "REVIEW_STEALTH" ELSE MapDecision(action)

(* The response to a payment when its customer drifts and was judged like  *)
(* this, and the two models and the graph answer as in raw.                *)
Response(kind, labels, raw) ==
    LET feedback == FeedbackAdjustment(labels)
        drift == DriftAdjustment(kind, RecentBenign(labels))
        fraud == AdjustedFraud(raw[1].score, feedback)
        anomaly == AdjustedAnomaly(raw[2].score, feedback, drift)
        score == FuseRisk(<<[raw[1] EXCEPT !.score = fraud],
                            [raw[2] EXCEPT !.score = Rounded(anomaly, 100)], raw[3]>>)
    IN  [fraud |-> fraud, anomaly |-> anomaly, score |-> score,
         effects |-> {feedback.effect, drift.effect} \ {"no_adjustment", "none"},
         factor |-> feedback.factor * drift.factor,
         decision |-> DocDecision(Selected(DecisionRequest(score)), fraud, anomaly)]

-----------------------------------------------------------------------------
(* The head-to-head of the two modes: each payment of a timeline is scored *)
(* in both against what came before it, by the heuristic's weights, which  *)
(* are written out again there.  Of the rows, the likely and the unlikely  *)
(* ones may be labelled fraud.                                             *)
ReferenceRisk(v) == HeuristicRisk(v)

TimelineRow(p, before) ==
    LET basic == BuildFeatures(p, before)
        rich == MapToModel(ComputeFeatures16(p, before, Metrics(before)), p, before)
    IN  [basic |-> ReferenceRisk(basic), rich |-> ReferenceRisk(rich), equal |-> basic = rich]

TimelineRows(h) == [i \in DOMAIN h |-> TimelineRow(h[i], SubSeq(h, 1, i - 1))]

MayBeFraud(rows) == {i \in DOMAIN rows : rows[i].basic >= 70 \/ rows[i].basic <= 28}

Compare(rows, fraud) ==
    LET flagged == [basic |-> {i \in DOMAIN rows : rows[i].basic >= ReferenceThreshold},
                    rich |-> {i \in DOMAIN rows : rows[i].rich >= ReferenceThreshold}]
        legit == DOMAIN rows \ fraud
    IN  [falsePositives |-> [m \in DOMAIN flagged |-> Cardinality(flagged[m] \cap legit)],
         caught |-> [m \in DOMAIN flagged |-> Cardinality(flagged[m] \cap fraud)],
         differ |-> Cardinality((flagged.basic \cup flagged.rich) \ (flagged.basic \cap flagged.rich)),
         mismatches |-> Cardinality({i \in DOMAIN rows : ~ rows[i].equal})]

-----------------------------------------------------------------------------
VARIABLES
    history,    \* the payments recorded, in the order of their times
    verdicts,   \* the analysts' labels on this customer, oldest first
    last        \* the response last given and what it was made from, or Unset

profile == <<history, verdicts, last>>

ProfileInit ==
    /\ history \in Seeds
    /\ verdicts = <<>>
    /\ last = Unset

(* The payment is recorded after everything was read for its score: here   *)
(* in one step, as this module is about what is made of it; AnalystDesk    *)
(* has the handlers that come between the reads.  The features a client    *)
(* sends take the place of those built from the history.                   *)
Score(p) ==
    LET kind == DetectDrift(history) IN
    /\ Cardinality({i \in DOMAIN history : history[i] \in Payments}) < MaxPayments
    /\ \E vector \in {BuildFeatures(p, history)} \cup ClientVectors[p] :
           \E raw \in Answers(vector), counts \in Findings :
              last' = [payment |-> p, vector |-> vector, raw |-> raw, counts |-> counts,
                       before |-> history, drift |-> kind, labels |-> verdicts,
                       response |-> Response(kind, verdicts, raw)]
    /\ history' = AddTransaction(history, p)
    /\ UNCHANGED verdicts

SubmitFeedback(label) ==
    /\ Len(verdicts) < MaxVerdicts
    /\ verdicts' = Append(verdicts, label)
    /\ UNCHANGED <<history, last>>

ProfileNext ==
    \/ \E p \in Payments : Score(p)
    \/ \E label \in Verdicts : SubmitFeedback(label)

ProfileSpec == ProfileInit /\ [][ProfileNext]_profile

-----------------------------------------------------------------------------
Decisions == {"PASS", "REVIEW_UNUSUAL", "REVIEW_STEALTH", "BLOCK"}
AnomalyRange == 0..10000

(* Histories are in the order of time, and a response has its bounds.      *)
ProfileTypeOK ==
    /\ history \in Seq(Payment)
    /\ InOrder(history)
    /\ verdicts \in Seq(Labels)
    /\ last # Unset =>
          /\ last.response.score \in 0..100 /\ last.response.fraud \in 0..100
          /\ last.response.anomaly \in AnomalyRange /\ last.response.decision \in Decisions

Responded == last # Unset

MetricsFor(p, h) == Metrics(WithinDays(h, p.at, 90))

(* What is recorded later in time never changes the vector the models were *)
(* given, nor, but for the two features that rest on the baseline, the     *)
(* causal features shown with it, although the baseline admits it.         *)
VectorCausal ==
    LET rich(h) == [ComputeFeatures16(last.payment, h, MetricsFor(last.payment, h))
                       EXCEPT !.overMedian = 0, !.hourDeviation = 0]
        basicBefore == BuildFeatures(last.payment, last.before)
        richBefore == rich(last.before)
    IN  Responded => \A q \in Payments :
            q.at >= last.payment.at =>
                LET h == AddTransaction(history, q)
                IN  BuildFeatures(last.payment, h) = basicBefore /\ rich(h) = richBefore

(* The basic and the rich mode give the models one and the same vector,    *)
(* which is what compare_modes rests on.                                   *)
ModesAgree ==
    Responded =>
        LET p == last.payment
            h == last.before
        IN  BuildFeatures(p, h) = MapToModel(ComputeFeatures16(p, h, MetricsFor(p, h)), p, h)

(* Over the timeline of a customer nobody has judged, as the comparison's  *)
(* are, it comes out level whichever rows are labelled fraud, so it can    *)
(* never speak for one of the modes.                                       *)
ComparisonLevel ==
    LET rows == TimelineRows(history) IN
    history # <<>> /\ verdicts = <<>> => \A fraud \in {{}, MayBeFraud(rows)} :
        LET c == Compare(rows, fraud) IN
        /\ c.differ = 0 /\ c.mismatches = 0
        /\ c.falsePositives.basic = c.falsePositives.rich /\ c.caught.basic = c.caught.rich

(* Whatever the history of verdicts, one more that confirms fraud never    *)
(* lowers the score of a payment, and one more benign one never raises it. *)
FeedbackMonotone ==
    LET score(labels) == Response(last.drift, labels, last.raw).score
    IN  Responded =>
            /\ score(Append(verdicts, "confirmed_fraud")) >= score(verdicts)
            /\ score(Append(verdicts, "false_alarm")) <= score(verdicts)

(* The customer's page and the adjustment of a score are computed apart,   *)
(* and tell the same of the same verdicts.                                 *)
TrustAgrees ==
    Responded =>
        /\ "heightened_alert" \in last.response.effects <=> TrustStatus(last.labels) = "alert"
        /\ "trust_boost" \in last.response.effects <=> TrustStatus(last.labels) = "boosted"

(* Only a run of benign verdicts makes an anomaly count for less: a        *)
(* customer who has moved is not believed without them.                    *)
DiscountEarned == Responded /\ last.response.factor < 100 => RecentBenign(last.labels)

(* Through fusion, tier, candidates and costs, a payment passes exactly    *)
(* when its score is at most 25 and is frozen or reviewed above 50, and    *)
(* with no axis to go by it does not pass.                                 *)
DecisionFollowsScore ==
    LET r == last.response IN
    Responded =>
        /\ r.decision = "PASS" <=> r.score <= 25
        /\ r.decision \in {"BLOCK", "REVIEW_STEALTH"} <=> r.score > 50
        /\ (\A i \in 1..3 : ~ last.raw[i].available) => r.decision \in {"BLOCK", "REVIEW_STEALTH"}

(* What stands in for a missing source never moves the score, and moves    *)
(* the decision between freezing and reviewing at most.                    *)
FallbackSilent ==
    Responded =>
        \A i \in 1..3, s \in Percents :
            LET raw == [last.raw EXCEPT ![i].score = s]
                other == Response(last.drift, last.labels, raw)
            IN  ~ last.raw[i].available =>
                    /\ other.score = last.response.score
                    /\ other.decision # last.response.decision => other.score > 50

(* Payments recorded in any order leave the history in order, and neither  *)
(* what is recorded later nor the mode changes what a model is given.      *)
FeaturesSound == ProfileTypeOK /\ VectorCausal /\ ModesAgree /\ ComparisonLevel

(* What analysts say of a customer counts in one direction, on the score   *)
(* and on the customer's page alike, and a discount is theirs to give.     *)
VerdictsWeighed == FeedbackMonotone /\ TrustAgrees /\ DiscountEarned

(* The decision comes from the axes that answered, and from nothing else.  *)
ScoreDecides == DecisionFollowsScore /\ FallbackSilent
=============================================================================
