------------------------------ MODULE CaseReport ------------------------------
(***************************************************************************)
(* What the analyst API shows of a scored payment and of its customer: the *)
(* level and the action, the pattern, the case report and its crosscheck,  *)
(* the panel of features, the customer's page and the statistics of        *)
(* verdicts.  Figures are ten-thousandths, an amount is a whole one.       *)
(***************************************************************************)
EXTENDS ScorePipeline

PatternThreshold == 60      \* a percentage; the quadrants have their own
PanelSize == 4              \* features shown
SummaryLength == 20         \* earlier payments an explanation is given
RecentLength == 10          \* payments listed with a score
WholeNumberFloor == 200     \* whole numbers below it are not checked

-----------------------------------------------------------------------------
(* The level, the action and the pattern.                                  *)

RiskLevel(tier) == IF tier \in {"HIGH", "MODERATE"} THEN tier ELSE "LOW"

VerificationAction(decision, tier) ==
    CASE decision = "PASS" -> "none"
      [] decision = "REVIEW_UNUSUAL" -> IF tier = "MODERATE" THEN "hold and ask" ELSE "soft check"
      [] decision \in {"REVIEW_STEALTH", "BLOCK"} -> "require biometric"

PatternMatch(fraud, anomaly) ==
    LET matches == fraud >= PatternThreshold
        unusual == anomaly >= 100 * PatternThreshold
    IN  CASE unusual /\ matches -> "unusual and known"
          [] unusual /\ ~ matches -> "unusual"
          [] ~ unusual /\ matches -> "stealth"
          [] OTHER -> "none"

(* The graph names the pattern when it says more than either model said. *)
NetworkDominates(raw) ==
    raw[3].available /\ raw[3].score > 0 /\ raw[3].score >= raw[1].score /\ raw[3].score >= raw[2].score

ReportedPattern(e) ==
    IF NetworkDominates(e.raw) THEN "network" ELSE PatternMatch(e.response.fraud, e.response.anomaly)

-----------------------------------------------------------------------------
(* The case report.                                                        *)

(* The figures the descriptions of the adjustments print. *)
AdjustmentFigures(e) ==
    (IF HasConfirmedFraud(e.labels) THEN {100 * AlertAdd} ELSE {})
    \cup (IF RecentBenign(e.labels) THEN {1000 * TrustFactor} ELSE {})
    \cup (CASE e.drift = "sudden" -> {1000 * SuddenFactor}
            [] e.drift = "gradual" /\ RecentBenign(e.labels) -> {1000 * GradualFactor}
            [] OTHER -> {})

(* What the graph found is cited when it answered: neighbours, merchants,  *)
(* co-occurrences and accounts are whole numbers, its shares and its       *)
(* window are below the floor.                                             *)
CountsChecked(e) ==
    IF e.raw[3].available THEN {10000 * c : c \in {n \in e.counts : n >= WholeNumberFloor}} ELSE {}

(* The figures of the evidence that are checked: fractional ones, and the  *)
(* whole numbers from the floor up.  The score itself is below it.         *)
Evidence(e) ==
    {100 * e.raw[1].score, 100 * e.response.fraud, 100 * e.raw[2].score, e.response.anomaly}
    \cup AdjustmentFigures(e)
    \cup (IF e.raw[3].available THEN {100 * e.raw[3].score} ELSE {})
    \cup CountsChecked(e)

(* Variant: what the graph said is not part of what may be cited. *)
ScoredPayload(e) ==
    {100 * e.raw[1].score, 100 * e.raw[2].score, 10000 * e.response.score, 10000 * e.payment.amount}

Payload(e) == ScoredPayload(e) \cup {100 * e.raw[3].score}

(* The deterministic explainer prints the earlier payments it was given, as *)
(* they are and not their number; their amounts are fractional figures.     *)
SummaryFigures(h) ==
    {10000 * h[i].amount : i \in {j \in DOMAIN h : j > Len(h) - SummaryLength}}

(* Within a twentieth of the figure that is cited. *)
MatchesAllowed(figure, payload) == \E c \in payload : 20 * Abs(c - figure) <= figure

HallucinationFlagged(e, summary) ==
    \E figure \in Evidence(e) \cup summary : ~ MatchesAllowed(figure, Payload(e))

-----------------------------------------------------------------------------
(* The panel of features.                                                  *)

(* Magnitudes in hundredths, in the order of the panel; two are capped.    *)
Magnitudes(v) ==
    <<100 * v.signals.travel, 100 * v.signals.newDevice, 100 * v.velocity, Min({v.amountLog, 6000}),
      Min({100 * v.distance, 6000}), v.signals.mcc, 100 * v.hour>>

TopFeatures(v) ==
    LET m == Magnitudes(v)
        ahead(j, i) == m[j] > m[i] \/ (m[j] = m[i] /\ j < i)
    IN  {i \in DOMAIN m : Cardinality({j \in DOMAIN m : ahead(j, i)}) < PanelSize}

(* Shares of what is shown, in tenths of a percent; none without a magnitude. *)
AnomalyContributors(v) ==
    LET m == Magnitudes(v)
        top == TopFeatures(v)
        total == SumOf([i \in DOMAIN m |-> IF i \in top THEN m[i] ELSE 0])
    IN  [i \in (IF total = 0 THEN {} ELSE top) |-> Rounded(1000 * m[i], total)]

RecentTransactions(h) == SubSeq(Reverse(h), 1, Min({RecentLength, Len(h)}))

-----------------------------------------------------------------------------
(* The customer's page.                                                    *)

Hours(h) == [i \in DOMAIN h |-> HourOf(h[i])]

(* The i-th of statistics.quantiles in four, exclusive, and truncated.     *)
Quantile(s, i) ==
    LET j == (i * (Len(s) + 1)) \div 4
        delta == i * (Len(s) + 1) - 4 * j
    IN  (OrderStatistic(s, j) * (4 - delta) + OrderStatistic(s, j + 1) * delta) \div 4

(* The latest typical hour is said to be the third quartile and is the second. *)
TypicalHours(h) ==
    IF Len(h) >= 4 THEN <<Quantile(Hours(h), 1), Quantile(Hours(h), 2)>>
    ELSE <<Min(Range(Hours(h))), Max(Range(Hours(h)))>>

Baseline(h) ==
    IF h = <<>> THEN Unset
    ELSE [doubleMedian |-> MedianAmount(h), hours |-> TypicalHours(h),
          merchants |-> Cardinality({h[i].merchant : i \in DOMAIN h}),
          daily |-> Len(h) \div Cardinality({h[i].at \div Day : i \in DOMAIN h})]

CustomerPage(h, labels) ==
    [longTerm |-> Baseline(WithinDays(h, h[Len(h)].at, 90)), recent |-> Baseline(Recent(h, 30)),
     drift |-> DetectDrift(h), trust |-> TrustStatus(labels)]

(* Verdicts, each on a payment that was decided like this.                 *)
FeedbackStats(labels, decided) ==
    LET number(set) == Cardinality(set)
        confirmed == {i \in DOMAIN labels : IsConfirmedFraud(labels[i])}
        benign == {i \in DOMAIN labels : IsBenign(labels[i])}
        of(d) == {i \in DOMAIN labels : decided[i] = d}
    IN  [total |-> Len(labels), confirmed |-> number(confirmed),
         falseAlarm |-> number({i \in benign : labels[i] = "false_alarm"}),
         falsePositiveRate |-> IF confirmed \cup benign = {} THEN 0
                               ELSE Rounded(10000 * number(benign), number(confirmed \cup benign)),
         rows |-> [d \in Decisions |->
                      [total |-> number(of(d)), confirmed |-> number(of(d) \cap confirmed),
                       falseAlarm |-> number(of(d) \cap benign)]]]

-----------------------------------------------------------------------------
(* The action asks of the customer what the level says: to prove who they  *)
(* are when it is high, to answer when it is moderate, nothing otherwise;  *)
(* the soft check is for a decision and a level that never meet.           *)
ActionFollowsLevel ==
    LET tier == TierForScore(last.response.score)
        action == VerificationAction(last.response.decision, tier)
    IN  Responded =>
            /\ action = "require biometric" <=> RiskLevel(tier) = "HIGH"
            /\ action = "hold and ask" <=> RiskLevel(tier) = "MODERATE"
            /\ action = "none" <=> RiskLevel(tier) = "LOW"

(* What is held back because it looks normal is never reported as unusual, *)
(* and what is frozen is reported as normal only between the threshold of  *)
(* the quadrants and that of the patterns.                                 *)
PatternFitsVerdict ==
    LET r == last.response
        pattern == ReportedPattern(last)
    IN  Responded =>
            /\ r.decision = "REVIEW_STEALTH" => pattern \notin {"unusual", "unusual and known"}
            /\ r.decision = "BLOCK" /\ pattern = "stealth" =>
                   r.anomaly \in (100 * AnomalyQuadrant)..(100 * PatternThreshold - 1)

(* The report of a score that nothing adjusted, whose summary cites what   *)
(* was scored or earlier payments of the same amount, is taken for         *)
(* invented exactly when the graph counted two hundred or more of          *)
(* something and no figure of the payment happens to be near the count.    *)
EvidenceTrusted ==
    LET large == \E figure \in CountsChecked(last) : ~ MatchesAllowed(figure, Payload(last))
    IN  Responded /\ last.response.effects = {} =>
            /\ HallucinationFlagged(last, Payload(last)) <=> large
            /\ (\A i \in DOMAIN last.before : last.before[i].amount = last.payment.amount) =>
                   (HallucinationFlagged(last, SummaryFigures(last.before)) <=> large)

(* The panel shows the greatest magnitudes, its shares make a whole but    *)
(* for the rounding of each, and it is empty only if there are none.       *)
PanelWhole ==
    LET v == last.vector
        m == Magnitudes(v)
        shares == AnomalyContributors(v)
        sum == SumOf([i \in DOMAIN m |-> IF i \in DOMAIN shares THEN shares[i] ELSE 0])
    IN  Responded =>
            /\ \/ DOMAIN shares = {} /\ \A i \in DOMAIN m : m[i] = 0
               \/ Cardinality(DOMAIN shares) = PanelSize /\ Abs(sum - 1000) <= 2
            /\ \A i \in DOMAIN shares, j \in DOMAIN m \ DOMAIN shares : m[i] >= m[j]

(* The page is consistent with itself, whatever came between the score and *)
(* the look at it: the recent behaviour is part of the long-term one, its  *)
(* hours are in order, a gradual drift has more than one to rest on.       *)
PageConsistent ==
    LET page == CustomerPage(history, verdicts)
        longTerm == WithinDays(history, history[Len(history)].at, 90)
    IN
    history # <<>> =>
        /\ page.recent.merchants <= page.longTerm.merchants
        /\ page.recent.hours[1] <= page.recent.hours[2]
        /\ page.longTerm.hours[1] <= page.longTerm.hours[2]
        /\ page.drift = "gradual" => Recent(history, 30) # longTerm
        /\ \A i \in DOMAIN RecentTransactions(history) :
               i > 1 => RecentTransactions(history)[i].at <= RecentTransactions(history)[i - 1].at

(* However the payments were decided, the rows add up to the totals, and   *)
(* the rate of false alarms, which has four places, counts the verdicts    *)
(* that settle the question: it is one with no fraud among them, or with   *)
(* one in twenty thousand.                                                 *)
StatsAddUp ==
    verdicts # <<>> => \A decided \in [DOMAIN verdicts -> Decisions] :
        LET stats == FeedbackStats(verdicts, decided)
            rows(d) == stats.rows[d]
            benign == {i \in DOMAIN verdicts : IsBenign(verdicts[i])}
        IN  /\ rows("PASS").total + rows("REVIEW_UNUSUAL").total
               + rows("REVIEW_STEALTH").total + rows("BLOCK").total = stats.total
            /\ rows("PASS").confirmed + rows("REVIEW_UNUSUAL").confirmed
               + rows("REVIEW_STEALTH").confirmed + rows("BLOCK").confirmed = stats.confirmed
            /\ rows("PASS").falseAlarm + rows("REVIEW_UNUSUAL").falseAlarm
               + rows("REVIEW_STEALTH").falseAlarm + rows("BLOCK").falseAlarm
               = Cardinality(benign)
            /\ stats.falseAlarm <= Cardinality(benign)
            /\ stats.falsePositiveRate = 10000 =>
                   20000 * stats.confirmed <= stats.confirmed + Cardinality(benign)

(* What the analyst reads is true of what was scored and decided.          *)
ReportHonest ==
    /\ ActionFollowsLevel /\ PatternFitsVerdict /\ EvidenceTrusted
    /\ PanelWhole /\ PageConsistent /\ StatsAddUp
=============================================================================
