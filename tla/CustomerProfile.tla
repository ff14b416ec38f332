---------------------------- MODULE CustomerProfile ----------------------------
(***************************************************************************)
(* What the analyst API derives from one customer's recorded payments and  *)
(* verdicts: the feature vector of a payment in its two modes, drift, the  *)
(* baseline, and trust.  A history is kept in time order, as every reader  *)
(* sorts it; payments at one time stay in the order they were recorded.    *)
(* Times are minutes from a Monday, places are kilometres along one road,  *)
(* amounts are whole, logarithms are hundredths.                           *)
(***************************************************************************)
EXTENDS Rounding, Sequences, SequencesExt

CONSTANTS
    Unknown,        \* a location that was not given
    AmountLog,      \* log1p of the cents of an amount
    TrustWindow     \* TRUST_BOOST_WINDOW

Hour == 60
Day == 24 * Hour

Places == Int \cup {Unknown}
Signals == [mcc : 0..100, device : -1..1, network : -1..1, travel : 0..1, newDevice : 0..1]
Payment ==
    [at : Nat, amount : Nat, merchant : Nat, place : Places, shop : Places, signals : Signals]
Labels == {"confirmed_fraud", "false_alarm", "legitimate", "unclear"}

Abs(x) == IF x < 0 THEN - x ELSE x

(* The filter and the sum are functions, so that one can reason about them. *)
Those(s, T) ==
    LET those[i \in 0..Len(s)] ==
            IF i = 0 THEN <<>>
            ELSE IF s[i] \in T THEN Append(those[i - 1], s[i]) ELSE those[i - 1]
    IN  those[Len(s)]

SumOf(s) ==
    LET sum[i \in 0..Len(s)] == IF i = 0 THEN 0 ELSE sum[i - 1] + s[i]
    IN  sum[Len(s)]

-----------------------------------------------------------------------------
(* The history.                                                            *)

InOrder(h) == \A i, j \in DOMAIN h : i < j => h[i].at <= h[j].at

AddTransaction(h, p) ==
    Those(h, {x \in Payment : x.at <= p.at}) \o <<p>> \o Those(h, {x \in Payment : x.at > p.at})

Recent(h, days) ==
    IF h = <<>> THEN h
    ELSE Those(h, {x \in Payment : x.at >= h[Len(h)].at - days * Day})

(* timedelta.days is floored: the ninetieth day counts whole. *)
WithinDays(h, now, days) == Those(h, {x \in Payment : (now - x.at) \div Day <= days})

Point(p) == IF p.place # Unknown THEN p.place ELSE p.shop

Located(h) == Those(h, {x \in Payment : Point(x) # Unknown})

(* A centroid is a sum and a count, so that it stays whole. *)
Centroid(h) ==
    LET located == Located(h) IN
    [sum |-> SumOf([i \in DOMAIN located |-> Point(located[i])]), count |-> Len(located)]

(* From a centroid to a place, in whole kilometres. *)
DistanceTo(c, place) == Abs(c.sum - c.count * place) \div c.count

(* The k-th smallest of a sequence of numbers. *)
OrderStatistic(s, k) ==
    CHOOSE v \in Range(s) :
        /\ Cardinality({i \in DOMAIN s : s[i] < v}) < k
        /\ k <= Cardinality({i \in DOMAIN s : s[i] <= v})

(* Twice the median, which is whole. *)
DoubleMedian(s) == OrderStatistic(s, (Len(s) + 1) \div 2) + OrderStatistic(s, (Len(s) + 2) \div 2)

HourOf(p) == (p.at \div Hour) % 24

(* Counter.most_common: the first seen of the commonest hours, -1 if none. *)
HourMode(h) ==
    LET times(i) == Cardinality({j \in DOMAIN h : HourOf(h[j]) = HourOf(h[i])})
        first == CHOOSE i \in DOMAIN h :
                    \A j \in DOMAIN h : times(j) <= times(i) /\ (times(j) = times(i) => i <= j)
    IN  IF h = <<>> THEN -1 ELSE HourOf(h[first])

Amounts(h) == [i \in DOMAIN h |-> h[i].amount]

MedianAmount(h) == IF h = <<>> THEN 0 ELSE DoubleMedian(Amounts(h))

Metrics(h) ==
    [count |-> Len(h), doubleMedian |-> MedianAmount(h), hourMode |-> HourMode(h)]

-----------------------------------------------------------------------------
(* The features of a payment.                                              *)

(* Variant: everything recorded counts as earlier. *)
WholeHistory(h, p) == h

Prior(h, p) == Those(h, {x \in Payment : x.at < p.at})

Within(h, p, minutes) ==
    LET prior == Prior(h, p) IN Those(prior, {x \in Payment : p.at - x.at <= minutes})

Weekend(p) == IF (p.at \div Day) % 7 >= 5 THEN 1 ELSE 0

(* From the customer's home to the shop; without a home, from the card. *)
DistanceFromHome(h, p) ==
    LET home == Centroid(h) IN
    IF p.shop = Unknown THEN 0
    ELSE IF home.count > 0 THEN DistanceTo(home, p.shop)
    ELSE IF p.place # Unknown THEN Abs(p.place - p.shop) ELSE 0

ModelVector(p, velocity, hour, distance) ==
    [amountLog |-> AmountLog[p.amount], velocity |-> velocity, signals |-> p.signals,
     hour |-> hour, weekend |-> Weekend(p), distance |-> distance]

BuildFeatures(p, h) ==
    ModelVector(p, Len(Within(h, p, 5)), HourOf(p), DistanceFromHome(Prior(h, p), p))

(* Out of the sixteen: speeds and the z-score, which are quotients of      *)
(* these, and the categories, which are treated as the merchants, are left *)
(* out.                                                                    *)
ComputeFeatures16(p, h, metrics) ==
    LET prior == Prior(h, p)
        last == prior[Len(prior)]
        deviation == Abs(HourOf(p) - metrics.hourMode)
        firstSeen == SelectInSeq(prior, LAMBDA x : x.merchant = p.merchant)
    IN  [count1h |-> Len(Within(h, p, Hour)), count24h |-> Len(Within(h, p, Day)),
         sum1h |-> SumOf(Amounts(Within(h, p, Hour))), sum24h |-> SumOf(Amounts(Within(h, p, Day))),
         overMedian |-> IF metrics.doubleMedian = 0 THEN 0
                        ELSE (200 * p.amount) \div metrics.doubleMedian,
         newMerchant |-> firstSeen = 0,
         daysSinceMerchant |-> IF firstSeen = 0 THEN 0 ELSE (p.at - prior[firstSeen].at) \div Day,
         distFromHome |-> DistanceFromHome(prior, p),
         distFromPrevious |-> IF prior # <<>> /\ Point(p) # Unknown /\ Point(last) # Unknown
                              THEN Abs(Point(p) - Point(last)) ELSE 0,
         sincePrevious |-> IF prior # <<>> THEN p.at - last.at ELSE 0,
         hour |-> HourOf(p), night |-> HourOf(p) <= 5,
         hourDeviation |-> IF metrics.hourMode < 0 THEN 0 ELSE Min({deviation, 24 - deviation})]

MapToModel(rich, p, h) ==
    ModelVector(p, Len(Within(h, p, 5)), rich.hour, rich.distFromHome)

-----------------------------------------------------------------------------
(* Drift: recent behaviour against the long-term baseline.                 *)

SuddenKm == 250
SuddenMinutes == 15
GradualKm == 100

Jumped(h) ==
    \E i \in 1..(Len(h) - 1) :
        /\ h[i + 1].at - h[i].at <= SuddenMinutes
        /\ Point(h[i]) # Unknown /\ Point(h[i + 1]) # Unknown
        /\ Abs(Point(h[i + 1]) - Point(h[i])) >= SuddenKm

SpendingChanged(recent, longTerm) ==
    LET now == MedianAmount(recent)
        usual == MedianAmount(longTerm)
    IN  usual # 0 /\ (2 * now < usual \/ now > 2 * usual)

Relocated(a, b) ==
    /\ a.count > 0 /\ b.count > 0
    /\ Abs(a.sum * b.count - b.sum * a.count) >= GradualKm * a.count * b.count

DetectDrift(h) ==
    LET recent == Recent(h, 30)
        longTerm == WithinDays(h, h[Len(h)].at, 90)
    IN  IF Len(h) < 5 THEN "none"
        ELSE IF Jumped(recent) THEN "sudden"
        ELSE IF /\ Len(recent) >= 5 /\ Len(longTerm) >= 5
                /\ \/ SpendingChanged(recent, longTerm)
                   \/ Relocated(Centroid(recent), Centroid(longTerm))
        THEN "gradual" ELSE "none"

-----------------------------------------------------------------------------
(* Verdicts and trust.                                                     *)

IsBenign(label) == label \in {"false_alarm", "legitimate"}
IsConfirmedFraud(label) == label = "confirmed_fraud"

HasConfirmedFraud(labels) == \E i \in DOMAIN labels : IsConfirmedFraud(labels[i])

LastLabels(labels) == SubSeq(labels, Len(labels) - TrustWindow + 1, Len(labels))

RecentBenign(labels) ==
    /\ Len(labels) >= TrustWindow
    /\ \A i \in DOMAIN LastLabels(labels) : IsBenign(LastLabels(labels)[i])

TrustStatus(labels) ==
    IF HasConfirmedFraud(labels) THEN "alert"
    ELSE IF RecentBenign(labels) THEN "boosted" ELSE "normal"
=============================================================================
