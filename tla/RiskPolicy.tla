------------------------------ MODULE RiskPolicy ------------------------------
(***************************************************************************)
(* What a payment's score means: the risk tiers of the shared policy, the  *)
(* candidates and the cost comparison of the decision engine, and the      *)
(* baseline answer that ingress gives to the same payment.  Money is in    *)
(* minor units, rates and scores are percentages, so a cost is an integer, *)
(* scaled by 10000.                                                        *)
(***************************************************************************)
EXTENDS Integers, Sequences

CONSTANTS
    Scores,     \* risk scores a request may carry
    Costs,      \* cost models a request may carry
    Sent,       \* rails requests are sent over
    Unset       \* an optional field that the client left out

Tiers == {"NO_RISK", "LOW", "MODERATE", "HIGH"}
Bands == {"APPROVE", "VERIFY", "BLOCK"}
Rails == {"CARD", "ISO_8583", "FEDNOW", "RTP", "ACH", "SWIFT", "ISO_20022", "DOMESTIC_INSTANT"}
Paths == {"FAST", "SECONDARY"}
Actions == {"ALLOW", "MONITOR", "CHALLENGE", "REVIEW", "DECLINE", "REVERSE"}
Failed == {"DENIED", "TIMED_OUT", "EXPIRED", "LOCKED"}
Outcomes == {"PENDING", "APPROVED", "ESCALATED"} \cup Failed

CostModel ==
    [fraud : Nat, falseDecline : Nat,
     monitor : Nat, challenge : Nat, review : Nat, reversal : Nat,
     monitorRate : 0..100, challengeRate : 0..100, reviewRate : 0..100, reversalRate : 0..100]

DefaultCosts ==
    [fraud |-> 10000, falseDecline |-> 2500,
     monitor |-> 400, challenge |-> 60, review |-> 150, reversal |-> 100,
     monitorRate |-> 85, challengeRate |-> 20, reviewRate |-> 35, reversalRate |-> 5]

ASSUME ScoresArePercent == Scores \subseteq 0..100
ASSUME CostsAreModels == Costs \subseteq CostModel
ASSUME SentAreRails == Sent \subseteq Rails
ASSUME UnsetIsAbsence == Unset \notin Tiers \cup Bands \cup Rails \cup Paths

-----------------------------------------------------------------------------
(* The shared risk policy.                                                 *)

(* Variant: the boundaries of the tiers belong to the tier above. *)
TierShifted(score) ==
    IF score < 5 THEN "NO_RISK"
    ELSE IF score < 25 THEN "LOW"
    ELSE IF score < 45 THEN "MODERATE" ELSE "HIGH"

TierForScore(score) ==
    IF score <= 5 THEN "NO_RISK"
    ELSE IF score <= 25 THEN "LOW"
    ELSE IF score <= 50 THEN "MODERATE" ELSE "HIGH"

TierFromBand == [APPROVE |-> "LOW", VERIFY |-> "MODERATE", BLOCK |-> "HIGH"]

BandForTier == [NO_RISK |-> "APPROVE", LOW |-> "APPROVE", MODERATE |-> "VERIFY", HIGH |-> "BLOCK"]

PathForRail(rail) == IF rail \in {"CARD", "ISO_8583"} THEN "FAST" ELSE "SECONDARY"

AllowedForTier ==
    [NO_RISK  |-> <<"ALLOW", "MONITOR">>,
     LOW      |-> <<"ALLOW", "CHALLENGE", "DECLINE">>,
     MODERATE |-> <<"CHALLENGE", "REVIEW", "DECLINE">>,
     HIGH     |-> <<"REVIEW", "DECLINE", "REVERSE">>]

(* What is offered to clients that reason in bands. *)
CandidatesForBand ==
    [APPROVE |-> <<"ALLOW", "MONITOR">>,
     VERIFY  |-> <<"MONITOR", "CHALLENGE", "REVIEW">>,
     BLOCK   |-> <<"REVIEW", "DECLINE">>]

-----------------------------------------------------------------------------
(* The request, with the fields the engine derives when they are left out. *)

Request ==
    [score : Scores, band : Bands \cup {Unset}, tier : Tiers \cup {Unset},
     rail : Sent \cup {Unset}, path : Paths \cup {Unset}, outcome : Outcomes, costs : Costs,
     reversal : BOOLEAN, blocked : BOOLEAN, evidence : BOOLEAN, explained : BOOLEAN]

Tier(r) ==
    IF r.tier # Unset THEN r.tier
    ELSE IF r.band # Unset THEN TierFromBand[r.band] ELSE TierForScore(r.score)

(* A path that the client gives is kept, whatever the rail's would be.     *)
Path(r) ==
    IF r.path # Unset THEN r.path
    ELSE IF r.rail # Unset THEN PathForRail(r.rail) ELSE "FAST"

(* The tier's matrix applies unless the band already says the same tier. *)
MatrixMode(r) == r.band # Unset => Tier(r) # TierFromBand[r.band]

Cost(action, r) ==
    LET c == r.costs
        loss(rate) == r.score * c.fraud * rate
    IN  CASE action = "ALLOW"     -> loss(100)
          [] action = "MONITOR"   -> 10000 * c.monitor + loss(c.monitorRate)
          [] action = "CHALLENGE" -> 10000 * c.challenge + loss(c.challengeRate)
          [] action = "REVIEW"    -> 10000 * c.review + loss(c.reviewRate)
          [] action = "DECLINE"   -> 100 * (100 - r.score) * c.falseDecline
          [] action = "REVERSE"   -> 10000 * c.reversal + loss(c.reversalRate)

Candidates(r) == IF MatrixMode(r) THEN AllowedForTier[Tier(r)] ELSE CandidatesForBand[r.band]

(* The first of the cheapest candidates. *)
Cheapest(r) ==
    LET s == Candidates(r)
        first == CHOOSE i \in DOMAIN s :
                    \A j \in DOMAIN s :
                        /\ Cost(s[i], r) <= Cost(s[j], r)
                        /\ j < i => Cost(s[i], r) < Cost(s[j], r)
    IN  s[first]

(* Variant: the cheapest candidate is taken as it is. *)
SelectedCheapest(r) == Cheapest(r)

(* Under the matrix, only NO_RISK payments pass without friction. *)
Selected(r) ==
    IF MatrixMode(r) /\ Tier(r) # "NO_RISK" /\ Cheapest(r) = "ALLOW" THEN "CHALLENGE" ELSE Cheapest(r)

-----------------------------------------------------------------------------
(* Ingress: the baseline score of a payment and the action it answers.     *)

BaselineScore(highValue, notPresent) ==
    (IF highValue THEN 35 ELSE 0) + (IF notPresent THEN 10 ELSE 0)

BaselineScores == {BaselineScore(h, n) : h, n \in BOOLEAN}

(* With the rail unset, ingress answers in the old bands. *)
IngressAction(score, rail) ==
    LET tier == TierForScore(score) IN
    IF rail = Unset
    THEN [APPROVE |-> "ALLOW", VERIFY |-> "CHALLENGE", BLOCK |-> "DECLINE"][BandForTier[tier]]
    ELSE [NO_RISK |-> "ALLOW", LOW |-> "CHALLENGE", MODERATE |-> "CHALLENGE", HIGH |-> "REVIEW"][tier]
=============================================================================
