---------------------------- MODULE PaymentEvidence ----------------------------
(***************************************************************************)
(* The services that judge one payment from facts they are told: merchant  *)
(* policy, which keeps the merchants' rules, and compliance, the two       *)
(* contexts, the GPS check of device integrity and the investigation       *)
(* agent, which keep nothing.  One payment is looked at while the          *)
(* merchants' rules change around it.  An answer is a function of its      *)
(* request, so the services are operators and the rules the state.         *)
(* Amounts are whole, confidences are percentages.                         *)
(***************************************************************************)
EXTENDS Rounding, FiniteSets, RiskPolicy

CONSTANTS
    LockIds,        \* ids of merchant rules, which are ordered
    MerchantRules,  \* rules that may be saved
    Facts,          \* what may be known of a payment
    LowValue        \* low_value_threshold_minor

Given(x) == x # Unset

MerchantRule ==
    [merchant : Nat, mccs : SUBSET Nat, perTxn : Nat \cup {Unset}, daily : Nat \cup {Unset},
     velocity : Nat \cup {Unset}, enforced : BOOLEAN]

Optional(S) == S \cup {Unset}
Trust == Optional(BOOLEAN)

(* The facts the requests to these services carry, ages in seconds, event  *)
(* ages in days, positions in kilometres along one road.                   *)
Fact ==
    [merchant : Nat, mcc : Nat, amount : Nat, spentToday : Optional(Nat), velocity : Nat, tokenized : BOOLEAN,
     authenticated : BOOLEAN, exempt : BOOLEAN, network : Trust,
     device : {"TRUSTED", "UNTRUSTED", "UNKNOWN"}, deviceRequired : BOOLEAN, failClosed : BOOLEAN,
     average : Optional(Nat), balance : Optional(Nat), accountAge : Optional(Nat), age : Optional(Int),
     signals : [1..3 -> Optional(0..100)], previous : Optional(Int), minutes : Nat, score : 0..100,
     eventAges : SUBSET Optional(Nat), macroContext : BOOLEAN, providerFails : BOOLEAN]

ASSUME EvidenceAssumption ==
    /\ LockIds \subseteq Nat /\ LowValue \in Nat
    /\ MerchantRules \subseteq MerchantRule
    /\ Facts \subseteq Fact
    /\ Unset \notin {"RISK_SCORE_HIGH", "RISK_SCORE_MODERATE", "RISK_SCORE_LOW"}

VARIABLES
    rules,      \* lock id -> the rule saved under it, or Unset
    fact        \* the payment looked at

evidence == <<rules, fact>>

-----------------------------------------------------------------------------
(* Merchant policy.                                                        *)

EvidenceInit ==
    /\ rules = [i \in LockIds |-> Unset]
    /\ fact \in Facts

CreateRule(i, r) ==
    /\ rules' = [rules EXCEPT ![i] = r]
    /\ UNCHANGED fact

(* An id in the path that is not the rule's own answers 400. *)
ReplaceRule(path, i, r) ==
    /\ path = i
    /\ rules' = [rules EXCEPT ![i] = r]
    /\ UNCHANGED fact

DeleteRule(i) ==
    /\ Given(rules[i])
    /\ rules' = [rules EXCEPT ![i] = Unset]
    /\ UNCHANGED fact

EvidenceNext ==
    \/ \E i \in LockIds, r \in MerchantRules : CreateRule(i, r)
    \/ \E path, i \in LockIds, r \in MerchantRules : ReplaceRule(path, i, r)
    \/ \E i \in LockIds : DeleteRule(i)

EvidenceSpec == EvidenceInit /\ [][EvidenceNext]_evidence

RulesOf(merchant) == {i \in LockIds : Given(rules[i]) /\ rules[i].merchant = merchant}

(* Variant: the last rule of all is taken for the merchant's. *)
SelectLatest(merchant) ==
    LET ids == {i \in LockIds : Given(rules[i])}
    IN  IF RulesOf(merchant) = {} THEN Unset ELSE rules[CHOOSE i \in ids : \A j \in ids : j <= i]

(* sorted(...)[-1]: the greatest lock id decides, whatever the others say. *)
SelectRule(merchant) ==
    LET ids == RulesOf(merchant)
    IN  IF ids = {} THEN Unset ELSE rules[CHOOSE i \in ids : \A j \in ids : j <= i]

Above(amount, limit) == Given(limit) /\ amount > limit

(* Merchant policy takes a spend that is not given for none. *)
DailySpend(f) == f.amount + (IF Given(f.spentToday) THEN f.spentToday ELSE 0)

Violated(r, f) ==
    \/ r.mccs # {} /\ f.mcc \notin r.mccs
    \/ Above(f.amount, r.perTxn)
    \/ Above(DailySpend(f), r.daily)
    \/ Above(f.velocity, r.velocity)

Allows(r, f) == Given(r) /\ r.enforced => ~ Violated(r, f)

EvaluatePolicy(f) == Allows(SelectRule(f.merchant), f)

-----------------------------------------------------------------------------
(* Compliance.                                                             *)

ScaOutcome(f) ==
    IF f.authenticated \/ (f.exempt /\ f.amount <= 3 * LowValue) THEN "PASS"
    ELSE IF f.amount > LowValue THEN "CHALLENGE" ELSE "PASS"

NetworkOutcome(f) ==
    IF f.network = FALSE THEN "REJECT" ELSE IF f.network = Unset THEN "UNAVAILABLE" ELSE "PASS"

DeviceOutcome(f) ==
    IF f.deviceRequired /\ f.device = "UNTRUSTED" THEN "CHALLENGE"
    ELSE IF f.deviceRequired /\ f.device = "UNKNOWN" THEN "UNAVAILABLE" ELSE "PASS"

ComplianceOutcomes(f) ==
    {IF f.tokenized THEN "PASS" ELSE "REJECT", ScaOutcome(f), NetworkOutcome(f), DeviceOutcome(f)}

Overall(outcomes) ==
    IF "REJECT" \in outcomes THEN "REJECT"
    ELSE IF "UNAVAILABLE" \in outcomes THEN "UNAVAILABLE"
    ELSE IF "CHALLENGE" \in outcomes THEN "CHALLENGE" ELSE "PASS"

(* Variant: failing open forgives a challenge as well. *)
BlocksUnlessOpen(f) ==
    /\ Overall(ComplianceOutcomes(f)) # "PASS"
    /\ f.failClosed \/ Overall(ComplianceOutcomes(f)) = "REJECT"

Blocking(f) ==
    LET overall == Overall(ComplianceOutcomes(f))
    IN  overall \in {"REJECT", "CHALLENGE"} \/ (overall = "UNAVAILABLE" /\ f.failClosed)

-----------------------------------------------------------------------------
(* Contexts: a normalized score with the confidence it deserves.  The age  *)
(* is in seconds and negative when the observation is from the future.     *)

Neutral(reason, confidence) ==
    [fresh |-> FALSE, score |-> 50, confidence |-> confidence, reason |-> reason]
Fresh(score, confidence, reason) ==
    [fresh |-> TRUE, score |-> score, confidence |-> confidence, reason |-> reason]

Least(x, y) == IF x <= y THEN x ELSE y
Most(x, y) == IF x >= y THEN x ELSE y

FinancialMaxAge == 300
ExternalMaxAge == 900

(* Variant: spending out of line is scored 75 even if the amount says more. *)
FlatDeviation(base, overBalance, overSpend) ==
    IF overBalance THEN 90 ELSE IF overSpend THEN 75 ELSE base

DeviationScore(base, overBalance, overSpend) ==
    IF overBalance THEN 90 ELSE IF overSpend THEN Most(base, 75) ELSE base

EvaluateFinancial(f) ==
    LET base == Least(100, Rounded(Most(0, 35 * (f.amount - f.average)), f.average))
        overBalance == Above(f.amount, f.balance)
        overSpend == Given(f.spentToday) /\ DailySpend(f) > 5 * f.average
    IN  IF f.age = Unset THEN Neutral("BASELINE_UNAVAILABLE", 0)
        ELSE IF f.age > FinancialMaxAge THEN Neutral("BASELINE_STALE", 10)
        ELSE IF f.average = Unset \/ f.average = 0 THEN Neutral("AVERAGE_AMOUNT_UNAVAILABLE", 0)
        ELSE Fresh(DeviationScore(base, overBalance, overSpend),
                   IF f.accountAge = Unset \/ f.accountAge >= 30 THEN 80 ELSE 55,
                   IF overBalance THEN "AMOUNT_EXCEEDS_AVAILABLE_BALANCE"
                   ELSE IF overSpend THEN "DAILY_SPEND_DEVIATION"
                   ELSE IF f.amount > f.average THEN "AMOUNT_ABOVE_BASELINE"
                   ELSE "WITHIN_BEHAVIORAL_BASELINE")

(* The signals: economic, seasonal and geographic. *)
EvaluateExternal(f) ==
    LET present == {i \in 1..3 : Given(f.signals[i])}
        n == Cardinality(present)
        value(i) == IF i \in present THEN f.signals[i] ELSE 0
        contradictory == \E i, j \in present : f.signals[i] - f.signals[j] >= 60
    IN  IF f.age = Unset THEN Neutral("EXTERNAL_CONTEXT_UNAVAILABLE", 0)
        ELSE IF f.age > ExternalMaxAge THEN Neutral("EXTERNAL_CONTEXT_STALE", 10)
        ELSE IF present = {} THEN Neutral("EXTERNAL_SIGNALS_MISSING", 0)
        ELSE Fresh(Rounded(value(1) + value(2) + value(3), n),
                   IF contradictory THEN 10 ELSE Least(100, 40 + 20 * n),
                   IF contradictory THEN "EXTERNAL_SIGNALS_CONTRADICTORY"
                   ELSE "EXTERNAL_CONTEXT_NORMALIZED")

-----------------------------------------------------------------------------
(* The GPS check and the investigation agent.                              *)

MaxSpeed == 900

(* A quarter of a kilometre is always permitted. *)
EvaluateGpv(previous, current, minutes) ==
    IF previous = Unset THEN "LIKELY_MATCH"
    ELSE IF 60 * Most(current - previous, previous - current) <= MaxSpeed * minutes + 15
    THEN "MATCHED" ELSE "MISMATCHED"

ScoreReason(score) ==
    IF score > 50 THEN "RISK_SCORE_HIGH"
    ELSE IF score > 25 THEN "RISK_SCORE_MODERATE"
    ELSE IF score > 5 THEN "RISK_SCORE_LOW" ELSE Unset

(* Events without a datetime, and over HTTP none has one, count as recent. *)
InBaseline(eventAge) == eventAge = Unset \/ eventAge <= 30

ReasonCodes(score, baselineCount, macroContext) ==
    LET reasons == ({ScoreReason(score)} \ {Unset})
                   \cup (IF baselineCount = 0 THEN {"BASELINE_UNAVAILABLE"} ELSE {})
                   \cup (IF macroContext THEN {"MACRO_CONTEXT_CONSIDERED"} ELSE {})
    IN  IF reasons = {} THEN {"NO_ADVERSE_FACTOR"} ELSE reasons

(* A provider that fails is replaced, never reported as an error. *)
Investigate(f) ==
    [reasons |-> ReasonCodes(f.score, Cardinality({e \in f.eventAges : InBaseline(e)}), f.macroContext),
     fallback |-> f.providerFails]

-----------------------------------------------------------------------------
(* An edit of the rules changes the answer to a payment only if it touches *)
(* the rule in force for the payment's merchant, or one that takes over    *)
(* from it: a rule that another one of the merchant overshadows has no     *)
(* say however strict it is, and neither has another merchant's.           *)
PolicyStable ==
    [][EvaluatePolicy(fact)' # EvaluatePolicy(fact) =>
          \E i \in RulesOf(fact.merchant) \cup RulesOf(fact.merchant)' :
              /\ rules'[i] # rules[i]
              /\ \A j \in RulesOf(fact.merchant) \cup RulesOf(fact.merchant)' : j <= i]_evidence

(* The facts that are one step worse for the payment than these. *)
Worse(f) ==
    {[f EXCEPT !.amount = @ + n] : n \in {1, LowValue}}
    \cup {[f EXCEPT !.tokenized = FALSE], [f EXCEPT !.authenticated = FALSE],
          [f EXCEPT !.exempt = FALSE], [f EXCEPT !.deviceRequired = TRUE]}
    \cup {[f EXCEPT !.network = IF f.network = TRUE THEN Unset ELSE FALSE]}
    \cup {[f EXCEPT !.device = IF f.device = "TRUSTED" THEN "UNKNOWN" ELSE "UNTRUSTED"]}

(* Failing closed, worse evidence never unblocks a payment.  Failing open  *)
(* it may: a challenge counts for nothing when trust cannot be had.        *)
WorseNeverUnblocks ==
    fact.failClosed /\ Blocking(fact) => \A f \in Worse(fact) : Blocking(f)

(* A payment above three times the low value goes ahead unauthenticated    *)
(* only where the service fails open and evidence of trust is missing.     *)
ScaHeld ==
    fact.amount > 3 * LowValue /\ ~ fact.authenticated /\ ~ Blocking(fact) =>
        ~ fact.failClosed /\ "UNAVAILABLE" \in {NetworkOutcome(fact), DeviceOutcome(fact)}

(* A larger amount is never scored lower, but that the score for exceeding *)
(* the balance replaces every other one.                                   *)
AmountMonotone ==
    \A n \in {1, LowValue, 5 * LowValue} :
        EvaluateFinancial([fact EXCEPT !.amount = @ + n]).score >= Least(EvaluateFinancial(fact).score, 90)

(* Either context: only a fresh and consistent answer has weight, anything *)
(* that is not fresh says the middle, and a mean stays within its signals. *)
ContextHonest ==
    LET financial == EvaluateFinancial(fact)
        external == EvaluateExternal(fact)
        known == {fact.signals[i] : i \in 1..3} \ {Unset}
    IN  /\ \A answer \in {financial, external} : ~ answer.fresh => answer.score = 50 /\ answer.confidence <= 10
        /\ external.fresh => /\ \E s \in known : s <= external.score
                             /\ \E s \in known : s >= external.score
        /\ external.fresh /\ external.confidence > 10 => \A s \in known : s - external.score < 60

(* What the profile calls a sudden jump, 250 km within 15 minutes, the GPS *)
(* check calls impossible.                                                 *)
SuddenIsImpossible ==
    \A current \in {fact.previous} \ {Unset} :
        fact.minutes <= 15 => EvaluateGpv(fact.previous, current + 250, fact.minutes) = "MISMATCHED"

(* The agent names the tier of a score the way the policy does.            *)
ReasonsAgree ==
    LET reasons == Investigate(fact).reasons IN
    /\ "RISK_SCORE_HIGH" \in reasons <=> TierForScore(fact.score) = "HIGH"
    /\ "RISK_SCORE_MODERATE" \in reasons <=> TierForScore(fact.score) = "MODERATE"
    /\ "RISK_SCORE_LOW" \in reasons <=> TierForScore(fact.score) = "LOW"

(* Authentication stays required and worse evidence stays worse, but where *)
(* the service was told to fail open.                                      *)
ComplianceHolds == WorseNeverUnblocks /\ ScaHeld

(* A context says more of a payment only by what it knows of it.           *)
ContextsHonest == AmountMonotone /\ ContextHonest
=============================================================================
