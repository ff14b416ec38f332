\* Every combination of a request's fields, one answer each; a customer's
\* payments and verdicts; the facts of one payment under merchants' rules.
SPECIFICATION LoadSpec
CONSTANTS
    Scores <- MCScores
    Costs <- MCCosts
    Sent <- MCSent
    Unset = Unset
    Unknown = Unknown
    AmountLog <- MCAmountLog
    TrustWindow = 2
    Payments <- MCPayments
    Seeds <- MCSeeds
    Percents <- MCPercents
    Risks <- MCRisks
    Findings <- MCFindings
    ClientVectors <- MCClientVectors
    Verdicts <- MCVerdicts
    MaxPayments = 2
    MaxVerdicts = 2
    LockIds = {1, 2}
    MerchantRules <- MCMerchantRules
    Facts <- MCFacts
    LowValue = 10
    NoRequest <- MCNoRequest
    NoFact <- Plain
INVARIANTS AllowEarned ReviewEscalates ProceedsSupported FeaturesSound VerdictsWeighed ScoreDecides
    ComplianceHolds ContextsHonest BoundariesAgree ReportHonest
PROPERTY PolicyStable
\* A behaviour of the engine is one request and its answer.
CHECK_DEADLOCK FALSE
