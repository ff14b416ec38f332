------------------------ MODULE DecisionEngine_proofs ------------------------
(***************************************************************************)
(* What the decision engine answers for every score and cost model, what   *)
(* the evidence services say of every payment, and what the analyst        *)
(* pipeline makes of every answer of its models.                           *)
(*                                                                         *)
(* A cost model can only choose among the candidates: the cheapest exists  *)
(* and is one of them.  Of a merchant's rules the greatest id exists, as   *)
(* only finitely many were saved.  Rounding keeps order and bounds, so     *)
(* fusion does; a response is the one its verdicts, its drift and the      *)
(* answers of its models make (PipelineInv), and the rest follows from     *)
(* what those may be.  Filtering a history commutes with recording, so     *)
(* what came before a payment is the same before and after it is recorded  *)
(* (FeaturesInv).                                                          *)
(***************************************************************************)
EXTENDS Authorization, FiniteSetTheorems, SequenceTheorems, WellFoundedInduction, TLAPS

LEMMA CostIsInt ==
    ASSUME NEW r \in Request, NEW a \in Actions
    PROVE  Cost(a, r) \in Int
  <1> DEFINE c == r.costs
  <1>1. r.score \in Int /\ c \in CostModel
    <2>1. r.score \in Scores /\ c \in Costs
      BY DEF Request
    <2>2. \A n \in 0..100 : n \in Int
      OBVIOUS
    <2> HIDE DEF c
    <2> QED BY <2>1, <2>2, ScoresArePercent, CostsAreModels
  <1>2. /\ c.fraud \in Int /\ c.falseDecline \in Int /\ c.monitor \in Int /\ c.challenge \in Int
        /\ c.review \in Int /\ c.reversal \in Int /\ c.monitorRate \in Int
        /\ c.challengeRate \in Int /\ c.reviewRate \in Int /\ c.reversalRate \in Int
    BY <1>1 DEF CostModel
  <1> HIDE DEF c
  <1>3. \A x, y, z \in Int : x * y * z \in Int
    OBVIOUS
  <1>4. \A rate \in Int : r.score * c.fraud * rate \in Int
    BY <1>1, <1>2, <1>3
  <1>5. 100 * (100 - r.score) * c.falseDecline \in Int
    <2>1. 100 - r.score \in Int
      BY <1>1
    <2> QED BY <2>1, <1>2, <1>3
  <1>6. \A x, y \in Int : 10000 * x + y \in Int
    OBVIOUS
  <1> QED BY <1>2, <1>4, <1>5, <1>6 DEF Cost, Actions, c

LEMMA CandidatesShape ==
    ASSUME NEW r \in Request
    PROVE  /\ \/ Candidates(r) \in [1..2 -> Actions] /\ DOMAIN Candidates(r) = 1..2
              \/ Candidates(r) \in [1..3 -> Actions] /\ DOMAIN Candidates(r) = 1..3
  BY UnsetIsAbsence DEF Candidates, AllowedForTier, CandidatesForBand, MatrixMode, Tier, TierFromBand,
     TierForScore, Request, Tiers, Bands, Actions

LEMMA CheapestIsCandidate ==
    ASSUME NEW r \in Request
    PROVE  \E i \in DOMAIN Candidates(r) : Cheapest(r) = Candidates(r)[i]
  <1> DEFINE s == Candidates(r)
             cost(i) == Cost(s[i], r)
             Best(i) == \A j \in DOMAIN s : cost(i) <= cost(j) /\ (j < i => cost(i) < cost(j))
  <1>1. \A i \in DOMAIN s : cost(i) \in Int
    BY CandidatesShape, CostIsInt
  <1>2. \E i \in DOMAIN s : Best(i)
    <2>1. CASE DOMAIN s = 1..2
      <3>1. 1 \in DOMAIN s /\ 2 \in DOMAIN s /\ cost(1) \in Int /\ cost(2) \in Int
        BY <2>1, <1>1
      <3> HIDE DEF s, cost
      <3>2. CASE cost(1) <= cost(2)
        BY <2>1, <3>1, <3>2
      <3>3. CASE cost(2) < cost(1)
        BY <2>1, <3>1, <3>3
      <3> QED BY <3>1, <3>2, <3>3
    <2>2. CASE DOMAIN s = 1..3
      <3>1. /\ 1 \in DOMAIN s /\ 2 \in DOMAIN s /\ 3 \in DOMAIN s
            /\ cost(1) \in Int /\ cost(2) \in Int /\ cost(3) \in Int
        BY <2>2, <1>1
      <3> HIDE DEF s, cost
      <3>2. CASE cost(1) <= cost(2) /\ cost(1) <= cost(3)
        BY <2>2, <3>1, <3>2
      <3>3. CASE cost(2) < cost(1) /\ cost(2) <= cost(3)
        BY <2>2, <3>1, <3>3
      <3>4. CASE cost(3) < cost(1) /\ cost(3) < cost(2)
        BY <2>2, <3>1, <3>4
      <3> QED BY <3>1, <3>2, <3>3, <3>4
    <2> QED BY <2>1, <2>2, CandidatesShape
  <1> QED BY <1>2 DEF Cheapest

LEMMA SelectedIsAction ==
    ASSUME NEW r \in Request
    PROVE  Selected(r) \in Actions
  BY CheapestIsCandidate, CandidatesShape DEF Selected, Actions

(* Only a NO_RISK payment, or a client's consistent APPROVE band, is passed *)
(* by its cost.                                                             *)
LEMMA SelectedAllow ==
    ASSUME NEW r \in Request, Selected(r) = "ALLOW"
    PROVE  Tier(r) = "NO_RISK" \/ (r.band = "APPROVE" /\ Tier(r) = "LOW")
  <1>1. Cheapest(r) = "ALLOW"
    BY DEF Selected
  <1>2. CASE MatrixMode(r)
    BY <1>1, <1>2 DEF Selected
  <1>3. CASE ~ MatrixMode(r)
    <2>1. r.band \in Bands /\ Tier(r) = TierFromBand[r.band] /\ Candidates(r) = CandidatesForBand[r.band]
      BY <1>3 DEF MatrixMode, Candidates, Request
    <2>2. r.band = "APPROVE"
      BY <1>1, <2>1, CheapestIsCandidate DEF CandidatesForBand, Bands
    <2> QED BY <2>1, <2>2 DEF TierFromBand
  <1> QED BY <1>2, <1>3

-----------------------------------------------------------------------------
IInv ==
    /\ TypeOK
    /\ AllowEarned
    /\ ReviewEscalates
    /\ ProceedsSupported

(* What an answer has to respect of the request it answers. *)
Sound(a, e) ==
    /\ a = "ALLOW" => \/ request.outcome = "APPROVED"
                      \/ Tier(request) = "NO_RISK"
                      \/ request.band = "APPROVE" /\ Tier(request) = "LOW"
    /\ e => a = "REVIEW"
    /\ a = "REVIEW" /\ Tier(request) = "HIGH" => e
    /\ a \in {"ALLOW", "MONITOR", "CHALLENGE"} =>
          /\ ~ request.reversal /\ ~ request.blocked /\ request.evidence
          /\ Path(request) = "SECONDARY" => request.explained
          /\ request.outcome \notin Failed \cup {"ESCALATED"}

LEMMA SoundAnswer ==
    ASSUME TypeOK, NEW a \in Actions, NEW e \in BOOLEAN, Respond(a, e), Sound(a, e)
    PROVE  IInv'
  <1>1. /\ request \in Request /\ request' = request
        /\ response' = [action |-> a, escalated |-> e]
    BY DEF TypeOK, Respond
  <1>2. TypeOK'
    BY <1>1 DEF TypeOK
  <1>3. AllowEarned' /\ ReviewEscalates'
    BY <1>1 DEF Sound, AllowEarned, ReviewEscalates
  <1>4. ProceedsSupported'
    BY <1>1 DEF Sound, ProceedsSupported
  <1> QED BY <1>2, <1>3, <1>4 DEF IInv

LEMMA InitInv == Init => IInv
  BY DEF Init, IInv, TypeOK, AllowEarned, ReviewEscalates, ProceedsSupported, Answered

LEMMA StepInv == IInv /\ [Next]_vars => IInv'
  <1> SUFFICES ASSUME IInv, [Next]_vars PROVE IInv'
    OBVIOUS
  <1> USE DEF IInv
  <1>0. CASE UNCHANGED vars
    BY <1>0 DEF vars, TypeOK, AllowEarned, ReviewEscalates, ProceedsSupported, Answered,
       Tier, Path, PathForRail
  <1>1. CASE DecideReversal
    <2>1. Respond("REVERSE", FALSE) /\ Sound("REVERSE", FALSE)
      BY <1>1 DEF DecideReversal, Sound
    <2>2. "REVERSE" \in Actions /\ FALSE \in BOOLEAN
      BY DEF Actions
    <2> QED BY <2>1, <2>2, SoundAnswer
  <1>2. CASE DecideBlocked
    <2>1. Respond("DECLINE", FALSE) /\ Sound("DECLINE", FALSE)
      BY <1>2 DEF DecideBlocked, Sound
    <2>2. "DECLINE" \in Actions /\ FALSE \in BOOLEAN
      BY DEF Actions
    <2> QED BY <2>1, <2>2, SoundAnswer
  <1>3. CASE DecideWithoutEvidence
    <2>1. Respond("REVIEW", IsHigh) /\ Sound("REVIEW", IsHigh)
      BY <1>3 DEF DecideWithoutEvidence, Sound, IsHigh
    <2>2. "REVIEW" \in Actions /\ IsHigh \in BOOLEAN
      BY DEF Actions, IsHigh
    <2> QED BY <2>1, <2>2, SoundAnswer
  <1>4. CASE DecideUnexplained
    <2>1. Respond("REVIEW", TRUE) /\ Sound("REVIEW", TRUE)
      BY <1>4 DEF DecideUnexplained, Sound
    <2>2. "REVIEW" \in Actions /\ TRUE \in BOOLEAN
      BY DEF Actions
    <2> QED BY <2>1, <2>2, SoundAnswer
  <1>5. CASE DecideFailed
    <2> DEFINE a == IF IsHigh THEN "REVIEW" ELSE "DECLINE"
    <2>1. Respond(a, IsHigh) /\ Sound(a, IsHigh)
      BY <1>5 DEF DecideFailed, Sound, IsHigh
    <2>2. a \in Actions /\ IsHigh \in BOOLEAN
      BY DEF Actions, IsHigh
    <2> QED BY <2>1, <2>2, SoundAnswer
  <1>6. CASE DecideEscalated
    <2>1. Respond("REVIEW", TRUE) /\ Sound("REVIEW", TRUE)
      BY <1>6 DEF DecideEscalated, Sound
    <2>2. "REVIEW" \in Actions
      BY DEF Actions
    <2> QED BY <2>1, <2>2, SoundAnswer
  <1>7. CASE DecideApproved
    <2>1. Respond("ALLOW", FALSE) /\ Sound("ALLOW", FALSE)
      BY <1>7 DEF DecideApproved, Sound, Undecided, Controlled, Unexplained, Failed
    <2>2. "ALLOW" \in Actions
      BY DEF Actions
    <2> QED BY <2>1, <2>2, SoundAnswer
  <1>8. CASE DecideByCost
    <2> DEFINE a == Selected(request)
               e == IsHigh /\ a = "REVIEW"
    <2>1. request \in Request /\ a \in Actions /\ e \in BOOLEAN /\ Respond(a, e)
      BY <1>8, SelectedIsAction DEF TypeOK, DecideByCost
    <2>2. a = "ALLOW" => Tier(request) = "NO_RISK" \/ (request.band = "APPROVE" /\ Tier(request) = "LOW")
      BY <2>1, SelectedAllow
    <2>3. Undecided /\ request.outcome = "PENDING"
      BY <1>8 DEF DecideByCost
    <2>4. Sound(a, e)
      <3> HIDE DEF a
      <3> QED BY <2>2, <2>3 DEF Sound, IsHigh, Undecided, Controlled, Unexplained, Failed
    <2> HIDE DEF a, e
    <2> QED BY <2>1, <2>4, SoundAnswer
  <1> QED BY <1>0, <1>1, <1>2, <1>3, <1>4, <1>5, <1>6, <1>7, <1>8 DEF Next

LEMMA Invariance == Spec => []IInv
  BY InitInv, StepInv, PTL DEF Spec

-----------------------------------------------------------------------------
(* The answer is always one of the engine's actions: among the candidates  *)
(* of every tier and band there is a cheapest one, whatever the costs.     *)
THEOREM TypeCorrect == Spec => []TypeOK
  BY Invariance, PTL DEF IInv

(* No score and no cost model lets a payment of a tier above NO_RISK pass  *)
(* unapproved, unless the client's APPROVE band says the tier is LOW.      *)
THEOREM AllowCorrect == Spec => []AllowEarned
  BY Invariance, PTL DEF IInv

(* Every review of a HIGH payment, by whichever return, escalates.         *)
THEOREM EscalationCorrect == Spec => []ReviewEscalates
  BY Invariance, PTL DEF IInv

(* Nothing proceeds against a hard control, missing support or a failed    *)
(* verification.                                                           *)
THEOREM SupportCorrect == Spec => []ProceedsSupported
  BY Invariance, PTL DEF IInv

(* A quotient is rounded to within half of the divisor, which suffices to  *)
(* compare two of them.                                                    *)
LEMMA Quotient ==
    ASSUME NEW n \in Int, NEW d \in Nat \ {0}
    PROVE  /\ n \div d \in Int /\ n % d \in 0..(d - 1)
           /\ n = d * (n \div d) + (n % d)
  OBVIOUS

LEMMA FactorLess ==
    ASSUME NEW a \in Int, NEW b \in Int, NEW d \in Nat \ {0}, d * a < d * (b + 1)
    PROVE  a <= b
  OBVIOUS

LEMMA RoundedNear ==
    ASSUME NEW n \in Int, NEW d \in Nat \ {0}
    PROVE  /\ Rounded(n, d) \in Int
           /\ Rounded(n, d) \in {n \div d, (n \div d) + 1}
           /\ Rounded(n, d) = (n \div d) + 1 <=> (2 * (n % d) > d \/ (2 * (n % d) = d /\ (n \div d) % 2 = 1))
  <1>1. PICK q : q = n \div d
    OBVIOUS
  <1>2. PICK r : r = n % d
    OBVIOUS
  <1>3. q \in Int /\ r \in Int
    BY <1>1, <1>2, Quotient
  <1>4. Rounded(n, d) = IF 2 * r > d \/ (2 * r = d /\ q % 2 = 1) THEN q + 1 ELSE q
    BY <1>1, <1>2 DEF Rounded
  <1> QED
    BY <1>1, <1>2, <1>3, <1>4

LEMMA RoundedMonotone ==
    ASSUME NEW n \in Int, NEW m \in Int, NEW d \in Nat \ {0}, n <= m
    PROVE  Rounded(n, d) <= Rounded(m, d)
  <1>1. PICK p, q : p = n \div d /\ q = m \div d
    OBVIOUS
  <1>2. PICK r, s : r = n % d /\ s = m % d
    OBVIOUS
  <1>3. /\ p \in Int /\ q \in Int /\ r \in 0..(d - 1) /\ s \in 0..(d - 1)
        /\ n = d * p + r /\ m = d * q + s
    BY <1>1, <1>2, Quotient
  <1>4. p <= q
    <2>1. d * p < d * (q + 1)
      <3>1. d * (q + 1) = d * q + d
        BY <1>3
      <3>2. d * p \in Int /\ d * q \in Int
        BY <1>3
      <3> QED
        BY <1>3, <3>1, <3>2
    <2> QED
      BY <1>3, <2>1, FactorLess
  <1>5. p = q => r <= s
    BY <1>3
  <1>6. PICK x, y : x = Rounded(n, d) /\ y = Rounded(m, d)
    OBVIOUS
  <1>7. /\ x \in {p, p + 1} /\ y \in {q, q + 1}
        /\ x = p + 1 <=> (2 * r > d \/ (2 * r = d /\ p % 2 = 1))
        /\ y = q + 1 <=> (2 * s > d \/ (2 * s = d /\ q % 2 = 1))
    BY <1>1, <1>2, <1>6, RoundedNear
  <1>8. CASE p < q
    BY <1>3, <1>6, <1>7, <1>8
  <1>9. CASE p = q
    BY <1>3, <1>5, <1>6, <1>7, <1>9
  <1> QED
    BY <1>3, <1>4, <1>8, <1>9

(* A quotient between two whole numbers stays between them. *)
LEMMA RoundedWhole ==
    ASSUME NEW k \in Int, NEW d \in Nat \ {0}
    PROVE  Rounded(k * d, d) = k
  <1>1. PICK q, r : q = (k * d) \div d /\ r = (k * d) % d
    OBVIOUS
  <1>2. k * d \in Int
    OBVIOUS
  <1>3. q \in Int /\ r \in 0..(d - 1) /\ k * d = d * q + r
    BY <1>1, <1>2, Quotient
  <1>4. k = q
    <2>1. d * q < d * (k + 1)
      <3>1. d * (k + 1) = d * k + d /\ d * k = k * d
        OBVIOUS
      <3>2. d * k \in Int /\ d * q \in Int
        BY <1>3
      <3> QED
        BY <1>3, <3>1, <3>2
    <2>2. d * k < d * (q + 1)
      <3>1. d * (q + 1) = d * q + d /\ d * k = k * d
        BY <1>3
      <3>2. d * k \in Int /\ d * q \in Int
        BY <1>3
      <3> QED
        BY <1>3, <3>1, <3>2
    <2> QED
      BY <1>3, <2>1, <2>2, FactorLess
  <1>5. r = 0
    <2>1. d * q = k * d /\ d * q \in Int
      BY <1>3, <1>4
    <2> QED
      BY <1>3, <2>1
  <1>6. PICK n : n = k * d
    OBVIOUS
  <1>7. PICK x : x = Rounded(n, d)
    OBVIOUS
  <1>8. x \in {q, q + 1} /\ (x = q + 1 <=> (2 * r > d \/ (2 * r = d /\ q % 2 = 1)))
    BY <1>1, <1>2, <1>6, <1>7, RoundedNear
  <1>9. x = q
    BY <1>3, <1>5, <1>8
  <1> QED
    BY <1>4, <1>6, <1>7, <1>9

LEMMA RoundedBetween ==
    ASSUME NEW n \in Int, NEW d \in Nat \ {0}, NEW lo \in Int, NEW hi \in Int,
           lo * d <= n, n <= hi * d
    PROVE  Rounded(n, d) \in lo..hi
  <1>1. lo * d \in Int /\ hi * d \in Int
    OBVIOUS
  <1>2. Rounded(lo * d, d) <= Rounded(n, d) /\ Rounded(n, d) <= Rounded(hi * d, d)
    BY <1>1, RoundedMonotone
  <1>3. Rounded(lo * d, d) = lo /\ Rounded(hi * d, d) = hi /\ Rounded(n, d) \in Int
    BY RoundedWhole, RoundedNear
  <1> QED
    BY <1>2, <1>3

-----------------------------------------------------------------------------
(* Only finitely many rules were saved at any time, so a merchant that has *)
(* one has one with the greatest id.                                       *)
EvidenceInv ==
    /\ fact \in Facts
    /\ rules \in [LockIds -> MerchantRules \cup {Unset}]
    /\ IsFiniteSet({i \in LockIds : Given(rules[i])})

LEMMA EvidenceInvariance == EvidenceSpec => []EvidenceInv
<1> DEFINE Saved == {i \in LockIds : Given(rules[i])}
<1>1. EvidenceInit => EvidenceInv
  <2> SUFFICES ASSUME EvidenceInit PROVE EvidenceInv
    OBVIOUS
  <2>1. Saved = {}
    BY DEF EvidenceInit, Given
  <2> QED
    BY <2>1, FS_EmptySet DEF EvidenceInit, EvidenceInv
<1>2. EvidenceInv /\ [EvidenceNext]_evidence => EvidenceInv'
  <2> SUFFICES ASSUME EvidenceInv, [EvidenceNext]_evidence PROVE EvidenceInv'
    OBVIOUS
  <2>1. ASSUME NEW i \in LockIds, NEW r \in MerchantRules \cup {Unset}, fact' = fact,
               rules' = [rules EXCEPT ![i] = r]
        PROVE  EvidenceInv'
    <3>1. Saved' \subseteq Saved \cup {i}
      BY <2>1 DEF EvidenceInv, Given
    <3>2. IsFiniteSet(Saved \cup {i})
      BY FS_AddElement DEF EvidenceInv
    <3>3. IsFiniteSet(Saved')
      BY <3>1, <3>2, FS_Subset
    <3> QED
      BY <2>1, <3>3 DEF EvidenceInv
  <2>2. CASE UNCHANGED evidence
    BY <2>2 DEF evidence, EvidenceInv
  <2>3. ASSUME NEW i \in LockIds, NEW r \in MerchantRules, CreateRule(i, r) PROVE EvidenceInv'
    BY <2>1, <2>3 DEF CreateRule
  <2>4. ASSUME NEW path \in LockIds, NEW i \in LockIds, NEW r \in MerchantRules, ReplaceRule(path, i, r)
        PROVE  EvidenceInv'
    BY <2>1, <2>4 DEF ReplaceRule
  <2>5. ASSUME NEW i \in LockIds, DeleteRule(i) PROVE EvidenceInv'
    BY <2>1, <2>5 DEF DeleteRule
  <2> QED
    BY <2>2, <2>3, <2>4, <2>5 DEF EvidenceNext
<1> QED
  BY <1>1, <1>2, PTL DEF EvidenceSpec

LEMMA FirstNumber ==
    ASSUME NEW T, T \subseteq Nat, T # {}
    PROVE  \E x \in T : \A y \in T : x <= y
<1> DEFINE R == OpToRel(<, Nat)
<1>1. \A x, y \in Nat : x < y => <<x, y>> \in R
  BY DEF OpToRel
<1>2. IsWellFoundedOn(R, Nat)
  BY NatLessThanWellFounded, Zenon
<1> HIDE DEF R
<1>3. PICK x \in T : \A y \in T : ~ (<<y, x>> \in R)
  BY <1>2, WFMin
<1>4. ASSUME NEW y \in T PROVE x <= y
  <2>1. x \in Nat /\ y \in Nat
    OBVIOUS
  <2>2. ~ (y < x)
    BY <1>1, <1>3, <2>1
  <2> QED
    BY <2>1, <2>2
<1> QED
  BY <1>4

(* The greatest of finitely many numbers is the one with fewest above it. *)
LEMMA GreatestExists ==
    ASSUME NEW S, S \subseteq Nat, IsFiniteSet(S), S # {}
    PROVE  \E i \in S : \A j \in S : j <= i
<1> DEFINE above(i) == {j \in S : j > i}
           T == {Cardinality(above(i)) : i \in S}
<1>1. \A i \in S : IsFiniteSet(above(i)) /\ Cardinality(above(i)) \in Nat
  <2> TAKE i \in S
  <2>1. above(i) \subseteq S
    OBVIOUS
  <2> QED
    BY <2>1, FS_Subset, FS_CardinalityType
<1>2. T \subseteq Nat /\ T # {}
  BY <1>1
<1>3. PICK i \in S : \A j \in S : Cardinality(above(i)) <= Cardinality(above(j))
  <2>1. PICK x \in T : \A y \in T : x <= y
    BY <1>2, FirstNumber
  <2> QED
    BY <2>1
<1>4. ASSUME NEW j \in S, ~ (j <= i) PROVE FALSE
  <2>1. i \in Nat /\ j \in Nat /\ j > i
    BY <1>4
  <2>2. above(j) \in SUBSET above(i)
    <3>1. \A k \in S : k > j => k > i
      <4> TAKE k \in S
      <4>1. k \in Nat
        OBVIOUS
      <4> QED
        BY <2>1, <4>1
    <3> QED
      BY <3>1
  <2>3. j \in above(i) /\ ~ (j \in above(j))
    BY <2>1
  <2>4. PICK a, b : a = above(i) /\ b = above(j)
    OBVIOUS
  <2>5. b \in SUBSET a /\ b # a /\ IsFiniteSet(a) /\ Cardinality(a) <= Cardinality(b)
    BY <1>1, <1>3, <2>2, <2>3, <2>4
  <2>6. Cardinality(b) < Cardinality(a)
    <3>1. /\ Cardinality(b) <= Cardinality(a) /\ Cardinality(b) \in Nat /\ Cardinality(a) \in Nat
          /\ Cardinality(b) = Cardinality(a) => b = a
      BY <2>5, FS_Subset, FS_CardinalityType
    <3> QED
      BY <2>5, <3>1
  <2>7. Cardinality(a) \in Nat /\ Cardinality(b) \in Nat
    BY <1>1, <2>4
  <2> QED
    BY <2>5, <2>6, <2>7
<1> QED
  BY <1>4

(* A rule of the merchant with the greatest id is the one in force. *)
LEMMA RuleInForce ==
    ASSUME NEW S, NEW f, S \subseteq Nat, NEW i \in S, \A j \in S : j <= i
    PROVE  f[CHOOSE k \in S : \A j \in S : j <= k] = f[i]
<1>1. PICK k : k = CHOOSE x \in S : \A j \in S : j <= x
  OBVIOUS
<1>2. k \in S /\ \A j \in S : j <= k
  BY <1>1
<1>3. k = i
  <2>1. k <= i /\ i <= k /\ k \in Nat /\ i \in Nat
    BY <1>2
  <2> QED
    BY <2>1
<1> QED
  BY <1>1, <1>3

LEMMA PolicyStep ==
    ASSUME EvidenceInv, EvidenceInv', EvidenceNext, EvaluatePolicy(fact)' # EvaluatePolicy(fact)
    PROVE  \E i \in RulesOf(fact.merchant) \cup RulesOf(fact.merchant)' :
               /\ rules'[i] # rules[i]
               /\ \A j \in RulesOf(fact.merchant) \cup RulesOf(fact.merchant)' : j <= i
<1>1. fact' = fact
  BY DEF EvidenceNext, CreateRule, ReplaceRule, DeleteRule
<1>2. PICK m, A, B, U : m = fact.merchant /\ A = RulesOf(m) /\ B = RulesOf(m)' /\ U = A \cup B
  OBVIOUS
<1>3. /\ A = {i \in LockIds : Given(rules[i]) /\ rules[i].merchant = m}
      /\ B = {i \in LockIds : Given(rules'[i]) /\ rules'[i].merchant = m}
  BY <1>2 DEF RulesOf, Given
<1>4. IsFiniteSet(U) /\ U \subseteq Nat
  <2>1. PICK V, W : /\ V = {i \in LockIds : Given(rules[i])}
                    /\ W = {i \in LockIds : Given(rules'[i])}
    OBVIOUS
  <2>2. IsFiniteSet(V) /\ IsFiniteSet(W)
    BY <2>1 DEF EvidenceInv, Given
  <2>3. A \subseteq V /\ B \subseteq W
    BY <1>3, <2>1
  <2>4. IsFiniteSet(A) /\ IsFiniteSet(B)
    BY <2>2, <2>3, FS_Subset
  <2>5. IsFiniteSet(U)
    BY <1>2, <2>4, FS_Union
  <2> QED
    BY <1>2, <1>3, <2>5, EvidenceAssumption
<1>5. /\ SelectRule(m) = IF A = {} THEN Unset ELSE rules[CHOOSE i \in A : \A j \in A : j <= i]
      /\ SelectRule(m)' = IF B = {} THEN Unset ELSE rules'[CHOOSE i \in B : \A j \in B : j <= i]
  BY <1>2 DEF SelectRule
<1>6. SelectRule(m)' # SelectRule(m)
  <2>1. /\ EvaluatePolicy(fact) = Allows(SelectRule(m), fact)
        /\ EvaluatePolicy(fact)' = Allows(SelectRule(m)', fact)
    BY <1>1, <1>2 DEF EvaluatePolicy, Allows, Given, Violated, Above, DailySpend
  <2> QED
    BY <2>1
<1>7. U # {}
  BY <1>2, <1>5, <1>6
<1>8. PICK i \in U : \A j \in U : j <= i
  BY <1>4, <1>7, GreatestExists
<1>9. ASSUME rules'[i] = rules[i] PROVE FALSE
  <2>1. i \in A /\ i \in B
    BY <1>2, <1>3, <1>9 DEF Given
  <2>2. /\ A \subseteq Nat /\ B \subseteq Nat
        /\ (\A j \in A : j <= i) /\ (\A j \in B : j <= i)
    BY <1>2, <1>4, <1>8
  <2>3. SelectRule(m) = rules[i]
    BY <1>5, <2>1, <2>2, RuleInForce
  <2>4. SelectRule(m)' = rules'[i]
    BY <1>5, <2>1, <2>2, RuleInForce
  <2> QED
    BY <1>6, <1>9, <2>3, <2>4
<1>10. RulesOf(fact.merchant) \cup RulesOf(fact.merchant)' = U
  BY <1>1, <1>2, <1>3 DEF RulesOf, Given
<1> QED
  BY <1>8, <1>9, <1>10

(* Whatever rules come and go, an edit that does not touch the rule in     *)
(* force, or put another one in its place, changes no answer.              *)
THEOREM PolicyCorrect == EvidenceSpec => PolicyStable
<1>1. EvidenceInv /\ EvidenceInv' /\ [EvidenceNext]_evidence =>
          [EvaluatePolicy(fact)' # EvaluatePolicy(fact) =>
              \E i \in RulesOf(fact.merchant) \cup RulesOf(fact.merchant)' :
                  /\ rules'[i] # rules[i]
                  /\ \A j \in RulesOf(fact.merchant) \cup RulesOf(fact.merchant)' : j <= i]_evidence
  BY PolicyStep
<1> QED
  BY <1>1, EvidenceInvariance, PTL DEF EvidenceSpec, PolicyStable

-----------------------------------------------------------------------------
LEMMA FactTyped == EvidenceInv => fact \in Fact
  BY EvidenceAssumption DEF EvidenceInv

(* Failing closed, a payment is blocked unless every outcome is a pass. *)
LEMMA BlockedClosed ==
    ASSUME NEW f, f.failClosed
    PROVE  Blocking(f) <=> ~ (/\ f.tokenized /\ ScaOutcome(f) = "PASS"
                              /\ NetworkOutcome(f) = "PASS" /\ DeviceOutcome(f) = "PASS")
  BY DEF Blocking, Overall, ComplianceOutcomes, ScaOutcome, NetworkOutcome, DeviceOutcome

(* One step worse touches one field, in one direction. *)
LEMMA WorseFields ==
    ASSUME NEW p \in Fact, NEW f \in Worse(p)
    PROVE  /\ f.failClosed = p.failClosed /\ f.amount \in Nat /\ p.amount <= f.amount
           /\ f.tokenized => p.tokenized
           /\ f.authenticated => p.authenticated
           /\ f.exempt => p.exempt
           /\ p.deviceRequired => f.deviceRequired
           /\ f.network = p.network \/ f.network = FALSE \/ (p.network = TRUE /\ f.network = Unset)
           /\ f.device = p.device \/ f.device = "UNTRUSTED" \/ (p.device = "TRUSTED" /\ f.device = "UNKNOWN")
<1> DEFINE Fields(g) ==
             /\ g.failClosed = p.failClosed /\ g.amount \in Nat /\ p.amount <= g.amount
             /\ g.tokenized => p.tokenized
             /\ g.authenticated => p.authenticated
             /\ g.exempt => p.exempt
             /\ p.deviceRequired => g.deviceRequired
             /\ g.network = p.network \/ g.network = FALSE \/ (p.network = TRUE /\ g.network = Unset)
             /\ g.device = p.device \/ g.device = "UNTRUSTED" \/ (p.device = "TRUSTED" /\ g.device = "UNKNOWN")
<1>0. p.amount \in Nat /\ LowValue \in Nat
  BY EvidenceAssumption DEF Fact
<1>1. \A n \in {1, LowValue} : Fields([p EXCEPT !.amount = @ + n])
  BY <1>0 DEF Fact
<1>2. Fields([p EXCEPT !.tokenized = FALSE])
  BY <1>0 DEF Fact
<1>3. Fields([p EXCEPT !.authenticated = FALSE])
  BY <1>0 DEF Fact
<1>4. Fields([p EXCEPT !.exempt = FALSE])
  BY <1>0 DEF Fact
<1>5. Fields([p EXCEPT !.deviceRequired = TRUE])
  BY <1>0 DEF Fact
<1>6. Fields([p EXCEPT !.network = IF p.network = TRUE THEN Unset ELSE FALSE])
  <2>1. PICK v : v = IF p.network = TRUE THEN Unset ELSE FALSE
    OBVIOUS
  <2>2. PICK g : g = [p EXCEPT !.network = v]
    OBVIOUS
  <2>3. /\ g.failClosed = p.failClosed /\ g.amount = p.amount /\ g.tokenized = p.tokenized
        /\ g.authenticated = p.authenticated /\ g.exempt = p.exempt
        /\ g.deviceRequired = p.deviceRequired /\ g.device = p.device /\ g.network = v
    BY <2>2 DEF Fact
  <2>4. v = FALSE \/ (p.network = TRUE /\ v = Unset)
    BY <2>1, Zenon
  <2>5. g.amount \in Nat /\ p.amount <= g.amount
    BY <1>0, <2>3
  <2>6. g.network = p.network \/ g.network = FALSE \/ (p.network = TRUE /\ g.network = Unset)
    BY <2>3, <2>4, Zenon
  <2>7. Fields(g)
    BY <2>3, <2>5, <2>6, Zenon
  <2> QED
    BY <2>1, <2>2, <2>7
<1>7. Fields([p EXCEPT !.device = IF p.device = "TRUSTED" THEN "UNKNOWN" ELSE "UNTRUSTED"])
  BY <1>0 DEF Fact
<1> HIDE DEF Fields
<1>8. Fields(f)
  BY <1>1, <1>2, <1>3, <1>4, <1>5, <1>6, <1>7 DEF Worse
<1> QED
  BY <1>8 DEF Fields

LEMMA ScaPassed ==
    ASSUME NEW f
    PROVE  ScaOutcome(f) = "PASS" <=>
             \/ f.authenticated
             \/ f.exempt /\ f.amount <= 3 * LowValue
             \/ ~ (f.amount > LowValue)
  BY DEF ScaOutcome

(* Worse evidence stays blocked where the service fails closed, and        *)
(* authentication is passed over only where trust cannot be had.           *)
THEOREM ComplianceCorrect == EvidenceSpec => []ComplianceHolds
<1>1. EvidenceInv => WorseNeverUnblocks
  <2> SUFFICES ASSUME EvidenceInv, fact.failClosed, Blocking(fact), NEW f \in Worse(fact)
               PROVE  Blocking(f)
    BY DEF WorseNeverUnblocks
  <2>1. PICK p : p = fact
    OBVIOUS
  <2>2. p \in Fact /\ LowValue \in Nat
    BY <2>1, FactTyped, EvidenceAssumption
  <2>3. f \in Worse(p) /\ p.failClosed /\ Blocking(p)
    BY <2>1
  <2>4. f.failClosed /\ (f.tokenized => p.tokenized)
    BY <2>2, <2>3, WorseFields
  <2>5. ScaOutcome(f) = "PASS" => ScaOutcome(p) = "PASS"
    <3>1. p.amount \in Nat
      BY <2>2 DEF Fact
    <3>2. PICK a, b : a = f.amount /\ b = p.amount
      OBVIOUS
    <3>3. a \in Nat /\ b \in Nat /\ b <= a
      BY <2>2, <2>3, <3>1, <3>2, WorseFields
    <3>4. (a <= LowValue => b <= LowValue) /\ (a <= 3 * LowValue => b <= 3 * LowValue)
      BY <2>2, <3>3
    <3>5. /\ a > LowValue <=> ~ (a <= LowValue)
          /\ b > LowValue <=> ~ (b <= LowValue)
      BY <2>2, <3>3
    <3>6. (f.authenticated => p.authenticated) /\ (f.exempt => p.exempt)
      BY <2>2, <2>3, WorseFields
    <3> QED
      BY <3>2, <3>4, <3>5, <3>6, ScaPassed
  <2>6. NetworkOutcome(f) = "PASS" => NetworkOutcome(p) = "PASS"
    BY <2>2, <2>3, WorseFields DEF NetworkOutcome
  <2>7. DeviceOutcome(f) = "PASS" => DeviceOutcome(p) = "PASS"
    <3>1. p.deviceRequired \in BOOLEAN /\ p.device \in {"TRUSTED", "UNTRUSTED", "UNKNOWN"}
      BY <2>2 DEF Fact
    <3> QED
      BY <2>2, <2>3, <3>1, WorseFields DEF DeviceOutcome
  <2> QED
    BY <2>3, <2>4, <2>5, <2>6, <2>7, BlockedClosed
<1>2. EvidenceInv => ScaHeld
  BY FactTyped, EvidenceAssumption DEF ScaHeld, Fact, Blocking, Overall, ComplianceOutcomes, ScaOutcome
<1> QED
  BY <1>1, <1>2, EvidenceInvariance, PTL DEF ComplianceHolds

-----------------------------------------------------------------------------
(* The score of an amount alone, as long as the baseline has an average. *)
BaseScore(amount, average) == Least(100, Rounded(Most(0, 35 * (amount - average)), average))

LEMMA BaseMonotone ==
    ASSUME NEW a \in Nat, NEW b \in Nat, NEW v \in Nat \ {0}, a <= b
    PROVE  /\ BaseScore(a, v) \in Int /\ BaseScore(b, v) \in Int
           /\ BaseScore(a, v) <= BaseScore(b, v)
<1>1. PICK x, y : x = Most(0, 35 * (a - v)) /\ y = Most(0, 35 * (b - v))
  OBVIOUS
<1>2. x \in Int /\ y \in Int /\ x <= y
  BY <1>1 DEF Most
<1>3. PICK r, s : r = Rounded(x, v) /\ s = Rounded(y, v)
  OBVIOUS
<1>4. r \in Int /\ s \in Int /\ r <= s
  BY <1>2, <1>3, RoundedNear, RoundedMonotone
<1>5. BaseScore(a, v) = Least(100, r) /\ BaseScore(b, v) = Least(100, s)
  BY <1>1, <1>3 DEF BaseScore
<1> QED
  BY <1>4, <1>5 DEF Least

OutOfLine(f) == Given(f.spentToday) /\ DailySpend(f) > 5 * f.average

(* Whether there is anything to compare the amount with. *)
Comparable(f) == f.age # Unset /\ ~ (f.age > FinancialMaxAge) /\ f.average # Unset /\ f.average # 0

LEMMA FinancialScore ==
    ASSUME NEW f
    PROVE  EvaluateFinancial(f).score =
             IF Comparable(f)
             THEN DeviationScore(BaseScore(f.amount, f.average), Above(f.amount, f.balance), OutOfLine(f))
             ELSE 50
<1>1. CASE Comparable(f)
  <2>1. EvaluateFinancial(f) = Fresh(DeviationScore(BaseScore(f.amount, f.average), Above(f.amount, f.balance), OutOfLine(f)),
             EvaluateFinancial(f).confidence, EvaluateFinancial(f).reason)
    BY <1>1 DEF EvaluateFinancial, Comparable, Fresh, BaseScore, OutOfLine
  <2> QED
    BY <1>1, <2>1 DEF Fresh
<1>2. CASE ~ Comparable(f)
  BY <1>2 DEF EvaluateFinancial, Comparable, Neutral
<1> QED
  BY <1>1, <1>2

LEMMA LargerScore ==
    ASSUME NEW p \in Fact, NEW n \in Nat
    PROVE  EvaluateFinancial([p EXCEPT !.amount = @ + n]).score >= Least(EvaluateFinancial(p).score, 90)
<1>1. PICK f : f = [p EXCEPT !.amount = @ + n]
  OBVIOUS
<1>2. /\ f.age = p.age /\ f.average = p.average /\ f.balance = p.balance
      /\ f.spentToday = p.spentToday /\ f.amount = p.amount + n
      /\ p.amount \in Nat /\ f.amount \in Nat /\ p.amount <= f.amount
  BY <1>1 DEF Fact
<1>3. Comparable(f) <=> Comparable(p)
  BY <1>2 DEF Comparable
<1>4. CASE ~ Comparable(p)
  <2>1. EvaluateFinancial(f).score = 50 /\ EvaluateFinancial(p).score = 50
    BY <1>3, <1>4, FinancialScore
  <2>2. 50 >= Least(50, 90)
    BY DEF Least
  <2> QED
    BY <1>1, <2>1, <2>2
<1>5. CASE Comparable(p)
  <2>1. PICK a, b, v : a = p.amount /\ b = f.amount /\ v = p.average
    OBVIOUS
  <2>2. a \in Nat /\ b \in Nat /\ v \in Nat \ {0} /\ a <= b
    BY <1>2, <1>5, <2>1 DEF Comparable, Fact, Optional
  <2>3. PICK x, y : x = BaseScore(a, v) /\ y = BaseScore(b, v)
    OBVIOUS
  <2>4. x \in Int /\ y \in Int /\ x <= y
    BY <2>2, <2>3, BaseMonotone
  <2>5. Above(p.amount, p.balance) => Above(f.amount, f.balance)
    <3>1. p.balance # Unset => p.balance \in Nat
      BY DEF Fact, Optional
    <3> QED
      BY <1>2, <3>1 DEF Above, Given
  <2>6. OutOfLine(p) => OutOfLine(f)
    <3>1. p.spentToday # Unset => p.spentToday \in Nat
      BY DEF Fact, Optional
    <3> QED
      BY <1>2, <2>1, <2>2, <3>1 DEF OutOfLine, DailySpend, Given
  <2>7. PICK c, d, e, g : /\ c = Above(p.amount, p.balance) /\ d = Above(f.amount, f.balance)
                          /\ e = OutOfLine(p) /\ g = OutOfLine(f)
    OBVIOUS
  <2>8. /\ EvaluateFinancial(p).score = DeviationScore(x, c, e)
        /\ EvaluateFinancial(f).score = DeviationScore(y, d, g)
    BY <1>2, <1>3, <1>5, <2>1, <2>3, <2>7, FinancialScore
  <2>9. (c => d) /\ (e => g)
    BY <2>5, <2>6, <2>7
  <2>10. DeviationScore(y, d, g) >= Least(DeviationScore(x, c, e), 90)
    BY <2>4, <2>9 DEF DeviationScore, Least, Most
  <2> QED
    BY <1>1, <2>8, <2>10
<1> QED
  BY <1>4, <1>5

-----------------------------------------------------------------------------
LEMMA SizeOfPair ==
    ASSUME NEW i, NEW j, i # j
    PROVE  Cardinality({i, j}) = 2
<1>1. IsFiniteSet({i}) /\ Cardinality({i}) = 1
  BY FS_Singleton
<1>2. ~ (j \in {i})
  OBVIOUS
<1>3. Cardinality({i} \cup {j}) = Cardinality({i}) + 1
  BY <1>1, <1>2, FS_AddElement
<1>4. {i, j} = {i} \cup {j}
  OBVIOUS
<1> QED
  BY <1>1, <1>3, <1>4

LEMMA SizeOfTriple == Cardinality({1, 2, 3}) = 3
<1>1. IsFiniteSet({1, 2}) /\ Cardinality({1, 2}) = 2
  <2>1. {1, 2} = {1} \cup {2}
    OBVIOUS
  <2>2. IsFiniteSet({1} \cup {2})
    BY FS_Singleton, FS_AddElement
  <2>3. Cardinality({1, 2}) = 2
    <3>1. 1 # 2
      OBVIOUS
    <3> QED
      BY <3>1, SizeOfPair
  <2> QED
    BY <2>1, <2>2, <2>3
<1>2. ~ (3 \in {1, 2}) /\ {1, 2, 3} = {1, 2} \cup {3}
  OBVIOUS
<1>3. Cardinality({1, 2} \cup {3}) = Cardinality({1, 2}) + 1
  BY <1>1, <1>2, FS_AddElement
<1> QED
  BY <1>1, <1>2, <1>3

(* The sum of the signals that are there. *)
SignalSum(v, present) ==
    LET value(i) == IF i \in present THEN v[i] ELSE 0 IN value(1) + value(2) + value(3)

(* Their mean, by their number, lies between two of them. *)
MeanHolds(v, present) ==
    LET score == Rounded(SignalSum(v, present), Cardinality(present))
    IN  /\ score \in 0..100
        /\ \E i \in present : v[i] <= score
        /\ \E i \in present : v[i] >= score

LEMMA MeanOfOne ==
    ASSUME NEW v, NEW i \in 1..3, v[i] \in 0..100
    PROVE  MeanHolds(v, {i})
<1>1. PICK a : a = v[i]
  OBVIOUS
<1>2. SignalSum(v, {i}) = a /\ a \in 0..100
  BY <1>1 DEF SignalSum
<1>3. Cardinality({i}) = 1
  BY FS_Singleton
<1>4. a * 1 <= a /\ a \in Int
  BY <1>2
<1>5. Rounded(a, 1) \in a..a
  BY <1>4, RoundedBetween
<1> QED
  BY <1>1, <1>2, <1>3, <1>5 DEF MeanHolds

LEMMA MeanOfTwo ==
    ASSUME NEW v, NEW i \in 1..3, NEW j \in 1..3, i < j, v[i] \in 0..100, v[j] \in 0..100
    PROVE  MeanHolds(v, {i, j})
<1>1. PICK a, b : a = v[i] /\ b = v[j]
  OBVIOUS
<1>2. a \in 0..100 /\ b \in 0..100
  BY <1>1
<1>3. SignalSum(v, {i, j}) = a + b
  BY <1>1, <1>2 DEF SignalSum
<1>4. Cardinality({i, j}) = 2
  <2>1. i # j
    OBVIOUS
  <2> QED
    BY <2>1, SizeOfPair
<1>5. PICK lo, hi : lo = (IF a <= b THEN a ELSE b) /\ hi = (IF a <= b THEN b ELSE a)
  OBVIOUS
<1>6. lo \in Int /\ hi \in Int /\ lo * 2 <= a + b /\ a + b <= hi * 2 /\ a + b \in Int
  BY <1>2, <1>5
<1>7. Rounded(a + b, 2) \in lo..hi
  <2>1. PICK n, d : n = a + b /\ d = 2
    OBVIOUS
  <2>2. n \in Int /\ d \in Nat \ {0} /\ lo * d <= n /\ n <= hi * d
    BY <1>6, <2>1
  <2> QED
    BY <1>6, <2>1, <2>2, RoundedBetween
<1>8. PICK score : score = Rounded(a + b, 2)
  OBVIOUS
<1>9. score \in 0..100 /\ (a <= score \/ b <= score) /\ (a >= score \/ b >= score)
  BY <1>2, <1>5, <1>7, <1>8
<1> QED
  BY <1>1, <1>3, <1>4, <1>8, <1>9 DEF MeanHolds

LEMMA MeanOfThree ==
    ASSUME NEW v, v[1] \in 0..100, v[2] \in 0..100, v[3] \in 0..100
    PROVE  MeanHolds(v, {1, 2, 3})
<1>1. PICK a, b, c : a = v[1] /\ b = v[2] /\ c = v[3]
  OBVIOUS
<1>2. a \in 0..100 /\ b \in 0..100 /\ c \in 0..100
  BY <1>1
<1>3. SignalSum(v, {1, 2, 3}) = a + b + c
  BY <1>1, <1>2 DEF SignalSum
<1>4. PICK lo, hi : /\ lo \in {a, b, c} /\ lo <= a /\ lo <= b /\ lo <= c
                    /\ hi \in {a, b, c} /\ a <= hi /\ b <= hi /\ c <= hi
  <2>1. \E lo \in {a, b, c} : lo <= a /\ lo <= b /\ lo <= c
    BY <1>2
  <2>2. \E hi \in {a, b, c} : a <= hi /\ b <= hi /\ c <= hi
    BY <1>2
  <2> QED
    BY <2>1, <2>2
<1>5. /\ lo \in Int /\ hi \in Int /\ lo * 3 <= a + b + c /\ a + b + c <= hi * 3
      /\ a + b + c \in Int
  BY <1>2, <1>4
<1>6. Rounded(a + b + c, 3) \in lo..hi
  <2>1. PICK n, d : n = a + b + c /\ d = 3
    OBVIOUS
  <2>2. n \in Int /\ d \in Nat \ {0} /\ lo * d <= n /\ n <= hi * d
    BY <1>5, <2>1
  <2> QED
    BY <1>5, <2>1, <2>2, RoundedBetween
<1>7. PICK score : score = Rounded(a + b + c, 3)
  OBVIOUS
<1>8. score \in 0..100 /\ lo <= score /\ score <= hi
  BY <1>2, <1>4, <1>6, <1>7
<1>9. \A x \in {a, b, c} : \E i \in {1, 2, 3} : v[i] = x
  BY <1>1
<1>10. Cardinality({1, 2, 3}) = 3
  BY SizeOfTriple
<1>11. (\E i \in {1, 2, 3} : v[i] <= score) /\ (\E i \in {1, 2, 3} : v[i] >= score)
  <2>1. PICK i, j \in {1, 2, 3} : v[i] = lo /\ v[j] = hi
    BY <1>4, <1>9
  <2>2. hi >= score
    BY <1>5, <1>8
  <2> QED
    BY <1>8, <2>1, <2>2
<1> QED
  BY <1>3, <1>7, <1>8, <1>10, <1>11 DEF MeanHolds

LEMMA MeanWithin ==
    ASSUME NEW v, NEW present \in SUBSET (1..3), present # {}, \A i \in present : v[i] \in 0..100
    PROVE  MeanHolds(v, present)
<1>1. \/ \E i \in 1..3 : present = {i}
      \/ \E i, j \in 1..3 : i < j /\ present = {i, j}
      \/ present = {1, 2, 3}
  <2>2. \A i \in present : i = 1 \/ i = 2 \/ i = 3
    OBVIOUS
  <2>3. 1 \in 1..3 /\ 2 \in 1..3 /\ 3 \in 1..3 /\ 1 < 2 /\ 1 < 3 /\ 2 < 3
    OBVIOUS
  <2>4. \/ present = {1} \/ present = {2} \/ present = {3} \/ present = {1, 2}
        \/ present = {1, 3} \/ present = {2, 3} \/ present = {1, 2, 3}
    <3>1. CASE 1 \in present
      <4>1. CASE 2 \in present
        BY <2>2, <3>1, <4>1
      <4>2. CASE 2 \notin present
        BY <2>2, <3>1, <4>2
      <4> QED
        BY <4>1, <4>2
    <3>2. CASE 1 \notin present
      <4>1. CASE 2 \in present
        BY <2>2, <3>2, <4>1
      <4>2. CASE 2 \notin present
        BY <2>2, <3>2, <4>2
      <4> QED
        BY <4>1, <4>2
    <3> QED
      BY <3>1, <3>2
  <2> QED
    BY <2>3, <2>4
<1>2. CASE \E i \in 1..3 : present = {i}
  BY <1>2, MeanOfOne
<1>3. CASE \E i, j \in 1..3 : i < j /\ present = {i, j}
  BY <1>3, MeanOfTwo
<1>4. CASE present = {1, 2, 3}
  BY <1>4, MeanOfThree
<1> QED
  BY <1>1, <1>2, <1>3, <1>4

LEMMA ExternalAnswer ==
    ASSUME NEW f, NEW present, present = {i \in 1..3 : Given(f.signals[i])}, EvaluateExternal(f).fresh
    PROVE  /\ present # {}
           /\ EvaluateExternal(f).score = Rounded(SignalSum(f.signals, present), Cardinality(present))
           /\ EvaluateExternal(f).confidence > 10 =>
                 ~ \E i, j \in present : f.signals[i] - f.signals[j] >= 60
<1> DEFINE contradictory == \E i, j \in present : f.signals[i] - f.signals[j] >= 60
           n == Cardinality(present)
           reason == IF contradictory THEN "EXTERNAL_SIGNALS_CONTRADICTORY" ELSE "EXTERNAL_CONTEXT_NORMALIZED"
           confidence == IF contradictory THEN 10 ELSE Least(100, 40 + 20 * n)
<1>1. present # {} /\ EvaluateExternal(f) = Fresh(Rounded(SignalSum(f.signals, present), n), confidence, reason)
  BY DEF EvaluateExternal, Neutral, Fresh, SignalSum
<1> HIDE DEF contradictory
<1> QED
  BY <1>1 DEF Fresh, contradictory

LEMMA ContextSound == ASSUME EvidenceInv PROVE ContextHonest
<1>1. PICK f : f = fact
  OBVIOUS
<1>2. f \in Fact
  BY <1>1, FactTyped
<1>3. /\ ~ EvaluateFinancial(f).fresh =>
            EvaluateFinancial(f).score = 50 /\ EvaluateFinancial(f).confidence <= 10
      /\ ~ EvaluateExternal(f).fresh =>
            EvaluateExternal(f).score = 50 /\ EvaluateExternal(f).confidence <= 10
  BY DEF EvaluateFinancial, EvaluateExternal, Neutral, Fresh
<1>4. PICK present : present = {i \in 1..3 : Given(f.signals[i])}
  OBVIOUS
<1>5. PICK known : known = {f.signals[i] : i \in 1..3} \ {Unset}
  OBVIOUS
<1>6. known = {f.signals[i] : i \in present}
  BY <1>4, <1>5 DEF Given
<1>7. ASSUME EvaluateExternal(f).fresh
      PROVE  /\ \E s \in known : s <= EvaluateExternal(f).score
             /\ \E s \in known : s >= EvaluateExternal(f).score
             /\ EvaluateExternal(f).confidence > 10 => \A s \in known : s - EvaluateExternal(f).score < 60
  <2>1. PICK score : score = EvaluateExternal(f).score
    OBVIOUS
  <2>2. /\ present # {} /\ score = Rounded(SignalSum(f.signals, present), Cardinality(present))
        /\ EvaluateExternal(f).confidence > 10 =>
              ~ \E i, j \in present : f.signals[i] - f.signals[j] >= 60
    BY <1>4, <1>7, <2>1, ExternalAnswer
  <2>3. /\ score \in 0..100
        /\ \E i \in present : f.signals[i] <= score
        /\ \E i \in present : f.signals[i] >= score
        /\ \A i \in present : f.signals[i] \in 0..100
    <3>1. \A i \in present : f.signals[i] \in 0..100
      BY <1>2, <1>4 DEF Fact, Given, Optional
    <3>2. present \in SUBSET (1..3)
      BY <1>4
    <3>3. MeanHolds(f.signals, present)
      BY <2>2, <3>1, <3>2, MeanWithin
    <3> QED
      BY <2>2, <3>1, <3>3 DEF MeanHolds
  <2>4. PICK j \in present : f.signals[j] <= score
    BY <2>3
  <2>5. ASSUME EvaluateExternal(f).confidence > 10, NEW i \in present PROVE f.signals[i] - score < 60
    <3>1. PICK a, b : a = f.signals[i] /\ b = f.signals[j]
      OBVIOUS
    <3>2. ~ (a - b >= 60)
      BY <2>2, <2>4, <2>5, <3>1
    <3>3. a \in Int /\ b \in Int /\ score \in Int /\ b <= score
      BY <2>3, <2>4, <3>1
    <3>4. a - score < 60
      BY <3>2, <3>3
    <3> QED
      BY <3>1, <3>4
  <2> QED
    BY <1>6, <2>1, <2>3, <2>5
<1> QED
  BY <1>1, <1>3, <1>5, <1>7 DEF ContextHonest

(* A larger amount never looks better but against the balance, and the     *)
(* external mean lies within the signals it was made from.                 *)
THEOREM ContextsCorrect == EvidenceSpec => []ContextsHonest
<1>1. EvidenceInv => AmountMonotone
  <2> SUFFICES ASSUME EvidenceInv, NEW n \in {1, LowValue, 5 * LowValue}
               PROVE  EvaluateFinancial([fact EXCEPT !.amount = @ + n]).score
                         >= Least(EvaluateFinancial(fact).score, 90)
    BY DEF AmountMonotone
  <2>1. n \in Nat
    BY EvidenceAssumption
  <2> QED
    BY <2>1, FactTyped, LargerScore
<1>2. EvidenceInv => ContextHonest
  BY ContextSound
<1> QED
  BY <1>1, <1>2, EvidenceInvariance, PTL DEF ContextsHonest

-----------------------------------------------------------------------------
LEMMA DefaultCost ==
    ASSUME NEW r, r.costs = DefaultCosts, r.score \in Int
    PROVE  /\ Cost("ALLOW", r) = 1000000 * r.score
           /\ Cost("MONITOR", r) = 4000000 + 850000 * r.score
           /\ Cost("CHALLENGE", r) = 600000 + 200000 * r.score
           /\ Cost("REVIEW", r) = 1500000 + 350000 * r.score
           /\ Cost("DECLINE", r) = 250000 * (100 - r.score)
<1>1. PICK s, c : s = r.score /\ c = r.costs
  OBVIOUS
<1>2. /\ c.fraud = 10000 /\ c.falseDecline = 2500 /\ c.monitor = 400 /\ c.challenge = 60 /\ c.review = 150
      /\ c.monitorRate = 85 /\ c.challengeRate = 20 /\ c.reviewRate = 35
  BY <1>1 DEF DefaultCosts
<1>3. /\ Cost("ALLOW", r) = s * c.fraud * 100
      /\ Cost("MONITOR", r) = 10000 * c.monitor + s * c.fraud * c.monitorRate
      /\ Cost("CHALLENGE", r) = 10000 * c.challenge + s * c.fraud * c.challengeRate
      /\ Cost("REVIEW", r) = 10000 * c.review + s * c.fraud * c.reviewRate
      /\ Cost("DECLINE", r) = 100 * (100 - s) * c.falseDecline
  BY <1>1 DEF Cost
<1>4. s \in Int
  BY <1>1
<1>5. /\ s * 10000 * 100 = 1000000 * s /\ s * 10000 * 85 = 850000 * s /\ s * 10000 * 20 = 200000 * s
      /\ s * 10000 * 35 = 350000 * s /\ 100 * (100 - s) * 2500 = 250000 * (100 - s)
  BY <1>4
<1> QED
  BY <1>1, <1>2, <1>3, <1>5

LEMMA CheapestOfTwo ==
    ASSUME NEW r, NEW a, NEW b, Candidates(r) = <<a, b>>,
           Cost(a, r) \in Int, Cost(b, r) \in Int
    PROVE  Cheapest(r) = IF Cost(a, r) <= Cost(b, r) THEN a ELSE b
<1> DEFINE s == Candidates(r)
           Best(i) == \A j \in DOMAIN s : Cost(s[i], r) <= Cost(s[j], r) /\ (j < i => Cost(s[i], r) < Cost(s[j], r))
<1>1. DOMAIN s = {1, 2} /\ s[1] = a /\ s[2] = b
  OBVIOUS
<1>2. Cheapest(r) = s[CHOOSE i \in DOMAIN s : Best(i)]
  BY DEF Cheapest
<1>3. Best(1) <=> Cost(a, r) <= Cost(b, r)
  BY <1>1
<1>4. Best(2) <=> ~ (Cost(a, r) <= Cost(b, r))
  BY <1>1
<1> HIDE DEF s, Best
<1>5. PICK k : k = CHOOSE i \in DOMAIN s : Best(i)
  OBVIOUS
<1>6. \E i \in DOMAIN s : Best(i)
  BY <1>1, <1>3, <1>4
<1>7. k \in DOMAIN s /\ Best(k)
  BY <1>5, <1>6
<1> QED
  BY <1>1, <1>2, <1>3, <1>4, <1>5, <1>7

LEMMA CheapestInTheMiddle ==
    ASSUME NEW r, NEW a, NEW b, NEW c, Candidates(r) = <<a, b, c>>,
           Cost(a, r) \in Int, Cost(b, r) \in Int, Cost(c, r) \in Int,
           Cost(b, r) < Cost(a, r), Cost(b, r) <= Cost(c, r)
    PROVE  Cheapest(r) = b
<1> DEFINE s == Candidates(r)
           Best(i) == \A j \in DOMAIN s : Cost(s[i], r) <= Cost(s[j], r) /\ (j < i => Cost(s[i], r) < Cost(s[j], r))
<1>1. DOMAIN s = {1, 2, 3} /\ s[1] = a /\ s[2] = b /\ s[3] = c
  OBVIOUS
<1>2. Cheapest(r) = s[CHOOSE i \in DOMAIN s : Best(i)]
  BY DEF Cheapest
<1>3. Best(2)
  BY <1>1
<1>4. ~ Best(1)
  BY <1>1
<1>5. ~ Best(3)
  <2>1. Best(3) => Cost(c, r) < Cost(b, r)
    BY <1>1
  <2> HIDE DEF Best
  <2> QED
    BY <2>1
<1> HIDE DEF s, Best
<1>6. PICK k : k = CHOOSE i \in DOMAIN s : Best(i)
  OBVIOUS
<1>7. k \in DOMAIN s /\ Best(k)
  BY <1>1, <1>3, <1>6
<1> QED
  BY <1>1, <1>2, <1>4, <1>5, <1>6, <1>7

LEMMA CheapestAhead ==
    ASSUME NEW r, NEW a, NEW b, NEW c, Candidates(r) = <<a, b, c>>,
           Cost(a, r) \in Int, Cost(b, r) \in Int, Cost(c, r) \in Int,
           Cost(a, r) < Cost(b, r), Cost(a, r) < Cost(c, r)
    PROVE  Cheapest(r) = a
<1> DEFINE s == Candidates(r)
           Best(i) == \A j \in DOMAIN s : Cost(s[i], r) <= Cost(s[j], r) /\ (j < i => Cost(s[i], r) < Cost(s[j], r))
<1>1. DOMAIN s = {1, 2, 3} /\ s[1] = a /\ s[2] = b /\ s[3] = c
  OBVIOUS
<1>2. Cheapest(r) = s[CHOOSE i \in DOMAIN s : Best(i)]
  BY DEF Cheapest
<1>3. Best(1) /\ ~ Best(2) /\ ~ Best(3)
  BY <1>1
<1> HIDE DEF s, Best
<1>4. PICK k : k = CHOOSE i \in DOMAIN s : Best(i)
  OBVIOUS
<1>5. k \in DOMAIN s /\ Best(k)
  BY <1>1, <1>3, <1>4
<1> QED
  BY <1>1, <1>2, <1>3, <1>4, <1>5

LEMMA Prices ==
    ASSUME NEW s \in Int, 0 <= s, s <= 100
    PROVE  /\ s <= 25 => 1000000 * s <= 4000000 + 850000 * s
           /\ ~ (s <= 5) => 600000 + 200000 * s < 1000000 * s
           /\ s <= 50 => 600000 + 200000 * s < 250000 * (100 - s)
           /\ 600000 + 200000 * s < 4000000 + 850000 * s
           /\ 600000 + 200000 * s < 1500000 + 350000 * s
           /\ ~ (s <= 50) => ~ (1500000 + 350000 * s <= 250000 * (100 - s))
  BY SMT

LEMMA PricesTyped ==
    ASSUME NEW s \in Int
    PROVE  /\ 1000000 * s \in Int /\ 4000000 + 850000 * s \in Int /\ 600000 + 200000 * s \in Int
           /\ 1500000 + 350000 * s \in Int /\ 250000 * (100 - s) \in Int
  BY SMT

(* How the default costs compare, by the score. *)
LEMMA CostOrder ==
    ASSUME NEW r, r.costs = DefaultCosts, r.score \in 0..100
    PROVE  /\ \A a \in {"ALLOW", "MONITOR", "CHALLENGE", "REVIEW", "DECLINE"} : Cost(a, r) \in Int
           /\ r.score <= 25 => Cost("ALLOW", r) <= Cost("MONITOR", r)
           /\ ~ (r.score <= 5) => Cost("CHALLENGE", r) < Cost("ALLOW", r)
           /\ r.score <= 50 => Cost("CHALLENGE", r) < Cost("DECLINE", r)
           /\ Cost("CHALLENGE", r) < Cost("MONITOR", r)
           /\ Cost("CHALLENGE", r) < Cost("REVIEW", r)
           /\ ~ (r.score <= 50) => ~ (Cost("REVIEW", r) <= Cost("DECLINE", r))
<1>1. PICK s : s = r.score
  OBVIOUS
<1>2. s \in Int /\ 0 <= s /\ s <= 100
  BY <1>1
<1>3. r.score \in Int
  OBVIOUS
<1>4. /\ Cost("ALLOW", r) = 1000000 * s /\ Cost("MONITOR", r) = 4000000 + 850000 * s
      /\ Cost("CHALLENGE", r) = 600000 + 200000 * s /\ Cost("REVIEW", r) = 1500000 + 350000 * s
      /\ Cost("DECLINE", r) = 250000 * (100 - s)
  BY <1>1, <1>3, DefaultCost, SMT
<1>5. /\ 1000000 * s \in Int /\ 4000000 + 850000 * s \in Int /\ 600000 + 200000 * s \in Int
      /\ 1500000 + 350000 * s \in Int /\ 250000 * (100 - s) \in Int
  BY <1>2, PricesTyped, SMT
<1>6. /\ s <= 25 => 1000000 * s <= 4000000 + 850000 * s
      /\ ~ (s <= 5) => 600000 + 200000 * s < 1000000 * s
      /\ s <= 50 => 600000 + 200000 * s < 250000 * (100 - s)
      /\ 600000 + 200000 * s < 4000000 + 850000 * s
      /\ 600000 + 200000 * s < 1500000 + 350000 * s
      /\ ~ (s <= 50) => ~ (1500000 + 350000 * s <= 250000 * (100 - s))
  BY <1>2, Prices, SMT
<1>7. \A a \in {"ALLOW", "MONITOR", "CHALLENGE", "REVIEW", "DECLINE"} : Cost(a, r) \in Int
  BY <1>4, <1>5, SMT
<1>8. s <= 25 => Cost("ALLOW", r) <= Cost("MONITOR", r)
  BY <1>4, <1>6, SMT
<1>9. ~ (s <= 5) => Cost("CHALLENGE", r) < Cost("ALLOW", r)
  BY <1>4, <1>6, SMT
<1>10. s <= 50 => Cost("CHALLENGE", r) < Cost("DECLINE", r)
  BY <1>4, <1>6, SMT
<1>11. Cost("CHALLENGE", r) < Cost("MONITOR", r) /\ Cost("CHALLENGE", r) < Cost("REVIEW", r)
  BY <1>4, <1>6, SMT
<1>12. ~ (s <= 50) => ~ (Cost("REVIEW", r) <= Cost("DECLINE", r))
  BY <1>4, <1>6, SMT
<1> QED
  BY <1>1, <1>7, <1>8, <1>9, <1>10, <1>11, <1>12

(* What the default costs choose by the tier of the score under the matrix. *)
LEMMA MatrixChoice ==
    ASSUME NEW r, r.score \in 0..100, r.costs = DefaultCosts, MatrixMode(r),
           Tier(r) = TierForScore(r.score)
    PROVE  /\ Tier(r) = "NO_RISK" => Selected(r) = "ALLOW"
           /\ Tier(r) = "LOW" => Selected(r) = "CHALLENGE"
           /\ Tier(r) = "MODERATE" => Selected(r) = "CHALLENGE"
<1>1. r.score \in Int /\ 0 <= r.score /\ r.score <= 100
  OBVIOUS
<1>2. /\ Tier(r) = "NO_RISK" => r.score <= 5
      /\ Tier(r) = "LOW" => ~ (r.score <= 5) /\ r.score <= 25
      /\ Tier(r) = "MODERATE" => ~ (r.score <= 25) /\ r.score <= 50
  BY <1>1 DEF TierForScore
<1>3. ASSUME Tier(r) = "NO_RISK" PROVE Selected(r) = "ALLOW"
  <2>1. Candidates(r) = <<"ALLOW", "MONITOR">>
    BY <1>3 DEF Candidates, AllowedForTier
  <2>2. Cost("ALLOW", r) \in Int /\ Cost("MONITOR", r) \in Int /\ Cost("ALLOW", r) <= Cost("MONITOR", r)
    BY <1>1, <1>2, <1>3, CostOrder
  <2>3. Cheapest(r) = "ALLOW"
    BY <2>1, <2>2, CheapestOfTwo
  <2> QED
    BY <1>3, <2>3 DEF Selected
<1>4. ASSUME Tier(r) = "LOW" PROVE Selected(r) = "CHALLENGE"
  <2>1. Candidates(r) = <<"ALLOW", "CHALLENGE", "DECLINE">>
    BY <1>4 DEF Candidates, AllowedForTier
  <2>2. /\ Cost("ALLOW", r) \in Int /\ Cost("CHALLENGE", r) \in Int /\ Cost("DECLINE", r) \in Int
        /\ Cost("CHALLENGE", r) < Cost("ALLOW", r) /\ Cost("CHALLENGE", r) <= Cost("DECLINE", r)
    BY <1>1, <1>2, <1>4, CostOrder
  <2>3. Cheapest(r) = "CHALLENGE"
    BY <2>1, <2>2, CheapestInTheMiddle
  <2> QED
    BY <1>4, <2>3 DEF Selected
<1>5. ASSUME Tier(r) = "MODERATE" PROVE Selected(r) = "CHALLENGE"
  <2>1. Candidates(r) = <<"CHALLENGE", "REVIEW", "DECLINE">>
    BY <1>5 DEF Candidates, AllowedForTier
  <2>2. /\ Cost("CHALLENGE", r) \in Int /\ Cost("REVIEW", r) \in Int /\ Cost("DECLINE", r) \in Int
        /\ Cost("CHALLENGE", r) < Cost("REVIEW", r) /\ Cost("CHALLENGE", r) < Cost("DECLINE", r)
    BY <1>1, <1>2, <1>5, CostOrder
  <2>3. Cheapest(r) = "CHALLENGE"
    BY <2>1, <2>2, CheapestAhead
  <2> QED
    BY <2>3 DEF Selected
<1> QED
  BY <1>3, <1>4, <1>5

(* What they choose from the candidates of a band that fits the score. *)
LEMMA BandChoice ==
    ASSUME NEW r, r.score \in 0..100, r.costs = DefaultCosts, ~ MatrixMode(r),
           r.band = BandForTier[TierForScore(r.score)]
    PROVE  /\ r.score <= 25 => Selected(r) = "ALLOW"
           /\ ~ (r.score <= 25) /\ r.score <= 50 => Selected(r) = "CHALLENGE"
           /\ ~ (r.score <= 50) => Selected(r) = "DECLINE"
<1>1. r.score \in Int /\ 0 <= r.score /\ r.score <= 100
  OBVIOUS
<1>2. Selected(r) = Cheapest(r) /\ Candidates(r) = CandidatesForBand[r.band]
  BY DEF Selected, Candidates
<1>3. ASSUME r.score <= 25 PROVE Selected(r) = "ALLOW"
  <2>1. r.band = "APPROVE"
    BY <1>3 DEF TierForScore, BandForTier
  <2>2. Candidates(r) = <<"ALLOW", "MONITOR">>
    BY <1>2, <2>1 DEF CandidatesForBand
  <2>3. Cost("ALLOW", r) \in Int /\ Cost("MONITOR", r) \in Int /\ Cost("ALLOW", r) <= Cost("MONITOR", r)
    BY <1>1, <1>3, CostOrder
  <2> QED
    BY <1>2, <2>2, <2>3, CheapestOfTwo
<1>4. ASSUME ~ (r.score <= 25), r.score <= 50 PROVE Selected(r) = "CHALLENGE"
  <2>1. r.band = "VERIFY"
    BY <1>1, <1>4 DEF TierForScore, BandForTier
  <2>2. Candidates(r) = <<"MONITOR", "CHALLENGE", "REVIEW">>
    BY <1>2, <2>1 DEF CandidatesForBand
  <2>3. /\ Cost("MONITOR", r) \in Int /\ Cost("CHALLENGE", r) \in Int /\ Cost("REVIEW", r) \in Int
        /\ Cost("CHALLENGE", r) < Cost("MONITOR", r) /\ Cost("CHALLENGE", r) <= Cost("REVIEW", r)
    BY <1>1, <1>4, CostOrder
  <2> QED
    BY <1>2, <2>2, <2>3, CheapestInTheMiddle
<1>5. ASSUME ~ (r.score <= 50) PROVE Selected(r) = "DECLINE"
  <2>1. r.band = "BLOCK"
    BY <1>1, <1>5 DEF TierForScore, BandForTier
  <2>2. Candidates(r) = <<"REVIEW", "DECLINE">>
    BY <1>2, <2>1 DEF CandidatesForBand
  <2>3. /\ Cost("REVIEW", r) \in Int /\ Cost("DECLINE", r) \in Int
        /\ ~ (Cost("REVIEW", r) <= Cost("DECLINE", r))
    BY <1>1, <1>5, CostOrder
  <2> QED
    BY <1>2, <2>2, <2>3, CheapestOfTwo
<1> QED
  BY <1>3, <1>4, <1>5

LEMMA IngressStep ==
    ASSUME TypeOK, [Next]_vars, IngressAgrees
    PROVE  IngressAgrees'
<1>1. CASE UNCHANGED vars
  BY <1>1 DEF vars, IngressAgrees, Answered, Undecided, Controlled, Unexplained, Path, PathForRail
<1>2. CASE Next
  <2>1. PICK r : r = request
    OBVIOUS
  <2>2. r \in Request /\ request' = r
    BY <1>2, <2>1 DEF TypeOK, Next, Respond, DecideReversal, DecideBlocked, DecideWithoutEvidence,
       DecideUnexplained, DecideFailed, DecideEscalated, DecideApproved, DecideByCost
  <2>3. SUFFICES ASSUME Undecided, r.outcome = "PENDING", r.costs = DefaultCosts, r.tier = Unset,
                        \/ r.band = Unset /\ r.rail # Unset
                        \/ r.rail = Unset /\ r.band = BandForTier[TierForScore(r.score)],
                        r.score \in BaselineScores
                 PROVE  response'.action = IngressAction(r.score, r.rail)
    BY <2>1, <2>2 DEF IngressAgrees, Undecided, Controlled, Unexplained, Path, PathForRail
  <2>4. response'.action = Selected(r)
    <3>1. ~ (DecideReversal \/ DecideBlocked \/ DecideWithoutEvidence \/ DecideUnexplained)
      BY <2>3 DEF DecideReversal, DecideBlocked, DecideWithoutEvidence, DecideUnexplained, Undecided, Controlled
    <3>2. ~ (DecideFailed \/ DecideEscalated \/ DecideApproved)
      BY <2>1, <2>3 DEF DecideFailed, DecideEscalated, DecideApproved, Failed
    <3>3. DecideByCost
      BY <1>2, <3>1, <3>2 DEF Next
    <3> QED
      BY <2>1, <3>3 DEF DecideByCost, Respond
  <2>5. r.score \in {0, 10, 35, 45} /\ r.score \in 0..100
    BY <2>3 DEF BaselineScores, BaselineScore
  <2>6. TierForScore(r.score) = IF r.score = 0 THEN "NO_RISK" ELSE IF r.score = 10 THEN "LOW" ELSE "MODERATE"
    BY <2>5 DEF TierForScore
  <2>7. CASE r.band = Unset /\ r.rail # Unset
    <3>1. Tier(r) = TierForScore(r.score) /\ MatrixMode(r)
      BY <2>3, <2>7 DEF Tier, MatrixMode
    <3> QED
      BY <2>2, <2>3, <2>4, <2>5, <2>6, <2>7, <3>1, MatrixChoice DEF IngressAction
  <2>8. CASE r.rail = Unset /\ r.band = BandForTier[TierForScore(r.score)]
    <3>1. r.band \in Bands /\ r.band # Unset
      BY <2>6, <2>8, UnsetIsAbsence DEF Bands, BandForTier
    <3>2. ~ MatrixMode(r)
      BY <2>3, <3>1 DEF MatrixMode, Tier
    <3> QED
      BY <2>2, <2>3, <2>4, <2>5, <2>6, <2>8, <3>2, BandChoice DEF IngressAction, BandForTier
  <2> QED
    BY <2>3, <2>7, <2>8
<1> QED
  BY <1>1, <1>2

(* The engine and ingress are two implementations of one policy: with the  *)
(* default costs, they agree on every score ingress computes.              *)
THEOREM IngressCorrect == Spec => []IngressAgrees
<1>1. Init => IngressAgrees
  BY DEF Init, IngressAgrees, Answered
<1>2. TypeOK /\ IngressAgrees /\ [Next]_vars => IngressAgrees'
  BY IngressStep
<1> QED
  BY <1>1, <1>2, TypeCorrect, PTL DEF Spec

LEMMA SuddenHolds == ASSUME EvidenceInv PROVE SuddenIsImpossible
<1> SUFFICES ASSUME NEW c, c = fact.previous, c # Unset, fact.minutes <= 15
             PROVE  EvaluateGpv(c, c + 250, fact.minutes) = "MISMATCHED"
  BY DEF SuddenIsImpossible
<1>1. c \in Int /\ fact.minutes \in Nat
  BY FactTyped DEF Fact, Optional
<1>2. PICK m : m = fact.minutes
  OBVIOUS
<1>3. ~ (60 * Most((c + 250) - c, c - (c + 250)) <= 900 * m + 15)
  BY <1>1, <1>2 DEF Most
<1> QED
  BY <1>2, <1>3 DEF EvaluateGpv, MaxSpeed

LEMMA ReasonsHold == ASSUME EvidenceInv PROVE ReasonsAgree
<1>1. PICK s : s = fact.score
  OBVIOUS
<1>2. s \in Int
  BY <1>1, FactTyped DEF Fact
<1>3. PICK n : n = Cardinality({e \in fact.eventAges : InBaseline(e)})
  OBVIOUS
<1>4. PICK given : given = ReasonCodes(s, n, fact.macroContext)
  OBVIOUS
<1>7. Investigate(fact).reasons = given
  BY <1>1, <1>3, <1>4 DEF Investigate
<1>5. /\ "RISK_SCORE_HIGH" \in given <=> ScoreReason(s) = "RISK_SCORE_HIGH"
      /\ "RISK_SCORE_MODERATE" \in given <=> ScoreReason(s) = "RISK_SCORE_MODERATE"
      /\ "RISK_SCORE_LOW" \in given <=> ScoreReason(s) = "RISK_SCORE_LOW"
  BY <1>4, EvidenceAssumption DEF ReasonCodes
<1>6. /\ ScoreReason(s) = "RISK_SCORE_HIGH" <=> TierForScore(s) = "HIGH"
      /\ ScoreReason(s) = "RISK_SCORE_MODERATE" <=> TierForScore(s) = "MODERATE"
      /\ ScoreReason(s) = "RISK_SCORE_LOW" <=> TierForScore(s) = "LOW"
  BY <1>2, EvidenceAssumption DEF ScoreReason, TierForScore
<1> QED
  BY <1>1, <1>5, <1>6, <1>7 DEF ReasonsAgree

(* Composed, the loads keep to the specifications of their components. *)
LEMMA LoadsKeep == LoadSpec => Spec /\ EvidenceSpec
<1>1. LoadInit => Init /\ EvidenceInit
  BY IdleAssumption DEF LoadInit, Init, EvidenceInit, EngineIdle, EvidenceIdle
<1>2. [LoadNext]_allVars => [Next]_vars /\ [EvidenceNext]_evidence
  BY DEF LoadNext, allVars
<1> QED
  BY <1>1, <1>2, PTL DEF LoadSpec, Spec, EvidenceSpec

(* A score has one tier and one action, and a jump is one to all of the    *)
(* services that judge them with constants of their own.                   *)
THEOREM BoundariesCorrect == LoadSpec => []BoundariesAgree
<1>1. EvidenceInv => SuddenIsImpossible /\ ReasonsAgree
  BY SuddenHolds, ReasonsHold
<1> QED
  BY <1>1, LoadsKeep, IngressCorrect, EvidenceInvariance, PTL DEF BoundariesAgree

-----------------------------------------------------------------------------
(* The analyst pipeline: fusion. *)

LEMMA SmallerOfTwo ==
    ASSUME NEW a \in Int, NEW b \in Int
    PROVE  Min({a, b}) = IF a <= b THEN a ELSE b
<1>1. PICK m : m = Min({a, b})
  OBVIOUS
<1>2. \E x \in {a, b} : \A y \in {a, b} : x <= y
  OBVIOUS
<1>3. m \in {a, b} /\ \A y \in {a, b} : m <= y
  BY <1>1, <1>2 DEF Min
<1> QED
  BY <1>1, <1>3

(* An axis that answered has a score in percent. *)
AxisOK(a) == a.available \in BOOLEAN /\ (a.available => a.score \in 0..100)

(* A weighted sum over the axes that answered, between two others. *)
FusedWeight(axes) ==
    LET present(i, n) == IF axes[i].available THEN n ELSE 0
    IN  present(1, 5) + present(2, 5) + present(3, 2)
FusedSum(axes) ==
    LET present(i, n) == IF axes[i].available THEN n ELSE 0
    IN  present(1, 5 * axes[1].score) + present(2, 5 * axes[2].score) + present(3, 2 * axes[3].score)

LEMMA FuseUnfolds ==
    ASSUME NEW axes
    PROVE  FuseRisk(axes) = IF FusedWeight(axes) = 0 THEN 100 ELSE Rounded(FusedSum(axes), FusedWeight(axes))
  BY DEF FuseRisk, FusedWeight, FusedSum

LEMMA WeightTyped ==
    ASSUME NEW axes, \A i \in 1..3 : AxisOK(axes[i])
    PROVE  /\ FusedWeight(axes) \in Nat
           /\ FusedWeight(axes) = 0 <=> \A i \in 1..3 : ~ axes[i].available
           /\ FusedSum(axes) \in Int
           /\ 0 <= FusedSum(axes) /\ FusedSum(axes) <= 100 * FusedWeight(axes)
<1>1. PICK a, b, c : a = axes[1] /\ b = axes[2] /\ c = axes[3]
  OBVIOUS
<1>2. AxisOK(a) /\ AxisOK(b) /\ AxisOK(c)
  BY <1>1
<1>3. /\ FusedWeight(axes) = (IF a.available THEN 5 ELSE 0) + (IF b.available THEN 5 ELSE 0)
                             + (IF c.available THEN 2 ELSE 0)
      /\ FusedSum(axes) = (IF a.available THEN 5 * a.score ELSE 0) + (IF b.available THEN 5 * b.score ELSE 0)
                          + (IF c.available THEN 2 * c.score ELSE 0)
  BY <1>1 DEF FusedWeight, FusedSum
<1>4. /\ FusedWeight(axes) \in Nat
      /\ FusedWeight(axes) = 0 <=> ~ a.available /\ ~ b.available /\ ~ c.available
  BY <1>3
<1>5. /\ FusedSum(axes) \in Int
      /\ 0 <= FusedSum(axes) /\ FusedSum(axes) <= 100 * FusedWeight(axes)
  <2>1. PICK x, y, z : /\ x = (IF a.available THEN 5 * a.score ELSE 0)
                       /\ y = (IF b.available THEN 5 * b.score ELSE 0)
                       /\ z = (IF c.available THEN 2 * c.score ELSE 0)
    OBVIOUS
  <2>2. PICK u, v, w : /\ u = (IF a.available THEN 5 ELSE 0)
                       /\ v = (IF b.available THEN 5 ELSE 0)
                       /\ w = (IF c.available THEN 2 ELSE 0)
    OBVIOUS
  <2>3. x \in Int /\ u \in Int /\ 0 <= x /\ x <= 100 * u
    BY <1>2, <2>1, <2>2 DEF AxisOK
  <2>4. y \in Int /\ v \in Int /\ 0 <= y /\ y <= 100 * v
    BY <1>2, <2>1, <2>2 DEF AxisOK
  <2>5. z \in Int /\ w \in Int /\ 0 <= z /\ z <= 100 * w
    BY <1>2, <2>1, <2>2 DEF AxisOK
  <2>6. FusedSum(axes) = x + y + z /\ FusedWeight(axes) = u + v + w
    BY <1>3, <2>1, <2>2
  <2> QED
    BY <2>3, <2>4, <2>5, <2>6
<1>6. (\A i \in 1..3 : ~ axes[i].available) <=> ~ a.available /\ ~ b.available /\ ~ c.available
  BY <1>1
<1> QED
  BY <1>4, <1>5, <1>6

LEMMA FuseBounded ==
    ASSUME NEW axes, \A i \in 1..3 : AxisOK(axes[i])
    PROVE  /\ FuseRisk(axes) \in 0..100
           /\ (\A i \in 1..3 : ~ axes[i].available) => FuseRisk(axes) = 100
<1>1. PICK w, n : w = FusedWeight(axes) /\ n = FusedSum(axes)
  OBVIOUS
<1>2. w \in Nat /\ n \in Int /\ 0 <= n /\ n <= 100 * w
  BY <1>1, WeightTyped
<1>3. (\A i \in 1..3 : ~ axes[i].available) => w = 0
  BY <1>1, WeightTyped
<1>4. FuseRisk(axes) = IF w = 0 THEN 100 ELSE Rounded(n, w)
  BY <1>1, FuseUnfolds
<1>5. ASSUME w # 0 PROVE Rounded(n, w) \in 0..100
  <2>1. PICK lo, hi : lo = 0 /\ hi = 100
    OBVIOUS
  <2>2. lo * w <= n /\ n <= hi * w /\ w \in Nat \ {0} /\ lo \in Int /\ hi \in Int
    BY <1>2, <1>5, <2>1
  <2>3. Rounded(n, w) \in lo..hi
    BY <1>2, <2>2, RoundedBetween
  <2> QED
    BY <2>1, <2>3
<1> QED
  BY <1>3, <1>4, <1>5

(* Scores that are higher where they count are never fused to less. *)
LEMMA FuseMonotone ==
    ASSUME NEW axes, NEW bxes, \A i \in 1..3 : AxisOK(axes[i]) /\ AxisOK(bxes[i]),
           \A i \in 1..3 : axes[i].available = bxes[i].available,
           \A i \in 1..3 : axes[i].available => axes[i].score <= bxes[i].score
    PROVE  FuseRisk(axes) <= FuseRisk(bxes)
<1>1. PICK w, n, m : w = FusedWeight(axes) /\ n = FusedSum(axes) /\ m = FusedSum(bxes)
  OBVIOUS
<1>2. w \in Nat /\ n \in Int /\ m \in Int
  BY <1>1, WeightTyped
<1>3. FusedWeight(bxes) = w
  BY <1>1 DEF FusedWeight
<1>4. n <= m
  <2>1. /\ axes[1].available => axes[1].score \in Int /\ bxes[1].score \in Int /\ axes[1].score <= bxes[1].score
        /\ axes[2].available => axes[2].score \in Int /\ bxes[2].score \in Int /\ axes[2].score <= bxes[2].score
        /\ axes[3].available => axes[3].score \in Int /\ bxes[3].score \in Int /\ axes[3].score <= bxes[3].score
    BY DEF AxisOK
  <2>2. /\ axes[1].available = bxes[1].available /\ axes[2].available = bxes[2].available
        /\ axes[3].available = bxes[3].available
    OBVIOUS
  <2>3. PICK x, y, z : /\ x = (IF axes[1].available THEN 5 * axes[1].score ELSE 0)
                       /\ y = (IF axes[2].available THEN 5 * axes[2].score ELSE 0)
                       /\ z = (IF axes[3].available THEN 2 * axes[3].score ELSE 0)
    OBVIOUS
  <2>4. PICK u, v, t : /\ u = (IF bxes[1].available THEN 5 * bxes[1].score ELSE 0)
                       /\ v = (IF bxes[2].available THEN 5 * bxes[2].score ELSE 0)
                       /\ t = (IF bxes[3].available THEN 2 * bxes[3].score ELSE 0)
    OBVIOUS
  <2>5. x \in Int /\ u \in Int /\ x <= u
    BY <2>1, <2>2, <2>3, <2>4
  <2>6. y \in Int /\ v \in Int /\ y <= v
    BY <2>1, <2>2, <2>3, <2>4
  <2>7. z \in Int /\ t \in Int /\ z <= t
    BY <2>1, <2>2, <2>3, <2>4
  <2>8. n = x + y + z /\ m = u + v + t
    BY <1>1, <2>3, <2>4 DEF FusedSum
  <2> QED
    BY <2>5, <2>6, <2>7, <2>8
<1>5. /\ FuseRisk(axes) = IF w = 0 THEN 100 ELSE Rounded(n, w)
      /\ FuseRisk(bxes) = IF w = 0 THEN 100 ELSE Rounded(m, w)
  BY <1>1, <1>3, FuseUnfolds
<1>6. w # 0 => Rounded(n, w) <= Rounded(m, w)
  BY <1>2, <1>4, RoundedMonotone
<1> QED
  BY <1>5, <1>6

(* What is not available is not looked at. *)
LEMMA FuseSilent ==
    ASSUME NEW axes, NEW bxes,
           \A i \in 1..3 : axes[i].available = bxes[i].available,
           \A i \in 1..3 : axes[i].available => axes[i].score = bxes[i].score
    PROVE  FuseRisk(axes) = FuseRisk(bxes)
<1>1. FusedWeight(axes) = FusedWeight(bxes)
  BY DEF FusedWeight
<1>2. FusedSum(axes) = FusedSum(bxes)
  BY DEF FusedSum
<1> QED
  BY <1>1, <1>2, FuseUnfolds

-----------------------------------------------------------------------------
(* The analyst pipeline: the decision follows from the fused score. *)
LEMMA DecisionOfScore ==
    ASSUME NEW s \in 0..100
    PROVE  /\ s <= 25 => Selected(DecisionRequest(s)) = "ALLOW"
           /\ ~ (s <= 25) /\ s <= 50 => Selected(DecisionRequest(s)) = "CHALLENGE"
           /\ ~ (s <= 50) => Selected(DecisionRequest(s)) = "DECLINE"
<1>1. PICK r : r = DecisionRequest(s)
  OBVIOUS
<1>2. /\ r.score = s /\ r.costs = DefaultCosts /\ r.tier = TierForScore(s)
      /\ r.band = BandForTier[TierForScore(s)]
  BY <1>1 DEF DecisionRequest
<1>3. TierForScore(s) \in Tiers
  BY DEF TierForScore, Tiers
<1>4. r.tier # Unset /\ r.band # Unset /\ r.band \in Bands
  BY <1>2, <1>3, UnsetIsAbsence DEF Tiers, Bands, BandForTier
<1>5. Tier(r) = TierForScore(s)
  BY <1>2, <1>4 DEF Tier
<1>6. CASE s <= 5
  <2>1. TierForScore(s) = "NO_RISK"
    BY <1>6 DEF TierForScore
  <2>2. MatrixMode(r)
    BY <1>2, <1>4, <1>5, <2>1 DEF MatrixMode, BandForTier, TierFromBand
  <2> QED
    BY <1>1, <1>2, <1>5, <1>6, <2>1, <2>2, MatrixChoice
<1>7. CASE ~ (s <= 5)
  <2>1. TierForScore(s) \in {"LOW", "MODERATE", "HIGH"}
    BY <1>7 DEF TierForScore
  <2>2. ~ MatrixMode(r)
    BY <1>2, <1>4, <1>5, <2>1 DEF MatrixMode, BandForTier, TierFromBand
  <2> QED
    BY <1>1, <1>2, <2>2, BandChoice
<1> QED
  BY <1>6, <1>7

LEMMA DecisionShape ==
    ASSUME NEW s \in 0..100, NEW fraud, NEW anomaly, NEW d,
           d = DocDecision(Selected(DecisionRequest(s)), fraud, anomaly)
    PROVE  /\ s <= 25 => d = "PASS"
           /\ ~ (s <= 25) /\ s <= 50 => d = "REVIEW_UNUSUAL"
           /\ ~ (s <= 50) => d = IF fraud >= 50 /\ anomaly < 5000 THEN "REVIEW_STEALTH" ELSE "BLOCK"
<1>1. PICK a : a = Selected(DecisionRequest(s))
  OBVIOUS
<1>2. /\ a = "ALLOW" => MapDecision(a) = "PASS"
      /\ a = "CHALLENGE" => MapDecision(a) = "REVIEW_UNUSUAL"
      /\ a = "DECLINE" => MapDecision(a) = "BLOCK"
  BY DEF MapDecision
<1>3. d = IF MapDecision(a) = "BLOCK" /\ fraud >= 50 /\ anomaly < 5000
          THEN "REVIEW_STEALTH" ELSE MapDecision(a)
  BY <1>1, SMT DEF DocDecision, FraudQuadrant, AnomalyQuadrant
<1>4. /\ s <= 25 => a = "ALLOW"
      /\ ~ (s <= 25) /\ s <= 50 => a = "CHALLENGE"
      /\ ~ (s <= 50) => a = "DECLINE"
  BY <1>1, DecisionOfScore
<1> QED
  BY <1>2, <1>3, <1>4

-----------------------------------------------------------------------------
(* What a response is fused from, and that it is well-formed.              *)
Kinds == {"none", "sudden", "gradual"}

RawOK(raw) ==
    \A i \in 1..3 :
        /\ raw[i] = [score |-> raw[i].score, available |-> raw[i].available]
        /\ AxisOK(raw[i])

FraudOf(labels, raw) == AdjustedFraud(raw[1].score, FeedbackAdjustment(labels))
AnomalyOf(kind, labels, raw) ==
    AdjustedAnomaly(raw[2].score, FeedbackAdjustment(labels), DriftAdjustment(kind, RecentBenign(labels)))

AxesOf(kind, labels, raw) ==
    <<[raw[1] EXCEPT !.score = FraudOf(labels, raw)],
      [raw[2] EXCEPT !.score = Rounded(AnomalyOf(kind, labels, raw), 100)], raw[3]>>

LEMMA ResponseUnfolds ==
    ASSUME NEW kind, NEW labels, NEW raw
    PROVE  LET r == Response(kind, labels, raw)
               feedback == FeedbackAdjustment(labels)
               drift == DriftAdjustment(kind, RecentBenign(labels))
           IN  /\ r.score = FuseRisk(AxesOf(kind, labels, raw))
               /\ r.fraud = FraudOf(labels, raw) /\ r.anomaly = AnomalyOf(kind, labels, raw)
               /\ r.effects = {feedback.effect, drift.effect} \ {"no_adjustment", "none"}
               /\ r.factor = feedback.factor * drift.factor
               /\ r.decision = DocDecision(Selected(DecisionRequest(r.score)), r.fraud, r.anomaly)
  BY DEF Response, FraudOf, AnomalyOf, AxesOf

LEMMA Adjustments ==
    ASSUME NEW labels, NEW kind \in Kinds
    PROVE  /\ FeedbackAdjustment(labels).add \in {0, 10}
           /\ FeedbackAdjustment(labels).factor = (IF RecentBenign(labels) THEN 7 ELSE 10)
           /\ FeedbackAdjustment(labels).add = (IF HasConfirmedFraud(labels) THEN 10 ELSE 0)
           /\ DriftAdjustment(kind, RecentBenign(labels)).factor =
                 (IF kind = "gradual" /\ RecentBenign(labels) THEN 6 ELSE IF kind = "sudden" THEN 12 ELSE 10)
  BY DEF FeedbackAdjustment, DriftAdjustment, AlertAdd, TrustFactor, GradualFactor, SuddenFactor, Kinds

(* The factor of an anomaly, in hundredths: 42 to 120. *)
FactorOf(kind, labels) ==
    FeedbackAdjustment(labels).factor * DriftAdjustment(kind, RecentBenign(labels)).factor

LEMMA FactorShape ==
    ASSUME NEW labels, NEW kind \in Kinds
    PROVE  FactorOf(kind, labels) =
             IF RecentBenign(labels)
             THEN IF kind = "gradual" THEN 42 ELSE IF kind = "sudden" THEN 84 ELSE 70
             ELSE IF kind = "sudden" THEN 120 ELSE 100
<1>1. PICK f, d : /\ f = FeedbackAdjustment(labels).factor
                  /\ d = DriftAdjustment(kind, RecentBenign(labels)).factor
  OBVIOUS
<1>2. /\ f = (IF RecentBenign(labels) THEN 7 ELSE 10)
      /\ d = (IF kind = "gradual" /\ RecentBenign(labels) THEN 6 ELSE IF kind = "sudden" THEN 12 ELSE 10)
  BY <1>1, Adjustments
<1>3. FactorOf(kind, labels) = f * d
  BY <1>1 DEF FactorOf
<1>4. CASE RecentBenign(labels)
  BY <1>2, <1>3, <1>4 DEF Kinds
<1>5. CASE ~ RecentBenign(labels)
  BY <1>2, <1>3, <1>5
<1> QED
  BY <1>4, <1>5

LEMMA AdjustedScores ==
    ASSUME NEW raw, RawOK(raw), NEW labels, NEW kind \in Kinds
    PROVE  LET axes == AxesOf(kind, labels, raw)
               add == FeedbackAdjustment(labels).add
               factor == FactorOf(kind, labels)
           IN  /\ \A i \in 1..3 : AxisOK(axes[i]) /\ axes[i].available = raw[i].available
               /\ axes[1].score = FraudOf(labels, raw)
               /\ axes[2].score = Rounded(AnomalyOf(kind, labels, raw), 100)
               /\ axes[3].score = raw[3].score
               /\ raw[1].available => FraudOf(labels, raw) = IF 100 <= raw[1].score + add THEN 100 ELSE raw[1].score + add
               /\ raw[2].available => AnomalyOf(kind, labels, raw)
                                        = IF 10000 <= raw[2].score * factor THEN 10000 ELSE raw[2].score * factor
<1>1. PICK add, f, d : /\ add = FeedbackAdjustment(labels).add /\ f = FeedbackAdjustment(labels).factor
                       /\ d = DriftAdjustment(kind, RecentBenign(labels)).factor
  OBVIOUS
<1>2. add \in {0, 10} /\ f \in {7, 10} /\ d \in {6, 10, 12} /\ FactorOf(kind, labels) = f * d
  BY <1>1, Adjustments DEF FactorOf
<1>3. PICK a, b, c : a = raw[1] /\ b = raw[2] /\ c = raw[3]
  OBVIOUS
<1>4. /\ a = [score |-> a.score, available |-> a.available] /\ AxisOK(a)
      /\ b = [score |-> b.score, available |-> b.available] /\ AxisOK(b)
      /\ AxisOK(c)
  BY <1>3 DEF RawOK
<1>5. PICK x, y : x = FraudOf(labels, raw) /\ y = AnomalyOf(kind, labels, raw)
  OBVIOUS
<1>6. x = Min({100, a.score + add})
  BY <1>1, <1>3, <1>5 DEF FraudOf, AdjustedFraud
<1>t. PICK top : top = 10000
  OBVIOUS
<1>7. y = Min({top, b.score * f * d})
  BY <1>1, <1>3, <1>5, <1>t DEF AnomalyOf, AdjustedAnomaly
<1>8. a.available => a.score \in 0..100 /\ x = (IF 100 <= a.score + add THEN 100 ELSE a.score + add) /\ x \in 0..100
  <2> SUFFICES ASSUME a.available
               PROVE  a.score \in 0..100 /\ x = (IF 100 <= a.score + add THEN 100 ELSE a.score + add) /\ x \in 0..100
    OBVIOUS
  <2>1. PICK n : n = a.score
    OBVIOUS
  <2>2. n \in 0..100
    BY <1>4, <2>1 DEF AxisOK
  <2>3. n + add \in Int
    BY <1>2, <2>2
  <2>4. x = IF 100 <= n + add THEN 100 ELSE n + add
    BY <1>6, <2>1, <2>3, SmallerOfTwo
  <2> QED
    BY <1>2, <2>1, <2>2, <2>4
<1>a. PICK factor, p : factor = f * d /\ p = b.score * factor
  OBVIOUS
<1>b. factor \in Nat
  BY <1>2, <1>a
<1>u. top \in Nat
  BY <1>t
<1>9. b.available => p \in Nat /\ y = (IF top <= p THEN top ELSE p)
  <2> SUFFICES ASSUME b.available
               PROVE  p \in Nat /\ y = (IF top <= p THEN top ELSE p)
    OBVIOUS
  <2>1. PICK n : n = b.score
    OBVIOUS
  <2>2. n \in 0..100
    BY <1>4, <2>1 DEF AxisOK
  <2>3. p = n * factor
    BY <1>a, <2>1, Zenon
  <2>4. p \in Nat
    BY <1>b, <2>2, <2>3
  <2>5. n * f * d = p
    <3>1. n * f * d = n * (f * d)
      BY <1>2, <2>2, SMTT(30)
    <3> QED
      BY <1>a, <2>3, <3>1
  <2>6. y = Min({top, p})
    BY <1>7, <2>1, <2>5, Zenon
  <2>7. top \in Int /\ p \in Int
    BY <1>u, <2>4
  <2>8. Min({top, p}) = IF top <= p THEN top ELSE p
    BY <2>7, SmallerOfTwo
  <2> QED
    BY <2>4, <2>6, <2>8
<1>10. b.available => Rounded(y, 100) \in 0..100
  <2> SUFFICES ASSUME b.available PROVE Rounded(y, 100) \in 0..100
    OBVIOUS
  <2>1. PICK lo, hi, n : lo = 0 /\ hi = 100 /\ n = 100
    OBVIOUS
  <2>0. p \in Nat /\ y = (IF top <= p THEN top ELSE p)
    BY <1>9, Zenon
  <2>a. y \in 0..top
    BY <1>u, <2>0
  <2>b. lo * n = 0 /\ hi * n = top
    BY <1>t, <2>1, SMT
  <2>2. y \in Int /\ lo * n <= y /\ y <= hi * n /\ n \in Nat \ {0} /\ lo \in Int /\ hi \in Int
    BY <1>u, <2>a, <2>b, <2>1, SMT
  <2>3. Rounded(y, n) \in lo..hi
    BY <2>2, RoundedBetween
  <2> QED
    BY <2>1, <2>3
<1>11. PICK axes : axes = AxesOf(kind, labels, raw)
  OBVIOUS
<1>12. /\ axes[1] = [score |-> x, available |-> a.available]
       /\ axes[2] = [score |-> Rounded(y, 100), available |-> b.available]
       /\ axes[3] = c
  BY <1>3, <1>4, <1>5, <1>11 DEF AxesOf
<1>13. AxisOK(axes[1]) /\ AxisOK(axes[2]) /\ AxisOK(axes[3])
  BY <1>4, <1>8, <1>10, <1>12 DEF AxisOK
<1>14. /\ axes[1].available = raw[1].available /\ axes[2].available = raw[2].available
       /\ axes[3].available = raw[3].available
  BY <1>3, <1>12
<1>15. \A i \in 1..3 : AxisOK(axes[i]) /\ axes[i].available = raw[i].available
  BY <1>13, <1>14
<1>16. /\ axes[1].score = FraudOf(labels, raw) /\ axes[2].score = Rounded(AnomalyOf(kind, labels, raw), 100)
       /\ axes[3].score = raw[3].score
  BY <1>3, <1>5, <1>12
<1>17. raw[1].available => FraudOf(labels, raw) = IF 100 <= raw[1].score + add THEN 100 ELSE raw[1].score + add
  <2>1. raw[1].available => x = IF 100 <= raw[1].score + add THEN 100 ELSE raw[1].score + add
    BY <1>3, <1>8
  <2> QED
    BY <1>5, <2>1
<1>18. raw[2].available => AnomalyOf(kind, labels, raw)
                             = IF 10000 <= raw[2].score * factor THEN 10000 ELSE raw[2].score * factor
  <2>1. raw[2].available => AnomalyOf(kind, labels, raw)
                              = IF top <= raw[2].score * factor THEN top ELSE raw[2].score * factor
    BY <1>3, <1>5, <1>9, <1>a, Zenon
  <2> QED
    BY <1>t, <2>1
<1>19. add = FeedbackAdjustment(labels).add /\ factor = FactorOf(kind, labels)
  BY <1>1, <1>2, <1>a
<1> QED
  BY <1>11, <1>15, <1>16, <1>17, <1>18, <1>19

-----------------------------------------------------------------------------
(* The analyst pipeline: what verdicts do to a score.                      *)
LEMMA RecentBenignRead ==
    ASSUME NEW labels \in Seq(Labels)
    PROVE  RecentBenign(labels) <=>
             /\ TrustWindow <= Len(labels)
             /\ \A i \in (Len(labels) - TrustWindow + 1)..Len(labels) : IsBenign(labels[i])
<1>1. PICK n, w : n = Len(labels) /\ w = TrustWindow
  OBVIOUS
<1>2. n \in Nat /\ w \in Nat \ {0}
  BY <1>1, PipelineAssumption
<1>3. RecentBenign(labels) <=>
         /\ w <= n
         /\ \A i \in DOMAIN SubSeq(labels, n - w + 1, n) : IsBenign(SubSeq(labels, n - w + 1, n)[i])
  BY <1>1, <1>2 DEF RecentBenign, LastLabels
<1>4. ASSUME w <= n
      PROVE  (\A i \in DOMAIN SubSeq(labels, n - w + 1, n) : IsBenign(SubSeq(labels, n - w + 1, n)[i]))
             <=> \A i \in (n - w + 1)..n : IsBenign(labels[i])
  <2>1. PICK f : f = SubSeq(labels, n - w + 1, n)
    OBVIOUS
  <2>2. /\ Len(f) = w /\ DOMAIN f = 1..w
        /\ \A i \in 1..w : f[i] = labels[n - w + i]
    BY <1>1, <1>2, <1>4, <2>1
  <2>3. ASSUME \A i \in 1..w : IsBenign(f[i]), NEW j \in (n - w + 1)..n
        PROVE  IsBenign(labels[j])
    <3>1. PICK k : k = j - n + w
      OBVIOUS
    <3>2. k \in 1..w /\ n - w + k = j
      BY <1>2, <1>4, <2>3, <3>1
    <3> QED
      BY <2>2, <2>3, <3>2
  <2>4. ASSUME \A i \in (n - w + 1)..n : IsBenign(labels[i]), NEW j \in 1..w
        PROVE  IsBenign(f[j])
    <3>1. n - w + j \in (n - w + 1)..n
      BY <1>2, <1>4, <2>4
    <3> QED
      BY <2>2, <2>4, <3>1
  <2> QED
    BY <2>1, <2>2, <2>3, <2>4
<1> QED
  BY <1>1, <1>3, <1>4

(* A benign verdict takes no fraud back and breaks no run of benign ones. *)
LEMMA OneMoreBenign ==
    ASSUME NEW labels \in Seq(Labels)
    PROVE  /\ HasConfirmedFraud(Append(labels, "false_alarm")) => HasConfirmedFraud(labels)
           /\ RecentBenign(labels) => RecentBenign(Append(labels, "false_alarm"))
<1>1. PICK b, n, w : b = Append(labels, "false_alarm") /\ n = Len(labels) /\ w = TrustWindow
  OBVIOUS
<1>2. n \in Nat /\ w \in Nat \ {0} /\ "false_alarm" \in Labels
  BY <1>1, PipelineAssumption DEF Labels
<1>3. /\ b \in Seq(Labels) /\ Len(b) = n + 1 /\ DOMAIN b = 1..(n + 1) /\ DOMAIN labels = 1..n
      /\ b[n + 1] = "false_alarm" /\ \A i \in 1..n : b[i] = labels[i]
  BY <1>1, <1>2
<1>6. RecentBenign(b) <=> w <= Len(b) /\ \A i \in (Len(b) - w + 1)..Len(b) : IsBenign(b[i])
  BY <1>1, <1>3, RecentBenignRead
<1>7. RecentBenign(labels) <=> w <= n /\ \A i \in (n - w + 1)..n : IsBenign(labels[i])
  BY <1>1, RecentBenignRead
<1>4. HasConfirmedFraud(b) => HasConfirmedFraud(labels)
  <2> SUFFICES ASSUME NEW i \in 1..(n + 1), b[i] = "confirmed_fraud"
               PROVE  \E j \in 1..n : labels[j] = "confirmed_fraud"
    BY <1>3 DEF HasConfirmedFraud, IsConfirmedFraud
  <2>1. i # n + 1
    BY <1>3
  <2>2. i \in 1..n
    BY <1>2, <2>1
  <2> QED
    BY <1>3, <2>2
<1>8. PICK m : m = Len(b)
  OBVIOUS
<1>9. m = n + 1
  BY <1>3, <1>8
<1>5. RecentBenign(labels) => RecentBenign(b)
  <2> SUFFICES ASSUME w <= n, \A i \in (n - w + 1)..n : IsBenign(labels[i])
               PROVE  w <= m /\ \A i \in (m - w + 1)..m : IsBenign(b[i])
    BY <1>6, <1>7, <1>8
  <2>1. w <= m
    BY <1>2, <1>9
  <2>2. ASSUME NEW i \in (m - w + 1)..m PROVE IsBenign(b[i])
    <3>1. CASE i = n + 1
      BY <1>3, <3>1 DEF IsBenign
    <3>2. CASE i # n + 1
      <4>1. i \in (n - w + 1)..n /\ i \in 1..n
        BY <1>2, <1>9, <2>2, <3>2
      <4> QED
        BY <1>3, <4>1
    <3> QED
      BY <3>1, <3>2
  <2> QED
    BY <2>1, <2>2
<1> QED
  BY <1>1, <1>4, <1>5

(* A confirmed fraud is seen, and ends a run of benign verdicts. *)
LEMMA OneMoreFraud ==
    ASSUME NEW labels \in Seq(Labels)
    PROVE  /\ HasConfirmedFraud(Append(labels, "confirmed_fraud"))
           /\ ~ RecentBenign(Append(labels, "confirmed_fraud"))
<1>1. PICK b, n, w : b = Append(labels, "confirmed_fraud") /\ n = Len(labels) /\ w = TrustWindow
  OBVIOUS
<1>2. n \in Nat /\ w \in Nat \ {0} /\ "confirmed_fraud" \in Labels
  BY <1>1, PipelineAssumption DEF Labels
<1>3. /\ b \in Seq(Labels) /\ Len(b) = n + 1 /\ DOMAIN b = 1..(n + 1) /\ b[n + 1] = "confirmed_fraud"
  BY <1>1, <1>2
<1>4. n + 1 \in 1..(n + 1) /\ n + 1 \in (n + 1 - w + 1)..(n + 1)
  BY <1>2
<1>5. HasConfirmedFraud(b)
  BY <1>3, <1>4 DEF HasConfirmedFraud, IsConfirmedFraud
<1>6. ~ IsBenign(b[n + 1])
  BY <1>3 DEF IsBenign
<1>7. RecentBenign(b) => \A i \in (Len(b) - w + 1)..Len(b) : IsBenign(b[i])
  BY <1>1, <1>3, RecentBenignRead
<1>8. PICK m : m = Len(b)
  OBVIOUS
<1>9. m \in (m - w + 1)..m /\ ~ IsBenign(b[m])
  BY <1>2, <1>3, <1>6, <1>8
<1>10. ~ RecentBenign(b)
  BY <1>7, <1>8, <1>9
<1> QED
  BY <1>1, <1>5, <1>10

(* Verdicts that tell more of fraud, and less of trust, never score less. *)
LEMMA ResponseMonotone ==
    ASSUME NEW raw, RawOK(raw), NEW kind \in Kinds, NEW alabels, NEW blabels,
           HasConfirmedFraud(alabels) => HasConfirmedFraud(blabels),
           RecentBenign(blabels) => RecentBenign(alabels)
    PROVE  Response(kind, alabels, raw).score <= Response(kind, blabels, raw).score
<1>1. PICK axes, bxes : axes = AxesOf(kind, alabels, raw) /\ bxes = AxesOf(kind, blabels, raw)
  OBVIOUS
<1>2. PICK s, t, f, g : /\ s = FeedbackAdjustment(alabels).add /\ t = FeedbackAdjustment(blabels).add
                        /\ f = FactorOf(kind, alabels) /\ g = FactorOf(kind, blabels)
  OBVIOUS
<1>3. s \in Nat /\ t \in Nat /\ s <= t
  BY <1>2, Adjustments
<1>4. f \in Nat /\ g \in Nat /\ f <= g
  BY <1>2, FactorShape
<1>5. \A i \in 1..3 : /\ AxisOK(axes[i]) /\ AxisOK(bxes[i])
                      /\ axes[i].available = bxes[i].available
                      /\ axes[i].available = raw[i].available
  BY <1>1, AdjustedScores
<1>6. AxisOK(raw[1]) /\ AxisOK(raw[2])
  BY DEF RawOK
<1>7. ASSUME raw[1].available PROVE axes[1].score <= bxes[1].score
  <2>1. PICK n, x, y : n = raw[1].score /\ x = axes[1].score /\ y = bxes[1].score
    OBVIOUS
  <2>2. n \in 0..100
    BY <1>6, <1>7, <2>1 DEF AxisOK
  <2>3. x = (IF 100 <= n + s THEN 100 ELSE n + s) /\ y = (IF 100 <= n + t THEN 100 ELSE n + t)
    BY <1>1, <1>2, <1>7, <2>1, AdjustedScores
  <2> QED
    BY <1>3, <2>1, <2>2, <2>3
<1>8. ASSUME raw[2].available PROVE axes[2].score <= bxes[2].score
  <2>1. PICK n, x, y : /\ n = raw[2].score
                       /\ x = AnomalyOf(kind, alabels, raw) /\ y = AnomalyOf(kind, blabels, raw)
    OBVIOUS
  <2>2. n \in 0..100
    BY <1>6, <1>8, <2>1 DEF AxisOK
  <2>3. /\ x = (IF 10000 <= n * f THEN 10000 ELSE n * f)
        /\ y = (IF 10000 <= n * g THEN 10000 ELSE n * g)
    BY <1>2, <1>8, <2>1, AdjustedScores
  <2>4. n * f \in Int /\ n * g \in Int /\ n * f <= n * g
    BY <1>4, <2>2
  <2>5. PICK p, q : p = n * f /\ q = n * g
    OBVIOUS
  <2>6. x \in Int /\ y \in Int /\ x <= y
    BY <2>3, <2>4, <2>5, SMT
  <2>7. PICK h : h = 100
    OBVIOUS
  <2>8. Rounded(x, h) <= Rounded(y, h)
    BY <2>6, <2>7, RoundedMonotone
  <2> QED
    BY <1>1, <2>1, <2>7, <2>8, AdjustedScores
<1>9. axes[3].score = bxes[3].score /\ axes[3].score = raw[3].score
  BY <1>1, AdjustedScores
<1>10. \A i \in 1..3 : axes[i].available => axes[i].score <= bxes[i].score
  <2> SUFFICES ASSUME NEW i \in 1..3, axes[i].available PROVE axes[i].score <= bxes[i].score
    OBVIOUS
  <2>1. CASE i = 1
    BY <1>5, <1>7, <2>1
  <2>2. CASE i = 2
    BY <1>5, <1>8, <2>2
  <2>3. CASE i = 3
    <3>1. PICK x, y : x = axes[3] /\ y = bxes[3]
      OBVIOUS
    <3>2. x.score \in 0..100 /\ y.score = x.score
      BY <1>5, <1>9, <2>3, <3>1 DEF AxisOK
    <3>3. x.score <= y.score
      BY <3>2
    <3> QED
      BY <2>3, <3>1, <3>3
  <2> QED
    BY <2>1, <2>2, <2>3
<1>11. FuseRisk(axes) <= FuseRisk(bxes)
  BY <1>5, <1>10, FuseMonotone
<1> QED
  BY <1>1, <1>11, ResponseUnfolds

(* A response says what it was made from, and its axes are axes.           *)
Weighed(answer) ==
    /\ answer.response = Response(answer.drift, answer.labels, answer.raw)
    /\ answer.drift \in Kinds
    /\ answer.raw = <<answer.raw[1], answer.raw[2], answer.raw[3]>> /\ RawOK(answer.raw)

PipelineInv == verdicts \in Seq(Labels) /\ (last # Unset => Weighed(last))

LEMMA AnswersAreAxes ==
    ASSUME NEW v, NEW raw \in Answers(v)
    PROVE  raw = <<raw[1], raw[2], raw[3]>> /\ RawOK(raw)
<1>1. PICK A, B, C : /\ A = Answer(Percents, HeuristicRisk(v)) /\ B = Answer(Percents, 0)
                     /\ C = Answer(Risks, 0)
  OBVIOUS
<1>2. raw \in A \X B \X C
  BY <1>1 DEF Answers
<1>3. raw = <<raw[1], raw[2], raw[3]>> /\ raw[1] \in A /\ raw[2] \in B /\ raw[3] \in C
  BY <1>2
<1>4. Percents \subseteq 0..100 /\ Risks \subseteq 0..100
  BY PipelineAssumption
<1>5. ASSUME NEW S \in SUBSET (0..100), NEW z, NEW a \in Answer(S, z)
      PROVE  a = [score |-> a.score, available |-> a.available] /\ AxisOK(a)
  <2>1. CASE \E s \in S : a = [score |-> s, available |-> TRUE]
    <3>1. PICK s \in S : a = [score |-> s, available |-> TRUE]
      BY <2>1
    <3>2. a.score = s /\ a.available = TRUE /\ s \in 0..100
      BY <3>1
    <3> QED
      BY <3>1, <3>2 DEF AxisOK
  <2>2. CASE a = [score |-> z, available |-> FALSE]
    <3>1. a.score = z /\ a.available = FALSE
      BY <2>2
    <3> QED
      BY <2>2, <3>1 DEF AxisOK
  <2>3. \/ \E s \in S : a = [score |-> s, available |-> TRUE]
        \/ a = [score |-> z, available |-> FALSE]
    BY <1>5 DEF Answer
  <2> QED
    BY <2>1, <2>2, <2>3
<1>6. /\ raw[1] = [score |-> raw[1].score, available |-> raw[1].available] /\ AxisOK(raw[1])
      /\ raw[2] = [score |-> raw[2].score, available |-> raw[2].available] /\ AxisOK(raw[2])
      /\ raw[3] = [score |-> raw[3].score, available |-> raw[3].available] /\ AxisOK(raw[3])
  BY <1>1, <1>3, <1>4, <1>5
<1> QED
  BY <1>3, <1>6 DEF RawOK

LEMMA PipelineStarts ==
    ASSUME ProfileInit
    PROVE  PipelineInv
  BY DEF ProfileInit, PipelineInv

LEMMA PipelineStep ==
    ASSUME PipelineInv, ProfileNext
    PROVE  PipelineInv'
<1>1. CASE \E p \in Payments : Score(p)
  <2>1. PICK p \in Payments : Score(p)
    BY <1>1
  <2>2. PICK kind : kind = DetectDrift(history)
    OBVIOUS
  <2>3. PICK vector \in {BuildFeatures(p, history)} \cup ClientVectors[p] :
           \E raw \in Answers(vector), counts \in Findings :
              last' = [payment |-> p, vector |-> vector, raw |-> raw, counts |-> counts,
                       before |-> history, drift |-> kind, labels |-> verdicts,
                       response |-> Response(kind, verdicts, raw)]
    BY <2>1, <2>2 DEF Score
  <2>6. PICK raw \in Answers(vector), counts \in Findings :
           last' = [payment |-> p, vector |-> vector, raw |-> raw, counts |-> counts,
                    before |-> history, drift |-> kind, labels |-> verdicts,
                    response |-> Response(kind, verdicts, raw)]
    BY <2>3
  <2>4. kind \in Kinds
    BY <2>2 DEF DetectDrift, Kinds
  <2>5. Weighed(last')
    BY <2>4, <2>6, AnswersAreAxes DEF Weighed
  <2> QED
    BY <2>1, <2>5 DEF Score, PipelineInv
<1>2. CASE \E label \in Verdicts : SubmitFeedback(label)
  BY <1>2, PipelineAssumption DEF SubmitFeedback, PipelineInv
<1> QED
  BY <1>1, <1>2 DEF ProfileNext

-----------------------------------------------------------------------------
LEMMA MonotoneHolds ==
    ASSUME PipelineInv
    PROVE  FeedbackMonotone
<1> SUFFICES ASSUME last # Unset
             PROVE  /\ Response(last.drift, Append(verdicts, "confirmed_fraud"), last.raw).score
                         >= Response(last.drift, verdicts, last.raw).score
                    /\ Response(last.drift, Append(verdicts, "false_alarm"), last.raw).score
                         <= Response(last.drift, verdicts, last.raw).score
  BY DEF FeedbackMonotone, Responded
<1>1. RawOK(last.raw) /\ last.drift \in Kinds /\ verdicts \in Seq(Labels)
  BY DEF PipelineInv, Weighed
<1>2. PICK a, b, s, t, u : /\ a = Append(verdicts, "confirmed_fraud") /\ b = Append(verdicts, "false_alarm")
                           /\ s = Response(last.drift, a, last.raw).score
                           /\ t = Response(last.drift, verdicts, last.raw).score
                           /\ u = Response(last.drift, b, last.raw).score
  OBVIOUS
<1>3. HasConfirmedFraud(a) /\ ~ RecentBenign(a)
  BY <1>1, <1>2, OneMoreFraud
<1>4. /\ HasConfirmedFraud(b) => HasConfirmedFraud(verdicts)
      /\ RecentBenign(verdicts) => RecentBenign(b)
  BY <1>1, <1>2, OneMoreBenign
<1>5. t <= s
  BY <1>1, <1>2, <1>3, ResponseMonotone
<1>6. u <= t
  BY <1>1, <1>2, <1>4, ResponseMonotone
<1>7. s >= t
  BY <1>5
<1> QED
  BY <1>2, <1>6, <1>7

LEMMA TrustHolds ==
    ASSUME PipelineInv
    PROVE  TrustAgrees
<1> SUFFICES ASSUME last # Unset
             PROVE  /\ "heightened_alert" \in last.response.effects <=> TrustStatus(last.labels) = "alert"
                    /\ "trust_boost" \in last.response.effects <=> TrustStatus(last.labels) = "boosted"
  BY DEF TrustAgrees, Responded
<1>1. PICK l, k, e, f, d : /\ l = last.labels /\ k = last.drift /\ e = last.response.effects
                           /\ f = FeedbackAdjustment(l).effect /\ d = DriftAdjustment(k, RecentBenign(l)).effect
  OBVIOUS
<1>2. e = {f, d} \ {"no_adjustment", "none"}
  BY <1>1, ResponseUnfolds DEF PipelineInv, Weighed
<1>3. d \in Kinds
  BY <1>1 DEF PipelineInv, Weighed, DriftAdjustment, Kinds
<1>4. f = IF HasConfirmedFraud(l) THEN "heightened_alert"
          ELSE IF RecentBenign(l) THEN "trust_boost" ELSE "no_adjustment"
  BY <1>1 DEF FeedbackAdjustment
<1>5. TrustStatus(l) = IF HasConfirmedFraud(l) THEN "alert"
                       ELSE IF RecentBenign(l) THEN "boosted" ELSE "normal"
  BY DEF TrustStatus
<1>6. /\ "heightened_alert" \in e <=> f = "heightened_alert"
      /\ "trust_boost" \in e <=> f = "trust_boost"
  BY <1>2, <1>3 DEF Kinds
<1> QED
  BY <1>1, <1>4, <1>5, <1>6

LEMMA DiscountHolds ==
    ASSUME PipelineInv
    PROVE  DiscountEarned
<1> SUFFICES ASSUME last # Unset, last.response.factor < 100
             PROVE  RecentBenign(last.labels)
  BY DEF DiscountEarned, Responded
<1>1. last.response.factor = FactorOf(last.drift, last.labels)
  BY ResponseUnfolds DEF PipelineInv, Weighed, FactorOf
<1>2. last.drift \in Kinds
  BY DEF PipelineInv, Weighed
<1> QED
  BY <1>1, <1>2, FactorShape

-----------------------------------------------------------------------------
LEMMA DecisionHolds ==
    ASSUME PipelineInv
    PROVE  DecisionFollowsScore
<1> SUFFICES ASSUME last # Unset
             PROVE  /\ last.response.decision = "PASS" <=> last.response.score <= 25
                    /\ last.response.decision \in {"BLOCK", "REVIEW_STEALTH"} <=> last.response.score > 50
                    /\ (\A i \in 1..3 : ~ last.raw[i].available) =>
                           last.response.decision \in {"BLOCK", "REVIEW_STEALTH"}
  BY DEF DecisionFollowsScore, Responded
<1>1. PICK k, l, raw, r : k = last.drift /\ l = last.labels /\ raw = last.raw /\ r = last.response
  OBVIOUS
<1>2. k \in Kinds /\ RawOK(raw) /\ r = Response(k, l, raw)
  BY <1>1 DEF PipelineInv, Weighed
<1>3. PICK axes : axes = AxesOf(k, l, raw)
  OBVIOUS
<1>4. \A i \in 1..3 : AxisOK(axes[i]) /\ axes[i].available = raw[i].available
  BY <1>2, <1>3, AdjustedScores
<1>5. PICK s, d, x, y : s = r.score /\ d = r.decision /\ x = r.fraud /\ y = r.anomaly
  OBVIOUS
<1>6. s = FuseRisk(axes) /\ d = DocDecision(Selected(DecisionRequest(s)), x, y)
  BY <1>2, <1>3, <1>5, ResponseUnfolds
<1>7. s \in 0..100 /\ ((\A i \in 1..3 : ~ raw[i].available) => s = 100)
  BY <1>4, <1>6, FuseBounded
<1>8. /\ s <= 25 => d = "PASS"
      /\ ~ (s <= 25) /\ s <= 50 => d = "REVIEW_UNUSUAL"
      /\ ~ (s <= 50) => d \in {"BLOCK", "REVIEW_STEALTH"}
  BY <1>6, <1>7, DecisionShape
<1>9. s > 50 <=> ~ (s <= 50)
  BY <1>7
<1>10. s <= 25 => s <= 50
  BY <1>7
<1>11. s = 100 => s > 50
  OBVIOUS
<1> QED
  BY <1>1, <1>5, <1>7, <1>8, <1>9, <1>10, <1>11

LEMMA SilentHolds ==
    ASSUME PipelineInv
    PROVE  FallbackSilent
<1> SUFFICES ASSUME last # Unset, NEW i \in 1..3, NEW v \in Percents, ~ last.raw[i].available
             PROVE  LET other == Response(last.drift, last.labels, [last.raw EXCEPT ![i].score = v])
                    IN  /\ other.score = last.response.score
                        /\ other.decision # last.response.decision => other.score > 50
  BY DEF FallbackSilent, Responded
<1>1. PICK k, l, raw, r : k = last.drift /\ l = last.labels /\ raw = last.raw /\ r = last.response
  OBVIOUS
<1>2. k \in Kinds /\ RawOK(raw) /\ r = Response(k, l, raw) /\ raw = <<raw[1], raw[2], raw[3]>>
  BY <1>1 DEF PipelineInv, Weighed
<1>3. PICK saw, o : saw = [raw EXCEPT ![i].score = v] /\ o = Response(k, l, saw)
  OBVIOUS
<1>4. \A j \in 1..3 : j # i => saw[j] = raw[j]
  BY <1>2, <1>3
<1>5. saw[i] = [score |-> v, available |-> raw[i].available]
  <2>1. raw[i] = [score |-> raw[i].score, available |-> raw[i].available]
    BY <1>2 DEF RawOK
  <2>2. saw[i] = [raw[i] EXCEPT !.score = v]
    BY <1>2, <1>3
  <2> QED
    BY <2>1, <2>2
<1>6. \A j \in 1..3 : saw[j].available = raw[j].available /\ (raw[j].available => saw[j] = raw[j])
  BY <1>1, <1>4, <1>5
<1>7. PICK axes, bxes : axes = AxesOf(k, l, raw) /\ bxes = AxesOf(k, l, saw)
  OBVIOUS
<1>8. RawOK(saw)
  <2> SUFFICES ASSUME NEW j \in 1..3
               PROVE  saw[j] = [score |-> saw[j].score, available |-> saw[j].available] /\ AxisOK(saw[j])
    BY DEF RawOK
  <2>1. CASE j # i
    BY <1>2, <1>4, <2>1 DEF RawOK
  <2>2. CASE j = i
    <3>1. saw[i].score = v /\ saw[i].available = raw[i].available
      BY <1>5
    <3>2. AxisOK(saw[i])
      BY <1>1, <1>2, <3>1 DEF RawOK, AxisOK
    <3> QED
      BY <1>5, <2>2, <3>1, <3>2
  <2> QED
    BY <2>1, <2>2
<1>9. /\ \A j \in 1..3 : axes[j].available = raw[j].available /\ bxes[j].available = saw[j].available
      /\ axes[1].score = FraudOf(l, raw) /\ bxes[1].score = FraudOf(l, saw)
      /\ axes[2].score = Rounded(AnomalyOf(k, l, raw), 100) /\ bxes[2].score = Rounded(AnomalyOf(k, l, saw), 100)
      /\ axes[3].score = raw[3].score /\ bxes[3].score = saw[3].score
  BY <1>2, <1>7, <1>8, AdjustedScores
<1>10. /\ raw[1].available => FraudOf(l, raw) = FraudOf(l, saw)
       /\ raw[2].available => AnomalyOf(k, l, raw) = AnomalyOf(k, l, saw)
       /\ raw[3].available => raw[3].score = saw[3].score
  BY <1>6 DEF FraudOf, AnomalyOf
<1>11. /\ \A j \in 1..3 : axes[j].available = bxes[j].available
       /\ \A j \in 1..3 : axes[j].available => axes[j].score = bxes[j].score
  <2>1. axes[1].available => axes[1].score = bxes[1].score
    BY <1>9, <1>10
  <2>2. axes[2].available => axes[2].score = bxes[2].score
    BY <1>9, <1>10
  <2>3. axes[3].available => axes[3].score = bxes[3].score
    BY <1>9, <1>10
  <2> QED
    BY <1>6, <1>9, <2>1, <2>2, <2>3
<1>12. PICK s, a : s = FuseRisk(axes) /\ a = Selected(DecisionRequest(s))
  OBVIOUS
<1>13. r.score = s /\ o.score = s
  BY <1>2, <1>3, <1>7, <1>11, <1>12, FuseSilent, ResponseUnfolds
<1>14. r.decision = DocDecision(a, r.fraud, r.anomaly) /\ o.decision = DocDecision(a, o.fraud, o.anomaly)
  BY <1>2, <1>3, <1>12, <1>13, ResponseUnfolds
<1>15. s \in 0..100
  BY <1>2, <1>7, <1>12, AdjustedScores, FuseBounded
<1>16. /\ s <= 25 => r.decision = "PASS" /\ o.decision = "PASS"
       /\ ~ (s <= 25) /\ s <= 50 => r.decision = "REVIEW_UNUSUAL" /\ o.decision = "REVIEW_UNUSUAL"
  BY <1>12, <1>14, <1>15, DecisionShape
<1>17. s <= 50 \/ s > 50
  BY <1>15
<1> QED
  BY <1>1, <1>3, <1>13, <1>16, <1>17

-----------------------------------------------------------------------------
(* What analysts say of a customer counts in one direction: whatever the   *)
(* verdicts so far, one more that confirms fraud never lowers the score,   *)
(* one more benign one never raises it; the score and the customer's page  *)
(* tell the same of them; and no anomaly is discounted without them.       *)
THEOREM VerdictsCorrect == ProfileSpec => []VerdictsWeighed
<1>1. ProfileInit => PipelineInv
  BY PipelineStarts
<1>2. PipelineInv /\ [ProfileNext]_profile => PipelineInv'
  <2> SUFFICES ASSUME PipelineInv, [ProfileNext]_profile PROVE PipelineInv'
    OBVIOUS
  <2>1. CASE ProfileNext
    BY <2>1, PipelineStep
  <2>2. CASE UNCHANGED profile
    BY <2>2 DEF profile, PipelineInv, Weighed
  <2> QED
    BY <2>1, <2>2
<1>3. PipelineInv => VerdictsWeighed
  BY MonotoneHolds, TrustHolds, DiscountHolds DEF VerdictsWeighed
<1> QED
  BY <1>1, <1>2, <1>3, PTL DEF ProfileSpec

(* The decision follows the fused score at its two thresholds, no axis at  *)
(* all never passes, and what stands in for a missing source moves neither *)
(* the score nor, up to 50, the decision.                                  *)
THEOREM ScoreDecidesCorrect == ProfileSpec => []ScoreDecides
<1>1. ProfileInit => PipelineInv
  BY PipelineStarts
<1>2. PipelineInv /\ [ProfileNext]_profile => PipelineInv'
  <2> SUFFICES ASSUME PipelineInv, [ProfileNext]_profile PROVE PipelineInv'
    OBVIOUS
  <2>1. CASE ProfileNext
    BY <2>1, PipelineStep
  <2>2. CASE UNCHANGED profile
    BY <2>2 DEF profile, PipelineInv, Weighed
  <2> QED
    BY <2>1, <2>2
<1>3. PipelineInv => ScoreDecides
  BY DecisionHolds, SilentHolds DEF ScoreDecides
<1> QED
  BY <1>1, <1>2, <1>3, PTL DEF ProfileSpec

-----------------------------------------------------------------------------
(* Recursion along a sequence.                                             *)
LEMMA Climb ==
    ASSUME NEW n \in Nat, NEW Reached, 0 \in Reached,
           \A k \in 1..n : k - 1 \in Reached => k \in Reached
    PROVE  0..n \subseteq Reached
<1> SUFFICES ASSUME (0..n) \ Reached # {} PROVE FALSE
  OBVIOUS
<1>1. (0..n) \ Reached \subseteq Nat
  OBVIOUS
<1>2. PICK k \in (0..n) \ Reached : \A j \in (0..n) \ Reached : k <= j
  BY <1>1, FirstNumber
<1>3. k \in 1..n
  BY <1>2
<1>4. k - 1 \in 0..n /\ ~ (k <= k - 1)
  BY <1>3
<1>5. k - 1 \in Reached
  BY <1>2, <1>4
<1> QED
  BY <1>2, <1>3, <1>5

Recurs(f, D, n, a, G) ==
    /\ f \in [0..n -> D]
    /\ f[0] = a /\ \A i \in 1..n : f[i] = G[i][f[i - 1]]

LEMMA RecursionExists ==
    ASSUME NEW n \in Nat, NEW D, NEW a \in D, NEW G \in [1..n -> [D -> D]]
    PROVE  \E f : Recurs(f, D, n, a, G)
<1> DEFINE Fits(f, k) == f[0] = a /\ \A i \in 1..k : f[i] = G[i][f[i - 1]]
           Reached == {k \in 0..n : \E f \in [0..k -> D] : Fits(f, k)}
<1>1. 0 \in Reached
  <2>1. [i \in 0..0 |-> a] \in [0..0 -> D] /\ Fits([i \in 0..0 |-> a], 0)
    OBVIOUS
  <2>2. 0 \in 0..n
    OBVIOUS
  <2> QED
    BY <2>1, <2>2
<1>2. ASSUME NEW k \in 1..n, k - 1 \in Reached PROVE k \in Reached
  <2>1. PICK f \in [0..(k - 1) -> D] : Fits(f, k - 1)
    BY <1>2
  <2>2. PICK g : g = [i \in 0..k |-> IF i < k THEN f[i] ELSE G[k][f[k - 1]]]
    OBVIOUS
  <2>3. k - 1 \in 0..(k - 1) /\ 0 \in 0..(k - 1) /\ 0 < k
    OBVIOUS
  <2>4. G[k][f[k - 1]] \in D
    BY <2>3
  <2>5. g \in [0..k -> D]
    BY <2>2, <2>4
  <2>6. g[0] = a
    BY <2>1, <2>2, <2>3
  <2>7. ASSUME NEW i \in 1..k PROVE g[i] = G[i][g[i - 1]]
    <3>1. i - 1 \in 0..k /\ i - 1 < k /\ i \in 0..k
      OBVIOUS
    <3>2. g[i - 1] = f[i - 1]
      BY <2>2, <3>1
    <3>3. CASE i = k
      BY <2>2, <3>1, <3>2, <3>3
    <3>4. CASE i # k
      <4>1. i \in 1..(k - 1) /\ i < k
        BY <3>4
      <4> QED
        BY <2>1, <2>2, <3>1, <3>2, <4>1
    <3> QED
      BY <3>3, <3>4
  <2>8. Fits(g, k)
    BY <2>6, <2>7
  <2>9. k \in 0..n
    OBVIOUS
  <2> HIDE DEF Fits
  <2> QED
    BY <2>5, <2>8, <2>9
<1>3. n \in Reached
  <2>1. \A k \in 1..n : k - 1 \in Reached => k \in Reached
    BY <1>2
  <2>2. n \in 0..n
    OBVIOUS
  <2> HIDE DEF Reached
  <2> QED
    BY <1>1, <2>1, <2>2, Climb
<1> QED
  BY <1>3 DEF Recurs

(* What holds of the empty sequence, and with one more element as well,    *)
(* holds of every sequence.                                                *)
LEMMA SeqClimb ==
    ASSUME NEW S, NEW I, <<>> \in I, \A s \in Seq(S), x \in S : s \in I => Append(s, x) \in I
    PROVE  Seq(S) \subseteq I
<1> SUFFICES ASSUME NEW s \in Seq(S) PROVE s \in I
  OBVIOUS
<1>1. PICK n : n = Len(s)
  OBVIOUS
<1> DEFINE Reached == {k \in 0..n : SubSeq(s, 1, k) \in I}
<1>2. 0 \in Reached
  <2>1. SubSeq(s, 1, 0) = <<>>
    BY SubSeqEmpty
  <2>2. 0 \in 0..n
    BY <1>1
  <2> QED
    BY <2>1, <2>2
<1>3. ASSUME NEW k \in 1..n, k - 1 \in Reached PROVE k \in Reached
  <2>1. PICK t, u : t = SubSeq(s, 1, k - 1) /\ u = SubSeq(s, 1, k)
    OBVIOUS
  <2>2. t \in Seq(S) /\ s[k] \in S /\ u \in Seq(S)
    BY <1>1, <2>1
  <2>3. Append(t, s[k]) = u
    <3>1. Len(t) = k - 1 /\ Len(u) = k /\ \A i \in 1..(k - 1) : t[i] = s[i]
      BY <1>1, <2>1
    <3>2. \A i \in 1..k : u[i] = s[i]
      BY <1>1, <2>1
    <3>3. Append(t, s[k]) \in Seq(S) /\ Len(Append(t, s[k])) = k
      BY <2>2, <3>1
    <3>4. \A i \in 1..k : Append(t, s[k])[i] = u[i]
      BY <2>2, <3>1, <3>2
    <3> QED
      BY <2>2, <3>1, <3>3, <3>4, SeqEqual
  <2>4. t \in I
    BY <1>3, <2>1
  <2>5. u \in I
    BY <2>2, <2>3, <2>4
  <2>6. k \in 0..n
    BY <1>1
  <2> QED
    BY <2>1, <2>5, <2>6
<1>4. n \in Reached
  <2>1. n \in Nat /\ n \in 0..n
    BY <1>1
  <2>2. \A k \in 1..n : k - 1 \in Reached => k \in Reached
    BY <1>3
  <2> HIDE DEF Reached
  <2> QED
    BY <1>2, <2>1, <2>2, Climb
<1>5. SubSeq(s, 1, n) = s
  BY <1>1, SubSeqFull
<1> QED
  BY <1>4, <1>5

-----------------------------------------------------------------------------
(* The filter.                                                             *)
Filters(f, S, s, T) ==
    /\ f \in [0..Len(s) -> Seq(S)]
    /\ f[0] = <<>> /\ f[Len(s)] = Those(s, T)
    /\ \A i \in 1..Len(s) : f[i] = IF s[i] \in T THEN Append(f[i - 1], s[i]) ELSE f[i - 1]

LEMMA ThoseUnfolds ==
    ASSUME NEW S, NEW s \in Seq(S), NEW T
    PROVE  \E f : Filters(f, S, s, T)
<1>1. PICK n : n = Len(s)
  OBVIOUS
<1>2. n \in Nat /\ \A i \in 1..n : s[i] \in S
  BY <1>1
<1> DEFINE G == [i \in 1..n |-> [x \in Seq(S) |-> IF s[i] \in T THEN Append(x, s[i]) ELSE x]]
<1>3. G \in [1..n -> [Seq(S) -> Seq(S)]]
  BY <1>2
<1>4. <<>> \in Seq(S)
  OBVIOUS
<1>a. PICK f : Recurs(f, Seq(S), n, <<>>, G)
  <2> HIDE DEF G
  <2> QED
    BY <1>2, <1>3, <1>4, RecursionExists
<1>5. f \in [0..n -> Seq(S)] /\ f[0] = <<>> /\ \A i \in 1..n : f[i] = G[i][f[i - 1]]
  <2> HIDE DEF G
  <2> QED
    BY <1>a DEF Recurs
<1>6. \A i \in 1..n : f[i] = IF s[i] \in T THEN Append(f[i - 1], s[i]) ELSE f[i - 1]
  <2> SUFFICES ASSUME NEW i \in 1..n
               PROVE  f[i] = IF s[i] \in T THEN Append(f[i - 1], s[i]) ELSE f[i - 1]
    OBVIOUS
  <2>1. i - 1 \in 0..n
    BY <1>2
  <2>2. f[i - 1] \in Seq(S)
    BY <1>5, <2>1
  <2> QED
    BY <1>5, <2>2
<1> HIDE DEF G
<1>7. f = [i \in 0..n |-> IF i = 0 THEN <<>>
                          ELSE IF s[i] \in T THEN Append(f[i - 1], s[i]) ELSE f[i - 1]]
  <2>1. \A i \in 0..n : i = 0 \/ i \in 1..n
    BY <1>2
  <2> QED
    BY <1>5, <1>6, <2>1
<1>8. PICK those : those = CHOOSE g : g = [i \in 0..n |-> IF i = 0 THEN <<>>
                                      ELSE IF s[i] \in T THEN Append(g[i - 1], s[i]) ELSE g[i - 1]]
  OBVIOUS
<1>9. those = [i \in 0..n |-> IF i = 0 THEN <<>>
                  ELSE IF s[i] \in T THEN Append(those[i - 1], s[i]) ELSE those[i - 1]]
  BY <1>7, <1>8
<1>10. Those(s, T) = those[n]
  BY <1>1, <1>8 DEF Those
<1>11. those[0] = <<>> /\ \A i \in 1..n : those[i] = IF s[i] \in T THEN Append(those[i - 1], s[i]) ELSE those[i - 1]
  <2>1. 0 \in 0..n /\ \A i \in 1..n : i \in 0..n /\ i # 0
    BY <1>2
  <2> QED
    BY <1>9, <2>1
<1> DEFINE Same == {k \in 0..n : those[k] = f[k]}
<1>12. 0 \in Same
  BY <1>2, <1>5, <1>11
<1>13. \A k \in 1..n : k - 1 \in Same => k \in Same
  BY <1>6, <1>11
<1>14. n \in Same
  <2>1. n \in 0..n
    BY <1>2
  <2> HIDE DEF Same
  <2> QED
    BY <1>2, <1>12, <1>13, <2>1, Climb
<1>15. f[n] = Those(s, T)
  BY <1>10, <1>14
<1> QED
  BY <1>1, <1>5, <1>6, <1>15 DEF Filters

LEMMA ThoseTyped ==
    ASSUME NEW S, NEW s \in Seq(S), NEW T
    PROVE  Those(s, T) \in Seq(S)
<1>1. PICK f : f \in [0..Len(s) -> Seq(S)] /\ f[Len(s)] = Those(s, T)
  BY ThoseUnfolds DEF Filters
<1>2. Len(s) \in 0..Len(s)
  OBVIOUS
<1> QED
  BY <1>1, <1>2

LEMMA ThoseEmpty ==
    ASSUME NEW T
    PROVE  Those(<<>>, T) = <<>>
<1>1. <<>> \in Seq({}) /\ Len(<<>>) = 0
  OBVIOUS
<1>2. PICK f : Filters(f, {}, <<>>, T)
  BY <1>1, ThoseUnfolds
<1> QED
  BY <1>1, <1>2 DEF Filters

LEMMA ThoseAppend ==
    ASSUME NEW S, NEW s \in Seq(S), NEW x \in S, NEW T
    PROVE  Those(Append(s, x), T) = IF x \in T THEN Append(Those(s, T), x) ELSE Those(s, T)
<1>1. PICK n, t : n = Len(s) /\ t = Append(s, x)
  OBVIOUS
<1>2. n \in Nat /\ t \in Seq(S) /\ Len(t) = n + 1 /\ t[n + 1] = x /\ \A i \in 1..n : t[i] = s[i]
  BY <1>1
<1>3. PICK f : Filters(f, S, s, T)
  BY ThoseUnfolds
<1>4. PICK g : Filters(g, S, t, T)
  BY <1>2, ThoseUnfolds
<1> DEFINE Same == {k \in 0..n : f[k] = g[k]}
<1>5. 0 \in Same
  BY <1>2, <1>3, <1>4 DEF Filters
<1>6. ASSUME NEW k \in 1..n, k - 1 \in Same PROVE k \in Same
  <2>1. k \in 1..Len(s) /\ k \in 1..Len(t) /\ t[k] = s[k]
    BY <1>1, <1>2
  <2> QED
    BY <1>3, <1>4, <1>6, <2>1 DEF Filters
<1>7. n \in Same
  <2>1. \A k \in 1..n : k - 1 \in Same => k \in Same
    BY <1>6
  <2>2. n \in 0..n
    BY <1>2
  <2> HIDE DEF Same
  <2> QED
    BY <1>2, <1>5, <2>1, <2>2, Climb
<1>8. g[n] = Those(s, T)
  BY <1>1, <1>3, <1>7 DEF Filters
<1>9. g[n + 1] = IF x \in T THEN Append(g[n], x) ELSE g[n]
  <2>1. PICK k : k = n + 1
    OBVIOUS
  <2>2. k \in 1..Len(t) /\ k - 1 = n /\ t[k] = x
    BY <1>2, <2>1
  <2>3. g[k] = IF t[k] \in T THEN Append(g[k - 1], t[k]) ELSE g[k - 1]
    BY <1>4, <2>2 DEF Filters
  <2> QED
    BY <2>1, <2>2, <2>3
<1> QED
  BY <1>1, <1>2, <1>4, <1>8, <1>9 DEF Filters

LEMMA AppendConcat ==
    ASSUME NEW S, NEW s \in Seq(S), NEW t \in Seq(S), NEW x \in S
    PROVE  s \o Append(t, x) = Append(s \o t, x)
<1>1. PICK a, b : a = s \o Append(t, x) /\ b = Append(s \o t, x)
  OBVIOUS
<1>2. a \in Seq(S) /\ b \in Seq(S) /\ Len(a) = Len(s) + Len(t) + 1 /\ Len(b) = Len(s) + Len(t) + 1
  BY <1>1
<1>3. ASSUME NEW i \in 1..Len(a) PROVE a[i] = b[i]
  BY <1>1, <1>2
<1> QED
  BY <1>1, <1>2, <1>3, SeqEqual

LEMMA ThoseConcat ==
    ASSUME NEW S, NEW s \in Seq(S), NEW t \in Seq(S), NEW T
    PROVE  Those(s \o t, T) = Those(s, T) \o Those(t, T)
<1> DEFINE I == {u \in Seq(S) : Those(s \o u, T) = Those(s, T) \o Those(u, T)}
<1>1. <<>> \in I
  <2>1. s \o <<>> = s /\ Those(s, T) \o <<>> = Those(s, T) /\ <<>> \in Seq(S)
    BY ThoseTyped, ConcatEmptySeq
  <2> QED
    BY <2>1, ThoseEmpty
<1>2. ASSUME NEW u \in Seq(S), NEW x \in S, u \in I PROVE Append(u, x) \in I
  <2>1. PICK a, b, c, v : a = Those(s, T) /\ b = Those(u, T) /\ c = Those(s \o u, T) /\ v = Append(u, x)
    OBVIOUS
  <2>2. a \in Seq(S) /\ b \in Seq(S) /\ c = a \o b /\ v \in Seq(S) /\ s \o u \in Seq(S)
    BY <1>2, <2>1, ThoseTyped
  <2>3. s \o v = Append(s \o u, x)
    BY <2>1, AppendConcat
  <2>4. Those(s \o v, T) = IF x \in T THEN Append(c, x) ELSE c
    <3>1. PICK w \in Seq(S) : w = s \o u
      BY <2>2
    <3>2. Those(Append(w, x), T) = IF x \in T THEN Append(Those(w, T), x) ELSE Those(w, T)
      BY ThoseAppend
    <3> QED
      BY <2>1, <2>3, <3>1, <3>2
  <2>5. Those(v, T) = IF x \in T THEN Append(b, x) ELSE b
    BY <2>1, ThoseAppend
  <2>a. a \in Seq(S) /\ b \in Seq(S)
    BY <2>2
  <2>6. a \o Append(b, x) = Append(a \o b, x)
    BY <2>a, AppendConcat
  <2>7. Those(s \o v, T) = a \o Those(v, T)
    BY <2>2, <2>4, <2>5, <2>6
  <2> QED
    BY <2>1, <2>2, <2>7
<1>3. t \in I
  <2>1. \A u \in Seq(S), x \in S : u \in I => Append(u, x) \in I
    BY <1>2
  <2> HIDE DEF I
  <2> QED
    BY <1>1, <2>1, SeqClimb
<1> QED
  BY <1>3

LEMMA ThoseThose ==
    ASSUME NEW S, NEW s \in Seq(S), NEW A, NEW B
    PROVE  Those(Those(s, A), B) = Those(s, A \cap B)
<1> DEFINE I == {u \in Seq(S) : Those(Those(u, A), B) = Those(u, A \cap B)}
<1>1. <<>> \in I
  BY ThoseEmpty
<1>2. ASSUME NEW u \in Seq(S), NEW x \in S, u \in I PROVE Append(u, x) \in I
  <2>1. PICK a, v : a = Those(u, A) /\ v = Append(u, x)
    OBVIOUS
  <2>2. a \in Seq(S) /\ v \in Seq(S)
    BY <2>1, ThoseTyped
  <2>3. Those(v, A) = IF x \in A THEN Append(a, x) ELSE a
    BY <2>1, ThoseAppend
  <2>4. Those(v, A \cap B) = IF x \in A \cap B THEN Append(Those(u, A \cap B), x) ELSE Those(u, A \cap B)
    BY <2>1, ThoseAppend
  <2>5. Those(Append(a, x), B) = IF x \in B THEN Append(Those(a, B), x) ELSE Those(a, B)
    BY <2>2, ThoseAppend
  <2>6. Those(a, B) = Those(u, A \cap B)
    BY <1>2, <2>1
  <2>7. Those(Those(v, A), B) = Those(v, A \cap B)
    <3>1. CASE x \in A
      <4>1. Those(v, A) = Append(a, x)
        BY <2>3, <3>1
      <4>2. CASE x \in B
        BY <2>4, <2>5, <2>6, <3>1, <4>1, <4>2
      <4>3. CASE x \notin B
        BY <2>4, <2>5, <2>6, <4>1, <4>3
      <4> QED
        BY <4>2, <4>3
    <3>2. CASE x \notin A
      BY <2>3, <2>4, <2>6, <3>2
    <3> QED
      BY <3>1, <3>2
  <2> QED
    BY <2>1, <2>2, <2>7
<1>3. s \in I
  <2>1. \A u \in Seq(S), x \in S : u \in I => Append(u, x) \in I
    BY <1>2
  <2> HIDE DEF I
  <2> QED
    BY <1>1, <2>1, SeqClimb
<1> QED
  BY <1>3

(* Sets that agree on the elements of a sequence filter it alike. *)
LEMMA ThoseSame ==
    ASSUME NEW S, NEW s \in Seq(S), NEW A, NEW B, \A x \in S : x \in A <=> x \in B
    PROVE  Those(s, A) = Those(s, B)
<1> DEFINE I == {u \in Seq(S) : Those(u, A) = Those(u, B)}
<1>1. <<>> \in I
  BY ThoseEmpty
<1>2. ASSUME NEW u \in Seq(S), NEW x \in S, u \in I PROVE Append(u, x) \in I
  <2>1. /\ Those(Append(u, x), A) = IF x \in A THEN Append(Those(u, A), x) ELSE Those(u, A)
        /\ Those(Append(u, x), B) = IF x \in B THEN Append(Those(u, B), x) ELSE Those(u, B)
    BY ThoseAppend
  <2>2. x \in A <=> x \in B
    OBVIOUS
  <2> QED
    BY <1>2, <2>1, <2>2
<1>3. s \in I
  <2>1. \A u \in Seq(S), x \in S : u \in I => Append(u, x) \in I
    BY <1>2
  <2> HIDE DEF I
  <2> QED
    BY <1>1, <2>1, SeqClimb
<1> QED
  BY <1>3

LEMMA ThoseNone ==
    ASSUME NEW S, NEW s \in Seq(S), NEW A, \A x \in S : x \notin A
    PROVE  Those(s, A) = <<>>
<1> DEFINE I == {u \in Seq(S) : Those(u, A) = <<>>}
<1>1. <<>> \in I
  BY ThoseEmpty
<1>2. ASSUME NEW u \in Seq(S), NEW x \in S, u \in I PROVE Append(u, x) \in I
  <2>1. Those(Append(u, x), A) = IF x \in A THEN Append(Those(u, A), x) ELSE Those(u, A)
    BY ThoseAppend
  <2> QED
    BY <1>2, <2>1
<1>3. s \in I
  <2>1. \A u \in Seq(S), x \in S : u \in I => Append(u, x) \in I
    BY <1>2
  <2> HIDE DEF I
  <2> QED
    BY <1>1, <2>1, SeqClimb
<1> QED
  BY <1>3

(* What passes is in the set and was in the sequence. *)
LEMMA ThoseFrom ==
    ASSUME NEW S, NEW s \in Seq(S), NEW A
    PROVE  \A i \in DOMAIN Those(s, A) : Those(s, A)[i] \in A /\ \E j \in DOMAIN s : s[j] = Those(s, A)[i]
<1> DEFINE From(u) == \A i \in DOMAIN Those(u, A) :
                         Those(u, A)[i] \in A /\ \E j \in DOMAIN u : u[j] = Those(u, A)[i]
           I == {u \in Seq(S) : From(u)}
<1>1. <<>> \in I
  BY ThoseEmpty
<1>2. ASSUME NEW u \in Seq(S), NEW x \in S, u \in I PROVE Append(u, x) \in I
  <2>1. PICK a, v, n : a = Those(u, A) /\ v = Append(u, x) /\ n = Len(u)
    OBVIOUS
  <2>2. a \in Seq(S) /\ v \in Seq(S) /\ n \in Nat
    BY <2>1, ThoseTyped
  <2>3. DOMAIN v = 1..(n + 1) /\ v[n + 1] = x /\ DOMAIN u = 1..n /\ \A j \in 1..n : v[j] = u[j]
    BY <2>1
  <2>4. \A i \in DOMAIN a : a[i] \in A /\ \E j \in DOMAIN u : u[j] = a[i]
    BY <1>2, <2>1
  <2>5. \A i \in DOMAIN a : a[i] \in A /\ \E j \in DOMAIN v : v[j] = a[i]
    <3>1. \A j \in DOMAIN u : j \in DOMAIN v /\ v[j] = u[j]
      BY <2>2, <2>3
    <3> QED
      BY <2>4, <3>1
  <2>6. Those(v, A) = IF x \in A THEN Append(a, x) ELSE a
    BY <2>1, ThoseAppend
  <2>7. \A i \in DOMAIN Those(v, A) : Those(v, A)[i] \in A /\ \E j \in DOMAIN v : v[j] = Those(v, A)[i]
    <3>1. CASE x \notin A
      BY <2>5, <2>6, <3>1
    <3>2. CASE x \in A
      <4>1. PICK b, m : b = Append(a, x) /\ m = Len(a)
        OBVIOUS
      <4>2. m \in Nat /\ DOMAIN b = 1..(m + 1) /\ b[m + 1] = x /\ DOMAIN a = 1..m /\ \A i \in 1..m : b[i] = a[i]
        BY <2>2, <4>1
      <4>3. n + 1 \in DOMAIN v
        BY <2>2, <2>3
      <4>4. ASSUME NEW i \in 1..(m + 1) PROVE b[i] \in A /\ \E j \in DOMAIN v : v[j] = b[i]
        <5>1. CASE i = m + 1
          BY <2>3, <3>2, <4>2, <4>3, <5>1
        <5>2. CASE i # m + 1
          <6>1. i \in 1..m
            BY <4>2, <5>2
          <6> QED
            BY <2>5, <4>2, <6>1
        <5> QED
          BY <5>1, <5>2
      <4>5. Those(v, A) = b
        BY <2>6, <3>2, <4>1
      <4> QED
        BY <4>2, <4>4, <4>5
    <3> QED
      BY <3>1, <3>2
  <2> QED
    BY <2>1, <2>2, <2>7
<1>3. s \in I
  <2>1. \A u \in Seq(S), x \in S : u \in I => Append(u, x) \in I
    BY <1>2
  <2> HIDE DEF I
  <2> QED
    BY <1>1, <2>1, SeqClimb
<1> QED
  BY <1>3

(* A sum is the last of its partial sums. *)
Partial(f, s, n) ==
    /\ f \in [0..n -> Int] /\ f[0] = 0
    /\ \A i \in 1..n : f[i] = f[i - 1] + s[i]

LEMMA SumUnfolds ==
    ASSUME NEW n \in Nat, NEW s \in [1..n -> Int]
    PROVE  \E f : Partial(f, s, n) /\ SumOf(s) = f[n]
<1>1. s \in Seq(Int) /\ Len(s) = n
  OBVIOUS
<1> DEFINE G == [i \in 1..n |-> [x \in Int |-> x + s[i]]]
<1>2. G \in [1..n -> [Int -> Int]] /\ 0 \in Int
  OBVIOUS
<1>3. PICK f : Recurs(f, Int, n, 0, G)
  <2> HIDE DEF G
  <2> QED
    BY <1>2, RecursionExists
<1>4. f \in [0..n -> Int] /\ f[0] = 0 /\ \A i \in 1..n : f[i] = G[i][f[i - 1]]
  <2> HIDE DEF G
  <2> QED
    BY <1>3 DEF Recurs
<1>5. ASSUME NEW i \in 1..n PROVE f[i] = f[i - 1] + s[i]
  <2>1. i - 1 \in 0..n
    OBVIOUS
  <2>2. f[i - 1] \in Int
    BY <1>4, <2>1
  <2> QED
    BY <1>4, <2>2
<1> HIDE DEF G
<1>6. f = [i \in 0..n |-> IF i = 0 THEN 0 ELSE f[i - 1] + s[i]]
  <2>1. \A i \in 0..n : i = 0 \/ i \in 1..n
    OBVIOUS
  <2> QED
    BY <1>4, <1>5, <2>1
<1>7. PICK sum : sum = CHOOSE g : g = [i \in 0..n |-> IF i = 0 THEN 0 ELSE g[i - 1] + s[i]]
  OBVIOUS
<1>8. sum = [i \in 0..n |-> IF i = 0 THEN 0 ELSE sum[i - 1] + s[i]]
  BY <1>6, <1>7
<1>9. SumOf(s) = sum[n]
  BY <1>1, <1>7 DEF SumOf
<1> DEFINE Reached == {k \in 0..n : sum[k] = f[k]}
<1>10. 0 \in Reached
  BY <1>4, <1>8
<1>11. ASSUME NEW k \in 1..n, k - 1 \in Reached PROVE k \in Reached
  <2>1. k \in 0..n /\ k # 0 /\ sum[k - 1] = f[k - 1]
    BY <1>11
  <2>2. sum[k] = IF k = 0 THEN 0 ELSE sum[k - 1] + s[k]
    BY <1>8, <2>1
  <2> QED
    BY <1>5, <2>1, <2>2
<1>12. 0..n \subseteq Reached
  <2> HIDE DEF Reached
  <2> QED
    BY <1>10, <1>11, Climb
<1>13. sum[n] = f[n]
  BY <1>12
<1>14. Partial(f, s, n)
  BY <1>4, <1>5 DEF Partial
<1> QED
  BY <1>9, <1>13, <1>14

LEMMA SumTyped ==
    ASSUME NEW s \in Seq(Int)
    PROVE  SumOf(s) \in Int
<1>1. PICK n : n = Len(s)
  OBVIOUS
<1>2. n \in Nat /\ s \in [1..n -> Int]
  BY <1>1
<1>3. PICK f : Partial(f, s, n) /\ SumOf(s) = f[n]
  BY <1>2, SumUnfolds
<1> QED
  BY <1>2, <1>3 DEF Partial

-----------------------------------------------------------------------------
(* Histories.                                                              *)
LEMMA PaymentFields ==
    ASSUME NEW p \in Payment
    PROVE  p.at \in Nat /\ p.amount \in Nat /\ p.place \in Places /\ p.shop \in Places /\ p.signals \in Signals
  BY DEF Payment

LEMMA InOrderConcat ==
    ASSUME NEW a \in Seq(Payment), NEW b \in Seq(Payment), InOrder(a), InOrder(b),
           \A i \in DOMAIN a, j \in DOMAIN b : a[i].at <= b[j].at
    PROVE  InOrder(a \o b)
<1>1. PICK c, n, m : c = a \o b /\ n = Len(a) /\ m = Len(b)
  OBVIOUS
<1>2. n \in Nat /\ m \in Nat /\ DOMAIN a = 1..n /\ DOMAIN b = 1..m
  BY <1>1
<1>3. /\ DOMAIN c = 1..(n + m) /\ \A i \in 1..n : c[i] = a[i]
      /\ \A i \in 1..(n + m) : ~ (i <= n) => c[i] = b[i - n]
  BY <1>1
<1> SUFFICES ASSUME NEW i \in 1..(n + m), NEW j \in 1..(n + m), i < j PROVE c[i].at <= c[j].at
  BY <1>1, <1>3 DEF InOrder
<1>4. CASE j <= n
  <2>1. i \in 1..n /\ j \in 1..n
    BY <1>2, <1>4
  <2> QED
    BY <1>2, <1>3, <2>1 DEF InOrder
<1>5. CASE i <= n /\ ~ (j <= n)
  <2>1. i \in 1..n /\ j - n \in 1..m
    BY <1>2, <1>5
  <2>2. c[i] = a[i] /\ c[j] = b[j - n]
    BY <1>3, <1>5, <2>1
  <2> QED
    BY <1>2, <2>1, <2>2
<1>6. CASE ~ (i <= n)
  <2>1. i - n \in 1..m /\ j - n \in 1..m /\ i - n < j - n /\ ~ (j <= n)
    BY <1>2, <1>6
  <2>2. c[i] = b[i - n] /\ c[j] = b[j - n]
    BY <1>3, <1>6, <2>1
  <2>3. b[i - n].at <= b[j - n].at
    BY <1>2, <2>1 DEF InOrder
  <2> QED
    BY <2>2, <2>3
<1> QED
  BY <1>2, <1>4, <1>5, <1>6

LEMMA InOrderOne ==
    ASSUME NEW p \in Payment
    PROVE  <<p>> \in Seq(Payment) /\ InOrder(<<p>>) /\ DOMAIN <<p>> = {1} /\ <<p>>[1] = p
<1>1. <<p>> \in Seq(Payment) /\ DOMAIN <<p>> = {1} /\ <<p>>[1] = p
  OBVIOUS
<1>2. ASSUME NEW i \in {1}, NEW j \in {1} PROVE ~ (i < j)
  OBVIOUS
<1> QED
  BY <1>1, <1>2 DEF InOrder

LEMMA ThoseInOrder ==
    ASSUME NEW s \in Seq(Payment), InOrder(s), NEW A
    PROVE  InOrder(Those(s, A))
<1> DEFINE I == {u \in Seq(Payment) : InOrder(u) => InOrder(Those(u, A))}
<1>1. <<>> \in I
  <2>1. InOrder(<<>>)
    BY DEF InOrder
  <2> QED
    BY <2>1, ThoseEmpty
<1>2. ASSUME NEW u \in Seq(Payment), NEW x \in Payment, u \in I PROVE Append(u, x) \in I
  <2>1. PICK a, v, n : a = Those(u, A) /\ v = Append(u, x) /\ n = Len(u)
    OBVIOUS
  <2>2. /\ a \in Seq(Payment) /\ v \in Seq(Payment) /\ n \in Nat
        /\ DOMAIN u = 1..n /\ DOMAIN v = 1..(n + 1) /\ v[n + 1] = x /\ \A i \in 1..n : v[i] = u[i]
    BY <2>1, ThoseTyped
  <2>3. ASSUME InOrder(v) PROVE InOrder(Those(v, A))
    <3>1. \A i \in DOMAIN u : i \in DOMAIN v /\ n + 1 \in DOMAIN v /\ i < n + 1 /\ v[i] = u[i]
      BY <2>2
    <3>2. InOrder(u)
      BY <2>3, <3>1 DEF InOrder
    <3>3. \A i \in DOMAIN u : u[i].at <= x.at
      BY <2>2, <2>3, <3>1 DEF InOrder
    <3>4. InOrder(a)
      <4>1. InOrder(Those(u, A))
        BY <1>2, <3>2
      <4> QED
        BY <2>1, <4>1
    <3>5. \A i \in DOMAIN a : a[i].at <= x.at
      <4>1. \A i \in DOMAIN Those(u, A) : \E j \in DOMAIN u : u[j] = Those(u, A)[i]
        BY ThoseFrom
      <4> QED
        BY <2>1, <3>3, <4>1, Zenon
    <3>6. InOrder(a \o <<x>>)
      <4>1. a \in Seq(Payment) /\ <<x>> \in Seq(Payment)
        BY <2>2
      <4>2. \A i \in DOMAIN a, j \in DOMAIN <<x>> : a[i].at <= <<x>>[j].at
        BY <3>5
      <4>3. InOrder(<<x>>)
        BY InOrderOne
      <4> QED
        BY <3>4, <4>1, <4>2, <4>3, InOrderConcat
    <3>7. a \o <<x>> = Append(a, x)
      BY <2>2
    <3>8. Those(v, A) = IF x \in A THEN Append(a, x) ELSE a
      BY <2>1, ThoseAppend
    <3> QED
      BY <3>4, <3>6, <3>7, <3>8
  <2> QED
    BY <2>1, <2>2, <2>3
<1>3. s \in I
  <2>1. \A u \in Seq(Payment), x \in Payment : u \in I => Append(u, x) \in I
    BY <1>2
  <2> HIDE DEF I
  <2> QED
    BY <1>1, <2>1, SeqClimb
<1> QED
  BY <1>3

LEMMA HistoryKept ==
    ASSUME NEW h \in Seq(Payment), InOrder(h), NEW p \in Payment
    PROVE  AddTransaction(h, p) \in Seq(Payment) /\ InOrder(AddTransaction(h, p))
<1>1. PICK A, B, a, b : /\ A = {x \in Payment : x.at <= p.at} /\ B = {x \in Payment : x.at > p.at}
                        /\ a = Those(h, A) /\ b = Those(h, B)
  OBVIOUS
<1>2. a \in Seq(Payment) /\ b \in Seq(Payment) /\ InOrder(a) /\ InOrder(b)
  BY <1>1, ThoseTyped, ThoseInOrder
<1>3. AddTransaction(h, p) = (a \o <<p>>) \o b
  BY <1>1 DEF AddTransaction
<1>4. \A i \in DOMAIN a : a[i].at <= p.at
  BY <1>1, ThoseFrom
<1>5. \A j \in DOMAIN b : b[j] \in Payment /\ b[j].at > p.at
  BY <1>1, ThoseFrom
<1>6. PICK c : c = a \o <<p>>
  OBVIOUS
<1>7. c \in Seq(Payment) /\ InOrder(c)
  <2>1. a \o <<p>> \in Seq(Payment)
    BY <1>2, InOrderOne, ConcatProperties
  <2>2. InOrder(a \o <<p>>)
    BY <1>2, <1>4, InOrderOne, InOrderConcat
  <2> QED
    BY <1>6, <2>1, <2>2
<1>8. \A i \in DOMAIN c : c[i] \in Payment /\ c[i].at <= p.at
  <2>1. PICK n : n = Len(a)
    OBVIOUS
  <2>2. n \in Nat /\ DOMAIN a = 1..n /\ DOMAIN c = 1..(n + 1) /\ c[n + 1] = p /\ \A i \in 1..n : c[i] = a[i]
    BY <1>2, <1>6, <2>1
  <2>3. p.at <= p.at
    BY PaymentFields
  <2>4. \A i \in DOMAIN c : i = n + 1 \/ i \in 1..n
    BY <2>2
  <2>5. \A i \in DOMAIN c : c[i] \in Payment
    BY <1>7
  <2> QED
    BY <1>4, <2>2, <2>3, <2>4, <2>5
<1>9. \A i \in DOMAIN c, j \in DOMAIN b : c[i].at <= b[j].at
  <2> SUFFICES ASSUME NEW i \in DOMAIN c, NEW j \in DOMAIN b PROVE c[i].at <= b[j].at
    OBVIOUS
  <2>1. c[i].at \in Nat /\ b[j].at \in Nat /\ p.at \in Nat
    BY <1>5, <1>8, PaymentFields
  <2> QED
    BY <1>5, <1>8, <2>1
<1>10. c \o b \in Seq(Payment) /\ InOrder(c \o b)
  BY <1>2, <1>7, <1>9, InOrderConcat
<1> QED
  BY <1>3, <1>6, <1>10

(* What is recorded at a payment's time or later is not prior to it. *)
LEMMA PriorKept ==
    ASSUME NEW h \in Seq(Payment), NEW p \in Payment, NEW q \in Payment, q.at >= p.at
    PROVE  Prior(AddTransaction(h, q), p) = Prior(h, p)
<1>1. PICK A, B, C, a, b :
         /\ A = {x \in Payment : x.at <= q.at} /\ B = {x \in Payment : x.at > q.at}
         /\ C = {x \in Payment : x.at < p.at}
         /\ a = Those(h, A) /\ b = Those(h, B)
  OBVIOUS
<1>2. a \in Seq(Payment) /\ b \in Seq(Payment) /\ <<q>> \in Seq(Payment)
  BY <1>1, ThoseTyped
<1>3. AddTransaction(h, q) = (a \o <<q>>) \o b
  BY <1>1 DEF AddTransaction
<1>4. Those((a \o <<q>>) \o b, C) = Those(a \o <<q>>, C) \o Those(b, C)
  <2>1. PICK c \in Seq(Payment) : c = a \o <<q>>
    BY <1>2, ConcatProperties
  <2>2. PICK S : S = Payment
    OBVIOUS
  <2>3. Those(c \o b, C) = Those(c, C) \o Those(b, C)
    <3>1. c \in Seq(S) /\ b \in Seq(S)
      BY <1>2, <2>1, <2>2
    <3> QED
      BY <3>1, ThoseConcat, SMTT(30)
  <2> QED
    BY <2>1, <2>3
<1>5. Those(a \o <<q>>, C) = Those(a, C)
  <2>1. Append(a, q) = a \o <<q>>
    BY <1>2
  <2>2. q \notin C
    <3>1. ~ (q.at < p.at)
      BY PaymentFields
    <3> QED
      BY <1>1, <3>1
  <2>3. Those(Append(a, q), C) = Those(a, C)
    BY <1>2, <2>2, ThoseAppend
  <2> QED
    BY <2>1, <2>3
<1>6. Those(a, C) = Those(h, C)
  <2>1. Those(a, C) = Those(h, A \cap C)
    BY <1>1, ThoseThose
  <2>2. ASSUME NEW x \in Payment PROVE x \in A \cap C <=> x \in C
    <3>1. x.at < p.at => x.at <= q.at
      BY PaymentFields
    <3> QED
      BY <1>1, <3>1
  <2>3. Those(h, A \cap C) = Those(h, C)
    BY <2>2, ThoseSame
  <2> QED
    BY <2>1, <2>3
<1>7. Those(b, C) = <<>>
  <2>1. Those(b, C) = Those(h, B \cap C)
    BY <1>1, ThoseThose
  <2>2. ASSUME NEW x \in Payment PROVE x \notin B \cap C
    <3>1. ~ (x.at < p.at /\ x.at > q.at)
      BY PaymentFields
    <3> QED
      BY <1>1, <3>1
  <2>3. Those(h, B \cap C) = <<>>
    BY <2>2, ThoseNone
  <2> QED
    BY <2>1, <2>3
<1>8. Those(h, C) \o <<>> = Those(h, C)
  BY ThoseTyped, ConcatEmptySeq
<1>9. \A g : Prior(g, p) = Those(g, C)
  BY <1>1 DEF Prior
<1> QED
  BY <1>3, <1>4, <1>5, <1>6, <1>7, <1>8, <1>9

-----------------------------------------------------------------------------
(* Features.                                                               *)
LEMMA NatQuotient ==
    ASSUME NEW a \in Nat, NEW d \in Nat \ {0}
    PROVE  a \div d \in Nat
<1>1. PICK q, r : q = a \div d /\ r = a % d
  OBVIOUS
<1>2. q \in Int /\ r \in 0..(d - 1) /\ a = d * q + r
  BY <1>1, Quotient
<1>3. ASSUME q < 0 PROVE FALSE
  <2>1. q <= -1
    BY <1>2, <1>3
  <2>2. d * q <= d * (-1)
    BY <1>2, <2>1
  <2>3. d * (-1) = - d /\ d * q \in Int
    BY <1>2
  <2> QED
    BY <1>2, <2>2, <2>3
<1> QED
  BY <1>1, <1>2, <1>3

LEMMA AbsTyped ==
    ASSUME NEW x \in Int
    PROVE  Abs(x) \in Nat
  BY DEF Abs

LEMMA CentroidTyped ==
    ASSUME NEW h \in Seq(Payment)
    PROVE  Centroid(h).sum \in Int /\ Centroid(h).count \in Nat
<1>1. PICK A, l : A = {x \in Payment : Point(x) # Unknown} /\ l = Located(h)
  OBVIOUS
<1>2. l = Those(h, A)
  BY <1>1 DEF Located
<1>3. l \in Seq(Payment)
  BY <1>2, ThoseTyped
<1>4. PICK n : n = Len(l)
  OBVIOUS
<1>5. n \in Nat /\ DOMAIN l = 1..n
  BY <1>3, <1>4
<1>6. ASSUME NEW i \in 1..n PROVE Point(l[i]) \in Int
  <2>1. l[i] \in A
    BY <1>2, <1>5, ThoseFrom
  <2>2. l[i] \in Payment /\ Point(l[i]) # Unknown
    BY <1>1, <2>1
  <2>3. l[i].place \in Places /\ l[i].shop \in Places
    BY <2>2, PaymentFields
  <2> QED
    BY <2>2, <2>3 DEF Point, Places
<1>7. [i \in 1..n |-> Point(l[i])] \in Seq(Int)
  BY <1>5, <1>6
<1>8. Centroid(h) = [sum |-> SumOf([i \in 1..n |-> Point(l[i])]), count |-> n]
  BY <1>1, <1>4, <1>5 DEF Centroid
<1>9. SumOf([i \in 1..n |-> Point(l[i])]) \in Int
  BY <1>7, SumTyped
<1> QED
  BY <1>5, <1>8, <1>9

LEMMA DistanceTyped ==
    ASSUME NEW h \in Seq(Payment), NEW p \in Payment
    PROVE  DistanceFromHome(h, p) \in Nat
<1>1. PICK c, n, s, place, shop :
         c = Centroid(h) /\ n = c.count /\ s = c.sum /\ place = p.place /\ shop = p.shop
  OBVIOUS
<1>2. s \in Int /\ n \in Nat /\ place \in Places /\ shop \in Places
  BY <1>1, CentroidTyped, PaymentFields
<1>3. DistanceFromHome(h, p) = IF shop = Unknown THEN 0
                               ELSE IF n > 0 THEN DistanceTo(c, shop)
                               ELSE IF place # Unknown THEN Abs(place - shop) ELSE 0
  BY <1>1 DEF DistanceFromHome
<1>4. ASSUME shop # Unknown, n > 0 PROVE DistanceTo(c, shop) \in Nat
  <2>1. shop \in Int /\ n \in Nat \ {0}
    BY <1>2, <1>4 DEF Places
  <2>2. s - n * shop \in Int
    BY <1>2, <2>1
  <2>3. Abs(s - n * shop) \in Nat
    BY <2>2, AbsTyped
  <2>4. DistanceTo(c, shop) = Abs(s - n * shop) \div n
    BY <1>1 DEF DistanceTo
  <2> QED
    BY <2>1, <2>3, <2>4, NatQuotient
<1>5. ASSUME shop # Unknown, place # Unknown PROVE Abs(place - shop) \in Nat
  <2>1. PICK x : x = place - shop
    OBVIOUS
  <2>2. x \in Int
    BY <1>2, <1>5, <2>1 DEF Places
  <2> QED
    BY <2>1, <2>2, AbsTyped
<1> QED
  BY <1>2, <1>3, <1>4, <1>5

LEMMA VectorTyped ==
    ASSUME NEW h \in Seq(Payment), NEW p \in Payments
    PROVE  LET v == BuildFeatures(p, h)
           IN  /\ v.amountLog \in Nat /\ v.velocity \in Nat /\ v.signals \in Signals
               /\ v.hour \in Nat /\ v.weekend \in Nat /\ v.distance \in Nat
<1>1. p \in Payment /\ AmountLog[p.amount] \in Nat
  BY PipelineAssumption
<1>2. PICK v : v = BuildFeatures(p, h)
  OBVIOUS
<1>3. Prior(h, p) \in Seq(Payment)
  BY ThoseTyped DEF Prior
<1>4. Len(Within(h, p, 5)) \in Nat
  <2>1. Within(h, p, 5) \in Seq(Payment)
    BY <1>3, ThoseTyped DEF Within
  <2> QED
    BY <2>1
<1>5. DistanceFromHome(Prior(h, p), p) \in Nat
  BY <1>1, <1>3, DistanceTyped
<1>6. HourOf(p) \in Nat /\ Weekend(p) \in Nat
  <2>1. p.at \in Nat
    BY <1>1, PaymentFields
  <2> QED
    BY <2>1 DEF HourOf, Weekend, Hour, Day
<1>7. v = [amountLog |-> AmountLog[p.amount], velocity |-> Len(Within(h, p, 5)), signals |-> p.signals,
           hour |-> HourOf(p), weekend |-> Weekend(p), distance |-> DistanceFromHome(Prior(h, p), p)]
  BY <1>2 DEF BuildFeatures, ModelVector
<1>8. p.signals \in Signals
  BY <1>1, PaymentFields
<1> QED
  BY <1>1, <1>2, <1>4, <1>5, <1>6, <1>7, <1>8

LEMMA HeuristicTyped ==
    ASSUME NEW v, v.amountLog \in Nat, v.velocity \in Nat, v.signals \in Signals,
           v.hour \in Nat, v.weekend \in Nat, v.distance \in Nat
    PROVE  HeuristicRisk(v) \in 0..100
<1>1. PICK s, a, b, c, d, e, f, g, i : /\ s = v.signals /\ a = v.amountLog /\ b = s.mcc /\ c = v.velocity
                                       /\ d = s.travel /\ e = s.newDevice /\ f = v.hour /\ g = v.weekend
                                       /\ i = v.distance
  OBVIOUS
<1>2. PICK k, l : k = TrustRisk(s.device, 1200, 400) /\ l = TrustRisk(s.network, 1000, 300)
  OBVIOUS
<1>3. k \in Nat /\ l \in Nat
  BY <1>2 DEF TrustRisk
<1>4. b \in Nat /\ d \in Nat /\ e \in Nat
  BY <1>1 DEF Signals
<1>5. a \in Nat /\ c \in Nat /\ f \in Nat /\ g \in Nat /\ i \in Nat
  BY <1>1
<1>6. PICK t : t = 2 * a + 30 * b + 200 * c + 2000 * d + 1500 * e + 40 * f + 300 * g + i + k + l
  OBVIOUS
<1>7. t \in Nat
  BY <1>3, <1>4, <1>5, <1>6, SMT
<1>8. HeuristicRisk(v) = Min({100, Rounded(t, 100)})
  BY <1>1, <1>2, <1>6, SMT DEF HeuristicRisk
<1>9. PICK r, n : n = 100 /\ r = Rounded(t, n)
  OBVIOUS
<1>10. r \in Int /\ 0 <= r
  <2>1. PICK z : z = 0
    OBVIOUS
  <2>2. z \in Int /\ n \in Nat \ {0} /\ z * n = 0
    BY <1>9, <2>1
  <2>3. Rounded(z * n, n) = z
    BY <2>2, RoundedWhole
  <2>4. Rounded(z * n, n) <= r
    BY <1>7, <1>9, <2>2, RoundedMonotone
  <2>5. r \in Int
    BY <1>7, <1>9, <2>2, RoundedNear
  <2> QED
    BY <2>1, <2>3, <2>4, <2>5
<1>11. Min({n, r}) = IF n <= r THEN n ELSE r
  BY <1>9, <1>10, SmallerOfTwo
<1> QED
  BY <1>8, <1>9, <1>10, <1>11

-----------------------------------------------------------------------------
(* What is recorded later does not reach the vector.                       *)
Rich(a, b, c, d, e, f, g, h, i, j, k, l, m) ==
    [count1h |-> a, count24h |-> b, sum1h |-> c, sum24h |-> d, overMedian |-> e, newMerchant |-> f,
     daysSinceMerchant |-> g, distFromHome |-> h, distFromPrevious |-> i, sincePrevious |-> j,
     hour |-> k, night |-> l, hourDeviation |-> m]

LEMMA OverReset ==
    ASSUME NEW a, NEW b, NEW c, NEW d, NEW e, NEW f, NEW g, NEW h, NEW i, NEW j, NEW k, NEW l, NEW m, NEW z
    PROVE  [Rich(a, b, c, d, e, f, g, h, i, j, k, l, m) EXCEPT !.overMedian = z] = Rich(a, b, c, d, z, f, g, h, i, j, k, l, m)
  BY SMTT(60) DEF Rich

LEMMA HourReset ==
    ASSUME NEW a, NEW b, NEW c, NEW d, NEW e, NEW f, NEW g, NEW h, NEW i, NEW j, NEW k, NEW l, NEW m, NEW z
    PROVE  [Rich(a, b, c, d, e, f, g, h, i, j, k, l, m) EXCEPT !.hourDeviation = z] = Rich(a, b, c, d, e, f, g, h, i, j, k, l, z)
  BY SMTT(60) DEF Rich

LEMMA FeaturesKept ==
    ASSUME NEW a, NEW b, NEW c, NEW d, NEW e, NEW f, NEW g, NEW h, NEW i, NEW j, NEW k, NEW l, NEW m
    PROVE  Rich(a, b, c, d, e, f, g, h, i, j, k, l, m).hour = k /\ Rich(a, b, c, d, e, f, g, h, i, j, k, l, m).distFromHome = h
  BY SMTT(60) DEF Rich

Features(prior, p, over, deviation) ==
    LET latest == prior[Len(prior)]
        within(minutes) == Those(prior, {x \in Payment : p.at - x.at <= minutes})
        firstSeen == SelectInSeq(prior, LAMBDA x : x.merchant = p.merchant)
    IN  Rich(Len(within(Hour)), Len(within(Day)), SumOf(Amounts(within(Hour))), SumOf(Amounts(within(Day))),
             over, firstSeen = 0,
             IF firstSeen = 0 THEN 0 ELSE (p.at - prior[firstSeen].at) \div Day,
             DistanceFromHome(prior, p),
             IF prior # <<>> /\ Point(p) # Unknown /\ Point(latest) # Unknown
             THEN Abs(Point(p) - Point(latest)) ELSE 0,
             IF prior # <<>> THEN p.at - latest.at ELSE 0,
             HourOf(p), HourOf(p) <= 5, deviation)

LEMMA BothReset ==
    ASSUME NEW r, NEW z
    PROVE  [r EXCEPT !.overMedian = z, !.hourDeviation = z]
           = [[r EXCEPT !.overMedian = z] EXCEPT !.hourDeviation = z]
  OBVIOUS

LEMMA FeaturesFromPrior ==
    ASSUME NEW p, NEW h, NEW m
    PROVE  /\ [ComputeFeatures16(p, h, m) EXCEPT !.overMedian = 0, !.hourDeviation = 0]
                 = Features(Prior(h, p), p, 0, 0)
           /\ ComputeFeatures16(p, h, m).hour = HourOf(p)
           /\ ComputeFeatures16(p, h, m).distFromHome = DistanceFromHome(Prior(h, p), p)
<1>1. PICK over, dev :
         /\ over = IF m.doubleMedian = 0 THEN 0 ELSE (200 * p.amount) \div m.doubleMedian
         /\ dev = IF m.hourMode < 0 THEN 0
                  ELSE Min({Abs(HourOf(p) - m.hourMode), 24 - Abs(HourOf(p) - m.hourMode)})
  OBVIOUS
<1>2. ComputeFeatures16(p, h, m) = Features(Prior(h, p), p, over, dev)
  BY <1>1, Zenon DEF ComputeFeatures16, Features, Rich, Within
<1>3. PICK a, b, c, d, f, g, i, j, k, l, n :
         /\ i = DistanceFromHome(Prior(h, p), p) /\ l = HourOf(p)
         /\ \A y, z : Features(Prior(h, p), p, y, z) = Rich(a, b, c, d, y, f, g, i, j, k, l, n, z)
  BY Zenon DEF Features
<1>4. /\ [Features(Prior(h, p), p, over, dev) EXCEPT !.overMedian = 0] = Features(Prior(h, p), p, 0, dev)
      /\ [Features(Prior(h, p), p, 0, dev) EXCEPT !.hourDeviation = 0] = Features(Prior(h, p), p, 0, 0)
  BY <1>3, OverReset, HourReset
<1>5. /\ Features(Prior(h, p), p, over, dev).hour = HourOf(p)
      /\ Features(Prior(h, p), p, over, dev).distFromHome = DistanceFromHome(Prior(h, p), p)
  BY <1>3, FeaturesKept
<1>6. [Features(Prior(h, p), p, over, dev) EXCEPT !.overMedian = 0, !.hourDeviation = 0]
      = [[Features(Prior(h, p), p, over, dev) EXCEPT !.overMedian = 0] EXCEPT !.hourDeviation = 0]
  BY BothReset
<1> QED
  BY <1>2, <1>3, <1>4, <1>5, <1>6, Zenon

LEMMA ModesAlike ==
    ASSUME NEW p, NEW h, NEW m
    PROVE  BuildFeatures(p, h) = MapToModel(ComputeFeatures16(p, h, m), p, h)
  BY FeaturesFromPrior DEF BuildFeatures, MapToModel

-----------------------------------------------------------------------------
VectorOK(v) ==
    /\ v.amountLog \in Nat /\ v.velocity \in Nat /\ v.signals \in Signals
    /\ v.hour \in Nat /\ v.weekend \in Nat /\ v.distance \in Nat

(* The features built and those a client sends have the same fields.       *)
LEMMA AnyVector ==
    ASSUME NEW h \in Seq(Payment), NEW p \in Payments,
           NEW v \in {BuildFeatures(p, h)} \cup ClientVectors[p]
    PROVE  VectorOK(v)
<1>1. CASE v = BuildFeatures(p, h)
  BY <1>1, VectorTyped DEF VectorOK
<1>2. CASE v \in ClientVectors[p]
  <2>1. v \in Vector
    BY <1>2, PipelineAssumption
  <2> QED
    BY <2>1 DEF Vector, VectorOK
<1> QED
  BY <1>1, <1>2

(* What was scored: against the history as it was, in which the payment    *)
(* has since taken its place.                                              *)
Scored(answer, h) ==
    /\ answer.payment \in Payments
    /\ answer.before \in Seq(Payment)
    /\ VectorOK(answer.vector)
    /\ answer.counts \in SUBSET Nat
    /\ h = AddTransaction(answer.before, answer.payment)
    /\ answer.raw[1].score \in 0..100 /\ answer.raw[2].score \in 0..100 /\ answer.raw[3].score \in 0..100

FeaturesInv ==
    /\ PipelineInv
    /\ history \in Seq(Payment) /\ InOrder(history)
    /\ last # Unset => Scored(last, history)

LEMMA AnswersBounded ==
    ASSUME NEW v, HeuristicRisk(v) \in 0..100, NEW raw \in Answers(v)
    PROVE  raw[1].score \in 0..100 /\ raw[2].score \in 0..100 /\ raw[3].score \in 0..100
<1>1. PICK z, A, B, C : /\ z = HeuristicRisk(v) /\ A = Answer(Percents, z) /\ B = Answer(Percents, 0)
                        /\ C = Answer(Risks, 0)
  OBVIOUS
<1>2. raw \in A \X B \X C
  BY <1>1 DEF Answers
<1>3. raw[1] \in A /\ raw[2] \in B /\ raw[3] \in C
  BY <1>2
<1>4. Percents \subseteq 0..100 /\ Risks \subseteq 0..100
  BY PipelineAssumption
<1>5. ASSUME NEW S \in SUBSET (0..100), NEW y \in 0..100, NEW a \in Answer(S, y) PROVE a.score \in 0..100
  BY <1>5 DEF Answer
<1>6. z \in 0..100 /\ 0 \in 0..100
  BY <1>1
<1> QED
  BY <1>1, <1>3, <1>4, <1>5, <1>6

LEMMA ResponseBounded ==
    ASSUME NEW kind \in Kinds, NEW labels, NEW raw,
           raw[1].score \in 0..100, raw[2].score \in 0..100
    PROVE  Response(kind, labels, raw).fraud \in 0..100 /\ Response(kind, labels, raw).anomaly \in AnomalyRange
<1>1. PICK add, f, d, s, t :
         /\ add = FeedbackAdjustment(labels).add /\ f = FeedbackAdjustment(labels).factor
         /\ d = DriftAdjustment(kind, RecentBenign(labels)).factor
         /\ s = raw[1].score /\ t = raw[2].score
  OBVIOUS
<1>2. add \in {0, 10} /\ f \in {7, 10} /\ d \in {6, 10, 12} /\ s \in 0..100 /\ t \in 0..100
  BY <1>1, Adjustments
<1>3. PICK x, y : x = Response(kind, labels, raw).fraud /\ y = Response(kind, labels, raw).anomaly
  OBVIOUS
<1>4. x = Min({100, s + add}) /\ y = Min({10000, t * f * d})
  BY <1>1, <1>3, ResponseUnfolds DEF FraudOf, AnomalyOf, AdjustedFraud, AdjustedAnomaly
<1>5. s + add \in Nat /\ t * f * d \in Nat
  <2>1. t * f \in Nat
    BY <1>2
  <2> QED
    BY <1>2, <2>1
<1>6. PICK a, b : a = s + add /\ b = t * f * d
  OBVIOUS
<1>7. x = (IF 100 <= a THEN 100 ELSE a) /\ y = (IF 10000 <= b THEN 10000 ELSE b)
  BY <1>4, <1>5, <1>6, SmallerOfTwo
<1>8. a \in Nat /\ b \in Nat
  BY <1>5, <1>6
<1>9. x \in 0..100
  BY <1>7, <1>8
<1>10. y \in AnomalyRange
  BY <1>7, <1>8, SMTT(30) DEF AnomalyRange
<1> QED
  BY <1>3, <1>9, <1>10, Zenon

LEMMA FeaturesStart ==
    ASSUME ProfileInit
    PROVE  FeaturesInv
  BY PipelineStarts, PipelineAssumption DEF ProfileInit, FeaturesInv

LEMMA FeaturesStep ==
    ASSUME FeaturesInv, ProfileNext
    PROVE  FeaturesInv'
<1>1. PipelineInv'
  BY PipelineStep DEF FeaturesInv
<1>2. CASE \E p \in Payments : Score(p)
  <2>1. PICK p \in Payments : Score(p)
    BY <1>2
  <2>2. PICK kind : kind = DetectDrift(history)
    OBVIOUS
  <2>9. PICK vector \in {BuildFeatures(p, history)} \cup ClientVectors[p] :
           \E raw \in Answers(vector), counts \in Findings :
              last' = [payment |-> p, vector |-> vector, raw |-> raw, counts |-> counts,
                       before |-> history, drift |-> kind, labels |-> verdicts,
                       response |-> Response(kind, verdicts, raw)]
    BY <2>1, <2>2 DEF Score
  <2>3. PICK raw \in Answers(vector), counts \in Findings :
           last' = [payment |-> p, vector |-> vector, raw |-> raw, counts |-> counts,
                    before |-> history, drift |-> kind, labels |-> verdicts,
                    response |-> Response(kind, verdicts, raw)]
    BY <2>9
  <2>10. counts \in SUBSET Nat
    BY <2>3, PipelineAssumption
  <2>4. history \in Seq(Payment) /\ InOrder(history) /\ p \in Payment
    BY PipelineAssumption DEF FeaturesInv
  <2>5. history' = AddTransaction(history, p)
    BY <2>1 DEF Score
  <2>11. VectorOK(vector)
    BY <2>4, AnyVector
  <2>6. HeuristicRisk(vector) \in 0..100
    BY <2>11, HeuristicTyped DEF VectorOK
  <2>7. raw[1].score \in 0..100 /\ raw[2].score \in 0..100 /\ raw[3].score \in 0..100
    BY <2>6, AnswersBounded
  <2>8. Scored(last', history')
    BY <2>3, <2>4, <2>5, <2>7, <2>10, <2>11 DEF Scored
  <2> QED
    BY <1>1, <2>4, <2>5, <2>8, HistoryKept DEF FeaturesInv
<1>3. CASE \E label \in Verdicts : SubmitFeedback(label)
  BY <1>1, <1>3 DEF SubmitFeedback, FeaturesInv
<1> QED
  BY <1>2, <1>3 DEF ProfileNext

-----------------------------------------------------------------------------
LEMMA ProfileTyped ==
    ASSUME FeaturesInv
    PROVE  ProfileTypeOK
<1>1. history \in Seq(Payment) /\ InOrder(history) /\ verdicts \in Seq(Labels)
  BY DEF FeaturesInv, PipelineInv
<1>2. ASSUME last # Unset
      PROVE  /\ last.response.score \in 0..100 /\ last.response.fraud \in 0..100
             /\ last.response.anomaly \in AnomalyRange /\ last.response.decision \in Decisions
  <2>1. PICK k, l, raw, r : k = last.drift /\ l = last.labels /\ raw = last.raw /\ r = last.response
    OBVIOUS
  <2>2. k \in Kinds /\ RawOK(raw) /\ r = Response(k, l, raw)
    BY <1>2, <2>1 DEF FeaturesInv, PipelineInv, Weighed
  <2>3. raw[1].score \in 0..100 /\ raw[2].score \in 0..100
    BY <1>2, <2>1 DEF FeaturesInv, Scored
  <2>4. r.fraud \in 0..100 /\ r.anomaly \in AnomalyRange
    BY <2>2, <2>3, ResponseBounded, Zenon
  <2>5. PICK axes, s, d, x, y : /\ axes = AxesOf(k, l, raw) /\ s = r.score /\ d = r.decision
                                /\ x = r.fraud /\ y = r.anomaly
    OBVIOUS
  <2>6. s = FuseRisk(axes) /\ d = DocDecision(Selected(DecisionRequest(s)), x, y)
    BY <2>2, <2>5, ResponseUnfolds
  <2>7. \A i \in 1..3 : AxisOK(axes[i])
    BY <2>2, <2>5, AdjustedScores
  <2>8. s \in 0..100
    BY <2>6, <2>7, FuseBounded
  <2>9. d = "PASS" \/ d = "REVIEW_UNUSUAL" \/ d \in {"BLOCK", "REVIEW_STEALTH"}
    BY <2>6, <2>8, DecisionShape
  <2>10. d \in Decisions
    BY <2>9 DEF Decisions
  <2> QED
    BY <2>1, <2>4, <2>5, <2>8, <2>10, Zenon
<1> QED
  BY <1>1, <1>2, Zenon DEF ProfileTypeOK

LEMMA CausalHolds ==
    ASSUME FeaturesInv
    PROVE  VectorCausal
<1>1. PICK p, g : p = last.payment /\ g = last.before
  OBVIOUS
<1> DEFINE rich(h) == [ComputeFeatures16(p, h, MetricsFor(p, h)) EXCEPT !.overMedian = 0, !.hourDeviation = 0]
<1>2. \A h : rich(h) = Features(Prior(h, p), p, 0, 0)
  BY FeaturesFromPrior
<1> HIDE DEF rich
<1>3. ASSUME last # Unset, NEW q \in Payments, q.at >= p.at
      PROVE  /\ BuildFeatures(p, AddTransaction(history, q)) = BuildFeatures(p, g)
             /\ rich(AddTransaction(history, q)) = rich(g)
  <2>1. p \in Payment /\ q \in Payment /\ g \in Seq(Payment) /\ history \in Seq(Payment)
    BY <1>1, <1>3, PipelineAssumption DEF FeaturesInv, Scored
  <2>2. history = AddTransaction(g, p)
    BY <1>1, <1>3 DEF FeaturesInv, Scored
  <2>3. p.at >= p.at
    BY <2>1, PaymentFields
  <2>4. Prior(history, p) = Prior(g, p)
    BY <2>1, <2>2, <2>3, PriorKept
  <2>5. Prior(AddTransaction(history, q), p) = Prior(history, p)
    BY <1>3, <2>1, PriorKept
  <2>6. PICK h : h = AddTransaction(history, q)
    OBVIOUS
  <2>7. Prior(h, p) = Prior(g, p)
    BY <2>4, <2>5, <2>6
  <2>8. Within(h, p, 5) = Within(g, p, 5)
    BY <2>7 DEF Within
  <2>9. BuildFeatures(p, h) = BuildFeatures(p, g)
    BY <2>7, <2>8 DEF BuildFeatures
  <2>10. rich(h) = rich(g)
    BY <1>2, <2>7
  <2> QED
    BY <2>6, <2>9, <2>10
<1> USE DEF rich
<1> QED
  BY <1>1, <1>3, Zenon DEF VectorCausal, Responded

LEMMA ModesHold == ModesAgree
  BY ModesAlike DEF ModesAgree

(* Rows that are alike in both modes compare level. *)
LEMMA LevelRows ==
    ASSUME NEW rows, \A i \in DOMAIN rows : rows[i].basic = rows[i].rich /\ rows[i].equal, NEW fraud
    PROVE  LET c == Compare(rows, fraud)
           IN  /\ c.differ = 0 /\ c.mismatches = 0
               /\ c.falsePositives.basic = c.falsePositives.rich /\ c.caught.basic = c.caught.rich
<1>1. PICK A, L : /\ A = {i \in DOMAIN rows : rows[i].basic >= ReferenceThreshold}
                  /\ L = DOMAIN rows \ fraud
  OBVIOUS
<1>2. A = {i \in DOMAIN rows : rows[i].rich >= ReferenceThreshold}
  BY <1>1
<1>3. PICK flagged : flagged = [basic |-> A, rich |-> A]
  OBVIOUS
<1>4. flagged.basic = A /\ flagged.rich = A /\ DOMAIN flagged = {"basic", "rich"}
      /\ flagged["basic"] = A /\ flagged["rich"] = A
  BY <1>3
<1>5. PICK c : c = Compare(rows, fraud)
  OBVIOUS
<1>6. c = [falsePositives |-> [m \in DOMAIN flagged |-> Cardinality(flagged[m] \cap L)],
           caught |-> [m \in DOMAIN flagged |-> Cardinality(flagged[m] \cap fraud)],
           differ |-> Cardinality((flagged.basic \cup flagged.rich) \ (flagged.basic \cap flagged.rich)),
           mismatches |-> Cardinality({i \in DOMAIN rows : ~ rows[i].equal})]
  BY <1>1, <1>2, <1>3, <1>5, Zenon DEF Compare
<1>7. /\ (flagged.basic \cup flagged.rich) \ (flagged.basic \cap flagged.rich) = {}
      /\ {i \in DOMAIN rows : ~ rows[i].equal} = {}
  BY <1>4
<1>8. Cardinality({}) = 0
  BY FS_EmptySet
<1>9. c.differ = 0 /\ c.mismatches = 0
  BY <1>6, <1>7, <1>8
<1>10. c.falsePositives.basic = c.falsePositives.rich /\ c.caught.basic = c.caught.rich
  <2>1. PICK u, v : /\ u = [m \in DOMAIN flagged |-> Cardinality(flagged[m] \cap L)]
                    /\ v = [m \in DOMAIN flagged |-> Cardinality(flagged[m] \cap fraud)]
    OBVIOUS
  <2>2. u.basic = u.rich /\ v.basic = v.rich
    BY <1>4, <2>1
  <2> QED
    BY <1>6, <2>1, <2>2
<1> QED
  BY <1>5, <1>9, <1>10

LEMMA LevelHolds == ComparisonLevel
<1>1. PICK rows : rows = TimelineRows(history)
  OBVIOUS
<1>2. ASSUME NEW i \in DOMAIN rows PROVE rows[i].basic = rows[i].rich /\ rows[i].equal
  <2>1. PICK p, b : p = history[i] /\ b = SubSeq(history, 1, i - 1)
    OBVIOUS
  <2>2. rows[i] = TimelineRow(p, b)
    BY <1>1, <2>1 DEF TimelineRows
  <2>3. BuildFeatures(p, b) = MapToModel(ComputeFeatures16(p, b, Metrics(b)), p, b)
    BY ModesAlike
  <2>4. PICK v : v = BuildFeatures(p, b)
    OBVIOUS
  <2>5. TimelineRow(p, b) = [basic |-> ReferenceRisk(v), rich |-> ReferenceRisk(v), equal |-> v = v]
    BY <2>3, <2>4, Zenon DEF TimelineRow
  <2>6. PICK w : w = TimelineRow(p, b)
    OBVIOUS
  <2>7. w.basic = w.rich
    BY <2>5, <2>6
  <2>8. w.equal = (v = v)
    BY <2>5, <2>6, SMT
  <2> QED
    BY <2>2, <2>6, <2>7, <2>8
<1> QED
  BY <1>1, <1>2, LevelRows DEF ComparisonLevel

LEMMA FeaturesInvariance == ProfileSpec => []FeaturesInv
<1>1. ProfileInit => FeaturesInv
  BY FeaturesStart
<1>2. FeaturesInv /\ [ProfileNext]_profile => FeaturesInv'
  <2> SUFFICES ASSUME FeaturesInv, [ProfileNext]_profile PROVE FeaturesInv'
    OBVIOUS
  <2>1. CASE ProfileNext
    BY <2>1, FeaturesStep
  <2>2. CASE UNCHANGED profile
    BY <2>2 DEF profile, FeaturesInv, PipelineInv, Weighed, Scored
  <2> QED
    BY <2>1, <2>2
<1> QED
  BY <1>1, <1>2, PTL DEF ProfileSpec

(* Payments recorded in any order leave the history in order, and neither  *)
(* what is recorded later nor the mode changes what a model is given.      *)
THEOREM FeaturesCorrect == ProfileSpec => []FeaturesSound
<1>1. FeaturesInv => FeaturesSound
  BY ProfileTyped, CausalHolds, ModesHold, LevelHolds DEF FeaturesSound
<1> QED
  BY <1>1, FeaturesInvariance, PTL

-----------------------------------------------------------------------------
(* The report.                                                             *)

(* What a response says, by its score. *)
Frozen(x, y) == x >= 50 /\ y < 5000
VerdictOf(s, x, y) ==
    IF s <= 25 THEN "PASS" ELSE IF s <= 50 THEN "REVIEW_UNUSUAL"
    ELSE IF Frozen(x, y) THEN "REVIEW_STEALTH" ELSE "BLOCK"

LEMMA ResponseShape ==
    ASSUME FeaturesInv, last # Unset, NEW r, r = last.response
    PROVE  /\ r.score \in 0..100 /\ r.fraud \in 0..100 /\ r.anomaly \in AnomalyRange
           /\ r.decision = VerdictOf(r.score, r.fraud, r.anomaly)
<1>1. r.score \in 0..100 /\ r.fraud \in 0..100 /\ r.anomaly \in AnomalyRange
  BY ProfileTyped DEF ProfileTypeOK
<1>2. r = Response(last.drift, last.labels, last.raw)
  BY DEF FeaturesInv, PipelineInv, Weighed
<1>3. r.decision = DocDecision(Selected(DecisionRequest(r.score)), r.fraud, r.anomaly)
  BY <1>2, ResponseUnfolds
<1>4. PICK s, d, x, y : s = r.score /\ d = r.decision /\ x = r.fraud /\ y = r.anomaly
  OBVIOUS
<1>5. s \in 0..100 /\ d = DocDecision(Selected(DecisionRequest(s)), x, y)
  BY <1>1, <1>3, <1>4
<1>6. s <= 25 => s <= 50
  BY <1>5
<1>7. d = VerdictOf(s, x, y)
  BY <1>5, <1>6, DecisionShape DEF VerdictOf, Frozen
<1> QED
  BY <1>1, <1>4, <1>7, Zenon

LEMMA ActionHolds ==
    ASSUME FeaturesInv
    PROVE  ActionFollowsLevel
<1> SUFFICES ASSUME last # Unset
             PROVE  LET tier == TierForScore(last.response.score)
                        action == VerificationAction(last.response.decision, tier)
                    IN  /\ action = "require biometric" <=> RiskLevel(tier) = "HIGH"
                        /\ action = "hold and ask" <=> RiskLevel(tier) = "MODERATE"
                        /\ action = "none" <=> RiskLevel(tier) = "LOW"
  BY DEF ActionFollowsLevel, Responded
<1>1. PICK r, s, d, tier, action :
         /\ r = last.response /\ s = r.score /\ d = r.decision
         /\ tier = TierForScore(s) /\ action = VerificationAction(d, tier)
  OBVIOUS
<1>2. /\ s \in 0..100
      /\ s <= 25 => d = "PASS"
      /\ ~ (s <= 25) /\ s <= 50 => d = "REVIEW_UNUSUAL"
      /\ ~ (s <= 50) => d \in {"BLOCK", "REVIEW_STEALTH"}
  <2>1. s \in 0..100 /\ d = VerdictOf(s, r.fraud, r.anomaly)
    BY <1>1, ResponseShape, Zenon
  <2> QED
    BY <2>1 DEF VerdictOf
<1>3. CASE s <= 25
  <2>1. tier \in {"NO_RISK", "LOW"} /\ d = "PASS"
    BY <1>1, <1>2, <1>3 DEF TierForScore
  <2>2. action = "none" /\ RiskLevel(tier) = "LOW"
    BY <1>1, <2>1 DEF VerificationAction, RiskLevel
  <2> QED
    BY <1>1, <2>2
<1>4. CASE ~ (s <= 25) /\ s <= 50
  <2>1. tier = "MODERATE" /\ d = "REVIEW_UNUSUAL"
    BY <1>1, <1>2, <1>4 DEF TierForScore
  <2>2. action = "hold and ask" /\ RiskLevel(tier) = "MODERATE"
    BY <1>1, <2>1 DEF VerificationAction, RiskLevel
  <2> QED
    BY <1>1, <2>2
<1>5. CASE ~ (s <= 50)
  <2>1. tier = "HIGH" /\ d \in {"BLOCK", "REVIEW_STEALTH"}
    BY <1>1, <1>2, <1>5 DEF TierForScore
  <2>2. action = "require biometric" /\ RiskLevel(tier) = "HIGH"
    BY <1>1, <2>1 DEF VerificationAction, RiskLevel
  <2> QED
    BY <1>1, <2>2
<1> QED
  BY <1>2, <1>3, <1>4, <1>5

Unusual(y) == y >= 100 * PatternThreshold
Known(x) == x >= PatternThreshold

LEMMA PatternHolds ==
    ASSUME FeaturesInv
    PROVE  PatternFitsVerdict
<1> SUFFICES ASSUME last # Unset
             PROVE  LET r == last.response
                        pattern == ReportedPattern(last)
                    IN  /\ r.decision = "REVIEW_STEALTH" => pattern \notin {"unusual", "unusual and known"}
                        /\ r.decision = "BLOCK" /\ pattern = "stealth" =>
                              r.anomaly \in (100 * AnomalyQuadrant)..(100 * PatternThreshold - 1)
  BY DEF PatternFitsVerdict, Responded
<1>1. PICK r, s, d, x, y, pattern :
         /\ r = last.response /\ s = r.score /\ d = r.decision /\ x = r.fraud /\ y = r.anomaly
         /\ pattern = ReportedPattern(last)
  OBVIOUS
<1>2. s \in 0..100 /\ x \in 0..100 /\ y \in AnomalyRange /\ d = VerdictOf(s, x, y)
  BY <1>1, ResponseShape, Zenon
<1>3. y \in Int /\ x \in Int
  BY <1>2 DEF AnomalyRange
<1>4. pattern = "network" \/ pattern = PatternMatch(x, y)
  BY <1>1 DEF ReportedPattern
<1>5. PatternMatch(x, y) = IF Unusual(y) THEN IF Known(x) THEN "unusual and known" ELSE "unusual"
                           ELSE IF Known(x) THEN "stealth" ELSE "none"
  BY Zenon DEF PatternMatch, Unusual, Known
<1>6. Frozen(x, y) => ~ Unusual(y)
  BY <1>3, SMT DEF Frozen, Unusual, PatternThreshold
<1>7. d = "REVIEW_STEALTH" => Frozen(x, y)
  BY <1>2, Zenon DEF VerdictOf
<1>8. d = "REVIEW_STEALTH" => pattern \notin {"unusual", "unusual and known"}
  BY <1>4, <1>5, <1>6, <1>7, Zenon
<1>9. pattern = "stealth" => Known(x) /\ ~ Unusual(y)
  BY <1>4, <1>5, Zenon
<1>10. d = "BLOCK" => ~ Frozen(x, y)
  BY <1>2, Zenon DEF VerdictOf
<1>11. ~ Frozen(x, y) /\ Known(x) /\ ~ Unusual(y) =>
          y \in (100 * AnomalyQuadrant)..(100 * PatternThreshold - 1)
  BY <1>3, SMT DEF Frozen, Known, Unusual, PatternThreshold, AnomalyQuadrant
<1> QED
  BY <1>1, <1>8, <1>9, <1>10, <1>11, Zenon

(* Nothing adjusted: the figures are those the models answered. *)
LEMMA NothingAdjusted ==
    ASSUME FeaturesInv, last # Unset, last.response.effects = {}
    PROVE  /\ AdjustmentFigures(last) = {}
           /\ last.response.fraud = last.raw[1].score /\ last.response.anomaly = 100 * last.raw[2].score
<1>1. PICK k, l, raw, r : k = last.drift /\ l = last.labels /\ raw = last.raw /\ r = last.response
  OBVIOUS
<1>2. k \in Kinds /\ r = Response(k, l, raw)
  BY <1>1 DEF FeaturesInv, PipelineInv, Weighed
<1>3. raw[1].score \in 0..100 /\ raw[2].score \in 0..100
  BY <1>1 DEF FeaturesInv, Scored
<1>4. PICK f, d : f = FeedbackAdjustment(l) /\ d = DriftAdjustment(k, RecentBenign(l))
  OBVIOUS
<1>5. r.effects = {f.effect, d.effect} \ {"no_adjustment", "none"}
  BY <1>2, <1>4, ResponseUnfolds
<1>6. f.effect \in {"no_adjustment", "none"} /\ d.effect \in {"no_adjustment", "none"}
  BY <1>1, <1>5
<1>7. ~ HasConfirmedFraud(l) /\ ~ RecentBenign(l)
  BY <1>4, <1>6 DEF FeedbackAdjustment
<1>8. k # "sudden"
  BY <1>4, <1>6, <1>7 DEF DriftAdjustment
<1>9. AdjustmentFigures(last) = {}
  BY <1>1, <1>7, <1>8 DEF AdjustmentFigures
<1>10. f.add = 0 /\ f.factor = 10 /\ d.factor = 10
  BY <1>2, <1>4, <1>7, <1>8, Adjustments
<1>11. PICK s, t : s = raw[1].score /\ t = raw[2].score
  OBVIOUS
<1>12. s \in 0..100 /\ t \in 0..100
  BY <1>3, <1>11
<1>13. r.fraud = AdjustedFraud(s, f) /\ r.anomaly = AdjustedAnomaly(t, f, d)
  <2>1. r.fraud = FraudOf(l, raw) /\ r.anomaly = AnomalyOf(k, l, raw)
    BY <1>2, ResponseUnfolds
  <2> QED
    BY <1>4, <1>11, <2>1 DEF FraudOf, AnomalyOf
<1>14. s + 0 = s /\ t * 10 * 10 = 100 * t /\ s <= 100 /\ 100 * t <= 10000
  BY <1>12, SMT
<1>15. PICK u : u = 100 * t
  OBVIOUS
<1>16. u \in Int /\ s \in Int
  BY <1>12, <1>15, SMT
<1>17. Min({100, s}) = s
  <2>1. Min({100, s}) = IF 100 <= s THEN 100 ELSE s
    BY <1>16, SmallerOfTwo
  <2> QED
    BY <1>12, <2>1
<1>18. Min({10000, u}) = u
  <2>1. PICK n : n = 10000
    OBVIOUS
  <2>2. Min({n, u}) = IF n <= u THEN n ELSE u
    BY <1>16, <2>1, SmallerOfTwo, SMT
  <2>3. n <= u => n = u
    BY <1>12, <1>14, <1>15, <2>1, SMT
  <2> QED
    BY <2>1, <2>2, <2>3
<1>19. AdjustedFraud(s, f) = s
  BY <1>10, <1>14, <1>17, SMT DEF AdjustedFraud
<1>20. AdjustedAnomaly(t, f, d) = u
  BY <1>10, <1>14, <1>15, <1>18, SMT DEF AdjustedAnomaly
<1> QED
  BY <1>1, <1>9, <1>11, <1>13, <1>15, <1>19, <1>20

LEMMA CitedAllowed ==
    ASSUME NEW payload, NEW figure \in payload, figure \in Nat
    PROVE  MatchesAllowed(figure, payload)
  BY SMT DEF MatchesAllowed, Abs

LEMMA TrustedHolds ==
    ASSUME FeaturesInv
    PROVE  EvidenceTrusted
<1> DEFINE large == \E figure \in CountsChecked(last) : ~ MatchesAllowed(figure, Payload(last))
<1> SUFFICES ASSUME last # Unset, last.response.effects = {}
             PROVE  /\ HallucinationFlagged(last, Payload(last)) <=> large
                    /\ (\A i \in DOMAIN last.before : last.before[i].amount = last.payment.amount) =>
                           (HallucinationFlagged(last, SummaryFigures(last.before)) <=> large)
  BY DEF EvidenceTrusted, Responded
<1>1. PICK a, b, c, s, n, P :
         /\ a = 100 * last.raw[1].score /\ b = 100 * last.raw[2].score /\ c = 100 * last.raw[3].score
         /\ s = 10000 * last.response.score /\ n = 10000 * last.payment.amount /\ P = Payload(last)
  OBVIOUS
<1>2. P = {a, b, s, n} \cup {c}
  BY <1>1 DEF Payload, ScoredPayload
<1>3. Evidence(last) \subseteq P \cup CountsChecked(last) /\ CountsChecked(last) \subseteq Evidence(last)
  BY <1>1, <1>2, NothingAdjusted DEF Evidence
<1>4. last.raw[1].score \in 0..100 /\ last.raw[2].score \in 0..100 /\ last.raw[3].score \in 0..100
  BY DEF FeaturesInv, Scored
<1>5. last.response.score \in 0..100
  BY ResponseShape
<1>6. last.payment.amount \in Nat
  BY PipelineAssumption, PaymentFields DEF FeaturesInv, Scored
<1>8. P \subseteq Nat
  <2>1. a \in Nat /\ b \in Nat /\ c \in Nat /\ s \in Nat /\ n \in Nat
    <3>1. PICK e, f, g, h, i : /\ e = last.raw[1].score /\ f = last.raw[2].score /\ g = last.raw[3].score
                               /\ h = last.response.score /\ i = last.payment.amount
      OBVIOUS
    <3>2. a = 100 * e /\ b = 100 * f /\ c = 100 * g /\ s = 10000 * h /\ n = 10000 * i
      BY <1>1, <3>1
    <3>3. e \in 0..100 /\ f \in 0..100 /\ g \in 0..100 /\ h \in 0..100 /\ i \in Nat
      BY <1>4, <1>5, <1>6, <3>1, Zenon
    <3>4. a \in Nat /\ b \in Nat /\ c \in Nat
      BY <3>2, <3>3
    <3>5. s \in Nat
      BY <3>2, <3>3
    <3>6. n \in Nat
      BY <3>2, <3>3
    <3> QED
      BY <3>4, <3>5, <3>6
  <2> QED
    BY <1>2, <2>1
<1>9. ASSUME NEW S \in SUBSET P PROVE HallucinationFlagged(last, S) <=> large
  <2>1. ASSUME NEW figure \in P PROVE MatchesAllowed(figure, P)
    <3>1. figure \in Nat
      BY <1>8
    <3> QED
      BY <3>1, CitedAllowed
  <2>2. \A figure \in P : MatchesAllowed(figure, Payload(last))
    BY <1>1, <2>1
  <2>3. ASSUME large PROVE HallucinationFlagged(last, S)
    BY <1>3, <2>3 DEF HallucinationFlagged
  <2>4. ASSUME ~ large PROVE ~ HallucinationFlagged(last, S)
    <3>1. \A figure \in Evidence(last) \cup S : MatchesAllowed(figure, Payload(last))
      BY <1>3, <2>2, <2>4
    <3> QED
      BY <3>1 DEF HallucinationFlagged
  <2> QED
    BY <2>3, <2>4
<1>10. ASSUME \A i \in DOMAIN last.before : last.before[i].amount = last.payment.amount
       PROVE  SummaryFigures(last.before) \subseteq P
  BY <1>1, <1>2, <1>10 DEF SummaryFigures
<1> QED
  BY <1>1, <1>9, <1>10


-----------------------------------------------------------------------------
(* The statistics.                                                         *)

(* The parts of a finite set by the decision add up to the whole. *)
PartOf(S, f, d) == {i \in S : f[i] = d}

LEMMA RestOf ==
    ASSUME NEW S, IsFiniteSet(S), NEW f, NEW d
    PROVE  LET R == {i \in S : f[i] # d}
           IN  /\ IsFiniteSet(R) /\ IsFiniteSet(PartOf(S, f, d))
               /\ Cardinality(R) \in Nat /\ Cardinality(PartOf(S, f, d)) \in Nat
               /\ Cardinality(PartOf(S, f, d)) + Cardinality(R) = Cardinality(S)
<1>1. PICK P, R : P = PartOf(S, f, d) /\ R = {i \in S : f[i] # d}
  OBVIOUS
<1>2. P \cup R = S /\ P \cap R = {} /\ P \in SUBSET S /\ R \in SUBSET S
  BY <1>1 DEF PartOf
<1>3. IsFiniteSet(P) /\ IsFiniteSet(R)
  BY <1>2, FS_Subset
<1>4. Cardinality(P \cup R) = Cardinality(P) + Cardinality(R) - Cardinality(P \cap R)
  BY <1>3, FS_Union
<1>5. Cardinality(P) \in Nat /\ Cardinality(R) \in Nat /\ Cardinality({}) = 0
  BY <1>3, FS_CardinalityType, FS_EmptySet
<1>6. Cardinality(S) = Cardinality(P) + Cardinality(R)
  <2>1. Cardinality(S) = Cardinality(P) + Cardinality(R) - 0
    BY <1>2, <1>4, <1>5
  <2> QED
    BY <1>5, <2>1
<1> QED
  BY <1>1, <1>3, <1>5, <1>6

LEMMA FourParts ==
    ASSUME NEW S, IsFiniteSet(S), NEW f, \A i \in S : f[i] \in Decisions
    PROVE  /\ \A d \in Decisions : Cardinality(PartOf(S, f, d)) \in Nat
           /\ Cardinality(PartOf(S, f, "PASS")) + Cardinality(PartOf(S, f, "REVIEW_UNUSUAL"))
                + Cardinality(PartOf(S, f, "REVIEW_STEALTH")) + Cardinality(PartOf(S, f, "BLOCK"))
              = Cardinality(S)
<1>1. PICK R : R = {i \in S : f[i] # "PASS"}
  OBVIOUS
<1>2. PICK T : T = {i \in R : f[i] # "REVIEW_UNUSUAL"}
  OBVIOUS
<1>3. /\ PartOf(R, f, "REVIEW_UNUSUAL") = PartOf(S, f, "REVIEW_UNUSUAL")
      /\ PartOf(T, f, "REVIEW_STEALTH") = PartOf(S, f, "REVIEW_STEALTH")
      /\ {i \in T : f[i] # "REVIEW_STEALTH"} = PartOf(S, f, "BLOCK")
  BY <1>1, <1>2 DEF PartOf, Decisions
<1>4. PICK a, b, c, d : /\ a = Cardinality(PartOf(S, f, "PASS"))
                        /\ b = Cardinality(PartOf(S, f, "REVIEW_UNUSUAL"))
                        /\ c = Cardinality(PartOf(S, f, "REVIEW_STEALTH"))
                        /\ d = Cardinality(PartOf(S, f, "BLOCK"))
  OBVIOUS
<1>5. IsFiniteSet(R) /\ Cardinality(R) \in Nat /\ a \in Nat /\ a + Cardinality(R) = Cardinality(S)
  BY <1>1, <1>4, RestOf
<1>6. IsFiniteSet(T) /\ Cardinality(T) \in Nat /\ b \in Nat /\ b + Cardinality(T) = Cardinality(R)
  BY <1>2, <1>3, <1>4, <1>5, RestOf
<1>7. c \in Nat /\ d \in Nat /\ c + d = Cardinality(T)
  BY <1>3, <1>4, <1>6, RestOf
<1>8. a + b + c + d = Cardinality(S)
  BY <1>5, <1>6, <1>7
<1> QED
  BY <1>4, <1>5, <1>6, <1>7, <1>8 DEF Decisions

(* A rate of four places is one only if less than one in twenty thousand   *)
(* is missing.                                                             *)
LEMMA RateIsOne ==
    ASSUME NEW b \in Nat, NEW c \in Nat, b + c # 0, NEW k \in Nat, k # 0, Rounded(k * b, b + c) = k
    PROVE  2 * k * c <= b + c
<1>1. PICK n, q, r : n = b + c /\ q = (k * b) \div n /\ r = (k * b) % n
  OBVIOUS
<1>2. n \in Nat \ {0} /\ k * b \in Int /\ k * c \in Nat
  BY <1>1
<1>3. q \in Int /\ r \in 0..(n - 1) /\ k * b = n * q + r
  BY <1>1, <1>2, Quotient
<1>4. k * n = k * b + k * c
  BY <1>1
<1>5. PICK x : x = Rounded(k * b, n)
  OBVIOUS
<1>6. x = k /\ x \in {q, q + 1} /\ (x = q + 1 <=> (2 * r > n \/ (2 * r = n /\ q % 2 = 1)))
  BY <1>1, <1>2, <1>5, RoundedNear
<1>7. CASE q = k
  <2>1. n * q = k * n /\ k * n \in Int
    BY <1>2, <1>7
  <2>2. k * c = 0
    BY <1>2, <1>3, <1>4, <2>1
  <2>3. 2 * k * c = 2 * (k * c)
    OBVIOUS
  <2> QED
    BY <1>1, <1>2, <2>2, <2>3
<1>8. CASE q + 1 = k
  <2>1. 2 * r >= n
    BY <1>2, <1>3, <1>6, <1>8
  <2>2. n * q = k * n - n /\ k * n \in Int
    <3>1. q = k - 1
      BY <1>3, <1>8
    <3> QED
      BY <1>2, <3>1
  <2>3. k * c = n - r
    BY <1>2, <1>3, <1>4, <2>2
  <2>4. 2 * k * c = 2 * (k * c)
    OBVIOUS
  <2> QED
    BY <1>1, <1>2, <1>3, <2>1, <2>3, <2>4
<1> QED
  BY <1>6, <1>7, <1>8

LEMMA StatsHold ==
    ASSUME verdicts \in Seq(Labels)
    PROVE  StatsAddUp
<1> SUFFICES ASSUME NEW decided \in [DOMAIN verdicts -> Decisions]
             PROVE  LET stats == FeedbackStats(verdicts, decided)
                        rows(d) == stats.rows[d]
                        benign == {i \in DOMAIN verdicts : IsBenign(verdicts[i])}
                    IN  /\ rows("PASS").total + rows("REVIEW_UNUSUAL").total
                           + rows("REVIEW_STEALTH").total + rows("BLOCK").total = stats.total
                        /\ rows("PASS").confirmed + rows("REVIEW_UNUSUAL").confirmed
                           + rows("REVIEW_STEALTH").confirmed + rows("BLOCK").confirmed = stats.confirmed
                        /\ rows("PASS").falseAlarm + rows("REVIEW_UNUSUAL").falseAlarm
                           + rows("REVIEW_STEALTH").falseAlarm + rows("BLOCK").falseAlarm
                           = Cardinality(benign)
                        /\ stats.falseAlarm <= Cardinality(benign)
                        /\ stats.falsePositiveRate = 10000 =>
                               20000 * stats.confirmed <= stats.confirmed + Cardinality(benign)
  BY DEF StatsAddUp
<1>1. PICK stats, A, B, C : /\ stats = FeedbackStats(verdicts, decided)
                            /\ A = DOMAIN verdicts
                            /\ C = {i \in DOMAIN verdicts : IsConfirmedFraud(verdicts[i])}
                            /\ B = {i \in DOMAIN verdicts : IsBenign(verdicts[i])}
  OBVIOUS
<1>2. IsFiniteSet(A) /\ Cardinality(A) = Len(verdicts)
  <2>1. A = 1..Len(verdicts) /\ Len(verdicts) \in Nat
    BY <1>1
  <2>2. 1 \in Int /\ Len(verdicts) \in Int
    BY <2>1
  <2>3. IsFiniteSet(A) /\ Cardinality(A) = IF 1 > Len(verdicts) THEN 0 ELSE Len(verdicts) - 1 + 1
    BY <2>1, <2>2, FS_Interval
  <2> QED
    BY <2>1, <2>3
<1>3. B \in SUBSET A /\ C \in SUBSET A /\ B \cap C = {}
  BY <1>1 DEF IsBenign, IsConfirmedFraud
<1>4. IsFiniteSet(B) /\ IsFiniteSet(C)
  BY <1>2, <1>3, FS_Subset
<1>5. \A S \in {A, B, C} : \A i \in S : decided[i] \in Decisions
  BY <1>1, <1>3
<1>6. \A d \in Decisions : /\ stats.rows[d].total = Cardinality(PartOf(A, decided, d))
                           /\ stats.rows[d].confirmed = Cardinality(PartOf(C, decided, d))
                           /\ stats.rows[d].falseAlarm = Cardinality(PartOf(B, decided, d))
  <2> SUFFICES ASSUME NEW d \in Decisions
               PROVE  /\ stats.rows[d].total = Cardinality(PartOf(A, decided, d))
                      /\ stats.rows[d].confirmed = Cardinality(PartOf(C, decided, d))
                      /\ stats.rows[d].falseAlarm = Cardinality(PartOf(B, decided, d))
    OBVIOUS
  <2> DEFINE D == {i \in DOMAIN verdicts : decided[i] = d}
  <2>1. PartOf(A, decided, d) = D /\ PartOf(C, decided, d) = D \cap C /\ PartOf(B, decided, d) = D \cap B
    BY <1>1 DEF PartOf
  <2>2. stats.rows[d] = [total |-> Cardinality(D), confirmed |-> Cardinality(D \cap C),
                         falseAlarm |-> Cardinality(D \cap B)]
    BY <1>1 DEF FeedbackStats
  <2> HIDE DEF D
  <2> QED
    BY <2>1, <2>2
<1>7. stats.total = Cardinality(A) /\ stats.confirmed = Cardinality(C)
  BY <1>1, <1>2 DEF FeedbackStats
<1>8. "PASS" \in Decisions /\ "REVIEW_UNUSUAL" \in Decisions /\ "REVIEW_STEALTH" \in Decisions /\ "BLOCK" \in Decisions
  BY DEF Decisions
<1>9. ASSUME stats.falsePositiveRate = 10000
      PROVE  20000 * Cardinality(C) <= Cardinality(C) + Cardinality(B)
  <2>1. PICK b, c, k : b = Cardinality(B) /\ c = Cardinality(C) /\ k = 10000
    OBVIOUS
  <2>2. b \in Nat /\ c \in Nat
    BY <1>4, <2>1, FS_CardinalityType
  <2>3. k \in Nat /\ k # 0
    BY <2>1
  <2>4. Cardinality(C \cup B) = b + c
    <3>1. Cardinality(C \cup B) = Cardinality(C) + Cardinality(B) - Cardinality(C \cap B)
      BY <1>4, FS_Union
    <3>2. Cardinality(C \cap B) = 0
      BY <1>3, FS_EmptySet
    <3> QED
      BY <2>1, <2>2, <3>1, <3>2
  <2>5. stats.falsePositiveRate = IF C \cup B = {} THEN 0 ELSE Rounded(k * b, Cardinality(C \cup B))
    BY <1>1, <2>1 DEF FeedbackStats
  <2>6. C \cup B # {} /\ Rounded(k * b, b + c) = k
    <3>1. stats.falsePositiveRate = k
      BY <1>9, <2>1
    <3> QED
      BY <2>3, <2>4, <2>5, <3>1, Zenon
  <2>7. b + c # 0
    <3>1. IsFiniteSet(C \cup B)
      BY <1>4, FS_Union
    <3> QED
      BY <2>4, <2>6, <3>1, FS_EmptySet
  <2>8. 2 * k * c <= b + c
    BY <2>2, <2>3, <2>6, <2>7, RateIsOne
  <2> QED
    BY <2>1, <2>2, <2>8
<1>10. /\ Cardinality(PartOf(A, decided, "PASS")) + Cardinality(PartOf(A, decided, "REVIEW_UNUSUAL"))
            + Cardinality(PartOf(A, decided, "REVIEW_STEALTH")) + Cardinality(PartOf(A, decided, "BLOCK"))
          = Cardinality(A)
       /\ Cardinality(PartOf(B, decided, "PASS")) + Cardinality(PartOf(B, decided, "REVIEW_UNUSUAL"))
            + Cardinality(PartOf(B, decided, "REVIEW_STEALTH")) + Cardinality(PartOf(B, decided, "BLOCK"))
          = Cardinality(B)
       /\ Cardinality(PartOf(C, decided, "PASS")) + Cardinality(PartOf(C, decided, "REVIEW_UNUSUAL"))
            + Cardinality(PartOf(C, decided, "REVIEW_STEALTH")) + Cardinality(PartOf(C, decided, "BLOCK"))
          = Cardinality(C)
  BY <1>2, <1>4, <1>5, FourParts
<1>11. /\ stats.rows["PASS"].total + stats.rows["REVIEW_UNUSUAL"].total
             + stats.rows["REVIEW_STEALTH"].total + stats.rows["BLOCK"].total = stats.total
       /\ stats.rows["PASS"].confirmed + stats.rows["REVIEW_UNUSUAL"].confirmed
             + stats.rows["REVIEW_STEALTH"].confirmed + stats.rows["BLOCK"].confirmed = stats.confirmed
       /\ stats.rows["PASS"].falseAlarm + stats.rows["REVIEW_UNUSUAL"].falseAlarm
             + stats.rows["REVIEW_STEALTH"].falseAlarm + stats.rows["BLOCK"].falseAlarm = Cardinality(B)
  BY <1>6, <1>7, <1>8, <1>10, Zenon
<1>12. stats.falsePositiveRate = 10000 => 20000 * stats.confirmed <= stats.confirmed + Cardinality(B)
  BY <1>7, <1>9
<1>13. stats.falseAlarm <= Cardinality(B)
  <2>1. PICK F : F = {i \in B : verdicts[i] = "false_alarm"}
    OBVIOUS
  <2>2. stats.falseAlarm = Cardinality(F)
    BY <1>1, <2>1 DEF FeedbackStats
  <2>3. F \in SUBSET B
    BY <2>1
  <2> QED
    BY <1>4, <2>2, <2>3, FS_Subset
<1> QED
  BY <1>1, <1>11, <1>12, <1>13

-----------------------------------------------------------------------------
(* The panel.                                                              *)

(* What is ahead of an element, by magnitude and then by position. *)
AheadOf(m, i) == {j \in DOMAIN m : m[j] > m[i] \/ (m[j] = m[i] /\ j < i)}

LEMMA AheadCounts ==
    ASSUME NEW n \in Nat, NEW m \in [1..n -> Nat]
    PROVE  /\ \A i \in 1..n : IsFiniteSet(AheadOf(m, i)) /\ Cardinality(AheadOf(m, i)) \in 0..(n - 1)
           /\ \A i, j \in 1..n : j \in AheadOf(m, i) => Cardinality(AheadOf(m, j)) < Cardinality(AheadOf(m, i))
           /\ \A i, j \in 1..n : i = j \/ i \in AheadOf(m, j) \/ j \in AheadOf(m, i)
<1>1. IsFiniteSet(1..n) /\ Cardinality(1..n) = n
  <2>1. IsFiniteSet(1..n) /\ Cardinality(1..n) = IF 1 > n THEN 0 ELSE n - 1 + 1
    BY FS_Interval
  <2> QED
    BY <2>1
<1>2. \A i \in 1..n : AheadOf(m, i) \in SUBSET (1..n) /\ i \notin AheadOf(m, i)
  BY DEF AheadOf
<1>3. \A i \in 1..n : IsFiniteSet(AheadOf(m, i)) /\ Cardinality(AheadOf(m, i)) \in Nat
  BY <1>1, <1>2, FS_Subset, FS_CardinalityType
<1>4. ASSUME NEW i \in 1..n, NEW T, T \in SUBSET (1..n), AheadOf(m, i) \cup {i} \subseteq T
      PROVE  Cardinality(AheadOf(m, i)) + 1 <= Cardinality(T)
  <2>1. IsFiniteSet(T) /\ Cardinality(T) \in Nat
    BY <1>1, <1>4, FS_Subset, FS_CardinalityType
  <2>2. Cardinality(AheadOf(m, i) \cup {i}) = Cardinality(AheadOf(m, i)) + 1
    BY <1>2, <1>3, FS_AddElement
  <2>3. Cardinality(AheadOf(m, i) \cup {i}) <= Cardinality(T)
    BY <1>4, <2>1, FS_Subset
  <2> QED
    BY <2>2, <2>3
<1>5. ASSUME NEW i \in 1..n PROVE Cardinality(AheadOf(m, i)) \in 0..(n - 1)
  <2>1. Cardinality(AheadOf(m, i)) + 1 <= Cardinality(1..n)
    BY <1>2, <1>4
  <2> QED
    BY <1>1, <1>3, <2>1
<1>6. ASSUME NEW i \in 1..n, NEW j \in 1..n, j \in AheadOf(m, i)
      PROVE  Cardinality(AheadOf(m, j)) < Cardinality(AheadOf(m, i))
  <2>1. AheadOf(m, j) \cup {j} \subseteq AheadOf(m, i)
    BY <1>6 DEF AheadOf
  <2>2. Cardinality(AheadOf(m, j)) + 1 <= Cardinality(AheadOf(m, i))
    BY <1>2, <1>4, <2>1
  <2> QED
    BY <1>3, <2>2
<1>7. \A i, j \in 1..n : i = j \/ i \in AheadOf(m, j) \/ j \in AheadOf(m, i)
  BY DEF AheadOf
<1> QED
  BY <1>3, <1>5, <1>6, <1>7

(* Each rank is taken once, so there are as many at the top as are shown. *)
FirstOf(m, k) == {i \in DOMAIN m : Cardinality(AheadOf(m, i)) < k}

LEMMA FirstCounts ==
    ASSUME NEW n \in Nat, NEW k \in 0..n, NEW m \in [1..n -> Nat]
    PROVE  /\ Cardinality(FirstOf(m, k)) = k
           /\ \A i \in FirstOf(m, k), j \in (1..n) \ FirstOf(m, k) : m[i] >= m[j]
<1>1. PICK rank : rank = [i \in 1..n |-> Cardinality(AheadOf(m, i))]
  OBVIOUS
<1>2. \A i \in 1..n : rank[i] = Cardinality(AheadOf(m, i)) /\ rank[i] \in 0..(n - 1)
  BY <1>1, AheadCounts
<1>3. rank \in [1..n -> 0..(n - 1)]
  BY <1>1, <1>2
<1>4. ASSUME NEW i \in 1..n, NEW j \in 1..n, i # j PROVE rank[i] # rank[j]
  <2>1. i \in AheadOf(m, j) \/ j \in AheadOf(m, i)
    BY <1>4, AheadCounts
  <2>2. CASE i \in AheadOf(m, j)
    <3>1. Cardinality(AheadOf(m, i)) < Cardinality(AheadOf(m, j))
      BY <2>2, AheadCounts
    <3> QED
      BY <1>2, <3>1
  <2>3. CASE j \in AheadOf(m, i)
    <3>1. Cardinality(AheadOf(m, j)) < Cardinality(AheadOf(m, i))
      BY <2>3, AheadCounts
    <3> QED
      BY <1>2, <3>1
  <2> QED
    BY <2>1, <2>2, <2>3
<1>5. rank \in Injection(1..n, 0..(n - 1))
  BY <1>3, <1>4 DEF Injection, IsInjective
<1>6. IsFiniteSet(0..(n - 1)) /\ Cardinality(0..(n - 1)) = n /\ Cardinality(1..n) = n
  <2>1. IsFiniteSet(0..(n - 1)) /\ Cardinality(0..(n - 1)) = IF 0 > n - 1 THEN 0 ELSE (n - 1) - 0 + 1
    BY FS_Interval
  <2>2. Cardinality(1..n) = IF 1 > n THEN 0 ELSE n - 1 + 1
    BY FS_Interval
  <2> QED
    BY <2>1, <2>2
<1>7. rank \in Surjection(1..n, 0..(n - 1))
  BY <1>5, <1>6, FS_Injection
<1>8. PICK T : T = FirstOf(m, k)
  OBVIOUS
<1>9. T \subseteq 1..n /\ \A i \in 1..n : i \in T <=> rank[i] < k
  BY <1>2, <1>8 DEF FirstOf
<1>10. PICK f : f = [i \in T |-> rank[i]]
  OBVIOUS
<1>11. f \in [T -> 0..(k - 1)]
  BY <1>2, <1>9, <1>10
<1>12. f \in Injection(T, 0..(k - 1))
  BY <1>4, <1>9, <1>10, <1>11 DEF Injection, IsInjective
<1>13. ASSUME NEW x \in 0..(k - 1) PROVE \E i \in T : f[i] = x
  <2>1. x \in 0..(n - 1)
    OBVIOUS
  <2>2. PICK i \in 1..n : rank[i] = x
    BY <1>7, <2>1 DEF Surjection
  <2>3. i \in T
    BY <1>9, <2>2
  <2> QED
    BY <1>10, <2>2, <2>3
<1>14. f \in Surjection(T, 0..(k - 1))
  BY <1>11, <1>13 DEF Surjection
<1>15. IsFiniteSet(0..(k - 1)) /\ Cardinality(0..(k - 1)) = k
  <2>1. IsFiniteSet(0..(k - 1)) /\ Cardinality(0..(k - 1)) = IF 0 > k - 1 THEN 0 ELSE (k - 1) - 0 + 1
    BY FS_Interval
  <2> QED
    BY <2>1
<1>16. Cardinality(T) = k
  BY <1>12, <1>14, <1>15, FS_Injection
<1>17. ASSUME NEW i \in T, NEW j \in (1..n) \ T PROVE m[i] >= m[j]
  <2>1. i \in 1..n /\ rank[i] < k /\ ~ (rank[j] < k)
    BY <1>9
  <2>2. ~ (rank[j] < rank[i])
    BY <1>2, <2>1
  <2>3. j \notin AheadOf(m, i)
    <3>1. j \in 1..n
      OBVIOUS
    <3>2. j \in AheadOf(m, i) => Cardinality(AheadOf(m, j)) < Cardinality(AheadOf(m, i))
      BY <2>1, <3>1, AheadCounts
    <3> QED
      BY <1>2, <2>1, <2>2, <3>1, <3>2
  <2>4. ~ (m[j] > m[i])
    BY <2>1, <2>3 DEF AheadOf
  <2> QED
    BY <2>1, <2>4
<1> QED
  BY <1>8, <1>16, <1>17

Near(x, y, bound) == - bound <= x - y /\ x - y <= bound

(* A share is within a half of the exact one. *)
LEMMA ShareNear ==
    ASSUME NEW t \in Nat \ {0}, NEW k \in Nat, NEW x \in Nat, NEW y, y = Rounded(k * x, t)
    PROVE  y \in Int /\ Near(2 * (t * y), 2 * (k * x), t)
<1>1. PICK p, q, r : p = k * x /\ q = p \div t /\ r = p % t
  OBVIOUS
<1>2. p \in Int
  BY <1>1
<1>3. q \in Int /\ r \in 0..(t - 1) /\ p = t * q + r
  BY <1>1, <1>2, Quotient
<1>4. y \in {q, q + 1} /\ (y = q + 1 <=> (2 * r > t \/ (2 * r = t /\ q % 2 = 1)))
  BY <1>1, <1>2, RoundedNear
<1>5. PICK z : z = t * q
  OBVIOUS
<1>6. z \in Int /\ t * (q + 1) = z + t
  BY <1>3, <1>5
<1>7. CASE y = q
  <2>1. 2 * r <= t
    BY <1>3, <1>4, <1>7
  <2>2. Near(2 * z, 2 * p, t)
    BY <1>3, <1>5, <1>6, <2>1 DEF Near
  <2> QED
    BY <1>1, <1>3, <1>5, <1>7, <2>2
<1>8. CASE y = q + 1
  <2>1. 2 * r >= t
    BY <1>3, <1>4, <1>8
  <2>2. Near(2 * (z + t), 2 * p, t)
    BY <1>3, <1>5, <1>6, <2>1 DEF Near
  <2> QED
    BY <1>1, <1>3, <1>6, <1>8, <2>2
<1> QED
  BY <1>4, <1>7, <1>8

(* Whole numbers over part of a sequence, and their sum. *)
Over(n, T, m) == [i \in 1..n |-> IF i \in T THEN m[i] ELSE 0]

LEMMA TotalOf ==
    ASSUME NEW n \in Nat, NEW T \in SUBSET (1..n), NEW m, \A i \in T : m[i] \in Nat
    PROVE  /\ SumOf(Over(n, T, m)) \in Nat
           /\ SumOf(Over(n, T, m)) = 0 => \A i \in T : m[i] = 0
<1>1. PICK s : s = Over(n, T, m)
  OBVIOUS
<1>2. s \in [1..n -> Int] /\ \A i \in 1..n : s[i] \in Nat
  BY <1>1 DEF Over
<1>3. PICK f : Partial(f, s, n) /\ SumOf(s) = f[n]
  BY <1>2, SumUnfolds
<1>4. f \in [0..n -> Int] /\ f[0] = 0 /\ \A i \in 1..n : f[i] = f[i - 1] + s[i]
  BY <1>3 DEF Partial
<1> DEFINE Reached == {k \in 0..n : f[k] \in Nat /\ (f[k] = 0 => \A i \in 1..k : s[i] = 0)}
<1>5. 0 \in Reached
  BY <1>4
<1>6. ASSUME NEW k \in 1..n, k - 1 \in Reached PROVE k \in Reached
  <2>1. f[k - 1] \in Nat /\ (f[k - 1] = 0 => \A i \in 1..(k - 1) : s[i] = 0)
    BY <1>6
  <2>2. f[k] = f[k - 1] + s[k] /\ s[k] \in Nat
    BY <1>2, <1>4
  <2>3. f[k] \in Nat /\ (f[k] = 0 => f[k - 1] = 0 /\ s[k] = 0)
    BY <2>1, <2>2
  <2>4. \A i \in 1..k : i \in 1..(k - 1) \/ i = k
    OBVIOUS
  <2>5. f[k] = 0 => \A i \in 1..k : s[i] = 0
    BY <2>1, <2>3, <2>4
  <2> QED
    BY <2>3, <2>5
<1>7. n \in Reached
  <2> HIDE DEF Reached
  <2>1. 0..n \subseteq Reached
    BY <1>5, <1>6, Climb
  <2> QED
    BY <2>1
<1>8. \A i \in T : i \in 1..n /\ s[i] = m[i]
  BY <1>1 DEF Over
<1> QED
  BY <1>1, <1>3, <1>7, <1>8

LEMMA SharesWhole ==
    ASSUME NEW n \in Nat, NEW T \in SUBSET (1..n), NEW m, \A i \in T : m[i] \in Nat,
           NEW k \in Nat, NEW t, t = SumOf(Over(n, T, m)), t # 0,
           NEW sh, \A i \in T : sh[i] = Rounded(k * m[i], t)
    PROVE  /\ SumOf(Over(n, T, sh)) \in Int
           /\ Near(2 * SumOf(Over(n, T, sh)), 2 * k, Cardinality(T))
<1>1. t \in Nat \ {0}
  BY TotalOf
<1>2. \A i \in T : sh[i] \in Int /\ Near(2 * (t * sh[i]), 2 * (k * m[i]), t)
  BY <1>1, ShareNear
<1>3. PICK a, b : a = Over(n, T, m) /\ b = Over(n, T, sh)
  OBVIOUS
<1>4. a \in [1..n -> Int] /\ b \in [1..n -> Int]
  BY <1>2, <1>3 DEF Over
<1>5. \A i \in 1..n : IF i \in T THEN a[i] = m[i] /\ b[i] = sh[i] ELSE a[i] = 0 /\ b[i] = 0
  BY <1>3 DEF Over
<1>6. PICK f : Partial(f, a, n) /\ SumOf(a) = f[n]
  BY <1>4, SumUnfolds
<1>7. PICK g : Partial(g, b, n) /\ SumOf(b) = g[n]
  BY <1>4, SumUnfolds
<1>8. /\ f \in [0..n -> Int] /\ f[0] = 0 /\ \A i \in 1..n : f[i] = f[i - 1] + a[i]
      /\ g \in [0..n -> Int] /\ g[0] = 0 /\ \A i \in 1..n : g[i] = g[i - 1] + b[i]
  BY <1>6, <1>7 DEF Partial
<1> DEFINE c(j) == Cardinality(T \cap (1..j))
           Reached == {j \in 0..n : c(j) \in Nat /\ Near(2 * (t * g[j]), 2 * (k * f[j]), t * c(j))}
<1>9. IsFiniteSet(T)
  <2>1. IsFiniteSet(1..n)
    BY FS_Interval
  <2> QED
    BY <2>1, FS_Subset
<1>10. 0 \in Reached
  <2>1. T \cap (1..0) = {}
    OBVIOUS
  <2>2. c(0) = 0
    BY <2>1, FS_EmptySet
  <2>3. t * 0 = 0 /\ k * 0 = 0
    BY <1>1
  <2>4. Near(2 * (t * g[0]), 2 * (k * f[0]), t * c(0))
    BY <1>8, <2>2, <2>3 DEF Near
  <2> QED
    BY <2>2, <2>4
<1>11. ASSUME NEW j \in 1..n, j - 1 \in Reached PROVE j \in Reached
  <2>1. PICK e, u, v : e = c(j - 1) /\ u = g[j - 1] /\ v = f[j - 1]
    OBVIOUS
  <2>2. e \in Nat /\ u \in Int /\ v \in Int /\ Near(2 * (t * u), 2 * (k * v), t * e)
    <3>1. j - 1 \in 0..n
      OBVIOUS
    <3> QED
      BY <1>8, <1>11, <2>1, <3>1
  <2>3. IsFiniteSet(T \cap (1..(j - 1)))
    BY <1>9, FS_Subset
  <2>4. CASE j \in T
    <3>1. T \cap (1..j) = (T \cap (1..(j - 1))) \cup {j} /\ j \notin T \cap (1..(j - 1))
      BY <2>4
    <3>2. c(j) = e + 1
      BY <2>1, <2>3, <3>1, FS_AddElement
    <3>3. PICK x, y : x = m[j] /\ y = sh[j]
      OBVIOUS
    <3>4. x \in Nat /\ y \in Int /\ Near(2 * (t * y), 2 * (k * x), t)
      BY <1>2, <2>4, <3>3
    <3>5. f[j] = v + x /\ g[j] = u + y
      BY <1>5, <1>8, <2>1, <2>4, <3>3
    <3>6. t * (u + y) = t * u + t * y /\ k * (v + x) = k * v + k * x /\ t * (e + 1) = t * e + t
      BY <1>1, <2>2, <3>4
    <3>7. t * u \in Int /\ t * y \in Int /\ k * v \in Int /\ k * x \in Int /\ t * e \in Int
      BY <1>1, <2>2, <3>4
    <3>8. Near(2 * (t * u + t * y), 2 * (k * v + k * x), t * e + t)
      <4>1. PICK p, q, r, s, w : p = t * u /\ q = t * y /\ r = k * v /\ s = k * x /\ w = t * e
        OBVIOUS
      <4>2. p \in Int /\ q \in Int /\ r \in Int /\ s \in Int /\ w \in Int
        BY <3>7, <4>1
      <4>3. Near(2 * p, 2 * r, w) /\ Near(2 * q, 2 * s, t)
        BY <2>2, <3>4, <4>1
      <4>4. Near(2 * (p + q), 2 * (r + s), w + t)
        BY <1>1, <4>2, <4>3 DEF Near
      <4> QED
        BY <4>1, <4>4
    <3>9. Near(2 * (t * g[j]), 2 * (k * f[j]), t * c(j))
      BY <3>2, <3>5, <3>6, <3>8
    <3>10. c(j) \in Nat
      BY <2>2, <3>2
    <3> QED
      BY <3>9, <3>10
  <2>5. CASE j \notin T
    <3>1. T \cap (1..j) = T \cap (1..(j - 1))
      BY <2>5
    <3>2. c(j) = e
      BY <2>1, <3>1
    <3>3. f[j] = v /\ g[j] = u
      <4>1. a[j] = 0 /\ b[j] = 0
        BY <1>5, <2>5
      <4>2. f[j] = f[j - 1] + a[j] /\ g[j] = g[j - 1] + b[j]
        BY <1>8
      <4> QED
        BY <2>1, <2>2, <4>1, <4>2
    <3> QED
      BY <2>2, <3>2, <3>3
  <2> QED
    BY <2>4, <2>5
<1>12. n \in Reached
  <2> HIDE DEF Reached
  <2>1. 0..n \subseteq Reached
    BY <1>10, <1>11, Climb
  <2> QED
    BY <2>1
<1>13. PICK e, u : e = Cardinality(T) /\ u = g[n]
  OBVIOUS
<1>14. T \cap (1..n) = T /\ f[n] = t
  BY <1>3, <1>6
<1>15. e \in Nat /\ u \in Int /\ Near(2 * (t * u), 2 * (k * t), t * e)
  BY <1>8, <1>12, <1>13, <1>14
<1>16. Near(2 * u, 2 * k, e)
  <2>1. t * (2 * u - 2 * k) = 2 * (t * u) - 2 * (k * t) /\ t * (2 * k - 2 * u) = 2 * (k * t) - 2 * (t * u)
    BY <1>1, <1>15
  <2>2. t * (e + 1) = t * e + t /\ t * e \in Int /\ t * u \in Int /\ k * t \in Int
    BY <1>1, <1>15
  <2>3. t * (2 * u - 2 * k) < t * (e + 1) /\ t * (2 * k - 2 * u) < t * (e + 1)
    BY <1>1, <1>15, <2>1, <2>2 DEF Near
  <2>4. 2 * u - 2 * k \in Int /\ 2 * k - 2 * u \in Int /\ e \in Int
    BY <1>15
  <2>5. 2 * u - 2 * k <= e /\ 2 * k - 2 * u <= e
    BY <1>1, <2>3, <2>4, FactorLess
  <2> QED
    BY <1>15, <2>5 DEF Near
<1> QED
  BY <1>3, <1>7, <1>13, <1>15, <1>16

LEMMA MagnitudesTyped ==
    ASSUME NEW v, VectorOK(v)
    PROVE  /\ DOMAIN Magnitudes(v) = 1..7
           /\ Magnitudes(v) \in [1..7 -> Nat]
<1>2. /\ v.amountLog \in Nat /\ v.velocity \in Nat /\ v.signals \in Signals
      /\ v.hour \in Nat /\ v.distance \in Nat
  BY DEF VectorOK
<1>3. PICK s : s = v.signals
  OBVIOUS
<1>4. PICK i, j, k, x, y : i = s.travel /\ j = s.newDevice /\ k = s.mcc /\ x = v.velocity /\ y = v.hour
  OBVIOUS
<1>14. i \in Nat /\ j \in Nat /\ k \in Nat /\ x \in Nat /\ y \in Nat
  <2>1. s \in Signals
    BY <1>2, <1>3
  <2>2. i \in Nat /\ j \in Nat /\ k \in Nat
    <3>1. s.travel \in 0..1 /\ s.newDevice \in 0..1 /\ s.mcc \in 0..100
      BY <2>1, Zenon DEF Signals
    <3>2. i \in 0..1 /\ j \in 0..1 /\ k \in 0..100
      BY <1>4, <3>1, Zenon
    <3> QED
      BY <3>2
  <2> QED
    BY <1>2, <1>4, <2>2
<1>5. PICK a, b : a = Min({v.amountLog, 6000}) /\ b = Min({100 * v.distance, 6000})
  OBVIOUS
<1>6. a \in Nat
  <2>1. v.amountLog \in Int /\ 6000 \in Int
    BY <1>2
  <2>2. a = IF v.amountLog <= 6000 THEN v.amountLog ELSE 6000
    BY <1>5, <2>1, SmallerOfTwo
  <2> QED
    BY <1>2, <2>2
<1>7. b \in Nat
  <2>1. 100 * v.distance \in Nat /\ 6000 \in Int
    BY <1>2
  <2>2. 100 * v.distance \in Int
    BY <2>1
  <2>3. b = IF 100 * v.distance <= 6000 THEN 100 * v.distance ELSE 6000
    BY <1>5, <2>1, <2>2, SmallerOfTwo
  <2> QED
    BY <2>1, <2>3
<1>8. PICK c, d, e, g : c = 100 * i /\ d = 100 * j /\ e = 100 * x /\ g = 100 * y
  OBVIOUS
<1>9. c \in Nat /\ d \in Nat /\ e \in Nat /\ g \in Nat
  BY <1>14, <1>8
<1>10. Magnitudes(v) = <<c, d, e, a, b, k, g>>
  BY <1>3, <1>4, <1>5, <1>8 DEF Magnitudes
<1> QED
  BY <1>6, <1>7, <1>9, <1>10, <1>14

LEMMA PanelHolds ==
    ASSUME FeaturesInv
    PROVE  PanelWhole
<1> DEFINE v == last.vector
           m == Magnitudes(v)
           shares == AnomalyContributors(v)
           sum == SumOf([i \in DOMAIN m |-> IF i \in DOMAIN shares THEN shares[i] ELSE 0])
<1> SUFFICES ASSUME last # Unset
             PROVE  /\ \/ DOMAIN shares = {} /\ \A i \in DOMAIN m : m[i] = 0
                       \/ Cardinality(DOMAIN shares) = PanelSize /\ Abs(sum - 1000) <= 2
                    /\ \A i \in DOMAIN shares, j \in DOMAIN m \ DOMAIN shares : m[i] >= m[j]
  BY DEF PanelWhole, Responded
<1>1. VectorOK(v)
  BY DEF FeaturesInv, Scored
<1>2. m \in [1..7 -> Nat] /\ DOMAIN m = 1..7
  BY <1>1, MagnitudesTyped
<1>3. PICK T : T = TopFeatures(v)
  OBVIOUS
<1>4. T = FirstOf(m, PanelSize)
  BY <1>3 DEF TopFeatures, FirstOf, AheadOf
<1>5. PICK n : n = 7
  OBVIOUS
<1>6. n \in Nat /\ m \in [1..n -> Nat] /\ DOMAIN m = 1..n /\ PanelSize \in 0..n
  BY <1>2, <1>5 DEF PanelSize
<1> HIDE DEF m
<1>7. /\ Cardinality(T) = PanelSize
      /\ \A i \in T, j \in (1..n) \ T : m[i] >= m[j]
  BY <1>4, <1>6, FirstCounts
<1>8. T \in SUBSET (1..n)
  BY <1>4, <1>6 DEF FirstOf
<1>9. PICK t : t = SumOf(Over(n, T, m))
  OBVIOUS
<1>10. shares = [i \in (IF t = 0 THEN {} ELSE T) |-> Rounded(1000 * m[i], t)]
  BY <1>3, <1>6, <1>9 DEF AnomalyContributors, Over, m
<1>11. \A i \in T : m[i] \in Nat
  BY <1>6, <1>8
<1> HIDE DEF shares
<1>12. CASE t = 0
  <2>1. DOMAIN shares = {}
    BY <1>10, <1>12
  <2>2. \A i \in T : m[i] = 0
    <3>1. SumOf(Over(n, T, m)) = 0 => \A i \in T : m[i] = 0
      BY <1>6, <1>8, <1>11, TotalOf
    <3> QED
      BY <1>9, <1>12, <3>1
  <2>3. \E i : i \in T
    <3>1. T # {}
      BY <1>7, FS_EmptySet DEF PanelSize
    <3> QED
      BY <3>1
  <2>4. \A j \in (1..n) \ T : m[j] = 0
    BY <1>6, <1>7, <2>2, <2>3
  <2> QED
    BY <1>6, <1>8, <2>1, <2>2, <2>4
<1>13. CASE t # 0
  <2>1. DOMAIN shares = T /\ \A i \in T : shares[i] = Rounded(1000 * m[i], t)
    BY <1>10, <1>13
  <2>2. sum = SumOf(Over(n, T, shares))
    BY <1>6, <2>1 DEF Over
  <2>3. PICK k : k = 1000
    OBVIOUS
  <2>6. k \in Nat /\ \A i \in T : shares[i] = Rounded(k * m[i], t)
    BY <2>1, <2>3
  <2>7. SumOf(Over(n, T, shares)) \in Int /\ Near(2 * SumOf(Over(n, T, shares)), 2 * k, Cardinality(T))
    BY <1>6, <1>8, <1>9, <1>11, <1>13, <2>6, SharesWhole, Zenon
  <2>4. sum \in Int /\ Near(2 * sum, 2 * k, Cardinality(T))
    BY <2>2, <2>7
  <2> HIDE DEF sum
  <2>5. Abs(sum - 1000) <= 2
    BY <1>7, <2>3, <2>4 DEF Near, Abs, PanelSize
  <2> QED
    BY <1>6, <1>7, <2>1, <2>5
<1> QED
  BY <1>12, <1>13

-----------------------------------------------------------------------------
(* The page.                                                               *)

LEMMA ImageFinite ==
    ASSUME NEW A, IsFiniteSet(A), NEW f
    PROVE  IsFiniteSet({f[i] : i \in A})
<1>1. PICK T, g : T = {f[i] : i \in A} /\ g = [i \in A |-> f[i]]
  OBVIOUS
<1>2. g \in Surjection(A, T)
  BY <1>1 DEF Surjection
<1> QED
  BY <1>1, <1>2, FS_Surjection

LEMMA PositionsFinite ==
    ASSUME NEW S, NEW s \in Seq(S)
    PROVE  /\ DOMAIN s = 1..Len(s) /\ Len(s) \in Nat
           /\ IsFiniteSet(DOMAIN s) /\ Cardinality(DOMAIN s) = Len(s)
<1>1. DOMAIN s = 1..Len(s) /\ Len(s) \in Nat
  OBVIOUS
<1>2. 1 \in Int /\ Len(s) \in Int
  BY <1>1
<1>3. IsFiniteSet(1..Len(s)) /\ Cardinality(1..Len(s)) = IF 1 > Len(s) THEN 0 ELSE Len(s) - 1 + 1
  BY <1>2, FS_Interval
<1> QED
  BY <1>1, <1>3

(* The least and the greatest of a sequence of numbers. *)
LEMMA ExtremesOf ==
    ASSUME NEW s \in Seq(Nat), s # <<>>
    PROVE  /\ Range(s) \subseteq Nat /\ IsFiniteSet(Range(s)) /\ Range(s) # {}
           /\ Min(Range(s)) <= Max(Range(s))
<1>1. DOMAIN s = 1..Len(s) /\ Len(s) \in Nat /\ IsFiniteSet(DOMAIN s) /\ Len(s) # 0
  BY PositionsFinite
<1>2. Range(s) = {s[i] : i \in DOMAIN s}
  BY DEF Range
<1>3. IsFiniteSet(Range(s))
  BY <1>1, <1>2, ImageFinite
<1>4. Range(s) \subseteq Nat
  BY <1>1, <1>2
<1>5. Range(s) # {}
  <2>1. 1 \in DOMAIN s
    BY <1>1
  <2> QED
    BY <1>2, <2>1
<1>6. \E x \in Range(s) : \A y \in Range(s) : x <= y
  BY <1>4, <1>5, FirstNumber
<1>7. \E x \in Range(s) : \A y \in Range(s) : y <= x
  BY <1>3, <1>4, <1>5, GreatestExists
<1>8. PICK a, b : a = Min(Range(s)) /\ b = Max(Range(s))
  OBVIOUS
<1>9. a \in Range(s) /\ \A y \in Range(s) : a <= y
  BY <1>6, <1>8 DEF Min
<1>10. b \in Range(s) /\ \A y \in Range(s) : b >= y
  <2>1. \E x \in Range(s) : \A y \in Range(s) : x >= y
    BY <1>4, <1>7
  <2> QED
    BY <1>8, <2>1 DEF Max
<1> QED
  BY <1>3, <1>4, <1>5, <1>8, <1>9, <1>10

(* Where a sequence is below a value, and where it is at most that value.  *)
Below(s, v) == {i \in DOMAIN s : s[i] < v}
UpTo(s, v) == {i \in DOMAIN s : s[i] <= v}

LEMMA BelowCounts ==
    ASSUME NEW s \in Seq(Nat), NEW v
    PROVE  /\ IsFiniteSet(Below(s, v)) /\ Cardinality(Below(s, v)) \in Nat
           /\ IsFiniteSet(UpTo(s, v)) /\ Cardinality(UpTo(s, v)) \in Nat
<1>1. IsFiniteSet(DOMAIN s)
  BY PositionsFinite
<1>2. Below(s, v) \in SUBSET (DOMAIN s) /\ UpTo(s, v) \in SUBSET (DOMAIN s)
  BY DEF Below, UpTo
<1> QED
  BY <1>1, <1>2, FS_Subset, FS_CardinalityType

(* The k-th smallest is there whenever there are k. *)
LEMMA OrderStatisticExists ==
    ASSUME NEW s \in Seq(Nat), NEW k \in 1..Len(s)
    PROVE  /\ OrderStatistic(s, k) \in Nat
           /\ Cardinality(Below(s, OrderStatistic(s, k))) < k
           /\ k <= Cardinality(UpTo(s, OrderStatistic(s, k)))
<1>1. DOMAIN s = 1..Len(s) /\ Len(s) \in Nat /\ IsFiniteSet(DOMAIN s) /\ Cardinality(DOMAIN s) = Len(s)
  BY PositionsFinite
<1>2. s # <<>>
  BY <1>1
<1>3. Range(s) \subseteq Nat /\ IsFiniteSet(Range(s)) /\ Range(s) # {}
  BY <1>2, ExtremesOf
<1>4. Range(s) = {s[i] : i \in DOMAIN s}
  BY DEF Range
<1>5. PICK T : T = {v \in Range(s) : k <= Cardinality(UpTo(s, v))}
  OBVIOUS
<1>6. T # {}
  <2>1. PICK v \in Range(s) : \A y \in Range(s) : y <= v
    BY <1>3, GreatestExists
  <2>2. UpTo(s, v) = DOMAIN s
    BY <1>4, <2>1 DEF UpTo
  <2>3. k <= Cardinality(UpTo(s, v))
    BY <1>1, <2>2
  <2> QED
    BY <1>5, <2>1, <2>3
<1>7. PICK v \in T : \A y \in T : v <= y
  <2>1. T \subseteq Nat
    BY <1>3, <1>5
  <2> QED
    BY <1>6, <2>1, FirstNumber
<1>8. v \in Range(s) /\ v \in Nat /\ k <= Cardinality(UpTo(s, v))
  BY <1>3, <1>5, <1>7
<1>9. ASSUME k <= Cardinality(Below(s, v)) PROVE FALSE
  <2>1. PICK B : B = {s[i] : i \in Below(s, v)}
    OBVIOUS
  <2>2. B \in SUBSET Range(s) /\ B \subseteq Nat
    BY <1>3, <1>4, <2>1 DEF Below
  <2>3. IsFiniteSet(B)
    BY <1>3, <2>2, FS_Subset
  <2>4. Below(s, v) # {}
    <3>1. Cardinality(Below(s, v)) # 0
      BY <1>9, BelowCounts
    <3> QED
      BY <3>1, FS_EmptySet
  <2>5. B # {}
    BY <2>1, <2>4
  <2>6. PICK u \in B : \A y \in B : y <= u
    BY <2>2, <2>3, <2>5, GreatestExists
  <2>7. u \in Range(s) /\ u \in Nat /\ u < v
    BY <2>1, <2>2, <2>6 DEF Below
  <2>8. UpTo(s, u) = Below(s, v)
    <3>1. \A i \in DOMAIN s : s[i] \in Nat /\ (s[i] < v => s[i] <= u)
      BY <1>3, <1>4, <2>1, <2>6 DEF Below
    <3>2. \A i \in DOMAIN s : s[i] <= u => s[i] < v
      BY <1>8, <2>7, <3>1
    <3> QED
      BY <3>1, <3>2 DEF UpTo, Below
  <2>9. u \in T
    BY <1>5, <1>9, <2>7, <2>8
  <2> QED
    BY <1>7, <1>8, <2>7, <2>9
<1>10. Cardinality(Below(s, v)) < k
  BY <1>9, BelowCounts
<1>11. \E w \in Range(s) : Cardinality(Below(s, w)) < k /\ k <= Cardinality(UpTo(s, w))
  BY <1>8, <1>10
<1>12. OrderStatistic(s, k) = CHOOSE w \in Range(s) : Cardinality(Below(s, w)) < k /\ k <= Cardinality(UpTo(s, w))
  BY DEF OrderStatistic, Below, UpTo
<1> QED
  BY <1>3, <1>11, <1>12

LEMMA OrderStatisticMonotone ==
    ASSUME NEW s \in Seq(Nat), NEW k \in 1..Len(s), NEW l \in 1..Len(s), k <= l
    PROVE  OrderStatistic(s, k) <= OrderStatistic(s, l)
<1>1. PICK v, w : v = OrderStatistic(s, k) /\ w = OrderStatistic(s, l)
  OBVIOUS
<1>2. /\ v \in Nat /\ Cardinality(Below(s, v)) < k
      /\ w \in Nat /\ l <= Cardinality(UpTo(s, w))
  BY <1>1, OrderStatisticExists
<1>3. ASSUME w < v PROVE FALSE
  <2>1. \A i \in DOMAIN s : s[i] \in Nat
    OBVIOUS
  <2>2. UpTo(s, w) \in SUBSET Below(s, v)
    BY <1>2, <1>3, <2>1 DEF UpTo, Below
  <2>3. Cardinality(UpTo(s, w)) <= Cardinality(Below(s, v))
    BY <2>2, BelowCounts, FS_Subset
  <2>4. Cardinality(UpTo(s, w)) \in Nat /\ Cardinality(Below(s, v)) \in Nat /\ k \in Nat /\ l \in Nat
    BY BelowCounts
  <2> QED
    BY <1>2, <2>3, <2>4
<1> QED
  BY <1>1, <1>2, <1>3

(* The first quartile is at most the second. *)
LEMMA QuarterLess ==
    ASSUME NEW a \in Int, NEW b \in Int, a <= b
    PROVE  a \div 4 <= b \div 4
  OBVIOUS

LEMMA QuantilesInOrder ==
    ASSUME NEW s \in Seq(Nat), 4 <= Len(s)
    PROVE  Quantile(s, 1) <= Quantile(s, 2)
<1>1. PICK n, i, j : n = Len(s) /\ i = (1 * (n + 1)) \div 4 /\ j = (2 * (n + 1)) \div 4
  OBVIOUS
<1>2. PICK d, e : d = 1 * (n + 1) - 4 * i /\ e = 2 * (n + 1) - 4 * j
  OBVIOUS
<1>3. n \in Nat /\ 4 <= n
  BY <1>1
<1>4. i \in Int /\ j \in Int /\ d \in 0..3 /\ e \in 0..3
  <2>1. PICK x, y : x = 1 * (n + 1) /\ y = 2 * (n + 1)
    OBVIOUS
  <2>2. x \in Int /\ y \in Int /\ 4 \in Nat \ {0}
    BY <1>3, <2>1
  <2>3. i \in Int /\ j \in Int /\ x % 4 \in 0..(4 - 1) /\ x = 4 * i + (x % 4)
        /\ y % 4 \in 0..(4 - 1) /\ y = 4 * j + (y % 4)
    BY <1>1, <2>1, <2>2, Quotient
  <2>4. d = x - 4 * i /\ e = y - 4 * j
    BY <1>2, <2>1
  <2>5. d = x % 4 /\ e = y % 4
    BY <2>2, <2>3, <2>4
  <2> QED
    BY <2>3, <2>5
<1>5. 1 <= i /\ i + 1 <= j /\ j + 1 <= n
  BY <1>2, <1>3, <1>4
<1>6. i \in 1..n /\ i + 1 \in 1..n /\ j \in 1..n /\ j + 1 \in 1..n
  BY <1>3, <1>4, <1>5
<1>7. PICK p, q, r, t : /\ p = OrderStatistic(s, i) /\ q = OrderStatistic(s, i + 1)
                        /\ r = OrderStatistic(s, j) /\ t = OrderStatistic(s, j + 1)
  OBVIOUS
<1>8. p \in Nat /\ q \in Nat /\ r \in Nat /\ t \in Nat
  BY <1>1, <1>6, <1>7, OrderStatisticExists
<1>9. p <= q /\ q <= r /\ r <= t
  <2>1. i <= i + 1 /\ j <= j + 1
    BY <1>4
  <2> QED
    BY <1>1, <1>5, <1>6, <1>7, <2>1, OrderStatisticMonotone
<1>10. /\ Quantile(s, 1) = (p * (4 - d) + q * d) \div 4
       /\ Quantile(s, 2) = (r * (4 - e) + t * e) \div 4
  BY <1>1, <1>2, <1>7 DEF Quantile
<1>11. p * (4 - d) + q * d \in Int /\ r * (4 - e) + t * e \in Int
  BY <1>4, <1>8
<1>12. p * (4 - d) + q * d <= 4 * q
  <2>1. d = 0 \/ d = 1 \/ d = 2 \/ d = 3
    BY <1>4
  <2> QED
    BY <1>8, <1>9, <2>1
<1>13. 4 * r <= r * (4 - e) + t * e
  <2>1. e = 0 \/ e = 1 \/ e = 2 \/ e = 3
    BY <1>4
  <2> QED
    BY <1>8, <1>9, <2>1
<1>14. p * (4 - d) + q * d <= r * (4 - e) + t * e
  BY <1>8, <1>9, <1>11, <1>12, <1>13
<1> QED
  BY <1>10, <1>11, <1>14, QuarterLess

LEMMA HoursTyped ==
    ASSUME NEW h \in Seq(Payment)
    PROVE  Hours(h) \in Seq(Nat) /\ Len(Hours(h)) = Len(h)
<1>1. \A p \in Payment : HourOf(p) \in Nat
  <2> TAKE p \in Payment
  <2>1. p.at \in Nat
    BY PaymentFields
  <2> QED
    BY <2>1 DEF HourOf, Hour
<1>2. Hours(h) = [i \in 1..Len(h) |-> HourOf(h[i])] /\ Len(h) \in Nat
  BY DEF Hours
<1>3. Hours(h) \in [1..Len(h) -> Nat]
  BY <1>1, <1>2
<1> QED
  BY <1>2, <1>3

LEMMA BaselineHours ==
    ASSUME NEW h \in Seq(Payment), h # <<>>
    PROVE  Baseline(h).hours[1] <= Baseline(h).hours[2]
<1>1. PICK s : s = Hours(h)
  OBVIOUS
<1>2. s \in Seq(Nat) /\ Len(s) = Len(h) /\ Len(s) # 0 /\ s # <<>>
  BY <1>1, HoursTyped
<1>3. Baseline(h).hours = TypicalHours(h)
  BY DEF Baseline
<1>4. CASE Len(h) >= 4
  <2>1. TypicalHours(h) = <<Quantile(s, 1), Quantile(s, 2)>>
    BY <1>1, <1>4 DEF TypicalHours
  <2>2. Quantile(s, 1) <= Quantile(s, 2)
    BY <1>2, <1>4, QuantilesInOrder
  <2> QED
    BY <1>3, <2>1, <2>2
<1>5. CASE ~ (Len(h) >= 4)
  <2>1. TypicalHours(h) = <<Min(Range(s)), Max(Range(s))>>
    BY <1>1, <1>5 DEF TypicalHours
  <2>2. Min(Range(s)) <= Max(Range(s))
    BY <1>2, ExtremesOf
  <2> QED
    BY <1>3, <2>1, <2>2
<1> QED
  BY <1>4, <1>5

LEMMA ThoseHas ==
    ASSUME NEW S, NEW s \in Seq(S), NEW A
    PROVE  \A j \in DOMAIN s : s[j] \in A => \E i \in DOMAIN Those(s, A) : Those(s, A)[i] = s[j]
<1> DEFINE Has(u) == \A j \in DOMAIN u : u[j] \in A => \E i \in DOMAIN Those(u, A) : Those(u, A)[i] = u[j]
           I == {u \in Seq(S) : Has(u)}
<1>1. <<>> \in I
  OBVIOUS
<1>2. ASSUME NEW u \in Seq(S), NEW x \in S, u \in I PROVE Append(u, x) \in I
  <2>1. PICK a, b, v, n : a = Those(u, A) /\ b = Those(v, A) /\ v = Append(u, x) /\ n = Len(u)
    OBVIOUS
  <2>2. a \in Seq(S) /\ v \in Seq(S) /\ n \in Nat
    BY <2>1, ThoseTyped
  <2>3. DOMAIN v = 1..(n + 1) /\ v[n + 1] = x /\ DOMAIN u = 1..n /\ \A j \in 1..n : v[j] = u[j]
    BY <2>1
  <2>4. \A j \in DOMAIN u : u[j] \in A => \E i \in DOMAIN a : a[i] = u[j]
    BY <1>2, <2>1
  <2>5. b = IF x \in A THEN Append(a, x) ELSE a
    BY <2>1, ThoseAppend
  <2>6. /\ \A i \in DOMAIN a : i \in DOMAIN b /\ b[i] = a[i]
        /\ x \in A => \E i \in DOMAIN b : b[i] = x
    <3>1. CASE x \notin A
      BY <2>5, <3>1
    <3>2. CASE x \in A
      <4>1. b = Append(a, x)
        BY <2>5, <3>2
      <4>2. /\ DOMAIN a = 1..Len(a) /\ Len(a) \in Nat /\ DOMAIN b = 1..(Len(a) + 1)
            /\ b[Len(a) + 1] = x /\ \A i \in 1..Len(a) : b[i] = a[i]
        BY <2>2, <4>1
      <4> QED
        BY <4>2
    <3> QED
      BY <3>1, <3>2
  <2>7. ASSUME NEW j \in DOMAIN v, v[j] \in A PROVE \E i \in DOMAIN b : b[i] = v[j]
    <3>1. CASE j \in 1..n
      BY <2>3, <2>4, <2>6, <2>7, <3>1
    <3>2. CASE j = n + 1
      BY <2>3, <2>6, <2>7, <3>2
    <3> QED
      BY <2>2, <2>3, <3>1, <3>2
  <2> QED
    BY <2>1, <2>2, <2>7
<1>3. s \in I
  <2>1. \A u \in Seq(S), x \in S : u \in I => Append(u, x) \in I
    BY <1>2
  <2> HIDE DEF I
  <2> QED
    BY <1>1, <2>1, SeqClimb
<1> QED
  BY <1>3

(* The payments of the last days, and those of the last ninety. *)
LEMMA PageSequences ==
    ASSUME NEW h \in Seq(Payment), InOrder(h), h # <<>>
    PROVE  LET R == Recent(h, 30)
               L == WithinDays(h, h[Len(h)].at, 90)
           IN  /\ R \in Seq(Payment) /\ R # <<>> /\ L \in Seq(Payment) /\ L # <<>>
               /\ \A i \in DOMAIN R : \E j \in DOMAIN L : L[j] = R[i]
<1>1. PICK n, now, R, L : /\ n = Len(h) /\ now = h[Len(h)].at
                          /\ R = Recent(h, 30) /\ L = WithinDays(h, h[Len(h)].at, 90)
  OBVIOUS
<1>2. n \in Nat /\ n # 0 /\ DOMAIN h = 1..n /\ n \in DOMAIN h
  BY <1>1
<1>3. \A i \in DOMAIN h : h[i] \in Payment /\ h[i].at \in Nat
  BY PaymentFields
<1>4. now \in Nat /\ \A i \in DOMAIN h : h[i].at <= now
  <2>1. now \in Nat
    BY <1>1, <1>2, <1>3
  <2>2. \A i \in DOMAIN h : i < n \/ i = n
    BY <1>2
  <2> QED
    BY <1>1, <1>2, <1>3, <2>1, <2>2 DEF InOrder
<1> DEFINE A == {x \in Payment : x.at >= now - 30 * Day}
           B == {x \in Payment : (now - x.at) \div Day <= 90}
<1>5. R = Those(h, A) /\ L = Those(h, B)
  BY <1>1 DEF Recent, WithinDays
<1>6. ASSUME NEW x \in Payment, x \in A, x.at <= now PROVE x \in B
  <2>1. PICK a : a = x.at
    OBVIOUS
  <2>2. a \in Nat /\ a <= now /\ a >= now - 43200
    BY <1>6, <2>1, PaymentFields DEF Day, Hour
  <2>3. (now - a) \div 1440 <= 90
    BY <1>4, <2>2
  <2> QED
    BY <2>1, <2>3 DEF Day, Hour
<1>7. h[n] \in A
  BY <1>1, <1>2, <1>3, <1>4 DEF Day, Hour
<1>8. h[n] \in B
  BY <1>2, <1>3, <1>4, <1>6, <1>7
<1> HIDE DEF A, B
<1>9. R \in Seq(Payment) /\ L \in Seq(Payment)
  BY <1>5, ThoseTyped
<1>10. R # <<>> /\ L # <<>>
  <2>1. \E i \in DOMAIN Those(h, A) : Those(h, A)[i] = h[n]
    BY <1>2, <1>7, ThoseHas
  <2>2. \E i \in DOMAIN Those(h, B) : Those(h, B)[i] = h[n]
    BY <1>2, <1>8, ThoseHas
  <2> QED
    BY <1>5, <2>1, <2>2
<1>11. ASSUME NEW i \in DOMAIN R PROVE \E j \in DOMAIN L : L[j] = R[i]
  <2>1. R[i] \in A /\ \E k \in DOMAIN h : h[k] = R[i]
    BY <1>5, ThoseFrom
  <2>2. PICK k \in DOMAIN h : h[k] = R[i]
    BY <2>1
  <2>3. h[k] \in A /\ h[k] \in Payment /\ h[k].at <= now
    BY <1>3, <1>4, <2>1, <2>2
  <2>4. h[k] \in B
    BY <1>6, <2>3
  <2>5. \E j \in DOMAIN Those(h, B) : Those(h, B)[j] = h[k]
    BY <2>4, ThoseHas
  <2> QED
    BY <1>5, <2>2, <2>5
<1> QED
  BY <1>1, <1>9, <1>10, <1>11

LEMMA FewerMerchants ==
    ASSUME NEW r \in Seq(Payment), NEW l \in Seq(Payment), r # <<>>, l # <<>>,
           \A i \in DOMAIN r : \E j \in DOMAIN l : l[j] = r[i]
    PROVE  Baseline(r).merchants <= Baseline(l).merchants
<1>1. PICK P, Q, f : /\ P = {r[i].merchant : i \in DOMAIN r} /\ Q = {l[i].merchant : i \in DOMAIN l}
                     /\ f = [i \in DOMAIN l |-> l[i].merchant]
  OBVIOUS
<1>2. Q = {f[i] : i \in DOMAIN l}
  BY <1>1
<1>3. IsFiniteSet(Q)
  <2>1. IsFiniteSet(DOMAIN l)
    BY PositionsFinite
  <2>2. PICK A : A = DOMAIN l
    OBVIOUS
  <2>3. IsFiniteSet({f[i] : i \in A})
    BY <2>1, <2>2, ImageFinite
  <2>4. Q = {f[i] : i \in A}
    BY <1>2, <2>2
  <2> QED
    BY <2>3, <2>4
<1>4. P \in SUBSET Q
  BY <1>1
<1>5. Cardinality(P) <= Cardinality(Q)
  BY <1>3, <1>4, FS_Subset
<1>6. Baseline(r).merchants = Cardinality(P) /\ Baseline(l).merchants = Cardinality(Q)
  BY <1>1 DEF Baseline
<1> QED
  BY <1>5, <1>6

LEMMA MedianTyped ==
    ASSUME NEW h \in Seq(Payment)
    PROVE  MedianAmount(h) \in Nat
<1>1. CASE h = <<>>
  BY <1>1 DEF MedianAmount
<1>2. CASE h # <<>>
  <2>1. PICK s, n : s = Amounts(h) /\ n = Len(h)
    OBVIOUS
  <2>2. n \in Nat /\ n # 0
    BY <1>2, <2>1
  <2>3. s = [i \in 1..n |-> h[i].amount] /\ \A i \in 1..n : h[i].amount \in Nat
    BY <2>1, PaymentFields DEF Amounts
  <2>4. s \in [1..n -> Nat]
    BY <2>3
  <2>5. s \in Seq(Nat) /\ Len(s) = n
    BY <2>2, <2>3, <2>4
  <2>6. (n + 1) \div 2 \in 1..n /\ (n + 2) \div 2 \in 1..n
    BY <2>2
  <2>7. OrderStatistic(s, (n + 1) \div 2) \in Nat /\ OrderStatistic(s, (n + 2) \div 2) \in Nat
    BY <2>5, <2>6, OrderStatisticExists
  <2>8. MedianAmount(h) = OrderStatistic(s, (n + 1) \div 2) + OrderStatistic(s, (n + 2) \div 2)
    BY <1>2, <2>1, <2>5 DEF MedianAmount, DoubleMedian
  <2> QED
    BY <2>7, <2>8
<1> QED
  BY <1>1, <1>2

(* Nothing drifts gradually from itself. *)
LEMMA DriftFromOther ==
    ASSUME NEW h \in Seq(Payment), DetectDrift(h) = "gradual"
    PROVE  Recent(h, 30) # WithinDays(h, h[Len(h)].at, 90)
<1>1. SUFFICES ASSUME Recent(h, 30) = WithinDays(h, h[Len(h)].at, 90) PROVE FALSE
  OBVIOUS
<1>2. PICK l : l = WithinDays(h, h[Len(h)].at, 90)
  OBVIOUS
<1>3. SpendingChanged(l, l) \/ Relocated(Centroid(l), Centroid(l))
  BY <1>1, <1>2 DEF DetectDrift
<1>4. l \in Seq(Payment)
  BY <1>2, ThoseTyped DEF WithinDays
<1>5. ~ SpendingChanged(l, l)
  <2>1. PICK m : m = MedianAmount(l)
    OBVIOUS
  <2>2. m \in Nat
    BY <1>4, <2>1, MedianTyped
  <2> QED
    BY <2>1, <2>2 DEF SpendingChanged
<1>6. ~ Relocated(Centroid(l), Centroid(l))
  <2>1. PICK a, b : a = Centroid(l).sum /\ b = Centroid(l).count
    OBVIOUS
  <2>2. a \in Int /\ b \in Nat
    BY <1>4, <2>1, CentroidTyped
  <2>3. a * b - a * b = 0
    BY <2>2
  <2>4. Abs(a * b - a * b) = 0
    BY <2>3 DEF Abs
  <2>5. b > 0 => 100 * b * b > 0
    BY <2>2
  <2> QED
    BY <2>1, <2>2, <2>4, <2>5 DEF Relocated, GradualKm
<1> QED
  BY <1>3, <1>5, <1>6

LEMMA LatestFirst ==
    ASSUME NEW h \in Seq(Payment), InOrder(h)
    PROVE  \A i \in DOMAIN RecentTransactions(h) :
               i > 1 => RecentTransactions(h)[i].at <= RecentTransactions(h)[i - 1].at
<1>1. PICK n, k, s : n = Len(h) /\ k = Min({RecentLength, Len(h)}) /\ s = RecentTransactions(h)
  OBVIOUS
<1>2. n \in Nat /\ DOMAIN h = 1..n
  BY <1>1
<1>3. k \in 0..n
  <2>1. 10 \in Int /\ n \in Int
    BY <1>2
  <2>2. k = IF 10 <= n THEN 10 ELSE n
    BY <1>1, <2>1, SmallerOfTwo DEF RecentLength
  <2> QED
    BY <1>2, <2>2
<1>4. s = SubSeq(Reverse(h), 1, k)
  BY <1>1 DEF RecentTransactions
<1>5. PICK r : r = Reverse(h)
  OBVIOUS
<1>6. r = [i \in 1..n |-> h[(n - i) + 1]]
  BY <1>1, <1>5 DEF Reverse
<1>7. DOMAIN s = 1..k /\ \A i \in 1..k : s[i] = r[i]
  <2>1. r \in [1..n -> Payment] /\ \A i \in 1..k : r[i] \in Payment
    BY <1>2, <1>3, <1>6
  <2>2. k \in Int /\ 1 \in Int
    BY <1>3
  <2>3. /\ SubSeq(r, 1, k) \in Seq(Payment)
        /\ Len(SubSeq(r, 1, k)) = IF 1 <= k THEN k - 1 + 1 ELSE 0
        /\ \A i \in 1..(k - 1 + 1) : SubSeq(r, 1, k)[i] = r[1 + i - 1]
    BY <2>1, <2>2, SubSeqProperties
  <2>4. s = SubSeq(r, 1, k) /\ s \in Seq(Payment) /\ Len(s) = k
    BY <1>3, <1>4, <1>5, <2>3
  <2>5. \A i \in 1..k : i \in 1..(k - 1 + 1) /\ 1 + i - 1 = i
    BY <1>3
  <2> QED
    BY <2>3, <2>4, <2>5
<1>8. ASSUME NEW i \in DOMAIN s, i > 1 PROVE s[i].at <= s[i - 1].at
  <2>1. i \in 1..k /\ i - 1 \in 1..k /\ i \in 1..n /\ i - 1 \in 1..n
    BY <1>2, <1>3, <1>7, <1>8
  <2>2. s[i] = h[(n - i) + 1] /\ s[i - 1] = h[(n - (i - 1)) + 1]
    BY <1>6, <1>7, <2>1
  <2>3. /\ (n - i) + 1 \in DOMAIN h /\ (n - (i - 1)) + 1 \in DOMAIN h
        /\ (n - i) + 1 < (n - (i - 1)) + 1
    BY <1>2, <2>1
  <2> QED
    BY <2>2, <2>3 DEF InOrder
<1> QED
  BY <1>1, <1>8

LEMMA PageHolds ==
    ASSUME FeaturesInv
    PROVE  PageConsistent
<1>1. CASE history = <<>>
  BY <1>1 DEF PageConsistent
<1>2. CASE history # <<>>
  <2>1. history \in Seq(Payment) /\ InOrder(history)
    BY DEF FeaturesInv
  <2>2. PICK R, L, page : /\ R = Recent(history, 30)
                          /\ L = WithinDays(history, history[Len(history)].at, 90)
                          /\ page = CustomerPage(history, verdicts)
    OBVIOUS
  <2>3. /\ R \in Seq(Payment) /\ R # <<>> /\ L \in Seq(Payment) /\ L # <<>>
        /\ \A i \in DOMAIN R : \E j \in DOMAIN L : L[j] = R[i]
    BY <1>2, <2>1, <2>2, PageSequences
  <2>4. page.longTerm = Baseline(L) /\ page.recent = Baseline(R) /\ page.drift = DetectDrift(history)
    BY <2>2 DEF CustomerPage
  <2>5. page.recent.merchants <= page.longTerm.merchants
    BY <2>3, <2>4, FewerMerchants
  <2>6. page.recent.hours[1] <= page.recent.hours[2] /\ page.longTerm.hours[1] <= page.longTerm.hours[2]
    BY <2>3, <2>4, BaselineHours
  <2>7. page.drift = "gradual" => R # L
    BY <2>1, <2>2, <2>4, DriftFromOther
  <2>8. \A i \in DOMAIN RecentTransactions(history) :
           i > 1 => RecentTransactions(history)[i].at <= RecentTransactions(history)[i - 1].at
    BY <2>1, LatestFirst
  <2> QED
    BY <2>2, <2>5, <2>6, <2>7, <2>8 DEF PageConsistent
<1> QED
  BY <1>1, <1>2

LEMMA ReportHolds ==
    ASSUME FeaturesInv
    PROVE  ReportHonest
<1>1. verdicts \in Seq(Labels)
  BY ProfileTyped DEF ProfileTypeOK
<1> QED
  BY <1>1, ActionHolds, PatternHolds, TrustedHolds, PanelHolds, PageHolds, StatsHold DEF ReportHonest

(* What the analyst reads of a payment and of its customer is true of what *)
(* was scored and decided, whatever the history and the verdicts.          *)
THEOREM ReportCorrect == ProfileSpec => []ReportHonest
  BY FeaturesInvariance, ReportHolds, PTL
=============================================================================
