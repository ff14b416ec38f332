--------------------------- MODULE MCDecisionEngine ---------------------------
(* The instance: boundary scores, two cost models, three histories, and    *)
(* payments that differ in what one of the evidence services looks at.     *)
EXTENDS Authorization

-----------------------------------------------------------------------------
(* The engine: scores at the boundaries of the tiers and those of ingress; *)
(* the default costs and a model in which every action is free.            *)
MCScores == {0, 5, 6, 10, 25, 26, 45, 50, 51}
Free ==
    [fraud |-> 0, falseDecline |-> 0, monitor |-> 0, challenge |-> 0, review |-> 0, reversal |-> 0,
     monitorRate |-> 0, challengeRate |-> 0, reviewRate |-> 0, reversalRate |-> 0]
MCCosts == {DefaultCosts, Free}
MCSent == {"CARD", "FEDNOW"}

MCNoRequest ==
    [score |-> 0, band |-> Unset, tier |-> Unset, rail |-> Unset, path |-> Unset, outcome |-> "PENDING",
     costs |-> DefaultCosts, reversal |-> FALSE, blocked |-> FALSE, evidence |-> TRUE, explained |-> TRUE]

-----------------------------------------------------------------------------
(* A customer: one usual history, one who has moved and one who spends     *)
(* less.  The next payments are a jump of 300 km in four minutes, and one  *)
(* that is recorded late and has no location.                              *)
Good == [mcc |-> 10, device |-> 1, network |-> 1, travel |-> 0, newDevice |-> 0]
Bad == [mcc |-> 90, device |-> 0, network |-> -1, travel |-> 1, newDevice |-> 1]
MCAmountLog == [a \in {50, 200} |-> IF a = 50 THEN 852 ELSE 990]

P(at, amount, merchant, place, shop, signals) ==
    [at |-> at, amount |-> amount, merchant |-> merchant, place |-> place, shop |-> shop,
     signals |-> signals]
Start == 40 * Day + 10 * Hour
Usual(at) == P(at, 50, 1, 0, 0, Good)
MCSeeds ==
    {<<Usual(0), Usual(Start - Day), P(Start - 60, 50, 2, Unknown, 0, Good), Usual(Start)>>,
     [i \in 1..7 |-> IF i < 4 THEN P(i * Day, 50, 1, 1000, 1000, Good) ELSE Usual(Start + i - 7)],
     [i \in 1..9 |-> IF i < 6 THEN P(i * Day, 200, 1, 0, 0, Good) ELSE Usual(Start + i - 9)]}
MCPayments ==
    {P(Start + 4, 200, 2, Unknown, 300, Bad), P(Start + 2, 50, 1, Unknown, Unknown, Good)}
MCPercents == {20, 80}
MCRisks == {60}
MCFindings == {{12, 210}}
MCClientVectors ==
    [p \in MCPayments |->
        IF p.signals = Bad THEN {}
        ELSE {[amountLog |-> 0, velocity |-> 9, signals |-> Bad, hour |-> 3, weekend |-> 1, distance |-> 0]}]
MCVerdicts == {"confirmed_fraud", "false_alarm", "unclear"}

-----------------------------------------------------------------------------
(* A payment under the rules of two merchants, and payments that differ    *)
(* from it in what one of the services looks at.                           *)
Plain ==
    [merchant |-> 1, mcc |-> 1, amount |-> 10, spentToday |-> 30, velocity |-> 3, tokenized |-> TRUE,
     authenticated |-> FALSE, exempt |-> FALSE, network |-> TRUE, device |-> "TRUSTED",
     deviceRequired |-> FALSE, failClosed |-> TRUE, average |-> 10, balance |-> Unset,
     accountAge |-> Unset, age |-> 0, signals |-> <<Unset, Unset, Unset>>, previous |-> Unset,
     minutes |-> 0, score |-> 0, eventAges |-> {}, macroContext |-> FALSE, providerFails |-> FALSE]

AboutPolicy ==
    {[Plain EXCEPT !.merchant = m, !.mcc = c, !.amount = a, !.velocity = v] :
        m \in 1..2, c \in 1..2, a \in {10, 21}, v \in {3, 6}}
AboutCompliance ==
    {[Plain EXCEPT !.amount = a, !.tokenized = t, !.authenticated = s, !.exempt = e, !.network = n,
                   !.device = d, !.deviceRequired = q, !.failClosed = c] :
        a \in {10, 11, 30, 31}, t, s, e, q, c \in BOOLEAN, n \in Trust,
        d \in {"TRUSTED", "UNTRUSTED", "UNKNOWN"}}
AboutFinances ==
    {[Plain EXCEPT !.amount = a, !.spentToday = d, !.average = v, !.balance = b, !.accountAge = g, !.age = s] :
        a \in {0, 10, 11, 24, 38, 39, 50}, d \in {Unset, 0, 45}, v \in {0, 10, Unset}, b \in {Unset, 20},
        g \in {Unset, 29, 30}, s \in {Unset, -1, 300, 301}}
AboutSurroundings ==
    {[Plain EXCEPT !.signals = <<x, y, z>>, !.age = s] :
        x, y, z \in {Unset, 0, 59, 60, 100}, s \in {Unset, 900, 901}}
AboutTravel ==
    {[Plain EXCEPT !.previous = p, !.minutes = m] : p \in {Unset, 0, 40}, m \in 0..20}
AboutCases ==
    {[Plain EXCEPT !.score = s, !.eventAges = e, !.macroContext = m] :
        s \in 0..100, e \in {{}, {31}, {Unset, 30}}, m \in BOOLEAN}
MCFacts ==
    AboutPolicy \cup AboutCompliance \cup AboutFinances \cup AboutSurroundings
    \cup AboutTravel \cup AboutCases

Rule(merchant, mccs, perTxn, daily, velocity, enforced) ==
    [merchant |-> merchant, mccs |-> mccs, perTxn |-> perTxn, daily |-> daily, velocity |-> velocity,
     enforced |-> enforced]
MCMerchantRules ==
    {Rule(1, {1}, 20, Unset, Unset, TRUE), Rule(1, {}, Unset, 50, 5, TRUE),
     Rule(1, {2}, 0, 0, 1, FALSE), Rule(2, {2}, Unset, Unset, 5, TRUE)}
=============================================================================
