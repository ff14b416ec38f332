# VeriPay: a TLA+ development

TLA+ models of the VeriPay payment-fraud platform, TLC configurations that check
them on small instances, and TLAPS proofs about them for every value of the
constants. `PROJECT.json` holds the tables behind this text: the source lines each
definition models, the runs, the mutants each property is tested with, the hazards
and the theorems.

Contents: 1 the system, 2 inventory, 3 what is hard, 4 the modules, 5 the runs and
their bounds, 6 fairness, 7 the proofs, 8 where code and text disagree, 9 what is
not modelled, 10 the plan.

## 1. The system

VeriPay is a set of small FastAPI services. Four facts shape every model:

- Handlers are plain `def` functions, so the framework runs them on a **pool of
  threads**; the threads of a service share in-memory repositories (dictionaries and
  lists of *mutable* objects) and **no service takes a lock**. Every read or write
  of something another thread may write is therefore a step of its own.
- **Nothing is persisted** except the model registry and the model artifacts, which
  are files. A restarted service starts empty; crashes are modelled where a file
  outlives them (`ModelPromotion`) and nowhere else.
- Services call each other over HTTP. The calls of the scoring pipeline must
  succeed; those to the graph engine, the feedback log and the monitor are
  *best effort*: a failure is logged and the handler goes on.
- There are no queues, no retries and no background jobs: what a request does not
  do is not done by anything else. That is why only the run about time-outs needs
  fairness.

A payment's way: `ingress` scores and answers at once; the analyst console's backend
(`analyst_api`) sends the same transaction through the models, the graph
and `risk_fusion` to `decision_engine`; a decision that asks for friction leads to a
session of `auth_orchestration`; disputed payments become cases of `dispute_engine`;
analysts' verdicts go to `feedback_loop` and to `model_monitor`, which retrains and
promotes the model `supervised_model` serves.

## 2. Inventory

| component | state it keeps | operations that change it | what makes it correct | module |
|---|---|---|---|---|
| auth_orchestration | sessions: tier, expiry, outcome, lock, escalation | create, complete, expire (always fails) | an approval has a live token and, where the completion reports APPROVED, its tier's evidence; outcome and flags fit the tier; a session no two completions contest is settled once | `VerificationSession` |
| token_vault | token records: uses, limit, status | create, consume | a used-up token closes; counts are not invented; the limit is kept by workers that do not meet | `TokenVault` |
| device_integrity | attestation challenges | issue, verify | a verdict rests on the device challenged; a nonce whose attestation was answered is refused from then on | `DeviceChallenge`, speed check in `PaymentEvidence` |
| model_monitor, ml/registry, ml/supervised, supervised_model | `latest/` artifacts, `registry.json` | retrain and promote, train, rollback, load | the gate, persist before register, no dangling pointer; what gate and history lose they lose to a writer that came between; scores of persisted models | `ModelPromotion` |
| model_monitor: window; ml/drift | deque of observations, labels, reference profile | observe, label, collect, promote | the window is the latest of what was observed; drift is seen; a promoted profile fits its own data; rows of one transaction agree | `ObservationWindow` |
| dispute_engine (and its copies in both portals) | cases, idempotency keys, evidence | create, transition, evidence | money is reversed only along the table; one case per key; names resolve | `DisputeCase` |
| analyst_api, feedback_loop, monitor labels | scores, rows, alerts, lookups, verdicts, log, labels | score, explain, feedback | queue and history agree; lookups resolve; repeated requests leave one copy for each thread; the monitor follows the analysts | `AnalystDesk` |
| analyst_api: profiles, features, adjustments; risk_fusion | a customer's payments and verdicts | record, judge, score | features are causal; verdicts count in one direction; the score decides | `CustomerProfile`, `ScorePipeline` |
| analyst_api: reports; investigation_agent | none | explain, page, statistics | what the analyst reads is true of what was scored | `CaseReport` |
| decision_engine, risk policy, ingress authorization | none | decide, authorize | nothing passes unearned; reviews of HIGH payments reach an analyst; two implementations of one policy agree | `RiskPolicy`, `DecisionEngine` |
| compliance_engine, merchant_policy, financial_context, external_context | merchants' rules | save, replace, delete, evaluate | which rule counts; worse evidence stays worse; an unknown is not a zero | `PaymentEvidence` |
| graph_engine, ml/graph | customers, merchants, events, flags | observe, lazy seeding | a transaction counts once; indexes agree; a ring is the connected component | `GraphStore`, `GraphEngine` |
| audit_store | events, states | record, save | an event is recorded once | `AuditTrail` |
| business_portal, fi_ops_portal | views, tokens of a setting | routes behind a role guard | nobody is told or changes anything without a role of that portal | `PortalAccess`; disputes in `DisputeCase` |
| anomaly_model, supervised_model: inference | none | score | what stands in when they are missing | in `ScorePipeline` |
| rule_engine | none | none (tests of one request's fields) | | no |
| feature_store, banking_gateway, corporate_spend, merchant_ingress, streaming | none | none (scaffolds) | | no |
| web, mobile, infra, proto, scripts, datasets | | | | no |

Interactions between components are shared state of threads (the repositories), files
shared by processes (`ModelPromotion`: monitor, trainer, rollback and scorer are
different processes over one directory), and calls that may fail (`AnalystDesk` to the
pipeline, the graph engine, the feedback log and the monitor; `ScorePipeline` from each
source that may be missing).

## 3. What is hard here

`PROJECT.json` lists the hazards at their lines. The families are

- *check, then act* on a shared object without a lock: sessions, tokens, cases,
  retained scores, feedback keys, the promotion gate;
- *read again what another thread may have written*: the flags of a session are
  computed from its outcome read back, `uses += 1`, the verdicts read twice in one
  scoring, the clock read twice in one completion;
- *several stores that belong together*: outcome and flags, case and key, row and
  alert and lookup, artifact and sidecar and profile and registry entry;
- *a failure between two of them*: the pipeline, a promotion, a registry rewrite;
- *a stored thing that outlives its reason*: a transition saving a copy of the case
  it read, a rollback that moves the pointer and not the file;
- *one rule written several times*: tiers and actions in four services, the features
  in two modes, the trust of a customer in the score and on the page, constants of
  speed and of patterns;
- *an answer that is missing*: a model, a context or a profile that is not there must
  not read as a good or a bad answer.

A typical property is therefore *conditional*: the code does not promise that two
workers at once consume a token once, and it does promise that a token one worker
consumed kept its limit, or that whoever reached the limit closed the token. The
condition names the race the code is exposed to; dropping it gives a formula TLC
refutes in a few steps. Where a text of the repository rules such a race out, the
unconditional formula is a run of its own that TLC finds violated (section 8): two
completions that settle a session with its one-use token, two requests that score one
transaction twice, two promotions past one champion. Where no text does, the condition
stays and the race is *bounded or excluded, not caught*, which the notes of the hazards
say: two consumptions may share the last use of a token; two creates under one key may
open two cases; a stale transition may reopen a case; a version may be lost to a
concurrent rewrite of the registry; two attestations may both be answered; an event id
may be recorded by each of two threads; a ring or a score may be read from a graph that
grows meanwhile; a label that could not be forwarded stays behind.

## 4. The modules

Every component has a module; an `MC` module gives the constants of one or several
their values, and a `_proofs` module holds the theorems. Components that share no
state are checked by one run (`MCRecords`: sessions and the desk; `MCStores`: models,
tokens and disputes; `MCServices`; `MCDecisionEngine`, whose loads are put together in
`Authorization`): the initial state chooses the *load*, and a behaviour takes steps of
that component only, so that the run explores the sum of their state spaces and not the
product. Operators keep the source's names where they have one, and bear the name of
their component where two modules of a run would share one (`DisputeNext`, `DeskInit`).
History variables, which no code keeps and no guard reads, are declared with the word
*history*. A definition whose comment starts with *Variant* is a plausible bug of the
definition below it; nothing refers to it, and each property is shown to fail when the
definition is replaced by its variant.

**VerificationSession** (auth_orchestration). A worker is a thread serving one
`POST .../complete`; its `pc` walks through fetch, admission (pending, own token, not
expired), decision (second reading of the clock, workflow of the tier) and the three
stores with the two reads between them. Steps that touch only locals or fields that
are never rewritten are merged with the step before. A request is abstracted to what
the code distinguishes: whether the token is the session's own, the outcome claimed,
the set of evidence that satisfies the verifier. Creation is one step, since its
identifiers leave the service only with the answer.

**VerificationLifecycle** is what a session promises its caller: opened pending,
settled at most once, in one step, with outcome and flags of its tier.
`VerificationSession` implements it, for any number of workers, under the mapping that
shows a session as pending until its settling worker has made its last store, and for
good once two completions contest it (`Hidden`): what is promised ends with the race.

**TokenVault** (token_vault). Records are objects, and `vault` maps an id to one of
them, because a consumption holds on to the object it fetched while a creation puts
another one under the same id, and saves it back. `is_usable` reads the status and then
the count, which are two steps; `uses += 1` is a read and a store.

**ModelPromotion** (model_monitor, ml/registry, ml/supervised, supervised_model). The
state is the three files of `latest/`, each a model, missing, or `Torn` between
truncation and close, and `registry.json` likewise. A job is a retraining, a training
in place or a rollback; every open and every close is a step, in the order the code
writes; `Die` ends a job anywhere. Scoring requests load the artifact and then the
sidecar. A model is its version and its held-out ROC-AUC and PR-AUC, either of which may
be missing; the gate compares the one both models have, ROC-AUC first. `overtaken` is a
history variable: another job wrote the registry since this one was started or passed
the gate. Two jobs with one file open are taken to leave what the later close wrote.

**DisputeCase** (dispute_engine and the copies in fi_ops_portal and business_portal).
One step per access to a dictionary: key, identifier, case, key; read and save of a
transition; read and save of an item. Requests refused by what they read are
stuttering steps.

**AnalystDesk** (analyst_api, feedback_loop, the monitor's labels) for one customer.
`score` is labels, pipeline and second reading of the labels, decision, row,
observation, retained score, lookup, alert; `explain` scores first if it has to;
`submit_feedback` is local list, key, count, append, index, label. Calls may fail
where the code lets them: before the row everything is abandoned, after it the failure
is swallowed. The decision is abstracted to whether it raises an alert. Each record of the
log carries, as history, the server that appended it.

**RiskPolicy** and **DecisionEngine** (decision_engine, `risk_policy.py`, ingress).
`RiskPolicy` has the tiers, bands, rails, candidates and costs as operators; in
`DecisionEngine` a behaviour is one request and its answer, and `Next` has one action
per return of `decide`. Expected costs are integers: the code's `score/100 * cost * rate`
and its percentages scaled by 10 000. Ingress's own tables are operators beside it, so
that the two implementations of the policy can be compared. A client may send a
processing path of its own (`Sent`), which then replaces the one of its rail.

**CustomerProfile** and **ScorePipeline** (analyst_api's profiles, features,
adjustments and comparison, and risk_fusion). The state is one customer's payments,
in the order of their times, and verdicts; `Score` records a payment and computes what
`score` computes: drift, the feature vector in the basic and the rich mode, the three
axes as answered or as stood in for (the models see the vector, or the features a client
sent in its place, `ClientVectors`), the adjustments by verdicts and drift, fusion,
tier, decision. Scoring is one step here; its
readings of history and verdicts are apart in `AnalystDesk`. `TimelineRows` and `Compare`
are the offline comparison of the modes.
Times are minutes, distances kilometres, probabilities percentages; logarithms of
amounts are a table (`AmountLog`). `Rounding` is Python's rounding of a quotient, half to even.

**CaseReport** (analyst_api's explanation, panel, customer page and statistics, and the
figures of investigation_agent's deterministic summary). The figures a report cites and
the payload they are checked against are sets of numbers, among the former the counts in
the graph's findings (`Findings`); wording is left out.

**PaymentEvidence** (compliance_engine, merchant_policy, both contexts,
investigation_agent, the speed check of device_integrity). The state is the merchants'
rules under their ids and the facts of one payment; each service is an operator on
them, so that two services can be asked about the same payment.

**DeviceChallenge** (device_integrity). Fetch, the test of the consumed flag, the
provider's call and the store that consumes are steps of their own; a provider may raise.

**GraphStore** and **GraphEngine** (ml/graph, graph_engine). `GraphStore` is every
function of `extract.py` on a store of four dictionaries: shared merchants, score,
findings, features, the community, the payloads of the dashboards. `GraphEngine` is the
service: a store created and seeded by whoever comes first and published before it is
seeded, observations that fill one dictionary per step, `+= 1` in two, readings that
raise when another thread inserts while they walk.

**ObservationWindow** (model_monitor, ml/drift). Append, test of the length and drop are
steps; a report reads the reference and then the window; a retraining walks a copy of
the window and looks each label up in the live dictionary, and the rows it collects join
the base data set, from any admissible part of which the training makes the reference
profile a promotion brings. One feature column stands for ten; it is sorted by the ranks of
its values (`Sorted`), and a bin's count is the number of the rows in it (`Histogram`). The
logarithms of PSI are a table (`LogOf`), an empty bin has that of the code's epsilon.

**AuditTrail** (audit_store) has the walk that looks for an id apart from the append.
**PortalAccess** (both portals) has the token map, and each route's guard and what it
tells or changes; a report's two reads are two steps.

## 5. The runs

| run | instance | distinct states | shows |
|---|---|---|---|
| `records_races` | two loads: 1 session, 2 workers, lifetimes 1 and 2, clock to 2, 7 requests; 2 servers of the desk, 1 transaction, 2 verdicts | 1 528 019 | two racing completions, with expiry between any two steps: outcome and flags fit the tier, an approval was checked, a session nobody contests goes through its lifecycle; queue and history, lookups, one row and record for each server, verdicts that reach graph and monitor |
| `verification_timeout` | 1 session, 1 worker, clients that never give up | violated | finding 1 |
| `verification_evidence` | 1 session, 2 workers | violated | finding 2 |
| `verification_override` | 1 session, 2 workers | violated | finding 3 |
| `stores_races` | three loads: 2 jobs of any kind, dying anywhere, 2 versions, with 1 scorer when the jobs follow one another; 1 token, 2 records, 3 threads, limits none/1/2, 3 grants; 2 agents, 2 disputes, 2 keys, 1 item | 2 169 955 | the registry never dangles and names what was persisted; gate and history hold unless another writer came between; scores are of persisted models; exhaustion is earned, used-up records close, a sole consumer keeps the limit; names resolve, reversals are earned, moves are on the table unless their agent had read an older state |
| `promotion_gate` | 2 retrainings at once | violated | finding 4 |
| `promotion_rollback` | 1 job at a time, retrainings and rollbacks, none dying | violated | finding 5 |
| `promotion_artifact` | 1 retraining, 1 scorer, none dying | violated | finding 6 |
| `desk_duplicate` | 2 servers, 1 transaction, no verdicts | violated | finding 7 |
| `decision_table` | three loads: the engine on every combination of fields; one customer's payments and verdicts; one payment under merchants' rules | 835 348 | what passes, escalates and proceeds; features, verdicts and fusion; policy, compliance and contexts; reports; that four services draw one boundary |
| `graph_races` | 2 workers, 2 stores, 5 payments, a seed of 6 rows | 150 753 | the indexes agree, the seed is complete, flags are earned, answers agree with themselves and with the graph |
| `services_races` | four loads: attestations, the window, the audit log, the portals | 227 259 | verdicts rest on the device challenged, a nonce is refused once answered, the window and its profile, ids recorded once, portals that fail closed |

Why the bounds are enough for what is asked.

*Threads.* Two workers make every race of check-then-act and of read-and-write.
`TokenVault`, `DeviceChallenge` and `AuditTrail` have three: a lost increment needs two
and the worker that then tests the limit is a third; two attestations may be let in
together and one comes after an answer.

*Objects.* One session, token or transaction suffices for properties of one object,
since handlers of different objects share nothing; the disputes have two of each name
because a key and a case may cross. Two records under one id let a save put an old one
back. The graph has three customers in a chain of two merchants, the least in which a
ring is wider than the neighbours of a customer, a payment so early that a later one
ends its part in the ring, a seed row with a bad time and one with a bad account
number, one payment that is seeded unflagged and observed flagged, and two stores,
because two first requests may both create one.

*Numbers.* Scores of the engine are both sides of every boundary (5/6, 25/26, 50/51), the
end 0, and three of the four ingress can compute (0, 10, 45; 35 lies between the same
boundaries as 45). Of the metrics (ROC-AUC and PR-AUC 1/3, 3/none, none/1, tolerance 1) two
models are compared by the one, by the other or not at all, and `promotion_gate` has a
model that a worse one may not replace. The facts about a payment vary, service by service, over both sides of each
threshold of that service, an unknown and a stale value; fields of other services stay
as they are, since no service reads another's. The customer load has a usual history, one
of a customer who has moved and one of a customer who spends less; its next payments are
a jump of 300 km in four minutes and one recorded late and without a place, so that what
is scored first may lie later in time. The window holds two observations of three, one
of them without a value and one outside the profile's bins.

*Bounds in guards.* `MaxTime` (a clock), `MaxGrants` (a counter), `MaxVerdicts`, `MaxPayments`,
`MaxObserved`, `MaxEvents` and `MaxViews` (lists that only grow) have no counterpart in the
code. `TrustWindow`, `MaxLen`, `MinWindow`, `MinLabels`, `Bins`, `Window`, `CloseBy` and
`LowValue` stand for constants and settings of the code with smaller values: two verdicts
already make the run of benign ones that earns trust, and the monotonicity properties
append a third to any two.

*Symmetry* is used over workers, servers, threads, jobs, records, disputes, keys, stores,
bindings and nonces in runs that check invariants, action properties and the refinement
(which is one), never in the liveness run. Where components share a run, pairs that are
each exchangeable are the same two model values (workers and servers; jobs, records,
agents, disputes and keys): a swap of both leaves every load as it was, and the group
stays small.

`CHECK_DEADLOCK FALSE` is set where the modelled system may stop: when every session or
token has been created and settled or used up and the clock has reached its bound
(`VerificationSession`, `TokenVault`), when a request would be answered from what it
reads without a change (`DisputeCase`: every key and item is taken), when the one
request has been answered (`decision_table`, engine load), and when the challenge is consumed
or a list is full (`services_races`).

## 6. Fairness

Only the violated `verification_timeout` assumes any, so that its counterexample is the
code's and not that of a system that stopped. `FairSpec` has weak
fairness of each worker's steps *after* it took a request up (a thread that runs is
scheduled again, and no step waits for another thread or for an unbounded call) and
of the clock. No fairness is assumed of clients: creating and completing sessions is
up to them. `PersistentSpec` adds, for the finding only, that clients keep completing
every session (strong fairness of `Fetch`, since a busy worker disables it
repeatedly); without that the counterexample would merely be a client that went away.
The other components promise nothing that must eventually happen: a verdict that could
not be forwarded is dropped, a dispute stays where it is, a token lives on.

## 7. What is proved

`tlapm` proves the following for every number of sessions, workers, tokens, records,
jobs, versions, disputes, transactions, challenges, recorders and threads, every set of
requests, scores, cost models, observations and settings, from the `ASSUME`s on
constants in the modules (finitely many workers where workers are counted, natural
bounds, distinct null values, a window longer than the pool is large), which TLC
evaluates in the runs.

- **VerificationSession_proofs**: `TypeOK`, `OutcomeFitsTier`, `ApprovalsChecked`,
  `SoleCompletionSettles`, `ImplementsLifecycle`. The invariant carries what each check
  established past the point where it was made: a worker past admission has a bound
  request and a token that was live when read (`AdmittedOK`), past the decision a verdict
  that justifies what it stores (`VerdictOK`), a flag that fits the tier (`FlagOK`); and,
  for the sole worker of a session, exactly how far the three stores have come
  (`SolePhase`). The refinement is for any number of workers: `StoreEscalation` maps to
  `Settle` if nobody contests the session, `CreateSession` to `Open`, `Tick` to `Tick`;
  every other step shows what was shown before (`QuietServe`), the one by which a session
  becomes contested included, since it is pending when a second worker is admitted.
- **TokenVault_proofs**: `TypeOK`, `UsesCounted` (its parts `ExhaustedEarned` and
  `UsedUpCloses` are theorems of their own), `SoleConsumerLimited`. The count alone is
  not inductive: a worker may store an old count over a newer one. What is inductive is
  that every count, stored or still in a worker's hands, leaves room for all the workers
  that are admitted and have not read it yet (`Reserved`, a cardinality), and that a
  sole consumer's count is exact.
- **ModelPromotion_proofs**: `TypeOK`, `RegistryCoherent`, `PersistedFirst`,
  `GatedUnlessOvertaken`, `KeptUnlessOvertaken`, `ScoresTraceable`, all with any number of
  jobs racing and dying anywhere. The first three follow the payload: a job writes the
  registry only with one that was sound when it was built (`JobOK`), and soundness
  survives, since what was persisted once counts as persisted. Gate and history follow
  what a job found in the registry, which is still there as long as nobody overtook the
  job (`CurrentInv`). Scores follow the files: none is ever of a model whose artifact was
  not written, as the artifact is the first file a job writes (`TraceInv`).
- **DisputeCase_proofs**: `TypeOK`, `KeysHonoured` (with `NamesResolve` as a theorem of
  its own), `ReversalEarned`, and the action property `MovesLegal`. A worker about to
  save carries a move the table allows from the status it read, and if that status can
  lead to a reversal it is on record; a key that a sole opener stored names the only
  case it opened.
- **AnalystDesk_proofs**: `TypeOK`, `QueueMatchesHistory`, `LookupsResolve`,
  `RepeatsBounded`, `VerdictsReach`. Rows that are not passed and alerts differ by
  exactly the requests that still owe an alert. A server that has scored a transaction is
  about to retain the score or finds it retained (`Spent`), so rows are as many as
  scorers; what a server has logged is indexed, but for the record just appended
  (`OwnLog`), and its next identifier is beyond all of its own, since identifiers never
  run ahead of positions (`Numbered`). With one scorer the single row, the retained score
  and what the graph was told come from the same request (`SoleRow`); the only judge of a
  transaction is still forwarding its newest verdict or has delivered it (`SoleVerdict`).
- **DecisionEngine_proofs**, for the three loads of `Authorization`.
  *The engine*: `TypeOK`, `AllowEarned`, `ReviewEscalates`, `ProceedsSupported`, for every
  score and every integer cost model. Each return gives a sound answer (`SoundAnswer`);
  the cost branch needs that a cheapest candidate exists and is a candidate, whatever the
  prices. `IngressAgrees` for the default costs, and with it `BoundariesAgree`, for
  whatever is loaded.
  *The evidence services*: `PolicyStable`, `ComplianceHolds`, `ContextsHonest`, for every
  payment and whatever merchants did to their rules. Of the rules saved there is one of
  greatest id, as only finitely many were, and while that one is untouched no other edit
  changes it (`RuleInForce`, `PolicyStep`); the rest compares operators on related facts.
  *The pipeline*: `VerdictsWeighed` and `ScoreDecides`, from the invariant that the
  response is the one its verdicts, its drift and the answers of its models make
  (`PipelineInv`), through lemmas on half-even rounding (it keeps order and bounds) and on
  the weighted mean of the axes that answered. `FeaturesSound`, for any payments recorded
  in any order of their times: a filter commutes with recording, so what is earlier than
  a payment is the same before and after a later one is recorded, wherever that is put
  (`PriorKept`); the invariant says besides which history a response was made from and
  that the payment has since been recorded (`FeaturesInv`).
  *The report*: `ReportHonest`, from the same invariants. Of a score nothing adjusted the
  only figures checked and not in the payload are counts of the graph (`TrustedHolds`), so
  it is branded exactly for those. The rank of a magnitude, the
  number of those ahead of it, is an injection into as many numbers as there are
  features, hence onto them, and exactly four are shown; each share is within a half of
  its quotient, so four are within two of the whole. Sorted hours exist at every place
  and do not fall (`OrderStatistic`). What is recent is among what is long-term, payment
  by payment, so it has no more merchants. The verdicts split by decision, and the parts
  of a finite set add up to it.
- **GraphEngine_proofs**: `StoreWhole`, `FlagsEarned`, and the parts of `AnswersHold` as
  theorems of their own and together. What the four dictionaries lack of a payment, a
  worker on its way through `observe` owes them: the invariant names the debtors of every
  index, the workers that have still to count a flag, and the one that seeds the store in
  use. A ring is the connected component: the walk of `community` is a function of the
  number of rounds, closed after as many as there are customers.
- **Services_proofs**: `EventsDistinct` of the audit store (an id stands in the list
  once for each recorder who filed it, so whoever filed it is refused from then on);
  `FailClosed` of the portals (the last valid entry of a token is one of the entries: a
  set of positions has a greatest member, from the well-foundedness of the naturals);
  `LabelsConsistent` of the window (`RowsJudged`: a row collected has the flag of its
  transaction's present label, unless that came during the walk or decides nothing);
  `WindowKept` of the window (`LengthKept`: as long as a thread is about to drop an observation, or one was dropped,
  the window keeps room for all such drops. It also shows that no thread trims an empty
  window, which needs the pool to be no larger than the window's length plus one.
  Drift is arithmetic on the terms of the index. A term falls below zero by at most twice
  its two products, because the logarithms are rounded, and these add up to at most four
  times the product of the totals; the term of a large bin left empty outweighs them all
  (`DriftSeen`). A profile fits its rows because each value falls in exactly one bin:
  quantiles lie between the ends of the column and do not fall, so as many are counted as
  there are rows, shares that are equal have equal logarithms, and every term is zero
  (`ProfileFits`). The invariant `ReportInv` says that files and threads hold histograms,
  that rows in flight are bounded, and that a reply is one on what it judged); and of
  the device challenges `TypeOK`, `VerdictsEarned` (with `DecidedOnce` and `VerdictsBound`
  on their own) and `ReplayRefused`: who passed the consumed test keeps the binding and
  nonce it compared; an attestation that began after an answer reads a flag that nothing
  clears.

What a recursive definition computes cannot be proved by the library's induction
theorems, whose parameter is an operator. Where a proof needs it, the definition is a
recursive function and the induction is over sets: a set of naturals that holds 0, and
with k - 1 also k, holds all of them up to n (`Climb`), since the least one missing would
have its predecessor in it (`WFMin`). The filters, sums and walks of `CustomerProfile`,
`ObservationWindow`, `GraphStore`, `CaseReport` and `ScorePipeline` are therefore
functions, cardinalities, or sums written out, where the first version had folds.

Every property of every passing run is a theorem: the invariants, the action properties
and the refinement. The seven properties of the runs that TLC finds violated are false,
and nothing is proved of them.

What the proofs assume of constants, besides the types: workers of the graph engine are
finitely many, and nothing that stands for an absent value is one of the values
(`WorkersAssumption`, `IdleAssumption`, `None` is no integer). The table of amounts'
logarithms holds naturals and the payments on file at the start are in the order of their
times, which is how the repository keeps them. The table of the index's logarithms is one
rounded to the hundredth: 0 for 1, 230 for 10, and order of products kept up to the
rounding of four entries; it is long enough for the rows there may be, fewer than a
million, where a share comes near the code's epsilon (`LogAssumption`, `DriftAssumption`).
The profiles on file at the start are what `compute_reference_profile` writes: edges that
rise, a count for each bin, at least one row.

Attempts at proofs corrected the model in three places: the set of members still to be
visited in `CommunityMembers` was read by the parser otherwise than meant; a page was said
to differ from its long-term half whenever drift is gradual, where only the payments need
differ and not the figures made of them; and the rate of false alarms was said to be one
only without frauds, and its four places round up when there is one fraud in twenty
thousand verdicts.

No module declares a `RECURSIVE` operator.

## 8. Where code and text disagree

Seven of these have a run in which TLC exhibits them.

1. *Time-outs never happen* (`verification_timeout`). `docs/blueprint-alignment.md:7-8`
   promises decline, or decline and lock, on time-out. The token check raises before
   the time-out branch is reached, `expire_session` always raises, nothing else expires
   sessions: a session whose token ran out is pending for ever.
2. *An approval without evidence* (`verification_evidence`). The same document, lines 8-9,
   asks a biometric of the MODERATE tier, and amount, currency, biometric and swipe of the
   HIGH one. The workflow is checked only of a completion that reports APPROVED
   (`service.py:221`), while every outcome but DENIED reaches the approving branch: one
   that reports TIMED_OUT, EXPIRED, LOCKED or ESCALATED with a live token approves with no
   evidence. The passing `ApprovalsChecked` says what is checked of every completion.
3. *The one-use token is used twice* (`verification_override`), against
   `auth_orchestration/main.py:39`: the pending test and the store of the outcome are
   apart, so two completions that overlap are both accepted, and the later one overrides
   the earlier. `SoleCompletionSettles` and `ImplementsLifecycle` hold of sessions where
   this does not happen.
4. *A worse retrain can replace a better model* (`promotion_gate`), against
   `model_monitor/service.py:7`: the champion is read, and the registry written, with
   nothing held in between. `GatedUnlessOvertaken` says that this race is the only way.
5. *What is served is not what the registry calls latest* (`promotion_rollback`), against
   `ml/registry/model_registry.py:4-6`: rollback moves the pointer, and serving reads the
   file. A run that dies after copying and before registering has the same effect, so that
   "a failed run leaves the previous latest untouched" (`docs/evaluation.md:72`) is true of
   the registry and not of the files.
6. *A partial artifact is a 500* (`promotion_artifact`), against
   `docs/evaluation.md:79-80`: unpickling a truncated file raises `EOFError`, which the
   loader does not catch. A torn sidecar is parsed outside the `try` and raises as well.
7. *A transaction is scored twice* (`desk_duplicate`), against the comment at
   `analyst_api/service.py:90-92`: two requests that both find nothing retained both add
   a history row and an alert. `RepeatsBounded` says that no server adds a second of its own.

The others were met while the modules were written; the passing properties are stated so
that they hold of the code as it is.

Promotion and drift

- A training in place that dies leaves the artifact of one model beside the sidecar of
  another; a torn registry makes every later promotion raise; a score may name the
  version of a sidecar written after the artifact it used. A version entered by one job
  is lost when another, which read the registry before, writes it back. The tolerance of
  the gate is granted anew against each champion, so legal promotions can lower it without
  limit.
- `ml/drift/profile.py` says that quantile edges keep every bin populated; when an edge
  is interpolated between two groups of equal values, a bin is empty. A profile that
  lacks a column is reported STABLE. A profile file that the registry names and that is
  gone is not replaced by the fallback.
- A missing trust signal is 0 to a trained model, -1 to the heuristic and in the rows of
  a retraining, and 0 again in the drift report: a profile made of retraining rows drifts
  from the very payments it was made of if they lack the signal. `OBSERVATION_WINDOW` is
  read by nothing. `best_threshold` is stored among the metrics and used by nothing.
- The analyst's retrain client posts a version in the body, and the endpoint reads it
  from the query; it reads keys that `retrain_and_promote` never returns.

Scoring, deciding, reporting

- The legacy candidates are not only for legacy clients, against
  `decision_engine/service.py:125`: the scoring pipeline sends band and tier together,
  and then LOW payments are allowed without the push approval of their tier.
- A score-only request of tier HIGH is answered REVERSE by the default costs, since
  REVERSE is the cheapest of its candidates, while ingress answers REVIEW (ingress
  cannot compute such a score itself, so `IngressAgrees` does not meet it).
- A compliance finding of UNAVAILABLE takes precedence over CHALLENGE, so that failing
  open can unblock a payment that would have been challenged; `ComplianceHolds` excepts it.
- Features are not causal by construction, as `features16` says: its ninety-day baseline
  admits payments with a later time. `hour_high` is described as a 75th percentile and is
  the median. The adjustment for confirmed fraud is described as one for *recent*
  verdicts and any verdict ever counts.
- The thresholds of the quadrants (0.5) and of the patterns (0.6) differ: a frozen
  payment with an anomaly between them is reported as appearing normal, and a passed
  one of fraud 0.6 as matching a known fraud. REVIEW_STEALTH is reached by stand-in values
  when models are missing. The "soft check" action is reached by no decision.
- The check for invented figures flags the service's own evidence when a score was
  adjusted, as neither the adjusted figures nor the adjustments' constants are in the
  payload, and when a finding of the graph counts 200 or more ("Connected to 499 other
  customer(s)"; whole numbers from 200 are checked, `reasoning.py:85`, and the findings are
  in the evidence, `analyst_api/service.py:336`, and not in the payload): `EvidenceTrusted`
  says that, of a score nothing adjusted, nothing else does. `tests/test_network.py:67-69`
  tests a report whose counts are small. The deterministic summary prints the list of
  earlier amounts where it means their number.
- Statistics: a "legitimate" verdict is in neither of the two totals that the rows'
  benign count adds up. Over HTTP the times of an investigation's events are text, so its
  thirty-day cutoff never applies.
- The score for exceeding the balance (90) replaces a higher one. The disabled rule of a
  merchant with the greatest id switches off the enabled ones before it. The rule engine
  takes its velocity limit from the client, and nothing connects it to a merchant's rule.
- `mandatory_challenge` is accepted and never read. A missing key in a pipeline answer
  raises `KeyError`, which the handler of `LookupError` turns into "Unknown scored
  transaction". Of the verdicts A, B, A on one transaction the feedback log keeps A, B.
  `FEEDBACK_LOOP_URL` configures a provider nothing builds.

Sessions, graph, portals

- A transaction observed unflagged is never flagged later. The window of the graph is
  described as ending at the customer's latest payment and ends at the latest of anyone.
- A later entry of a token that gives it no roles is skipped, so it takes nothing back.

## 9. What is not modelled

The rule engine: five tests of fields of one request, without state, whose answer no
service reads. The fitting of models and their probabilities, and the batch programs that make data
sets and tune weights; wording (prompts, reasons, reports beyond their figures);
cryptography: the signed verification token is a value that is bound to a session and
expires; HTTP plumbing, logging and tracing; scaffolds (`feature_store`,
`banking_gateway`, `corporate_spend`, `merchant_ingress`, streaming jobs); clients,
deployment, and demonstration scripts. The card network sync of disputes is a stub.
The copies of the dispute transition in both portals are covered by `DisputeCase` as the
same code over a dictionary of their own; nothing synchronises the three. Each part's
status is in `PROJECT.json`.

Races the code has and no property excludes, because it promises nothing about them: a
token's consumption that saves a record over one created meanwhile under the same id; a
client that repeats a consumption whose answer was lost and spends a second use.

## 10. What could follow

Everything the first plan listed is modelled, and every safety property proved. Next
would come: the refinement of further abstract specifications (a queue that scores once,
for `AnalystDesk` with one worker; a registry that only a better model enters, for
`ModelPromotion` with one job); and a composition of `AnalystDesk` with
`ObservationWindow` and `ModelPromotion`, from a verdict to the retrained model, for which
the state spaces would have to be cut down first.
