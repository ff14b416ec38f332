--------------------------- MODULE GraphEngine_proofs ---------------------------
(***************************************************************************)
(* Safety of the customer-merchant graph for any payments, seed files,     *)
(* workers and requests: the indexes of a store agree, the seed and what   *)
(* was confirmed are in the store that stays, flags are earned, and a      *)
(* score that nothing disturbed agrees with itself.                        *)
(*                                                                         *)
(* None of this is inductive.  What the indexes still lack, a worker on    *)
(* its way through observe owes them; the invariant names, of every stored *)
(* payment, the debtor of each index, of every flagged customer the        *)
(* workers that have still to count, and of the store in use the worker    *)
(* that seeds it.                                                          *)
(***************************************************************************)
EXTENDS GraphEngine, FiniteSetTheorems, FunctionTheorems, WellFoundedInduction, TLAPS

Owing == {"byCustomer", "byMerchant", "event", "flag", "flagging"}
Observing == {"test", "insert"} \cup Owing
Seeding == {"seed", "rows"}
ReadingStep == Reading \cup {"community"}

\* A worker on its way has a request and, once it has been given one, a store.
PlacedAt(w) ==
    /\ pc[w] # "idle" => job[w] \in Jobs
    /\ pc[w] \in {"rows"} \cup Observing \cup ReadingStep => held[w] \in created
    /\ pc[w] \in Seeding => current # Nothing
    /\ pc[w] = "rows" => row[w] > 0
    /\ row[w] > 0 => current # Nothing /\ pc[w] \in {"rows"} \cup Observing
    /\ pc[w] \in Observing => row[w] <= Len(Rows)
    /\ pc[w] \in {"findings", "features"} => answer[w] \in Reply

Placed ==
    /\ current # Nothing => current \in created
    /\ \A w \in Workers : PlacedAt(w)

\* The workers that observe t in s and are at one of these steps.
Debtors(s, t, steps) == {w \in Workers : pc[w] \in steps /\ held[w] = s /\ Observed(w).txn = t}

\* Whoever owes an index has stored its payment.
Stored ==
    \A s \in Stores, t \in Txns : Debtors(s, t, Owing) # {} => t \in stores[s].txns

\* An index that lacks a stored payment has a debtor.
Indexed ==
    \A s \in Stores : \A t \in stores[s].txns :
        /\ \/ <<CustomerOf(t), MerchantOf(t)>> \in stores[s].byCustomer
           \/ Debtors(s, t, {"byCustomer"}) # {}
        /\ \/ <<MerchantOf(t), CustomerOf(t)>> \in stores[s].byMerchant
           \/ Debtors(s, t, {"byCustomer", "byMerchant"}) # {}
        /\ \/ stores[s].events[t] > 0
           \/ Debtors(s, t, {"byCustomer", "byMerchant", "event"}) # {}

\* What an index lists comes from a stored payment.
Sourced ==
    \A s \in Stores :
        /\ \A p \in stores[s].byCustomer :
              \E t \in stores[s].txns : p = <<CustomerOf(t), MerchantOf(t)>>
        /\ \A p \in stores[s].byMerchant :
              \E t \in stores[s].txns : p = <<MerchantOf(t), CustomerOf(t)>>
        /\ \A t \in Txns : stores[s].events[t] > 0 => t \in stores[s].txns

\* The workers that have still to raise the count of c in s.
Raising(s, c) ==
    {w \in Workers : pc[w] \in {"flag", "flagging"} /\ held[w] = s /\ CustomerOf(Observed(w).txn) = c}

\* Counted, read or still to count: never more than was flagged, and not
\* nothing when something was.
Counted ==
    \A s \in Stores, c \in Customers :
        /\ stores[s].flags[c] + Cardinality(Raising(s, c)) <= raised[s][c]
        /\ \A w \in Raising(s, c) :
              pc[w] = "flagging" => count[w] + Cardinality(Raising(s, c)) <= raised[s][c]
        /\ raised[s][c] > 0 => stores[s].flags[c] > 0 \/ Raising(s, c) # {}

\* The good rows before row n that no bad account number keeps out are in s.
SeededTo(s, n) ==
    \A i \in DOMAIN Rows :
        /\ i < n
        /\ Rows[i].kind = "good" /\ \A k \in 1..i : Rows[k].kind # "badAccount"
        => Rows[i].txn \in stores[s].txns

\* The store in use is seeded, or someone is at it or about to begin.
SeedOwed ==
    current # Nothing =>
        \/ SeededTo(current, Len(Rows) + 1)
        \/ \E w \in Workers : pc[w] = "seed"
        \/ \E w \in Workers : row[w] > 0 /\ held[w] = current /\ SeededTo(current, row[w])

\* What was confirmed is in a store that exists.
Kept ==
    /\ IsFiniteSet(created) /\ (created # {} => current # Nothing)
    /\ \A t \in kept : \E s \in created : t \in stores[s].txns

\* Whether the customer that w asks about shares a merchant with anybody.
Sharing(w) == Peers(stores[held[w]], Customer(w), Window) # {}

\* What an undisturbed reply says so far is still so.
AgreesAt(w) ==
    /\ pc[w] \in {"findings", "features"} => (answer[w].score > 0 <=> Sharing(w))
    /\ pc[w] = "features" => ("shared" \in answer[w].findings <=> Sharing(w))
    /\ pc[w] = "idle" /\ answer[w] # Nothing =>
          /\ answer[w].available <=> answer[w].score > 0
          /\ answer[w].available <=> "shared" \in answer[w].findings

Undisturbed == \A w \in Workers : quiet[w] => AgreesAt(w)

\* Who observes for its request has no answer yet; others have none to speak of.
Fresh ==
    \A w \in Workers :
        pc[w] \in Observing /\ row[w] = 0 => answer[w] = Nothing

IInv == TypeOK /\ Placed /\ Stored /\ Indexed /\ Sourced /\ Counted /\ SeedOwed /\ Kept /\ Undisturbed /\ Fresh

-----------------------------------------------------------------------------
(* The stores of observe.                                                  *)
LEMMA DetailsTypes ==
    ASSUME NEW t \in Txns
    PROVE  /\ CustomerOf(t) \in Customers /\ CustomerOf(t) \in Nat
           /\ MerchantOf(t) \in Merchants /\ MerchantOf(t) \in Nat
           /\ At(t) \in Nat
BY DetailsAssumption DEF CustomerOf, MerchantOf, At, Customers, Merchants

LEMMA AddTxnFacts ==
    ASSUME NEW g \in Store, NEW t \in Txns
    PROVE  /\ AddTxn(g, t) \in Store
           /\ AddTxn(g, t).txns = g.txns \cup {t}
           /\ AddTxn(g, t).byCustomer = g.byCustomer /\ AddTxn(g, t).byMerchant = g.byMerchant
           /\ AddTxn(g, t).events = g.events /\ AddTxn(g, t).flags = g.flags
BY DEF AddTxn, Store

LEMMA AddMerchantFacts ==
    ASSUME NEW g \in Store, NEW t \in Txns
    PROVE  /\ AddMerchant(g, t) \in Store
           /\ AddMerchant(g, t).txns = g.txns
           /\ AddMerchant(g, t).byCustomer = g.byCustomer \cup {<<CustomerOf(t), MerchantOf(t)>>}
           /\ AddMerchant(g, t).byMerchant = g.byMerchant
           /\ AddMerchant(g, t).events = g.events /\ AddMerchant(g, t).flags = g.flags
BY DetailsTypes DEF AddMerchant, Store

LEMMA AddCustomerFacts ==
    ASSUME NEW g \in Store, NEW t \in Txns
    PROVE  /\ AddCustomer(g, t) \in Store
           /\ AddCustomer(g, t).txns = g.txns
           /\ AddCustomer(g, t).byMerchant = g.byMerchant \cup {<<MerchantOf(t), CustomerOf(t)>>}
           /\ AddCustomer(g, t).byCustomer = g.byCustomer
           /\ AddCustomer(g, t).events = g.events /\ AddCustomer(g, t).flags = g.flags
BY DetailsTypes DEF AddCustomer, Store

LEMMA AddEventFacts ==
    ASSUME NEW g \in Store, NEW t \in Txns
    PROVE  /\ AddEvent(g, t) \in Store
           /\ AddEvent(g, t).txns = g.txns
           /\ AddEvent(g, t).events = [g.events EXCEPT ![t] = @ + 1]
           /\ AddEvent(g, t).byCustomer = g.byCustomer /\ AddEvent(g, t).byMerchant = g.byMerchant
           /\ AddEvent(g, t).flags = g.flags
BY DEF AddEvent, Store

LEMMA SetFlagsFacts ==
    ASSUME NEW g \in Store, NEW t \in Txns, NEW n \in Nat
    PROVE  /\ SetFlags(g, t, n) \in Store
           /\ SetFlags(g, t, n).txns = g.txns
           /\ SetFlags(g, t, n).flags = [g.flags EXCEPT ![CustomerOf(t)] = n]
           /\ SetFlags(g, t, n).byCustomer = g.byCustomer /\ SetFlags(g, t, n).byMerchant = g.byMerchant
           /\ SetFlags(g, t, n).events = g.events
BY DetailsTypes DEF SetFlags, Store

-----------------------------------------------------------------------------
(* A step is one worker's.                                                 *)
Alone(w) ==
    \A v \in Workers \ {w} :
        /\ pc'[v] = pc[v] /\ job'[v] = job[v] /\ held'[v] = held[v]
        /\ row'[v] = row[v] /\ count'[v] = count[v] /\ answer'[v] = answer[v]

StepOf(w) == (\E j \in Jobs : Receive(w, j)) \/ GetStore(w) \/ Observe(w) \/ Answer(w)

LEMMA WorkersFunctions ==
    ASSUME TypeOK, NEW w \in Workers
    PROVE  /\ pc = [v \in Workers |-> pc[v]] /\ DOMAIN pc = Workers
           /\ DOMAIN job = Workers /\ DOMAIN held = Workers /\ DOMAIN row = Workers
           /\ DOMAIN count = Workers /\ DOMAIN answer = Workers /\ DOMAIN quiet = Workers
BY DEF TypeOK

\* What Finish does, whichever case it is.
LEMMA FinishCases ==
    ASSUME TypeOK, NEW w \in Workers, Finish(w)
    PROVE  /\ pc' = [pc EXCEPT ![w] = IF row[w] > 0 THEN "rows"
                                      ELSE IF job[w].kind = "score" THEN "get" ELSE "idle"]
           /\ row' = IF row[w] > 0 THEN [row EXCEPT ![w] = row[w] + 1] ELSE row
           /\ job' = IF row[w] = 0 /\ job[w].kind # "score" THEN [job EXCEPT ![w] = Nothing] ELSE job
           /\ held' = IF row[w] = 0 /\ job[w].kind # "score" THEN [held EXCEPT ![w] = Nothing] ELSE held
           /\ answer' = IF row[w] = 0 /\ job[w].kind = "score" THEN [answer EXCEPT ![w] = Unread] ELSE answer
           /\ kept' = IF row[w] > 0 THEN kept ELSE kept \cup {job[w].txn}
<1>1. row[w] \in Nat
  BY DEF TypeOK
<1>2. CASE row[w] > 0
  BY <1>1, <1>2 DEF Finish, Goto
<1>3. CASE row[w] = 0 /\ job[w].kind = "score"
  BY <1>1, <1>3 DEF Finish, Goto
<1>4. CASE row[w] = 0 /\ job[w].kind # "score"
  BY <1>1, <1>4 DEF Finish, Done, Goto
<1> QED
  BY <1>1, <1>2, <1>3, <1>4

LEMMA FinishAt ==
    ASSUME TypeOK, NEW w \in Workers, Finish(w)
    PROVE  /\ row[w] > 0 => /\ pc'[w] = "rows" /\ row'[w] = row[w] + 1
                            /\ job'[w] = job[w] /\ held'[w] = held[w] /\ answer'[w] = answer[w]
           /\ row[w] = 0 => /\ row'[w] = 0
                            /\ \/ pc'[w] = "get" /\ job'[w] = job[w]
                               \/ pc'[w] = "idle" /\ answer'[w] = answer[w]
<1>1. row[w] \in Nat /\ w \in DOMAIN pc /\ w \in DOMAIN row /\ w \in DOMAIN job
  BY DEF TypeOK
<1>2. CASE row[w] > 0
  <2>1. pc' = [pc EXCEPT ![w] = "rows"] /\ row' = [row EXCEPT ![w] = row[w] + 1]
    BY <1>2, FinishCases
  <2>2. job' = job /\ held' = held /\ answer' = answer
    BY <1>1, <1>2, FinishCases
  <2> QED
    BY <1>1, <1>2, <2>1, <2>2
<1>3. CASE row[w] = 0 /\ job[w].kind = "score"
  <2>1. pc' = [pc EXCEPT ![w] = "get"] /\ row' = row /\ job' = job
    BY <1>3, FinishCases
  <2> QED
    BY <1>1, <1>3, <2>1
<1>4. CASE row[w] = 0 /\ job[w].kind # "score"
  <2>1. pc' = [pc EXCEPT ![w] = "idle"] /\ row' = row /\ answer' = answer
    BY <1>4, FinishCases
  <2> QED
    BY <1>1, <1>4, <2>1
<1> QED
  BY <1>1, <1>2, <1>3, <1>4

LEMMA FinishAlone ==
    ASSUME TypeOK, NEW w \in Workers, Finish(w), NEW v \in Workers \ {w}
    PROVE  /\ pc'[v] = pc[v] /\ job'[v] = job[v] /\ held'[v] = held[v]
           /\ row'[v] = row[v] /\ answer'[v] = answer[v]
<1>1. row[w] \in Nat /\ v \in Workers /\ v # w
  BY DEF TypeOK
<1>2. pc'[v] = pc[v]
  <2>1. PICK next : pc' = [pc EXCEPT ![w] = next]
    BY FinishCases
  <2> QED
    BY <1>1, <2>1 DEF TypeOK
<1>3. row'[v] = row[v]
  <2>1. row' = row \/ row' = [row EXCEPT ![w] = row[w] + 1]
    BY FinishCases
  <2> QED
    BY <1>1, <2>1 DEF TypeOK
<1>4. job'[v] = job[v]
  <2>1. job' = job \/ job' = [job EXCEPT ![w] = Nothing]
    BY FinishCases
  <2> QED
    BY <1>1, <2>1 DEF TypeOK
<1>5. held'[v] = held[v]
  <2>1. held' = held \/ held' = [held EXCEPT ![w] = Nothing]
    BY FinishCases
  <2> QED
    BY <1>1, <2>1 DEF TypeOK
<1>6. answer'[v] = answer[v]
  <2>1. answer' = answer \/ answer' = [answer EXCEPT ![w] = Unread]
    BY FinishCases
  <2> QED
    BY <1>1, <2>1 DEF TypeOK
<1> QED
  BY <1>2, <1>3, <1>4, <1>5, <1>6

LEMMA OthersStay ==
    ASSUME TypeOK, NEW w \in Workers, StepOf(w)
    PROVE  Alone(w)
<1> USE DEF Alone, TypeOK, Goto
<1>1. ASSUME NEW j \in Jobs, Receive(w, j) PROVE Alone(w)
  BY <1>1 DEF Receive
<1>2. ASSUME GetStore(w) PROVE Alone(w)
  BY <1>2 DEF GetStore, Get, GetNone, Publish, Seed, NextRow, SeedDone, Return
<1>3. ASSUME Finish(w), UNCHANGED count PROVE Alone(w)
  BY <1>3, FinishAlone
<1>4. ASSUME Observe(w) PROVE Alone(w)
  <2>1. CASE SkipDuplicate(w)
    BY <2>1, <1>3 DEF SkipDuplicate
  <2>2. CASE TestNew(w) \/ Insert(w) \/ IndexCustomer(w) \/ IndexMerchant(w) \/ ReadFlags(w)
    BY <2>2 DEF TestNew, Insert, IndexCustomer, IndexMerchant, ReadFlags, Write
  <2>3. CASE AppendEvent(w)
    BY <2>3, <1>3 DEF AppendEvent
  <2>4. CASE StoreFlags(w)
    <3>1. Finish(w) /\ count' = [count EXCEPT ![w] = 0]
      BY <2>4 DEF StoreFlags
    <3>2. \A v \in Workers \ {w} : count'[v] = count[v]
      BY <3>1
    <3> QED
      BY <3>1, <3>2, FinishAlone
  <2> QED
    BY <1>4, <2>1, <2>2, <2>3, <2>4 DEF Observe
<1>5. ASSUME Answer(w) PROVE Alone(w)
  BY <1>5 DEF Answer, ReadScore, ReadFindings, ReadFeatures, ReadCommunity, Raise, Read, Continue, Done
<1> QED
  BY <1>1, <1>2, <1>4, <1>5 DEF StepOf

LEMMA RowsTyped ==
    \A i \in DOMAIN Rows :
        /\ Rows[i].kind \in {"good", "badTime", "badAccount"}
        /\ Rows[i].txn \in Txns /\ Rows[i].flagged \in BOOLEAN
<1> DEFINE Row == [kind : {"good", "badTime", "badAccount"}, txn : Txns, flagged : BOOLEAN]
<1>1. \A r \in Row : /\ r.kind \in {"good", "badTime", "badAccount"}
                     /\ r.txn \in Txns /\ r.flagged \in BOOLEAN
  OBVIOUS
<1>2. Rows \in Seq(Row)
  BY RowsAssumption
<1> HIDE DEF Row
<1>3. \A i \in DOMAIN Rows : Rows[i] \in Row
  BY <1>2
<1> QED
  BY <1>1, <1>3

\* What a worker observes is a payment, seen in a store that exists.
LEMMA ObservedType ==
    ASSUME TypeOK, Placed, NEW w \in Workers, pc[w] \in Observing
    PROVE  /\ Observed(w).txn \in Txns /\ Observed(w).flagged \in BOOLEAN
           /\ held[w] \in Stores /\ held[w] \in created /\ stores[held[w]] \in Store
           /\ row[w] \in Nat /\ row[w] <= Len(Rows)
           /\ row[w] = 0 => job[w] \in Job /\ Observed(w).txn = job[w].txn
           /\ row[w] > 0 => row[w] \in DOMAIN Rows /\ Observed(w).txn = Rows[row[w]].txn
<1>1. /\ job[w] \in Jobs /\ row[w] \in 0..Len(Rows) + 1 /\ row[w] <= Len(Rows)
      /\ held[w] \in created /\ held[w] \in Stores
  BY DEF Placed, PlacedAt, TypeOK, Observing, Owing
<1>2. job[w] \in Job
  BY <1>1, JobsAssumption
<1>3. row[w] \in Nat /\ Len(Rows) \in Nat /\ DOMAIN Rows = 1..Len(Rows)
  BY <1>1, RowsAssumption
<1>4. row[w] > 0 => row[w] \in DOMAIN Rows
  BY <1>1, <1>3
<1>5. \A i \in DOMAIN Rows : Rows[i].txn \in Txns /\ Rows[i].flagged \in BOOLEAN
  BY RowsTyped
<1>6. CASE row[w] = 0
  BY <1>1, <1>2, <1>3, <1>6 DEF Observed, Job, TypeOK
<1>7. CASE row[w] > 0
  BY <1>1, <1>3, <1>4, <1>5, <1>7 DEF Observed, TypeOK
<1> QED
  BY <1>3, <1>6, <1>7

\* A step of the others leaves what a worker observes, and whom it owes.
LEMMA OthersObserve ==
    ASSUME NEW w \in Workers, Alone(w), NEW v \in Workers \ {w}
    PROVE  Observed(v)' = Observed(v)
BY DEF Alone, Observed

LEMMA DebtorsStay ==
    ASSUME NEW w \in Workers, Alone(w), NEW s, NEW t, NEW steps
    PROVE  /\ Debtors(s, t, steps)' \ {w} = Debtors(s, t, steps) \ {w}
           /\ w \in Debtors(s, t, steps)' <=> pc'[w] \in steps /\ held'[w] = s /\ Observed(w)'.txn = t
           /\ w \in Debtors(s, t, steps) <=> pc[w] \in steps /\ held[w] = s /\ Observed(w).txn = t
<1>1. \A v \in Workers \ {w} : Observed(v)' = Observed(v)
  BY OthersObserve
<1> QED
  BY <1>1 DEF Alone, Debtors

LEMMA RaisingStays ==
    ASSUME NEW w \in Workers, Alone(w), NEW s, NEW c
    PROVE  /\ Raising(s, c)' \ {w} = Raising(s, c) \ {w}
           /\ w \in Raising(s, c)' <=> /\ pc'[w] \in {"flag", "flagging"} /\ held'[w] = s
                                       /\ CustomerOf(Observed(w)'.txn) = c
           /\ w \in Raising(s, c) <=> /\ pc[w] \in {"flag", "flagging"} /\ held[w] = s
                                      /\ CustomerOf(Observed(w).txn) = c
<1>1. \A v \in Workers \ {w} : Observed(v)' = Observed(v)
  BY OthersObserve
<1> QED
  BY <1>1 DEF Alone, Raising

LEMMA RaisingFinite ==
    ASSUME NEW s, NEW c PROVE IsFiniteSet(Raising(s, c)) /\ Cardinality(Raising(s, c)) \in Nat
BY WorkersAssumption, FS_Subset, FS_CardinalityType DEF Raising

\* A step that writes nothing, of a worker that owes nothing.
LEMMA NoDebtStep ==
    ASSUME TypeOK, Stored, Indexed, Sourced, Counted, NEW w \in Workers, Alone(w),
           pc[w] \notin Owing, pc'[w] \notin Owing, stores' = stores, raised' = raised
    PROVE  Stored' /\ Indexed' /\ Sourced' /\ Counted'
<1>1. ASSUME NEW s, NEW t, NEW steps \in SUBSET Owing
      PROVE  Debtors(s, t, steps)' = Debtors(s, t, steps)
  BY DebtorsStay
<1>2. \A s, c : Raising(s, c)' = Raising(s, c)
  BY RaisingStays DEF Owing
<1>3. \A s, t : Debtors(s, t, Owing)' = Debtors(s, t, Owing)
  BY <1>1
<1>4. \A s, t : /\ Debtors(s, t, {"byCustomer"})' = Debtors(s, t, {"byCustomer"})
                /\ Debtors(s, t, {"byCustomer", "byMerchant"})' = Debtors(s, t, {"byCustomer", "byMerchant"})
                /\ Debtors(s, t, {"byCustomer", "byMerchant", "event"})'
                       = Debtors(s, t, {"byCustomer", "byMerchant", "event"})
  BY <1>1 DEF Owing
<1>5. Stored'
  BY <1>3 DEF Stored
<1>6. Indexed'
  BY <1>4 DEF Indexed
<1>7. Sourced'
  BY DEF Sourced
<1>8. \A s \in Stores, c \in Customers : \A v \in Raising(s, c) : count'[v] = count[v] /\ pc'[v] = pc[v]
  <2>1. \A s \in Stores, c \in Customers : w \notin Raising(s, c)
    BY DEF Raising, Owing
  <2> QED
    BY <2>1 DEF Alone, Raising
<1>9. Counted'
  BY <1>2, <1>8 DEF Counted
<1> QED
  BY <1>5, <1>6, <1>7, <1>9

-----------------------------------------------------------------------------
(* The readings: peers are customers, the features are numbers, and the    *)
(* score is in its range.                                                  *)
LEMMA MinOfTwo ==
    ASSUME NEW a \in Int, NEW b \in Int
    PROVE  Min({a, b}) = IF a <= b THEN a ELSE b
BY DEF Min

LEMMA MaxOfTwo ==
    ASSUME NEW a \in Int, NEW b \in Int
    PROVE  Max({a, b}) = IF a >= b THEN a ELSE b
BY DEF Max

LEMMA FiniteImage ==
    ASSUME NEW S, IsFiniteSet(S), NEW f, DOMAIN f = S
    PROVE  IsFiniteSet({f[x] : x \in S})
<1> DEFINE T == {f[x] : x \in S}
           g == [x \in S |-> f[x]]
<1>1. g \in Surjection(S, T)
  <2>1. g \in [S -> T] /\ \A y \in T : \E x \in S : g[x] = y
    OBVIOUS
  <2> HIDE DEF g, T
  <2> QED
    BY <2>1, Fun_IsSurj
<1> HIDE DEF T, g
<1>2. IsFiniteSet(T)
  BY <1>1, FS_Surjection
<1> QED
  BY <1>2 DEF T

LEMMA NodesFinite == IsFiniteSet(Customers) /\ IsFiniteSet(Merchants)
<1> DEFINE f == [t \in Txns |-> CustomerOf(t)]
           h == [t \in Txns |-> MerchantOf(t)]
<1>1. Customers = {f[t] : t \in Txns} /\ Merchants = {h[t] : t \in Txns}
  BY DEF Customers, Merchants
<1>2. DOMAIN f = Txns /\ DOMAIN h = Txns
  OBVIOUS
<1> HIDE DEF f, h
<1> QED
  BY <1>1, <1>2, FiniteImage, DetailsAssumption

LEMMA RecentStored ==
    ASSUME NEW g \in Store, NEW window
    PROVE  Recent(g, window) \subseteq g.txns /\ Recent(g, window) \subseteq Txns
BY DEF Recent, Store

LEMMA ScopedTypes ==
    ASSUME NEW g \in Store, NEW c, NEW window
    PROVE  ScopedMerchants(g, c, window) \subseteq Merchants /\ ScopedCustomers(g, c, window) \subseteq Customers
<1>1. \A t \in Recent(g, window) : MerchantOf(t) \in Merchants /\ CustomerOf(t) \in Customers
  BY RecentStored, DetailsTypes
<1>2. /\ \A p \in g.byCustomer : p[2] \in Merchants
      /\ \A p \in g.byMerchant : p[2] \in Customers
  BY DEF Store
<1> QED
  BY <1>1, <1>2 DEF ScopedMerchants, ScopedCustomers

LEMMA PeersTypes ==
    ASSUME NEW g \in Store, NEW c, NEW window
    PROVE  /\ Peers(g, c, window) \subseteq Customers \ {c}
           /\ IsFiniteSet(Peers(g, c, window)) /\ IsFiniteSet(ScopedMerchants(g, c, window))
<1>1. Peers(g, c, window) \subseteq Customers \ {c}
  BY ScopedTypes DEF Peers, Crowd
<1>2. ScopedMerchants(g, c, window) \in SUBSET Merchants /\ Peers(g, c, window) \in SUBSET Customers
  BY <1>1, ScopedTypes
<1> QED
  BY <1>1, <1>2, NodesFinite, FS_Subset

LEMMA FanInType ==
    ASSUME NEW g \in Store, NEW c, NEW window
    PROVE  FanIn(g, c, window) \in Nat
<1> DEFINE ms == ScopedMerchants(g, c, window)
           heads == {p \in ms \X Customers : p[2] \in Crowd(g, c, p[1], window)}
<1>1. IsFiniteSet(ms) /\ IsFiniteSet(ms \X Customers) /\ heads \in SUBSET (ms \X Customers)
  BY PeersTypes, NodesFinite, FS_Product
<1>2. FanIn(g, c, window) = Min({Cardinality(heads), 1000 * Max({1, Cardinality(ms)})})
  BY DEF FanIn
<1> HIDE DEF heads, ms
<1>3. Cardinality(ms) \in Nat /\ Cardinality(heads) \in Nat
  BY <1>1, FS_Subset, FS_CardinalityType
<1>4. Max({1, Cardinality(ms)}) \in Nat
  BY <1>3, MaxOfTwo
<1>5. 1000 * Max({1, Cardinality(ms)}) \in Nat
  BY <1>4
<1> QED
  BY <1>2, <1>3, <1>5, MinOfTwo

LEMMA CoOccurrenceType ==
    ASSUME NEW g \in Store, NEW c, NEW window
    PROVE  CoOccurrence(g, c, window) \in Nat
<1> DEFINE lists == {{t} \X (1..g.events[t]) : t \in Txns}
           appended == UNION lists
           entries == {e \in appended : At(e[1]) >= Cutoff(g, window)
                                   /\ MerchantOf(e[1]) \in ScopedMerchants(g, c, window)}
           near == {e \in entries : CustomerOf(e[1]) # c /\ \E f \in entries :
                    /\ CustomerOf(f[1]) = c /\ MerchantOf(f[1]) = MerchantOf(e[1])
                    /\ At(f[1]) - At(e[1]) \in -CloseBy..CloseBy}
           list == [t \in Txns |-> {t} \X (1..g.events[t])]
<1>1. \A t \in Txns : IsFiniteSet({t} \X (1..g.events[t]))
  <2> SUFFICES ASSUME NEW t \in Txns PROVE IsFiniteSet({t} \X (1..g.events[t]))
    OBVIOUS
  <2>1. PICK n : n = g.events[t]
    OBVIOUS
  <2>2. 1 \in Int /\ n \in Int
    BY <2>1 DEF Store
  <2>3. IsFiniteSet(1..n)
    BY <2>2, FS_Interval
  <2>4. IsFiniteSet({t})
    BY FS_Singleton
  <2> QED
    BY <2>1, <2>3, <2>4, FS_Product
<1>2. IsFiniteSet(lists)
  <2>1. lists = {list[t] : t \in Txns} /\ DOMAIN list = Txns
    OBVIOUS
  <2> HIDE DEF lists, list
  <2> QED
    BY <2>1, FiniteImage, DetailsAssumption
<1>3. \A l \in lists : IsFiniteSet(l)
  BY <1>1
<1>4. near \in SUBSET appended /\ CoOccurrence(g, c, window) = Cardinality(near)
  BY DEF CoOccurrence
<1> HIDE DEF lists, near
<1>5. IsFiniteSet(appended)
  BY <1>2, <1>3, FS_UNION
<1> HIDE DEF appended
<1> QED
  BY <1>4, <1>5, FS_Subset, FS_CardinalityType

LEMMA FeaturesTypes ==
    ASSUME NEW g \in Store, NEW c, NEW window
    PROVE  LET f == Features(g, c, window) IN
           /\ f.fanIn \in Nat /\ f.near \in Nat
           /\ f.shared = Cardinality(Peers(g, c, window)) /\ f.shared \in Nat
           /\ f.flagged \in Nat /\ f.flagged <= f.shared
<1> DEFINE peers == Peers(g, c, window)
<1>1. IsFiniteSet(peers) /\ Cardinality(peers) \in Nat
  BY PeersTypes, FS_CardinalityType
<1>2. Flagged(g, peers) \in SUBSET peers
  BY DEF Flagged
<1>3. /\ Cardinality(Flagged(g, peers)) \in Nat
      /\ Cardinality(Flagged(g, peers)) <= Cardinality(peers)
  BY <1>1, <1>2, FS_Subset, FS_CardinalityType
<1>4. CASE ScopedMerchants(g, c, window) = {}
  <2>1. peers = {}
    BY <1>4 DEF Peers
  <2>2. Cardinality(peers) = 0
    BY <2>1, FS_EmptySet
  <2> QED
    BY <1>4, <2>2 DEF Features
<1>5. CASE ScopedMerchants(g, c, window) # {}
  BY <1>1, <1>3, <1>5, FanInType, CoOccurrenceType DEF Features
<1> QED
  BY <1>4, <1>5

LEMMA ShareBounded ==
    ASSUME NEW f \in Nat, NEW n \in Nat \ {0}, f <= n
    PROVE  (60 * f) \div n \in 0..60
<1>1. (60 * f) \div n \in Int
  OBVIOUS
<1> DEFINE q == (60 * f) \div n
           r == (60 * f) % n
<1>2. 60 * f = n * q + r /\ r \in 0..(n - 1) /\ q \in Int
  BY Z3
<1> HIDE DEF q, r
<1>3. q >= 0
  BY <1>2, Z3
<1>4. q <= 60
  BY <1>2, Z3
<1> QED
  BY <1>2, <1>3, <1>4 DEF q

LEMMA WeightsSum ==
    ASSUME NEW q \in 0..60, NEW a \in 1..5, NEW b \in 0..3, NEW d \in 0..10
    PROVE  LET sum == 45 * q + 25 * 12 * a + 15 * 20 * b + 15 * 6 * d
           IN  sum \in 0..FullScore /\ sum > 0
<1>1. PICK i, j, k, l : i = 45 * q /\ j = 25 * 12 * a /\ k = 15 * 20 * b /\ l = 15 * 6 * d
  OBVIOUS
<1>2. i \in 0..2700 /\ j \in 300..1500
  BY <1>1
<1>3. k \in 0..900 /\ l \in 0..900
  BY <1>1
<1>4. PICK x : x = i + j
  OBVIOUS
<1>a. x \in 300..4200
  BY <1>2, <1>4
<1>b. PICK y : y = x + k
  OBVIOUS
<1>c. y \in 300..5100
  BY <1>3, <1>a, <1>b
<1>5. PICK sum : sum = i + j + k + l
  OBVIOUS
<1>d. sum = y + l
  BY <1>4, <1>b, <1>5, Zenon
<1>6. sum \in 0..6000 /\ sum > 0
  BY <1>3, <1>c, <1>d
<1>7. i + j + k + l \in 0..FullScore /\ i + j + k + l > 0
  BY <1>5, <1>6 DEF FullScore
<1> HIDE DEF FullScore
<1> QED
  BY <1>1, <1>7

LEMMA ScoreType ==
    ASSUME NEW g \in Store, NEW c, NEW window
    PROVE  /\ ScoreOf(Features(g, c, window)) \in 0..FullScore
           /\ ScoreOf(Features(g, c, window)) > 0 <=> Peers(g, c, window) # {}
<1> DEFINE f == Features(g, c, window)
           q == (60 * f.flagged) \div f.shared
<1>1. /\ f.fanIn \in Nat /\ f.near \in Nat /\ f.shared \in Nat
      /\ f.flagged \in Nat /\ f.flagged <= f.shared
      /\ f.shared = 0 <=> Peers(g, c, window) = {}
  BY FeaturesTypes, PeersTypes, FS_EmptySet
<1> HIDE DEF f
<1>2. CASE f.shared = 0
  BY <1>1, <1>2 DEF ScoreOf, FullScore, f
<1>3. CASE f.shared # 0
  <2>1. q \in 0..60
    BY <1>1, <1>3, ShareBounded
  <2>2. /\ AtMost(f.shared, 5) \in 1..5
        /\ AtMost(f.near, 3) \in 0..3
        /\ AtMost(f.fanIn, 10) \in 0..10
    BY <1>1, <1>3, MinOfTwo DEF AtMost
  <2>3. ScoreOf(f) = 45 * q + 25 * 12 * AtMost(f.shared, 5) + 15 * 20 * AtMost(f.near, 3)
                     + 15 * 6 * AtMost(f.fanIn, 10)
    BY <1>3 DEF ScoreOf
  <2> HIDE DEF q
  <2>4. ScoreOf(f) \in 0..FullScore /\ ScoreOf(f) > 0
    <3> DEFINE sum == 45 * q + 25 * 12 * AtMost(f.shared, 5) + 15 * 20 * AtMost(f.near, 3)
                      + 15 * 6 * AtMost(f.fanIn, 10)
    <3>1. sum \in 0..FullScore /\ sum > 0
      BY <2>1, <2>2, WeightsSum
    <3>2. ScoreOf(f) = sum
      BY <2>3
    <3> HIDE DEF sum
    <3> QED
      BY <3>1, <3>2
  <2>5. Peers(g, c, window) # {}
    BY <1>1, <1>3
  <2> QED
    BY <2>4, <2>5 DEF f
<1> QED
  BY <1>2, <1>3

-----------------------------------------------------------------------------
(* Types.                                                                  *)
LEMMA ReadableHeld ==
    ASSUME TypeOK, Placed, NEW w \in Workers, pc[w] \in ReadingStep
    PROVE  held[w] \in Stores /\ held[w] \in created /\ stores[held[w]] \in Store /\ job[w] \in Job
BY JobsAssumption DEF TypeOK, Placed, PlacedAt, ReadingStep, Reading

LEMMA FinishKeepsType ==
    ASSUME TypeOK, Placed, NEW w \in Workers, pc[w] \in Observing, Finish(w)
    PROVE  /\ pc' \in [Workers -> {"rows", "idle", "get", "publish", "seed", "test", "community"}
                                   \cup Writing \cup Reading]
           /\ job' \in [Workers -> Jobs \cup {Nothing}]
           /\ held' \in [Workers -> Stores \cup {Nothing}]
           /\ row' \in [Workers -> 0..Len(Rows) + 1]
           /\ answer' \in [Workers -> Reply \cup {Nothing}]
           /\ kept' \subseteq Txns
<1>1. /\ row[w] \in Nat /\ row[w] <= Len(Rows) /\ Len(Rows) \in Nat
      /\ row[w] = 0 => job[w].txn \in Txns
  BY ObservedType, RowsAssumption
<1>2. Unread \in Reply
  <2>1. 0 \in 0..FullScore
    BY DEF FullScore
  <2> QED
    BY <2>1 DEF Unread, Reply
<1>3. pc' \in [Workers -> {"rows", "idle", "get", "publish", "seed", "test", "community"}
                           \cup Writing \cup Reading]
  <2>1. PICK next \in {"rows", "idle", "get"} : pc' = [pc EXCEPT ![w] = next]
    BY FinishCases
  <2>2. PICK Places : Places = {"rows", "idle", "get", "publish", "seed", "test", "community"}
                               \cup Writing \cup Reading
    OBVIOUS
  <2>3. pc \in [Workers -> Places]
    BY <2>2 DEF TypeOK
  <2>4. next \in Places
    BY <2>2
  <2>5. pc' \in [Workers -> Places]
    BY <2>1, <2>3, <2>4
  <2> QED
    BY <2>2, <2>5
<1>4. job' \in [Workers -> Jobs \cup {Nothing}] /\ held' \in [Workers -> Stores \cup {Nothing}]
  <2>1. job' \in [Workers -> Jobs \cup {Nothing}]
    BY FinishCases DEF TypeOK
  <2>2. held' \in [Workers -> Stores \cup {Nothing}]
    BY FinishCases DEF TypeOK
  <2> QED
    BY <2>1, <2>2
<1>5. row' \in [Workers -> 0..Len(Rows) + 1]
  BY <1>1, FinishCases DEF TypeOK
<1>6. answer' \in [Workers -> Reply \cup {Nothing}]
  BY <1>2, FinishCases DEF TypeOK
<1>7. kept' \subseteq Txns
  BY <1>1, FinishCases DEF TypeOK
<1> QED
  BY <1>3, <1>4, <1>5, <1>6, <1>7

LEMMA RequestKeepsType ==
    ASSUME TypeOK, Placed, NEW w \in Workers, (\E j \in Jobs : Receive(w, j)) \/ GetStore(w)
    PROVE  TypeOK'
<1> USE DEF TypeOK, Goto
<1>1. ASSUME NEW j \in Jobs, Receive(w, j) PROVE TypeOK'
  BY <1>1 DEF Receive
<1>2. Len(Rows) \in Nat /\ Stage(w) \in {"test", "community", "score"}
  BY RowsAssumption DEF Stage
<1>3. CASE Return(w) /\ UNCHANGED <<created, stores>>
  BY <1>2, <1>3 DEF Return, history, Reading
<1>4. CASE GetNone(w)
  BY <1>4 DEF GetNone, history
<1>5. ASSUME NEW s \in Stores, Publish(w, s) PROVE TypeOK'
  BY <1>5 DEF Publish, history
<1>6. CASE Seed(w)
  BY <1>2, <1>6 DEF Seed, history
<1>7. CASE NextRow(w)
  <2>1. row[w] \in DOMAIN Rows /\ row[w] \in 1..Len(Rows)
    BY <1>2, <1>7, RowsAssumption DEF NextRow, Placed, PlacedAt
  <2>2. NextRowOf(row[w]) \in 0..Len(Rows) + 1
    BY <1>2, <2>1, RowsTyped DEF NextRowOf
  <2> QED
    BY <1>7, <2>2 DEF NextRow, history
<1> QED
  BY <1>1, <1>3, <1>4, <1>5, <1>6, <1>7 DEF GetStore, Get, SeedDone, Return

LEMMA ObserveKeepsType ==
    ASSUME TypeOK, Placed, NEW w \in Workers, Observe(w)
    PROVE  TypeOK'
<1> DEFINE g == stores[held[w]]
           t == Observed(w).txn
<1>1. pc[w] \in Observing /\ pc[w] \in {"test"} \cup Writing
  BY DEF Observe, SkipDuplicate, TestNew, Insert, IndexCustomer, IndexMerchant, AppendEvent, ReadFlags,
         StoreFlags, Write, Observing, Owing, Writing
<1>2. t \in Txns /\ held[w] \in Stores /\ g \in Store
  BY <1>1, ObservedType
<1>3. CustomerOf(t) \in Customers /\ count[w] \in Nat
  BY <1>2, DetailsTypes DEF TypeOK
<1> HIDE DEF t
<1>4. ASSUME NEW new \in Store, stores' = [stores EXCEPT ![held[w]] = new]
      PROVE  stores' \in [Stores -> Store]
  BY <1>2, <1>4 DEF TypeOK
<1> HIDE DEF g
<1>5. CASE SkipDuplicate(w)
  <2>1. UNCHANGED <<current, created, stores, count, raised, quiet>> /\ Finish(w)
    BY <1>5 DEF SkipDuplicate
  <2> QED
    BY <1>1, <2>1, FinishKeepsType DEF TypeOK
<1>6. CASE TestNew(w)
  BY <1>6 DEF TestNew, TypeOK, Goto, Writing, history
<1>7. CASE Insert(w)
  <2>1. stores' = [stores EXCEPT ![held[w]] = AddTxn(g, t)]
    BY <1>7 DEF Insert, Write, g, t
  <2>2. stores' \in [Stores -> Store]
    BY <1>2, <1>4, <2>1, AddTxnFacts
  <2>3. quiet' \in [Workers -> BOOLEAN]
    BY <1>7 DEF Insert, TypeOK
  <2> QED
    BY <1>7, <2>2, <2>3 DEF Insert, Write, TypeOK, Goto, Writing
<1>8. CASE IndexCustomer(w)
  <2>1. stores' = [stores EXCEPT ![held[w]] = AddMerchant(g, t)]
    BY <1>8 DEF IndexCustomer, Write, g, t
  <2>2. stores' \in [Stores -> Store]
    BY <1>2, <1>4, <2>1, AddMerchantFacts
  <2> QED
    BY <1>8, <2>2 DEF IndexCustomer, Write, TypeOK, Goto, Writing, history
<1>9. CASE IndexMerchant(w)
  <2>1. stores' = [stores EXCEPT ![held[w]] = AddCustomer(g, t)]
    BY <1>9 DEF IndexMerchant, Write, g, t
  <2>2. stores' \in [Stores -> Store]
    BY <1>2, <1>4, <2>1, AddCustomerFacts
  <2> QED
    BY <1>9, <2>2 DEF IndexMerchant, Write, TypeOK, Goto, Writing, history
<1>10. CASE AppendEvent(w)
  <2>1. /\ stores' = [stores EXCEPT ![held[w]] = AddEvent(g, t)]
        /\ UNCHANGED <<current, created, count, quiet>>
    BY <1>10 DEF AppendEvent, Write, g, t
  <2>2. stores' \in [Stores -> Store]
    BY <1>2, <1>4, <2>1, AddEventFacts
  <2>3. CASE Observed(w).flagged
    <3>1. /\ raised' = [raised EXCEPT ![held[w]][CustomerOf(t)] = @ + 1]
          /\ Goto(w, "flag") /\ UNCHANGED <<job, held, row, answer, kept>>
      BY <1>10, <2>3 DEF AppendEvent, t
    <3>2. raised' \in [Stores -> [Customers -> Nat]]
      BY <1>2, <1>3, <3>1 DEF TypeOK
    <3> QED
      BY <2>1, <2>2, <3>1, <3>2 DEF TypeOK, Goto, Writing
  <2>4. CASE ~ Observed(w).flagged
    <3>1. UNCHANGED raised /\ Finish(w)
      BY <1>10, <2>4 DEF AppendEvent
    <3> QED
      BY <1>1, <2>1, <2>2, <3>1, FinishKeepsType DEF TypeOK
  <2> QED
    BY <2>3, <2>4
<1>11. CASE ReadFlags(w)
  <2>1. g.flags[CustomerOf(t)] \in Nat
    BY <1>2, <1>3 DEF Store
  <2>2. count' = [count EXCEPT ![w] = g.flags[CustomerOf(t)]]
    BY <1>11 DEF ReadFlags, g, t
  <2>3. count' \in [Workers -> Nat]
    BY <2>1, <2>2 DEF TypeOK
  <2> QED
    BY <1>11, <2>3 DEF ReadFlags, TypeOK, Goto, Writing, history
<1>12. CASE StoreFlags(w)
  <2>1. /\ stores' = [stores EXCEPT ![held[w]] = SetFlags(g, t, count[w] + 1)]
        /\ count' = [count EXCEPT ![w] = 0]
        /\ UNCHANGED <<current, created, raised, quiet>> /\ Finish(w)
    BY <1>12 DEF StoreFlags, Write, g, t
  <2>2. stores' \in [Stores -> Store]
    <3>1. count[w] + 1 \in Nat
      BY <1>3
    <3>2. SetFlags(g, t, count[w] + 1) \in Store
      BY <1>2, <3>1, SetFlagsFacts
    <3> QED
      BY <1>4, <2>1, <3>2
  <2>3. count' \in [Workers -> Nat]
    BY <2>1 DEF TypeOK
  <2> QED
    BY <1>1, <2>1, <2>2, <2>3, FinishKeepsType DEF TypeOK
<1> QED
  BY <1>5, <1>6, <1>7, <1>8, <1>9, <1>10, <1>11, <1>12 DEF Observe

\* What a reading writes into the answer.
LEMMA ReadingFacts ==
    ASSUME TypeOK, Placed, NEW w \in Workers, pc[w] \in ReadingStep
    PROVE  /\ Seen(w).shared = Cardinality(Peers(stores[held[w]], Customer(w), Window))
           /\ Seen(w).shared > 0 <=> Sharing(w)
           /\ ScoreOf(Seen(w)) \in 0..FullScore
           /\ ScoreOf(Seen(w)) > 0 <=> Sharing(w)
           /\ "shared" \in Findings(Seen(w)) <=> Sharing(w)
<1> DEFINE g == stores[held[w]]
<1>1. g \in Store
  BY ReadableHeld
<1>2. /\ Seen(w) = Features(g, Customer(w), Window)
      /\ Sharing(w) <=> Peers(g, Customer(w), Window) # {}
  BY DEF Seen, Sharing
<1> HIDE DEF g
<1>3. /\ Seen(w).shared = Cardinality(Peers(g, Customer(w), Window))
      /\ Seen(w).shared \in Nat /\ IsFiniteSet(Peers(g, Customer(w), Window))
  BY <1>1, <1>2, FeaturesTypes, PeersTypes
<1>4. Seen(w).shared > 0 <=> Sharing(w)
  BY <1>2, <1>3, FS_EmptySet
<1>5. "shared" \in Findings(Seen(w)) <=> Seen(w).shared > 0
  BY DEF Findings
<1> QED
  BY <1>1, <1>2, <1>3, <1>4, <1>5, ScoreType DEF g

LEMMA RepliesFilled ==
    ASSUME TypeOK, Placed, NEW w \in Workers, ReadScore(w) \/ ReadFindings(w) \/ ReadFeatures(w)
    PROVE  /\ answer'[w] \in Reply
           /\ ReadScore(w) => answer'[w].score = ScoreOf(Seen(w))
           /\ ReadFindings(w) => /\ answer'[w].score = answer[w].score
                                 /\ answer'[w].findings = Findings(Seen(w))
           /\ ReadFeatures(w) => /\ answer'[w].score = answer[w].score
                                 /\ answer'[w].findings = answer[w].findings
                                 /\ answer'[w].available <=> Seen(w).shared > 0
<1>1. pc[w] \in ReadingStep /\ w \in DOMAIN answer
  BY DEF ReadScore, ReadFindings, ReadFeatures, Read, ReadingStep, Reading, TypeOK
<1>2. /\ ScoreOf(Seen(w)) \in 0..FullScore
      /\ Findings(Seen(w)) \in SUBSET {"flagged", "shared", "near", "clusterFlagged"}
  BY <1>1, ReadingFacts DEF Findings
<1>3. pc[w] \in {"findings", "features"} => answer[w] \in Reply
  BY DEF Placed, PlacedAt
<1>4. /\ \A n \in 0..FullScore : /\ [Unread EXCEPT !.score = n] \in Reply
                                  /\ [Unread EXCEPT !.score = n].score = n
      /\ \A a \in Reply, f \in SUBSET {"flagged", "shared", "near", "clusterFlagged"} :
            /\ [a EXCEPT !.findings = f] \in Reply
            /\ [a EXCEPT !.findings = f].score = a.score /\ [a EXCEPT !.findings = f].findings = f
      /\ \A a \in Reply, b \in BOOLEAN :
            /\ [a EXCEPT !.available = b] \in Reply
            /\ [a EXCEPT !.available = b].score = a.score
            /\ [a EXCEPT !.available = b].findings = a.findings
            /\ [a EXCEPT !.available = b].available = b
  BY DEF Reply, Unread
<1>5. pc[w] = "score" => ~ (pc[w] = "findings" \/ pc[w] = "features")
  OBVIOUS
<1>6. CASE ReadScore(w)
  <2>1. answer'[w] = [Unread EXCEPT !.score = ScoreOf(Seen(w))] /\ pc[w] = "score"
    BY <1>1, <1>6 DEF ReadScore, Read
  <2>2. ~ ReadFindings(w) /\ ~ ReadFeatures(w)
    BY <2>1 DEF ReadFindings, ReadFeatures, Read
  <2> QED
    BY <1>2, <1>4, <2>1, <2>2
<1>7. CASE ReadFindings(w)
  <2>1. answer'[w] = [answer[w] EXCEPT !.findings = Findings(Seen(w))] /\ pc[w] = "findings"
    BY <1>1, <1>7 DEF ReadFindings, Read
  <2>2. ~ ReadScore(w) /\ ~ ReadFeatures(w)
    BY <2>1 DEF ReadScore, ReadFeatures, Read
  <2> QED
    BY <1>2, <1>3, <1>4, <2>1, <2>2
<1>8. CASE ReadFeatures(w)
  <2> DEFINE b == Seen(w).shared > 0
  <2>1. answer'[w] = [answer[w] EXCEPT !.available = b] /\ pc[w] = "features"
    BY <1>1, <1>8 DEF ReadFeatures, Read
  <2>2. ~ ReadScore(w) /\ ~ ReadFindings(w)
    BY <2>1 DEF ReadScore, ReadFindings, Read
  <2>3. b \in BOOLEAN
    OBVIOUS
  <2> HIDE DEF b
  <2>4. answer'[w] \in Reply /\ answer'[w].score = answer[w].score
        /\ answer'[w].findings = answer[w].findings /\ answer'[w].available = b
    BY <1>3, <1>4, <2>1, <2>3
  <2> QED
    BY <2>2, <2>4 DEF b
<1> QED
  BY <1>6, <1>7, <1>8

LEMMA AnswerKeepsType ==
    ASSUME TypeOK, Placed, NEW w \in Workers, Answer(w)
    PROVE  TypeOK'
<1> USE DEF Goto, Read, Continue, Done, history
<1>1. CASE ReadScore(w) \/ ReadFindings(w) \/ ReadFeatures(w)
  <2>1. answer'[w] \in Reply
    BY <1>1, RepliesFilled
  <2>2. answer' \in [Workers -> Reply \cup {Nothing}]
    BY <1>1, <2>1 DEF ReadScore, ReadFindings, ReadFeatures, TypeOK
  <2> QED
    BY <1>1, <2>2 DEF ReadScore, ReadFindings, ReadFeatures, TypeOK, Reading
<1>2. CASE ReadCommunity(w) \/ Raise(w)
  BY <1>2 DEF ReadCommunity, Raise, TypeOK
<1> QED
  BY <1>1, <1>2 DEF Answer

LEMMA StepKeepsType ==
    ASSUME TypeOK, Placed, NEW w \in Workers, StepOf(w)
    PROVE  TypeOK'
BY RequestKeepsType, ObserveKeepsType, AnswerKeepsType DEF StepOf

-----------------------------------------------------------------------------
(* Where the workers are.                                                  *)
\* It is enough to know where the worker that moves is then.
LEMMA PlacedOthers ==
    ASSUME TypeOK, Placed, NEW w \in Workers, Alone(w), created \subseteq created',
           current' = current \/ (current' \in created' /\ current' # Nothing),
           PlacedAt(w)'
    PROVE  Placed'
<1>1. current' # Nothing => current' \in created'
  BY DEF Placed
<1>2. current # Nothing => current' # Nothing
  OBVIOUS
<1>3. ASSUME NEW v \in Workers, v # w PROVE PlacedAt(v)'
  BY <1>2, <1>3 DEF Placed, PlacedAt, Alone
<1> QED
  BY <1>1, <1>3 DEF Placed

LEMMA FinishKeepsPlaced ==
    ASSUME TypeOK, Placed, NEW w \in Workers, pc[w] \in Observing, Finish(w), Alone(w),
           UNCHANGED <<current, created>>
    PROVE  Placed'
<1>1. /\ row[w] \in Nat /\ row[w] <= Len(Rows) /\ Len(Rows) \in Nat
      /\ held[w] \in created /\ job[w] \in Jobs
      /\ row[w] > 0 => current # Nothing
  BY ObservedType, RowsAssumption DEF Placed, PlacedAt, Observing, Owing
<1>2. created \subseteq created' /\ current' = current /\ created' = created
  OBVIOUS
<1>3. CASE row[w] > 0
  <2>1. pc'[w] = "rows" /\ row'[w] = row[w] + 1 /\ job'[w] = job[w] /\ held'[w] = held[w]
    BY <1>3, FinishAt
  <2>2. PlacedAt(w)'
    <3>1. row'[w] > 0 /\ held'[w] \in created' /\ job'[w] \in Jobs /\ current' # Nothing
      BY <1>1, <1>2, <1>3, <2>1
    <3> QED
      BY <2>1, <3>1 DEF PlacedAt, Observing, Owing, ReadingStep, Reading
  <2> QED
    BY <1>2, <2>2, PlacedOthers
<1>4. CASE row[w] = 0
  <2>1. row'[w] = 0 /\ ((pc'[w] = "get" /\ job'[w] = job[w]) \/ pc'[w] = "idle")
    BY <1>4, FinishAt
  <2>2. PlacedAt(w)'
    <3>1. pc'[w] # "idle" => job'[w] \in Jobs
      BY <1>1, <2>1
    <3>2. pc'[w] \in {"get", "idle"} /\ ~ (row'[w] > 0)
      BY <2>1
    <3> QED
      BY <3>1, <3>2 DEF PlacedAt, Observing, Owing, Seeding, ReadingStep, Reading
  <2> QED
    BY <1>2, <2>2, PlacedOthers
<1> QED
  BY <1>1, <1>3, <1>4

LEMMA PlacedStep ==
    ASSUME TypeOK, Placed, NEW w \in Workers, StepOf(w)
    PROVE  Placed'
<1> DEFINE Still == created' = created /\ current' = current
<1>1. Alone(w) /\ PlacedAt(w) /\ (current # Nothing => current \in created)
  BY OthersStay DEF Placed
<1>2. ASSUME Still, PlacedAt(w)' PROVE Placed'
  BY <1>1, <1>2, PlacedOthers
<1>3. row[w] \in 0..Len(Rows) + 1 /\ Len(Rows) \in Nat
  BY RowsAssumption DEF TypeOK
<1>4. row[w] \in Nat
  BY <1>3
<1> USE DEF Observing, Owing, Seeding, ReadingStep, Reading
<1>5. ASSUME NEW j \in Jobs, Receive(w, j) PROVE Placed'
  <2>1. pc'[w] = "get" /\ job'[w] = j /\ row'[w] = row[w] /\ Still /\ pc[w] = "idle"
    BY <1>5 DEF Receive, Goto, TypeOK
  <2>2. PlacedAt(w)'
    BY <1>1, <2>1 DEF PlacedAt
  <2> QED
    BY <1>2, <2>1, <2>2
<1>6. CASE Return(w) /\ Still /\ current # Nothing /\ pc[w] \in {"get", "rows"}
  <2>1. /\ pc'[w] = Stage(w) /\ job'[w] = job[w] /\ row'[w] = 0 /\ held'[w] = current
    BY <1>6 DEF Return, Goto, TypeOK
  <2>2. Stage(w) \in {"test", "community", "score"}
    BY DEF Stage
  <2>3. pc'[w] \in {"test", "community", "score"} /\ job'[w] \in Jobs /\ held'[w] \in created'
    BY <1>1, <1>6, <2>1, <2>2 DEF PlacedAt
  <2>4. PlacedAt(w)'
    BY <1>3, <2>1, <2>3 DEF PlacedAt
  <2> QED
    BY <1>2, <1>6, <2>4
<1>7. CASE GetNone(w)
  <2>1. pc'[w] = "publish" /\ job'[w] = job[w] /\ row'[w] = row[w] /\ Still /\ pc[w] = "get"
    BY <1>7 DEF GetNone, Goto, TypeOK
  <2>2. PlacedAt(w)'
    BY <1>1, <2>1 DEF PlacedAt
  <2> QED
    BY <1>2, <2>1, <2>2
<1>8. ASSUME NEW s \in Stores, Publish(w, s) PROVE Placed'
  <2>1. /\ pc'[w] = "seed" /\ job'[w] = job[w] /\ row'[w] = row[w] /\ pc[w] = "publish"
        /\ current' = s /\ created' = created \cup {s}
    BY <1>8 DEF Publish, Goto, TypeOK
  <2>2. current' # Nothing /\ current' \in created' /\ created \subseteq created'
    BY <2>1, WorkersAssumption
  <2>3. PlacedAt(w)'
    BY <1>1, <2>1, <2>2 DEF PlacedAt
  <2> QED
    BY <1>1, <2>2, <2>3, PlacedOthers
<1>9. CASE Seed(w)
  <2>1. /\ pc'[w] = "rows" /\ job'[w] = job[w] /\ row'[w] = 1 /\ held'[w] = current /\ Still
        /\ pc[w] = "seed"
    BY <1>9 DEF Seed, Goto, TypeOK
  <2>2. PlacedAt(w)'
    BY <1>1, <1>3, <2>1 DEF PlacedAt
  <2> QED
    BY <1>2, <2>1, <2>2
<1>10. CASE NextRow(w)
  <2>1. /\ pc'[w] = IF Rows[row[w]].kind = "good" THEN "test" ELSE "rows"
        /\ job'[w] = job[w] /\ held'[w] = held[w] /\ Still
        /\ pc[w] = "rows" /\ row'[w] = NextRowOf(row[w]) /\ row[w] <= Len(Rows)
    BY <1>10 DEF NextRow, Goto, TypeOK
  <2>2. row[w] > 0 /\ row[w] \in DOMAIN Rows
    BY <1>1, <1>3, <2>1, RowsAssumption DEF PlacedAt
  <2>3. /\ Rows[row[w]].kind = "good" => row'[w] = row[w]
        /\ row'[w] > 0
    BY <1>3, <2>1, <2>2, RowsTyped DEF NextRowOf
  <2>4. job'[w] \in Jobs /\ held'[w] \in created' /\ current' # Nothing
    BY <1>1, <2>1 DEF PlacedAt
  <2>5. CASE Rows[row[w]].kind = "good"
    BY <2>1, <2>3, <2>4, <2>5, <1>2 DEF PlacedAt
  <2>6. CASE Rows[row[w]].kind # "good"
    BY <2>1, <2>3, <2>4, <2>6, <1>2 DEF PlacedAt
  <2> QED
    BY <2>5, <2>6
<1>11. CASE SkipDuplicate(w)
  BY <1>1, <1>11, FinishKeepsPlaced DEF SkipDuplicate
<1>12. CASE TestNew(w) \/ Insert(w) \/ IndexCustomer(w) \/ IndexMerchant(w) \/ ReadFlags(w)
  <2>1. /\ pc[w] \in Observing /\ pc'[w] \in Observing /\ Still
        /\ job'[w] = job[w] /\ held'[w] = held[w] /\ row'[w] = row[w]
    BY <1>12 DEF TestNew, Insert, IndexCustomer, IndexMerchant, ReadFlags, Write, Goto, TypeOK
  <2>2. PlacedAt(w)'
    BY <1>1, <2>1 DEF PlacedAt
  <2> QED
    BY <1>2, <2>1, <2>2
<1>13. CASE AppendEvent(w)
  <2>1. pc[w] = "event" /\ Still
    BY <1>13 DEF AppendEvent, Write
  <2>2. CASE Observed(w).flagged
    <3>1. pc'[w] = "flag" /\ job'[w] = job[w] /\ held'[w] = held[w] /\ row'[w] = row[w]
      BY <1>13, <2>2 DEF AppendEvent, Goto, TypeOK
    <3>2. PlacedAt(w)'
      BY <1>1, <2>1, <3>1 DEF PlacedAt
    <3> QED
      BY <1>2, <2>1, <3>2
  <2>3. CASE ~ Observed(w).flagged
    BY <1>1, <1>13, <2>1, <2>3, FinishKeepsPlaced DEF AppendEvent
  <2> QED
    BY <2>2, <2>3
<1>14. CASE StoreFlags(w)
  BY <1>1, <1>14, FinishKeepsPlaced DEF StoreFlags, Write
<1>15. CASE ReadScore(w) \/ ReadFindings(w)
  <2>1. answer'[w] \in Reply
    BY <1>15, RepliesFilled
  <2>2. /\ pc[w] \in Reading /\ pc'[w] \in {"findings", "features"} /\ Still
        /\ job'[w] = job[w] /\ held'[w] = held[w] /\ row'[w] = row[w]
    BY <1>15 DEF ReadScore, ReadFindings, Read, Continue, Goto, TypeOK
  <2>3. PlacedAt(w)'
    BY <1>1, <2>1, <2>2 DEF PlacedAt
  <2> QED
    BY <1>2, <2>2, <2>3
<1>16. CASE ReadFeatures(w) \/ ReadCommunity(w) \/ Raise(w)
  <2>1. /\ pc[w] \in ReadingStep /\ pc'[w] = "idle" /\ row'[w] = row[w] /\ Still
    BY <1>16 DEF ReadFeatures, ReadCommunity, Raise, Read, Done, Goto, TypeOK
  <2>2. PlacedAt(w)'
    BY <1>1, <2>1 DEF PlacedAt
  <2> QED
    BY <1>2, <2>1, <2>2
<1>17. Get(w) \/ SeedDone(w) => Return(w) /\ Still /\ current # Nothing /\ pc[w] \in {"get", "rows"}
  BY <1>1 DEF Get, SeedDone, Return, PlacedAt
<1> QED
  BY <1>5, <1>6, <1>7, <1>8, <1>9, <1>10, <1>11, <1>12, <1>13, <1>14, <1>15, <1>16, <1>17
     DEF StepOf, GetStore, Observe, Answer

-----------------------------------------------------------------------------
(* The indexes: what is owed and what is listed.                           *)
Listed == Stored /\ Indexed /\ Sourced

\* Steps that neither write nor leave a debt.
Aside(w) ==
    \/ \E j \in Jobs : Receive(w, j)
    \/ GetStore(w) \/ SkipDuplicate(w) \/ TestNew(w) \/ Answer(w)

LEMMA AsideStep ==
    ASSUME TypeOK, Listed, Counted, NEW w \in Workers, Aside(w)
    PROVE  Listed' /\ Counted'
<1>1. Alone(w)
  BY OthersStay DEF Aside, StepOf, Observe
<1>2. stores' = stores /\ raised' = raised
  BY DEF Aside, Receive, GetStore, Get, GetNone, Publish, Seed, NextRow, SeedDone, Return, SkipDuplicate,
         TestNew, Answer, ReadScore, ReadFindings, ReadFeatures, ReadCommunity, Raise, Read, history
<1>3. pc[w] \notin Owing /\ pc'[w] \notin Owing
  <2>1. CASE SkipDuplicate(w)
    <3>1. pc[w] = "test" /\ Finish(w)
      BY <2>1 DEF SkipDuplicate
    <3> QED
      BY <3>1, FinishCases DEF TypeOK, Owing
  <2>2. CASE (\E j \in Jobs : Receive(w, j)) \/ GetStore(w) \/ TestNew(w)
    BY <2>2 DEF Receive, GetStore, Get, GetNone, Publish, Seed, NextRow, SeedDone, Return, TestNew,
                Stage, Goto, TypeOK, Owing
  <2>3. CASE Answer(w)
    BY <2>3 DEF Answer, ReadScore, ReadFindings, ReadFeatures, ReadCommunity, Raise, Read,
                Reading, Continue, Done, Goto, TypeOK, Owing
  <2> QED
    BY <2>1, <2>2, <2>3 DEF Aside
<1> QED
  BY <1>1, <1>2, <1>3, NoDebtStep DEF Listed

\* A write of w on its way through observe: it adds nothing but its payment
\* to the store, and what it stops owing has been delivered.
Delivers(w, s, t, g, h) ==
    /\ pc[w] \in {"insert"} \cup Owing /\ held[w] = s /\ Observed(w).txn = t
    /\ pc'[w] \in Owing => held'[w] = s /\ Observed(w)'.txn = t
    /\ stores[s] = g /\ stores'[s] = h /\ \A q \in Stores : q # s => stores'[q] = stores[q]
    /\ h.txns = g.txns \cup {t}
    /\ g.byCustomer \subseteq h.byCustomer
    /\ h.byCustomer \subseteq g.byCustomer \cup {<<CustomerOf(t), MerchantOf(t)>>}
    /\ g.byMerchant \subseteq h.byMerchant
    /\ h.byMerchant \subseteq g.byMerchant \cup {<<MerchantOf(t), CustomerOf(t)>>}
    /\ \A u \in Txns : /\ u # t => h.events[u] = g.events[u]
                       /\ g.events[t] > 0 => h.events[t] > 0
    /\ \/ <<CustomerOf(t), MerchantOf(t)>> \in h.byCustomer
       \/ pc'[w] = "byCustomer"
       \/ pc[w] \in Owing \ {"byCustomer"}
    /\ \/ <<MerchantOf(t), CustomerOf(t)>> \in h.byMerchant
       \/ pc'[w] \in {"byCustomer", "byMerchant"}
       \/ pc[w] \in Owing \ {"byCustomer", "byMerchant"}
    /\ \/ h.events[t] > 0
       \/ pc'[w] \in {"byCustomer", "byMerchant", "event"}
       \/ pc[w] \in Owing \ {"byCustomer", "byMerchant", "event"}

\* Whoever else owes something still does.
LEMMA OthersOwe ==
    ASSUME NEW w \in Workers, Alone(w), NEW s, NEW t, NEW steps
    PROVE  /\ Debtors(s, t, steps) # {} /\ w \notin Debtors(s, t, steps) => Debtors(s, t, steps)' # {}
           /\ Debtors(s, t, steps)' # {} /\ w \notin Debtors(s, t, steps)' => Debtors(s, t, steps) # {}
<1>1. Debtors(s, t, steps)' \ {w} = Debtors(s, t, steps) \ {w}
  BY DebtorsStay
<1> QED
  BY <1>1

LEMMA DeliveryKeeps ==
    ASSUME Stored, Indexed, Sourced, NEW w \in Workers, Alone(w), NEW s \in Stores, NEW t \in Txns,
           NEW g, NEW h, g.txns \subseteq Txns, Delivers(w, s, t, g, h)
    PROVE  Stored' /\ Indexed' /\ Sourced'
<1>1. \A q, u : w \in Debtors(q, u, Owing)' => q = s /\ u = t
  BY DebtorsStay DEF Delivers
<1>2. \A q, u, steps : w \in Debtors(q, u, steps) => q = s /\ u = t
  BY DebtorsStay DEF Delivers
<1>3. \A steps \in SUBSET Owing : \A q, u :
         ~ (q = s /\ u = t) /\ Debtors(q, u, steps) # {} => Debtors(q, u, steps)' # {}
  BY <1>2, OthersOwe
<1>4. \A steps \in SUBSET Owing :
         /\ pc'[w] \in steps => Debtors(s, t, steps)' # {}
         /\ pc[w] \notin steps /\ Debtors(s, t, steps) # {} => Debtors(s, t, steps)' # {}
  <2> TAKE steps \in SUBSET Owing
  <2>1. pc'[w] \in steps => w \in Debtors(s, t, steps)'
    BY DebtorsStay DEF Delivers
  <2>2. pc[w] \notin steps => w \notin Debtors(s, t, steps)
    BY DebtorsStay
  <2> QED
    BY <2>1, <2>2, OthersOwe
<1>5. Stored'
  <2> SUFFICES ASSUME NEW q \in Stores, NEW u \in Txns, Debtors(q, u, Owing)' # {}
               PROVE  u \in stores'[q].txns
    BY DEF Stored
  <2>1. CASE q = s /\ u = t
    BY <2>1 DEF Delivers
  <2>2. CASE ~ (q = s /\ u = t)
    <3>1. Debtors(q, u, Owing) # {}
      BY <1>1, <2>2, OthersOwe
    <3>2. u \in stores[q].txns
      BY <3>1 DEF Stored
    <3> QED
      BY <3>2 DEF Delivers
  <2> QED
    BY <2>1, <2>2
<1>6. pc[w] \in Owing => t \in g.txns
  <2> SUFFICES ASSUME pc[w] \in Owing PROVE t \in g.txns
    OBVIOUS
  <2>1. w \in Debtors(s, t, Owing)
    BY DebtorsStay DEF Delivers
  <2> QED
    BY <2>1 DEF Stored, Delivers
<1>7. Indexed'
  <2> DEFINE first == {"byCustomer"}
             second == {"byCustomer", "byMerchant"}
             third == {"byCustomer", "byMerchant", "event"}
  <2>0. first \subseteq Owing /\ second \subseteq Owing /\ third \subseteq Owing
    BY DEF Owing
  <2> SUFFICES ASSUME NEW q \in Stores, NEW u \in stores'[q].txns
               PROVE  /\ \/ <<CustomerOf(u), MerchantOf(u)>> \in stores'[q].byCustomer
                         \/ Debtors(q, u, first)' # {}
                      /\ \/ <<MerchantOf(u), CustomerOf(u)>> \in stores'[q].byMerchant
                         \/ Debtors(q, u, second)' # {}
                      /\ \/ stores'[q].events[u] > 0
                         \/ Debtors(q, u, third)' # {}
    BY DEF Indexed
  <2>1. u \in stores[q].txns =>
            /\ \/ <<CustomerOf(u), MerchantOf(u)>> \in stores[q].byCustomer
               \/ Debtors(q, u, first) # {}
            /\ \/ <<MerchantOf(u), CustomerOf(u)>> \in stores[q].byMerchant
               \/ Debtors(q, u, second) # {}
            /\ \/ stores[q].events[u] > 0
               \/ Debtors(q, u, third) # {}
    BY DEF Indexed
  <2>2. CASE q = s /\ u = t
    <3>1. /\ \/ <<CustomerOf(t), MerchantOf(t)>> \in h.byCustomer
             \/ pc'[w] \in first \/ pc[w] \in Owing \ first
          /\ \/ <<MerchantOf(t), CustomerOf(t)>> \in h.byMerchant
             \/ pc'[w] \in second \/ pc[w] \in Owing \ second
          /\ \/ h.events[t] > 0
             \/ pc'[w] \in third \/ pc[w] \in Owing \ third
          /\ stores'[s] = h /\ stores[s] = g
          /\ g.byCustomer \subseteq h.byCustomer /\ g.byMerchant \subseteq h.byMerchant
          /\ g.events[t] > 0 => h.events[t] > 0
      BY DEF Delivers
    <3>2. \A steps \in {first, second, third} :
              /\ pc'[w] \in steps => Debtors(s, t, steps)' # {}
              /\ pc[w] \notin steps /\ Debtors(s, t, steps) # {} => Debtors(s, t, steps)' # {}
      BY <1>4, <2>0
    <3> HIDE DEF first, second, third
    <3> QED
      BY <1>6, <2>1, <2>2, <3>1, <3>2
  <2>3. CASE q # s \/ u # t
    <3>1. /\ u \in stores[q].txns
          /\ stores[q].byCustomer \subseteq stores'[q].byCustomer
          /\ stores[q].byMerchant \subseteq stores'[q].byMerchant
      BY <2>3 DEF Delivers
    <3>2. stores[q].events[u] = stores'[q].events[u]
      <4>1. CASE q # s
        BY <4>1 DEF Delivers
      <4>2. CASE q = s
        BY <2>3, <3>1, <4>2 DEF Delivers
      <4> QED
        BY <4>1, <4>2
    <3>3. \A steps \in {first, second, third} :
              Debtors(q, u, steps) # {} => Debtors(q, u, steps)' # {}
      BY <1>3, <2>0, <2>3
    <3> HIDE DEF first, second, third
    <3> QED
      BY <2>1, <3>1, <3>2, <3>3
  <2> QED
    BY <2>2, <2>3
<1>8. Sourced'
  <2> SUFFICES ASSUME NEW q \in Stores
               PROVE  /\ \A p \in stores'[q].byCustomer :
                            \E u \in stores'[q].txns : p = <<CustomerOf(u), MerchantOf(u)>>
                      /\ \A p \in stores'[q].byMerchant :
                            \E u \in stores'[q].txns : p = <<MerchantOf(u), CustomerOf(u)>>
                      /\ \A u \in Txns : stores'[q].events[u] > 0 => u \in stores'[q].txns
    BY DEF Sourced
  <2>1. /\ \A p \in stores[q].byCustomer :
              \E u \in stores[q].txns : p = <<CustomerOf(u), MerchantOf(u)>>
        /\ \A p \in stores[q].byMerchant :
              \E u \in stores[q].txns : p = <<MerchantOf(u), CustomerOf(u)>>
        /\ \A u \in Txns : stores[q].events[u] > 0 => u \in stores[q].txns
    BY DEF Sourced
  <2>2. CASE q # s
    BY <2>1, <2>2 DEF Delivers
  <2>3. CASE q = s
    <3>1. /\ stores'[q] = h /\ stores[q] = g /\ h.txns = g.txns \cup {t}
          /\ h.byCustomer \subseteq g.byCustomer \cup {<<CustomerOf(t), MerchantOf(t)>>}
          /\ h.byMerchant \subseteq g.byMerchant \cup {<<MerchantOf(t), CustomerOf(t)>>}
          /\ \A u \in Txns : u # t => h.events[u] = g.events[u]
      BY <2>3 DEF Delivers
    <3>2. \A p \in h.byCustomer : \E u \in h.txns : p = <<CustomerOf(u), MerchantOf(u)>>
      BY <2>1, <3>1
    <3>3. \A p \in h.byMerchant : \E u \in h.txns : p = <<MerchantOf(u), CustomerOf(u)>>
      BY <2>1, <3>1
    <3>4. \A u \in Txns : h.events[u] > 0 => u \in h.txns
      BY <2>1, <3>1
    <3> QED
      BY <3>1, <3>2, <3>3, <3>4
  <2> QED
    BY <2>2, <2>3
<1> QED
  BY <1>5, <1>7, <1>8

LEMMA WriteSteps ==
    ASSUME TypeOK, Placed, Listed, Counted, NEW w \in Workers,
           Insert(w) \/ IndexCustomer(w) \/ IndexMerchant(w) \/ (AppendEvent(w) /\ ~ Observed(w).flagged)
    PROVE  Listed' /\ Counted'
<1>0. PICK s, t, g, h : s = held[w] /\ t = Observed(w).txn /\ g = stores[s] /\ h = stores'[s]
  OBVIOUS
<1>1. Alone(w)
  BY OthersStay DEF StepOf, Observe
<1>2. pc[w] \in {"insert", "byCustomer", "byMerchant", "event"}
  BY DEF Insert, IndexCustomer, IndexMerchant, AppendEvent, Write
<1>3. s \in Stores /\ t \in Txns /\ g \in Store
  BY <1>0, <1>2, ObservedType DEF Observing, Owing
<1>4. g.txns \subseteq Txns /\ g.events \in [Txns -> Nat]
  BY <1>3 DEF Store
<1>5. raised' = raised /\ count' = count /\ \A q \in Stores : q # s => stores'[q] = stores[q]
  BY <1>0, <1>3 DEF Insert, IndexCustomer, IndexMerchant, AppendEvent, Write, history, TypeOK
<1>6. pc[w] \in Owing => t \in g.txns
  <2>1. w \in Debtors(s, t, {pc[w]}) /\ (pc[w] \in Owing => w \in Debtors(s, t, Owing))
    BY <1>0 DEF Debtors
  <2> QED
    BY <2>1, <1>0, <1>3 DEF Listed, Stored
<1>7. h.flags = g.flags /\ Delivers(w, s, t, g, h) /\ pc'[w] \notin {"flag", "flagging"}
  <2>1. CASE Insert(w)
    <3>1. pc[w] = "insert" /\ pc'[w] = "byCustomer" /\ held' = held /\ Observed(w)' = Observed(w)
      BY <2>1 DEF Insert, Write, Goto, Observed, TypeOK
    <3>2. h = AddTxn(g, t)
      BY <2>1, <1>0, <1>3 DEF Insert, Write, TypeOK
    <3>3. /\ h.txns = g.txns \cup {t} /\ h.byCustomer = g.byCustomer /\ h.byMerchant = g.byMerchant
          /\ h.events = g.events /\ h.flags = g.flags
      BY <3>2, <1>3, AddTxnFacts
    <3> QED
      BY <1>0, <1>3, <1>5, <3>1, <3>3 DEF Delivers, Owing
  <2>2. CASE IndexCustomer(w)
    <3>1. pc[w] = "byCustomer" /\ pc'[w] = "byMerchant" /\ held' = held /\ Observed(w)' = Observed(w)
      BY <2>2 DEF IndexCustomer, Write, Goto, Observed, TypeOK
    <3>2. h = AddMerchant(g, t)
      BY <2>2, <1>0, <1>3 DEF IndexCustomer, Write, TypeOK
    <3>3. /\ h.txns = g.txns /\ h.byCustomer = g.byCustomer \cup {<<CustomerOf(t), MerchantOf(t)>>}
          /\ h.byMerchant = g.byMerchant /\ h.events = g.events /\ h.flags = g.flags
      BY <3>2, <1>3, AddMerchantFacts
    <3> QED
      BY <1>0, <1>3, <1>5, <1>6, <3>1, <3>3 DEF Delivers, Owing
  <2>3. CASE IndexMerchant(w)
    <3>1. pc[w] = "byMerchant" /\ pc'[w] = "event" /\ held' = held /\ Observed(w)' = Observed(w)
      BY <2>3 DEF IndexMerchant, Write, Goto, Observed, TypeOK
    <3>2. h = AddCustomer(g, t)
      BY <2>3, <1>0, <1>3 DEF IndexMerchant, Write, TypeOK
    <3>3. /\ h.txns = g.txns /\ h.byMerchant = g.byMerchant \cup {<<MerchantOf(t), CustomerOf(t)>>}
          /\ h.byCustomer = g.byCustomer /\ h.events = g.events /\ h.flags = g.flags
      BY <3>2, <1>3, AddCustomerFacts
    <3> QED
      BY <1>0, <1>3, <1>5, <1>6, <3>1, <3>3 DEF Delivers, Owing
  <2>4. CASE AppendEvent(w) /\ ~ Observed(w).flagged
    <3>1. pc[w] = "event" /\ pc'[w] \in {"rows", "get", "idle"}
      <4>1. pc[w] = "event" /\ Finish(w)
        BY <2>4 DEF AppendEvent, Write
      <4> QED
        BY <4>1, FinishAt DEF TypeOK
    <3>2. h = AddEvent(g, t)
      BY <2>4, <1>0, <1>3 DEF AppendEvent, Write, TypeOK
    <3>3. /\ h.txns = g.txns /\ h.byMerchant = g.byMerchant
          /\ h.byCustomer = g.byCustomer /\ h.flags = g.flags
          /\ h.events = [g.events EXCEPT ![t] = @ + 1]
      BY <3>2, <1>3, AddEventFacts
    <3>4. h.events[t] > 0 /\ \A u \in Txns : u # t => h.events[u] = g.events[u]
      <4>1. g.events[t] \in Nat /\ h.events[t] = g.events[t] + 1
        BY <1>3, <1>4, <3>3
      <4> QED
        BY <4>1, <1>3, <1>4, <3>3
    <3> QED
      BY <1>0, <1>3, <1>5, <1>6, <3>1, <3>3, <3>4 DEF Delivers, Owing
  <2> QED
    BY <2>1, <2>2, <2>3, <2>4
<1>8. Listed'
  BY <1>1, <1>3, <1>4, <1>7, DeliveryKeeps DEF Listed
<1>9. Counted'
  <2>1. \A q, c : Raising(q, c)' = Raising(q, c) /\ w \notin Raising(q, c)
    BY <1>1, <1>2, <1>7, RaisingStays
  <2>2. \A q \in Stores : stores'[q].flags = stores[q].flags
    BY <1>0, <1>5, <1>7
  <2>3. \A q, c : \A v \in Raising(q, c) : pc'[v] = pc[v]
    BY <1>1, <2>1 DEF Alone, Raising
  <2> QED
    BY <1>5, <2>1, <2>2, <2>3 DEF Counted
<1> QED
  BY <1>8, <1>9

\* A worker that begins to raise a count, and one that has raised it.
LEMMA RaisingGrows ==
    ASSUME NEW w \in Workers, NEW s, NEW c, w \notin Raising(s, c), Raising(s, c)' = Raising(s, c) \cup {w}
    PROVE  Cardinality(Raising(s, c)') = Cardinality(Raising(s, c)) + 1
BY RaisingFinite, FS_AddElement

LEMMA RaisingShrinks ==
    ASSUME NEW w \in Workers, NEW s, NEW c, w \in Raising(s, c), Raising(s, c)' = Raising(s, c) \ {w}
    PROVE  Cardinality(Raising(s, c)') = Cardinality(Raising(s, c)) - 1
BY RaisingFinite, FS_RemoveElement

LEMMA BeginFlag ==
    ASSUME TypeOK, Placed, Listed, Counted, NEW w \in Workers, AppendEvent(w), Observed(w).flagged
    PROVE  Listed' /\ Counted'
<1>0. PICK s, t, g, h : s = held[w] /\ t = Observed(w).txn /\ g = stores[s] /\ h = stores'[s]
  OBVIOUS
<1> DEFINE c == CustomerOf(t)
<1>1. Alone(w)
  BY OthersStay DEF StepOf, Observe
<1>2. /\ pc[w] = "event" /\ pc'[w] = "flag" /\ held' = held /\ Observed(w)' = Observed(w) /\ count' = count
      /\ raised' = [raised EXCEPT ![s][c] = @ + 1]
  BY <1>0 DEF AppendEvent, Write, Goto, Observed, TypeOK
<1>3. s \in Stores /\ t \in Txns /\ g \in Store /\ c \in Customers
  BY <1>0, <1>2, ObservedType, DetailsTypes DEF Observing, Owing
<1>4. g.txns \subseteq Txns /\ g.events \in [Txns -> Nat]
  BY <1>3 DEF Store
<1>5. h = AddEvent(g, t) /\ \A q \in Stores : q # s => stores'[q] = stores[q]
  BY <1>0, <1>3 DEF AppendEvent, Write, TypeOK
<1>6. /\ h.txns = g.txns /\ h.byMerchant = g.byMerchant
      /\ h.byCustomer = g.byCustomer /\ h.flags = g.flags
      /\ h.events = [g.events EXCEPT ![t] = @ + 1]
  BY <1>5, <1>3, AddEventFacts
<1>7. h.events[t] > 0 /\ \A u \in Txns : u # t => h.events[u] = g.events[u]
  <2>1. g.events[t] \in Nat /\ h.events[t] = g.events[t] + 1
    BY <1>3, <1>4, <1>6
  <2>2. h.events[t] > 0
    BY <2>1
  <2>3. \A u \in Txns : u # t => h.events[u] = g.events[u]
    BY <1>3, <1>4, <1>6
  <2> QED
    BY <2>2, <2>3
<1>8. t \in g.txns
  <2>1. w \in Debtors(s, t, Owing)
    BY <1>0, <1>2 DEF Debtors, Owing
  <2> QED
    BY <2>1, <1>0, <1>3 DEF Listed, Stored
<1>9. Listed'
  <2>1. Delivers(w, s, t, g, h)
    <3>1. /\ pc[w] \in {"insert"} \cup Owing /\ held[w] = s /\ Observed(w).txn = t
          /\ pc'[w] \in Owing => held'[w] = s /\ Observed(w)'.txn = t
          /\ stores[s] = g /\ stores'[s] = h /\ \A q \in Stores : q # s => stores'[q] = stores[q]
      BY <1>0, <1>2, <1>5 DEF Owing
    <3>2. /\ h.txns = g.txns \cup {t} /\ h.byCustomer = g.byCustomer /\ h.byMerchant = g.byMerchant
          /\ \A u \in Txns : /\ u # t => h.events[u] = g.events[u]
                             /\ g.events[t] > 0 => h.events[t] > 0
      BY <1>6, <1>7, <1>8
    <3>3. /\ \/ <<CustomerOf(t), MerchantOf(t)>> \in h.byCustomer
             \/ pc'[w] = "byCustomer"
             \/ pc[w] \in Owing \ {"byCustomer"}
          /\ \/ <<MerchantOf(t), CustomerOf(t)>> \in h.byMerchant
             \/ pc'[w] \in {"byCustomer", "byMerchant"}
             \/ pc[w] \in Owing \ {"byCustomer", "byMerchant"}
      <4>1. pc[w] \in Owing \ {"byCustomer"} /\ pc[w] \in Owing \ {"byCustomer", "byMerchant"}
        BY <1>2 DEF Owing
      <4> QED
        BY <4>1
    <3>4. /\ g.byCustomer \subseteq h.byCustomer
          /\ h.byCustomer \subseteq g.byCustomer \cup {<<CustomerOf(t), MerchantOf(t)>>}
          /\ g.byMerchant \subseteq h.byMerchant
          /\ h.byMerchant \subseteq g.byMerchant \cup {<<MerchantOf(t), CustomerOf(t)>>}
      BY <3>2
    <3>5. h.txns = g.txns \cup {t}
      BY <3>2
    <3>6. \A u \in Txns : /\ u # t => h.events[u] = g.events[u]
                          /\ g.events[t] > 0 => h.events[t] > 0
      BY <3>2
    <3>7. h.events[t] > 0
      BY <1>7
    <3> QED
      BY <3>1, <3>3, <3>4, <3>5, <3>6, <3>7, Zenon DEF Delivers
  <2>2. Stored /\ Indexed /\ Sourced
    BY DEF Listed
  <2>3. Alone(w) /\ s \in Stores /\ t \in Txns /\ g.txns \subseteq Txns
    BY <1>1, <1>3, <1>4
  <2>4. Stored' /\ Indexed' /\ Sourced'
    BY <2>1, <2>2, <2>3, DeliveryKeeps, Zenon
  <2> QED
    BY <2>4 DEF Listed
<1>10. Counted'
  <2> SUFFICES ASSUME NEW q \in Stores, NEW d \in Customers
               PROVE  /\ stores'[q].flags[d] + Cardinality(Raising(q, d)') <= raised'[q][d]
                      /\ \A v \in Raising(q, d)' :
                            pc'[v] = "flagging" => count'[v] + Cardinality(Raising(q, d)') <= raised'[q][d]
                      /\ raised'[q][d] > 0 => stores'[q].flags[d] > 0 \/ Raising(q, d)' # {}
    BY DEF Counted
  <2>1. /\ stores[q].flags[d] + Cardinality(Raising(q, d)) <= raised[q][d]
        /\ \A v \in Raising(q, d) :
              pc[v] = "flagging" => count[v] + Cardinality(Raising(q, d)) <= raised[q][d]
        /\ raised[q][d] > 0 => stores[q].flags[d] > 0 \/ Raising(q, d) # {}
    BY DEF Counted
  <2>2. /\ stores'[q].flags[d] = stores[q].flags[d] /\ raised[q][d] \in Nat
        /\ Cardinality(Raising(q, d)) \in Nat /\ w \notin Raising(q, d)
        /\ \A v \in Raising(q, d) : pc'[v] = pc[v] /\ count'[v] = count[v] /\ count[v] \in Nat
        /\ stores[q].flags[d] \in Nat
    <3>1. stores'[q].flags = stores[q].flags
      BY <1>0, <1>5, <1>6
    <3>2. w \notin Raising(q, d) /\ Raising(q, d) \subseteq Workers
      BY <1>2 DEF Raising
    <3>3. stores[q] \in Store
      BY DEF TypeOK
    <3>4. stores[q].flags \in [Customers -> Nat]
      BY <3>3 DEF Store
    <3> QED
      BY <1>1, <3>1, <3>2, <3>4, RaisingFinite DEF TypeOK, Alone
  <2> HIDE DEF c
  <2>3. CASE q = s /\ d = c
    <3>1. Raising(q, d)' = Raising(q, d) \cup {w}
      <4>1. w \in Raising(q, d)'
        BY <1>0, <1>1, <1>2, <2>3, RaisingStays DEF c
      <4> QED
        BY <4>1, <1>1, <2>2, RaisingStays
    <3>2. Cardinality(Raising(q, d)') = Cardinality(Raising(q, d)) + 1
      BY <2>2, <3>1, RaisingGrows
    <3>3. raised'[q][d] = raised[q][d] + 1
      BY <1>2, <1>3, <2>3 DEF TypeOK
    <3>4. stores'[q].flags[d] + Cardinality(Raising(q, d)') <= raised'[q][d]
      BY <2>1, <2>2, <3>2, <3>3
    <3>5. ASSUME NEW v \in Raising(q, d)', pc'[v] = "flagging"
          PROVE  count'[v] + Cardinality(Raising(q, d)') <= raised'[q][d]
      <4>1. v \in Raising(q, d) /\ pc[v] = "flagging" /\ count'[v] = count[v] /\ count[v] \in Nat
        BY <1>2, <2>2, <3>1, <3>5
      <4>2. count[v] + Cardinality(Raising(q, d)) <= raised[q][d]
        BY <2>1, <4>1
      <4> QED
        BY <2>2, <3>2, <3>3, <4>1, <4>2
    <3> QED
      BY <3>1, <3>4, <3>5
  <2>4. CASE ~ (q = s /\ d = c)
    <3>1. Raising(q, d)' = Raising(q, d)
      <4>1. w \notin Raising(q, d)'
        <5>1. w \in Raising(q, d)' => held'[w] = q /\ CustomerOf(Observed(w)'.txn) = d
          BY <1>1, RaisingStays
        <5>2. held'[w] = s /\ CustomerOf(Observed(w)'.txn) = c
          BY <1>0, <1>2 DEF c
        <5> QED
          BY <2>4, <5>1, <5>2
      <4>2. Raising(q, d)' \ {w} = Raising(q, d) \ {w}
        BY <1>1, RaisingStays
      <4>3. w \notin Raising(q, d)
        BY <2>2
      <4> QED
        BY <4>1, <4>2, <4>3
    <3>2. raised'[q][d] = raised[q][d]
      BY <1>2, <1>3, <2>4 DEF TypeOK
    <3> QED
      BY <2>1, <2>2, <3>1, <3>2
  <2> QED
    BY <2>3, <2>4
<1> QED
  BY <1>9, <1>10

LEMMA ReadFlagsStep ==
    ASSUME TypeOK, Placed, Listed, Counted, NEW w \in Workers, ReadFlags(w)
    PROVE  Listed' /\ Counted'
<1>0. PICK s, t, g, h : s = held[w] /\ t = Observed(w).txn /\ g = stores[s] /\ h = stores'[s]
  OBVIOUS
<1>1. Alone(w)
  BY OthersStay DEF StepOf, Observe
<1>2. /\ pc[w] = "flag" /\ pc'[w] = "flagging" /\ held' = held /\ Observed(w)' = Observed(w)
      /\ stores' = stores /\ raised' = raised /\ count'[w] = g.flags[CustomerOf(t)]
  BY <1>0 DEF ReadFlags, Goto, Observed, TypeOK, history
<1>3. s \in Stores /\ t \in Txns /\ g \in Store
  BY <1>0, <1>2, ObservedType DEF Observing, Owing
<1>4. g.txns \subseteq Txns
  BY <1>3 DEF Store
<1>5. t \in g.txns
  <2>1. w \in Debtors(s, t, Owing)
    BY <1>0, <1>2 DEF Debtors, Owing
  <2> QED
    BY <2>1, <1>0, <1>3 DEF Listed, Stored
<1>6. Listed'
  <2>1. Delivers(w, s, t, g, h)
    BY <1>0, <1>2, <1>3, <1>5 DEF Delivers, Owing
  <2>2. Stored /\ Indexed /\ Sourced
    BY DEF Listed
  <2>3. Alone(w) /\ s \in Stores /\ t \in Txns /\ g.txns \subseteq Txns
    BY <1>1, <1>3, <1>4
  <2>4. Stored' /\ Indexed' /\ Sourced'
    BY <2>1, <2>2, <2>3, DeliveryKeeps, Zenon
  <2> QED
    BY <2>4 DEF Listed
<1>7. Counted'
  <2>1. \A q, c : Raising(q, c)' = Raising(q, c)
    <3> SUFFICES ASSUME NEW q, NEW c PROVE Raising(q, c)' = Raising(q, c)
      OBVIOUS
    <3>1. Raising(q, c)' \ {w} = Raising(q, c) \ {w}
      BY <1>1, RaisingStays
    <3>2. w \in Raising(q, c)' <=> /\ pc'[w] \in {"flag", "flagging"} /\ held'[w] = q
                                   /\ CustomerOf(Observed(w)'.txn) = c
      BY <1>1, RaisingStays
    <3>3. w \in Raising(q, c) <=> /\ pc[w] \in {"flag", "flagging"} /\ held[w] = q
                                  /\ CustomerOf(Observed(w).txn) = c
      BY <1>1, RaisingStays
    <3>4. w \in Raising(q, c)' <=> w \in Raising(q, c)
      BY <1>2, <3>2, <3>3
    <3> QED
      BY <3>1, <3>4
  <2> SUFFICES ASSUME NEW q \in Stores, NEW c \in Customers, NEW v \in Raising(q, c), pc'[v] = "flagging"
               PROVE  count'[v] + Cardinality(Raising(q, c)) <= raised[q][c]
    BY <1>2, <2>1 DEF Counted
  <2>2. /\ stores[q].flags[c] + Cardinality(Raising(q, c)) <= raised[q][c]
        /\ pc[v] = "flagging" => count[v] + Cardinality(Raising(q, c)) <= raised[q][c]
    BY DEF Counted
  <2>3. CASE v = w
    <3>1. q = s /\ c = CustomerOf(t)
      BY <1>0, <2>3 DEF Raising
    <3> QED
      BY <1>0, <1>2, <2>2, <2>3, <3>1
  <2>4. CASE v # w
    BY <1>1, <2>2, <2>4 DEF Alone, Raising
  <2> QED
    BY <2>3, <2>4
<1> QED
  BY <1>6, <1>7

LEMMA StoreFlagsStep ==
    ASSUME TypeOK, Placed, Listed, Counted, NEW w \in Workers, StoreFlags(w)
    PROVE  Listed' /\ Counted'
<1>0. PICK s, t, g, h, c : /\ s = held[w] /\ t = Observed(w).txn /\ g = stores[s] /\ h = stores'[s]
                           /\ c = CustomerOf(t)
  OBVIOUS
<1>1. Alone(w)
  BY OthersStay DEF StepOf, Observe
<1>2. pc[w] = "flagging" /\ pc'[w] \in {"rows", "get", "idle"} /\ raised' = raised
  <2>1. pc[w] = "flagging" /\ Finish(w) /\ raised' = raised
    BY DEF StoreFlags, Write
  <2> QED
    BY <2>1, FinishAt DEF TypeOK
<1>3. s \in Stores /\ t \in Txns /\ g \in Store /\ c \in Customers
  BY <1>0, <1>2, ObservedType, DetailsTypes DEF Observing, Owing
<1>4. g.txns \subseteq Txns
  BY <1>3 DEF Store
<1>5. count[w] \in Nat /\ count[w] + 1 \in Nat
  BY DEF TypeOK
<1>6. h = SetFlags(g, t, count[w] + 1) /\ \A q \in Stores : q # s => stores'[q] = stores[q]
  BY <1>0, <1>3 DEF StoreFlags, Write, TypeOK
<1>7. /\ h.txns = g.txns /\ h.byMerchant = g.byMerchant
      /\ h.byCustomer = g.byCustomer /\ h.events = g.events
      /\ h.flags = [g.flags EXCEPT ![c] = count[w] + 1]
  BY <1>0, <1>3, <1>5, <1>6, SetFlagsFacts
<1>8. t \in g.txns
  <2>1. w \in Debtors(s, t, Owing)
    BY <1>0, <1>2 DEF Debtors, Owing
  <2> QED
    BY <2>1, <1>0, <1>3 DEF Listed, Stored
<1>9. Listed'
  <2>1. Delivers(w, s, t, g, h)
    BY <1>0, <1>2, <1>3, <1>6, <1>7, <1>8 DEF Delivers, Owing
  <2> QED
    BY <1>1, <1>3, <1>4, <2>1, DeliveryKeeps DEF Listed
<1>10. Counted'
  <2> SUFFICES ASSUME NEW q \in Stores, NEW d \in Customers
               PROVE  /\ stores'[q].flags[d] + Cardinality(Raising(q, d)') <= raised'[q][d]
                      /\ \A v \in Raising(q, d)' :
                            pc'[v] = "flagging" => count'[v] + Cardinality(Raising(q, d)') <= raised'[q][d]
                      /\ raised'[q][d] > 0 => stores'[q].flags[d] > 0 \/ Raising(q, d)' # {}
    BY DEF Counted
  <2>1. /\ stores[q].flags[d] + Cardinality(Raising(q, d)) <= raised[q][d]
        /\ \A v \in Raising(q, d) :
              pc[v] = "flagging" => count[v] + Cardinality(Raising(q, d)) <= raised[q][d]
        /\ raised[q][d] > 0 => stores[q].flags[d] > 0 \/ Raising(q, d) # {}
    BY DEF Counted
  <2>2. /\ raised[q][d] \in Nat /\ Cardinality(Raising(q, d)) \in Nat
        /\ w \notin Raising(q, d)' /\ Raising(q, d)' = Raising(q, d) \ {w}
        /\ \A v \in Raising(q, d)' : pc'[v] = pc[v] /\ count'[v] = count[v] /\ count[v] \in Nat
        /\ stores[q].flags[d] \in Nat
        /\ w \in Raising(q, d) <=> q = s /\ d = c
    <3>1. w \notin Raising(q, d)'
      BY <1>2 DEF Raising
    <3>2. Raising(q, d)' = Raising(q, d) \ {w} /\ (w \in Raising(q, d) <=> q = s /\ d = c)
      BY <1>0, <1>1, <1>2, <3>1, RaisingStays
    <3>3. stores[q] \in Store /\ Raising(q, d) \subseteq Workers
      BY DEF TypeOK, Raising
    <3>4. stores[q].flags \in [Customers -> Nat]
      BY <3>3 DEF Store
    <3> QED
      BY <1>1, <3>1, <3>2, <3>3, <3>4, RaisingFinite DEF TypeOK, Alone
  <2>3. CASE q = s /\ d = c
    <3>1. Cardinality(Raising(q, d)') = Cardinality(Raising(q, d)) - 1
      BY <2>2, <2>3, RaisingShrinks
    <3>2. stores'[q].flags[d] = count[w] + 1
      <4>1. g.flags \in [Customers -> Nat]
        BY <1>3 DEF Store
      <4> QED
        BY <1>0, <1>3, <1>7, <2>3, <4>1
    <3>3. count[w] + Cardinality(Raising(q, d)) <= raised[q][d]
      BY <1>2, <2>1, <2>2, <2>3
    <3>4. stores'[q].flags[d] + Cardinality(Raising(q, d)') <= raised'[q][d] /\ stores'[q].flags[d] > 0
      BY <1>2, <1>5, <2>2, <3>1, <3>2, <3>3
    <3>5. ASSUME NEW v \in Raising(q, d)', pc'[v] = "flagging"
          PROVE  count'[v] + Cardinality(Raising(q, d)') <= raised'[q][d]
      <4>1. v \in Raising(q, d) /\ pc[v] = "flagging" /\ count'[v] = count[v] /\ count[v] \in Nat
        BY <2>2, <3>5
      <4>2. count[v] + Cardinality(Raising(q, d)) <= raised[q][d]
        BY <2>1, <4>1
      <4> QED
        BY <1>2, <2>2, <3>1, <4>1, <4>2
    <3> QED
      BY <3>4, <3>5
  <2>4. CASE ~ (q = s /\ d = c)
    <3>1. Raising(q, d)' = Raising(q, d)
      BY <2>2, <2>4
    <3>2. stores'[q].flags[d] = stores[q].flags[d]
      <4>1. g.flags \in [Customers -> Nat]
        BY <1>3 DEF Store
      <4>2. CASE q # s
        BY <1>6, <4>2
      <4>3. CASE q = s
        BY <1>0, <1>7, <2>4, <4>1, <4>3
      <4> QED
        BY <4>2, <4>3
    <3> QED
      BY <1>2, <2>1, <2>2, <3>1, <3>2
  <2> QED
    BY <2>3, <2>4
<1> QED
  BY <1>9, <1>10

LEMMA ListedStep ==
    ASSUME TypeOK, Placed, Listed, Counted, NEW w \in Workers, StepOf(w)
    PROVE  Listed' /\ Counted'
<1>1. CASE Aside(w)
  BY <1>1, AsideStep
<1>2. CASE Insert(w) \/ IndexCustomer(w) \/ IndexMerchant(w) \/ (AppendEvent(w) /\ ~ Observed(w).flagged)
  BY <1>2, WriteSteps
<1>3. CASE AppendEvent(w) /\ Observed(w).flagged
  BY <1>3, BeginFlag
<1>4. CASE ReadFlags(w)
  BY <1>4, ReadFlagsStep
<1>5. CASE StoreFlags(w)
  BY <1>5, StoreFlagsStep
<1> QED
  BY <1>1, <1>2, <1>3, <1>4, <1>5 DEF StepOf, Observe, Aside

-----------------------------------------------------------------------------
(* The seed, and what is confirmed: stores only grow, and whoever finishes *)
(* an observation leaves its payment in a store that exists.               *)
LEMMA StoresGrow ==
    ASSUME TypeOK, Placed, NEW w \in Workers, StepOf(w), NEW q \in Stores
    PROVE  stores[q].txns \subseteq stores'[q].txns
<1>1. CASE stores' = stores
  BY <1>1
<1>2. CASE Insert(w) \/ IndexCustomer(w) \/ IndexMerchant(w) \/ AppendEvent(w) \/ StoreFlags(w)
  <2>0. PICK s, t, g : s = held[w] /\ t = Observed(w).txn /\ g = stores[s]
    OBVIOUS
  <2>1. pc[w] \in Observing
    BY <1>2 DEF Insert, IndexCustomer, IndexMerchant, AppendEvent, StoreFlags, Write, Observing, Owing
  <2>2. s \in Stores /\ t \in Txns /\ g \in Store /\ count[w] + 1 \in Nat
    BY <2>0, <2>1, ObservedType DEF TypeOK
  <2>3. /\ q # s => stores'[q] = stores[q]
        /\ stores'[s] \in {AddTxn(g, t), AddMerchant(g, t), AddCustomer(g, t), AddEvent(g, t),
                           SetFlags(g, t, count[w] + 1)}
    <3>1. \E contents \in {AddTxn(g, t), AddMerchant(g, t), AddCustomer(g, t), AddEvent(g, t),
                            SetFlags(g, t, count[w] + 1)} : stores' = [stores EXCEPT ![s] = contents]
      BY <1>2, <2>0 DEF Insert, IndexCustomer, IndexMerchant, AppendEvent, StoreFlags, Write
    <3> QED
      BY <2>2, <3>1 DEF TypeOK
  <2>4. g.txns \subseteq stores'[s].txns
    <3>1. g.txns \subseteq AddTxn(g, t).txns
      BY <2>2, AddTxnFacts
    <3>2. AddMerchant(g, t).txns = g.txns /\ AddCustomer(g, t).txns = g.txns
      BY <2>2, AddMerchantFacts, AddCustomerFacts
    <3>3. AddEvent(g, t).txns = g.txns /\ SetFlags(g, t, count[w] + 1).txns = g.txns
      BY <2>2, AddEventFacts, SetFlagsFacts
    <3> QED
      BY <2>3, <3>1, <3>2, <3>3
  <2> QED
    BY <2>0, <2>3, <2>4
<1>3. CASE ~ (Insert(w) \/ IndexCustomer(w) \/ IndexMerchant(w) \/ AppendEvent(w) \/ StoreFlags(w))
  <2>1. stores' = stores
    BY <1>3 DEF StepOf, Receive, GetStore, Get, GetNone, Publish, Seed, NextRow, SeedDone, Return,
                Observe, SkipDuplicate, TestNew, ReadFlags, Answer, ReadScore, ReadFindings,
                ReadFeatures, ReadCommunity, Raise, Read, history
  <2> QED
    BY <2>1
<1> QED
  BY <1>2, <1>3

Ends(w) ==
    /\ pc[w] \in Observing /\ Finish(w)
    /\ Observed(w).txn \in stores[held[w]].txns
    /\ UNCHANGED <<current, created>>

LEMMA EndsStored ==
    ASSUME TypeOK, Placed, Stored, NEW w \in Workers,
           SkipDuplicate(w) \/ (AppendEvent(w) /\ ~ Observed(w).flagged) \/ StoreFlags(w)
    PROVE  Ends(w)
<1>1. CASE SkipDuplicate(w)
  BY <1>1 DEF SkipDuplicate, Ends, Observing
<1>2. CASE (AppendEvent(w) /\ ~ Observed(w).flagged) \/ StoreFlags(w)
  <2>0. PICK s, t : s = held[w] /\ t = Observed(w).txn
    OBVIOUS
  <2>1. pc[w] \in Owing /\ Finish(w) /\ UNCHANGED <<current, created>>
    BY <1>2 DEF AppendEvent, StoreFlags, Write, Owing
  <2>2. s \in Stores /\ t \in Txns
    BY <2>0, <2>1, ObservedType DEF Observing
  <2>3. w \in Debtors(s, t, Owing)
    BY <2>0, <2>1 DEF Debtors
  <2>4. t \in stores[s].txns
    BY <2>2, <2>3 DEF Stored
  <2> QED
    BY <2>0, <2>1, <2>4 DEF Ends, Observing
<1> QED
  BY <1>1, <1>2

\* The steps through observe that do not end it.
Within(w) ==
    /\ pc[w] \in Observing /\ pc'[w] \in Observing
    /\ UNCHANGED <<job, held, row, answer, current, created, kept>>

LEMMA ObserveCases ==
    ASSUME TypeOK, Placed, Stored, NEW w \in Workers, Observe(w)
    PROVE  Ends(w) \/ Within(w)
<1>1. CASE TestNew(w) \/ Insert(w) \/ IndexCustomer(w) \/ IndexMerchant(w) \/ ReadFlags(w)
           \/ (AppendEvent(w) /\ Observed(w).flagged)
  BY <1>1 DEF TestNew, Insert, IndexCustomer, IndexMerchant, ReadFlags, AppendEvent, Write, Goto,
              history, TypeOK, Within, Observing, Owing
<1> QED
  BY <1>1, EndsStored DEF Observe

LEMMA SeedStart ==
    ASSUME NEW s PROVE SeededTo(s, 1)
<1>1. \A i \in DOMAIN Rows : ~ (i < 1)
  BY RowsAssumption
<1> QED
  BY <1>1 DEF SeededTo

LEMMA SeedNext ==
    ASSUME NEW s, NEW n \in DOMAIN Rows, SeededTo(s, n)
    PROVE  /\ SeededTo(s, NextRowOf(n))
           /\ Rows[n].txn \in stores[s].txns => SeededTo(s, n + 1)
<1>1. DOMAIN Rows = 1..Len(Rows) /\ Len(Rows) \in Nat /\ n \in Nat
  BY RowsAssumption
<1>2. \A i \in DOMAIN Rows : i < n + 1 => i < n \/ i = n
  BY <1>1
<1>3. Rows[n].txn \in stores[s].txns \/ Rows[n].kind # "good" => SeededTo(s, n + 1)
  BY <1>2 DEF SeededTo
<1>4. CASE Rows[n].kind = "good"
  BY <1>3, <1>4 DEF NextRowOf
<1>5. CASE Rows[n].kind = "badTime"
  BY <1>3, <1>5 DEF NextRowOf
<1>6. CASE Rows[n].kind = "badAccount"
  <2>1. \A i \in DOMAIN Rows : i < n \/ n \in 1..i
    BY <1>1
  <2>2. SeededTo(s, Len(Rows) + 1)
    BY <2>1, <1>6 DEF SeededTo
  <2> QED
    BY <1>3, <1>6, <2>2 DEF NextRowOf
<1> QED
  BY <1>4, <1>5, <1>6, <1>3, RowsTyped

LEMMA SeedOwedStep ==
    ASSUME TypeOK, Placed, Stored, SeedOwed, NEW w \in Workers, StepOf(w)
    PROVE  SeedOwed'
<1>1. Alone(w)
  BY OthersStay
<1>2. /\ row[w] \in 0..Len(Rows) + 1 /\ row[w] \in Nat /\ Len(Rows) \in Nat
      /\ DOMAIN Rows = 1..Len(Rows)
  BY RowsAssumption DEF TypeOK
<1>3. \A q \in Stores : stores[q].txns \subseteq stores'[q].txns
  BY StoresGrow
<1>4. \A q \in Stores : \A n : SeededTo(q, n) => SeededTo(q, n)'
  BY <1>3 DEF SeededTo
<1>5. ASSUME NEW s \in Stores, Publish(w, s) PROVE SeedOwed'
  <2>1. pc'[w] = "seed"
    BY <1>5 DEF Publish, Goto, TypeOK
  <2> QED
    BY <2>1 DEF SeedOwed
<1>6. ASSUME \A s \in Stores : ~ Publish(w, s) PROVE current' = current
  BY <1>6, ObserveCases DEF StepOf, Receive, GetStore, Get, GetNone, Seed, NextRow, SeedDone, Return,
       Ends, Within, Answer, ReadScore, ReadFindings, ReadFeatures, ReadCommunity, Raise, Read
<1>7. ASSUME current' = current, current # Nothing PROVE SeedOwed'
  <2>0. PICK s : s = current
    OBVIOUS
  <2>1. s \in Stores
    BY <1>7, <2>0 DEF TypeOK
  <2>2. CASE SeededTo(s, Len(Rows) + 1)
    BY <1>4, <1>7, <2>0, <2>1, <2>2 DEF SeedOwed
  <2>3. ASSUME NEW v \in Workers, pc[v] = "seed" PROVE SeedOwed'
    <3>1. CASE v # w
      BY <1>1, <2>3, <3>1 DEF Alone, SeedOwed
    <3>2. CASE v = w
      <4>1. Seed(w)
        BY <2>3, <3>2 DEF StepOf, Receive, GetStore, Get, GetNone, Publish, NextRow, SeedDone,
             Observe, SkipDuplicate, TestNew, Insert, IndexCustomer, IndexMerchant, AppendEvent,
             ReadFlags, StoreFlags, Write, Answer, ReadScore, ReadFindings, ReadFeatures,
             ReadCommunity, Raise, Read, Reading
      <4>2. row'[w] = 1 /\ held'[w] = s
        BY <2>0, <4>1 DEF Seed, TypeOK
      <4>3. SeededTo(s, 1)'
        BY <1>4, <2>1, SeedStart
      <4>4. row'[w] > 0 /\ held'[w] = current' /\ SeededTo(current, row[w])'
        BY <1>7, <2>0, <4>2, <4>3
      <4> QED
        BY <4>4 DEF SeedOwed
    <3> QED
      BY <3>1, <3>2
  <2>4. ASSUME NEW v \in Workers, row[v] > 0, held[v] = current, SeededTo(current, row[v])
        PROVE  SeedOwed'
    <3>0. PICK n : n = row[v]
      OBVIOUS
    <3>1. SeededTo(s, n) /\ SeededTo(s, n)'
      BY <1>4, <2>0, <2>1, <2>4, <3>0
    <3>2. CASE v # w
      <4>1. row'[v] = n /\ held'[v] = current'
        BY <1>1, <1>7, <2>4, <3>0, <3>2 DEF Alone
      <4>2. row'[v] > 0 /\ SeededTo(current, row[v])'
        BY <1>7, <2>0, <2>4, <3>0, <3>1, <4>1
      <4> QED
        BY <4>1, <4>2 DEF SeedOwed
    <3>3. CASE v = w
      <4>1. ASSUME NEW m, row'[w] = m, m > 0, held'[w] = s, SeededTo(s, m)' PROVE SeedOwed'
        <5>1. row'[w] > 0 /\ held'[w] = current' /\ SeededTo(current, row[w])'
          BY <1>7, <2>0, <4>1
        <5> QED
          BY <5>1 DEF SeedOwed
      <4>2. pc[w] \in {"rows"} \cup Observing /\ n > 0 /\ held[w] = s /\ n = row[w]
        BY <2>0, <2>4, <3>0, <3>3 DEF Placed, PlacedAt
      <4>3. CASE NextRow(w)
        <5>1. n \in DOMAIN Rows /\ row'[w] = NextRowOf(n) /\ held'[w] = s
          BY <1>2, <4>2, <4>3 DEF NextRow, TypeOK
        <5>2. SeededTo(s, NextRowOf(n))'
          BY <1>4, <2>1, <3>1, <5>1, SeedNext
        <5>3. NextRowOf(n) > 0
          BY <1>2, <5>1, RowsTyped DEF NextRowOf
        <5> QED
          BY <4>1, <5>1, <5>2, <5>3
      <4>4. CASE SeedDone(w)
        <5>1. n = Len(Rows) + 1
          BY <1>2, <4>2, <4>4 DEF SeedDone
        <5> QED
          BY <1>7, <2>0, <3>1, <5>1 DEF SeedOwed
      <4>5. CASE Observe(w)
        <5>1. CASE Within(w)
          BY <3>1, <4>1, <4>2, <5>1 DEF Within
        <5>2. CASE Ends(w)
          <6>1. row'[w] = n + 1 /\ held'[w] = s
            BY <4>2, <5>2, FinishAt DEF Ends
          <6>2. n \in DOMAIN Rows /\ Rows[n].txn \in stores[s].txns
            BY <1>2, <4>2, <5>2, ObservedType DEF Ends
          <6>3. SeededTo(s, n + 1)'
            BY <1>4, <2>1, <3>1, <6>2, SeedNext
          <6>4. n + 1 > 0
            BY <1>2, <4>2
          <6> QED
            BY <4>1, <6>1, <6>3, <6>4
        <5> QED
          BY <4>5, <5>1, <5>2, ObserveCases
      <4> QED
        BY <4>2, <4>3, <4>4, <4>5 DEF StepOf, Receive, GetStore, Get, GetNone, Publish, Seed, Answer,
             ReadScore, ReadFindings, ReadFeatures, ReadCommunity, Raise, Read, Reading, Observing, Owing
    <3> QED
      BY <3>2, <3>3
  <2> QED
    BY <1>7, <2>0, <2>2, <2>3, <2>4 DEF SeedOwed
<1> QED
  <2>1. CASE \E s \in Stores : Publish(w, s)
    BY <1>5, <2>1
  <2>2. CASE current' = current /\ current = Nothing
    BY <2>2 DEF SeedOwed
  <2> QED
    BY <1>6, <1>7, <2>1, <2>2

LEMMA KeptStep ==
    ASSUME TypeOK, Placed, Stored, Kept, NEW w \in Workers, StepOf(w)
    PROVE  Kept'
<1>1. \A q \in Stores : stores[q].txns \subseteq stores'[q].txns
  BY StoresGrow
<1>2. created \subseteq Stores
  BY DEF TypeOK
<1>3. CASE \E s \in Stores : Publish(w, s)
  <2>1. PICK s \in Stores : Publish(w, s)
    BY <1>3
  <2>2. created' = created \cup {s} /\ current' = s /\ s # Nothing /\ kept' = kept /\ stores' = stores
    BY <2>1, WorkersAssumption DEF Publish, history
  <2>3. IsFiniteSet(created')
    BY <2>2, FS_AddElement DEF Kept
  <2>4. current' # Nothing
    BY <2>2
  <2>5. \A t \in kept' : \E q \in created' : t \in stores'[q].txns
    BY <2>2 DEF Kept
  <2> QED
    BY <2>3, <2>4, <2>5 DEF Kept
<1>4. ASSUME created' = created, current' = current,
             \A t \in kept' \ kept : \E q \in created : t \in stores[q].txns
      PROVE  Kept'
  <2>1. \A t \in kept' : \E q \in created : t \in stores[q].txns
    BY <1>4 DEF Kept
  <2> QED
    BY <1>1, <1>2, <1>4, <2>1 DEF Kept
<1>5. CASE Ends(w)
  <2>1. created' = created /\ current' = current
    BY <1>5 DEF Ends
  <2>2. \A t \in kept' \ kept : t = Observed(w).txn
    <3>0. Finish(w) /\ row[w] \in Nat
      BY <1>5, ObservedType DEF Ends
    <3>1. CASE row[w] > 0
      BY <3>0, <3>1 DEF Finish
    <3>2. CASE row[w] = 0
      <4>1. Observed(w).txn = job[w].txn
        BY <3>2 DEF Observed
      <4>2. kept' = kept \cup {job[w].txn}
        BY <3>0, <3>2 DEF Finish
      <4> QED
        BY <4>1, <4>2
    <3> QED
      BY <3>0, <3>1, <3>2
  <2>3. held[w] \in created /\ Observed(w).txn \in stores[held[w]].txns
    BY <1>5, ObservedType DEF Ends
  <2> QED
    BY <1>4, <2>1, <2>2, <2>3
<1>6. CASE Within(w)
  BY <1>4, <1>6 DEF Within
<1>7. CASE (\E j \in Jobs : Receive(w, j)) \/ Answer(w)
           \/ (GetStore(w) /\ \A s \in Stores : ~ Publish(w, s))
  <2>1. created' = created /\ current' = current /\ kept' = kept
    BY <1>7 DEF Receive, GetStore, Get, GetNone, Seed, NextRow, SeedDone, Return, Answer,
         ReadScore, ReadFindings, ReadFeatures, ReadCommunity, Raise, Read, history
  <2> QED
    BY <1>4, <2>1
<1> QED
  BY <1>3, <1>5, <1>6, <1>7, ObserveCases DEF StepOf

-----------------------------------------------------------------------------
(* The replies.                                                            *)
LEMMA FreshStep ==
    ASSUME TypeOK, Placed, Stored, Fresh, NEW w \in Workers, StepOf(w)
    PROVE  Fresh'
<1>1. Alone(w)
  BY OthersStay
<1>2. pc'[w] \in Observing /\ row'[w] = 0 => answer'[w] = Nothing
  <2> USE DEF Observing, Owing
  <2>1. CASE Observe(w)
    <3>1. CASE Within(w)
      BY <3>1 DEF Within, Fresh
    <3>2. CASE Ends(w)
      <4>1. pc'[w] \in {"rows", "get", "idle"}
        BY <3>2, FinishAt DEF Ends, TypeOK
      <4> QED
        BY <4>1
    <3> QED
      BY <2>1, <3>1, <3>2, ObserveCases
  <2>2. CASE Get(w) \/ SeedDone(w)
    <3>1. pc'[w] = Stage(w) /\ answer'[w] = answer[w]
      BY <2>2 DEF Get, SeedDone, Return, Goto, TypeOK
    <3> QED
      BY <3>1 DEF Stage
  <2>3. CASE NextRow(w)
    <3>1. PlacedAt(w) /\ row[w] \in 0..Len(Rows) + 1 /\ Len(Rows) \in Nat /\ DOMAIN Rows = 1..Len(Rows)
      BY RowsAssumption DEF Placed, TypeOK
    <3>2. row[w] > 0 /\ row[w] \in DOMAIN Rows
      BY <2>3, <3>1 DEF NextRow, PlacedAt
    <3>3. row'[w] = NextRowOf(row[w])
      BY <2>3 DEF NextRow, TypeOK
    <3>4. row'[w] # 0
      BY <3>1, <3>2, <3>3, RowsTyped DEF NextRowOf
    <3> QED
      BY <3>4
  <2>4. CASE (\E j \in Jobs : Receive(w, j)) \/ GetNone(w) \/ Seed(w)
             \/ (\E s \in Stores : Publish(w, s)) \/ Answer(w)
    <3>1. pc'[w] \in {"get", "publish", "seed", "rows", "findings", "features", "idle"}
      BY <2>4 DEF Receive, GetNone, Publish, Seed, Answer, ReadScore, ReadFindings, ReadFeatures,
           ReadCommunity, Raise, Read, Continue, Done, Goto, TypeOK
    <3> QED
      BY <3>1
  <2> QED
    BY <2>1, <2>2, <2>3, <2>4 DEF StepOf, GetStore
<1>3. ASSUME NEW v \in Workers, v # w, pc'[v] \in Observing /\ row'[v] = 0 PROVE answer'[v] = Nothing
  BY <1>1, <1>3 DEF Alone, Fresh
<1> QED
  BY <1>2, <1>3 DEF Fresh

\* With a window, who shares a merchant with whom depends on the payments alone.
LEMMA PeersByPayments ==
    ASSUME NEW g, NEW h, g.txns = h.txns, NEW c
    PROVE  Peers(g, c, Window) = Peers(h, c, Window)
<1>1. Window # Unset
  BY DetailsAssumption, JobsAssumption
<1>2. Recent(g, Window) = Recent(h, Window)
  BY DEF Recent, Cutoff
<1> QED
  BY <1>1, <1>2 DEF Peers, Crowd, ScopedMerchants, ScopedCustomers

\* A store whose payments change disturbs whoever reads it.
LEMMA OthersUndisturbed ==
    ASSUME TypeOK, Placed, NEW w \in Workers, StepOf(w), NEW v \in Workers, v # w, quiet'[v]
    PROVE  /\ quiet[v]
           /\ pc[v] \in Reading => stores'[held[v]].txns = stores[held[v]].txns
<1>1. CASE Insert(w)
  <2>1. /\ quiet'[v] = (quiet[v] /\ ~ (pc[v] \in Reading /\ held[v] = held[w]))
        /\ stores' = [stores EXCEPT ![held[w]] = AddTxn(stores[held[w]], Observed(w).txn)]
    BY <1>1 DEF Insert, Write
  <2>2. pc[v] \in Reading => stores'[held[v]] = stores[held[v]]
    BY <2>1, ReadableHeld DEF TypeOK, ReadingStep
  <2> QED
    BY <2>1, <2>2
<1>2. CASE ~ Insert(w)
  <2>1. quiet'[v] = quiet[v]
    <3>1. ASSUME NEW j \in Jobs, Receive(w, j) PROVE quiet'[v] = quiet[v]
      BY <3>1 DEF Receive, TypeOK
    <3>2. CASE GetStore(w)
      BY <3>2 DEF GetStore, Get, GetNone, Publish, Seed, NextRow, SeedDone, Return, history
    <3>3. CASE Observe(w)
      BY <1>2, <3>3 DEF Observe, SkipDuplicate, TestNew, IndexCustomer, IndexMerchant, AppendEvent,
                        ReadFlags, StoreFlags, history
    <3>4. CASE Answer(w)
      BY <3>4 DEF Answer, ReadScore, ReadFindings, ReadFeatures, ReadCommunity, Raise, Read, history
    <3> QED
      BY <3>1, <3>2, <3>3, <3>4 DEF StepOf
  <2>2. pc[v] \in Reading => stores'[held[v]].txns = stores[held[v]].txns
    <3>1. CASE stores' = stores
      BY <3>1
    <3>2. CASE IndexCustomer(w) \/ IndexMerchant(w) \/ AppendEvent(w) \/ StoreFlags(w)
      <4>0. PICK s, t, g : s = held[w] /\ t = Observed(w).txn /\ g = stores[s]
        OBVIOUS
      <4>1. pc[w] \in Observing
        BY <3>2 DEF IndexCustomer, IndexMerchant, AppendEvent, StoreFlags, Write, Observing, Owing
      <4>2. s \in Stores /\ t \in Txns /\ g \in Store /\ count[w] + 1 \in Nat
        BY <4>0, <4>1, ObservedType DEF TypeOK
      <4>3. \E contents \in {AddMerchant(g, t), AddCustomer(g, t), AddEvent(g, t),
                             SetFlags(g, t, count[w] + 1)} : stores' = [stores EXCEPT ![s] = contents]
        BY <3>2, <4>0 DEF IndexCustomer, IndexMerchant, AppendEvent, StoreFlags, Write
      <4>4. \A contents \in {AddMerchant(g, t), AddCustomer(g, t), AddEvent(g, t),
                             SetFlags(g, t, count[w] + 1)} : contents.txns = g.txns
        <5>1. AddMerchant(g, t).txns = g.txns /\ AddCustomer(g, t).txns = g.txns
          BY <4>2, AddMerchantFacts, AddCustomerFacts
        <5>2. AddEvent(g, t).txns = g.txns
          BY <4>2, AddEventFacts
        <5>3. SetFlags(g, t, count[w] + 1).txns = g.txns
          BY <4>2, SetFlagsFacts
        <5> QED
          BY <5>1, <5>2, <5>3
      <4>5. \A q \in Stores : stores'[q].txns = stores[q].txns
        <5>1. PICK contents : contents.txns = g.txns /\ stores' = [stores EXCEPT ![s] = contents]
          BY <4>3, <4>4
        <5>2. \A q \in Stores : stores'[q] = IF q = s THEN contents ELSE stores[q]
          BY <5>1, <4>2 DEF TypeOK
        <5> QED
          BY <4>0, <5>1, <5>2
      <4> QED
        BY <4>5, ReadableHeld DEF ReadingStep
    <3>3. ~ (IndexCustomer(w) \/ IndexMerchant(w) \/ AppendEvent(w) \/ StoreFlags(w)) => stores' = stores
      BY <1>2 DEF StepOf, Receive, GetStore, Get, GetNone, Publish, Seed, NextRow, SeedDone, Return,
                  Observe, SkipDuplicate, TestNew, ReadFlags, Answer, ReadScore, ReadFindings,
                  ReadFeatures, ReadCommunity, Raise, Read, history
    <3> QED
      BY <3>1, <3>2, <3>3
  <2> QED
    BY <2>1, <2>2
<1> QED
  BY <1>1, <1>2

LEMMA UndisturbedStep ==
    ASSUME TypeOK, Placed, Stored, Fresh, Undisturbed, NEW w \in Workers, StepOf(w)
    PROVE  Undisturbed'
<1>1. Alone(w)
  BY OthersStay
<1>2. ASSUME NEW v \in Workers, v # w, quiet'[v] PROVE AgreesAt(v)'
  <2>1. /\ quiet[v] /\ AgreesAt(v)
        /\ pc[v] \in Reading => stores'[held[v]].txns = stores[held[v]].txns
    BY <1>2, OthersUndisturbed DEF Undisturbed
  <2>2. pc'[v] = pc[v] /\ job'[v] = job[v] /\ held'[v] = held[v] /\ answer'[v] = answer[v]
    BY <1>1, <1>2 DEF Alone
  <2>3. pc[v] \in Reading => (Sharing(v)' <=> Sharing(v))
    <3> SUFFICES ASSUME pc[v] \in Reading PROVE Sharing(v)' <=> Sharing(v)
      OBVIOUS
    <3>0. PICK s, c, g, h : /\ s = held[v] /\ c = Customer(v) /\ g = stores[s] /\ h = stores'[s]
      OBVIOUS
    <3>1. g.txns = h.txns
      BY <2>1, <3>0
    <3>2. Peers(g, c, Window) = Peers(h, c, Window)
      BY <3>1, PeersByPayments
    <3>3. Sharing(v) <=> Peers(g, c, Window) # {}
      BY <3>0 DEF Sharing
    <3>4. Sharing(v)' <=> Peers(h, c, Window) # {}
      BY <2>2, <3>0 DEF Sharing, Customer
    <3> QED
      BY <3>2, <3>3, <3>4
  <2> QED
    BY <2>1, <2>2, <2>3 DEF AgreesAt, Reading
<1>3. ASSUME quiet'[w] PROVE AgreesAt(w)'
  <2>1. CASE pc'[w] \notin {"findings", "features", "idle"}
    BY <2>1 DEF AgreesAt
  <2>2. CASE Observe(w)
    <3>1. CASE Within(w)
      BY <2>1, <3>1 DEF Within, Observing, Owing
    <3>2. CASE Ends(w)
      <4>1. pc'[w] \in {"rows", "get"} \/ (pc'[w] = "idle" /\ row[w] = 0 /\ answer'[w] = answer[w])
        BY <3>2, FinishAt, ObservedType DEF Ends
      <4>2. row[w] = 0 => answer[w] = Nothing
        BY <3>2 DEF Ends, Fresh
      <4> QED
        BY <4>1, <4>2 DEF AgreesAt
    <3> QED
      BY <2>2, <3>1, <3>2, ObserveCases
  <2>3. CASE (\E j \in Jobs : Receive(w, j)) \/ GetStore(w)
    <3>1. pc'[w] \in {"get", "publish", "seed", "rows", "test", "community", "score"}
      BY <2>3 DEF Receive, GetStore, Get, GetNone, Publish, Seed, NextRow, SeedDone, Return, Stage,
           Goto, TypeOK
    <3> QED
      BY <2>1, <3>1
  <2>4. CASE Raise(w) \/ ReadCommunity(w)
    <3>1. pc'[w] = "idle" /\ answer'[w] = Nothing
      BY <2>4 DEF Raise, ReadCommunity, Read, Done, Goto, TypeOK
    <3> QED
      BY <3>1 DEF AgreesAt
  <2>5. CASE ReadScore(w) \/ ReadFindings(w) \/ ReadFeatures(w)
    <3>1. pc[w] \in ReadingStep /\ quiet'[w] = quiet[w] /\ stores' = stores
      BY <2>5 DEF ReadScore, ReadFindings, ReadFeatures, Read, history, ReadingStep, Reading
    <3>2. AgreesAt(w)
      BY <1>3, <3>1 DEF Undisturbed
    <3>3. ReadScore(w) \/ ReadFindings(w) => (Sharing(w)' <=> Sharing(w))
      BY <3>1 DEF ReadScore, ReadFindings, Continue, Sharing, Customer
    <3>4. CASE ReadScore(w)
      <4>1. pc'[w] = "findings"
        BY <3>4 DEF ReadScore, Continue, Goto, TypeOK
      <4> QED
        BY <3>1, <3>3, <3>4, <4>1, RepliesFilled, ReadingFacts DEF AgreesAt
    <3>5. CASE ReadFindings(w)
      <4>1. pc[w] = "findings" /\ pc'[w] = "features"
        BY <3>5 DEF ReadFindings, Read, Continue, Goto, TypeOK
      <4> QED
        BY <3>1, <3>2, <3>3, <3>5, <4>1, RepliesFilled, ReadingFacts DEF AgreesAt
    <3>6. CASE ReadFeatures(w)
      <4>1. pc[w] = "features" /\ pc'[w] = "idle"
        BY <3>6 DEF ReadFeatures, Read, Done, Goto, TypeOK
      <4> QED
        BY <3>1, <3>2, <3>6, <4>1, RepliesFilled, ReadingFacts DEF AgreesAt
    <3> QED
      BY <2>5, <3>4, <3>5, <3>6
  <2> QED
    BY <2>2, <2>3, <2>4, <2>5 DEF StepOf, Answer
<1> QED
  BY <1>2, <1>3 DEF Undisturbed

-----------------------------------------------------------------------------
LEMMA InitIInv == Init => IInv
<1> SUFFICES ASSUME Init PROVE IInv
  OBVIOUS
<1>1. EmptyStore \in Store /\ \A t \in Txns : EmptyStore.events[t] = 0
  BY DEF EmptyStore, Store
<1>2. \A c \in Customers : EmptyStore.flags[c] = 0
  BY DEF EmptyStore
<1>3. EmptyStore.txns = {} /\ EmptyStore.byCustomer = {} /\ EmptyStore.byMerchant = {}
  BY DEF EmptyStore
<1>4. \A s \in Stores : stores[s] = EmptyStore
  BY DEF Init
<1>5. \A w \in Workers : pc[w] = "idle" /\ row[w] = 0 /\ answer[w] = Nothing
  BY DEF Init
<1>6. TypeOK
  <2>1. 0 \in 0..Len(Rows) + 1
    BY RowsAssumption
  <2>2. stores \in [Stores -> Store]
    BY <1>1 DEF Init
  <2> QED
    BY <2>1, <2>2 DEF Init, TypeOK
<1>7. Placed
  BY <1>5 DEF Init, Placed, PlacedAt, Observing, Owing, Seeding, ReadingStep, Reading
<1>8. \A s, t, steps : steps \subseteq Owing => Debtors(s, t, steps) = {}
  BY <1>5 DEF Debtors, Owing
<1>9. \A s, c : Raising(s, c) = {}
  BY <1>5 DEF Raising
<1>10. Stored
  BY <1>8 DEF Stored
<1>11. Indexed
  BY <1>3, <1>4 DEF Indexed
<1>12. Sourced
  BY <1>1, <1>3, <1>4 DEF Sourced
<1>13. Counted
  <2>1. Cardinality({}) = 0
    BY FS_EmptySet
  <2>2. \A s \in Stores, c \in Customers : raised[s][c] = 0 /\ stores[s].flags[c] = 0
    BY <1>2, <1>4 DEF Init
  <2> QED
    BY <1>9, <2>1, <2>2 DEF Counted
<1>14. SeedOwed /\ Fresh
  BY <1>5 DEF Init, SeedOwed, Fresh
<1>15. Kept
  BY FS_EmptySet DEF Init, Kept
<1>16. Undisturbed
  BY <1>5 DEF Undisturbed, AgreesAt
<1> QED
  BY <1>6, <1>7, <1>10, <1>11, <1>12, <1>13, <1>14, <1>15, <1>16 DEF IInv

LEMMA StutterIInv == IInv /\ UNCHANGED vars => IInv'
<1> SUFFICES ASSUME IInv, UNCHANGED vars PROVE IInv'
  OBVIOUS
<1>1. /\ current' = current /\ created' = created /\ stores' = stores /\ pc' = pc /\ job' = job
      /\ held' = held /\ row' = row /\ count' = count /\ answer' = answer /\ kept' = kept
      /\ raised' = raised /\ quiet' = quiet
  BY DEF vars, work, history
<1>2. \A w \in Workers : Observed(w)' = Observed(w) /\ (AgreesAt(w)' <=> AgreesAt(w))
  BY <1>1 DEF Observed, AgreesAt, Sharing, Customer
<1>3. /\ \A s, t, steps : Debtors(s, t, steps)' = Debtors(s, t, steps)
      /\ \A s, c : Raising(s, c)' = Raising(s, c)
  BY <1>1, <1>2 DEF Debtors, Raising
<1>4. \A s, n : SeededTo(s, n)' <=> SeededTo(s, n)
  BY <1>1 DEF SeededTo
<1>5. TypeOK'
  BY <1>1 DEF IInv, TypeOK
<1>6. Placed'
  BY <1>1 DEF IInv, Placed, PlacedAt
<1>7. Stored' /\ Indexed' /\ Sourced'
  BY <1>1, <1>3 DEF IInv, Stored, Indexed, Sourced
<1>8. Counted'
  BY <1>1, <1>3 DEF IInv, Counted
<1>9. SeedOwed'
  BY <1>1 DEF IInv, SeedOwed, SeededTo
<1>10. Kept' /\ Fresh'
  BY <1>1 DEF IInv, Kept, Fresh
<1>11. Undisturbed'
  BY <1>1, <1>2 DEF IInv, Undisturbed
<1> QED
  BY <1>5, <1>6, <1>7, <1>8, <1>9, <1>10, <1>11 DEF IInv

LEMMA Invariance == Spec => []IInv
<1>1. Init => IInv
  BY InitIInv
<1>2. IInv /\ [Next]_vars => IInv'
  <2> SUFFICES ASSUME IInv, [Next]_vars PROVE IInv'
    OBVIOUS
  <2>1. CASE UNCHANGED vars
    BY <2>1, StutterIInv
  <2>2. CASE Next
    <3>1. PICK w \in Workers : StepOf(w)
      BY <2>2 DEF Next, StepOf
    <3>2. /\ TypeOK /\ Placed /\ Stored /\ Listed /\ Counted /\ SeedOwed /\ Kept
          /\ Undisturbed /\ Fresh
      BY DEF IInv, Listed
    <3>3. TypeOK' /\ Placed'
      BY <3>1, <3>2, StepKeepsType, PlacedStep
    <3>4. Listed' /\ Counted'
      BY <3>1, <3>2, ListedStep
    <3>5. SeedOwed' /\ Kept'
      BY <3>1, <3>2, SeedOwedStep, KeptStep
    <3>6. Undisturbed' /\ Fresh'
      BY <3>1, <3>2, UndisturbedStep, FreshStep
    <3> QED
      BY <3>3, <3>4, <3>5, <3>6 DEF IInv, Listed
  <2> QED
    BY <2>1, <2>2
<1> QED
  BY <1>1, <1>2, PTL DEF Spec

\* Where nobody writes, every index lists every stored payment.
LEMMA IdleIndexed ==
    ASSUME IInv, NEW s \in Stores, Idle(s), NEW t \in stores[s].txns
    PROVE  /\ <<CustomerOf(t), MerchantOf(t)>> \in stores[s].byCustomer
           /\ <<MerchantOf(t), CustomerOf(t)>> \in stores[s].byMerchant
           /\ stores[s].events[t] > 0
<1>1. /\ Debtors(s, t, {"byCustomer"}) = {} /\ Debtors(s, t, {"byCustomer", "byMerchant"}) = {}
      /\ Debtors(s, t, {"byCustomer", "byMerchant", "event"}) = {}
  BY DEF Idle, Debtors, Writing
<1> QED
  BY <1>1 DEF IInv, Indexed

\* The indexes of every store agree, the store in use has the whole readable
\* seed, and what was confirmed is lost only with a store that was replaced.
THEOREM StoreCorrect == Spec => []StoreWhole
<1>1. IInv => StoreWhole
  <2> SUFFICES ASSUME IInv PROVE StoreWhole
    OBVIOUS
  <2>1. IndexesAgree
    <3> SUFFICES ASSUME NEW s \in Stores
                 PROVE  LET g == stores[s]
                            edges == {<<CustomerOf(t), MerchantOf(t)>> : t \in g.txns}
                            turned == {<<p[2], p[1]>> : p \in g.byMerchant}
                        IN  /\ g.byCustomer \cup turned \subseteq edges
                            /\ {t \in Txns : g.events[t] > 0} \subseteq g.txns
                            /\ Idle(s) => /\ g.byCustomer = edges /\ turned = edges
                                          /\ \A t \in g.txns : g.events[t] > 0
      BY DEF IndexesAgree
    <3> DEFINE g == stores[s]
               edges == {<<CustomerOf(t), MerchantOf(t)>> : t \in g.txns}
               turned == {<<p[2], p[1]>> : p \in g.byMerchant}
    <3>1. g.byCustomer \subseteq edges /\ turned \subseteq edges
          /\ {t \in Txns : g.events[t] > 0} \subseteq g.txns
      <4>1. /\ \A p \in g.byCustomer : \E t \in g.txns : p = <<CustomerOf(t), MerchantOf(t)>>
            /\ \A p \in g.byMerchant : \E t \in g.txns : p = <<MerchantOf(t), CustomerOf(t)>>
            /\ \A t \in Txns : g.events[t] > 0 => t \in g.txns
        BY DEF IInv, Sourced
      <4>2. \A p \in g.byMerchant : <<p[2], p[1]>> \in edges
        BY <4>1
      <4> QED
        BY <4>1, <4>2
    <3>2. Idle(s) => edges \subseteq g.byCustomer /\ edges \subseteq turned
                     /\ \A t \in g.txns : g.events[t] > 0
      <4> SUFFICES ASSUME Idle(s)
                   PROVE  edges \subseteq g.byCustomer /\ edges \subseteq turned
                          /\ \A t \in g.txns : g.events[t] > 0
        OBVIOUS
      <4>1. \A t \in g.txns : /\ <<CustomerOf(t), MerchantOf(t)>> \in g.byCustomer
                              /\ <<MerchantOf(t), CustomerOf(t)>> \in g.byMerchant
                              /\ g.events[t] > 0
        BY IdleIndexed
      <4>2. \A t \in g.txns : <<CustomerOf(t), MerchantOf(t)>> \in turned
        <5> TAKE t \in g.txns
        <5>1. <<MerchantOf(t), CustomerOf(t)>> \in g.byMerchant
          BY <4>1
        <5> QED
          BY <5>1
      <4> QED
        BY <4>1, <4>2
    <3> QED
      BY <3>1, <3>2
  <2>2. SeedComplete
    <3>1. ASSUME current # Nothing, ~ Creating
          PROVE  {Rows[i].txn : i \in {j \in DOMAIN Rows :
                      Rows[j].kind = "good" /\ \A k \in 1..j : Rows[k].kind # "badAccount"}}
                     \subseteq stores[current].txns
      <4>1. SeededTo(current, Len(Rows) + 1)
        BY <3>1 DEF IInv, SeedOwed, Creating
      <4>2. \A i \in DOMAIN Rows : i < Len(Rows) + 1
        BY RowsAssumption
      <4> QED
        BY <4>1, <4>2 DEF SeededTo
    <3>2. ASSUME NEW s \in created, Cardinality(created) = 1 PROVE s = current
      <4>1. IsFiniteSet(created) /\ current \in created
        BY <3>2 DEF IInv, Kept, Placed
      <4>2. PICK x : created = {x}
        BY <3>2, <4>1, FS_Singleton
      <4> QED
        BY <4>1, <4>2
    <3>3. \A t \in kept : \E s \in created : t \in stores[s].txns
      BY DEF IInv, Kept
    <3> QED
      BY <3>1, <3>2, <3>3 DEF SeedComplete
  <2> QED
    BY <2>1, <2>2 DEF IInv, StoreWhole
<1> QED
  BY <1>1, Invariance, PTL

\* Raced increments are lost but never invented, and a customer whose flagged
\* payment was recorded is flagged once nobody writes.
THEOREM FlagsCorrect == Spec => []FlagsEarned
<1>1. IInv => FlagsEarned
  <2> SUFFICES ASSUME IInv, NEW s \in Stores, NEW c \in Customers
               PROVE  /\ stores[s].flags[c] <= raised[s][c]
                      /\ Idle(s) /\ raised[s][c] > 0 => IsFlagged(stores[s], c)
    BY DEF FlagsEarned
  <2>1. /\ stores[s].flags[c] + Cardinality(Raising(s, c)) <= raised[s][c]
        /\ raised[s][c] > 0 => stores[s].flags[c] > 0 \/ Raising(s, c) # {}
    BY DEF IInv, Counted
  <2>2. stores[s].flags[c] \in Nat /\ raised[s][c] \in Nat /\ Cardinality(Raising(s, c)) \in Nat
    <3>1. stores[s] \in Store
      BY DEF IInv, TypeOK
    <3>2. stores[s].flags \in [Customers -> Nat]
      BY <3>1 DEF Store
    <3> QED
      BY <3>2, RaisingFinite DEF IInv, TypeOK
  <2>3. Idle(s) => Raising(s, c) = {}
    BY DEF Idle, Raising, Writing
  <2> QED
    BY <2>1, <2>2, <2>3 DEF IsFlagged
<1> QED
  BY <1>1, Invariance, PTL

\* A reply during whose reading no payment arrived agrees with itself.
THEOREM AxisCorrect == Spec => []AxisConsistent
<1>1. IInv => AxisConsistent
  BY DEF IInv, Undisturbed, AgreesAt, AxisConsistent
<1> QED
  BY <1>1, Invariance, PTL

-----------------------------------------------------------------------------
(* Rings: the walk of _community_members, as far as it is never cut, ends  *)
(* with the smallest set around its start that leaves no peer out.         *)
LEMMA Least ==
    ASSUME NEW T, T \subseteq Nat, T # {}
    PROVE  \E x \in T : \A y \in T : x <= y
<1> DEFINE R == OpToRel(<, Nat)
<1>1. \A x, y \in Nat : x < y => <<x, y>> \in R
  BY DEF OpToRel
<1>2. IsWellFoundedOn(R, Nat)
  BY NatLessThanWellFounded, Zenon
<1> HIDE DEF R
<1>3. PICK x \in T : \A y \in T : ~ (<<y, x>> \in R)
  BY <1>2, WFMin
<1>4. ASSUME NEW y \in T PROVE x <= y
  <2>1. x \in Nat /\ y \in Nat
    OBVIOUS
  <2>2. ~ (y < x)
    BY <1>1, <1>3, <2>1
  <2> QED
    BY <2>1, <2>2
<1> QED
  BY <1>4

\* Induction along the levels of a walk.
LEMMA Climb ==
    ASSUME NEW n \in Nat, NEW Good, 0 \in Good,
           \A k \in 1..n : k - 1 \in Good => k \in Good
    PROVE  0..n \subseteq Good
<1> SUFFICES ASSUME (0..n) \ Good # {} PROVE FALSE
  OBVIOUS
<1>1. (0..n) \ Good \subseteq Nat
  OBVIOUS
<1>2. PICK k \in (0..n) \ Good : \A j \in (0..n) \ Good : k <= j
  BY <1>1, Least
<1>3. k \in 1..n
  BY <1>2
<1>4. k - 1 \in 0..n /\ ~ (k <= k - 1)
  BY <1>3
<1>5. k - 1 \in Good
  BY <1>2, <1>4
<1> QED
  BY <1>2, <1>3, <1>5

Size == Cardinality(Customers)
Level == [seen : SUBSET Customers, frontier : SUBSET Customers]
Start(c) == [seen |-> {}, frontier |-> {c}]

LEMMA SizeType == Size \in Nat
BY NodesFinite, FS_CardinalityType DEF Size

LEMMA OnwardType ==
    ASSUME NEW g \in Store, NEW window, NEW v \in Level
    PROVE  Onward(g, window, v) \in Level
<1>1. UNION {Peers(g, d, window) : d \in v.frontier} \subseteq Customers
  BY PeersTypes
<1> QED
  BY <1>1 DEF Onward, Level

\* A walk goes from its start one level onward at a time.
LEMMA WalkUnfolds ==
    ASSUME NEW g \in Store, NEW window, NEW c \in Customers
    PROVE  LET walk == Walk(g, c, window) IN
           /\ walk[0] = Start(c)
           /\ \A k \in 1..Size : walk[k] = Onward(g, window, walk[k - 1])
           /\ \A k \in 0..Size : walk[k] \in Level
<1> DEFINE Steps(n) == {f \in [0..n -> Level] :
                           /\ f[0] = Start(c)
                           /\ \A k \in 1..n : f[k] = Onward(g, window, f[k - 1])}
           Good == {n \in 0..Size : Steps(n) # {}}
           walk == Walk(g, c, window)
<1>0. Start(c) \in Level /\ Size \in Nat
  BY SizeType DEF Start, Level
<1>1. 0 \in Good
  <2>1. [k \in 0..0 |-> Start(c)] \in Steps(0)
    BY <1>0
  <2> QED
    BY <1>0, <2>1
<1>2. ASSUME NEW n \in 1..Size, n - 1 \in Good PROVE n \in Good
  <2>0. PICK m : m = n - 1
    OBVIOUS
  <2>1. m \in Nat /\ n = m + 1 /\ n \in 0..Size
    BY <1>0, <2>0
  <2>2. PICK f : f \in Steps(m)
    BY <1>2, <2>0
  <2> DEFINE h == [k \in 0..n |-> IF k = n THEN Onward(g, window, f[m]) ELSE f[k]]
  <2>3. \A k \in 0..n : k # n => k \in 0..m /\ h[k] = f[k]
    BY <2>1
  <2>4. h[n] = Onward(g, window, f[m]) /\ f[m] \in Level
    BY <2>1, <2>2
  <2>5. h \in [0..n -> Level]
    <3>1. Onward(g, window, f[m]) \in Level
      BY <2>4, OnwardType
    <3>2. \A k \in 0..n : k # n => f[k] \in Level
      BY <2>2, <2>3
    <3> QED
      BY <3>1, <3>2
  <2>6. h[0] = Start(c)
    BY <2>1, <2>2
  <2> HIDE DEF h
  <2>7. ASSUME NEW k \in 1..n PROVE h[k] = Onward(g, window, h[k - 1])
    <3>1. k - 1 \in 0..n /\ k - 1 # n
      BY <2>1
    <3>2. h[k - 1] = f[k - 1]
      BY <2>3, <3>1
    <3>3. CASE k = n
      BY <2>0, <2>4, <3>2, <3>3
    <3>4. CASE k # n
      <4>1. k \in 1..m /\ k \in 0..n
        BY <2>1, <3>4
      <4> QED
        BY <2>2, <2>3, <3>2, <3>4, <4>1
    <3> QED
      BY <3>3, <3>4
  <2>8. h \in Steps(n)
    BY <2>5, <2>6, <2>7
  <2> QED
    BY <2>1, <2>8
<1>3. Size \in Good
  <2> HIDE DEF Good
  <2>1. 0..Size \subseteq Good
    BY <1>0, <1>1, <1>2, Climb
  <2> QED
    BY <1>0, <2>1
<1>4. PICK f : f \in Steps(Size)
  BY <1>3
<1>5. f = [k \in 0..Size |-> IF k = 0 THEN [seen |-> {}, frontier |-> {c}] ELSE Onward(g, window, f[k - 1])]
  <2>1. \A k \in 0..Size : f[k] = IF k = 0 THEN [seen |-> {}, frontier |-> {c}]
                                  ELSE Onward(g, window, f[k - 1])
    BY <1>4 DEF Start
  <2>2. f \in [0..Size -> Level]
    BY <1>4
  <2> HIDE DEF Steps
  <2> QED
    BY <2>1, <2>2
<1>6. walk = [k \in 0..Size |-> IF k = 0 THEN [seen |-> {}, frontier |-> {c}]
                                ELSE Onward(g, window, walk[k - 1])]
  BY <1>5 DEF Walk, Size
<1> HIDE DEF walk
<1>7. walk[0] = Start(c)
  BY <1>0, <1>6 DEF Start
<1>8. ASSUME NEW k \in 1..Size PROVE walk[k] = Onward(g, window, walk[k - 1])
  <2>1. k \in 0..Size /\ k # 0
    BY <1>0
  <2> QED
    BY <1>6, <2>1
<1>9. \A k \in 0..Size : walk[k] \in Level
  <2> DEFINE Typed == {k \in 0..Size : walk[k] \in Level}
  <2>1. 0 \in Typed
    BY <1>0, <1>7
  <2>2. \A k \in 1..Size : k - 1 \in Typed => k \in Typed
    BY <1>0, <1>8, OnwardType
  <2> HIDE DEF Typed
  <2>3. 0..Size \subseteq Typed
    BY <1>0, <2>1, <2>2, Climb
  <2> QED
    BY <2>3 DEF Typed
<1> QED
  BY <1>7, <1>8, <1>9 DEF walk

Closed(g, window, T) == \A d \in T : Peers(g, d, window) \subseteq T

\* Where a walk that is not cut has come after k levels.
Walked(g, window, c, v, k) ==
    /\ v.seen \cap v.frontier = {}
    /\ \A d \in v.seen : Peers(g, d, window) \subseteq v.seen \cup v.frontier
    /\ v.frontier = {} \/ Cardinality(v.seen) >= k
    /\ c \in v.seen \cup v.frontier /\ (k > 0 => c \in v.seen)
    /\ \A T \in SUBSET Customers : c \in T /\ Closed(g, window, T) => v.seen \cup v.frontier \subseteq T

LEMMA LevelFinite ==
    ASSUME NEW v \in Level
    PROVE  /\ IsFiniteSet(v.seen) /\ Cardinality(v.seen) \in Nat /\ Cardinality(v.seen) <= Size
           /\ v.seen \subseteq Customers /\ v.frontier \subseteq Customers
           /\ Cardinality(v.seen) = Size => v.seen = Customers
<1>1. v.seen \in SUBSET Customers /\ v.frontier \in SUBSET Customers
  BY DEF Level
<1>2. IsFiniteSet(Customers)
  BY NodesFinite
<1>3. IsFiniteSet(v.seen) /\ Cardinality(v.seen) <= Size
  BY <1>1, <1>2, FS_Subset DEF Size
<1>4. Cardinality(v.seen) = Size => v.seen = Customers
  BY <1>1, <1>2, FS_Subset DEF Size
<1> QED
  BY <1>1, <1>3, <1>4, FS_CardinalityType

LEMMA WalkedOn ==
    ASSUME NEW g \in Store, NEW window, NEW c \in Customers, Size <= MaxNodes,
           NEW v \in Level, NEW k \in Nat, Walked(g, window, c, v, k)
    PROVE  Walked(g, window, c, Onward(g, window, v), k + 1)
<1> DEFINE next == UNION {Peers(g, d, window) : d \in v.frontier}
           seen == v.seen \cup v.frontier
           o == Onward(g, window, v)
<1>1. /\ IsFiniteSet(v.seen) /\ Cardinality(v.seen) \in Nat /\ Cardinality(v.seen) <= Size
      /\ v.seen \subseteq Customers /\ v.frontier \subseteq Customers
  BY LevelFinite
<1>2. ~ (Cardinality(v.seen) > MaxNodes)
  <2>1. MaxNodes \in Nat /\ Size \in Nat
    BY SizeType, DetailsAssumption
  <2>2. \A m \in Nat : m <= Size => ~ (m > MaxNodes)
    BY <2>1
  <2> QED
    BY <1>1, <2>2
<1>3. o = [seen |-> seen, frontier |-> next \ seen]
  BY <1>2 DEF Onward
<1>4. o.seen = seen /\ o.frontier = next \ seen
  BY <1>3
<1> HIDE DEF o
<1>5. \A d \in o.seen : Peers(g, d, window) \subseteq o.seen \cup o.frontier
  <2>1. \A d \in v.frontier : Peers(g, d, window) \subseteq next
    OBVIOUS
  <2> QED
    BY <1>4, <2>1 DEF Walked
<1>6. o.frontier = {} \/ Cardinality(o.seen) >= k + 1
  <2>1. CASE v.frontier = {}
    BY <1>4, <2>1
  <2>2. CASE v.frontier # {}
    <3>1. PICK d : d \in v.frontier
      BY <2>2
    <3>2. d \notin v.seen /\ Cardinality(v.seen) >= k
      BY <3>1 DEF Walked
    <3>3. Cardinality(v.seen \cup {d}) = Cardinality(v.seen) + 1 /\ IsFiniteSet(v.seen \cup {d})
      BY <1>1, <3>2, FS_AddElement
    <3>4. IsFiniteSet(seen)
      BY <1>1, NodesFinite, FS_Subset
    <3>5. Cardinality(v.seen \cup {d}) <= Cardinality(seen) /\ Cardinality(seen) \in Nat
      BY <3>1, <3>4, FS_Subset, FS_CardinalityType
    <3> HIDE DEF seen
    <3> QED
      BY <1>1, <1>4, <3>2, <3>3, <3>5
  <2> QED
    BY <2>1, <2>2
<1>7. c \in o.seen
  BY <1>4 DEF Walked
<1>8. ASSUME NEW T \in SUBSET Customers, c \in T, Closed(g, window, T)
      PROVE  o.seen \cup o.frontier \subseteq T
  <2>1. seen \subseteq T
    BY <1>8 DEF Walked
  <2>2. next \subseteq T
    BY <1>8, <2>1 DEF Closed
  <2> QED
    BY <1>4, <2>1, <2>2
<1>9. o.seen \cap o.frontier = {}
  BY <1>4
<1> QED
  BY <1>5, <1>6, <1>7, <1>8, <1>9 DEF Walked, o

\* The ring of a customer is the smallest set around it that leaves no peer out.
LEMMA RingIsSmallest ==
    ASSUME NEW g \in Store, NEW window, NEW c \in Customers, Size <= MaxNodes
    PROVE  LET ring == CommunityMembers(g, c, window) IN
           /\ ring \subseteq Customers /\ IsFiniteSet(ring)
           /\ c \in ring
           /\ Closed(g, window, ring)
           /\ \A T \in SUBSET Customers : c \in T /\ Closed(g, window, T) => ring \subseteq T
<1> DEFINE walk == Walk(g, c, window)
           Good == {k \in 0..Size : Walked(g, window, c, walk[k], k)}
           last == walk[Size]
<1>1. /\ walk[0] = Start(c)
      /\ \A k \in 1..Size : walk[k] = Onward(g, window, walk[k - 1])
      /\ \A k \in 0..Size : walk[k] \in Level
  BY WalkUnfolds
<1>2. Size \in Nat /\ Size > 0
  <2>1. Size # 0
    BY NodesFinite, FS_EmptySet DEF Size
  <2> QED
    BY <2>1, SizeType
<1> HIDE DEF walk
<1>3. 0 \in Good
  <2>1. /\ Start(c).seen = {} /\ Start(c).frontier = {c} /\ Cardinality({}) = 0
    BY FS_EmptySet DEF Start
  <2>2. Walked(g, window, c, Start(c), 0)
    BY <2>1 DEF Walked
  <2> QED
    BY <1>1, <1>2, <2>2
<1>4. ASSUME NEW k \in 1..Size, k - 1 \in Good PROVE k \in Good
  <2>1. k - 1 \in Nat /\ k - 1 \in 0..Size /\ k \in 0..Size /\ (k - 1) + 1 = k
    BY <1>2
  <2>2. walk[k - 1] \in Level /\ Walked(g, window, c, walk[k - 1], k - 1)
    BY <1>1, <1>4, <2>1
  <2>3. Walked(g, window, c, Onward(g, window, walk[k - 1]), (k - 1) + 1)
    BY <2>1, <2>2, WalkedOn
  <2> QED
    BY <1>1, <2>1, <2>3
<1>5. Walked(g, window, c, last, Size) /\ last \in Level
  <2> HIDE DEF Good
  <2>1. 0..Size \subseteq Good
    BY <1>2, <1>3, <1>4, Climb
  <2>2. Size \in Good
    BY <1>2, <2>1
  <2> QED
    BY <1>1, <1>2, <2>2 DEF Good
<1>6. CommunityMembers(g, c, window) = last.seen
  BY DEF CommunityMembers, walk, Size
<1> HIDE DEF last
<1>7. /\ IsFiniteSet(last.seen) /\ Cardinality(last.seen) \in Nat /\ Cardinality(last.seen) <= Size
      /\ last.seen \subseteq Customers /\ last.frontier \subseteq Customers
      /\ Cardinality(last.seen) = Size => last.seen = Customers
  BY <1>5, LevelFinite
<1>8. last.frontier = {}
  <2> SUFFICES ASSUME last.frontier # {} PROVE FALSE
    OBVIOUS
  <2>1. Cardinality(last.seen) >= Size
    BY <1>5 DEF Walked
  <2>2. last.seen = Customers
    BY <1>2, <1>7, <2>1
  <2> QED
    BY <1>5, <1>7, <2>2 DEF Walked
<1> QED
  BY <1>2, <1>5, <1>6, <1>7, <1>8 DEF Walked, Closed

\* Sharing a merchant within the window is mutual.
LEMMA PeersMutual ==
    ASSUME NEW g, NEW c, NEW d, d \in Peers(g, c, Window)
    PROVE  /\ c \in Peers(g, d, Window)
           /\ \E m \in ScopedMerchants(g, c, Window) : m \in ScopedMerchants(g, d, Window)
<1>1. Window # Unset
  BY DetailsAssumption, JobsAssumption
<1>2. PICK m \in ScopedMerchants(g, c, Window) : d \in ScopedCustomers(g, m, Window) \ {c}
  BY DEF Peers, Crowd
<1>3. PICK t \in Recent(g, Window) : CustomerOf(t) = c /\ MerchantOf(t) = m
  BY <1>1, <1>2 DEF ScopedMerchants
<1>4. PICK u \in Recent(g, Window) : CustomerOf(u) = d /\ MerchantOf(u) = m
  BY <1>1, <1>2 DEF ScopedCustomers
<1>5. m \in ScopedMerchants(g, d, Window)
  BY <1>1, <1>4 DEF ScopedMerchants
<1>6. c \in ScopedCustomers(g, m, Window)
  BY <1>1, <1>3 DEF ScopedCustomers
<1> QED
  BY <1>2, <1>5, <1>6 DEF Peers, Crowd

LEMMA RingShared ==
    ASSUME NEW g \in Store, NEW c \in Customers, Size <= MaxNodes,
           NEW d \in CommunityMembers(g, c, Window)
    PROVE  CommunityMembers(g, d, Window) = CommunityMembers(g, c, Window)
<1> DEFINE ring == CommunityMembers(g, c, Window)
           its == CommunityMembers(g, d, Window)
           rest == ring \ its
<1>1. /\ ring \subseteq Customers /\ c \in ring /\ Closed(g, Window, ring)
      /\ \A T \in SUBSET Customers : c \in T /\ Closed(g, Window, T) => ring \subseteq T
  BY RingIsSmallest
<1>2. d \in Customers
  BY <1>1
<1>3. /\ its \subseteq Customers /\ d \in its /\ Closed(g, Window, its)
      /\ \A T \in SUBSET Customers : d \in T /\ Closed(g, Window, T) => its \subseteq T
  BY <1>2, RingIsSmallest
<1>4. d \in ring
  OBVIOUS
<1> HIDE DEF ring, its
<1>5. its \subseteq ring
  BY <1>1, <1>3, <1>4
<1>6. Closed(g, Window, rest)
  <2> SUFFICES ASSUME NEW e \in rest, NEW p \in Peers(g, e, Window) PROVE p \in rest
    BY DEF Closed
  <2>1. p \in ring
    BY <1>1 DEF Closed
  <2>2. e \in Peers(g, p, Window)
    BY PeersMutual
  <2>3. p \notin its
    BY <1>3, <2>2 DEF Closed
  <2> QED
    BY <2>1, <2>3
<1>7. c \in its
  <2> SUFFICES ASSUME c \notin its PROVE FALSE
    OBVIOUS
  <2>1. c \in rest /\ rest \in SUBSET Customers
    BY <1>1
  <2>2. ring \subseteq rest
    BY <1>1, <1>6, <2>1
  <2> QED
    BY <1>3, <1>4, <2>2
<1>8. ring \subseteq its
  BY <1>1, <1>3, <1>7
<1> QED
  BY <1>5, <1>8 DEF ring, its

RingAgrees(g, c) ==
    LET ring == CommunityMembers(g, c, Window)
        f == Features(g, c, Window)
        peers == [d \in ring |-> Peers(g, d, Window)]
    IN  /\ \A d \in ring \ {c} : CommunityMembers(g, d, Window) = ring
        /\ \A d \in ring : peers[d] \subseteq ring
        /\ \A part \in (SUBSET ring) \ {{}, ring} : \E d \in part : ~ (peers[d] \subseteq part)
        /\ f.degree > 0 => /\ f.cluster = Cardinality(ring) /\ f.shared < f.cluster
                           /\ f.flagged <= f.clusterFlagged

LEMMA RingAgreesAnywhere ==
    ASSUME NEW g \in Store, NEW c \in Customers, Size <= MaxNodes
    PROVE  RingAgrees(g, c)
<1> DEFINE ring == CommunityMembers(g, c, Window)
           f == Features(g, c, Window)
           peers == [d \in ring |-> Peers(g, d, Window)]
<1>1. /\ ring \subseteq Customers /\ IsFiniteSet(ring) /\ c \in ring /\ Closed(g, Window, ring)
  BY RingIsSmallest
<1>2. \A d \in ring : CommunityMembers(g, d, Window) = ring
  BY RingShared
<1>3. \A d \in ring : peers[d] = Peers(g, d, Window)
  OBVIOUS
<1>4. f.degree > 0 => /\ f.cluster = Cardinality(ring) /\ f.shared < f.cluster
                      /\ f.flagged <= f.clusterFlagged
  <2> SUFFICES ASSUME f.degree > 0
               PROVE  f.cluster = Cardinality(ring) /\ f.shared < f.cluster /\ f.flagged <= f.clusterFlagged
    OBVIOUS
  <2> DEFINE mine == Peers(g, c, Window)
  <2>1. ScopedMerchants(g, c, Window) # {}
    BY DEF Features
  <2>2. /\ f.cluster = Cardinality(ring) /\ f.shared = Cardinality(mine)
        /\ f.flagged = Cardinality(Flagged(g, mine)) /\ f.clusterFlagged = Cardinality(Flagged(g, ring))
    BY <2>1 DEF Features
  <2>3. mine \subseteq ring /\ c \notin mine /\ IsFiniteSet(mine)
    BY <1>1, PeersTypes DEF Closed
  <2> HIDE DEF mine, ring, f
  <2>4. Cardinality(mine \cup {c}) = Cardinality(mine) + 1 /\ Cardinality(mine \cup {c}) <= Cardinality(ring)
        /\ Cardinality(mine) \in Nat /\ Cardinality(ring) \in Nat
    BY <1>1, <2>3, FS_AddElement, FS_Subset, FS_CardinalityType
  <2>5. Flagged(g, mine) \in SUBSET Flagged(g, ring) /\ Flagged(g, ring) \in SUBSET ring
    BY <2>3 DEF Flagged
  <2>6. Cardinality(Flagged(g, mine)) <= Cardinality(Flagged(g, ring))
    BY <1>1, <2>5, FS_Subset
  <2> QED
    BY <2>2, <2>4, <2>6
<1> HIDE DEF peers
<1>5. ASSUME NEW part \in (SUBSET ring) \ {{}, ring} PROVE \E d \in part : ~ (peers[d] \subseteq part)
  <2> SUFFICES ASSUME \A d \in part : peers[d] \subseteq part PROVE FALSE
    OBVIOUS
  <2>1. part \in SUBSET Customers /\ Closed(g, Window, part)
    BY <1>1, <1>3 DEF Closed
  <2>2. PICK d : d \in part
    BY <1>5
  <2>3. d \in Customers /\ d \in ring
    BY <2>1, <2>2
  <2>4. CommunityMembers(g, d, Window) \subseteq part
    BY <2>1, <2>2, <2>3, RingIsSmallest
  <2> QED
    BY <1>2, <1>5, <2>3, <2>4
<1>6. \A d \in ring : peers[d] \subseteq ring
  BY <1>1, <1>3 DEF Closed
<1> QED
  BY <1>2, <1>4, <1>5, <1>6 DEF RingAgrees, peers

\* What a reading finds: a store, and one of its customers.
LEMMA ReadingAt ==
    ASSUME IInv, NEW w \in Workers, pc[w] = "community"
    PROVE  stores[held[w]] \in Store /\ Customer(w) \in Customers
<1>1. stores[held[w]] \in Store /\ job[w] \in Job
  BY ReadableHeld DEF IInv, ReadingStep
<1> QED
  BY <1>1, DetailsTypes DEF Customer, Job

\* Where the walk is never cut, the ring of a customer is the connected
\* component of the graph, whoever of its members asks.
THEOREM RingsCorrect ==
    ASSUME Cardinality(Customers) <= MaxNodes
    PROVE  Spec => []RingsAgree
<1>1. IInv => RingsAgree
  <2> SUFFICES ASSUME IInv, NEW w \in Workers, pc[w] = "community"
               PROVE  RingAgrees(stores[held[w]], Customer(w))
    BY DEF RingsAgree, OnReading, RingAgrees
  <2>0. PICK g, c : g = stores[held[w]] /\ c = Customer(w)
    OBVIOUS
  <2>1. g \in Store /\ c \in Customers
    BY <2>0, ReadingAt
  <2> QED
    BY <2>0, <2>1, RingAgreesAnywhere DEF Size
<1> QED
  BY <1>1, Invariance, PTL

-----------------------------------------------------------------------------
(* Payloads.                                                               *)
LEMMA MinIn ==
    ASSUME NEW S, S \subseteq Nat, S # {}
    PROVE  Min(S) \in S
BY Least DEF Min

\* Cutting a set to its n smallest leaves at most n.
LEMMA SmallestFew ==
    ASSUME NEW S, IsFiniteSet(S), S \subseteq Nat, NEW n \in Int
    PROVE  /\ Smallest(n, S) \subseteq S /\ IsFiniteSet(Smallest(n, S))
           /\ Cardinality(Smallest(n, S)) \in Nat
           /\ Cardinality(Smallest(n, S)) <= IF n > 0 THEN n ELSE 0
<1> DEFINE Below(x) == {y \in S : y < x}
           cut == Smallest(n, S)
           b == [x \in S |-> Cardinality(Below(x))]
<1>1. \A x \in S : /\ IsFiniteSet(Below(x)) /\ Cardinality(Below(x)) \in Nat
                   /\ b[x] = Cardinality(Below(x)) /\ b[x] \in Nat
  <2> TAKE x \in S
  <2>1. Below(x) \in SUBSET S /\ b[x] = Cardinality(Below(x))
    OBVIOUS
  <2> HIDE DEF Below, b
  <2> QED
    BY <2>1, FS_Subset, FS_CardinalityType
<1>2. cut \in SUBSET S /\ \A x \in cut : b[x] < n
  BY DEF Smallest
<1> HIDE DEF b
<1>3. \A x \in S, y \in S : x < y => b[x] < b[y]
  <2> SUFFICES ASSUME NEW x \in S, NEW y \in S, x < y PROVE b[x] < b[y]
    OBVIOUS
  <2>0. x \in Nat /\ y \in Nat /\ S \subseteq Nat
    OBVIOUS
  <2>1. x \notin Below(x)
    BY <2>0
  <2>2. Below(x) \cup {x} \in SUBSET Below(y)
    <3>1. \A z \in S : z < x => z < y
      BY <2>0
    <3> QED
      BY <3>1
  <2> HIDE DEF Below
  <2>3. Cardinality(Below(x) \cup {x}) = Cardinality(Below(x)) + 1
    BY <1>1, <2>1, FS_AddElement
  <2>4. Cardinality(Below(x) \cup {x}) <= Cardinality(Below(y))
    BY <1>1, <2>2, FS_Subset
  <2> QED
    BY <1>1, <2>3, <2>4
<1>4. IsFiniteSet(cut) /\ Cardinality(cut) \in Nat
  BY <1>2, FS_Subset, FS_CardinalityType
<1>5. CASE cut = {}
  BY <1>2, <1>4, <1>5, FS_EmptySet
<1>6. CASE cut # {}
  <2> HIDE DEF cut
  <2>1. \A x \in cut : b[x] \in Nat /\ b[x] < n /\ n - b[x] \in Nat
    <3> TAKE x \in cut
    <3>1. b[x] \in Nat /\ b[x] < n
      BY <1>1, <1>2
    <3> QED
      BY <3>1
  <2> DEFINE gaps == {n - b[x] : x \in cut}
  <2>2. gaps \subseteq Nat /\ gaps # {}
    BY <1>6, <2>1
  <2>3. PICK gap \in gaps : \A other \in gaps : gap <= other
    BY <2>2, Least
  <2>4. PICK x \in cut : gap = n - b[x]
    BY <2>3
  <2>5. ASSUME NEW y \in cut PROVE b[y] <= b[x]
    <3>1. gap <= n - b[y]
      BY <2>3
    <3> QED
      BY <2>1, <2>4, <3>1
  <2>6. cut \ {x} \in SUBSET Below(x)
    <3> SUFFICES ASSUME NEW y \in cut, y # x PROVE y \in S /\ y < x
      BY DEF Below
    <3>1. y \in S /\ x \in S /\ y \in Nat /\ x \in Nat
      BY <1>2
    <3>2. b[y] <= b[x] /\ b[x] \in Nat /\ b[y] \in Nat
      BY <2>1, <2>5
    <3>3. ~ (x < y)
      BY <1>3, <3>1, <3>2
    <3> QED
      BY <3>1, <3>3
  <2> HIDE DEF Below
  <2>7. Cardinality(cut \ {x}) <= Cardinality(Below(x)) /\ Cardinality(cut \ {x}) = Cardinality(cut) - 1
    BY <1>1, <1>2, <1>4, <2>6, FS_Subset, FS_RemoveElement
  <2>8. Cardinality(Below(x)) = b[x]
    BY <1>1, <1>2
  <2>9. Cardinality(cut) <= n /\ n > 0
    BY <1>4, <2>1, <2>7, <2>8
  <2> QED
    BY <1>2, <1>4, <2>9 DEF cut
<1> QED
  BY <1>5, <1>6

LEMMA RingType ==
    ASSUME NEW g \in Store, NEW window, NEW c \in Customers
    PROVE  CommunityMembers(g, c, window) \subseteq Customers /\ IsFiniteSet(CommunityMembers(g, c, window))
<1>1. Walk(g, c, window)[Size] \in Level
  BY WalkUnfolds, SizeType
<1> QED
  BY <1>1, LevelFinite DEF CommunityMembers, Size

LEMMA NodesNat == Customers \subseteq Nat /\ Merchants \subseteq Nat
BY DetailsTypes DEF Customers, Merchants

PayloadFits(g, c, limit) ==
    LET ego == EgoGraph(g, c, Window, limit)
        ring == CommunityGraph(g, c, Window, limit)
    IN  /\ \A p \in {ego, ring} :
              /\ p.links \subseteq p.customers \X p.merchants
              /\ \A m \in p.merchants : \E d \in p.customers : <<d, m>> \in p.links
        /\ \A d \in ego.customers \ {c} : \E m \in ego.merchants : <<d, m>> \in ego.links
        /\ Cardinality(ego.customers) + Cardinality(ego.merchants)
              <= Max({limit, Cardinality(ego.merchants) + 1})
        /\ Cardinality(ring.customers) <= limit

LEMMA EgoFits ==
    ASSUME NEW g \in Store, NEW c \in Customers, NEW limit \in Nat
    PROVE  LET ego == EgoGraph(g, c, Window, limit) IN
           /\ ego.links \subseteq ego.customers \X ego.merchants
           /\ \A m \in ego.merchants : \E d \in ego.customers : <<d, m>> \in ego.links
           /\ \A d \in ego.customers \ {c} : \E m \in ego.merchants : <<d, m>> \in ego.links
           /\ Cardinality(ego.customers) + Cardinality(ego.merchants)
                 <= Max({limit, Cardinality(ego.merchants) + 1})
<1> DEFINE ms == ScopedMerchants(g, c, Window)
           others == Peers(g, c, Window) \ {c}
           room == Room(Cardinality(ms), limit)
           shown == Smallest(room, others)
           Both(p) == ms \cap ScopedMerchants(g, p, Window)
           ego == EgoGraph(g, c, Window, limit)
<1>1. /\ ego.customers = {c} \cup shown /\ ego.merchants = ms
      /\ ego.links = ({c} \X ms) \cup {<<p, Min(Both(p))>> : p \in {q \in shown : Both(q) # {}}}
  BY DEF EgoGraph
<1>2. ms \in SUBSET Merchants /\ IsFiniteSet(ms) /\ Cardinality(ms) \in Nat
  BY ScopedTypes, PeersTypes, FS_CardinalityType
<1>3. others \in SUBSET Customers /\ IsFiniteSet(others) /\ others \subseteq Nat
  BY PeersTypes, NodesFinite, NodesNat, FS_Subset
<1>4. room = limit - Cardinality(ms) - 1 /\ room \in Int
  BY <1>2 DEF Room
<1> HIDE DEF room, others, ego
<1>5. /\ shown \subseteq others /\ IsFiniteSet(shown) /\ Cardinality(shown) \in Nat
      /\ Cardinality(shown) <= IF room > 0 THEN room ELSE 0
  BY <1>3, <1>4, SmallestFew
<1> HIDE DEF shown
<1>6. \A p \in shown : Both(p) # {} /\ Min(Both(p)) \in ms
  <2> TAKE p \in shown
  <2>1. p \in Peers(g, c, Window)
    BY <1>5 DEF others
  <2>2. Both(p) # {}
    BY <2>1, PeersMutual
  <2>3. Both(p) \subseteq Nat
    BY <1>2, NodesNat
  <2>4. Min(Both(p)) \in Both(p)
    BY <2>2, <2>3, MinIn
  <2> QED
    BY <2>2, <2>4
<1> HIDE DEF Both
<1>7. \A p \in shown : <<p, Min(Both(p))>> \in ego.links
  BY <1>1, <1>6
<1>8. \A m \in ms : <<c, m>> \in ego.links
  BY <1>1
<1>9. ego.links \subseteq ego.customers \X ego.merchants
  BY <1>1, <1>6
<1> HIDE DEF ms
<1>10. Cardinality(ego.customers) + Cardinality(ego.merchants)
          <= Max({limit, Cardinality(ego.merchants) + 1})
  <2>1. Cardinality({c} \cup shown) \in Nat /\ Cardinality({c} \cup shown) <= Cardinality(shown) + 1
    <3>1. CASE c \in shown
      <4>1. {c} \cup shown = shown
        BY <3>1
      <4> QED
        BY <1>5, <4>1
    <3>2. CASE c \notin shown
      <4>1. {c} \cup shown = shown \cup {c}
        OBVIOUS
      <4>2. Cardinality(shown \cup {c}) = Cardinality(shown) + 1
        BY <1>5, <3>2, FS_AddElement
      <4> QED
        BY <1>5, <4>1, <4>2
    <3> QED
      BY <3>1, <3>2
  <2>2. Max({limit, Cardinality(ms) + 1})
            = IF limit >= Cardinality(ms) + 1 THEN limit ELSE Cardinality(ms) + 1
    BY <1>2, MaxOfTwo
  <2>3. PICK a, b, d, r : /\ a = Cardinality({c} \cup shown) /\ b = Cardinality(ms)
                          /\ d = Cardinality(shown) /\ r = room
    OBVIOUS
  <2>4. /\ a \in Nat /\ b \in Nat /\ d \in Nat /\ r = limit - b - 1
        /\ a <= d + 1 /\ d <= IF r > 0 THEN r ELSE 0
    BY <1>2, <1>4, <1>5, <2>1, <2>3
  <2>5. a + b <= IF limit >= b + 1 THEN limit ELSE b + 1
    BY <2>4
  <2> QED
    BY <1>1, <2>2, <2>3, <2>5
<1>11. \A d \in ego.customers \ {c} : \E m \in ego.merchants : <<d, m>> \in ego.links
  BY <1>1, <1>6, <1>7
<1>12. \A m \in ego.merchants : \E d \in ego.customers : <<d, m>> \in ego.links
  BY <1>1, <1>8
<1> QED
  BY <1>9, <1>10, <1>11, <1>12 DEF ego

LEMMA RingFits ==
    ASSUME NEW g \in Store, NEW c \in Customers, NEW limit \in Nat
    PROVE  LET ring == CommunityGraph(g, c, Window, limit) IN
           /\ ring.links \subseteq ring.customers \X ring.merchants
           /\ \A m \in ring.merchants : \E d \in ring.customers : <<d, m>> \in ring.links
           /\ Cardinality(ring.customers) <= limit
<1> DEFINE members == CommunityMembers(g, c, Window)
           shown == Smallest(limit, members)
           links == UNION {{d} \X ScopedMerchants(g, d, Window) : d \in shown}
           ms == {l[2] : l \in links}
           ring == CommunityGraph(g, c, Window, limit)
<1>1. ring.customers = shown /\ ring.merchants = ms /\ ring.links = links
  BY DEF CommunityGraph
<1>2. members \subseteq Customers /\ IsFiniteSet(members) /\ members \subseteq Nat
  BY RingType, NodesNat
<1> HIDE DEF members, ring
<1>3. Cardinality(shown) \in Nat /\ Cardinality(shown) <= IF limit > 0 THEN limit ELSE 0
  <2>1. limit \in Int
    OBVIOUS
  <2> QED
    BY <1>2, <2>1, SmallestFew
<1> HIDE DEF shown
<1>4. Cardinality(ring.customers) <= limit
  BY <1>1, <1>3
<1>5. \A l \in links : \E d \in shown : \E m \in ScopedMerchants(g, d, Window) : l = <<d, m>>
  OBVIOUS
<1> HIDE DEF links
<1>6. \A l \in links : l[1] \in shown /\ l[2] \in ms /\ l = <<l[1], l[2]>>
  BY <1>5
<1> QED
  BY <1>1, <1>4, <1>6 DEF ring

\* A dashboard draws no edge to a node it leaves out, connects what it draws
\* and keeps to its limit, but for the merchants of the customer itself.
THEOREM PayloadsCorrect == Spec => []PayloadClosed
<1>1. IInv => PayloadClosed
  <2> SUFFICES ASSUME IInv, NEW w \in Workers, pc[w] = "community", NEW limit \in Limits
               PROVE  PayloadFits(stores[held[w]], Customer(w), limit)
    BY DEF PayloadClosed, OnReading, PayloadFits
  <2>0. PICK g, c : g = stores[held[w]] /\ c = Customer(w)
    OBVIOUS
  <2>1. g \in Store /\ c \in Customers /\ limit \in Nat
    BY <2>0, ReadingAt, JobsAssumption
  <2> QED
    BY <2>0, <2>1, EgoFits, RingFits DEF PayloadFits
<1> QED
  BY <1>1, Invariance, PTL

-----------------------------------------------------------------------------
(* Sums: what Total folds in some order does not depend on the order.      *)
First(s) == CHOOSE x \in s : TRUE

\* h sums f over every subset of S.
SumsOf(f, h, S) == h = [s \in SUBSET S |-> IF s = {} THEN 0 ELSE f[First(s)] + h[s \ {First(s)}]]

Upto(S, n) == {s \in SUBSET S : Cardinality(s) <= n}

LEMMA UptoNone ==
    ASSUME NEW S, IsFiniteSet(S), NEW s \in Upto(S, 0)
    PROVE  s = {}
<1>1. s \in SUBSET S /\ Cardinality(s) <= 0
  BY DEF Upto
<1>2. IsFiniteSet(s)
  BY <1>1, FS_Subset
<1>3. Cardinality(s) = 0
  BY <1>1, <1>2, FS_CardinalityType
<1> QED
  BY <1>2, <1>3, FS_EmptySet

LEMMA FirstRemoved ==
    ASSUME NEW S, IsFiniteSet(S), NEW s \in SUBSET S, s # {}
    PROVE  /\ First(s) \in s /\ s \ {First(s)} \in SUBSET S
           /\ Cardinality(s) \in Nat /\ Cardinality(s \ {First(s)}) \in Nat
           /\ Cardinality(s) = Cardinality(s \ {First(s)}) + 1
<1>1. First(s) \in s /\ s \ {First(s)} \in SUBSET S
  BY DEF First
<1>2. IsFiniteSet(s) /\ IsFiniteSet(s \ {First(s)})
  BY <1>1, FS_Subset
<1>3. Cardinality(s \ {First(s)}) = Cardinality(s) - 1
  BY <1>1, <1>2, FS_RemoveElement
<1> QED
  BY <1>1, <1>2, <1>3, FS_CardinalityType

LEMMA SumsExist ==
    ASSUME NEW S, IsFiniteSet(S), NEW f \in [S -> Nat]
    PROVE  \E h \in [SUBSET S -> Nat] : SumsOf(f, h, S)
<1> DEFINE Size1 == Cardinality(S)
           Sums(n) == {h \in [Upto(S, n) -> Nat] : \A s \in Upto(S, n) :
                          h[s] = IF s = {} THEN 0 ELSE f[First(s)] + h[s \ {First(s)}]}
           Good == {n \in 0..Size1 : Sums(n) # {}}
<1>0. Size1 \in Nat
  BY FS_CardinalityType
<1>1. 0 \in Good
  <2>1. \A s \in Upto(S, 0) : s = {}
    BY UptoNone
  <2>2. [s \in Upto(S, 0) |-> 0] \in Sums(0)
    BY <2>1
  <2> QED
    BY <1>0, <2>2
<1>2. ASSUME NEW n \in 1..Size1, n - 1 \in Good PROVE n \in Good
  <2>0. PICK m : m = n - 1
    OBVIOUS
  <2>1. m \in Nat /\ n = m + 1 /\ n \in 0..Size1
    BY <1>0, <2>0
  <2>2. PICK h : h \in Sums(m)
    BY <1>2, <2>0
  <2> DEFINE sum(s) == IF s = {} THEN 0 ELSE f[First(s)] + h[s \ {First(s)}]
             k == [s \in Upto(S, n) |-> sum(s)]
  <2>3. \A s \in Upto(S, n) : s # {} => /\ First(s) \in S /\ s \ {First(s)} \in Upto(S, m)
                                        /\ s \ {First(s)} \in Upto(S, n)
    <3> SUFFICES ASSUME NEW s \in SUBSET S, Cardinality(s) <= n, s # {}
                 PROVE  /\ First(s) \in S /\ s \ {First(s)} \in SUBSET S
                        /\ Cardinality(s \ {First(s)}) <= m /\ Cardinality(s \ {First(s)}) <= n
      BY DEF Upto
    <3>1. /\ First(s) \in s /\ s \ {First(s)} \in SUBSET S
          /\ Cardinality(s) \in Nat /\ Cardinality(s \ {First(s)}) \in Nat
          /\ Cardinality(s) = Cardinality(s \ {First(s)}) + 1
      BY FirstRemoved
    <3>2. PICK a, b : a = Cardinality(s) /\ b = Cardinality(s \ {First(s)})
      OBVIOUS
    <3>3. a \in Nat /\ b \in Nat /\ a = b + 1 /\ a <= n
      BY <3>1, <3>2
    <3>4. b <= m /\ b <= n
      BY <2>1, <3>3
    <3> QED
      BY <3>1, <3>2, <3>4
  <2>4. \A s \in Upto(S, m) : h[s] = sum(s) /\ h[s] \in Nat
    BY <2>2
  <2>5. \A s \in Upto(S, n) : sum(s) \in Nat
    <3> TAKE s \in Upto(S, n)
    <3>1. s # {} => f[First(s)] \in Nat /\ h[s \ {First(s)}] \in Nat
      BY <2>3, <2>4
    <3> QED
      BY <3>1
  <2>6. \A s \in Upto(S, n) : s # {} => k[s \ {First(s)}] = h[s \ {First(s)}]
    BY <2>3, <2>4
  <2>7. k \in [Upto(S, n) -> Nat] /\ \A s \in Upto(S, n) : k[s] = sum(s)
    BY <2>5
  <2> HIDE DEF k
  <2>8. k \in Sums(n)
    BY <2>6, <2>7
  <2> QED
    BY <2>1, <2>8
<1>3. Size1 \in Good
  <2> HIDE DEF Good, Size1
  <2>1. 0..Size1 \subseteq Good
    BY <1>0, <1>1, <1>2, Climb
  <2> QED
    BY <1>0, <2>1
<1>4. PICK h : h \in Sums(Size1)
  BY <1>3
<1>5. Upto(S, Size1) = SUBSET S
  <2>1. \A s \in SUBSET S : Cardinality(s) <= Size1
    BY FS_Subset
  <2> QED
    BY <2>1 DEF Upto
<1>6. h \in [SUBSET S -> Nat]
  BY <1>4, <1>5
<1>7. \A s \in SUBSET S : h[s] = IF s = {} THEN 0 ELSE f[First(s)] + h[s \ {First(s)}]
  BY <1>4, <1>5
<1>8. SumsOf(f, h, S)
  <2> HIDE DEF Sums
  <2> QED
    BY <1>6, <1>7 DEF SumsOf
<1> QED
  BY <1>6, <1>8

\* Sums over two sets agree on what both contain.
LEMMA SumsAgree ==
    ASSUME NEW S, IsFiniteSet(S), NEW T \in SUBSET S, NEW f, NEW e, \A x \in T : f[x] = e[x],
           NEW h, SumsOf(f, h, S), NEW k, SumsOf(e, k, T)
    PROVE  \A s \in SUBSET T : h[s] = k[s]
<1> DEFINE Good == {n \in 0..Cardinality(S) : \A s \in Upto(T, n) : h[s] = k[s]}
<1>0. Cardinality(S) \in Nat
  BY FS_CardinalityType
<1>1. /\ \A s \in SUBSET S : h[s] = IF s = {} THEN 0 ELSE f[First(s)] + h[s \ {First(s)}]
      /\ \A s \in SUBSET T : k[s] = IF s = {} THEN 0 ELSE e[First(s)] + k[s \ {First(s)}]
  BY DEF SumsOf
<1>2. 0 \in Good
  <2>1. \A s \in Upto(T, 0) : s = {}
    <3>1. IsFiniteSet(T)
      BY FS_Subset
    <3> QED
      BY <3>1, UptoNone
  <2>2. {} \in SUBSET S /\ {} \in SUBSET T
    OBVIOUS
  <2>3. h[{}] = 0 /\ k[{}] = 0
    BY <1>1, <2>2
  <2>4. \A s \in Upto(T, 0) : h[s] = k[s]
    BY <2>1, <2>3
  <2>5. 0 \in 0..Cardinality(S)
    BY <1>0
  <2> QED
    BY <2>4, <2>5
<1>3. ASSUME NEW n \in 1..Cardinality(S), n - 1 \in Good PROVE n \in Good
  <2> SUFFICES ASSUME NEW s \in SUBSET T, Cardinality(s) <= n PROVE h[s] = k[s]
    BY <1>0 DEF Upto
  <2>1. CASE s = {}
    BY <1>1, <2>1
  <2>2. CASE s # {}
    <3>1. s \in SUBSET S /\ First(s) \in T /\ s \ {First(s)} \in SUBSET T
      BY <2>2, FirstRemoved
    <3>2. /\ Cardinality(s) \in Nat /\ Cardinality(s \ {First(s)}) \in Nat
          /\ Cardinality(s) = Cardinality(s \ {First(s)}) + 1
      BY <2>2, <3>1, FirstRemoved
    <3>3. Cardinality(s \ {First(s)}) <= n - 1
      <4>1. PICK a, b : a = Cardinality(s) /\ b = Cardinality(s \ {First(s)})
        OBVIOUS
      <4>2. a \in Nat /\ b \in Nat /\ a = b + 1 /\ a <= n
        BY <3>2, <4>1
      <4>3. b <= n - 1
        BY <1>0, <4>2
      <4> QED
        BY <4>1, <4>3
    <3>4. h[s \ {First(s)}] = k[s \ {First(s)}]
      BY <1>3, <3>1, <3>3 DEF Upto
    <3>5. f[First(s)] = e[First(s)]
      BY <3>1
    <3>6. /\ h[s] = f[First(s)] + h[s \ {First(s)}]
          /\ k[s] = e[First(s)] + k[s \ {First(s)}]
      BY <1>1, <2>2, <3>1
    <3> QED
      BY <3>4, <3>5, <3>6
  <2> QED
    BY <2>1, <2>2
<1>4. 0..Cardinality(S) \subseteq Good
  <2> HIDE DEF Good
  <2> QED
    BY <1>0, <1>2, <1>3, Climb
<1> SUFFICES ASSUME NEW s \in SUBSET T PROVE h[s] = k[s]
  OBVIOUS
<1>5. Cardinality(s) \in 0..Cardinality(S)
  <2>1. s \in SUBSET S
    OBVIOUS
  <2>2. IsFiniteSet(s) /\ Cardinality(s) <= Cardinality(S)
    BY <2>1, FS_Subset
  <2> QED
    BY <1>0, <2>2, FS_CardinalityType
<1>6. s \in Upto(T, Cardinality(s))
  <2>1. Cardinality(s) <= Cardinality(s)
    BY <1>5
  <2> QED
    BY <2>1 DEF Upto
<1> QED
  BY <1>4, <1>5, <1>6

LEMMA TotalIsSum ==
    ASSUME NEW S, IsFiniteSet(S), NEW f, \A x \in S : f[x] \in Nat
    PROVE  \E h \in [SUBSET S -> Nat] : SumsOf(f, h, S) /\ Total(f, S) = h[S]
<1> DEFINE e == [x \in S |-> f[x]]
<1>1. e \in [S -> Nat] /\ \A x \in S : f[x] = e[x]
  OBVIOUS
<1> HIDE DEF e
<1>2. PICK k \in [SUBSET S -> Nat] : SumsOf(e, k, S)
  BY <1>1, SumsExist
<1>3. SumsOf(f, k, S)
  <2>1. \A s \in SUBSET S : s # {} => First(s) \in S
    BY DEF First
  <2>2. \A s \in SUBSET S : k[s] = IF s = {} THEN 0 ELSE e[First(s)] + k[s \ {First(s)}]
    BY <1>2 DEF SumsOf
  <2>3. \A s \in SUBSET S : k[s] = IF s = {} THEN 0 ELSE f[First(s)] + k[s \ {First(s)}]
    <3> SUFFICES ASSUME NEW s \in SUBSET S
                 PROVE  k[s] = IF s = {} THEN 0 ELSE f[First(s)] + k[s \ {First(s)}]
      OBVIOUS
    <3>1. k[s] = IF s = {} THEN 0 ELSE e[First(s)] + k[s \ {First(s)}]
      BY <2>2
    <3>2. s # {} => e[First(s)] = f[First(s)]
      BY <1>1, <2>1
    <3> QED
      BY <3>1, <3>2, Zenon
  <2> QED
    BY <2>3 DEF SumsOf
<1>4. PICK h : SumsOf(f, h, S) /\ Total(f, S) = h[S]
  BY <1>3, Zenon DEF Total, MapThenSumSet, MapThenFoldSet, SumsOf, First
<1>5. \A s \in SUBSET S : h[s] = k[s]
  BY <1>3, <1>4, SumsAgree
<1>6. Total(f, S) = k[S]
  BY <1>4, <1>5
<1> QED
  BY <1>3, <1>6

\* A total depends on the values it adds only.
LEMMA TotalEqual ==
    ASSUME NEW S, IsFiniteSet(S), NEW f, NEW e, \A x \in S : f[x] \in Nat /\ e[x] = f[x]
    PROVE  Total(e, S) = Total(f, S)
<1>1. PICK h : SumsOf(f, h, S) /\ Total(f, S) = h[S]
  BY TotalIsSum
<1>2. PICK k : SumsOf(e, k, S) /\ Total(e, S) = k[S]
  BY TotalIsSum
<1>3. S \in SUBSET S /\ \A x \in S : f[x] = e[x]
  OBVIOUS
<1>4. \A s \in SUBSET S : h[s] = k[s]
  BY <1>1, <1>2, <1>3, SumsAgree
<1> QED
  BY <1>1, <1>2, <1>3, <1>4

LEMMA TotalFirst ==
    ASSUME NEW S, IsFiniteSet(S), NEW f, \A x \in S : f[x] \in Nat
    PROVE  /\ Total(f, S) \in Nat
           /\ S = {} => Total(f, S) = 0
           /\ S # {} => Total(f, S) = f[First(S)] + Total(f, S \ {First(S)})
<1>1. PICK h \in [SUBSET S -> Nat] : SumsOf(f, h, S) /\ Total(f, S) = h[S]
  BY TotalIsSum
<1>2. S \in SUBSET S
  OBVIOUS
<1>3. h[S] = IF S = {} THEN 0 ELSE f[First(S)] + h[S \ {First(S)}]
  BY <1>1, <1>2 DEF SumsOf
<1>4. ASSUME S # {} PROVE h[S \ {First(S)}] = Total(f, S \ {First(S)})
  <2> DEFINE R == S \ {First(S)}
  <2>1. IsFiniteSet(R) /\ R \in SUBSET S /\ \A x \in R : f[x] \in Nat
    BY FS_Subset
  <2> HIDE DEF R
  <2>2. PICK k : SumsOf(f, k, R) /\ Total(f, R) = k[R]
    BY <2>1, TotalIsSum
  <2>3. \A s \in SUBSET R : h[s] = k[s]
    BY <1>1, <2>1, <2>2, SumsAgree
  <2> QED
    BY <2>2, <2>3 DEF R
<1> QED
  BY <1>1, <1>2, <1>3, <1>4

\* Whichever element is taken out first, the total is the same.
LEMMA TotalAny ==
    ASSUME NEW S, IsFiniteSet(S), NEW f, \A x \in S : f[x] \in Nat, NEW y \in S
    PROVE  Total(f, S) = f[y] + Total(f, S \ {y})
<1> DEFINE N == Cardinality(S)
           Good == {n \in 0..N : \A s \in Upto(S, n) : \A x \in s :
                       Total(f, s) = f[x] + Total(f, s \ {x})}
<1>0. N \in Nat
  BY FS_CardinalityType
<1>1. 0 \in Good
  <2>1. \A s \in Upto(S, 0) : s = {}
    BY UptoNone
  <2> QED
    BY <1>0, <2>1
<1>2. ASSUME NEW n \in 1..N, n - 1 \in Good PROVE n \in Good
  <2> SUFFICES ASSUME NEW s \in SUBSET S, Cardinality(s) <= n, NEW x \in s
               PROVE  Total(f, s) = f[x] + Total(f, s \ {x})
    BY <1>0 DEF Upto
  <2>0. PICK z : z = First(s)
    OBVIOUS
  <2>1. z \in s /\ x \in S /\ z \in S /\ IsFiniteSet(s) /\ Cardinality(s) \in Nat
    BY <2>0, FirstRemoved, FS_Subset
  <2>2. \A u \in s : IsFiniteSet(s \ {u}) /\ s \ {u} \in Upto(S, n - 1)
    <3> TAKE u \in s
    <3>1. Cardinality(s \ {u}) = Cardinality(s) - 1 /\ IsFiniteSet(s \ {u})
      BY <2>1, FS_RemoveElement
    <3>2. \A a \in Nat : a <= n => a - 1 <= n - 1
      OBVIOUS
    <3>3. Cardinality(s \ {u}) <= n - 1
      BY <2>1, <3>1, <3>2
    <3> QED
      BY <3>1, <3>3 DEF Upto
  <2>3. \A u \in s : \A v \in s \ {u} : Total(f, s \ {u}) = f[v] + Total(f, (s \ {u}) \ {v})
    BY <1>2, <2>2
  <2>4. Total(f, s) = f[z] + Total(f, s \ {z})
    BY <2>0, <2>1, TotalFirst
  <2>5. CASE z = x
    BY <2>4, <2>5
  <2>6. CASE z # x
    <3>1. Total(f, s \ {z}) = f[x] + Total(f, (s \ {z}) \ {x})
      BY <2>1, <2>3, <2>6
    <3>2. Total(f, s \ {x}) = f[z] + Total(f, (s \ {x}) \ {z})
      BY <2>1, <2>3, <2>6
    <3>3. (s \ {z}) \ {x} = (s \ {x}) \ {z}
      OBVIOUS
    <3>4. f[x] \in Nat /\ f[z] \in Nat /\ Total(f, (s \ {x}) \ {z}) \in Nat
      <4>1. IsFiniteSet((s \ {x}) \ {z}) /\ \A u \in (s \ {x}) \ {z} : f[u] \in Nat
        BY <2>1, FS_Subset
      <4> QED
        BY <2>1, <4>1, TotalFirst
    <3>5. PICK a, b, c : a = f[x] /\ b = f[z] /\ c = Total(f, (s \ {x}) \ {z})
      OBVIOUS
    <3>6. a \in Nat /\ b \in Nat /\ c \in Nat /\ b + (a + c) = a + (b + c)
      BY <3>4, <3>5
    <3> QED
      BY <2>4, <3>1, <3>2, <3>3, <3>5, <3>6
  <2> QED
    BY <2>5, <2>6
<1>3. N \in Good
  <2> HIDE DEF Good, N
  <2>1. 0..N \subseteq Good
    BY <1>0, <1>1, <1>2, Climb
  <2> QED
    BY <1>0, <2>1
<1>4. S \in Upto(S, N)
  BY <1>0 DEF Upto
<1> QED
  BY <1>3, <1>4

LEMMA TotalDisjoint ==
    ASSUME NEW A, IsFiniteSet(A), NEW B, IsFiniteSet(B), A \cap B = {},
           NEW f, \A x \in A \cup B : f[x] \in Nat
    PROVE  Total(f, A \cup B) = Total(f, A) + Total(f, B)
<1> DEFINE N == Cardinality(A)
           Good == {n \in 0..N : \A s \in Upto(A, n) : Total(f, s \cup B) = Total(f, s) + Total(f, B)}
<1>0. N \in Nat /\ Total(f, B) \in Nat
  BY FS_CardinalityType, TotalFirst
<1>1. 0 \in Good
  <2>1. \A s \in Upto(A, 0) : s = {}
    BY UptoNone
  <2>2. Total(f, {}) = 0
    BY FS_EmptySet, TotalFirst
  <2>3. {} \cup B = B /\ Total(f, B) = 0 + Total(f, B)
    BY <1>0
  <2>4. \A s \in Upto(A, 0) : Total(f, s \cup B) = Total(f, s) + Total(f, B)
    BY <2>1, <2>2, <2>3
  <2>5. 0 \in 0..N
    BY <1>0
  <2> QED
    BY <2>4, <2>5
<1>2. ASSUME NEW n \in 1..N, n - 1 \in Good PROVE n \in Good
  <2> SUFFICES ASSUME NEW s \in SUBSET A, Cardinality(s) <= n
               PROVE  Total(f, s \cup B) = Total(f, s) + Total(f, B)
    BY <1>0 DEF Upto
  <2>1. IsFiniteSet(s) /\ Cardinality(s) \in Nat /\ IsFiniteSet(s \cup B) /\ \A u \in s \cup B : f[u] \in Nat
    BY FS_Subset, FS_Union, FS_CardinalityType
  <2>2. CASE s = {}
    <3>1. s \in Upto(A, n - 1)
      BY <1>0, <2>2, FS_EmptySet DEF Upto
    <3> QED
      BY <1>2, <3>1
  <2>3. CASE s # {}
    <3>1. PICK x : x \in s
      BY <2>3
    <3>2. Cardinality(s \ {x}) = Cardinality(s) - 1 /\ IsFiniteSet(s \ {x})
      BY <2>1, <3>1, FS_RemoveElement
    <3>3. \A a \in Nat : a <= n => a - 1 <= n - 1
      OBVIOUS
    <3>4. s \ {x} \in Upto(A, n - 1)
      <4>1. Cardinality(s \ {x}) <= n - 1
        BY <2>1, <3>2, <3>3
      <4> QED
        BY <4>1 DEF Upto
    <3>5. Total(f, (s \ {x}) \cup B) = Total(f, s \ {x}) + Total(f, B)
      BY <1>2, <3>4
    <3>6. (s \cup B) \ {x} = (s \ {x}) \cup B
      BY <3>1
    <3>7. Total(f, s \cup B) = f[x] + Total(f, (s \cup B) \ {x})
      BY <2>1, <3>1, TotalAny
    <3>8. Total(f, s) = f[x] + Total(f, s \ {x})
      BY <2>1, <3>1, TotalAny
    <3>9. f[x] \in Nat /\ Total(f, s \ {x}) \in Nat
      BY <2>1, <3>1, <3>2, TotalFirst
    <3>10. PICK a, b, c : a = f[x] /\ b = Total(f, s \ {x}) /\ c = Total(f, B)
      OBVIOUS
    <3>11. a \in Nat /\ b \in Nat /\ c \in Nat /\ a + (b + c) = (a + b) + c
      BY <1>0, <3>9, <3>10
    <3> QED
      BY <3>5, <3>6, <3>7, <3>8, <3>10, <3>11
  <2> QED
    BY <2>2, <2>3
<1>3. N \in Good
  <2> HIDE DEF Good, N
  <2>1. 0..N \subseteq Good
    BY <1>0, <1>1, <1>2, Climb
  <2> QED
    BY <1>0, <2>1
<1>4. A \in Upto(A, N)
  BY <1>0 DEF Upto
<1> QED
  BY <1>3, <1>4

\* Adding up the edges of a set adds up the payments along them.
LEMMA EdgesTotal ==
    ASSUME NEW g \in Store, NEW E, E \subseteq Customers \X Merchants, IsFiniteSet(E),
           NEW f, \A e \in E : f[e] = EdgeVolume(g, e[1], e[2], Window)
    PROVE  Total(f, E) = Volume({t \in Recent(g, Window) : <<CustomerOf(t), MerchantOf(t)>> \in E})
<1> DEFINE a == [t \in Txns |-> Details[t].amount]
           R == Recent(g, Window)
           Along(s) == {t \in R : <<CustomerOf(t), MerchantOf(t)>> \in s}
           N == Cardinality(E)
           Good == {n \in 0..N : \A s \in Upto(E, n) : Total(f, s) = Total(a, Along(s))}
<1>0. N \in Nat /\ R \in SUBSET Txns /\ IsFiniteSet(R)
  BY FS_CardinalityType, RecentStored, FS_Subset, DetailsAssumption
<1>1. \A t \in Txns : a[t] \in Nat
  BY DetailsAssumption
<1>2. \A ts : Volume(ts) = Total(a, ts)
  BY DEF Volume
<1>3. \A c, m : EdgeVolume(g, c, m, Window) = Total(a, {t \in R : CustomerOf(t) = c /\ MerchantOf(t) = m})
  BY <1>2 DEF EdgeVolume
<1> HIDE DEF a, R
<1>4. \A s : IsFiniteSet(Along(s)) /\ \A t \in Along(s) : a[t] \in Nat
  <2> TAKE s
  <2>1. Along(s) \in SUBSET R
    OBVIOUS
  <2> HIDE DEF Along
  <2> QED
    BY <1>0, <1>1, <2>1, FS_Subset
<1>5. \A e \in E : f[e] = Total(a, Along({e})) /\ f[e] \in Nat
  <2> TAKE e \in E
  <2>1. e = <<e[1], e[2]>>
    OBVIOUS
  <2>2. \A t \in R : (CustomerOf(t) = e[1] /\ MerchantOf(t) = e[2]) <=> <<CustomerOf(t), MerchantOf(t)>> \in {e}
    BY <2>1
  <2>3. Along({e}) = {t \in R : CustomerOf(t) = e[1] /\ MerchantOf(t) = e[2]}
    BY <2>2
  <2> HIDE DEF Along
  <2>4. f[e] = Total(a, Along({e}))
    BY <1>3, <2>3
  <2> QED
    BY <1>4, <2>4, TotalFirst
<1>6. 0 \in Good
  <2>1. \A s \in Upto(E, 0) : s = {}
    BY UptoNone
  <2>2. Total(f, {}) = 0 /\ Total(a, {}) = 0
    BY FS_EmptySet, TotalFirst
  <2>3. Along({}) = {}
    OBVIOUS
  <2>4. \A s \in Upto(E, 0) : Total(f, s) = Total(a, Along(s))
    BY <2>1, <2>2, <2>3
  <2>5. 0 \in 0..N
    BY <1>0
  <2> QED
    BY <2>4, <2>5
<1>7. ASSUME NEW n \in 1..N, n - 1 \in Good PROVE n \in Good
  <2> SUFFICES ASSUME NEW s \in SUBSET E, Cardinality(s) <= n PROVE Total(f, s) = Total(a, Along(s))
    BY <1>0 DEF Upto
  <2>1. IsFiniteSet(s) /\ Cardinality(s) \in Nat /\ \A e \in s : f[e] \in Nat
    BY <1>5, FS_Subset, FS_CardinalityType
  <2>2. CASE s = {}
    <3>1. s \in Upto(E, n - 1)
      BY <1>0, <2>2, FS_EmptySet DEF Upto
    <3> QED
      BY <1>7, <3>1
  <2>3. CASE s # {}
    <3>1. PICK e : e \in s
      BY <2>3
    <3>2. Cardinality(s \ {e}) = Cardinality(s) - 1 /\ IsFiniteSet(s \ {e})
      BY <2>1, <3>1, FS_RemoveElement
    <3>3. \A k \in Nat : k <= n => k - 1 <= n - 1
      OBVIOUS
    <3>4. s \ {e} \in Upto(E, n - 1)
      <4>1. Cardinality(s \ {e}) <= n - 1
        BY <2>1, <3>2, <3>3
      <4> QED
        BY <4>1 DEF Upto
    <3>5. Total(f, s) = f[e] + Total(f, s \ {e})
      BY <2>1, <3>1, TotalAny
    <3>6. Total(f, s \ {e}) = Total(a, Along(s \ {e}))
      BY <1>7, <3>4
    <3>7. Along(s) = Along({e}) \cup Along(s \ {e}) /\ Along({e}) \cap Along(s \ {e}) = {}
      BY <3>1
    <3> HIDE DEF Along
    <3>8. Total(a, Along({e}) \cup Along(s \ {e})) = Total(a, Along({e})) + Total(a, Along(s \ {e}))
      BY <1>4, <3>7, TotalDisjoint
    <3> QED
      BY <1>5, <3>1, <3>5, <3>6, <3>7, <3>8
  <2> QED
    BY <2>2, <2>3
<1>8. N \in Good
  <2> HIDE DEF Good, N
  <2>1. 0..N \subseteq Good
    BY <1>0, <1>6, <1>7, Climb
  <2> QED
    BY <1>0, <2>1
<1>9. E \in Upto(E, N)
  BY <1>0 DEF Upto
<1>10. Total(f, E) = Total(a, Along(E))
  BY <1>8, <1>9
<1> QED
  BY <1>2, <1>10 DEF R

RingAdds(g, c) ==
    LET ring == Community(g, c, Window) IN
    /\ ring.volume = Volume({t \in Recent(g, Window) : CustomerOf(t) \in ring.members})
    /\ ring.flagged \subseteq ring.members
    /\ ring.pattern = "isolated" <=> Peers(g, c, Window) = {}

LEMMA RingAddsUp ==
    ASSUME NEW g \in Store, NEW c \in Customers, Size <= MaxNodes
    PROVE  RingAdds(g, c)
<1> DEFINE members == CommunityMembers(g, c, Window)
           lists == {{d} \X ScopedMerchants(g, d, Window) : d \in members}
           edges == UNION lists
           ms == UNION {ScopedMerchants(g, d, Window) : d \in members}
           f == [e \in edges |-> EdgeVolume(g, e[1], e[2], Window)]
           size == Cardinality(members)
           ring == Community(g, c, Window)
<1>1. /\ ring.members = members /\ ring.flagged = Flagged(g, members)
      /\ ring.volume = Total(f, edges)
      /\ ring.pattern = Pattern(size, Cardinality(Flagged(g, members)), Cardinality(ms))
  BY DEF Community
<1>2. /\ members \subseteq Customers /\ IsFiniteSet(members) /\ c \in members /\ Closed(g, Window, members)
      /\ \A T \in SUBSET Customers : c \in T /\ Closed(g, Window, T) => members \subseteq T
  BY RingIsSmallest
<1> HIDE DEF members, ring
<1>3. \A e \in edges : f[e] = EdgeVolume(g, e[1], e[2], Window)
  OBVIOUS
<1>4. edges \in SUBSET (Customers \X Merchants) /\ IsFiniteSet(edges)
  <2>1. edges \in SUBSET (Customers \X Merchants)
    BY <1>2, ScopedTypes
  <2> HIDE DEF edges
  <2> QED
    BY <2>1, NodesFinite, FS_Product, FS_Subset
<1>5. \A t \in Recent(g, Window) : <<CustomerOf(t), MerchantOf(t)>> \in edges <=> CustomerOf(t) \in members
  <2> TAKE t \in Recent(g, Window)
  <2>1. MerchantOf(t) \in ScopedMerchants(g, CustomerOf(t), Window)
    BY DetailsAssumption, JobsAssumption DEF ScopedMerchants
  <2>2. CustomerOf(t) \in members => <<CustomerOf(t), MerchantOf(t)>> \in edges
    BY <2>1
  <2>3. \A e \in edges : e[1] \in members
    OBVIOUS
  <2>4. <<CustomerOf(t), MerchantOf(t)>> \in edges => CustomerOf(t) \in members
    BY <2>3
  <2> QED
    BY <2>2, <2>4
<1> HIDE DEF f, edges
<1>6. ring.volume = Volume({t \in Recent(g, Window) : CustomerOf(t) \in ring.members})
  <2>1. Total(f, edges) = Volume({t \in Recent(g, Window) : <<CustomerOf(t), MerchantOf(t)>> \in edges})
    BY <1>3, <1>4, EdgesTotal
  <2>2. {t \in Recent(g, Window) : <<CustomerOf(t), MerchantOf(t)>> \in edges}
            = {t \in Recent(g, Window) : CustomerOf(t) \in ring.members}
    BY <1>1, <1>5
  <2> QED
    BY <1>1, <2>1, <2>2
<1>7. ring.flagged \subseteq ring.members
  BY <1>1 DEF Flagged
<1>8. ring.pattern = "isolated" <=> size <= 1
  <2>1. PICK f1 : f1 = Cardinality(Flagged(g, members))
    OBVIOUS
  <2>2. PICK m1 : m1 = Cardinality(ms)
    OBVIOUS
  <2>3. PICK n1 : n1 = size
    OBVIOUS
  <2>4. ring.pattern = Pattern(n1, f1, m1)
    BY <1>1, <2>1, <2>2, <2>3
  <2>5. n1 \in Nat /\ f1 \in Nat
    <3>1. Flagged(g, members) \subseteq members
      BY DEF Flagged
    <3> QED
      BY <1>2, <2>1, <2>3, <3>1, FS_CardinalityType, FS_Subset
  <2>6. Pattern(n1, f1, m1) = "isolated" <=> n1 <= 1
    <3>1. CASE n1 <= 1
      BY <2>5, <3>1 DEF Pattern
    <3>2. CASE ~ (n1 <= 1)
      BY <2>5, <3>2 DEF Pattern
    <3> QED
      BY <3>1, <3>2
  <2> QED
    BY <2>3, <2>4, <2>6
<1>9. size <= 1 <=> Peers(g, c, Window) = {}
  <2>1. size \in Nat
    BY <1>2, FS_CardinalityType
  <2>2. ASSUME Peers(g, c, Window) = {} PROVE size <= 1
    <3>1. {c} \in SUBSET Customers /\ Closed(g, Window, {c})
      BY <2>2 DEF Closed
    <3>2. members \in SUBSET {c}
      BY <1>2, <3>1
    <3>3. IsFiniteSet({c}) /\ Cardinality({c}) = 1
      BY FS_Singleton
    <3> QED
      BY <3>2, <3>3, FS_Subset
  <2>3. ASSUME Peers(g, c, Window) # {} PROVE ~ (size <= 1)
    <3>1. PICK d : d \in Peers(g, c, Window)
      BY <2>3
    <3>2. d # c /\ d \in members
      BY <1>2, <3>1, PeersTypes DEF Closed
    <3>3. IsFiniteSet(members \ {d}) /\ Cardinality(members \ {d}) = size - 1
      BY <1>2, <3>2, FS_RemoveElement
    <3>4. Cardinality(members \ {d}) # 0
      BY <1>2, <3>2, <3>3, FS_EmptySet
    <3>5. Cardinality(members \ {d}) \in Nat
      BY <3>3, FS_CardinalityType
    <3> HIDE DEF size
    <3> QED
      BY <2>1, <3>3, <3>4, <3>5
  <2> QED
    BY <2>2, <2>3
<1> QED
  BY <1>6, <1>7, <1>8, <1>9 DEF RingAdds, ring

\* A reply agrees with itself and with the graph: of a graph whose rings the
\* walk never cuts, every reading holds whatever was observed meanwhile.
THEOREM AnswersCorrect ==
    ASSUME Cardinality(Customers) <= MaxNodes
    PROVE  Spec => []AnswersHold
<1>1. IInv => RingTotals
  <2> SUFFICES ASSUME IInv, NEW w \in Workers, pc[w] = "community"
               PROVE  RingAdds(stores[held[w]], Customer(w))
    BY DEF RingTotals, OnReading, RingAdds
  <2>0. PICK g, c : g = stores[held[w]] /\ c = Customer(w)
    OBVIOUS
  <2>1. g \in Store /\ c \in Customers
    BY <2>0, ReadingAt
  <2> QED
    BY <2>0, <2>1, RingAddsUp DEF Size
<1>2. Spec => []RingTotals
  BY <1>1, Invariance, PTL
<1>3. Spec => []AxisConsistent
  BY AxisCorrect
<1>4. Spec => []RingsAgree
  BY RingsCorrect
<1>5. Spec => []PayloadClosed
  BY PayloadsCorrect
<1>6. AxisConsistent /\ RingsAgree /\ RingTotals /\ PayloadClosed => AnswersHold
  BY DEF AnswersHold
<1> QED
  BY <1>2, <1>3, <1>4, <1>5, <1>6, PTL

=============================================================================
