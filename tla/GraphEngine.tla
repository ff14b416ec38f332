------------------------------ MODULE GraphEngine ------------------------------
(***************************************************************************)
(* services/graph_engine: the process-wide store of GraphStore, created    *)
(* and seeded by the first requests, observed into by every scored         *)
(* transaction and read by scores and dashboards, on a pool of threads     *)
(* without a lock.                                                         *)
(*                                                                         *)
(* An observation is one step per dictionary.  A reading (the score, the   *)
(* findings, the features) sees the store at one instant; it raises when   *)
(* another thread inserts a transaction while it walks the dictionary.     *)
(***************************************************************************)
EXTENDS GraphStore, Sequences

CONSTANTS
    Workers,    \* threads of the server's pool
    Stores,     \* GraphStore objects that may be created
    Rows,       \* the seed file: rows that are good, or bad in time or account
    Jobs,       \* requests: what is observed, or the customer to look up
    Window,     \* NETWORK_WINDOW_DAYS
    Limits,     \* node limits of the dashboards' payloads
    Nothing     \* no store, no request, no answer

ASSUME RowsAssumption ==
    Rows \in Seq([kind : {"good", "badTime", "badAccount"}, txn : Txns, flagged : BOOLEAN])

Reply == [score : 0..FullScore, findings : SUBSET {"flagged", "shared", "near", "clusterFlagged"},
          available : BOOLEAN]
Job == [kind : {"observe", "score", "ego", "community"}, txn : Txns, flagged : BOOLEAN]

ASSUME JobsAssumption == Jobs \subseteq Job /\ Window \in Int /\ Limits \subseteq Nat

ASSUME WorkersAssumption == IsFiniteSet(Workers) /\ Nothing \notin Stores \cup Job \cup Reply

VARIABLES
    current,    \* the module's _store
    created,    \* stores that exist
    stores,     \* the contents of each
    pc,         \* pc[w]: the next step of worker w
    job,        \* job[w]: its request
    held,       \* held[w]: the store it works on
    row,        \* row[w]: the row of the seed file it observes, 0 for none
    count,      \* count[w]: the flag count it read
    answer,     \* answer[w]: score, findings and availability, or the outcome
    kept,       \* history: transactions whose recording was confirmed
    raised,     \* history: raised[s][c], flagged observations of c begun on s
    quiet       \* history: quiet[w], nothing was inserted since w began reading

work == <<pc, job, held, row, count, answer>>
history == <<kept, raised, quiet>>
vars == <<current, created, stores, work, history>>

Writing == {"insert", "byCustomer", "byMerchant", "event", "flag", "flagging"}
Reading == {"score", "findings", "features"}

TypeOK ==
    /\ current \in Stores \cup {Nothing}
    /\ created \subseteq Stores
    /\ stores \in [Stores -> Store]
    /\ pc \in [Workers -> {"idle", "get", "publish", "seed", "rows", "test"} \cup Writing \cup Reading
                          \cup {"community"}]
    /\ job \in [Workers -> Jobs \cup {Nothing}]
    /\ held \in [Workers -> Stores \cup {Nothing}]
    /\ row \in [Workers -> 0..Len(Rows) + 1]
    /\ count \in [Workers -> Nat]
    /\ answer \in [Workers -> Reply \cup {Nothing}]
    /\ kept \subseteq Txns
    /\ raised \in [Stores -> [Customers -> Nat]]
    /\ quiet \in [Workers -> BOOLEAN]

Unread == [score |-> 0, findings |-> {}, available |-> FALSE]

Init ==
    /\ current = Nothing
    /\ created = {}
    /\ stores = [s \in Stores |-> EmptyStore]
    /\ pc = [w \in Workers |-> "idle"]
    /\ job = [w \in Workers |-> Nothing]
    /\ held = [w \in Workers |-> Nothing]
    /\ row = [w \in Workers |-> 0]
    /\ count = [w \in Workers |-> 0]
    /\ answer = [w \in Workers |-> Nothing]
    /\ kept = {}
    /\ raised = [s \in Stores |-> [c \in Customers |-> 0]]
    /\ quiet = [w \in Workers |-> TRUE]

-----------------------------------------------------------------------------
(* Requests and get_store.                                                 *)
Goto(w, step) == pc' = [pc EXCEPT ![w] = step]

(* What a thread forgets when its request has been answered.               *)
Done(w) ==
    /\ Goto(w, "idle")
    /\ job' = [job EXCEPT ![w] = Nothing]
    /\ held' = [held EXCEPT ![w] = Nothing]

Receive(w, j) ==
    /\ pc[w] = "idle"
    /\ Goto(w, "get")
    /\ job' = [job EXCEPT ![w] = j]
    /\ answer' = [answer EXCEPT ![w] = Nothing]
    /\ quiet' = [quiet EXCEPT ![w] = TRUE]
    /\ UNCHANGED <<current, created, stores, held, row, count, kept, raised>>

(* The stage that follows get_store: a score calls it twice, to observe    *)
(* and to read, and is at the second call once it has an answer to fill.   *)
Stage(w) ==
    CASE job[w].kind \in {"observe", "score"} /\ answer[w] = Nothing -> "test"
      [] job[w].kind = "community"                                    -> "community"
      [] OTHER                                                        -> "score"

Return(w) ==
    /\ held' = [held EXCEPT ![w] = current]
    /\ row' = [row EXCEPT ![w] = 0]
    /\ Goto(w, Stage(w))
    /\ UNCHANGED <<current, created, stores, count, job, answer, history>>

Get(w) ==
    /\ pc[w] = "get"
    /\ current # Nothing
    /\ Return(w)

GetNone(w) ==
    /\ pc[w] = "get"
    /\ current = Nothing
    /\ Goto(w, "publish")
    /\ UNCHANGED <<current, created, stores, count, job, held, row, answer, history>>

(* The new store is published before it is seeded.                         *)
Publish(w, s) ==
    /\ pc[w] = "publish"
    /\ s \notin created
    /\ current' = s
    /\ created' = created \cup {s}
    /\ Goto(w, "seed")
    /\ UNCHANGED <<stores, job, held, row, count, answer, history>>

Seed(w) ==
    /\ pc[w] = "seed"
    /\ held' = [held EXCEPT ![w] = current]
    /\ row' = [row EXCEPT ![w] = 1]
    /\ Goto(w, "rows")
    /\ UNCHANGED <<current, created, stores, count, job, answer, history>>

(* Variant: a bad time ends the seed as a bad account number does. *)
NextRowStrict(n) == IF Rows[n].kind = "good" THEN n ELSE Len(Rows) + 1

NextRowOf(n) ==
    CASE Rows[n].kind = "good"       -> n
      [] Rows[n].kind = "badTime"    -> n + 1
      [] Rows[n].kind = "badAccount" -> Len(Rows) + 1

(* Rows with a bad time are skipped; one with a bad account number raises, *)
(* which get_store suppresses: the seed ends there.                        *)
NextRow(w) ==
    /\ pc[w] = "rows"
    /\ row[w] <= Len(Rows)
    /\ row' = [row EXCEPT ![w] = NextRowOf(row[w])]
    /\ Goto(w, IF Rows[row[w]].kind = "good" THEN "test" ELSE "rows")
    /\ UNCHANGED <<current, created, stores, count, job, held, answer, history>>

SeedDone(w) ==
    /\ pc[w] = "rows"
    /\ row[w] > Len(Rows)
    /\ Return(w)

-----------------------------------------------------------------------------
(* observe, on the transaction of the request or of the row.               *)
Observed(w) ==
    IF row[w] = 0 THEN [txn |-> job[w].txn, flagged |-> job[w].flagged]
    ELSE [txn |-> Rows[row[w]].txn, flagged |-> Rows[row[w]].flagged]

(* Recorded, or skipped as a duplicate: on to the next row, to the reading *)
(* of a score, or to the answer of an observation.                         *)
Finish(w) ==
    CASE row[w] > 0 ->
            /\ row' = [row EXCEPT ![w] = @ + 1]
            /\ Goto(w, "rows")
            /\ UNCHANGED <<job, held, answer, kept>>
      [] row[w] = 0 /\ job[w].kind = "score" ->
            /\ answer' = [answer EXCEPT ![w] = Unread]
            /\ kept' = kept \cup {job[w].txn}
            /\ Goto(w, "get")
            /\ UNCHANGED <<job, held, row>>
      [] OTHER ->
            /\ kept' = kept \cup {job[w].txn}
            /\ Done(w)
            /\ UNCHANGED <<row, answer>>

SkipDuplicate(w) ==
    /\ pc[w] = "test"
    /\ Observed(w).txn \in stores[held[w]].txns
    /\ Finish(w)
    /\ UNCHANGED <<current, created, stores, count, raised, quiet>>

TestNew(w) ==
    /\ pc[w] = "test"
    /\ Observed(w).txn \notin stores[held[w]].txns
    /\ Goto(w, "insert")
    /\ UNCHANGED <<current, created, stores, count, job, held, row, answer, history>>

Write(w, from, contents) ==
    /\ pc[w] = from
    /\ stores' = [stores EXCEPT ![held[w]] = contents]
    /\ UNCHANGED <<current, created>>

Insert(w) ==
    /\ Write(w, "insert", AddTxn(stores[held[w]], Observed(w).txn))
    /\ Goto(w, "byCustomer")
    /\ quiet' = [v \in Workers |-> quiet[v] /\ ~ (pc[v] \in Reading /\ held[v] = held[w])]
    /\ UNCHANGED <<job, held, row, count, answer, kept, raised>>

IndexCustomer(w) ==
    /\ Write(w, "byCustomer", AddMerchant(stores[held[w]], Observed(w).txn))
    /\ Goto(w, "byMerchant")
    /\ UNCHANGED <<job, held, row, count, answer, history>>

IndexMerchant(w) ==
    /\ Write(w, "byMerchant", AddCustomer(stores[held[w]], Observed(w).txn))
    /\ Goto(w, "event")
    /\ UNCHANGED <<job, held, row, count, answer, history>>

AppendEvent(w) ==
    /\ Write(w, "event", AddEvent(stores[held[w]], Observed(w).txn))
    /\ IF Observed(w).flagged
       THEN /\ Goto(w, "flag")
            /\ raised' = [raised EXCEPT ![held[w]][CustomerOf(Observed(w).txn)] = @ + 1]
            /\ UNCHANGED <<job, held, row, answer, kept>>
       ELSE Finish(w) /\ UNCHANGED raised
    /\ UNCHANGED <<count, quiet>>

(* _flagged_count[c] += 1 is a read and a store.                           *)
ReadFlags(w) ==
    /\ pc[w] = "flag"
    /\ count' = [count EXCEPT ![w] = stores[held[w]].flags[CustomerOf(Observed(w).txn)]]
    /\ Goto(w, "flagging")
    /\ UNCHANGED <<current, created, stores, job, held, row, answer, history>>

(* Variant: the count is set back instead of raised. *)
ResetFlags(w) ==
    /\ Write(w, "flagging", SetFlags(stores[held[w]], Observed(w).txn, 0))
    /\ count' = [count EXCEPT ![w] = 0]
    /\ Finish(w)
    /\ UNCHANGED <<raised, quiet>>

StoreFlags(w) ==
    /\ Write(w, "flagging", SetFlags(stores[held[w]], Observed(w).txn, count[w] + 1))
    /\ count' = [count EXCEPT ![w] = 0]
    /\ Finish(w)
    /\ UNCHANGED <<raised, quiet>>

-----------------------------------------------------------------------------
(* network_context and community: readings of the store.                   *)
Customer(w) == CustomerOf(job[w].txn)
Seen(w) == Features(stores[held[w]], Customer(w), Window)

Read(w, from, result) ==
    /\ pc[w] = from
    /\ Readable(stores[held[w]], Window)
    /\ answer' = [answer EXCEPT ![w] = result]
    /\ UNCHANGED <<current, created, stores, row, count, history>>

Continue(w, to) == Goto(w, to) /\ UNCHANGED <<job, held>>

ReadScore(w) ==
    /\ Read(w, "score", [Unread EXCEPT !.score = ScoreOf(Seen(w))])
    /\ Continue(w, "findings")

ReadFindings(w) ==
    /\ Read(w, "findings", [answer[w] EXCEPT !.findings = Findings(Seen(w))])
    /\ Continue(w, "features")

ReadFeatures(w) == Read(w, "features", [answer[w] EXCEPT !.available = Seen(w).shared > 0]) /\ Done(w)

ReadCommunity(w) == Read(w, "community", Nothing) /\ Done(w)

(* A reading raises on a store it cannot order, or when a thread inserts   *)
(* while it walks; the request is answered with an error.                  *)
Raise(w) ==
    /\ pc[w] \in Reading \cup {"community"}
    /\ \/ ~ Readable(stores[held[w]], Window)
       \/ \E v \in Workers : pc[v] = "insert" /\ held[v] = held[w]
    /\ answer' = [answer EXCEPT ![w] = Nothing]
    /\ Done(w)
    /\ UNCHANGED <<current, created, stores, row, count, history>>

Observe(w) ==
    \/ SkipDuplicate(w) \/ TestNew(w) \/ Insert(w) \/ IndexCustomer(w) \/ IndexMerchant(w)
    \/ AppendEvent(w) \/ ReadFlags(w) \/ StoreFlags(w)

GetStore(w) ==
    \/ Get(w) \/ GetNone(w)
    \/ \E s \in Stores : Publish(w, s)
    \/ Seed(w) \/ NextRow(w) \/ SeedDone(w)

Answer(w) ==
    \/ ReadScore(w) \/ ReadFindings(w) \/ ReadFeatures(w) \/ ReadCommunity(w) \/ Raise(w)

Next ==
    \/ \E w \in Workers, j \in Jobs : Receive(w, j)
    \/ \E w \in Workers : GetStore(w) \/ Observe(w) \/ Answer(w)

Spec == Init /\ [][Next]_vars

-----------------------------------------------------------------------------
Idle(s) == \A w \in Workers : pc[w] \in Writing => held[w] # s
Creating == \E w \in Workers : pc[w] \in {"publish", "seed", "rows"} \/ row[w] > 0

(* The four indexes tell one story: an edge or event comes from a stored   *)
(* transaction, and once nobody writes, every stored transaction has both  *)
(* edges and an event, however observations of one id raced (observe).     *)
IndexesAgree ==
    \A s \in Stores :
        LET g == stores[s]
            edges == {<<CustomerOf(t), MerchantOf(t)>> : t \in g.txns}
            turned == {<<p[2], p[1]>> : p \in g.byMerchant}
        IN  /\ g.byCustomer \cup turned \subseteq edges
            /\ {t \in Txns : g.events[t] > 0} \subseteq g.txns
            /\ Idle(s) => /\ g.byCustomer = edges /\ turned = edges
                          /\ \A t \in g.txns : g.events[t] > 0

(* Raced increments may be lost but flags are neither invented nor         *)
(* dropped: a customer is flagged once a flagged observation that was not  *)
(* a duplicate has ended, and only then (observe, is_flagged).             *)
FlagsEarned ==
    \A s \in Stores, c \in Customers :
        /\ stores[s].flags[c] <= raised[s][c]
        /\ Idle(s) /\ raised[s][c] > 0 => IsFlagged(stores[s], c)

(* Two first requests may build two stores, but the one that stays gets    *)
(* the whole seed up to a bad account number, and an observation confirmed *)
(* to a client is lost only with a store that was replaced (get_store).    *)
SeedComplete ==
    /\ current # Nothing /\ ~ Creating =>
          {Rows[i].txn : i \in {j \in DOMAIN Rows :
              Rows[j].kind = "good" /\ \A k \in 1..j : Rows[k].kind # "badAccount"}}
              \subseteq stores[current].txns
    /\ \A t \in kept : \E s \in created : t \in stores[s].txns /\ (Cardinality(created) = 1 => s = current)

(* When no transaction arrives while a score is read, its parts agree: the *)
(* axis is available exactly when the score is not zero and the shared     *)
(* counterparties are among its findings (network_context).                *)
AxisConsistent ==
    \A w \in Workers :
        pc[w] = "idle" /\ answer[w] # Nothing /\ quiet[w] =>
              /\ answer[w].available <=> answer[w].score > 0
              /\ answer[w].available <=> "shared" \in answer[w].findings

(* What a worker is about to read, for the customer it was asked about.    *)
OnReading(P(_, _)) ==
    \A w \in Workers :
        pc[w] = "community" /\ Readable(stores[held[w]], Window) => P(stores[held[w]], Customer(w))

(* The ring of a customer is the same whichever member asks for it, leaves *)
(* nobody out who shares a merchant with a member, and is the smallest     *)
(* such set ("the connected component", _community_members); the features  *)
(* count it and the flagged customers in it.                               *)
RingsAgree ==
    OnReading(LAMBDA g, c :
        LET ring == CommunityMembers(g, c, Window)
            f == Features(g, c, Window)
            peers == [d \in ring |-> Peers(g, d, Window)]
        IN  /\ \A d \in ring \ {c} : CommunityMembers(g, d, Window) = ring
            /\ \A d \in ring : peers[d] \subseteq ring
            /\ \A part \in (SUBSET ring) \ {{}, ring} : \E d \in part : ~ (peers[d] \subseteq part)
            /\ f.degree > 0 => /\ f.cluster = Cardinality(ring) /\ f.shared < f.cluster
                               /\ f.flagged <= f.clusterFlagged)

(* The totals of a ring count every recent payment of a member once, and a *)
(* ring is isolated exactly when nobody shares a merchant (community).     *)
RingTotals ==
    OnReading(LAMBDA g, c :
        LET ring == Community(g, c, Window) IN
        /\ ring.volume = Volume({t \in Recent(g, Window) : CustomerOf(t) \in ring.members})
        /\ ring.flagged \subseteq ring.members
        /\ ring.pattern = "isolated" <=> Peers(g, c, Window) = {})

(* A dashboard payload draws no edge to a node it leaves out, connects     *)
(* every customer it draws, and exceeds its limit only by the customer's   *)
(* own merchants (ego_graph, community_graph).                             *)
PayloadClosed ==
    OnReading(LAMBDA g, c : \A limit \in Limits :
        LET ego == EgoGraph(g, c, Window, limit)
            ring == CommunityGraph(g, c, Window, limit)
        IN  /\ \A p \in {ego, ring} :
                  /\ p.links \subseteq p.customers \X p.merchants
                  /\ \A m \in p.merchants : \E d \in p.customers : <<d, m>> \in p.links
            /\ \A d \in ego.customers \ {c} : \E m \in ego.merchants : <<d, m>> \in ego.links
            /\ Cardinality(ego.customers) + Cardinality(ego.merchants)
                  <= Max({limit, Cardinality(ego.merchants) + 1})
            /\ Cardinality(ring.customers) <= limit)

(* Between requests the store in use is whole: its indexes list the same   *)
(* payments, and the whole readable seed is among them.                    *)
StoreWhole == TypeOK /\ IndexesAgree /\ SeedComplete

(* A reply agrees with itself and with the graph it was read from.         *)
AnswersHold == AxisConsistent /\ RingsAgree /\ RingTotals /\ PayloadClosed
=============================================================================
