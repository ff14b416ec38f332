----------------------------- MODULE AnalystDesk -----------------------------
(***************************************************************************)
(* The analyst console's backend for one customer: scoring a transaction   *)
(* through the pipeline and retaining the result, explaining it, and       *)
(* recording the analysts' verdicts, which are forwarded to the feedback   *)
(* log and to the model monitor's labels.  Requests are served by a thread *)
(* pool over plain dictionaries and lists: each access, and each call to   *)
(* another service, is a step, and the steps of two workers interleave.    *)
(* A request answered from what it reads first is a stuttering step.       *)
(***************************************************************************)
EXTENDS Naturals, Sequences, FiniteSets

CONSTANTS
    Servers,        \* threads of the pool, each serving one request at a time
    Transactions,   \* the customer's transaction identifiers
    MaxVerdicts,    \* bound: how many verdicts the analysts submit
    NoEntry         \* what a dictionary gives for an absent key

ASSUME ServersFinite == IsFiniteSet(Servers)
ASSUME MaxVerdictsIsCount == MaxVerdicts \in Nat

VARIABLES
    scored,     \* _scored[t]: the decision retained for t, and whether verdicts
                \* heightened it, or NoEntry
    explained,  \* the transactions in _scored_explain
    lookup,     \* the customer's entry in _lookup_by_customer, or NoEntry
    rows,       \* rows[t][d]: the history rows of t with decision d
    alerts,     \* alerts[t]: how often t stands in the alert queue
    observed,   \* what the graph engine was told: [tx, flagged]
    verdicts,   \* the local feedback list: [tx, label]
    log,        \* the feedback loop's records: [id, key], key = [tx, label],
                \* and, for the history, by: the worker that appended it
    filed,      \* the keys the feedback loop has indexed
    monitor,    \* monitor[t]: the label the model monitor holds, or NoEntry
    point,      \* point[w]: the next access or call of the request w serves
    task,       \* task[w]: what the request w serves knows so far
    scorers,    \* history: scorers[t] is who added a history row for t
    judges,     \* history: judges[t] is who submitted a verdict on t
    dropped     \* history: the transactions whose latest label was not delivered

desk == <<scored, explained, lookup, rows, alerts, observed>>
feedback == <<verdicts, log, filed, monitor>>
deskVars == <<desk, feedback, point, task, scorers, judges, dropped>>

Decision == {"PASS", "HOLD"}        \* HOLD stands for BLOCK and both REVIEWs
Score == [decision : Decision, heightened : BOOLEAN]
Label == {"FRAUD", "LEGITIMATE"}
Key == [tx : Transactions, label : Label]

ASSUME NoEntryIsAbsence == NoEntry \notin Transactions \cup Label \cup Score

NoTask == [op |-> "none"]
ScoreJob == [op : {"score", "explain"}, tx : Transactions,
             heightened : BOOLEAN, flagged : BOOLEAN, decision : Decision]
VerdictJob == [op : {"verdict"}, key : Key, id : Nat]

Scoring == {"labels", "flag", "row", "observe", "retain", "lookup", "alert"}
Explaining == {"investigate"}
Judging == {"check", "count", "append", "index", "monitor"}

DeskInit ==
    /\ scored = [t \in Transactions |-> NoEntry]
    /\ explained = {}
    /\ lookup = NoEntry
    /\ rows = [t \in Transactions |-> [d \in Decision |-> 0]]
    /\ alerts = [t \in Transactions |-> 0]
    /\ observed = {}
    /\ verdicts = <<>>
    /\ log = <<>>
    /\ filed = {}
    /\ monitor = [t \in Transactions |-> NoEntry]
    /\ point = [w \in Servers |-> "idle"]
    /\ task = [w \in Servers |-> NoTask]
    /\ scorers = [t \in Transactions |-> {}]
    /\ judges = [t \in Transactions |-> {}]
    /\ dropped = {}

NextCall(w, next) == point' = [point EXCEPT ![w] = next] /\ UNCHANGED task

Learn(w, next, j) ==
    /\ point' = [point EXCEPT ![w] = next]
    /\ task' = [task EXCEPT ![w] = j]

AnswerDesk(w) == Learn(w, "idle", NoTask)

(* A fraud verdict stays on the customer for ever. *)
Confirmed == \E i \in DOMAIN verdicts : verdicts[i].label = "FRAUD"

-----------------------------------------------------------------------------
(* score and explain *)

Fresh(op, t) == [op |-> op, tx |-> t, heightened |-> FALSE, flagged |-> FALSE, decision |-> "PASS"]

BeginScore(w) ==
    /\ point[w] = "idle"
    /\ \E t \in Transactions, op \in {"score", "explain"} :
         /\ scored[t] = NoEntry
         /\ Learn(w, "labels", Fresh(op, t))
    /\ UNCHANGED <<desk, feedback, scorers, judges, dropped>>

(* explain finds the transaction scored. *)
BeginExplain(w) ==
    /\ point[w] = "idle"
    /\ \E t \in Transactions :
         /\ scored[t] # NoEntry
         /\ Learn(w, "investigate", Fresh("explain", t))
    /\ UNCHANGED <<desk, feedback, scorers, judges, dropped>>

ReadLabels(w) ==
    /\ point[w] = "labels"
    /\ Learn(w, "flag", [task[w] EXCEPT !.heightened = Confirmed])
    /\ UNCHANGED <<desk, feedback, scorers, judges, dropped>>

(* Variant: the payload for the graph leaves the flag at its default. *)
DecideUnflagged(w) ==
    /\ point[w] = "flag"
    /\ \E d \in Decision :
         Learn(w, "row", [task[w] EXCEPT !.decision = d])
    /\ UNCHANGED <<desk, feedback, scorers, judges, dropped>>

(* The flag is read a second time for the graph, then the fusion and the   *)
(* decision engine answer.                                                 *)
DecideScore(w) ==
    /\ point[w] = "flag"
    /\ \E d \in Decision :
         Learn(w, "row", [task[w] EXCEPT !.flagged = Confirmed, !.decision = d])
    /\ UNCHANGED <<desk, feedback, scorers, judges, dropped>>

(* A pipeline service, or the investigation agent, does not answer. *)
UpstreamFails(w) ==
    /\ point[w] \in {"labels", "flag", "investigate"}
    /\ AnswerDesk(w)
    /\ UNCHANGED <<desk, feedback, scorers, judges, dropped>>

AddRow(w) ==
    /\ point[w] = "row"
    /\ rows' = [rows EXCEPT ![task[w].tx][task[w].decision] = @ + 1]
    /\ scorers' = [scorers EXCEPT ![task[w].tx] = @ \cup {w}]
    /\ NextCall(w, "observe")
    /\ UNCHANGED <<scored, explained, lookup, alerts, observed, feedback, judges, dropped>>

(* Best effort: the graph engine may not hear of it. *)
Observe(w) ==
    /\ point[w] = "observe"
    /\ \/ observed' = observed \cup {[tx |-> task[w].tx, flagged |-> task[w].flagged]}
       \/ UNCHANGED observed
    /\ NextCall(w, "retain")
    /\ UNCHANGED <<scored, explained, lookup, rows, alerts, feedback, scorers, judges, dropped>>

(* Variant: only the scores that raise an alert are retained. *)
RetainHeld(w) ==
    /\ point[w] = "retain"
    /\ IF task[w].decision = "HOLD"
         THEN scored' = [scored EXCEPT ![task[w].tx] =
                           [decision |-> task[w].decision, heightened |-> task[w].heightened]]
         ELSE UNCHANGED scored
    /\ NextCall(w, "lookup")
    /\ UNCHANGED <<explained, lookup, rows, alerts, observed, feedback, scorers, judges, dropped>>

Retain(w) ==
    /\ point[w] = "retain"
    /\ scored' = [scored EXCEPT ![task[w].tx] =
                    [decision |-> task[w].decision, heightened |-> task[w].heightened]]
    /\ NextCall(w, "lookup")
    /\ UNCHANGED <<explained, lookup, rows, alerts, observed, feedback, scorers, judges, dropped>>

NextAfterScore(w) == IF task[w].op = "explain" THEN NextCall(w, "investigate") ELSE AnswerDesk(w)

SetLookup(w) ==
    /\ point[w] = "lookup"
    /\ lookup' = task[w].tx
    /\ IF task[w].decision = "PASS" THEN NextAfterScore(w) ELSE NextCall(w, "alert")
    /\ UNCHANGED <<scored, explained, rows, alerts, observed, feedback, scorers, judges, dropped>>

(* Variant: a transaction stands in the queue once. *)
AlertOnce(w) ==
    /\ point[w] = "alert"
    /\ alerts' = [alerts EXCEPT ![task[w].tx] = 1]
    /\ NextAfterScore(w)
    /\ UNCHANGED <<scored, explained, lookup, rows, observed, feedback, scorers, judges, dropped>>

AddAlert(w) ==
    /\ point[w] = "alert"
    /\ alerts' = [alerts EXCEPT ![task[w].tx] = @ + 1]
    /\ NextAfterScore(w)
    /\ UNCHANGED <<scored, explained, lookup, rows, observed, feedback, scorers, judges, dropped>>

(* The investigation agent answers and its report is retained. *)
RetainExplanation(w) ==
    /\ point[w] = "investigate"
    /\ explained' = explained \cup {task[w].tx}
    /\ AnswerDesk(w)
    /\ UNCHANGED <<scored, lookup, rows, alerts, observed, feedback, scorers, judges, dropped>>

-----------------------------------------------------------------------------
(* submit_feedback: the verdict is recorded locally, then forwarded to the *)
(* feedback log and to the monitor, each as best it can.                   *)

BeginVerdict(w) ==
    /\ point[w] = "idle"
    /\ Len(verdicts) < MaxVerdicts
    /\ \E k \in Key :
         /\ verdicts' = Append(verdicts, k)
         /\ judges' = [judges EXCEPT ![k.tx] = @ \cup {w}]
         /\ dropped' = dropped \ {k.tx}
         /\ Learn(w, "check", [op |-> "verdict", key |-> k, id |-> 0])
    /\ UNCHANGED <<desk, log, filed, monitor, scorers>>

(* Variant: the key is not looked up. *)
CheckNothing(w) ==
    /\ point[w] = "check"
    /\ NextCall(w, "count") \/ NextCall(w, "monitor")
    /\ UNCHANGED <<desk, feedback, scorers, judges, dropped>>

(* The feedback loop knows the key, or cannot be reached: nothing to log.  *)
CheckKey(w) ==
    /\ point[w] = "check"
    /\ \/ task[w].key \notin filed /\ NextCall(w, "count")
       \/ NextCall(w, "monitor")
    /\ UNCHANGED <<desk, feedback, scorers, judges, dropped>>

CountRecords(w) ==
    /\ point[w] = "count"
    /\ Learn(w, "append", [task[w] EXCEPT !.id = Len(log) + 1])
    /\ UNCHANGED <<desk, feedback, scorers, judges, dropped>>

AppendRecord(w) ==
    /\ point[w] = "append"
    /\ log' = Append(log, [id |-> task[w].id, key |-> task[w].key, by |-> w])
    /\ NextCall(w, "index")
    /\ UNCHANGED <<desk, verdicts, filed, monitor, scorers, judges, dropped>>

IndexKey(w) ==
    /\ point[w] = "index"
    /\ filed' = filed \cup {task[w].key}
    /\ NextCall(w, "monitor")
    /\ UNCHANGED <<desk, verdicts, log, monitor, scorers, judges, dropped>>

TellMonitor(w) ==
    LET k == task[w].key IN
    /\ point[w] = "monitor"
    /\ monitor' = [monitor EXCEPT ![k.tx] = k.label]
    /\ AnswerDesk(w)
    /\ UNCHANGED <<desk, verdicts, log, filed, scorers, judges, dropped>>

MonitorFails(w) ==
    /\ point[w] = "monitor"
    /\ dropped' = dropped \cup {task[w].key.tx}
    /\ AnswerDesk(w)
    /\ UNCHANGED <<desk, feedback, scorers, judges>>

-----------------------------------------------------------------------------
DeskNext ==
    \E w \in Servers :
        \/ BeginScore(w) \/ BeginExplain(w)
        \/ ReadLabels(w) \/ DecideScore(w) \/ UpstreamFails(w)
        \/ AddRow(w) \/ Observe(w) \/ Retain(w) \/ SetLookup(w) \/ AddAlert(w)
        \/ RetainExplanation(w)
        \/ BeginVerdict(w) \/ CheckKey(w) \/ CountRecords(w) \/ AppendRecord(w)
        \/ IndexKey(w) \/ TellMonitor(w) \/ MonitorFails(w)

DeskSpec == DeskInit /\ [][DeskNext]_deskVars

-----------------------------------------------------------------------------
Rows(t) == rows[t]["PASS"] + rows[t]["HOLD"]

Busy(t, steps) == \E w \in Servers : point[w] \in steps /\ task[w].tx = t

(* Every variable has its type, and a worker's step fits its request. *)
DeskTypeOK ==
    /\ scored \in [Transactions -> Score \cup {NoEntry}]
    /\ explained \subseteq Transactions
    /\ lookup \in Transactions \cup {NoEntry}
    /\ rows \in [Transactions -> [Decision -> Nat]]
    /\ alerts \in [Transactions -> Nat]
    /\ observed \subseteq [tx : Transactions, flagged : BOOLEAN]
    /\ verdicts \in Seq(Key)
    /\ log \in Seq([id : Nat, key : Key, by : Servers])
    /\ filed \subseteq Key
    /\ monitor \in [Transactions -> Label \cup {NoEntry}]
    /\ point \in [Servers -> {"idle"} \cup Scoring \cup Explaining \cup Judging]
    /\ task \in [Servers -> {NoTask} \cup ScoreJob \cup VerdictJob]
    /\ scorers \in [Transactions -> SUBSET Servers]
    /\ judges \in [Transactions -> SUBSET Servers]
    /\ dropped \subseteq Transactions
    /\ \A w \in Servers :
         \/ point[w] = "idle" /\ task[w] = NoTask
         \/ point[w] \in Scoring \cup Explaining /\ task[w] \in ScoreJob
         \/ point[w] \in Judging /\ task[w] \in VerdictJob

(* The queue agrees with the history: however requests overlap, once none  *)
(* is scoring t, every row of t that was not passed has its alert.         *)
QueueMatchesHistory ==
    \A t \in Transactions :
        /\ alerts[t] <= rows[t]["HOLD"]
        /\ ~ Busy(t, Scoring) => alerts[t] = rows[t]["HOLD"]

(* A worker that scored t scores it no second time: t has one row for each *)
(* worker that did, and the score retained is that of one of the rows.     *)
RowsPerScorer ==
    \A t \in Transactions :
        /\ Rows(t) = Cardinality(scorers[t])
        /\ scored[t] # NoEntry => rows[t][scored[t].decision] > 0

(* What the lookups lead to is there: the customer's entry and every       *)
(* explanation belong to a transaction whose score was retained.           *)
LookupsResolve ==
    /\ lookup # NoEntry => scored[lookup] # NoEntry
    /\ \A t \in explained : scored[t] # NoEntry

(* A score heightened by a confirmed fraud reports the customer to the     *)
(* graph engine as flagged, whenever the verdict came in between.          *)
GraphHears ==
    \A t \in Transactions :
        Rows(t) = 1 /\ scored[t] # NoEntry /\ scored[t].heightened =>
            [tx |-> t, flagged |-> FALSE] \notin observed

(* A key is indexed only when its record is in the log, and submissions    *)
(* that follow one another repeat neither a key nor an identifier: among   *)
(* the records of one worker keys differ and identifiers increase.         *)
LogPerWorker ==
    /\ \A k \in filed : \E i \in DOMAIN log : log[i].key = k
    /\ \A i, j \in DOMAIN log :
         i < j /\ log[i].by = log[j].by =>
            /\ log[i].key # log[j].key
            /\ log[i].id < log[j].id

(* The label the monitor holds for t is the analysts' last verdict on t,   *)
(* when one worker submitted them all, is done, and the last of them was   *)
(* delivered.                                                              *)
MonitorFollows ==
    \A t \in Transactions :
        LET on == {i \in DOMAIN verdicts : verdicts[i].tx = t}
            delivered == /\ Cardinality(judges[t]) = 1
                         /\ t \notin dropped
                         /\ \A w \in judges[t] : point[w] \notin Judging
        IN  delivered => \E i \in on : (\A j \in on : j <= i) /\ monitor[t] = verdicts[i].label

(* However the requests of others overlap, one that a worker repeats after *)
(* its answer adds no row and no record a second time (score, and append   *)
(* of the feedback repository): the copies are as many as the workers.     *)
RepeatsBounded == RowsPerScorer /\ LogPerWorker

(* A verdict reaches what learns from it: the graph through the next score *)
(* it heightens, the monitor through the label forwarded.                  *)
VerdictsReach == GraphHears /\ MonitorFollows

-----------------------------------------------------------------------------
(* What the repository says of the program and the program does not do.    *)

(* "re-scoring the same transaction [...] must not duplicate the alert or  *)
(* the customer-history row, which would corrupt baselines and the queue"  *)
(* (analyst_api/service.py:90-92): two overlapping requests that both miss *)
(* the retained score do.                                                  *)
ScoredWithoutDuplicate == \A t \in Transactions : Rows(t) <= 1 /\ alerts[t] <= 1
=============================================================================
