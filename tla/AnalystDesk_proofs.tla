------------------------- MODULE AnalystDesk_proofs -------------------------
(***************************************************************************)
(* What holds of the console's queue, lookups and feedback for any number  *)
(* of threads and transactions.  The argument for the queue counts: a      *)
(* request that has added a HOLD row owes the queue an alert until it adds *)
(* it, so rows and alerts differ by the requests that still owe one.  The  *)
(* argument for retries follows each worker that scored a transaction, or  *)
(* filed a verdict; the one for verdicts the only worker that did.         *)
(***************************************************************************)
EXTENDS AnalystDesk, FiniteSetTheorems, TLAPS

\* The requests for t that have added a HOLD row and no alert yet.
Owing == {"observe", "retain", "lookup", "alert"}
Owes(w, t) == point[w] \in Owing /\ task[w].tx = t /\ task[w].decision = "HOLD"
Debtors(t) == {w \in Servers : Owes(w, t)}

Accounted == \A t \in Transactions : alerts[t] + Cardinality(Debtors(t)) = rows[t]["HOLD"]

\* A request for an alert holds its transaction, and one that is past
\* retaining the score, or about to explain it, finds it retained.
Retained ==
    \A w \in Servers :
        /\ point[w] = "alert" => task[w].decision = "HOLD"
        /\ point[w] \in {"lookup", "alert", "investigate"} => scored[task[w].tx] # NoEntry

IInv == DeskTypeOK /\ Accounted /\ Retained /\ LookupsResolve

-----------------------------------------------------------------------------
LEMMA DebtorsFinite ==
    ASSUME NEW t
    PROVE  IsFiniteSet(Debtors(t)) /\ Cardinality(Debtors(t)) \in Nat
<1>1. Debtors(t) \subseteq Servers
  BY DEF Debtors
<1>2. IsFiniteSet(Debtors(t))
  BY <1>1, ServersFinite, FS_Subset
<1> QED
  BY <1>2, FS_CardinalityType

LEMMA InitInv == DeskInit => IInv
<1> SUFFICES ASSUME DeskInit PROVE IInv
  OBVIOUS
<1>1. DeskTypeOK
  BY DEF DeskInit, DeskTypeOK, Decision, Scoring, Explaining, Judging
<1>2. \A t \in Transactions : Debtors(t) = {}
  BY DEF DeskInit, Debtors, Owes, Owing
<1>3. Accounted
  <2>1. \A t \in Transactions : Cardinality(Debtors(t)) = 0
    BY <1>2, FS_EmptySet
  <2>2. \A t \in Transactions : alerts[t] = 0 /\ rows[t]["HOLD"] = 0
    BY DEF DeskInit, Decision
  <2> QED
    BY <2>1, <2>2 DEF Accounted
<1>4. Retained /\ LookupsResolve
  BY DEF DeskInit, Retained, LookupsResolve
<1> QED
  BY <1>1, <1>3, <1>4 DEF IInv

-----------------------------------------------------------------------------
(* Types.                                                                    *)

\* What a request knows fits the step it is at.
Fits(p, j) ==
    \/ p = "idle" /\ j = NoTask
    \/ p \in Scoring \cup Explaining /\ j \in ScoreJob
    \/ p \in Judging /\ j \in VerdictJob

JobsType ==
    /\ point \in [Servers -> {"idle"} \cup Scoring \cup Explaining \cup Judging]
    /\ task \in [Servers -> {NoTask} \cup ScoreJob \cup VerdictJob]
    /\ \A w \in Servers : Fits(point[w], task[w])

DataType ==
    /\ scored \in [Transactions -> Score \cup {NoEntry}]
    /\ explained \subseteq Transactions
    /\ lookup \in Transactions \cup {NoEntry}
    /\ rows \in [Transactions -> [Decision -> Nat]]
    /\ alerts \in [Transactions -> Nat]
    /\ observed \subseteq [tx : Transactions, flagged : BOOLEAN]
    /\ verdicts \in Seq(Key)
    /\ log \in Seq([id : Nat, key : Key, by : Servers])
    /\ filed \subseteq Key
    /\ monitor \in [Transactions -> Label \cup {NoEntry}]
    /\ scorers \in [Transactions -> SUBSET Servers]
    /\ judges \in [Transactions -> SUBSET Servers]
    /\ dropped \subseteq Transactions

LEMMA TypeSplit == DeskTypeOK <=> JobsType /\ DataType
  BY DEF DeskTypeOK, JobsType, DataType, Fits

LEMMA LearnType ==
    ASSUME JobsType, NEW w \in Servers, NEW p, NEW j, Fits(p, j), Learn(w, p, j)
    PROVE  JobsType'
<1>1. /\ p \in {"idle"} \cup Scoring \cup Explaining \cup Judging
      /\ j \in {NoTask} \cup ScoreJob \cup VerdictJob
  BY DEF Fits
<1>2. \A v \in Servers : Fits(point'[v], task'[v])
  <2> TAKE v \in Servers
  <2>1. CASE v = w
    BY <2>1 DEF JobsType, Learn
  <2>2. CASE v # w
    BY <2>2 DEF JobsType, Learn
  <2> QED
    BY <2>1, <2>2
<1> QED
  BY <1>1, <1>2 DEF JobsType, Learn

LEMMA GoOnType ==
    ASSUME JobsType, NEW w \in Servers, NEW p, Fits(p, task[w]), NextCall(w, p)
    PROVE  JobsType'
<1>1. p \in {"idle"} \cup Scoring \cup Explaining \cup Judging
  BY DEF Fits
<1> QED
  BY <1>1 DEF JobsType, NextCall

LEMMA AnswerType ==
    ASSUME JobsType, NEW w \in Servers, AnswerDesk(w)
    PROVE  JobsType'
  BY LearnType DEF AnswerDesk, Fits

\* The fields of what a scoring, or judging, request knows.
LEMMA ScoreJobFields ==
    ASSUME NEW j \in ScoreJob
    PROVE  /\ j.tx \in Transactions /\ j.decision \in Decision
           /\ j.heightened \in BOOLEAN /\ j.flagged \in BOOLEAN
  BY DEF ScoreJob

LEMMA ScoreJobs ==
    ASSUME NEW j \in ScoreJob, NEW h \in BOOLEAN, NEW d \in Decision
    PROVE  /\ [j EXCEPT !.heightened = h] \in ScoreJob
           /\ [j EXCEPT !.flagged = h, !.decision = d] \in ScoreJob
  BY DEF ScoreJob, Decision

\* What a request learns changes nothing else of what it knows.
LEMMA ScoreJobKeeps ==
    ASSUME NEW j \in ScoreJob, NEW h, NEW d
    PROVE  /\ [j EXCEPT !.heightened = h].tx = j.tx /\ [j EXCEPT !.heightened = h].heightened = h
           /\ [j EXCEPT !.flagged = h, !.decision = d].tx = j.tx
           /\ [j EXCEPT !.flagged = h, !.decision = d].flagged = h
           /\ [j EXCEPT !.flagged = h, !.decision = d].heightened = j.heightened
  BY DEF ScoreJob

LEMMA VerdictJobs ==
    ASSUME NEW j \in VerdictJob, NEW n \in Nat
    PROVE  /\ j.key \in Key /\ j.id \in Nat
           /\ j.key.tx \in Transactions /\ j.key.label \in Label
           /\ [j EXCEPT !.id = n] \in VerdictJob
  BY DEF VerdictJob, Key

\* A step of worker w, and what it leaves alone.
StepOf(w) ==
    \/ BeginScore(w) \/ BeginExplain(w)
    \/ ReadLabels(w) \/ DecideScore(w) \/ UpstreamFails(w)
    \/ AddRow(w) \/ Observe(w) \/ Retain(w) \/ SetLookup(w) \/ AddAlert(w)
    \/ RetainExplanation(w)
    \/ BeginVerdict(w) \/ CheckKey(w) \/ CountRecords(w) \/ AppendRecord(w)
    \/ IndexKey(w) \/ TellMonitor(w) \/ MonitorFails(w)

OthersKeep(w) == \A v \in Servers \ {w} : point'[v] = point[v] /\ task'[v] = task[v]

LEMMA LearnOthers ==
    ASSUME JobsType, NEW w \in Servers, NEW p, NEW j, Learn(w, p, j)
    PROVE  OthersKeep(w) /\ point'[w] = p /\ task'[w] = j
  BY DEF JobsType, Learn, OthersKeep

LEMMA GoOnOthers ==
    ASSUME JobsType, NEW w \in Servers, NEW p, NextCall(w, p)
    PROVE  OthersKeep(w) /\ point'[w] = p /\ task'[w] = task[w]
  BY DEF JobsType, NextCall, OthersKeep

LEMMA AnswerOthers ==
    ASSUME JobsType, NEW w \in Servers, AnswerDesk(w)
    PROVE  OthersKeep(w) /\ point'[w] = "idle" /\ task'[w] = NoTask
  BY LearnOthers DEF AnswerDesk

LEMMA NextAfterScoreType ==
    ASSUME JobsType, NEW w \in Servers, task[w] \in ScoreJob, NextAfterScore(w)
    PROVE  /\ JobsType' /\ OthersKeep(w)
           /\ \/ point'[w] = "investigate" /\ task'[w] = task[w]
              \/ point'[w] = "idle" /\ task'[w] = NoTask
<1>1. CASE NextCall(w, "investigate")
  BY <1>1, GoOnType, GoOnOthers DEF Fits, Explaining
<1>2. CASE AnswerDesk(w)
  BY <1>2, AnswerType, AnswerOthers
<1> QED
  BY <1>1, <1>2 DEF NextAfterScore

LEMMA JobsStep ==
    ASSUME JobsType, DataType, NEW w \in Servers, StepOf(w)
    PROVE  JobsType' /\ OthersKeep(w)
<1> USE DEF Scoring, Explaining, Judging
<1>1. CASE BeginScore(w) \/ BeginExplain(w)
  <2>1. PICK t \in Transactions, op \in {"score", "explain"}, p \in {"labels", "investigate"} :
            Learn(w, p, Fresh(op, t))
    BY <1>1 DEF BeginScore, BeginExplain
  <2>2. Fits(p, Fresh(op, t))
    BY DEF Fits, Fresh, ScoreJob, Decision
  <2> QED
    BY <2>1, <2>2, LearnType, LearnOthers
<1>2. CASE ReadLabels(w) \/ DecideScore(w)
  <2>1. task[w] \in ScoreJob /\ Confirmed \in BOOLEAN
    BY <1>2 DEF JobsType, Fits, ReadLabels, DecideScore, Confirmed
  <2>2. PICK p \in {"flag", "row"}, j \in ScoreJob : Learn(w, p, j)
    BY <1>2, <2>1, ScoreJobs DEF ReadLabels, DecideScore, Decision
  <2> QED
    BY <2>2, LearnType, LearnOthers DEF Fits
<1>3. CASE UpstreamFails(w) \/ RetainExplanation(w) \/ TellMonitor(w) \/ MonitorFails(w)
  <2>1. AnswerDesk(w)
    BY <1>3 DEF UpstreamFails, RetainExplanation, TellMonitor, MonitorFails
  <2> QED
    BY <2>1, AnswerType, AnswerOthers
<1>4. CASE AddRow(w) \/ Observe(w) \/ Retain(w)
  <2>1. task[w] \in ScoreJob
    BY <1>4 DEF JobsType, Fits, AddRow, Observe, Retain
  <2>2. PICK p \in {"observe", "retain", "lookup"} : NextCall(w, p)
    BY <1>4 DEF AddRow, Observe, Retain
  <2> QED
    BY <2>1, <2>2, GoOnType, GoOnOthers DEF Fits
<1>5. CASE SetLookup(w) \/ AddAlert(w)
  <2>1. task[w] \in ScoreJob
    BY <1>5 DEF JobsType, Fits, SetLookup, AddAlert
  <2>2. CASE NextAfterScore(w)
    BY <2>1, <2>2, NextAfterScoreType
  <2>3. CASE NextCall(w, "alert")
    BY <2>1, <2>3, GoOnType, GoOnOthers DEF Fits
  <2> QED
    BY <1>5, <2>2, <2>3 DEF SetLookup, AddAlert
<1>6. CASE BeginVerdict(w)
  <2>1. PICK k \in Key : Learn(w, "check", [op |-> "verdict", key |-> k, id |-> 0])
    BY <1>6 DEF BeginVerdict
  <2>2. Fits("check", [op |-> "verdict", key |-> k, id |-> 0])
    BY DEF Fits, VerdictJob
  <2> QED
    BY <2>1, <2>2, LearnType, LearnOthers
<1>7. CASE CheckKey(w) \/ AppendRecord(w) \/ IndexKey(w)
  <2>1. task[w] \in VerdictJob
    BY <1>7 DEF JobsType, Fits, CheckKey, AppendRecord, IndexKey
  <2>2. PICK p \in {"count", "index", "monitor"} : NextCall(w, p)
    BY <1>7 DEF CheckKey, AppendRecord, IndexKey
  <2> QED
    BY <2>1, <2>2, GoOnType, GoOnOthers DEF Fits
<1>8. CASE CountRecords(w)
  <2>1. task[w] \in VerdictJob
    BY <1>8 DEF JobsType, Fits, CountRecords
  <2>4. Len(log) + 1 \in Nat
    BY DEF DataType
  <2>2. [task[w] EXCEPT !.id = Len(log) + 1] \in VerdictJob
    BY <2>1, <2>4, VerdictJobs
  <2>3. Learn(w, "append", [task[w] EXCEPT !.id = Len(log) + 1])
    BY <1>8 DEF CountRecords
  <2> QED
    BY <2>2, <2>3, LearnType, LearnOthers DEF Fits
<1> QED
  BY <1>1, <1>2, <1>3, <1>4, <1>5, <1>6, <1>7, <1>8 DEF StepOf

LEMMA DataStep ==
    ASSUME JobsType, DataType, NEW w \in Servers, StepOf(w)
    PROVE  DataType'
<1> USE DEF desk, feedback, Scoring, Explaining, Judging
<1>1. CASE \/ BeginScore(w) \/ BeginExplain(w) \/ ReadLabels(w) \/ DecideScore(w) \/ UpstreamFails(w)
           \/ CheckKey(w) \/ CountRecords(w)
  BY <1>1 DEF DataType, BeginScore, BeginExplain, ReadLabels, DecideScore, UpstreamFails, CheckKey, CountRecords
<1>2. ASSUME \/ AddRow(w) \/ Observe(w) \/ Retain(w) \/ SetLookup(w) \/ AddAlert(w) \/ RetainExplanation(w)
      PROVE  DataType'
  <2>1. task[w] \in ScoreJob
    BY <1>2 DEF JobsType, Fits, AddRow, Observe, Retain, SetLookup, AddAlert, RetainExplanation
  <2> DEFINE t == task[w].tx
             d == task[w].decision
  <2>2. t \in Transactions /\ d \in Decision /\ task[w].heightened \in BOOLEAN /\ task[w].flagged \in BOOLEAN
    BY <2>1, ScoreJobFields
  <2>3. CASE AddRow(w)
    <3>1. rows' = [rows EXCEPT ![t][d] = @ + 1] /\ scorers' = [scorers EXCEPT ![t] = @ \cup {w}]
      BY <2>3 DEF AddRow
    <3>2. rows' \in [Transactions -> [Decision -> Nat]]
      <4>1. rows[t] \in [Decision -> Nat] /\ rows \in [Transactions -> [Decision -> Nat]]
        BY <2>2 DEF DataType
      <4>2. [rows[t] EXCEPT ![d] = @ + 1] \in [Decision -> Nat]
        BY <2>2, <4>1
      <4>3. rows' = [rows EXCEPT ![t] = [rows[t] EXCEPT ![d] = @ + 1]]
        BY <2>2, <3>1, <4>1
      <4> HIDE DEF t, d
      <4> QED
        BY <2>2, <4>1, <4>2, <4>3
    <3>3. scorers' \in [Transactions -> SUBSET Servers]
      BY <2>2, <3>1 DEF DataType
    <3> QED
      BY <2>3, <3>2, <3>3 DEF DataType, AddRow
  <2>4. CASE Observe(w)
    BY <2>2, <2>4 DEF DataType, Observe
  <2>5. CASE Retain(w)
    <3>1. [decision |-> d, heightened |-> task[w].heightened] \in Score
      BY <2>2 DEF Score
    <3> QED
      BY <2>2, <2>5, <3>1 DEF DataType, Retain
  <2>6. CASE SetLookup(w)
    BY <2>2, <2>6 DEF DataType, SetLookup
  <2>7. CASE AddAlert(w)
    BY <2>2, <2>7 DEF DataType, AddAlert
  <2>8. CASE RetainExplanation(w)
    BY <2>2, <2>8 DEF DataType, RetainExplanation
  <2> QED
    BY <1>2, <2>3, <2>4, <2>5, <2>6, <2>7, <2>8
<1>3. CASE BeginVerdict(w)
  <2>1. PICK k \in Key :
            /\ verdicts' = Append(verdicts, k)
            /\ judges' = [judges EXCEPT ![k.tx] = @ \cup {w}]
            /\ dropped' = dropped \ {k.tx}
    BY <1>3 DEF BeginVerdict
  <2>2. k.tx \in Transactions
    BY DEF Key
  <2>3. verdicts' \in Seq(Key)
    BY <2>1 DEF DataType
  <2>4. judges' \in [Transactions -> SUBSET Servers] /\ dropped' \subseteq Transactions
    BY <2>1, <2>2 DEF DataType
  <2> QED
    BY <1>3, <2>3, <2>4 DEF DataType, BeginVerdict
<1>4. ASSUME AppendRecord(w) \/ IndexKey(w) \/ TellMonitor(w) \/ MonitorFails(w)
      PROVE  DataType'
  <2>1. task[w] \in VerdictJob
    BY <1>4 DEF JobsType, Fits, AppendRecord, IndexKey, TellMonitor, MonitorFails
  <2>2. /\ task[w].key \in Key /\ task[w].id \in Nat
        /\ task[w].key.tx \in Transactions /\ task[w].key.label \in Label
    BY <2>1, VerdictJobs
  <2>3. CASE AppendRecord(w)
    <3>1. [id |-> task[w].id, key |-> task[w].key, by |-> w] \in [id : Nat, key : Key, by : Servers]
      BY <2>2
    <3>2. log' \in Seq([id : Nat, key : Key, by : Servers])
      BY <2>3, <3>1 DEF DataType, AppendRecord
    <3> QED
      BY <2>3, <3>2 DEF DataType, AppendRecord
  <2>4. CASE IndexKey(w)
    BY <2>2, <2>4 DEF DataType, IndexKey
  <2>5. CASE TellMonitor(w)
    BY <2>2, <2>5 DEF DataType, TellMonitor
  <2>6. CASE MonitorFails(w)
    BY <2>2, <2>6 DEF DataType, MonitorFails
  <2> QED
    BY <1>4, <2>3, <2>4, <2>5, <2>6
<1> QED
  BY <1>1, <1>2, <1>3, <1>4 DEF StepOf

-----------------------------------------------------------------------------
(* Rows, alerts and debtors.                                                 *)

\* The debtors of t after a step of w, by what w owed before and owes after.
LEMMA DebtorsStep ==
    ASSUME NEW w \in Servers, OthersKeep(w), NEW t
    PROVE  /\ (Owes(w, t) <=> Owes(w, t)') => Cardinality(Debtors(t))' = Cardinality(Debtors(t))
           /\ ~ Owes(w, t) /\ Owes(w, t)' => Cardinality(Debtors(t))' = Cardinality(Debtors(t)) + 1
           /\ Owes(w, t) /\ ~ Owes(w, t)' => Cardinality(Debtors(t))' + 1 = Cardinality(Debtors(t))
<1>1. \A v \in Servers \ {w} : Owes(v, t)' <=> Owes(v, t)
  BY DEF OthersKeep, Owes
<1>2. IsFiniteSet(Debtors(t)) /\ Cardinality(Debtors(t)) \in Nat
  BY DebtorsFinite
<1>3. CASE Owes(w, t) <=> Owes(w, t)'
  <2>1. Debtors(t)' = Debtors(t)
    BY <1>1, <1>3 DEF Debtors
  <2> QED
    BY <1>3, <2>1
<1>4. CASE ~ Owes(w, t) /\ Owes(w, t)'
  <2>1. Debtors(t)' = Debtors(t) \cup {w} /\ w \notin Debtors(t)
    BY <1>1, <1>4 DEF Debtors
  <2>2. Cardinality(Debtors(t) \cup {w}) = Cardinality(Debtors(t)) + 1
    BY <1>2, <2>1, FS_AddElement
  <2> QED
    BY <1>4, <2>1, <2>2
<1>5. CASE Owes(w, t) /\ ~ Owes(w, t)'
  <2>1. Debtors(t)' = Debtors(t) \ {w} /\ w \in Debtors(t)
    BY <1>1, <1>5 DEF Debtors
  <2>2. Cardinality(Debtors(t) \ {w}) = Cardinality(Debtors(t)) - 1
    BY <1>2, <2>1, FS_RemoveElement
  <2>3. Cardinality(Debtors(t))' = Cardinality(Debtors(t)) - 1
    BY <2>1, <2>2
  <2> QED
    BY <1>2, <1>5, <2>3
<1> QED
  BY <1>3, <1>4, <1>5

LEMMA AccountedStep ==
    ASSUME JobsType, DataType, Retained, Accounted, NEW w \in Servers, StepOf(w)
    PROVE  Accounted'
<1> SUFFICES ASSUME NEW t \in Transactions
             PROVE  (alerts[t] + Cardinality(Debtors(t)) = rows[t]["HOLD"])'
  BY DEF Accounted
<1> DEFINE n == Cardinality(Debtors(t))
<1>a. OthersKeep(w)
  BY JobsStep
<1>b. n \in Nat /\ alerts[t] + n = rows[t]["HOLD"] /\ alerts[t] \in Nat
  BY DebtorsFinite DEF Accounted, DataType
<1>1. CASE AddRow(w)
  <2>1. task[w] \in ScoreJob /\ point[w] = "row"
    BY <1>1 DEF JobsType, Fits, AddRow, Judging
  <2>2. task[w].tx \in Transactions /\ task[w].decision \in Decision
    BY <2>1, ScoreJobFields
  <2>3. point'[w] = "observe" /\ task'[w] = task[w] /\ alerts' = alerts
    BY <1>1, GoOnOthers DEF AddRow
  <2>4. ~ Owes(w, t)
    BY <2>1 DEF Owes, Owing
  <2>5. Owes(w, t)' <=> task[w].tx = t /\ task[w].decision = "HOLD"
    BY <2>3 DEF Owes, Owing
  <2>6. rows' = [rows EXCEPT ![task[w].tx][task[w].decision] = @ + 1]
    BY <1>1 DEF AddRow
  <2>7. rows'[t]["HOLD"] = IF task[w].tx = t /\ task[w].decision = "HOLD"
                           THEN rows[t]["HOLD"] + 1 ELSE rows[t]["HOLD"]
    BY <2>2, <2>6 DEF DataType, Decision
  <2>8. n' = IF task[w].tx = t /\ task[w].decision = "HOLD" THEN n + 1 ELSE n
    BY <1>a, <2>4, <2>5, DebtorsStep
  <2> QED
    BY <1>b, <2>3, <2>7, <2>8
<1>2. CASE AddAlert(w)
  <2>1. task[w] \in ScoreJob /\ point[w] = "alert" /\ task[w].decision = "HOLD"
    BY <1>2 DEF JobsType, Fits, AddAlert, Judging, Retained
  <2>2. task[w].tx \in Transactions
    BY <2>1, ScoreJobFields
  <2>3. point'[w] \in {"investigate", "idle"} /\ rows' = rows
    BY <1>2, <2>1, NextAfterScoreType DEF AddAlert
  <2>4. Owes(w, t) <=> task[w].tx = t
    BY <2>1 DEF Owes, Owing
  <2>5. ~ Owes(w, t)'
    BY <2>3 DEF Owes, Owing
  <2>6. alerts'[t] = IF task[w].tx = t THEN alerts[t] + 1 ELSE alerts[t]
    BY <1>2, <2>2 DEF DataType, AddAlert
  <2>7. n' \in Nat /\ IF task[w].tx = t THEN n' + 1 = n ELSE n' = n
    <3>1. IF task[w].tx = t THEN n' + 1 = n ELSE n' = n
      BY <1>a, <2>4, <2>5, DebtorsStep
    <3>2. Debtors(t)' \subseteq Servers
      BY DEF Debtors
    <3>3. n' \in Nat
      BY <3>2, ServersFinite, FS_Subset, FS_CardinalityType
    <3> QED
      BY <3>1, <3>3
  <2> QED
    BY <1>b, <2>3, <2>6, <2>7
<1>3. ASSUME ~ AddRow(w), ~ AddAlert(w)
      PROVE  alerts' = alerts /\ rows' = rows /\ (Owes(w, t) <=> Owes(w, t)')
  <2>1. CASE Observe(w) \/ Retain(w)
    <3>1. /\ point[w] \in Owing /\ point'[w] \in Owing /\ task'[w] = task[w]
          /\ alerts' = alerts /\ rows' = rows
      BY <2>1, GoOnOthers DEF Observe, Retain, Owing
    <3> QED
      BY <3>1 DEF Owes
  <2>2. CASE SetLookup(w)
    <3>1. task[w] \in ScoreJob /\ point[w] = "lookup" /\ alerts' = alerts /\ rows' = rows
      BY <2>2 DEF JobsType, Fits, SetLookup, Judging
    <3>2. CASE task[w].decision = "PASS"
      <4>1. point'[w] \in {"investigate", "idle"}
        BY <2>2, <3>1, <3>2, NextAfterScoreType DEF SetLookup
      <4> QED
        BY <3>1, <3>2, <4>1 DEF Owes, Owing
    <3>3. CASE task[w].decision # "PASS"
      <4>1. point'[w] = "alert" /\ task'[w] = task[w]
        BY <2>2, <3>3, GoOnOthers DEF SetLookup
      <4> QED
        BY <3>1, <4>1 DEF Owes, Owing
    <3> QED
      BY <3>2, <3>3
  <2>3. CASE BeginScore(w) \/ BeginExplain(w) \/ ReadLabels(w) \/ DecideScore(w)
    <3>1. PICK p \in {"labels", "investigate", "flag", "row"} : \E j : Learn(w, p, j)
      BY <2>3 DEF BeginScore, BeginExplain, ReadLabels, DecideScore
    <3>2. point'[w] = p
      BY <3>1, LearnOthers
    <3> QED
      BY <2>3, <3>2 DEF Owes, Owing, BeginScore, BeginExplain, ReadLabels, DecideScore, desk
  <2>4. CASE UpstreamFails(w) \/ RetainExplanation(w) \/ TellMonitor(w) \/ MonitorFails(w)
    <3>1. point'[w] = "idle"
      BY <2>4, AnswerOthers DEF UpstreamFails, RetainExplanation, TellMonitor, MonitorFails
    <3> QED
      BY <2>4, <3>1 DEF Owes, Owing, UpstreamFails, RetainExplanation, TellMonitor, MonitorFails, desk
  <2>5. CASE BeginVerdict(w) \/ CheckKey(w) \/ CountRecords(w) \/ AppendRecord(w) \/ IndexKey(w)
    <3>1. point'[w] \in Judging
      BY <2>5, LearnOthers, GoOnOthers
      DEF BeginVerdict, CheckKey, CountRecords, AppendRecord, IndexKey, Judging
    <3> QED
      BY <2>5, <3>1 DEF Owes, Owing, Judging, BeginVerdict, CheckKey, CountRecords, AppendRecord, IndexKey, desk
  <2> QED
    BY <1>3, <2>1, <2>2, <2>3, <2>4, <2>5 DEF StepOf
<1>4. CASE ~ AddRow(w) /\ ~ AddAlert(w)
  <2>1. n' = n
    BY <1>3, <1>4, <1>a, DebtorsStep
  <2> QED
    BY <1>3, <1>4, <1>b, <2>1
<1> QED
  BY <1>1, <1>2, <1>4

-----------------------------------------------------------------------------
(* Retained scores and lookups.                                              *)

\* A retained score is never taken away.
LEMMA ScoredStays ==
    ASSUME JobsType, DataType, NEW w \in Servers, StepOf(w), NEW t \in Transactions, scored[t] # NoEntry
    PROVE  scored'[t] # NoEntry
<1>1. CASE Retain(w)
  <2>1. task[w] \in ScoreJob
    BY <1>1 DEF JobsType, Fits, Retain, Judging
  <2>2. [decision |-> task[w].decision, heightened |-> task[w].heightened] \in Score
    BY <2>1, ScoreJobFields DEF Score
  <2> QED
    BY <1>1, <2>2, NoEntryIsAbsence DEF DataType, Retain
<1>2. CASE ~ Retain(w)
  <2>1. scored' = scored
    BY <1>2 DEF StepOf, BeginScore, BeginExplain, ReadLabels, DecideScore, UpstreamFails, AddRow, Observe,
           SetLookup, AddAlert, RetainExplanation, BeginVerdict, CheckKey, CountRecords, AppendRecord,
           IndexKey, TellMonitor, MonitorFails, desk
  <2> QED
    BY <2>1
<1> QED
  BY <1>1, <1>2

LEMMA RetainedStep ==
    ASSUME JobsType, DataType, Retained, NEW w \in Servers, StepOf(w)
    PROVE  Retained'
<1> DEFINE Found(v) == /\ point[v] = "alert" => task[v].decision = "HOLD"
                       /\ point[v] \in {"lookup", "alert", "investigate"} => scored[task[v].tx] # NoEntry
<1>a. OthersKeep(w)
  BY JobsStep
<1>1. ASSUME NEW v \in Servers \ {w} PROVE Found(v)'
  <2>1. point'[v] = point[v] /\ task'[v] = task[v] /\ Found(v)
    BY <1>a DEF OthersKeep, Retained
  <2>2. ASSUME point[v] \in {"lookup", "alert", "investigate"} PROVE scored'[task[v].tx] # NoEntry
    <3>1. task[v].tx \in Transactions
      BY <2>2, ScoreJobFields DEF JobsType, Fits, Judging
    <3> QED
      BY <2>1, <2>2, <3>1, ScoredStays
  <2> QED
    BY <2>1, <2>2
<1>2. Found(w)'
  <2>1. CASE Retain(w)
    <3>1. task[w] \in ScoreJob
      BY <2>1 DEF JobsType, Fits, Retain, Judging
    <3>2. task[w].tx \in Transactions
      BY <3>1, ScoreJobFields
    <3>3. [decision |-> task[w].decision, heightened |-> task[w].heightened] \in Score
      BY <3>1, ScoreJobFields DEF Score
    <3>4. scored'[task[w].tx] # NoEntry
      BY <2>1, <3>2, <3>3, NoEntryIsAbsence DEF DataType, Retain
    <3>5. point'[w] = "lookup" /\ task'[w] = task[w]
      BY <2>1, GoOnOthers DEF Retain
    <3> QED
      BY <3>4, <3>5
  <2>2. CASE SetLookup(w) \/ AddAlert(w)
    <3>1. task[w] \in ScoreJob /\ scored[task[w].tx] # NoEntry /\ scored' = scored
      BY <2>2 DEF JobsType, Fits, SetLookup, AddAlert, Judging, Retained
    <3>2. task[w].decision \in Decision
      BY <3>1, ScoreJobFields
    <3>3. CASE NextAfterScore(w)
      BY <3>1, <3>3, NextAfterScoreType
    <3>4. CASE NextCall(w, "alert") /\ task[w].decision # "PASS"
      BY <3>1, <3>2, <3>4, GoOnOthers DEF Decision
    <3> QED
      BY <2>2, <3>3, <3>4 DEF SetLookup, AddAlert
  <2>3. CASE BeginExplain(w)
    <3>1. PICK t \in Transactions : scored[t] # NoEntry /\ Learn(w, "investigate", Fresh("explain", t))
      BY <2>3 DEF BeginExplain
    <3>2. point'[w] = "investigate" /\ task'[w].tx = t /\ scored' = scored
      BY <2>3, <3>1, LearnOthers DEF Fresh, BeginExplain, desk
    <3> QED
      BY <3>1, <3>2
  <2>4. CASE BeginScore(w) \/ ReadLabels(w) \/ DecideScore(w) \/ BeginVerdict(w) \/ CountRecords(w)
    <3>1. PICK p \in {"labels", "flag", "row", "check", "append"} : \E j : Learn(w, p, j)
      BY <2>4 DEF BeginScore, ReadLabels, DecideScore, BeginVerdict, CountRecords
    <3> QED
      BY <3>1, LearnOthers
  <2>5. CASE AddRow(w) \/ Observe(w) \/ CheckKey(w) \/ AppendRecord(w) \/ IndexKey(w)
    <3>1. PICK p \in {"observe", "retain", "count", "monitor", "index"} : NextCall(w, p)
      BY <2>5 DEF AddRow, Observe, CheckKey, AppendRecord, IndexKey
    <3> QED
      BY <3>1, GoOnOthers
  <2>6. CASE UpstreamFails(w) \/ RetainExplanation(w) \/ TellMonitor(w) \/ MonitorFails(w)
    <3>1. point'[w] = "idle"
      BY <2>6, AnswerOthers DEF UpstreamFails, RetainExplanation, TellMonitor, MonitorFails
    <3> QED
      BY <3>1
  <2> QED
    BY <2>1, <2>2, <2>3, <2>4, <2>5, <2>6 DEF StepOf
<1> QED
  BY <1>1, <1>2 DEF Retained

LEMMA LookupsStep ==
    ASSUME JobsType, DataType, Retained, LookupsResolve, NEW w \in Servers, StepOf(w)
    PROVE  LookupsResolve'
<1>1. CASE SetLookup(w)
  <2>1. lookup' = task[w].tx /\ scored' = scored /\ explained' = explained /\ scored[task[w].tx] # NoEntry
    BY <1>1 DEF SetLookup, Retained
  <2> QED
    BY <2>1 DEF LookupsResolve
<1>2. CASE RetainExplanation(w)
  <2>1. /\ explained' = explained \cup {task[w].tx} /\ scored' = scored /\ lookup' = lookup
        /\ scored[task[w].tx] # NoEntry
    BY <1>2 DEF RetainExplanation, Retained
  <2> QED
    BY <2>1 DEF LookupsResolve
<1>3. CASE ~ SetLookup(w) /\ ~ RetainExplanation(w)
  <2>1. lookup' = lookup /\ explained' = explained
    BY <1>3 DEF StepOf, BeginScore, BeginExplain, ReadLabels, DecideScore, UpstreamFails, AddRow, Observe,
           Retain, AddAlert, BeginVerdict, CheckKey, CountRecords, AppendRecord,
           IndexKey, TellMonitor, MonitorFails, desk
  <2>2. \A t \in Transactions : scored[t] # NoEntry => scored'[t] # NoEntry
    BY ScoredStays
  <2> QED
    BY <2>1, <2>2 DEF LookupsResolve, DataType
<1> QED
  BY <1>1, <1>2, <1>3

-----------------------------------------------------------------------------
(* Scoring a transaction, by one worker alone.                               *)

ScoresAt(w, t, steps) == point[w] \in steps /\ task[w].tx = t

Deciding == {"labels", "flag", "row"}
Keeping == {"observe", "retain"}

\* The graph is told of the fraud that a score was heightened for.
HeardBy(w) ==
    /\ point[w] = "flag" => (task[w].heightened => Confirmed)
    /\ point[w] \in {"row"} \cup Keeping => (task[w].heightened => task[w].flagged)

Entered(w) == point[w] \in Keeping => w \in scorers[task[w].tx]

\* Nobody has added a row for t.
Blank(t) ==
    /\ \A d \in Decision : rows[t][d] = 0
    /\ scored[t] = NoEntry
    /\ [tx |-> t, flagged |-> FALSE] \notin observed

\* Only w has added rows for t: one, whose score it is about to retain or has
\* retained, so that it scores t no second time.
SoleRowOf(t, w, d, h) ==
    /\ rows[t] = [e \in Decision |-> IF e = d THEN 1 ELSE 0]
    /\ ScoresAt(w, t, Keeping) =>
          scored[t] = NoEntry /\ task[w].decision = d /\ task[w].heightened = h
    /\ ~ ScoresAt(w, t, Keeping) =>
          scored[t] = [decision |-> d, heightened |-> h] /\ ~ ScoresAt(w, t, Deciding)
    /\ [tx |-> t, flagged |-> FALSE] \in observed => h = FALSE /\ ~ ScoresAt(w, t, {"observe"})

SoleRow(t, w) == \E d \in Decision, h \in BOOLEAN : SoleRowOf(t, w, d, h)

Tallied(t) ==
    \/ scorers[t] = {} /\ Blank(t)
    \/ \E w \in Servers : scorers[t] = {w} /\ SoleRow(t, w)
    \/ Rows(t) >= 2 /\ \E a, b \in scorers[t] : a # b

\* Who has scored t is about to retain the score, or finds it retained.
Spent(w, t) ==
    w \in scorers[t] => /\ ~ ScoresAt(w, t, Deciding)
                       /\ (ScoresAt(w, t, Keeping) \/ scored[t] # NoEntry)

\* A score retained, or about to be, is that of a row.
Rowed(w) == point[w] \in Keeping => rows[task[w].tx][task[w].decision] > 0
Backed(t) == scored[t] # NoEntry => rows[t][scored[t].decision] > 0

ScoringInv ==
    /\ \A w \in Servers : HeardBy(w) /\ Entered(w) /\ Rowed(w)
    /\ \A w \in Servers, t \in Transactions : Spent(w, t)
    /\ \A t \in Transactions : Tallied(t) /\ Rows(t) = Cardinality(scorers[t]) /\ Backed(t)

\* What has been said of a customer stays said.
LEMMA ConfirmedStays ==
    ASSUME DataType, NEW w \in Servers, StepOf(w), Confirmed
    PROVE  Confirmed'
<1>1. CASE BeginVerdict(w)
  <2>1. PICK k \in Key : verdicts' = Append(verdicts, k)
    BY <1>1 DEF BeginVerdict
  <2>2. PICK i \in DOMAIN verdicts : verdicts[i].label = "FRAUD"
    BY DEF Confirmed
  <2>3. i \in DOMAIN verdicts' /\ verdicts'[i] = verdicts[i]
    BY <2>1, <2>2 DEF DataType
  <2> QED
    BY <2>2, <2>3 DEF Confirmed
<1>2. CASE ~ BeginVerdict(w)
  <2>1. verdicts' = verdicts
    BY <1>2 DEF StepOf, BeginScore, BeginExplain, ReadLabels, DecideScore, UpstreamFails, AddRow, Observe,
           Retain, SetLookup, AddAlert, RetainExplanation, CheckKey, CountRecords, AppendRecord,
           IndexKey, TellMonitor, MonitorFails, feedback
  <2> QED
    BY <2>1 DEF Confirmed
<1> QED
  BY <1>1, <1>2

\* A step that is none of the three stores of a scoring leaves its data alone.
LEMMA QuietData ==
    ASSUME NEW w \in Servers, StepOf(w), ~ AddRow(w), ~ Observe(w), ~ Retain(w)
    PROVE  rows' = rows /\ scorers' = scorers /\ scored' = scored /\ observed' = observed
  BY DEF StepOf, BeginScore, BeginExplain, ReadLabels, DecideScore, UpstreamFails, SetLookup, AddAlert,
         RetainExplanation, BeginVerdict, CheckKey, CountRecords, AppendRecord, IndexKey, TellMonitor,
         MonitorFails, desk

\* Such a step neither enters nor leaves those stores, and starts to decide
\* only on a transaction whose score is missing.
LEMMA QuietJob ==
    ASSUME JobsType, DataType, NEW w \in Servers, StepOf(w), ~ AddRow(w), ~ Observe(w), ~ Retain(w)
    PROVE  /\ point[w] \notin Keeping /\ point'[w] \notin Keeping
           /\ point'[w] \in Deciding => \/ point[w] \in Deciding /\ task'[w].tx = task[w].tx
                                     \/ scored[task'[w].tx] = NoEntry
<1> USE DEF Keeping, Deciding
<1>1. CASE BeginScore(w)
  <2>1. PICK t \in Transactions, op \in {"score", "explain"} :
            scored[t] = NoEntry /\ Learn(w, "labels", Fresh(op, t)) /\ point[w] = "idle"
    BY <1>1 DEF BeginScore
  <2>2. point'[w] = "labels" /\ task'[w].tx = t
    BY <2>1, LearnOthers DEF Fresh
  <2> QED
    BY <2>1, <2>2
<1>2. CASE ReadLabels(w) \/ DecideScore(w)
  <2>1. task[w] \in ScoreJob /\ point[w] \in {"labels", "flag"}
    BY <1>2 DEF JobsType, Fits, ReadLabels, DecideScore, Judging
  <2>p. PICK p \in {"flag", "row"} : \E h, d :
            \/ Learn(w, p, [task[w] EXCEPT !.heightened = h])
            \/ Learn(w, p, [task[w] EXCEPT !.flagged = h, !.decision = d])
    BY <1>2 DEF ReadLabels, DecideScore
  <2>2. PICK h, d :
            \/ Learn(w, p, [task[w] EXCEPT !.heightened = h])
            \/ Learn(w, p, [task[w] EXCEPT !.flagged = h, !.decision = d])
    BY <2>p
  <2>3. \/ point'[w] = p /\ task'[w] = [task[w] EXCEPT !.heightened = h]
        \/ point'[w] = p /\ task'[w] = [task[w] EXCEPT !.flagged = h, !.decision = d]
    BY <2>2, LearnOthers
  <2>4. task'[w].tx = task[w].tx
    <3>1. CASE task'[w] = [task[w] EXCEPT !.heightened = h]
      BY <2>1, <3>1, ScoreJobKeeps
    <3>2. CASE task'[w] = [task[w] EXCEPT !.flagged = h, !.decision = d]
      BY <2>1, <3>2, ScoreJobKeeps
    <3> QED
      BY <2>3, <3>1, <3>2
  <2> QED
    BY <2>1, <2>3, <2>4
<1>3. CASE BeginExplain(w) \/ BeginVerdict(w) \/ CountRecords(w)
  <2>1. point[w] \in {"idle", "count"} /\ \E p \in {"investigate", "check", "append"} : \E j : Learn(w, p, j)
    BY <1>3 DEF BeginExplain, BeginVerdict, CountRecords
  <2> QED
    BY <2>1, LearnOthers
<1>4. CASE SetLookup(w) \/ AddAlert(w)
  <2>1. task[w] \in ScoreJob /\ point[w] \in {"lookup", "alert"}
    BY <1>4 DEF JobsType, Fits, SetLookup, AddAlert, Judging
  <2>2. NextAfterScore(w) \/ NextCall(w, "alert")
    BY <1>4 DEF SetLookup, AddAlert
  <2> QED
    BY <2>1, <2>2, NextAfterScoreType, GoOnOthers
<1>5. CASE CheckKey(w) \/ AppendRecord(w) \/ IndexKey(w)
  <2>1. point[w] \in {"check", "append", "index"} /\ \E p \in {"count", "index", "monitor"} : NextCall(w, p)
    BY <1>5 DEF CheckKey, AppendRecord, IndexKey
  <2> QED
    BY <2>1, GoOnOthers
<1>6. CASE UpstreamFails(w) \/ RetainExplanation(w) \/ TellMonitor(w) \/ MonitorFails(w)
  <2>1. point[w] \in {"labels", "flag", "investigate", "monitor"} /\ AnswerDesk(w)
    BY <1>6 DEF UpstreamFails, RetainExplanation, TellMonitor, MonitorFails
  <2> QED
    BY <2>1, AnswerOthers
<1> QED
  BY <1>1, <1>2, <1>3, <1>4, <1>5, <1>6 DEF StepOf

LEMMA HeardStep ==
    ASSUME JobsType, DataType, ScoringInv, NEW w \in Servers, StepOf(w), NEW v \in Servers
    PROVE  HeardBy(v)'
<1> USE DEF Keeping
<1>1. CASE v # w
  <2>1. point'[v] = point[v] /\ task'[v] = task[v]
    BY <1>1, JobsStep DEF OthersKeep
  <2> QED
    BY <2>1, ConfirmedStays DEF ScoringInv, HeardBy
<1>2. CASE v = w /\ ReadLabels(w)
  <2>1. task[w] \in ScoreJob
    BY <1>2 DEF JobsType, Fits, ReadLabels, Judging
  <2>3. Learn(w, "flag", [task[w] EXCEPT !.heightened = Confirmed]) /\ verdicts' = verdicts
    BY <1>2 DEF ReadLabels, feedback
  <2>2. point'[w] = "flag" /\ task'[w].heightened = Confirmed /\ verdicts' = verdicts
    <3>1. point'[w] = "flag" /\ task'[w] = [task[w] EXCEPT !.heightened = Confirmed]
      BY <2>3, LearnOthers
    <3> QED
      BY <2>1, <2>3, <3>1, ScoreJobKeeps
  <2> QED
    BY <1>2, <2>2 DEF HeardBy, Confirmed
<1>3. CASE v = w /\ DecideScore(w)
  <2>1. task[w] \in ScoreJob /\ point[w] = "flag"
    BY <1>3 DEF JobsType, Fits, DecideScore, Judging
  <2>2. PICK d \in Decision : Learn(w, "row", [task[w] EXCEPT !.flagged = Confirmed, !.decision = d])
    BY <1>3 DEF DecideScore
  <2>4. point'[w] = "row" /\ task'[w] = [task[w] EXCEPT !.flagged = Confirmed, !.decision = d]
    BY <2>2, LearnOthers
  <2>3. point'[w] = "row" /\ task'[w].flagged = Confirmed /\ task'[w].heightened = task[w].heightened
    BY <2>1, <2>4, ScoreJobKeeps
  <2> QED
    BY <1>3, <2>1, <2>3 DEF ScoringInv, HeardBy
<1>4. CASE v = w /\ (AddRow(w) \/ Observe(w) \/ Retain(w))
  <2>1. point[w] \in {"row"} \cup Keeping /\ \E p \in {"observe", "retain", "lookup"} : NextCall(w, p)
    BY <1>4 DEF AddRow, Observe, Retain
  <2>2. point'[w] \in {"observe", "retain", "lookup"} /\ task'[w] = task[w]
    BY <2>1, GoOnOthers
  <2> QED
    BY <1>4, <2>1, <2>2 DEF ScoringInv, HeardBy
<1>5. CASE v = w /\ ~ ReadLabels(w) /\ ~ DecideScore(w) /\ ~ AddRow(w) /\ ~ Observe(w) /\ ~ Retain(w)
  <2>1. point'[w] \notin {"flag", "row"}
    <3>1. CASE \E p \in {"labels", "investigate", "check", "append", "idle"} : \E j : Learn(w, p, j)
      BY <3>1, LearnOthers
    <3>2. CASE \E p \in {"alert", "investigate", "count", "index", "monitor"} : NextCall(w, p)
      BY <3>2, GoOnOthers
    <3> QED
      BY <1>5, <3>1, <3>2 DEF StepOf, BeginScore, BeginExplain, UpstreamFails, SetLookup, AddAlert,
         RetainExplanation, BeginVerdict, CheckKey, CountRecords, AppendRecord, IndexKey, TellMonitor,
         MonitorFails, NextAfterScore, AnswerDesk
  <2>2. point'[w] \notin Keeping
    BY <1>5, QuietJob
  <2> QED
    BY <1>5, <2>1, <2>2 DEF HeardBy
<1> QED
  BY <1>1, <1>2, <1>3, <1>4, <1>5

LEMMA EnteredStep ==
    ASSUME JobsType, DataType, ScoringInv, NEW w \in Servers, StepOf(w), NEW v \in Servers
    PROVE  Entered(v)'
<1>1. \A t \in Transactions : scorers[t] \subseteq scorers'[t]
  <2>1. CASE AddRow(w)
    <3>1. scorers' = [scorers EXCEPT ![task[w].tx] = @ \cup {w}]
      BY <2>1 DEF AddRow
    <3> QED
      BY <3>1 DEF DataType
  <2>2. CASE ~ AddRow(w)
    BY <2>2, QuietData DEF Observe, Retain
  <2> QED
    BY <2>1, <2>2
<1>2. CASE v # w
  <2>1. point'[v] = point[v] /\ task'[v] = task[v]
    BY <1>2, JobsStep DEF OthersKeep
  <2>2. point[v] \in Keeping => task[v].tx \in Transactions
    BY ScoreJobFields DEF JobsType, Fits, Keeping, Judging
  <2> QED
    BY <1>1, <2>1, <2>2 DEF ScoringInv, Entered
<1>3. CASE v = w /\ AddRow(w)
  <2>1. task[w] \in ScoreJob
    BY <1>3 DEF JobsType, Fits, AddRow, Judging
  <2>2. task[w].tx \in Transactions
    BY <2>1, ScoreJobFields
  <2>3. scorers' = [scorers EXCEPT ![task[w].tx] = @ \cup {w}] /\ task' = task
    BY <1>3 DEF AddRow, NextCall
  <2> QED
    BY <1>3, <2>2, <2>3 DEF DataType, Entered
<1>4. CASE v = w /\ (Observe(w) \/ Retain(w))
  <2>1. point[w] \in Keeping /\ task' = task /\ scorers' = scorers
    BY <1>4 DEF Observe, Retain, NextCall, Keeping
  <2> QED
    BY <1>4, <2>1 DEF ScoringInv, Entered
<1>5. CASE v = w /\ ~ AddRow(w) /\ ~ Observe(w) /\ ~ Retain(w)
  BY <1>5, QuietJob DEF Entered
<1> QED
  BY <1>2, <1>3, <1>4, <1>5

\* What a step does to another worker, or to another transaction, leaves what
\* is known of the only scorer of t.
LEMMA SoleRowKeeps ==
    ASSUME NEW t, NEW v, SoleRow(t, v), task'[v] = task[v], point'[v] = point[v] \/ task[v].tx # t,
           rows'[t] = rows[t], scored'[t] = scored[t],
           [tx |-> t, flagged |-> FALSE] \in observed' => [tx |-> t, flagged |-> FALSE] \in observed
    PROVE  SoleRow(t, v)'
<1>1. \A steps : ScoresAt(v, t, steps)' <=> ScoresAt(v, t, steps)
  BY DEF ScoresAt
<1>2. PICK d \in Decision, h \in BOOLEAN : SoleRowOf(t, v, d, h)
  BY DEF SoleRow
<1>3. SoleRowOf(t, v, d, h)'
  BY <1>1, <1>2 DEF SoleRowOf, ScoresAt
<1> QED
  BY <1>3 DEF SoleRow

LEMMA QuietTally ==
    ASSUME JobsType, DataType, NEW w \in Servers, StepOf(w), ~ AddRow(w), ~ Observe(w), ~ Retain(w),
           NEW t \in Transactions, Tallied(t)
    PROVE  Tallied(t)'
<1>1. rows' = rows /\ scorers' = scorers /\ scored' = scored /\ observed' = observed
  BY QuietData
<1>2. CASE scorers[t] = {} /\ Blank(t)
  BY <1>1, <1>2 DEF Tallied, Blank
<1>3. CASE Rows(t) >= 2 /\ \E a, b \in scorers[t] : a # b
  BY <1>1, <1>3 DEF Tallied, Rows
<1>4. ASSUME NEW v \in Servers, scorers[t] = {v}, SoleRow(t, v) PROVE SoleRow(t, v)'
  <2>1. CASE v # w
    <3>1. point'[v] = point[v] /\ task'[v] = task[v]
      BY <2>1, JobsStep DEF OthersKeep
    <3> QED
      BY <1>1, <1>4, <3>1, SoleRowKeeps
  <2>2. CASE v = w
    <3>1. PICK d \in Decision, h \in BOOLEAN : SoleRowOf(t, w, d, h)
      BY <1>4, <2>2 DEF SoleRow
    <3>2. point[w] \notin Keeping /\ point'[w] \notin Keeping
      BY QuietJob
    <3>3. scored[t] = [decision |-> d, heightened |-> h] /\ ~ ScoresAt(w, t, Deciding)
      BY <3>1, <3>2 DEF SoleRowOf, ScoresAt
    <3>4. scored[t] # NoEntry
      BY <3>3, NoEntryIsAbsence DEF Score
    <3>5. ~ ScoresAt(w, t, Deciding)'
      BY <3>3, <3>4, QuietJob DEF ScoresAt
    <3>6. SoleRowOf(t, w, d, h)'
      BY <1>1, <3>1, <3>2, <3>3, <3>5 DEF SoleRowOf, ScoresAt, Keeping
    <3> QED
      BY <2>2, <3>6 DEF SoleRow
  <2> QED
    BY <2>1, <2>2
<1> QED
  BY <1>1, <1>2, <1>3, <1>4 DEF Tallied

LEMMA RowTally ==
    ASSUME JobsType, DataType, NEW w \in Servers, AddRow(w), NEW t \in Transactions, Tallied(t)
    PROVE  Tallied(t)'
<1> DEFINE u == task[w].tx
           d == task[w].decision
<1>1. task[w] \in ScoreJob /\ point[w] = "row"
  BY DEF JobsType, Fits, AddRow, Judging
<1>2. u \in Transactions /\ d \in Decision /\ task[w].heightened \in BOOLEAN
  BY <1>1, ScoreJobFields
<1>3. /\ rows' = [rows EXCEPT ![u][d] = @ + 1] /\ scorers' = [scorers EXCEPT ![u] = @ \cup {w}]
      /\ scored' = scored /\ observed' = observed
  BY DEF AddRow
<1>4. OthersKeep(w) /\ point'[w] = "observe" /\ task'[w] = task[w]
  BY GoOnOthers DEF AddRow
<1>5. rows[t] \in [Decision -> Nat] /\ scorers[t] \subseteq Servers
  BY DEF DataType
<1> HIDE DEF u, d
<1>6. CASE t # u
  <2>1. rows'[t] = rows[t] /\ scorers'[t] = scorers[t]
    BY <1>2, <1>3, <1>6 DEF DataType
  <2>2. \A v \in Servers : task'[v] = task[v] /\ (point'[v] = point[v] \/ task[v].tx # t)
    BY <1>4, <1>6 DEF OthersKeep, u
  <2>3. \A v \in Servers : SoleRow(t, v) => SoleRow(t, v)'
    BY <1>3, <2>1, <2>2, SoleRowKeeps
  <2>4. Blank(t) => Blank(t)'
    BY <1>3, <2>1 DEF Blank
  <2>5. Rows(t)' = Rows(t)
    BY <2>1 DEF Rows
  <2> QED
    BY <2>1, <2>3, <2>4, <2>5 DEF Tallied
<1>7. CASE t = u
  <2>1. rows'[t] = [rows[t] EXCEPT ![d] = @ + 1] /\ scorers'[t] = scorers[t] \cup {w}
    BY <1>2, <1>3, <1>7 DEF DataType
  <2>2. Rows(t)' = Rows(t) + 1 /\ Rows(t) \in Nat
    BY <1>2, <1>5, <2>1 DEF Rows, Decision
  <2>3. CASE scorers[t] = {} /\ Blank(t)
    <3>4. PICK c \in Decision, h \in BOOLEAN : c = d /\ h = task[w].heightened
      BY <1>2
    <3>1. rows'[t] = [e \in Decision |-> IF e = c THEN 1 ELSE 0]
      BY <1>2, <1>5, <2>1, <2>3, <3>4 DEF Blank
    <3>2. SoleRowOf(t, w, c, h)'
      BY <1>3, <1>4, <1>7, <2>3, <3>1, <3>4 DEF SoleRowOf, ScoresAt, Keeping, Blank, u, d
    <3>3. SoleRow(t, w)'
      BY <3>2 DEF SoleRow
    <3> QED
      BY <2>1, <2>3, <3>3 DEF Tallied
  <2>4. ASSUME NEW v \in Servers, scorers[t] = {v}, SoleRow(t, v)
        PROVE  Rows(t)' >= 2 /\ \E a, b \in scorers'[t] : a # b
    <3>1. PICK e \in Decision, h \in BOOLEAN : SoleRowOf(t, v, e, h)
      BY <2>4 DEF SoleRow
    <3>2. v # w
      BY <1>1, <1>7, <3>1 DEF SoleRowOf, ScoresAt, Keeping, Deciding, u
    <3>3. Rows(t) = 1
      BY <3>1 DEF SoleRowOf, Rows, Decision
    <3> QED
      BY <2>1, <2>2, <2>4, <3>2, <3>3
  <2>5. ASSUME Rows(t) >= 2, \E a, b \in scorers[t] : a # b
        PROVE  Rows(t)' >= 2 /\ \E a, b \in scorers'[t] : a # b
    BY <2>1, <2>2, <2>5
  <2> QED
    BY <2>3, <2>4, <2>5 DEF Tallied
<1> QED
  BY <1>6, <1>7

\* Telling the graph and retaining the score are for those who added a row.
LEMMA KeepingTally ==
    ASSUME JobsType, DataType, NEW w \in Servers, HeardBy(w), Entered(w), Observe(w) \/ Retain(w),
           NEW t \in Transactions, Tallied(t)
    PROVE  Tallied(t)'
<1> DEFINE u == task[w].tx
<1>1. task[w] \in ScoreJob /\ point[w] \in Keeping
  BY DEF JobsType, Fits, Observe, Retain, Judging, Keeping
<1>2. u \in Transactions /\ w \in scorers[u]
  BY <1>1, ScoreJobFields DEF Entered
<1>3. rows' = rows /\ scorers' = scorers
  BY DEF Observe, Retain
<1>4. OthersKeep(w) /\ task'[w] = task[w] /\ point'[w] = IF Observe(w) THEN "retain" ELSE "lookup"
  BY GoOnOthers DEF Observe, Retain
<1>5. \/ observed' = observed \cup {[tx |-> u, flagged |-> task[w].flagged]} /\ scored' = scored
      \/ observed' = observed /\ scored' = scored
      \/ /\ observed' = observed
         /\ scored' = [scored EXCEPT ![u] = [decision |-> task[w].decision, heightened |-> task[w].heightened]]
  BY DEF Observe, Retain
<1> HIDE DEF u
<1>6. CASE t # u
  <2>1. scored'[t] = scored[t]
    BY <1>2, <1>5, <1>6 DEF DataType
  <2>2. [tx |-> t, flagged |-> FALSE] \in observed' <=> [tx |-> t, flagged |-> FALSE] \in observed
    BY <1>5, <1>6
  <2>3. \A v \in Servers : task'[v] = task[v] /\ (point'[v] = point[v] \/ task[v].tx # t)
    BY <1>4, <1>6 DEF OthersKeep, u
  <2>4. \A v \in Servers : SoleRow(t, v) => SoleRow(t, v)'
    BY <1>3, <2>1, <2>2, <2>3, SoleRowKeeps
  <2>5. Blank(t) => Blank(t)'
    BY <1>3, <2>1, <2>2 DEF Blank
  <2> QED
    BY <1>3, <2>4, <2>5 DEF Tallied, Rows
<1>7. CASE t = u
  <2>1. scorers[t] # {}
    BY <1>2, <1>7
  <2>2. ASSUME NEW v \in Servers, scorers[t] = {v}, SoleRow(t, v) PROVE SoleRow(t, v)'
    <3>1. v = w
      BY <1>2, <1>7, <2>2
    <3>2. PICK d \in Decision, h \in BOOLEAN : SoleRowOf(t, w, d, h)
      BY <2>2, <3>1 DEF SoleRow
    <3>3. ScoresAt(w, t, Keeping) /\ task[w].decision = d /\ task[w].heightened = h /\ scored[t] = NoEntry
      BY <1>1, <1>7, <3>2 DEF SoleRowOf, ScoresAt, u
    <3>4. CASE Observe(w)
      <4>1. point[w] = "observe" /\ point'[w] = "retain" /\ scored' = scored
        BY <1>4, <3>4 DEF Observe
      <4>2. [tx |-> t, flagged |-> FALSE] \notin observed
        BY <1>7, <3>2, <4>1 DEF SoleRowOf, ScoresAt, u
      <4>3. [tx |-> t, flagged |-> FALSE] \in observed' => task[w].flagged = FALSE
        BY <1>5, <4>2
      <4>4. [tx |-> t, flagged |-> FALSE] \in observed' => h = FALSE
        BY <1>1, <3>3, <4>3 DEF HeardBy, Keeping
      <4>5. SoleRowOf(t, w, d, h)'
        BY <1>3, <1>4, <1>7, <3>2, <3>3, <4>1, <4>4 DEF SoleRowOf, ScoresAt, Keeping, u
      <4> QED
        BY <3>1, <4>5 DEF SoleRow
    <3>5. CASE Retain(w)
      <4>1. point[w] = "retain" /\ point'[w] = "lookup" /\ observed' = observed
        BY <1>4, <3>5 DEF Observe, Retain
      <4>2. scored'[t] = [decision |-> d, heightened |-> h]
        BY <1>7, <3>3, <3>5 DEF Retain, DataType, u
      <4>3. SoleRowOf(t, w, d, h)'
        BY <1>3, <1>4, <3>2, <4>1, <4>2 DEF SoleRowOf, ScoresAt, Keeping, Deciding
      <4> QED
        BY <3>1, <4>3 DEF SoleRow
    <3> QED
      BY <3>4, <3>5
  <2>3. Rows(t)' = Rows(t) /\ scorers'[t] = scorers[t]
    BY <1>3 DEF Rows
  <2> QED
    BY <2>1, <2>2, <2>3 DEF Tallied
<1> QED
  BY <1>6, <1>7

\* What a request for a row, or a retention, knows and changes.
LEMMA StoringJob ==
    ASSUME JobsType, DataType, NEW w \in Servers, AddRow(w) \/ Observe(w) \/ Retain(w)
    PROVE  /\ task[w].tx \in Transactions /\ task[w].decision \in Decision
           /\ task[w].heightened \in BOOLEAN
           /\ task'[w] = task[w] /\ OthersKeep(w)
           /\ AddRow(w) => point[w] = "row" /\ point'[w] = "observe"
           /\ Observe(w) => point[w] = "observe" /\ point'[w] = "retain"
           /\ Retain(w) => point[w] = "retain" /\ point'[w] = "lookup"
<1>1. task[w] \in ScoreJob
  BY DEF JobsType, Fits, AddRow, Observe, Retain, Judging
<1>2. CASE AddRow(w)
  BY <1>1, <1>2, ScoreJobFields, GoOnOthers DEF AddRow, Observe, Retain
<1>3. CASE Observe(w)
  BY <1>1, <1>3, ScoreJobFields, GoOnOthers DEF AddRow, Observe, Retain
<1>4. CASE Retain(w)
  BY <1>1, <1>4, ScoreJobFields, GoOnOthers DEF AddRow, Observe, Retain
<1> QED
  BY <1>2, <1>3, <1>4

\* Rows only become more.
LEMMA RowsGrow ==
    ASSUME JobsType, DataType, NEW w \in Servers, StepOf(w), NEW t \in Transactions, NEW d \in Decision
    PROVE  /\ rows[t][d] > 0 => rows'[t][d] > 0
           /\ AddRow(w) /\ task[w].tx = t /\ task[w].decision = d => rows'[t][d] > 0
<1>1. CASE AddRow(w)
  <2>1. task[w].tx \in Transactions /\ task[w].decision \in Decision
    BY <1>1, StoringJob
  <2>2. rows' = [rows EXCEPT ![task[w].tx][task[w].decision] = @ + 1]
    BY <1>1 DEF AddRow
  <2>3. rows[t][d] \in Nat
    BY DEF DataType
  <2>4. rows'[t][d] = IF task[w].tx = t /\ task[w].decision = d THEN rows[t][d] + 1 ELSE rows[t][d]
    BY <2>1, <2>2 DEF DataType
  <2> QED
    BY <2>3, <2>4
<1>2. CASE ~ AddRow(w)
  <2>1. rows' = rows
    BY <1>2, QuietData DEF Observe, Retain
  <2> QED
    BY <1>2, <2>1
<1> QED
  BY <1>1, <1>2

LEMMA RowedStep ==
    ASSUME JobsType, DataType, ScoringInv, NEW w \in Servers, StepOf(w), NEW v \in Servers
    PROVE  Rowed(v)'
<1>1. CASE v # w
  <2>1. point'[v] = point[v] /\ task'[v] = task[v]
    BY <1>1, JobsStep DEF OthersKeep
  <2>2. point[v] \in Keeping => task[v].tx \in Transactions /\ task[v].decision \in Decision
    BY ScoreJobFields DEF JobsType, Fits, Keeping, Judging
  <2> QED
    BY <2>1, <2>2, RowsGrow DEF ScoringInv, Rowed
<1>2. CASE v = w /\ (AddRow(w) \/ Observe(w) \/ Retain(w))
  <2>1. /\ task'[w] = task[w] /\ task[w].tx \in Transactions /\ task[w].decision \in Decision
        /\ AddRow(w) \/ point[w] \in Keeping
    BY <1>2, StoringJob DEF Keeping
  <2> QED
    BY <1>2, <2>1, RowsGrow DEF ScoringInv, Rowed
<1>3. CASE v = w /\ ~ AddRow(w) /\ ~ Observe(w) /\ ~ Retain(w)
  BY <1>3, QuietJob DEF Rowed
<1> QED
  BY <1>1, <1>2, <1>3

LEMMA BackedStep ==
    ASSUME JobsType, DataType, ScoringInv, NEW w \in Servers, StepOf(w), NEW t \in Transactions
    PROVE  Backed(t)'
<1>1. CASE Retain(w) /\ task[w].tx = t
  <2>1. /\ task[w].decision \in Decision /\ point[w] \in Keeping
        /\ rows' = rows
        /\ scored' = [scored EXCEPT ![t] = [decision |-> task[w].decision, heightened |-> task[w].heightened]]
    BY <1>1, StoringJob DEF Retain, Keeping
  <2>2. scored'[t].decision = task[w].decision /\ rows'[t][task[w].decision] > 0
    BY <1>1, <2>1 DEF ScoringInv, Rowed, DataType
  <2> QED
    BY <2>2 DEF Backed
<1>2. CASE ~ (Retain(w) /\ task[w].tx = t)
  <2>1. scored'[t] = scored[t]
    <3>1. CASE Retain(w)
      BY <1>2, <3>1, StoringJob DEF Retain, DataType
    <3>2. CASE ~ Retain(w)
      BY <3>2, QuietData DEF AddRow, Observe
    <3> QED
      BY <3>1, <3>2
  <2>2. scored[t] # NoEntry => scored[t].decision \in Decision
    BY DEF DataType, Score
  <2> QED
    BY <2>1, <2>2, RowsGrow DEF ScoringInv, Backed
<1> QED
  BY <1>1, <1>2

LEMMA SpentStep ==
    ASSUME JobsType, DataType, ScoringInv, NEW w \in Servers, StepOf(w), NEW t \in Transactions,
           NEW v \in Servers
    PROVE  Spent(v, t)'
<1>1. Spent(v, t) /\ (scored[t] # NoEntry => scored'[t] # NoEntry)
  BY ScoredStays DEF ScoringInv
<1>2. CASE v # w
  <2>1. point'[v] = point[v] /\ task'[v] = task[v]
    BY <1>2, JobsStep DEF OthersKeep
  <2>2. v \in scorers'[t] => v \in scorers[t]
    <3>1. CASE AddRow(w)
      BY <1>2, <3>1, StoringJob DEF AddRow, DataType
    <3>2. CASE ~ AddRow(w)
      BY <3>2, QuietData DEF Observe, Retain
    <3> QED
      BY <3>1, <3>2
  <2> QED
    BY <1>1, <2>1, <2>2 DEF Spent, ScoresAt
<1>3. CASE v = w /\ AddRow(w)
  <2>1. /\ task'[w] = task[w] /\ point[w] = "row" /\ point'[w] = "observe"
        /\ scorers' = [scorers EXCEPT ![task[w].tx] = @ \cup {w}]
    BY <1>3, StoringJob DEF AddRow
  <2>2. task[w].tx # t => scorers'[t] = scorers[t]
    BY <2>1 DEF DataType
  <2> QED
    BY <1>1, <1>3, <2>1, <2>2 DEF Spent, ScoresAt, Keeping, Deciding
<1>4. CASE v = w /\ Observe(w)
  <2>1. /\ task'[w] = task[w] /\ point[w] = "observe" /\ point'[w] = "retain" /\ scorers' = scorers
    BY <1>4, StoringJob DEF Observe
  <2> QED
    BY <1>1, <1>4, <2>1 DEF Spent, ScoresAt, Keeping, Deciding
<1>5. CASE v = w /\ Retain(w)
  <2>1. /\ task'[w] = task[w] /\ point[w] = "retain" /\ point'[w] = "lookup" /\ scorers' = scorers
        /\ scored' = [scored EXCEPT ![task[w].tx] =
                         [decision |-> task[w].decision, heightened |-> task[w].heightened]]
        /\ task[w].decision \in Decision /\ task[w].heightened \in BOOLEAN
    BY <1>5, StoringJob DEF Retain
  <2>2. task[w].tx = t => scored'[t] # NoEntry
    BY <2>1, NoEntryIsAbsence DEF DataType, Score
  <2> QED
    BY <1>1, <1>5, <2>1, <2>2 DEF Spent, ScoresAt, Keeping, Deciding
<1>6. CASE v = w /\ ~ AddRow(w) /\ ~ Observe(w) /\ ~ Retain(w)
  <2>1. /\ point[w] \notin Keeping /\ point'[w] \notin Keeping
        /\ point'[w] \in Deciding => \/ point[w] \in Deciding /\ task'[w].tx = task[w].tx
                                  \/ scored[task'[w].tx] = NoEntry
    BY <1>6, QuietJob
  <2>2. scorers' = scorers
    BY <1>6, QuietData
  <2> QED
    BY <1>1, <1>6, <2>1, <2>2 DEF Spent, ScoresAt
<1> QED
  BY <1>2, <1>3, <1>4, <1>5, <1>6

\* Who adds a row has added none before, so rows and scorers grow together.
LEMMA CountStep ==
    ASSUME JobsType, DataType, ScoringInv, NEW w \in Servers, StepOf(w), NEW t \in Transactions
    PROVE  Rows(t)' = Cardinality(scorers[t])'
<1>1. Rows(t) = Cardinality(scorers[t]) /\ Spent(w, t)
  BY DEF ScoringInv
<1>2. CASE AddRow(w) /\ task[w].tx = t
  <2>1. /\ task[w].decision \in Decision /\ point[w] = "row"
        /\ rows' = [rows EXCEPT ![t][task[w].decision] = @ + 1]
        /\ scorers' = [scorers EXCEPT ![t] = @ \cup {w}]
    BY <1>2, StoringJob DEF AddRow
  <2>2. rows[t] \in [Decision -> Nat] /\ scorers[t] \subseteq Servers
    BY DEF DataType
  <2>3. rows'[t] = [rows[t] EXCEPT ![task[w].decision] = @ + 1] /\ scorers'[t] = scorers[t] \cup {w}
    BY <2>1 DEF DataType
  <2>4. rows'[t]["PASS"] + rows'[t]["HOLD"] = rows[t]["PASS"] + rows[t]["HOLD"] + 1
    BY <2>1, <2>2, <2>3 DEF Decision
  <2>5. w \notin scorers[t]
    BY <1>1, <1>2, <2>1 DEF Spent, ScoresAt, Deciding
  <2>6. IsFiniteSet(scorers[t])
    BY <2>2, ServersFinite, FS_Subset
  <2>7. Cardinality(scorers[t] \cup {w}) = Cardinality(scorers[t]) + 1
    BY <2>5, <2>6, FS_AddElement
  <2> QED
    BY <1>1, <2>3, <2>4, <2>7 DEF Rows
<1>3. CASE ~ (AddRow(w) /\ task[w].tx = t)
  <2>1. rows'[t] = rows[t] /\ scorers'[t] = scorers[t]
    <3>1. CASE AddRow(w)
      BY <1>3, <3>1, StoringJob DEF AddRow, DataType
    <3>2. CASE ~ AddRow(w)
      BY <3>2, QuietData DEF Observe, Retain
    <3> QED
      BY <3>1, <3>2
  <2> QED
    BY <1>1, <2>1 DEF Rows
<1> QED
  BY <1>2, <1>3

LEMMA ScoringStep ==
    ASSUME JobsType, DataType, ScoringInv, NEW w \in Servers, StepOf(w)
    PROVE  ScoringInv'
<1>1. \A v \in Servers : HeardBy(v)' /\ Entered(v)' /\ Rowed(v)'
  BY HeardStep, EnteredStep, RowedStep
<1>2. \A t \in Transactions : Tallied(t)'
  BY QuietTally, RowTally, KeepingTally DEF ScoringInv
<1>3. \A t \in Transactions : Rows(t)' = Cardinality(scorers[t])' /\ Backed(t)'
  BY CountStep, BackedStep
<1>4. \A v \in Servers, t \in Transactions : Spent(v, t)'
  BY SpentStep
<1> QED
  BY <1>1, <1>2, <1>3, <1>4 DEF ScoringInv

-----------------------------------------------------------------------------
(* Judging, by one worker alone.                                             *)

Filed(w) == point[w] \in Judging => w \in judges[task[w].key.tx]

Logged(k) == \E i \in DOMAIN log : log[i].key = k

Indexed ==
    /\ \A k \in filed : Logged(k)
    /\ \A w \in Servers : point[w] = "index" => Logged(task[w].key)

\* Identifiers never run ahead of the positions in the log.
Numbered ==
    /\ \A i \in DOMAIN log : log[i].id <= i
    /\ \A w \in Servers : point[w] = "append" => task[w].id <= Len(log) + 1

\* What w has logged is indexed, but for the record that w has just appended;
\* so what it is about to log is new to its records, in key and identifier.
OwnLog(w) ==
    /\ \A i, j \in DOMAIN log :
          i < j /\ log[i].by = w /\ log[j].by = w =>
              log[i].key # log[j].key /\ log[i].id < log[j].id
    /\ \A i \in DOMAIN log : log[i].by = w =>
          /\ log[i].key \in filed \/ (point[w] = "index" /\ log[i].key = task[w].key)
          /\ point[w] \in {"count", "append"} => log[i].key # task[w].key
          /\ point[w] = "append" => i < task[w].id

Newest(t, i) ==
    /\ i \in DOMAIN verdicts /\ verdicts[i].tx = t
    /\ \A j \in DOMAIN verdicts : verdicts[j].tx = t => j <= i

Forwards(w, t) == point[w] \in Judging /\ task[w].key.tx = t

\* All verdicts on t are w's: it is forwarding the newest, or has done so.
SoleVerdict(t, w) ==
    \E i \in DOMAIN verdicts :
        /\ Newest(t, i)
        /\ Forwards(w, t) => task[w].key = verdicts[i]
        /\ ~ Forwards(w, t) => t \in dropped \/ monitor[t] = verdicts[i].label

JudgingInv ==
    /\ \A w \in Servers : Filed(w) /\ OwnLog(w)
    /\ Indexed /\ Numbered
    /\ \A t \in Transactions, w \in Servers : judges[t] = {w} => SoleVerdict(t, w)

\* A list keeps what it holds when something is appended.
LEMMA Appended ==
    ASSUME NEW S, NEW s \in Seq(S), NEW x \in S
    PROVE  /\ Append(s, x) \in Seq(S) /\ Len(Append(s, x)) = Len(s) + 1
           /\ \A i \in DOMAIN s : i \in DOMAIN Append(s, x) /\ Append(s, x)[i] = s[i] /\ i <= Len(s)
           /\ Append(s, x)[Len(s) + 1] = x /\ Len(s) + 1 \in DOMAIN Append(s, x)
           /\ \A i \in DOMAIN Append(s, x) : i \in DOMAIN s \/ i = Len(s) + 1
           /\ Len(s) + 1 \notin DOMAIN s
  OBVIOUS

\* The records of the log, and where they stand.
LEMMA Element ==
    ASSUME NEW S, NEW s \in Seq(S), NEW i \in DOMAIN s
    PROVE  s[i] \in S /\ i \in Nat /\ i <= Len(s) /\ Len(s) \in Nat
  OBVIOUS

LEMMA LogElement ==
    ASSUME DataType, NEW i \in DOMAIN log
    PROVE  /\ log[i].id \in Nat /\ log[i].key \in Key /\ log[i].by \in Servers
           /\ i \in Nat /\ i <= Len(log) /\ Len(log) \in Nat
<1>1. PICK R : R = [id : Nat, key : Key, by : Servers]
  OBVIOUS
<1>2. log \in Seq(R)
  BY <1>1 DEF DataType
<1>3. log[i] \in R /\ i \in Nat /\ i <= Len(log) /\ Len(log) \in Nat
  BY <1>2, Element
<1> QED
  BY <1>1, <1>3

\* A verdict taken up, a record filed, a label delivered: what changes.
LEMMA QuietFeedback ==
    ASSUME NEW w \in Servers, StepOf(w)
    PROVE  /\ ~ BeginVerdict(w) => verdicts' = verdicts /\ judges' = judges
           /\ ~ AppendRecord(w) => log' = log
           /\ ~ IndexKey(w) => filed' = filed
           /\ ~ TellMonitor(w) => monitor' = monitor
           /\ ~ BeginVerdict(w) /\ ~ MonitorFails(w) => dropped' = dropped
  BY DEF StepOf, BeginScore, BeginExplain, ReadLabels, DecideScore, UpstreamFails, AddRow, Observe, Retain,
         SetLookup, AddAlert, RetainExplanation, BeginVerdict, CheckKey, CountRecords, AppendRecord,
         IndexKey, TellMonitor, MonitorFails, desk, feedback

\* A request that forwards a verdict took it up as that, and each of its
\* steps has one step before it.
LEMMA JudgingJob ==
    ASSUME JobsType, DataType, NEW w \in Servers, StepOf(w), ~ BeginVerdict(w)
    PROVE  /\ point'[w] \in Judging => point[w] \in Judging /\ task'[w].key = task[w].key
           /\ point'[w] = "count" => CheckKey(w) /\ task[w].key \notin filed /\ point[w] = "check"
           /\ point'[w] = "append" => CountRecords(w) /\ task'[w].id = Len(log) + 1 /\ point[w] = "count"
           /\ point'[w] = "index" => AppendRecord(w)
           /\ point[w] = "index" => IndexKey(w)
<1> USE DEF Judging
<1>1. CASE CountRecords(w)
  <2>1. task[w] \in VerdictJob /\ point[w] = "count"
    BY <1>1 DEF JobsType, Fits, CountRecords, Scoring, Explaining
  <2>2. point'[w] = "append" /\ task'[w] = [task[w] EXCEPT !.id = Len(log) + 1]
    BY <1>1, LearnOthers DEF CountRecords
  <2>3. task'[w].key = task[w].key /\ task'[w].id = Len(log) + 1
    BY <2>1, <2>2 DEF VerdictJob
  <2> QED
    BY <1>1, <2>1, <2>2, <2>3
<1>2. CASE CheckKey(w)
  <2>1. CASE task[w].key \notin filed /\ NextCall(w, "count")
    BY <1>2, <2>1, GoOnOthers DEF CheckKey
  <2>2. CASE NextCall(w, "monitor")
    BY <1>2, <2>2, GoOnOthers DEF CheckKey
  <2> QED
    BY <1>2, <2>1, <2>2 DEF CheckKey
<1>3. CASE AppendRecord(w)
  BY <1>3, GoOnOthers DEF AppendRecord
<1>4. CASE IndexKey(w)
  BY <1>4, GoOnOthers DEF IndexKey
<1>5. CASE TellMonitor(w) \/ MonitorFails(w) \/ UpstreamFails(w) \/ RetainExplanation(w)
  <2>1. AnswerDesk(w) /\ point[w] # "index"
    BY <1>5 DEF TellMonitor, MonitorFails, UpstreamFails, RetainExplanation
  <2> QED
    BY <2>1, AnswerOthers
<1>6. CASE BeginScore(w) \/ BeginExplain(w) \/ ReadLabels(w) \/ DecideScore(w)
  <2>1. point[w] # "index" /\ \E p \in {"labels", "investigate", "flag", "row"} : \E j : Learn(w, p, j)
    BY <1>6 DEF BeginScore, BeginExplain, ReadLabels, DecideScore
  <2> QED
    BY <2>1, LearnOthers
<1>7. CASE AddRow(w) \/ Observe(w) \/ Retain(w)
  <2>1. point[w] # "index" /\ \E p \in {"observe", "retain", "lookup"} : NextCall(w, p)
    BY <1>7 DEF AddRow, Observe, Retain
  <2> QED
    BY <2>1, GoOnOthers
<1>8. CASE SetLookup(w) \/ AddAlert(w)
  <2>1. task[w] \in ScoreJob /\ point[w] # "index"
    BY <1>8 DEF JobsType, Fits, SetLookup, AddAlert, Scoring
  <2>2. NextAfterScore(w) \/ NextCall(w, "alert")
    BY <1>8 DEF SetLookup, AddAlert
  <2> QED
    BY <2>1, <2>2, NextAfterScoreType, GoOnOthers
<1> QED
  BY <1>1, <1>2, <1>3, <1>4, <1>5, <1>6, <1>7, <1>8 DEF StepOf

\* What taking up a verdict does.
LEMMA Begun ==
    ASSUME JobsType, DataType, NEW w \in Servers, BeginVerdict(w)
    PROVE  \E k \in Key :
             /\ k.tx \in Transactions /\ verdicts' = Append(verdicts, k)
             /\ judges' = [judges EXCEPT ![k.tx] = @ \cup {w}]
             /\ dropped' = dropped \ {k.tx} /\ monitor' = monitor /\ log' = log /\ filed' = filed
             /\ point[w] = "idle" /\ point'[w] = "check" /\ task'[w].key = k
<1>1. PICK k \in Key :
         /\ verdicts' = Append(verdicts, k) /\ judges' = [judges EXCEPT ![k.tx] = @ \cup {w}]
         /\ dropped' = dropped \ {k.tx} /\ Learn(w, "check", [op |-> "verdict", key |-> k, id |-> 0])
  BY DEF BeginVerdict
<1>2. point'[w] = "check" /\ task'[w] = [op |-> "verdict", key |-> k, id |-> 0]
  BY <1>1, LearnOthers
<1>3. k.tx \in Transactions /\ task'[w].key = k
  BY <1>2 DEF Key
<1> QED
  BY <1>1, <1>2, <1>3 DEF BeginVerdict

\* Who has judged a transaction has judged it for good.
LEMMA JudgesStay ==
    ASSUME JobsType, DataType, NEW w \in Servers, StepOf(w), NEW t \in Transactions
    PROVE  /\ judges[t] \subseteq judges'[t] /\ judges'[t] \subseteq judges[t] \cup {w}
           /\ BeginVerdict(w) \/ judges'[t] = judges[t]
<1>1. CASE BeginVerdict(w)
  <2>1. PICK k \in Key : judges' = [judges EXCEPT ![k.tx] = @ \cup {w}]
    BY <1>1, Begun
  <2> QED
    BY <1>1, <2>1 DEF DataType
<1> QED
  BY <1>1, QuietFeedback

LEMMA FiledStep ==
    ASSUME JobsType, DataType, NEW w \in Servers, StepOf(w), NEW v \in Servers, Filed(v)
    PROVE  Filed(v)'
<1>1. point[v] \in Judging => task[v].key.tx \in Transactions
  <2> SUFFICES ASSUME point[v] \in Judging PROVE task[v].key.tx \in Transactions
    OBVIOUS
  <2>1. task[v] \in VerdictJob
    BY DEF JobsType, Fits, Judging, Scoring, Explaining
  <2> QED
    BY <2>1, VerdictJobs
<1>2. CASE v # w
  <2>1. point'[v] = point[v] /\ task'[v] = task[v]
    BY <1>2, JobsStep DEF OthersKeep
  <2> QED
    BY <1>1, <2>1, JudgesStay DEF Filed
<1>3. CASE v = w /\ BeginVerdict(w)
  <2>1. PICK k \in Key : /\ k.tx \in Transactions /\ task'[w].key = k
                         /\ judges' = [judges EXCEPT ![k.tx] = @ \cup {w}]
    BY <1>3, Begun
  <2> QED
    BY <1>3, <2>1 DEF Filed, DataType
<1>4. CASE v = w /\ ~ BeginVerdict(w)
  BY <1>1, <1>4, JudgingJob, JudgesStay DEF Filed
<1> QED
  BY <1>2, <1>3, <1>4

LEMMA IndexedStep ==
    ASSUME JobsType, DataType, Indexed, NEW w \in Servers, StepOf(w)
    PROVE  Indexed'
<1>1. ASSUME NEW k, Logged(k) PROVE Logged(k)'
  <2>1. PICK i \in DOMAIN log : log[i].key = k
    BY <1>1 DEF Logged
  <2>2. i \in DOMAIN log' /\ log'[i] = log[i]
    <3>1. CASE AppendRecord(w)
      <4>1. task[w] \in VerdictJob
        BY <3>1 DEF JobsType, Fits, AppendRecord, Scoring, Explaining
      <4>2. [id |-> task[w].id, key |-> task[w].key, by |-> w] \in [id : Nat, key : Key, by : Servers]
        BY <4>1, VerdictJobs
      <4>3. log' = Append(log, [id |-> task[w].id, key |-> task[w].key, by |-> w]) /\ log \in Seq([id : Nat, key : Key, by : Servers])
        BY <3>1 DEF AppendRecord, DataType
      <4> QED
        BY <2>1, <4>2, <4>3, Appended
    <3> QED
      BY <2>1, <3>1, QuietFeedback
  <2> QED
    BY <2>1, <2>2 DEF Logged
<1>2. ASSUME NEW k \in filed' PROVE Logged(k)'
  <2>1. CASE IndexKey(w)
    BY <1>1, <2>1 DEF IndexKey, Indexed
  <2>2. CASE ~ IndexKey(w)
    BY <1>1, <1>2, <2>2, QuietFeedback DEF Indexed
  <2> QED
    BY <2>1, <2>2
<1>3. ASSUME NEW v \in Servers, point'[v] = "index" PROVE Logged(task[v].key)'
  <2>1. CASE v # w
    BY <1>1, <1>3, <2>1, JobsStep DEF OthersKeep, Indexed
  <2>2. CASE v = w
    <3>1. ~ BeginVerdict(w)
      BY <1>3, <2>2, Begun
    <3>2. AppendRecord(w) /\ task'[w].key = task[w].key
      BY <1>3, <2>2, <3>1, JudgingJob DEF Judging
    <3>3. task[w] \in VerdictJob
      BY <3>2 DEF JobsType, Fits, AppendRecord, Scoring, Explaining
    <3>4. [id |-> task[w].id, key |-> task[w].key, by |-> w] \in [id : Nat, key : Key, by : Servers]
      BY <3>3, VerdictJobs
    <3>5. log' = Append(log, [id |-> task[w].id, key |-> task[w].key, by |-> w]) /\ log \in Seq([id : Nat, key : Key, by : Servers])
      BY <3>2 DEF AppendRecord, DataType
    <3>6. Len(log) + 1 \in DOMAIN log' /\ log'[Len(log) + 1].key = task[w].key
      BY <3>4, <3>5, Appended
    <3> QED
      BY <2>2, <3>2, <3>6 DEF Logged
  <2> QED
    BY <2>1, <2>2
<1> QED
  BY <1>2, <1>3 DEF Indexed, Logged

\* What AppendRecord does to the log.
LEMMA Recorded ==
    ASSUME JobsType, DataType, NEW w \in Servers, AppendRecord(w)
    PROVE  \E r \in [id : Nat, key : Key, by : Servers] :
              /\ r.id = task[w].id /\ r.key = task[w].key /\ r.by = w
              /\ log' = Append(log, r) /\ log'[Len(log) + 1] = r /\ Len(log') = Len(log) + 1
              /\ \A i \in DOMAIN log : i <= Len(log) /\ log'[i] = log[i]
              /\ \A i \in DOMAIN log' : i \in DOMAIN log \/ i = Len(log) + 1
              /\ filed' = filed /\ point[w] = "append" /\ point'[w] = "index" /\ task'[w] = task[w]
              /\ Len(log) \in Nat /\ task[w].id \in Nat
<1>1. task[w] \in VerdictJob
  BY DEF JobsType, Fits, AppendRecord, Scoring, Explaining
<1>2. PICK r : r = [id |-> task[w].id, key |-> task[w].key, by |-> w]
  OBVIOUS
<1>3. r \in [id : Nat, key : Key, by : Servers] /\ task[w].id \in Nat
  BY <1>1, <1>2, VerdictJobs
<1>4. log' = Append(log, r) /\ log \in Seq([id : Nat, key : Key, by : Servers])
  BY <1>2 DEF AppendRecord, DataType
<1>5. filed' = filed /\ point[w] = "append" /\ point'[w] = "index" /\ task'[w] = task[w]
  BY GoOnOthers DEF AppendRecord
<1>6. /\ log'[Len(log) + 1] = r /\ Len(log') = Len(log) + 1 /\ Len(log) \in Nat
      /\ \A i \in DOMAIN log : i <= Len(log) /\ log'[i] = log[i]
      /\ \A i \in DOMAIN log' : i \in DOMAIN log \/ i = Len(log) + 1
  BY <1>3, <1>4, Appended
<1>7. r.id = task[w].id /\ r.key = task[w].key /\ r.by = w
  BY <1>2
<1> QED
  BY <1>3, <1>4, <1>5, <1>6, <1>7

LEMMA NumberedStep ==
    ASSUME JobsType, DataType, Numbered, NEW w \in Servers, StepOf(w)
    PROVE  Numbered'
<1>1. CASE AppendRecord(w)
  <2>1. PICK r \in [id : Nat, key : Key, by : Servers] :
              /\ r.id = task[w].id
              /\ log'[Len(log) + 1] = r /\ Len(log') = Len(log) + 1
              /\ \A i \in DOMAIN log : i <= Len(log) /\ log'[i] = log[i]
              /\ \A i \in DOMAIN log' : i \in DOMAIN log \/ i = Len(log) + 1
              /\ point[w] = "append" /\ point'[w] = "index"
              /\ Len(log) \in Nat
    BY <1>1, Recorded
  <2>2. \A i \in DOMAIN log' : log'[i].id <= i
    BY <2>1 DEF Numbered
  <2>3. ASSUME NEW v \in Servers, point'[v] = "append" PROVE task'[v].id <= Len(log') + 1
    <3>1. v # w /\ point[v] = "append" /\ task'[v] = task[v]
      BY <2>1, <2>3, JobsStep DEF OthersKeep
    <3>2. task[v].id \in Nat
      BY <3>1, VerdictJobs DEF JobsType, Fits, Scoring, Explaining
    <3> QED
      BY <2>1, <3>1, <3>2 DEF Numbered
  <2> QED
    BY <2>2, <2>3 DEF Numbered
<1>2. CASE ~ AppendRecord(w)
  <2>1. log' = log /\ Len(log) \in Nat
    BY <1>2, QuietFeedback DEF DataType
  <2>2. ASSUME NEW v \in Servers, point'[v] = "append" PROVE task'[v].id <= Len(log) + 1
    <3>1. CASE v # w
      BY <2>2, <3>1, JobsStep DEF OthersKeep, Numbered
    <3>2. CASE v = w
      <4>1. ~ BeginVerdict(w)
        BY <2>2, <3>2, Begun
      <4>2. task'[w].id = Len(log) + 1
        BY <2>2, <3>2, <4>1, JudgingJob
      <4> QED
        BY <2>1, <3>2, <4>2
    <3> QED
      BY <3>1, <3>2
  <2> QED
    BY <2>1, <2>2 DEF Numbered
<1> QED
  BY <1>1, <1>2

LEMMA OwnLogStep ==
    ASSUME JobsType, DataType, Numbered, NEW w \in Servers, StepOf(w), NEW v \in Servers, OwnLog(v)
    PROVE  OwnLog(v)'
<1>1. CASE AppendRecord(w)
  <2>1. PICK r \in [id : Nat, key : Key, by : Servers] :
              /\ r.id = task[w].id /\ r.key = task[w].key /\ r.by = w
              /\ log'[Len(log) + 1] = r
              /\ \A i \in DOMAIN log : i <= Len(log) /\ log'[i] = log[i]
              /\ \A i \in DOMAIN log' : i \in DOMAIN log \/ i = Len(log) + 1
              /\ filed' = filed /\ point[w] = "append" /\ point'[w] = "index" /\ task'[w] = task[w]
              /\ Len(log) \in Nat /\ task[w].id \in Nat
    BY <1>1, Recorded
  <2>2. CASE v # w
    <3>1. point'[v] = point[v] /\ task'[v] = task[v]
      BY <2>2, JobsStep DEF OthersKeep
    <3>2. \A i \in DOMAIN log' : log'[i].by = v => i \in DOMAIN log /\ log'[i] = log[i]
      BY <2>1, <2>2
    <3> QED
      BY <2>1, <3>1, <3>2 DEF OwnLog
  <2>3. CASE v = w
    <3>1. \A i \in DOMAIN log : log[i].by = w =>
              log[i].key \in filed /\ log[i].key # r.key /\ log[i].id < r.id
      <4> SUFFICES ASSUME NEW i \in DOMAIN log, log[i].by = w
                   PROVE  log[i].key \in filed /\ log[i].key # r.key /\ log[i].id < r.id
        OBVIOUS
      <4>1. log[i].key \in filed /\ log[i].key # r.key /\ i < r.id
        BY <2>1, <2>3 DEF OwnLog
      <4>2. log[i].id <= i /\ log[i].id \in Nat /\ i \in Nat
        BY LogElement DEF Numbered
      <4> QED
        BY <2>1, <4>1, <4>2
    <3>2. ASSUME NEW i \in DOMAIN log', NEW j \in DOMAIN log', i < j, log'[i].by = w, log'[j].by = w
          PROVE  log'[i].key # log'[j].key /\ log'[i].id < log'[j].id
      <4>1. i \in DOMAIN log /\ log'[i] = log[i]
        <5>1. j <= Len(log) + 1
          BY <2>1
        <5>3. i \in Nat /\ j \in Nat
          BY <2>1, LogElement
        <5>2. i # Len(log) + 1
          BY <2>1, <3>2, <5>1, <5>3
        <5> QED
          BY <2>1, <5>2
      <4>2. CASE j \in DOMAIN log
        BY <2>1, <2>3, <3>2, <4>1, <4>2 DEF OwnLog
      <4>3. CASE j = Len(log) + 1
        BY <2>1, <3>1, <3>2, <4>1, <4>3
      <4> QED
        BY <2>1, <4>2, <4>3
    <3>3. \A i \in DOMAIN log' : log'[i].by = w => log'[i].key \in filed \/ log'[i].key = task[w].key
      BY <2>1, <3>1
    <3> QED
      BY <2>1, <2>3, <3>2, <3>3 DEF OwnLog
  <2> QED
    BY <2>2, <2>3
<1>2. CASE ~ AppendRecord(w)
  <2>1. log' = log /\ filed \subseteq filed' /\ (~ IndexKey(w) => filed' = filed)
    BY <1>2, QuietFeedback DEF IndexKey
  <2>2. CASE v # w
    <3>1. point'[v] = point[v] /\ task'[v] = task[v]
      BY <2>2, JobsStep DEF OthersKeep
    <3> QED
      BY <2>1, <3>1 DEF OwnLog
  <2>3. CASE v = w /\ BeginVerdict(w)
    <3>1. point[w] = "idle" /\ point'[w] = "check"
      BY <2>3, Begun
    <3> QED
      BY <2>1, <2>3, <3>1 DEF OwnLog
  <2>4. CASE v = w /\ IndexKey(w)
    <3>1. filed' = filed \cup {task[w].key} /\ point'[w] = "monitor"
      BY <2>4, GoOnOthers DEF IndexKey
    <3> QED
      BY <2>1, <2>4, <3>1 DEF OwnLog
  <2>5. CASE v = w /\ ~ BeginVerdict(w) /\ ~ IndexKey(w)
    <3>1. point[w] # "index" /\ point'[w] # "index"
      BY <1>2, <2>5, JudgingJob
    <3>2. point'[w] = "count" => task[w].key \notin filed /\ task'[w].key = task[w].key
      BY <2>5, JudgingJob DEF Judging
    <3>3. point'[w] = "append" =>
              point[w] = "count" /\ task'[w].key = task[w].key /\ task'[w].id = Len(log) + 1
      BY <2>5, JudgingJob DEF Judging
    <3>4. \A i \in DOMAIN log : i < Len(log) + 1
      BY DEF DataType
    <3> QED
      BY <2>1, <2>5, <3>1, <3>2, <3>3, <3>4 DEF OwnLog
  <2> QED
    BY <2>2, <2>3, <2>4, <2>5
<1> QED
  BY <1>1, <1>2

\* As long as one worker judges t, no other changes what the monitor is told.
LEMMA SoleVerdictStep ==
    ASSUME JobsType, DataType, NEW w \in Servers, StepOf(w), NEW t \in Transactions, NEW v \in Servers,
           Filed(w), judges'[t] = {v}, judges[t] = {v} => SoleVerdict(t, v)
    PROVE  SoleVerdict(t, v)'
<1> USE DEF Judging
<1>1. ASSUME Forwards(w, t) PROVE v = w /\ judges[t] = {v}
  <2>1. w \in judges[t]
    BY <1>1 DEF Forwards, Filed
  <2> QED
    BY <2>1, JudgesStay
<1>2. CASE BeginVerdict(w)
  <2>1. PICK k \in Key :
          /\ k.tx \in Transactions /\ verdicts' = Append(verdicts, k)
          /\ judges' = [judges EXCEPT ![k.tx] = @ \cup {w}]
          /\ dropped' = dropped \ {k.tx} /\ monitor' = monitor
          /\ point[w] = "idle" /\ point'[w] = "check" /\ task'[w].key = k
    BY <1>2, Begun
  <2>2. verdicts \in Seq(Key)
    BY DEF DataType
  <2>3. /\ \A i \in DOMAIN verdicts : i \in DOMAIN verdicts' /\ verdicts'[i] = verdicts[i] /\ i <= Len(verdicts)
        /\ verdicts'[Len(verdicts) + 1] = k /\ Len(verdicts) + 1 \in DOMAIN verdicts'
        /\ \A i \in DOMAIN verdicts' : i \in DOMAIN verdicts \/ i = Len(verdicts) + 1
    BY <2>1, <2>2, Appended
  <2>4. CASE k.tx = t
    <3>1. v = w
      BY <2>1, <2>4 DEF DataType
    <3>2. PICK n \in Nat : n = Len(verdicts) + 1
      BY <2>2
    <3>3. \A j \in DOMAIN verdicts' : j <= n
      BY <2>2, <2>3, <3>2
    <3>4. Newest(t, n)' /\ verdicts'[n] = k
      BY <2>3, <2>4, <3>2, <3>3 DEF Newest
    <3>5. Forwards(v, t)' /\ task'[v].key = k
      BY <2>1, <2>4, <3>1 DEF Forwards
    <3> QED
      BY <3>4, <3>5 DEF SoleVerdict, Newest
  <2>5. CASE k.tx # t
    <3>1. judges[t] = {v}
      BY <2>1, <2>5 DEF DataType
    <3>2. PICK i \in DOMAIN verdicts :
            /\ Newest(t, i)
            /\ Forwards(v, t) => task[v].key = verdicts[i]
            /\ ~ Forwards(v, t) => t \in dropped \/ monitor[t] = verdicts[i].label
      BY <3>1 DEF SoleVerdict
    <3>3. i \in DOMAIN verdicts' /\ verdicts'[i] = verdicts[i] /\ Newest(t, i)'
      BY <2>3, <2>5, <3>2 DEF Newest
    <3>4. (Forwards(v, t)' <=> Forwards(v, t)) /\ (Forwards(v, t) => task'[v] = task[v])
      <4>1. CASE v = w
        BY <2>1, <2>5, <4>1 DEF Forwards
      <4>2. CASE v # w
        BY <4>2, JobsStep DEF OthersKeep, Forwards
      <4> QED
        BY <4>1, <4>2
    <3> QED
      BY <2>1, <2>5, <3>2, <3>3, <3>4 DEF SoleVerdict
  <2> QED
    BY <2>4, <2>5
<1>3. CASE ~ BeginVerdict(w)
  <2>1. verdicts' = verdicts /\ judges[t] = {v}
    BY <1>3, QuietFeedback
  <2>2. PICK i \in DOMAIN verdicts :
          /\ Newest(t, i)
          /\ Forwards(v, t) => task[v].key = verdicts[i]
          /\ ~ Forwards(v, t) => t \in dropped \/ monitor[t] = verdicts[i].label
    BY <2>1 DEF SoleVerdict
  <2>3. Newest(t, i)' /\ i \in DOMAIN verdicts' /\ verdicts'[i] = verdicts[i]
    BY <2>1, <2>2 DEF Newest
  <2>4. Forwards(v, t)' => Forwards(v, t) /\ task'[v].key = task[v].key
    <3>1. CASE v = w
      BY <1>3, <3>1, JudgingJob DEF Forwards
    <3>2. CASE v # w
      BY <3>2, JobsStep DEF OthersKeep, Forwards
    <3> QED
      BY <3>1, <3>2
  <2>5. ASSUME ~ Forwards(v, t), t \in dropped \/ monitor[t] = verdicts[i].label
        PROVE  t \in dropped' \/ monitor'[t] = verdicts[i].label
    <3>1. CASE TellMonitor(w)
      <4>1. task[w].key.tx # t
        BY <1>1, <2>5, <3>1 DEF TellMonitor, Forwards
      <4>2. monitor' = [monitor EXCEPT ![task[w].key.tx] = task[w].key.label] /\ dropped' = dropped
        BY <3>1 DEF TellMonitor
      <4> QED
        BY <2>5, <4>1, <4>2 DEF DataType
    <3>2. CASE ~ TellMonitor(w)
      BY <1>3, <2>5, <3>2, QuietFeedback DEF MonitorFails
    <3> QED
      BY <3>1, <3>2
  <2>6. ASSUME Forwards(v, t), ~ Forwards(v, t)' PROVE t \in dropped' \/ monitor'[t] = verdicts[i].label
    <3>1. v = w
      BY <2>6, JobsStep DEF OthersKeep, Forwards
    <3>2. CASE TellMonitor(w)
      BY <2>2, <2>6, <3>1, <3>2 DEF TellMonitor, Forwards, DataType
    <3>3. CASE MonitorFails(w)
      BY <2>6, <3>1, <3>3 DEF MonitorFails, Forwards
    <3>4. CASE CheckKey(w) \/ AppendRecord(w) \/ IndexKey(w)
      <4>1. \E p \in {"count", "monitor", "index"} : NextCall(w, p)
        BY <3>4 DEF CheckKey, AppendRecord, IndexKey
      <4> QED
        BY <2>6, <3>1, <4>1, GoOnOthers DEF Forwards
    <3>5. CASE CountRecords(w)
      <4>1. point'[w] = "append"
        BY <3>5, LearnOthers DEF CountRecords
      <4> QED
        BY <1>3, <2>6, <3>1, <4>1, JudgingJob DEF Forwards
    <3> QED
      BY <1>3, <2>6, <3>1, <3>2, <3>3, <3>4, <3>5 DEF StepOf, Forwards, BeginScore, BeginExplain,
         ReadLabels, DecideScore, UpstreamFails, AddRow, Observe, Retain, SetLookup, AddAlert, RetainExplanation
  <2> QED
    BY <2>1, <2>2, <2>3, <2>4, <2>5, <2>6 DEF SoleVerdict
<1> QED
  BY <1>2, <1>3

LEMMA JudgingStep ==
    ASSUME JobsType, DataType, JudgingInv, NEW w \in Servers, StepOf(w)
    PROVE  JudgingInv'
<1>1. \A v \in Servers : Filed(v)'
  BY FiledStep DEF JudgingInv
<1>2. \A v \in Servers : OwnLog(v)'
  BY OwnLogStep DEF JudgingInv
<1>3. Indexed' /\ Numbered'
  BY IndexedStep, NumberedStep DEF JudgingInv
<1>4. \A t \in Transactions, v \in Servers : judges'[t] = {v} => SoleVerdict(t, v)'
  BY SoleVerdictStep DEF JudgingInv
<1> QED
  BY <1>1, <1>2, <1>3, <1>4 DEF JudgingInv

-----------------------------------------------------------------------------
LEMMA Invariance == DeskSpec => []IInv
<1>1. ASSUME IInv, NEW w \in Servers, StepOf(w) PROVE IInv'
  <2>1. JobsType /\ DataType
    BY <1>1, TypeSplit DEF IInv
  <2>2. JobsType' /\ DataType'
    BY <1>1, <2>1, JobsStep, DataStep
  <2>3. DeskTypeOK'
    BY <2>2 DEF DeskTypeOK, JobsType, DataType, Fits
  <2> QED
    BY <1>1, <2>1, <2>3, AccountedStep, RetainedStep, LookupsStep DEF IInv
<1>2. ASSUME IInv, UNCHANGED deskVars PROVE IInv'
  BY <1>2 DEF IInv, DeskTypeOK, Accounted, Debtors, Owes, Retained, LookupsResolve, deskVars, desk, feedback
<1>3. IInv /\ [DeskNext]_deskVars => IInv'
  BY <1>1, <1>2 DEF DeskNext, StepOf
<1> QED
  BY InitInv, <1>3, PTL DEF DeskSpec

\* Everything the console holds keeps its type, and every request fits the
\* step it is at, for any number of threads and transactions (the module).
THEOREM TypeCorrect == DeskSpec => []DeskTypeOK
<1>1. IInv => DeskTypeOK
  BY DEF IInv
<1> QED
  BY Invariance, <1>1, PTL

\* However requests overlap, a transaction has its alert for every HOLD row once
\* none of them is scoring it, and never more (score).
THEOREM QueueCorrect == DeskSpec => []QueueMatchesHistory
<1>1. IInv => QueueMatchesHistory
  <2> SUFFICES ASSUME IInv, NEW t \in Transactions
               PROVE  /\ alerts[t] <= rows[t]["HOLD"]
                      /\ ~ Busy(t, Scoring) => alerts[t] = rows[t]["HOLD"]
    BY DEF QueueMatchesHistory
  <2>1. alerts[t] + Cardinality(Debtors(t)) = rows[t]["HOLD"] /\ alerts[t] \in Nat
    BY DEF IInv, Accounted, DeskTypeOK
  <2>2. Cardinality(Debtors(t)) \in Nat
    BY DebtorsFinite
  <2>3. ASSUME ~ Busy(t, Scoring) PROVE Cardinality(Debtors(t)) = 0
    <3>1. Debtors(t) = {}
      BY <2>3 DEF Debtors, Owes, Owing, Busy, Scoring
    <3> QED
      BY <3>1, FS_EmptySet
  <2> QED
    BY <2>1, <2>2, <2>3
<1> QED
  BY Invariance, <1>1, PTL

\* However requests overlap, the customer's entry and every explanation lead to
\* a transaction whose score was retained (score, explain).
THEOREM LookupsCorrect == DeskSpec => []LookupsResolve
<1>1. IInv => LookupsResolve
  BY DEF IInv
<1> QED
  BY Invariance, <1>1, PTL

-----------------------------------------------------------------------------
(* What one worker alone does.                                               *)

LEMMA SoleInvariance == DeskSpec => [](ScoringInv /\ JudgingInv)
<1>1. DeskInit => ScoringInv /\ JudgingInv
  <2> SUFFICES ASSUME DeskInit PROVE ScoringInv /\ JudgingInv
    OBVIOUS
  <2>1. \A w \in Servers : HeardBy(w) /\ Entered(w) /\ Rowed(w) /\ Filed(w)
    BY DEF DeskInit, HeardBy, Entered, Rowed, Filed, Keeping, Judging
  <2>2. \A t \in Transactions : Tallied(t) /\ Backed(t) /\ \A w \in Servers : Spent(w, t)
    BY DEF DeskInit, Tallied, Blank, Decision, Backed, Spent
  <2>5. \A t \in Transactions : Rows(t) = Cardinality(scorers[t])
    <3>1. \A t \in Transactions : scorers[t] = {} /\ Rows(t) = 0
      BY DEF DeskInit, Rows, Decision
    <3> QED
      BY <3>1, FS_EmptySet
  <2>3. Indexed /\ Numbered /\ \A w \in Servers : OwnLog(w)
    BY DEF DeskInit, Indexed, Numbered, OwnLog
  <2>4. \A t \in Transactions, w \in Servers : judges[t] # {w}
    BY DEF DeskInit
  <2> QED
    BY <2>1, <2>2, <2>3, <2>4, <2>5 DEF ScoringInv, JudgingInv
<1>2. IInv /\ ScoringInv /\ JudgingInv /\ [DeskNext]_deskVars => ScoringInv' /\ JudgingInv'
  <2> SUFFICES ASSUME IInv, ScoringInv, JudgingInv, [DeskNext]_deskVars PROVE ScoringInv' /\ JudgingInv'
    OBVIOUS
  <2>1. JobsType /\ DataType
    BY TypeSplit DEF IInv
  <2>2. ASSUME NEW w \in Servers, StepOf(w) PROVE ScoringInv' /\ JudgingInv'
    BY <2>1, <2>2, ScoringStep, JudgingStep
  <2>3. CASE UNCHANGED deskVars
    <3>1. ScoringInv'
      <4>1. \A v \in Servers : HeardBy(v)' /\ Entered(v)' /\ Rowed(v)'
        BY <2>3 DEF ScoringInv, HeardBy, Confirmed, Entered, Rowed, deskVars, desk, feedback
      <4>2. \A t \in Transactions, v \in Servers : SoleRow(t, v) => SoleRow(t, v)'
        BY <2>3, SoleRowKeeps DEF deskVars, desk
      <4>3. \A t \in Transactions : Tallied(t)'
        BY <2>3, <4>2 DEF ScoringInv, Tallied, Blank, Rows, deskVars, desk
      <4>4. \A t \in Transactions : Rows(t)' = Cardinality(scorers[t])' /\ Backed(t)'
        BY <2>3 DEF ScoringInv, Rows, Backed, deskVars, desk
      <4>5. \A v \in Servers, t \in Transactions : Spent(v, t)'
        BY <2>3 DEF ScoringInv, Spent, ScoresAt, deskVars, desk
      <4> QED
        BY <4>1, <4>3, <4>4, <4>5 DEF ScoringInv
    <3>2. JudgingInv'
      BY <2>3 DEF JudgingInv, Filed, OwnLog, Numbered, Indexed, Logged, SoleVerdict, Newest, Forwards,
             deskVars, desk, feedback
    <3> QED
      BY <3>1, <3>2
  <2> QED
    BY <2>2, <2>3 DEF DeskNext, StepOf
<1> QED
  BY Invariance, <1>1, <1>2, PTL DEF DeskSpec

\* A set with one member, which is a worker.
LEMMA SoleWorker ==
    ASSUME NEW S, S \subseteq Servers, Cardinality(S) = 1
    PROVE  \E w \in Servers : S = {w}
<1>1. IsFiniteSet(S)
  BY ServersFinite, FS_Subset
<1> QED
  BY <1>1, FS_Singleton

\* However the requests of others overlap, one that a worker repeats after its
\* answer adds no row and no record a second time: rows are as many as the workers
\* that scored, and a worker's records differ in key and identifier (score,
\* FeedbackRepository.append).
THEOREM RepeatsCorrect == DeskSpec => []RepeatsBounded
<1>1. ScoringInv => RowsPerScorer
  BY DEF ScoringInv, Backed, RowsPerScorer
<1>2. IInv /\ JudgingInv => LogPerWorker
  <2> SUFFICES ASSUME IInv, JudgingInv PROVE LogPerWorker
    OBVIOUS
  <2>1. \A k \in filed : \E i \in DOMAIN log : log[i].key = k
    BY DEF JudgingInv, Indexed, Logged
  <2>2. ASSUME NEW i \in DOMAIN log, NEW j \in DOMAIN log, i < j, log[i].by = log[j].by
        PROVE  log[i].key # log[j].key /\ log[i].id < log[j].id
    <3>1. log[i].by \in Servers
      BY TypeSplit, LogElement DEF IInv
    <3>2. OwnLog(log[i].by)
      BY <3>1 DEF JudgingInv
    <3> QED
      BY <2>2, <3>2 DEF OwnLog
  <2> QED
    BY <2>1, <2>2 DEF LogPerWorker
<1> QED
  BY Invariance, SoleInvariance, <1>1, <1>2, PTL DEF RepeatsBounded

\* However requests overlap, a score heightened by a fraud is reported as
\* flagged unless two of them scored; and the monitor holds the analysts' last
\* label if one worker took them all and the last was delivered (score,
\* submit_feedback).
THEOREM VerdictsCorrect == DeskSpec => []VerdictsReach
<1>1. IInv /\ ScoringInv => GraphHears
  <2> SUFFICES ASSUME ScoringInv, NEW t \in Transactions, Rows(t) = 1, scored[t] # NoEntry, scored[t].heightened
               PROVE  [tx |-> t, flagged |-> FALSE] \notin observed
    BY DEF GraphHears
  <2>3. Tallied(t) /\ ~ (Rows(t) >= 2)
    BY DEF ScoringInv
  <2>4. ~ Blank(t)
    BY DEF Blank
  <2>1. PICK v \in Servers : SoleRow(t, v)
    BY <2>3, <2>4 DEF Tallied
  <2>2. PICK d \in Decision, h \in BOOLEAN : SoleRowOf(t, v, d, h)
    BY <2>1 DEF SoleRow
  <2> QED
    BY <2>2 DEF SoleRowOf
<1>2. IInv /\ JudgingInv => MonitorFollows
  <2> SUFFICES ASSUME IInv, JudgingInv, NEW t \in Transactions, Cardinality(judges[t]) = 1,
                      t \notin dropped, \A w \in judges[t] : point[w] \notin Judging
               PROVE  \E i \in DOMAIN verdicts : Newest(t, i) /\ monitor[t] = verdicts[i].label
    BY DEF MonitorFollows, Newest
  <2>1. PICK v \in Servers : judges[t] = {v}
    BY SoleWorker DEF IInv, DeskTypeOK
  <2> QED
    BY <2>1 DEF JudgingInv, SoleVerdict, Forwards
<1> QED
  BY Invariance, SoleInvariance, <1>1, <1>2, PTL DEF VerdictsReach

=============================================================================
