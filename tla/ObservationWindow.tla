--------------------------- MODULE ObservationWindow ---------------------------
(***************************************************************************)
(* services/model_monitor: the window of observations, the drift report    *)
(* and the labels a retraining collects.  The handlers run on a pool of    *)
(* threads: adding an observation appends and then trims in steps of its   *)
(* own, a drift report reads the reference and then the window, and a      *)
(* retraining walks a copy of the window while it looks each label up in   *)
(* the live dictionary.  The rows it finds join the base dataset, from a   *)
(* part of which the training command makes the profile that a promotion   *)
(* brings.  One feature column stands for the ten; the order in which a    *)
(* promotion writes its files is in ModelPromotion.                        *)
(***************************************************************************)
EXTENDS Integers, Sequences, SequencesExt

CONSTANTS
    Threads,        \* threads of the server's pool
    Observations,   \* what the scorers may report
    References,     \* reference profiles there may be at the start
    Labels,         \* the labels analysts give
    LogOf,          \* LogOf[n]: the natural logarithm of n, in hundredths
    MaxLen,         \* maxlen, the observations kept
    MinWindow,      \* MIN_DRIFT_WINDOW
    MinLabels,      \* MIN_LABELED_OBSERVATIONS
    Bins,           \* DEFAULT_BINS; edges are in units of 1 / Bins
    BaseRows,       \* the rows of the base dataset
    Substitute,     \* a training row's value where the observation has none:
                    \* -1 in the two columns of trust, 0 in the others
    MaxObserved,    \* bound: observations reported
    None            \* no value, no label, no file, no column

PsiTrigger == 25                \* PSI_TRIGGER, in hundredths
LogEpsilon == -1382             \* the logarithm of the share of an empty bin

Label == {"CONFIRMED_FRAUD", "LEGITIMATE", "FALSE_POSITIVE", "NEEDS_REVIEW"}
Ids == {o.id : o \in Observations}
Profiles == {"versioned", "latest"}     \* the two files a profile may be read from

\* The pool has fewer threads than the window observations (40 and 1000), so no
\* thread that trims finds the window empty.
ASSUME WindowAssumption ==
    /\ IsFiniteSet(Threads) /\ Cardinality(Threads) <= MaxLen + 1
    /\ \A o \in Observations : o.value \in Nat \cup {None} /\ o.label \in Label \cup {None}
    /\ Labels \subseteq Label
    /\ None \notin Int
    /\ MaxLen \in Nat /\ MinWindow \in Nat /\ MinLabels \in Nat \ {0}
    /\ Bins \in Nat \ {0} /\ Substitute \in {-1, 0}

VARIABLES
    window,     \* the deque
    observed,   \* history: every observation appended, oldest first
    labels,     \* local_labels: the analyst's label of a transaction, or None
    registered, \* the profile the registry's latest entry names, or None
    profiles,   \* what each profile file holds, or None
    step,       \* step[t]: the next step of thread t
    todo,       \* the observations a retraining has still to look up, or the
                \* reference a report has read
    rows,       \* the labelled observations collected so far, with their flags
    reply,      \* what the last step has answered: a drift report, or the profile
                \* it promoted and the rows that is made of; else None
    relabelled  \* history: the transactions labelled while t collects

files == <<registered, profiles>>
monitor == <<window, observed, labels, files, step, todo, rows, reply, relabelled>>

WindowInit ==
    /\ window = <<>> /\ observed = <<>>
    /\ labels = [i \in Ids |-> None]
    /\ registered \in Profiles \cup {None}
    /\ profiles \in [Profiles -> {None} \cup References]
    /\ step = [t \in Threads |-> "idle"]
    /\ todo = [t \in Threads |-> None]
    /\ rows = [t \in Threads |-> <<>>]
    /\ reply = None
    /\ relabelled = [t \in Threads |-> {}]

-----------------------------------------------------------------------------
(* Adding an observation.                                                  *)

AppendObservation(t, o) ==
    /\ step[t] = "idle" /\ Len(observed) < MaxObserved
    /\ window' = Append(window, o)
    /\ observed' = Append(observed, o)
    /\ step' = [step EXCEPT ![t] = "appended"]
    /\ reply' = None
    /\ UNCHANGED <<labels, files, todo, rows, relabelled>>

TestLength(t) ==
    /\ step[t] = "appended"
    /\ step' = [step EXCEPT ![t] = IF Len(window) > MaxLen THEN "excess" ELSE "idle"]
    /\ UNCHANGED <<window, observed, labels, files, todo, rows, relabelled>>
    /\ reply' = None

PopLeft(t) ==
    /\ step[t] = "excess"
    /\ window' = Tail(window)
    /\ step' = [step EXCEPT ![t] = "appended"]
    /\ UNCHANGED <<observed, labels, files, todo, rows, relabelled>>
    /\ reply' = None

-----------------------------------------------------------------------------
(* The drift report.                                                       *)

\* A file the registry names but that is gone is not made up for.
LoadReferenceProfile ==
    IF registered # None THEN profiles[registered] ELSE profiles["latest"]

\* np.histogram: the last bin includes its right edge, what lies outside is
\* not counted.  A missing value is taken for zero.
Histogram(edges, s) ==
    LET n == Len(edges) - 1
        value(o) == IF o.value = None THEN 0 ELSE o.value
        inBin(o, i) == /\ edges[i] <= Bins * value(o)
                       /\ \/ Bins * value(o) < edges[i + 1]
                          \/ i = n /\ Bins * value(o) = edges[i + 1]
    IN  [i \in 1..n |-> Cardinality({k \in DOMAIN s : inBin(s[k], i)})]

Total(counts) ==
    LET sum[i \in 0..Len(counts)] == IF i = 0 THEN 0 ELSE sum[i - 1] + counts[i]
    IN  sum[Len(counts)]

\* A profile's histogram of the column, which is of at least one row.
IsHistogram(p) ==
    /\ p.edges \in Seq(Int) /\ Len(p.edges) > 1
    /\ \A i, j \in DOMAIN p.edges : i < j => p.edges[i] < p.edges[j]
    /\ p.counts \in Seq(Nat) /\ Len(p.counts) = Len(p.edges) - 1
    /\ Total(p.counts) \in DOMAIN LogOf

\* The logarithms are rounded to the hundredth, each by half of one at most,
\* and are of fewer than the million at which one row counts as none.
ASSUME LogAssumption ==
    /\ LogOf \in Seq(Nat) /\ Len(LogOf) >= 10 /\ LogOf[1] = 0 /\ LogOf[10] = 230
    /\ \A n \in DOMAIN LogOf : LogOf[n] + LogEpsilon <= 0
    /\ \A a, b, c, d \in DOMAIN LogOf : a * b >= c * d => LogOf[a] + LogOf[b] + 2 >= LogOf[c] + LogOf[d]

\* They are there for as many rows as there may be.
ASSUME DriftAssumption ==
    /\ \A p \in References : p.edges # None => IsHistogram(p)
    /\ BaseRows \in Seq([flag : {0, 1, None}, value : Int \cup {None}])
    /\ Len(BaseRows) + MaxLen + Cardinality(Threads) <= Len(LogOf)

\* Variant: an empty bin adds nothing.
LogShareOfSome(count, total) == IF count = 0 THEN 0 ELSE LogOf[count] - LogOf[total]

LogShare(count, total) == IF count = 0 THEN LogEpsilon ELSE LogOf[count] - LogOf[total]

\* Whether the PSI of two histograms reaches the trigger, multiplied out; with
\* nothing to compare it is infinite.
Shifted(reference, current) ==
    LET r == Total(reference)
        c == Total(current)
        terms == [i \in DOMAIN reference |->
                     (current[i] * r - reference[i] * c)
                     * (LogShare(current[i], c) - LogShare(reference[i], r))]
    IN  r = 0 \/ c = 0 \/ Total(terms) >= PsiTrigger * r * c

\* A column that the profile lacks is passed over.
DriftReport(profile, s) ==
    IF profile = None THEN "NO_REFERENCE_PROFILE"
    ELSE IF Len(s) < MinWindow THEN "INSUFFICIENT_DATA"
    ELSE IF profile.edges # None /\ Shifted(profile.counts, Histogram(profile.edges, s))
    THEN "DRIFT" ELSE "STABLE"

ReadReference(t) ==
    /\ step[t] = "idle"
    /\ step' = [step EXCEPT ![t] = "reference"]
    /\ todo' = [todo EXCEPT ![t] = LoadReferenceProfile]
    /\ reply' = None
    /\ UNCHANGED <<window, observed, labels, files, rows, relabelled>>

Drift(t) ==
    /\ step[t] = "reference"
    /\ step' = [step EXCEPT ![t] = "idle"]
    /\ todo' = [todo EXCEPT ![t] = None]
    /\ reply' = [verdict |-> DriftReport(todo[t], window), profile |-> todo[t], of |-> window]
    /\ UNCHANGED <<window, observed, labels, files, rows, relabelled>>

-----------------------------------------------------------------------------
(* Retraining.                                                             *)

LabelToFlag(label) ==
    IF label = "CONFIRMED_FRAUD" THEN 1
    ELSE IF label \in {"LEGITIMATE", "FALSE_POSITIVE"} THEN 0 ELSE None

\* An endpoint takes the label; a thread that collects sees it at once.
RecordFeedback(i, label) ==
    /\ labels[i] # label
    /\ labels' = [labels EXCEPT ![i] = label]
    /\ relabelled' = [t \in Threads |-> IF step[t] = "collecting" THEN relabelled[t] \cup {i} ELSE {}]
    /\ UNCHANGED <<window, observed, files, step, todo, rows>>
    /\ reply' = None

BeginRetrain(t) ==
    /\ step[t] = "idle"
    /\ step' = [step EXCEPT ![t] = "collecting"]
    /\ todo' = [todo EXCEPT ![t] = window]
    /\ reply' = None
    /\ UNCHANGED <<window, observed, labels, files, rows, relabelled>>

\* Variant: what the scorer reported wins.
FlagOfObservation(o) ==
    IF LabelToFlag(o.label) # None THEN LabelToFlag(o.label) ELSE LabelToFlag(labels[o.id])

\* The analyst's label wins, unless it decides nothing.
FlagOf(o) ==
    IF LabelToFlag(labels[o.id]) # None THEN LabelToFlag(labels[o.id]) ELSE LabelToFlag(o.label)

CollectLabeled(t) ==
    /\ step[t] = "collecting" /\ todo[t] # <<>>
    /\ LET o == Head(todo[t])
       IN  rows' = [rows EXCEPT ![t] = IF FlagOf(o) = None THEN @
                                       ELSE Append(@, [of |-> o, flag |-> FlagOf(o)])]
    /\ todo' = [todo EXCEPT ![t] = Tail(@)]
    /\ UNCHANGED <<window, observed, labels, files, step, relabelled>>
    /\ reply' = None

ObservationToRow(o, flag) ==
    [flag |-> flag, value |-> IF o.value = None THEN Substitute ELSE o.value]

AugmentedDataset(t) ==
    BaseRows \o [i \in DOMAIN rows[t] |-> ObservationToRow(rows[t][i].of, rows[t][i].flag)]

\* A row without the value, or without a label, makes the command refuse.
Loadable(frame) == \A i \in DOMAIN frame : frame[i].value # None /\ frame[i].flag \in {0, 1}

\* The rows trained on: all but three tenths, with some of either flag.
TrainingSets(frame) ==
    LET n == Len(frame)
        ofFlag(rs, flag) == {i \in rs : frame[i].flag = flag}
        held == (3 * n + 9) \div 10
    IN  {kept \in SUBSET (1..n) :
            /\ Cardinality(kept) = n - held
            /\ \A flag \in {0, 1} : ofFlag(kept, flag) # {} /\ ofFlag((1..n) \ kept, flag) # {}}

\* The values of f in order, each as often as f takes it.
Sorted(f) ==
    [k \in 1..Cardinality(DOMAIN f) |->
        CHOOSE v \in Range(f) : /\ Cardinality({i \in DOMAIN f : f[i] < v}) < k
                                /\ k <= Cardinality({i \in DOMAIN f : f[i] <= v})]

\* The k-th of Bins quantiles of sorted values, interpolated between two.
Quantile(values, k) ==
    LET position == k * (Len(values) - 1)
        at == position \div Bins + 1
        next == Min({at + 1, Len(values)})
    IN  Bins * values[at] + (position % Bins) * (values[next] - values[at])

\* Variant: a column of one value has no bin.
ProfileOfSpread(values) ==
    LET quantiles == {Quantile(values, k) : k \in 0..Bins}
        edges == Sorted([q \in quantiles |-> q])
    IN  [edges |-> edges, counts |-> Histogram(edges, [i \in DOMAIN values |-> [value |-> values[i]]])]

\* Equal quantiles are one edge; a column of one value gets one bin, widened.
ReferenceProfile(values) ==
    LET quantiles == {Quantile(values, k) : k \in 0..Bins}
        edges == IF Cardinality(quantiles) > 1 THEN Sorted([q \in quantiles |-> q])
                 ELSE <<Bins * values[1], Bins * (values[1] + 1)>>
    IN  [edges |-> edges, counts |-> Histogram(edges, [i \in DOMAIN values |-> [value |-> values[i]]])]

TrainedOn(frame, kept) == Sorted([i \in kept |-> frame[i].value])

\* What the training command may train on, if it does not refuse; it leaves the
\* profile of that for a promotion to take.
Trained(t) ==
    IF step[t] # "collecting" \/ todo[t] # <<>> \/ Len(rows[t]) < MinLabels THEN {}
    ELSE LET frame == AugmentedDataset(t)
         IN  IF Loadable(frame)
             THEN {TrainedOn(frame, kept) : kept \in TrainingSets(frame)}
             ELSE {}

FinishRetrain(t) ==
    /\ step[t] = "collecting" /\ todo[t] = <<>>
    /\ step' = [step EXCEPT ![t] = "idle"]
    /\ todo' = [todo EXCEPT ![t] = None]
    /\ rows' = [rows EXCEPT ![t] = <<>>]
    /\ relabelled' = [relabelled EXCEPT ![t] = {}]
    /\ UNCHANGED <<window, observed, labels>>

\* Too few labels, a training that fails, or a model that does not pass the
\* gate.
RetrainInVain(t) ==
    /\ FinishRetrain(t)
    /\ UNCHANGED files
    /\ reply' = None

Promote(t, values) ==
    /\ FinishRetrain(t)
    /\ profiles' = [profiles EXCEPT !["latest"] = ReferenceProfile(values)]
    /\ registered' = "latest"
    /\ reply' = [verdict |-> "PROMOTED", profile |-> profiles'["latest"],
                 of |-> [i \in DOMAIN values |-> [value |-> values[i]]]]

WindowNext ==
    \/ \E t \in Threads :
          \/ \E o \in Observations : AppendObservation(t, o)
          \/ TestLength(t) \/ PopLeft(t)
          \/ ReadReference(t) \/ Drift(t)
          \/ BeginRetrain(t) \/ CollectLabeled(t) \/ RetrainInVain(t)
          \/ \E values \in Trained(t) : Promote(t, values)
    \/ \E i \in Ids, label \in Labels : RecordFeedback(i, label)

WindowSpec == WindowInit /\ [][WindowNext]_monitor

-----------------------------------------------------------------------------
\* Threads that trim at once may drop one observation too many each, but no
\* more than the other threads, and at rest the window is within its length
\* (WindowedObservationStore.add).
WindowBounded ==
    LET trimming == {t \in Threads : step[t] \in {"appended", "excess"}}
        others == Cardinality(Threads) - 1
    IN  /\ Len(window) <= MaxLen + Cardinality(trimming)
        /\ Len(window) >= Min({Len(observed), MaxLen - others})

\* What is left is the latest of what was observed, with no gap.
WindowLatest == window = SubSeq(observed, Len(observed) - Len(window) + 1, Len(observed))

Judged == reply # None /\ reply.verdict \in {"STABLE", "DRIFT"}

\* A window is called stable only if it has enough observations and reaches
\* every bin that holds a tenth of the reference, and drifting only if it is
\* not spread exactly as the reference is (drift_report, psi).
DriftSeen ==
    Judged /\ reply.profile.edges # None =>
        LET p == reply.profile
            now == Histogram(p.edges, reply.of)
            large == {i \in DOMAIN p.counts : 10 * p.counts[i] >= Total(p.counts)}
        IN  /\ reply.verdict = "STABLE" =>
                  Len(reply.of) >= MinWindow /\ \A i \in large : now[i] > 0
            /\ reply.verdict = "DRIFT" =>
                  \/ Total(now) = 0
                  \/ \E i \in DOMAIN now : now[i] * Total(p.counts) # p.counts[i] * Total(now)

\* All rows collected of one transaction carry one flag, if an analyst has
\* decided about it, unless the label came while they were collected; what only
\* the scorers labelled may contradict itself (collect_labeled).
LabelsConsistent ==
    \A t \in Threads : step[t] = "collecting" =>
        \A i, j \in DOMAIN rows[t] :
            /\ rows[t][i].of.id = rows[t][j].of.id
            /\ rows[t][i].flag # rows[t][j].flag
            => \/ rows[t][i].of.id \in relabelled[t]
               \/ LabelToFlag(labels[rows[t][i].of.id]) = None

\* However the rows are split, the profile made of a part counts each of them
\* in one bin, and those rows do not drift from it: a promotion does not call
\* for the next (compute_reference_profile, psi).
ProfileFits ==
    reply # None /\ reply.verdict = "PROMOTED" =>
        /\ Total(reply.profile.counts) = Len(reply.of)
        /\ ~Shifted(reply.profile.counts, Histogram(reply.profile.edges, reply.of))

\* The window a report judges is the latest of what was observed, and judged
\* as it is, against a profile that fits what it was made of (add, list,
\* drift_report, compute_reference_profile).
WindowKept == WindowBounded /\ WindowLatest /\ DriftSeen /\ ProfileFits
=============================================================================
