-------------------------- MODULE ModelPromotion --------------------------
(***************************************************************************)
(* The life of a fraud model on disk: services/model_monitor retrains and  *)
(* promotes, ml/supervised/train.py trains in place, ml/registry rolls     *)
(* back, and services/supervised_model loads the artifacts per request.    *)
(*                                                                         *)
(* Promotions run on the thread pool of the monitor and training and       *)
(* rollback in processes of their own; they share the files of the         *)
(* "latest" directory and registry.json, without a lock.  A file is        *)
(* truncated when it is opened and complete when it is closed.  Jobs that  *)
(* have the same file open are taken to leave what the last of them wrote. *)
(***************************************************************************)
EXTENDS Naturals, Sequences

CONSTANTS
    Versions,   \* version names: the caller's, or the time to the second
    Metrics,    \* held-out ROC-AUC and PR-AUC of a model, in steps of the
                \*    smallest difference; either may be missing
    Trained,    \* the models that a training may yield
    Tolerance,  \* PROMOTION_TOLERANCE
    Jobs,       \* runs that may be under way at a time
    Tasks,      \* which kinds of run the environment starts
    MayFail,    \* may a run die anywhere (killed, or OSError on a write)?
    Scorers,    \* scoring requests of supervised_model under way
    Nothing,    \* no value: a missing file, no champion
    Torn        \* the content of a file between truncation and close

Measure == {"roc_auc", "pr_auc"}

ASSUME MetricsAssumption == Metrics \subseteq [Measure -> Nat \cup {Nothing}] /\ Tolerance \in Nat
ASSUME TasksAssumption == Tasks \subseteq {"retrain", "train", "rollback"}
ASSUME MayFailAssumption == MayFail \in BOOLEAN

File  == {"model.joblib", "model.json", "reference_profile.json"}
Model == [version : Versions, metrics : Metrics]

ASSUME TrainedAssumption == Trained \subseteq Model
ASSUME NothingAssumption == Nothing \notin Model \cup Versions \cup Nat
ASSUME TornAssumption == Torn \notin Model /\ Torn # Nothing

VARIABLES
    files,      \* files[f]: the model whose file f of "latest" is
    registry,   \* registry.json: a Registry, or Torn
    task,       \* task[j]: what job j runs
    pc,         \* pc[j]: its next step
    todo,       \* todo[j]: the files it still has to write
    built,      \* built[j]: the model it trained
    payload,    \* payload[j]: what it read and will write back
    overtaken,  \* history: overtaken[j]: another job wrote the registry after
                \*    j was started, or passed the gate
    step,       \* step[s]: where scoring request s stands
    scoredBy,   \* scoredBy[s], named[s]: the model it loaded, the version
    named,      \*    it reports
    persisted   \* history: models whose artifact was ever written

jobVars == <<task, pc, todo, built, payload, overtaken>>
scorerVars == <<step, scoredBy, named>>
vars == <<files, registry, jobVars, scorerVars, persisted>>

-----------------------------------------------------------------------------
\* The content of registry.json for the one model name monitored.
Registry == [latest : Versions \cup {Nothing}, versions : [Versions -> Model \cup {Nothing}]]

ASSUME RegistryAssumption == Torn \notin Registry

Registered(r) == {v \in Versions : r.versions[v] # Nothing}
Champion(r) == IF r.latest = Nothing THEN Nothing ELSE r.versions[r.latest]

JobStep == {"idle", "trained", "copying", "open", "reread", "rewriting", "rewriteOpen",
            "registering", "saving", "savingOpen"}

TypeOK ==
    /\ files \in [File -> Model \cup {Nothing, Torn}]
    /\ registry \in Registry \cup {Torn}
    /\ task \in [Jobs -> Tasks \cup {Nothing}]
    /\ pc \in [Jobs -> JobStep]
    /\ todo \in [Jobs -> Seq(File)]
    /\ built \in [Jobs -> Model \cup {Nothing}]
    /\ payload \in [Jobs -> Registry \cup Model \cup {Nothing}]
    /\ overtaken \in [Jobs -> BOOLEAN]
    /\ step \in [Scorers -> {"idle", "loaded", "scored", "fallback", "error"}]
    /\ scoredBy \in [Scorers -> Model \cup {Nothing}]
    /\ named \in [Scorers -> Versions \cup {Nothing}]
    /\ persisted \subseteq Model

Init ==
    /\ files = [f \in File |-> Nothing]
    /\ registry = [latest |-> Nothing, versions |-> [v \in Versions |-> Nothing]]
    /\ task = [j \in Jobs |-> Nothing]
    /\ pc = [j \in Jobs |-> "idle"]
    /\ todo = [j \in Jobs |-> <<>>]
    /\ built = [j \in Jobs |-> Nothing]
    /\ payload = [j \in Jobs |-> Nothing]
    /\ overtaken = [j \in Jobs |-> FALSE]
    /\ step = [s \in Scorers |-> "idle"]
    /\ scoredBy = [s \in Scorers |-> Nothing]
    /\ named = [s \in Scorers |-> Nothing]
    /\ persisted = {}

-----------------------------------------------------------------------------
(* Starting and ending a job.                                                *)

Start(j, kind, first, files_, m, p) ==
    /\ pc[j] = "idle" /\ kind \in Tasks
    /\ task' = [task EXCEPT ![j] = kind]
    /\ pc' = [pc EXCEPT ![j] = first]
    /\ todo' = [todo EXCEPT ![j] = files_]
    /\ built' = [built EXCEPT ![j] = m]
    /\ payload' = [payload EXCEPT ![j] = p]
    /\ overtaken' = [overtaken EXCEPT ![j] = FALSE]
    /\ UNCHANGED <<files, registry, scorerVars, persisted>>

\* Returning, or raising: what is on disk stays as it is.
ForgetJob(j) ==
    /\ task' = [task EXCEPT ![j] = Nothing]
    /\ pc' = [pc EXCEPT ![j] = "idle"]
    /\ todo' = [todo EXCEPT ![j] = <<>>]
    /\ built' = [built EXCEPT ![j] = Nothing]
    /\ payload' = [payload EXCEPT ![j] = Nothing]

Forget(j) == ForgetJob(j) /\ overtaken' = [overtaken EXCEPT ![j] = FALSE]

\* A job at step "from" goes on to step "to", keeping what it knows.
Advance(j, from, to) == pc[j] = from /\ pc' = [pc EXCEPT ![j] = to]

\* POST /monitor/retrain with enough labels: the training subprocess works in
\* a scratch directory, so a run that fails in it changes nothing.
Retrain(j, m) == Start(j, "retrain", "trained", <<>>, m, Nothing)

\* ml/supervised/train.py writes straight into "latest".
TrainInPlace(j, m) ==
    Start(j, "train", "copying",
          <<"model.joblib", "reference_profile.json", "model.json">>, m, Nothing)

\* rollback raises KeyError on an unknown version.
Rollback(j, v) ==
    /\ registry # Torn
    /\ v \in Registered(registry)
    /\ Start(j, "rollback", "saving", <<>>, Nothing, [registry EXCEPT !.latest = v])

-----------------------------------------------------------------------------
(* promote_if_better                                                         *)

\* Both models have the measure.
Comparable(m, c, k) == m.metrics[k] # Nothing /\ c.metrics[k] # Nothing

\* Variant: the tolerance is counted the wrong way.
WideClears(m, r) ==
    LET c == Champion(r)
        k == IF Comparable(m, c, "roc_auc") THEN "roc_auc" ELSE "pr_auc"
    IN  c # Nothing /\ Comparable(m, c, k) => m.metrics[k] + 2 * Tolerance >= c.metrics[k]

\* ROC-AUC is compared where both have it, else PR-AUC; a model that cannot be
\* compared passes.
Clears(m, r) ==
    LET c == Champion(r)
        k == IF Comparable(m, c, "roc_auc") THEN "roc_auc" ELSE "pr_auc"
    IN  c # Nothing /\ Comparable(m, c, k) => m.metrics[k] + Tolerance >= c.metrics[k]

\* Variant: the version is registered before its artifacts are copied.
RegisterFirst(j) ==
    /\ Advance(j, "trained", "registering")
    /\ registry # Torn /\ Clears(built[j], registry)
    /\ UNCHANGED <<files, registry, task, todo, built, payload, overtaken, scorerVars, persisted>>

\* Variant: the sidecar is copied before the artifact.
SidecarFirst(j) ==
    /\ Advance(j, "trained", "copying")
    /\ registry # Torn /\ Clears(built[j], registry)
    /\ todo' = [todo EXCEPT ![j] = <<"model.json", "model.joblib", "reference_profile.json">>]
    /\ overtaken' = [overtaken EXCEPT ![j] = FALSE]
    /\ UNCHANGED <<files, registry, task, built, payload, scorerVars, persisted>>

\* Reading the champion; an unreadable registry raises.  Each file is copied if
\* the scratch directory has it: a training that succeeds leaves all three.
PassGate(j) ==
    /\ Advance(j, "trained", "copying")
    /\ registry # Torn /\ Clears(built[j], registry)
    /\ todo' = [todo EXCEPT ![j] = <<"model.joblib", "model.json", "reference_profile.json">>]
    /\ overtaken' = [overtaken EXCEPT ![j] = FALSE]
    /\ UNCHANGED <<files, registry, task, built, payload, scorerVars, persisted>>

FailGate(j) ==
    /\ pc[j] = "trained"
    /\ registry # Torn => ~ Clears(built[j], registry)
    /\ Forget(j)
    /\ UNCHANGED <<files, registry, scorerVars, persisted>>

OpenFile(j) ==
    /\ Advance(j, "copying", "open")
    /\ files' = [files EXCEPT ![Head(todo[j])] = Torn]
    /\ UNCHANGED <<registry, task, todo, built, payload, overtaken, scorerVars, persisted>>

\* After the last file a promotion goes on to rewrite the sidecar, a training
\* to register.
CloseFile(j) ==
    LET f == Head(todo[j]) IN
    /\ Advance(j, "open", IF Tail(todo[j]) # <<>> THEN "copying"
                          ELSE IF task[j] = "retrain" THEN "reread" ELSE "registering")
    /\ files' = [files EXCEPT ![f] = built[j]]
    /\ todo' = [todo EXCEPT ![j] = Tail(@)]
    /\ persisted' = IF f = "model.joblib" THEN persisted \cup {built[j]} ELSE persisted
    /\ UNCHANGED <<registry, task, built, payload, overtaken, scorerVars>>

\* The sidecar is read back to point it at the profile next to it; a torn one
\* is not JSON and raises.
RereadSidecar(j) ==
    /\ files["model.json"] # Torn
    /\ Advance(j, "reread", "rewriting")
    /\ payload' = [payload EXCEPT ![j] = files["model.json"]]
    /\ UNCHANGED <<files, registry, task, todo, built, overtaken, scorerVars, persisted>>

FailReread(j) ==
    /\ pc[j] = "reread" /\ files["model.json"] = Torn
    /\ Forget(j)
    /\ UNCHANGED <<files, registry, scorerVars, persisted>>

OpenSidecar(j) ==
    /\ Advance(j, "rewriting", "rewriteOpen")
    /\ files' = [files EXCEPT !["model.json"] = Torn]
    /\ UNCHANGED <<registry, task, todo, built, payload, overtaken, scorerVars, persisted>>

CloseSidecar(j) ==
    /\ Advance(j, "rewriteOpen", "registering")
    /\ files' = [files EXCEPT !["model.json"] = payload[j]]
    /\ payload' = [payload EXCEPT ![j] = Nothing]
    /\ UNCHANGED <<registry, task, todo, built, overtaken, scorerVars, persisted>>

-----------------------------------------------------------------------------
(* _register_version and register: read, modify and write the registry.      *)

\* Variants: the payload is built from scratch; the pointer is advanced without
\* an entry.
FreshWithVersion(r, m) ==
    [latest |-> m.version,
     versions |-> [v \in Versions |-> IF v = m.version THEN m ELSE Nothing]]

PointerOnly(r, m) == [r EXCEPT !.latest = m.version]
WithVersion(r, m) ==
    [latest |-> m.version, versions |-> [r.versions EXCEPT ![m.version] = m]]

ReadRegistry(j) ==
    /\ registry # Torn
    /\ Advance(j, "registering", "saving")
    /\ payload' = [payload EXCEPT ![j] = WithVersion(registry, built[j])]
    /\ UNCHANGED <<files, registry, task, todo, built, overtaken, scorerVars, persisted>>

FailRegister(j) ==
    /\ pc[j] = "registering" /\ registry = Torn
    /\ Forget(j)
    /\ UNCHANGED <<files, registry, scorerVars, persisted>>

OpenRegistry(j) ==
    /\ Advance(j, "saving", "savingOpen")
    /\ registry' = Torn
    /\ UNCHANGED <<files, task, todo, built, payload, overtaken, scorerVars, persisted>>

CloseRegistry(j) ==
    /\ pc[j] = "savingOpen"
    /\ registry' = payload[j]
    /\ ForgetJob(j)
    /\ overtaken' = [k \in Jobs |-> k # j /\ pc[k] # "idle"]
    /\ UNCHANGED <<files, scorerVars, persisted>>

\* A job dies where it stands.
Die(j) ==
    /\ MayFail /\ pc[j] # "idle"
    /\ Forget(j)
    /\ UNCHANGED <<files, registry, scorerVars, persisted>>

-----------------------------------------------------------------------------
(* supervised_model: _load_model reads the artifact, then the sidecar.       *)

\* A missing artifact falls back to the heuristic.  Unpickling a truncated one
\* raises: OSError and ValueError are caught and fall back, EOFError, which an
\* empty file raises, is not.
LoadArtifact(s) ==
    LET content == files["model.joblib"] IN
    /\ step[s] = "idle"
    /\ \E outcome \in IF content = Nothing THEN {"fallback"}
                      ELSE IF content = Torn THEN {"fallback", "error"} ELSE {"loaded"} :
          step' = [step EXCEPT ![s] = outcome]
    /\ scoredBy' = [scoredBy EXCEPT ![s] = IF content = Torn THEN Nothing ELSE content]
    /\ UNCHANGED <<files, registry, jobVars, named, persisted>>

\* The sidecar is parsed outside the try; without one the version is "unknown".
LoadSidecar(s) ==
    LET content == files["model.json"] IN
    /\ step[s] = "loaded"
    /\ step' = [step EXCEPT ![s] = IF content = Torn THEN "error" ELSE "scored"]
    /\ named' = [named EXCEPT ![s] = IF content \in {Nothing, Torn} THEN Nothing
                                     ELSE content.version]
    /\ UNCHANGED <<files, registry, jobVars, scoredBy, persisted>>

Answer(s) ==
    /\ step[s] \in {"scored", "fallback", "error"}
    /\ step' = [step EXCEPT ![s] = "idle"]
    /\ scoredBy' = [scoredBy EXCEPT ![s] = Nothing]
    /\ named' = [named EXCEPT ![s] = Nothing]
    /\ UNCHANGED <<files, registry, jobVars, persisted>>

-----------------------------------------------------------------------------
Promote(j) ==
    \/ PassGate(j) \/ FailGate(j) \/ OpenFile(j) \/ CloseFile(j)
    \/ RereadSidecar(j) \/ FailReread(j) \/ OpenSidecar(j) \/ CloseSidecar(j)
    \/ ReadRegistry(j) \/ FailRegister(j) \/ OpenRegistry(j) \/ CloseRegistry(j)

Score(s) == LoadArtifact(s) \/ LoadSidecar(s) \/ Answer(s)

Next ==
    \/ \E j \in Jobs, m \in Trained : Retrain(j, m) \/ TrainInPlace(j, m)
    \/ \E j \in Jobs, v \in Versions : Rollback(j, v)
    \/ \E j \in Jobs : Promote(j) \/ Die(j)
    \/ \E s \in Scorers : Score(s)

Spec == Init /\ [][Next]_vars

-----------------------------------------------------------------------------
\* The pointer "latest" never dangles, on disk or in what a job is about to
\* write, and every version is filed under its own name (register, rollback).
Coherent(r) ==
    /\ r.latest # Nothing => r.latest \in Registered(r)
    /\ \A v \in Registered(r) : r.versions[v].version = v

RegistryCoherent ==
    /\ registry # Torn => Coherent(registry)
    /\ \A j \in Jobs : pc[j] \in {"saving", "savingOpen"} => Coherent(payload[j])

\* "registry is only written after the model is persisted"
\* (docs/evaluation.md:72), whoever else writes and whatever fails.
PersistedFirst ==
    registry # Torn => \A v \in Registered(registry) : registry.versions[v] \in persisted

\* "a worse retrain never replaces a good model" (model_monitor/service.py:7),
\* by "held-out ROC-AUC (PR-AUC as fallback)" (service.py:332).
Worse(m, c) ==
    \E k \in Measure :
        /\ Comparable(m, c, k)
        /\ k = "roc_auc" \/ ~ Comparable(m, c, "roc_auc")
        /\ m.metrics[k] + Tolerance < c.metrics[k]

Replaces(j) == pc[j] = "saving" /\ registry # Torn /\ Champion(registry) # Nothing

\* No promotion is about to replace a champion that beats it by more than the
\* tolerance.
PromotionGated ==
    \A j \in Jobs :
        Replaces(j) /\ task[j] = "retrain" => ~ Worse(built[j], Champion(registry))

\* However jobs race and wherever they die, a promotion is about to replace a
\* champion that beats it only if another job wrote the registry after the gate
\* (promote_if_better).
GatedUnlessOvertaken ==
    \A j \in Jobs :
        Replaces(j) /\ task[j] = "retrain" /\ Worse(built[j], Champion(registry)) => overtaken[j]

\* "all_versions is never truncated" (docs/evaluation.md:78): a job is about to
\* drop a version from the registry only if another wrote it meanwhile, whatever
\* dies and whichever versions are rewritten.
KeptUnlessOvertaken ==
    \A j \in Jobs :
        pc[j] = "saving" /\ registry # Torn /\ ~ overtaken[j]
            => Registered(registry) \subseteq Registered(payload[j])

\* A score comes from a model that was persisted, and the version it names is
\* that of a persisted model, whatever training or promotion is replacing the
\* files meanwhile or died over them (_load_model, _read_sidecar).
ScoresTraceable ==
    \A s \in Scorers :
        /\ step[s] \in {"loaded", "scored"} => scoredBy[s] \in persisted
        /\ named[s] # Nothing => \E m \in persisted : m.version = named[s]

Quiet == \A j \in Jobs : pc[j] = "idle"

\* "latest is a pointer that training advances and rollback can rewind, so
\* serving always reads a named, auditable version" (model_registry.py:4):
\* between runs the artifact served is the model the registry calls latest.
ServedIsLatest ==
    Quiet /\ registry # Torn => files["model.joblib"] = Champion(registry)

\* "joblib.load errors are caught and treated as model unavailable (fallback
\* path), not a 500" (docs/evaluation.md:79): no request fails over the artifact.
PartialArtifactDegrades ==
    [][\A s \in Scorers : step[s] = "idle" => step'[s] # "error"]_vars
=============================================================================
