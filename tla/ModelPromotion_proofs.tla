----------------------- MODULE ModelPromotion_proofs -----------------------
(***************************************************************************)
(* What holds of the registry whatever jobs race and wherever they die,    *)
(* for any number of versions, models and jobs.  The argument follows the  *)
(* payload: a job writes the registry only with a payload that was sound   *)
(* when it was built, and a sound payload stays sound, because what was    *)
(* once persisted counts as persisted for ever.  The second part says that *)
(* what a job found in the registry holds until another job writes it; the *)
(* third, that no file but the artifact is ever of a model whose artifact  *)
(* was not written, so no score can be traced to one.                      *)
(***************************************************************************)
EXTENDS ModelPromotion, TLAPS

\* A registry is sound when it is coherent and names persisted models only.
Sound(r) ==
    /\ r \in Registry
    /\ Coherent(r)
    /\ \A v \in Registered(r) : r.versions[v] \in persisted

Copying == {"copying", "open"}
Finishing == {"reread", "rewriting", "rewriteOpen", "registering"}

\* What a job knows at each step: the artifact is the first file it writes,
\* so once another one is due its model is persisted.
JobOK(j) ==
    /\ pc[j] \in {"trained"} \cup Copying \cup Finishing => built[j] \in Model
    /\ pc[j] \in Copying =>
          /\ todo[j] # <<>>
          /\ built[j] \in persisted \/ Head(todo[j]) = "model.joblib"
    /\ pc[j] \in Finishing => built[j] \in persisted
    /\ pc[j] \in {"rewriting", "rewriteOpen"} => payload[j] \in Model \cup {Nothing}
    /\ pc[j] \in {"saving", "savingOpen"} => Sound(payload[j])

RegistryOK == registry # Torn => Sound(registry)

IInv == TypeOK /\ RegistryOK /\ \A j \in Jobs : JobOK(j)

-----------------------------------------------------------------------------
\* Entering a model under its own version keeps a registry sound.
LEMMA WithVersionSound ==
    ASSUME NEW r, Sound(r), NEW m \in Model, m \in persisted
    PROVE  Sound(WithVersion(r, m))
<1> DEFINE n == WithVersion(r, m)
<1>1. m.version \in Versions
  BY DEF Model
<1>2. n \in Registry
  BY <1>1 DEF Sound, Registry, WithVersion
<1>3. /\ n.latest = m.version
      /\ \A v \in Versions : n.versions[v] = IF v = m.version THEN m ELSE r.versions[v]
  BY <1>1 DEF Sound, Registry, WithVersion
<1>4. m # Nothing
  BY NothingAssumption
<1>5. Coherent(n)
  BY <1>1, <1>3, <1>4 DEF Sound, Coherent, Registered
<1>6. \A v \in Registered(n) : n.versions[v] \in persisted
  BY <1>3 DEF Sound, Registered
<1> QED
  BY <1>2, <1>5, <1>6 DEF Sound

\* Moving the pointer to a registered version keeps a registry sound.
LEMMA RewindSound ==
    ASSUME NEW r, Sound(r), NEW v \in Registered(r)
    PROVE  Sound([r EXCEPT !.latest = v])
<1> DEFINE n == [r EXCEPT !.latest = v]
<1>1. v \in Versions
  BY DEF Registered
<1>2. n \in Registry /\ n.latest = v /\ n.versions = r.versions
  BY <1>1 DEF Sound, Registry
<1>3. Registered(n) = Registered(r)
  BY <1>2 DEF Registered
<1> QED
  BY <1>2, <1>3 DEF Sound, Coherent

\* Every step only ever adds to what was persisted.
LEMMA PersistedGrows == [Next]_vars => persisted \subseteq persisted'
  BY DEF Next, vars, Retrain, TrainInPlace, Rollback, Start, Promote, PassGate, FailGate, OpenFile,
         CloseFile, RereadSidecar, FailReread, OpenSidecar, CloseSidecar, ReadRegistry, FailRegister,
         OpenRegistry, CloseRegistry, Die, Score, LoadArtifact, LoadSidecar, Answer

-----------------------------------------------------------------------------
LEMMA InitInv == Init => IInv
<1> SUFFICES ASSUME Init PROVE IInv
  OBVIOUS
<1>1. TypeOK
  BY DEF Init, TypeOK, File, JobStep, Registry
<1>2. Sound(registry)
  BY NothingAssumption DEF Init, Sound, Registry, Coherent, Registered
<1>3. \A j \in Jobs : JobOK(j)
  BY DEF Init, JobOK, Copying, Finishing
<1> QED
  BY <1>1, <1>2, <1>3 DEF IInv, RegistryOK

\* A job that no step touches still knows what it knew.
LEMMA BystanderOK ==
    ASSUME NEW k, JobOK(k), persisted \subseteq persisted',
           pc'[k] = pc[k], todo'[k] = todo[k], built'[k] = built[k], payload'[k] = payload[k]
    PROVE  JobOK(k)'
<1>1. pc[k] \in {"saving", "savingOpen"} => Sound(payload[k])'
  <2> SUFFICES ASSUME pc[k] \in {"saving", "savingOpen"} PROVE Sound(payload[k])'
    OBVIOUS
  <2>1. Sound(payload[k])
    BY DEF JobOK
  <2>2. Sound(payload[k])' <=> LET r == payload[k] IN
            /\ r \in Registry /\ Coherent(r)
            /\ \A v \in Registered(r) : r.versions[v] \in persisted'
    BY DEF Sound, Coherent, Registered
  <2> QED
    BY <2>1, <2>2 DEF Sound
<1> QED
  BY <1>1 DEF JobOK, Copying, Finishing

\* A job that has come to rest knows nothing and needs nothing.
LEMMA ForgetOK ==
    ASSUME TypeOK, NEW j \in Jobs, ForgetJob(j)
    PROVE  JobOK(j)'
  BY DEF TypeOK, ForgetJob, JobOK, Copying, Finishing

-----------------------------------------------------------------------------
(* Types.                                                                    *)

LEMMA StartType ==
    ASSUME TypeOK, NEW j \in Jobs, NEW kind, NEW first \in JobStep, NEW t \in Seq(File),
           NEW m \in Model \cup {Nothing}, NEW p \in Registry \cup {Nothing},
           Start(j, kind, first, t, m, p)
    PROVE  TypeOK'
  BY DEF TypeOK, Start, scorerVars

LEMMA ForgetType ==
    ASSUME TypeOK, NEW j \in Jobs, ForgetJob(j)
    PROVE  /\ task' \in [Jobs -> Tasks \cup {Nothing}]
           /\ pc' \in [Jobs -> JobStep]
           /\ todo' \in [Jobs -> Seq(File)]
           /\ built' \in [Jobs -> Model \cup {Nothing}]
           /\ payload' \in [Jobs -> Registry \cup Model \cup {Nothing}]
  BY DEF TypeOK, ForgetJob, JobStep

LEMMA TypeStep == IInv /\ [Next]_vars => TypeOK'
<1> SUFFICES ASSUME IInv, [Next]_vars PROVE TypeOK'
  OBVIOUS
<1> USE DEF scorerVars
<1>t. TypeOK
  BY DEF IInv
<1>1. ASSUME NEW j \in Jobs, NEW m \in Trained, Retrain(j, m) PROVE TypeOK'
  <2>1. "trained" \in JobStep /\ <<>> \in Seq(File)
    BY DEF JobStep
  <2> QED
    BY <1>t, <1>1, <2>1, StartType, TrainedAssumption DEF Retrain
<1>2. ASSUME NEW j \in Jobs, NEW m \in Trained, TrainInPlace(j, m) PROVE TypeOK'
  <2>1. /\ "copying" \in JobStep
        /\ <<"model.joblib", "reference_profile.json", "model.json">> \in Seq(File)
    BY DEF JobStep, File
  <2> QED
    BY <1>t, <1>2, <2>1, StartType, TrainedAssumption DEF TrainInPlace
<1>3. ASSUME NEW j \in Jobs, NEW v \in Versions, Rollback(j, v) PROVE TypeOK'
  <2>1. "saving" \in JobStep /\ <<>> \in Seq(File)
    BY DEF JobStep
  <2>2. Sound(registry)
    BY <1>3 DEF IInv, RegistryOK, Rollback
  <2>3. [registry EXCEPT !.latest = v] \in Registry
    BY <1>3, <2>2, RewindSound DEF Sound, Rollback
  <2> QED
    BY <1>t, <1>3, <2>1, <2>3, StartType DEF Rollback
<1>4. ASSUME NEW j \in Jobs, PassGate(j) PROVE TypeOK'
  <2>1. <<"model.joblib", "model.json", "reference_profile.json">> \in Seq(File)
    BY DEF File
  <2> QED
    BY <1>t, <1>4, <2>1 DEF TypeOK, PassGate, Advance, JobStep
<1>5. ASSUME NEW j \in Jobs, FailGate(j) \/ FailReread(j) \/ FailRegister(j) \/ Die(j) PROVE TypeOK'
  BY <1>t, <1>5, ForgetType DEF TypeOK, FailGate, FailReread, FailRegister, Die, Forget
<1>6. ASSUME NEW j \in Jobs, OpenFile(j) PROVE TypeOK'
  BY <1>t, <1>6 DEF TypeOK, OpenFile, Advance, JobStep
<1>7. ASSUME NEW j \in Jobs, CloseFile(j) PROVE TypeOK'
  <2>1. pc[j] = "open" /\ built[j] \in Model /\ todo[j] # <<>>
    BY <1>7 DEF IInv, JobOK, Copying, CloseFile, Advance
  <2>2. todo[j] \in Seq(File)
    BY <1>t DEF TypeOK
  <2>3. Tail(todo[j]) \in Seq(File)
    BY <2>1, <2>2
  <2>4. files' \in [File -> Model \cup {Nothing, Torn}]
    BY <1>t, <1>7, <2>1 DEF TypeOK, CloseFile
  <2>5. pc' \in [Jobs -> JobStep]
    BY <1>t, <1>7 DEF TypeOK, CloseFile, Advance, JobStep
  <2>6. todo' \in [Jobs -> Seq(File)]
    BY <1>t, <1>7, <2>3 DEF TypeOK, CloseFile
  <2>7. persisted' \subseteq Model
    BY <1>t, <1>7, <2>1 DEF TypeOK, CloseFile
  <2> QED
    BY <1>t, <1>7, <2>4, <2>5, <2>6, <2>7 DEF TypeOK, CloseFile
<1>8. ASSUME NEW j \in Jobs, RereadSidecar(j) PROVE TypeOK'
  <2>1. files["model.json"] \in Model \cup {Nothing}
    BY <1>t, <1>8 DEF TypeOK, RereadSidecar, File
  <2> QED
    BY <1>t, <1>8, <2>1 DEF TypeOK, RereadSidecar, Advance, JobStep
<1>9. ASSUME NEW j \in Jobs, OpenSidecar(j) PROVE TypeOK'
  BY <1>t, <1>9 DEF TypeOK, OpenSidecar, Advance, JobStep
<1>10. ASSUME NEW j \in Jobs, CloseSidecar(j) PROVE TypeOK'
  <2>1. payload[j] \in Model \cup {Nothing}
    BY <1>10 DEF IInv, JobOK, CloseSidecar, Advance
  <2> QED
    BY <1>t, <1>10, <2>1 DEF TypeOK, CloseSidecar, Advance, JobStep
<1>11. ASSUME NEW j \in Jobs, ReadRegistry(j) PROVE TypeOK'
  <2>1. Sound(registry) /\ built[j] \in Model /\ built[j] \in persisted
    BY <1>11 DEF IInv, RegistryOK, JobOK, Finishing, ReadRegistry, Advance
  <2>2. WithVersion(registry, built[j]) \in Registry
    BY <2>1, WithVersionSound DEF Sound
  <2> QED
    BY <1>t, <1>11, <2>2 DEF TypeOK, ReadRegistry, Advance, JobStep
<1>12. ASSUME NEW j \in Jobs, OpenRegistry(j) PROVE TypeOK'
  BY <1>t, <1>12 DEF TypeOK, OpenRegistry, Advance, JobStep
<1>13. ASSUME NEW j \in Jobs, CloseRegistry(j) PROVE TypeOK'
  <2>1. payload[j] \in Registry
    BY <1>13 DEF IInv, JobOK, Sound, CloseRegistry
  <2> QED
    BY <1>t, <1>13, <2>1, ForgetType DEF TypeOK, CloseRegistry
<1>14. ASSUME NEW s \in Scorers, LoadArtifact(s) PROVE TypeOK'
  <2>1. files["model.joblib"] \in Model \cup {Nothing, Torn}
    BY <1>t DEF TypeOK, File
  <2> QED
    BY <1>t, <1>14, <2>1 DEF TypeOK, LoadArtifact, jobVars
<1>15. ASSUME NEW s \in Scorers, LoadSidecar(s) PROVE TypeOK'
  <2>1. files["model.json"] \in Model \cup {Nothing, Torn}
    BY <1>t DEF TypeOK, File
  <2>2. files["model.json"] \notin {Nothing, Torn} => files["model.json"].version \in Versions
    BY <2>1 DEF Model
  <2> QED
    BY <1>t, <1>15, <2>2 DEF TypeOK, LoadSidecar, jobVars
<1>16. ASSUME NEW s \in Scorers, Answer(s) PROVE TypeOK'
  BY <1>t, <1>16 DEF TypeOK, Answer, jobVars
<1>17. CASE UNCHANGED vars
  BY <1>t, <1>17 DEF TypeOK, vars, jobVars
<1> QED
  BY <1>1, <1>2, <1>3, <1>4, <1>5, <1>6, <1>7, <1>8, <1>9, <1>10, <1>11, <1>12, <1>13, <1>14,
     <1>15, <1>16, <1>17
  DEF Next, Promote, Score

-----------------------------------------------------------------------------
(* The registry and what the jobs know.                                      *)

LEMMA RegistryStep == IInv /\ [Next]_vars => RegistryOK'
<1> SUFFICES ASSUME IInv, [Next]_vars PROVE RegistryOK'
  OBVIOUS
<1>1. CASE UNCHANGED registry
  <2>1. persisted \subseteq persisted'
    BY PersistedGrows
  <2> SUFFICES ASSUME registry' # Torn PROVE Sound(registry)'
    BY DEF RegistryOK
  <2>2. Sound(registry)
    BY <1>1 DEF IInv, RegistryOK
  <2> QED
    BY <1>1, <2>1, <2>2 DEF Sound, Coherent, Registered
<1>2. CASE \E j \in Jobs : OpenRegistry(j)
  BY <1>2 DEF OpenRegistry, RegistryOK
<1>3. ASSUME NEW j \in Jobs, CloseRegistry(j) PROVE RegistryOK'
  <2>1. Sound(payload[j])
    BY <1>3 DEF IInv, JobOK, CloseRegistry
  <2>2. registry' = payload[j] /\ persisted' = persisted
    BY <1>3 DEF CloseRegistry
  <2> QED
    BY <2>1, <2>2 DEF RegistryOK, Sound, Coherent, Registered
<1>4. \/ UNCHANGED registry
      \/ \E j \in Jobs : OpenRegistry(j) \/ CloseRegistry(j)
  BY DEF Next, vars, Retrain, TrainInPlace, Rollback, Start, Promote, PassGate, FailGate, OpenFile,
         CloseFile, RereadSidecar, FailReread, OpenSidecar, CloseSidecar, ReadRegistry, FailRegister,
         Die, Score, LoadArtifact, LoadSidecar, Answer
<1> QED
  BY <1>1, <1>2, <1>3, <1>4

\* What the job that moves knows afterwards.
LEMMA MoverStep ==
    ASSUME IInv, NEW j \in Jobs,
           \/ \E m \in Trained : Retrain(j, m) \/ TrainInPlace(j, m)
           \/ \E v \in Versions : Rollback(j, v)
           \/ Promote(j)
           \/ Die(j)
    PROVE  JobOK(j)'
<1> USE DEF Copying, Finishing
<1>t. TypeOK /\ JobOK(j)
  BY DEF IInv
<1>1. ASSUME NEW m \in Trained, Retrain(j, m) PROVE JobOK(j)'
  BY TrainedAssumption, <1>t, <1>1 DEF TypeOK, JobOK, Retrain, Start
<1>2. ASSUME NEW m \in Trained, TrainInPlace(j, m) PROVE JobOK(j)'
  BY TrainedAssumption, <1>t, <1>2 DEF TypeOK, JobOK, TrainInPlace, Start
<1>3. ASSUME NEW v \in Versions, Rollback(j, v) PROVE JobOK(j)'
  <2>1. Sound([registry EXCEPT !.latest = v])
    BY <1>3, RewindSound DEF IInv, RegistryOK, Rollback
  <2>2. persisted' = persisted /\ pc'[j] = "saving" /\ payload'[j] = [registry EXCEPT !.latest = v]
    BY <1>t, <1>3 DEF TypeOK, Rollback, Start
  <2>3. Sound(payload[j])'
    BY <2>1, <2>2 DEF Sound, Coherent, Registered
  <2> QED
    BY <2>2, <2>3 DEF JobOK
<1>4. CASE PassGate(j)
  BY <1>t, <1>4 DEF TypeOK, JobOK, PassGate, Advance
<1>5. CASE FailGate(j) \/ FailReread(j) \/ FailRegister(j) \/ CloseRegistry(j) \/ Die(j)
  BY <1>t, <1>5, ForgetOK DEF FailGate, FailReread, FailRegister, CloseRegistry, Die, Forget
<1>6. CASE OpenFile(j)
  BY <1>t, <1>6 DEF TypeOK, JobOK, OpenFile, Advance
<1>7. CASE CloseFile(j)
  <2>1. built[j] \in Model /\ todo[j] # <<>> /\ pc[j] = "open"
    BY <1>t, <1>7 DEF JobOK, CloseFile, Advance
  <2>2. built[j] \in persisted'
    BY <1>t, <1>7, <2>1 DEF JobOK, CloseFile
  <2>3. todo'[j] = Tail(todo[j]) /\ built' = built
    BY <1>t, <1>7 DEF TypeOK, CloseFile
  <2>4. pc'[j] \in {"copying", "reread", "registering"}
    BY <1>t, <1>7 DEF TypeOK, CloseFile, Advance
  <2>5. pc'[j] = "copying" => todo'[j] # <<>>
    BY <1>t, <1>7, <2>3 DEF TypeOK, CloseFile, Advance
  <2> QED
    BY <2>1, <2>2, <2>3, <2>4, <2>5 DEF JobOK
<1>8. CASE RereadSidecar(j)
  <2>1. files["model.json"] \in Model \cup {Nothing}
    BY <1>t, <1>8 DEF TypeOK, RereadSidecar, File
  <2> QED
    BY <1>t, <1>8, <2>1 DEF TypeOK, JobOK, RereadSidecar, Advance
<1>9. CASE OpenSidecar(j)
  BY <1>t, <1>9 DEF TypeOK, JobOK, OpenSidecar, Advance
<1>10. CASE CloseSidecar(j)
  BY <1>t, <1>10 DEF TypeOK, JobOK, CloseSidecar, Advance
<1>11. CASE ReadRegistry(j)
  <2>1. Sound(registry) /\ built[j] \in Model /\ built[j] \in persisted
    BY <1>t, <1>11 DEF IInv, RegistryOK, JobOK, ReadRegistry, Advance
  <2>2. Sound(WithVersion(registry, built[j]))
    BY <2>1, WithVersionSound
  <2>3. /\ persisted' = persisted /\ pc'[j] = "saving"
        /\ payload'[j] = WithVersion(registry, built[j])
    BY <1>t, <1>11 DEF TypeOK, ReadRegistry, Advance
  <2>4. Sound(payload[j])'
    BY <2>2, <2>3 DEF Sound, Coherent, Registered
  <2> QED
    BY <2>3, <2>4 DEF JobOK
<1>12. CASE OpenRegistry(j)
  <2>1. Sound(payload[j])
    BY <1>t, <1>12 DEF JobOK, OpenRegistry, Advance
  <2>2. persisted' = persisted /\ pc'[j] = "savingOpen" /\ payload' = payload
    BY <1>t, <1>12 DEF TypeOK, OpenRegistry, Advance
  <2>3. Sound(payload[j])'
    BY <2>1, <2>2 DEF Sound, Coherent, Registered
  <2> QED
    BY <2>2, <2>3 DEF JobOK
<1> QED
  BY <1>1, <1>2, <1>3, <1>4, <1>5, <1>6, <1>7, <1>8, <1>9, <1>10, <1>11, <1>12 DEF Promote

\* A step of job j leaves every other job where it is.
LEMMA OthersKeep ==
    ASSUME TypeOK, NEW j \in Jobs, NEW k \in Jobs \ {j},
           \/ \E m \in Trained : Retrain(j, m) \/ TrainInPlace(j, m)
           \/ \E v \in Versions : Rollback(j, v)
           \/ Promote(j)
           \/ Die(j)
    PROVE  pc'[k] = pc[k] /\ todo'[k] = todo[k] /\ built'[k] = built[k] /\ payload'[k] = payload[k]
<1> USE DEF TypeOK
<1>1. CASE \/ \E m \in Trained : Retrain(j, m) \/ TrainInPlace(j, m)
           \/ \E v \in Versions : Rollback(j, v)
  BY <1>1 DEF Retrain, TrainInPlace, Rollback, Start
<1>2. CASE FailGate(j) \/ FailReread(j) \/ FailRegister(j) \/ CloseRegistry(j) \/ Die(j)
  BY <1>2 DEF FailGate, FailReread, FailRegister, CloseRegistry, Die, Forget, ForgetJob
<1>3. CASE PassGate(j) \/ OpenFile(j) \/ CloseFile(j)
  BY <1>3 DEF PassGate, OpenFile, CloseFile, Advance
<1>4. CASE RereadSidecar(j) \/ OpenSidecar(j) \/ CloseSidecar(j) \/ ReadRegistry(j) \/ OpenRegistry(j)
  BY <1>4 DEF RereadSidecar, OpenSidecar, CloseSidecar, ReadRegistry, OpenRegistry, Advance
<1> QED
  BY <1>1, <1>2, <1>3, <1>4 DEF Promote

LEMMA JobStepOK == IInv /\ [Next]_vars => (\A j \in Jobs : JobOK(j))'
<1> SUFFICES ASSUME IInv, [Next]_vars, NEW k \in Jobs PROVE JobOK(k)'
  OBVIOUS
<1>g. persisted \subseteq persisted' /\ JobOK(k) /\ TypeOK
  BY PersistedGrows DEF IInv
<1>1. ASSUME NEW j \in Jobs,
             \/ \E m \in Trained : Retrain(j, m) \/ TrainInPlace(j, m)
             \/ \E v \in Versions : Rollback(j, v)
             \/ Promote(j)
             \/ Die(j)
      PROVE  JobOK(k)'
  <2>1. CASE k = j
    BY <1>1, <2>1, MoverStep
  <2>2. CASE k # j
    <3>1. pc'[k] = pc[k] /\ todo'[k] = todo[k] /\ built'[k] = built[k] /\ payload'[k] = payload[k]
      BY <1>g, <1>1, <2>2, OthersKeep
    <3> QED
      BY <1>g, <3>1, BystanderOK
  <2> QED
    BY <2>1, <2>2
<1>2. CASE UNCHANGED vars \/ \E s \in Scorers : Score(s)
  <2>1. pc' = pc /\ todo' = todo /\ built' = built /\ payload' = payload
    BY <1>2 DEF vars, jobVars, Score, LoadArtifact, LoadSidecar, Answer
  <2> QED
    BY <1>g, <2>1, BystanderOK
<1> QED
  BY <1>1, <1>2 DEF Next

-----------------------------------------------------------------------------
LEMMA Invariance == Spec => []IInv
<1>1. IInv /\ [Next]_vars => IInv'
  BY TypeStep, RegistryStep, JobStepOK DEF IInv
<1> QED
  BY InitInv, <1>1, PTL DEF Spec

\* Files, registry and jobs keep their types, for any number of versions,
\* scores, jobs and scoring requests (the whole of the module).
THEOREM TypeCorrect == Spec => []TypeOK
<1>1. IInv => TypeOK
  BY DEF IInv
<1> QED
  BY Invariance, <1>1, PTL

\* However many jobs race, and wherever they die, the registry's pointer never
\* dangles and versions are filed under their own names (register, rollback).
THEOREM RegistryCorrect == Spec => []RegistryCoherent
<1>1. IInv => RegistryCoherent
  BY DEF IInv, RegistryOK, JobOK, Sound, RegistryCoherent
<1> QED
  BY Invariance, <1>1, PTL

\* However many jobs race, and wherever they die, what the registry names was
\* persisted before ("registry is only written after the model is persisted").
THEOREM PersistenceCorrect == Spec => []PersistedFirst
<1>1. IInv => PersistedFirst
  BY DEF IInv, RegistryOK, Sound, PersistedFirst
<1> QED
  BY Invariance, <1>1, PTL

-----------------------------------------------------------------------------
(* What a job read of the registry, until another writes it.                 *)

\* A promotion that passed the gate still clears the champion when it saves,
\* and what a job saves knows every version the registry names.
Gated == {"copying", "open"} \cup Finishing \cup {"saving"}

CurrentOK(j) ==
    registry # Torn /\ ~ overtaken[j] =>
        /\ pc[j] \in Gated /\ task[j] = "retrain" => built[j] \in Model /\ Clears(built[j], registry)
        /\ pc[j] = "saving" => Registered(registry) \subseteq Registered(payload[j])

CurrentInv == \A j \in Jobs : CurrentOK(j)

\* The steps of job j, and the steps that leave jobs, files and registry alone.
StepOf(j) ==
    \/ \E m \in Trained : Retrain(j, m) \/ TrainInPlace(j, m)
    \/ \E v \in Versions : Rollback(j, v)
    \/ Promote(j)
    \/ Die(j)

LEMMA StepCases ==
    ASSUME [Next]_vars
    PROVE  \/ \E j \in Jobs : StepOf(j)
           \/ /\ UNCHANGED <<files, registry, task, pc, todo, built, payload, overtaken, persisted>>
              /\ UNCHANGED vars \/ \E s \in Scorers : Score(s)
  BY DEF Next, vars, jobVars, Score, LoadArtifact, LoadSidecar, Answer, StepOf

LEMMA WithVersionGrows ==
    ASSUME NEW r \in Registry, NEW m \in Model
    PROVE  Registered(r) \subseteq Registered(WithVersion(r, m))
<1>1. m.version \in Versions /\ m # Nothing
  BY NothingAssumption DEF Model
<1>2. \A v \in Versions :
         WithVersion(r, m).versions[v] = IF v = m.version THEN m ELSE r.versions[v]
  BY <1>1 DEF Registry, WithVersion
<1> QED
  BY <1>1, <1>2 DEF Registered

\* The job that moves: the gate and the reading of the registry set up what it
\* needs, every other step of its own keeps it.
LEMMA CurrentMover ==
    ASSUME IInv, NEW j \in Jobs, CurrentOK(j), StepOf(j)
    PROVE  CurrentOK(j)'
<1> USE DEF Finishing, Gated
<1>t. TypeOK /\ JobOK(j) /\ RegistryOK
  BY DEF IInv
<1>1. ASSUME NEW m \in Trained, Retrain(j, m) \/ TrainInPlace(j, m) PROVE CurrentOK(j)'
  BY <1>t, <1>1 DEF TypeOK, CurrentOK, Retrain, TrainInPlace, Start
<1>2. ASSUME NEW v \in Versions, Rollback(j, v) PROVE CurrentOK(j)'
  <2>1. /\ pc'[j] = "saving" /\ task'[j] = "rollback" /\ registry' = registry
        /\ payload'[j] = [registry EXCEPT !.latest = v]
    BY <1>t, <1>2 DEF TypeOK, Rollback, Start
  <2>2. registry \in Registry
    BY <1>t, <1>2 DEF RegistryOK, Sound, Rollback
  <2>3. payload'[j].versions = registry.versions
    BY <2>1, <2>2 DEF Registry
  <2> QED
    BY <2>1, <2>3 DEF CurrentOK, Registered
<1>3. CASE PassGate(j)
  <2>1. /\ pc[j] = "trained" /\ pc'[j] = "copying" /\ built' = built /\ registry' = registry
        /\ Clears(built[j], registry)
    BY <1>t, <1>3 DEF TypeOK, PassGate, Advance
  <2>2. built[j] \in Model
    BY <1>t, <2>1 DEF JobOK
  <2>3. Clears(built[j], registry)'
    BY <2>1 DEF Clears, Champion, Comparable
  <2> QED
    BY <2>1, <2>2, <2>3 DEF CurrentOK
<1>4. CASE FailGate(j) \/ FailReread(j) \/ FailRegister(j) \/ CloseRegistry(j) \/ Die(j)
  <2>1. pc'[j] = "idle"
    BY <1>t, <1>4 DEF TypeOK, FailGate, FailReread, FailRegister, CloseRegistry, Die, Forget, ForgetJob
  <2> QED
    BY <2>1 DEF CurrentOK
<1>5. CASE OpenFile(j) \/ CloseFile(j) \/ OpenSidecar(j) \/ RereadSidecar(j) \/ CloseSidecar(j)
  <2>1. pc[j] \in Gated /\ pc'[j] \in Gated \ {"saving"}
    BY <1>t, <1>5 DEF TypeOK, OpenFile, CloseFile, OpenSidecar, RereadSidecar, CloseSidecar, Advance
  <2>2. task' = task /\ built' = built /\ registry' = registry /\ overtaken' = overtaken
    BY <1>5 DEF OpenFile, CloseFile, OpenSidecar, RereadSidecar, CloseSidecar
  <2> QED
    BY <2>1, <2>2 DEF CurrentOK
<1>6. CASE ReadRegistry(j)
  <2>1. /\ pc[j] = "registering" /\ pc'[j] = "saving"
        /\ payload'[j] = WithVersion(registry, built[j])
        /\ task' = task /\ built' = built /\ registry' = registry /\ overtaken' = overtaken
    BY <1>t, <1>6 DEF TypeOK, ReadRegistry, Advance
  <2>2. registry \in Registry /\ built[j] \in Model
    BY <1>t, <1>6, <2>1 DEF RegistryOK, Sound, JobOK, ReadRegistry
  <2> QED
    BY <2>1, <2>2, WithVersionGrows DEF CurrentOK
<1>7. CASE OpenRegistry(j)
  BY <1>7 DEF CurrentOK, OpenRegistry
<1> QED
  BY <1>1, <1>2, <1>3, <1>4, <1>5, <1>6, <1>7 DEF StepOf, Promote

\* Any other job: the registry stays, or is torn, or the job is overtaken.
LEMMA CurrentOther ==
    ASSUME TypeOK, NEW j \in Jobs, StepOf(j), NEW k \in Jobs \ {j}, CurrentOK(k)
    PROVE  CurrentOK(k)'
<1>1. pc'[k] = pc[k] /\ built'[k] = built[k] /\ payload'[k] = payload[k]
  BY OthersKeep DEF StepOf
<1>2. task'[k] = task[k] /\ (~ CloseRegistry(j) => overtaken'[k] = overtaken[k])
  <2> USE DEF TypeOK
  <2>1. CASE \/ \E m \in Trained : Retrain(j, m) \/ TrainInPlace(j, m)
             \/ \E v \in Versions : Rollback(j, v)
    BY <2>1 DEF Retrain, TrainInPlace, Rollback, Start
  <2>2. CASE FailGate(j) \/ FailReread(j) \/ FailRegister(j) \/ CloseRegistry(j) \/ Die(j)
    BY <2>2 DEF FailGate, FailReread, FailRegister, CloseRegistry, Die, Forget, ForgetJob
  <2>3. CASE PassGate(j) \/ OpenFile(j) \/ CloseFile(j)
    BY <2>3 DEF PassGate, OpenFile, CloseFile
  <2>4. CASE RereadSidecar(j) \/ OpenSidecar(j) \/ CloseSidecar(j) \/ ReadRegistry(j) \/ OpenRegistry(j)
    BY <2>4 DEF RereadSidecar, OpenSidecar, CloseSidecar, ReadRegistry, OpenRegistry
  <2> QED
    BY <2>1, <2>2, <2>3, <2>4 DEF StepOf, Promote
<1>3. CASE CloseRegistry(j)
  <2>1. overtaken'[k] = (pc[k] # "idle")
    BY <1>3 DEF CloseRegistry
  <2> QED
    BY <1>1, <2>1 DEF CurrentOK, Gated, Finishing
<1>4. CASE OpenRegistry(j)
  BY <1>4 DEF CurrentOK, OpenRegistry
<1>5. CASE ~ CloseRegistry(j) /\ ~ OpenRegistry(j)
  <2>1. registry' = registry
    BY <1>5 DEF StepOf, Retrain, TrainInPlace, Rollback, Start, Promote, PassGate, FailGate, OpenFile,
       CloseFile, RereadSidecar, FailReread, OpenSidecar, CloseSidecar, ReadRegistry, FailRegister, Die
  <2> QED
    BY <1>1, <1>2, <1>5, <2>1 DEF CurrentOK
<1> QED
  BY <1>3, <1>4, <1>5

LEMMA CurrentInvariance == Spec => [](IInv /\ CurrentInv)
<1>1. Init => CurrentInv
  BY DEF Init, CurrentInv, CurrentOK, Gated, Finishing
<1>2. ASSUME IInv, CurrentInv, [Next]_vars PROVE CurrentInv'
  <2> SUFFICES ASSUME NEW k \in Jobs PROVE CurrentOK(k)'
    BY DEF CurrentInv
  <2>1. ASSUME NEW j \in Jobs, StepOf(j) PROVE CurrentOK(k)'
    BY <1>2, <2>1, CurrentMover, CurrentOther DEF CurrentInv, IInv
  <2>2. CASE UNCHANGED <<files, registry, task, pc, todo, built, payload, overtaken, persisted>>
    BY <1>2, <2>2 DEF CurrentInv, CurrentOK
  <2> QED
    BY <1>2, <2>1, <2>2, StepCases
<1>3. CurrentInv /\ IInv /\ [Next]_vars => CurrentInv'
  BY <1>2
<1> QED
  BY Invariance, <1>1, <1>3, PTL DEF Spec

\* A model that clears the gate is not worse than the champion.
LEMMA ClearsNotWorse ==
    ASSUME NEW m \in Model, NEW r, Champion(r) \in Model, Clears(m, r)
    PROVE  ~ Worse(m, Champion(r))
<1>1. PICK c \in Model : c = Champion(r)
  OBVIOUS
<1>2. c # Nothing
  BY NothingAssumption
<1>3. \A k \in Measure : m.metrics[k] \in Nat \cup {Nothing} /\ c.metrics[k] \in Nat \cup {Nothing}
  BY MetricsAssumption DEF Model
<1>4. SUFFICES ASSUME NEW k \in Measure, Comparable(m, c, k),
                      k = "roc_auc" \/ ~ Comparable(m, c, "roc_auc")
               PROVE  ~ (m.metrics[k] + Tolerance < c.metrics[k])
  BY <1>1 DEF Worse
<1>5. k = IF Comparable(m, c, "roc_auc") THEN "roc_auc" ELSE "pr_auc"
  BY <1>4 DEF Measure
<1>6. m.metrics[k] + Tolerance >= c.metrics[k]
  BY <1>1, <1>2, <1>4, <1>5 DEF Clears
<1>7. m.metrics[k] \in Nat /\ c.metrics[k] \in Nat /\ Tolerance \in Nat
  BY <1>3, <1>4, MetricsAssumption DEF Comparable
<1> QED
  BY <1>6, <1>7

\* However jobs race and wherever they die, a promotion is about to replace a
\* champion that beats it by more than the tolerance only if another job wrote the
\* registry after the promotion passed the gate (promote_if_better).
THEOREM GateCorrect == Spec => []GatedUnlessOvertaken
<1>1. ASSUME IInv, CurrentInv PROVE GatedUnlessOvertaken
  <2> SUFFICES ASSUME NEW j \in Jobs, Replaces(j), task[j] = "retrain", ~ overtaken[j]
               PROVE  ~ Worse(built[j], Champion(registry))
    BY DEF GatedUnlessOvertaken
  <2>1. built[j] \in Model /\ Clears(built[j], registry)
    BY <1>1 DEF CurrentInv, CurrentOK, Gated, Replaces
  <2>2. registry \in Registry /\ Champion(registry) # Nothing
    BY <1>1 DEF IInv, TypeOK, Replaces
  <2>3. Champion(registry) \in Model
    BY <2>2 DEF Registry, Champion
  <2> QED
    BY <2>1, <2>3, ClearsNotWorse
<1> QED
  BY CurrentInvariance, <1>1, PTL

\* However jobs race and wherever they die, a job is about to drop a version from
\* the registry only if another wrote it meanwhile ("all_versions is never
\* truncated").
THEOREM HistoryCorrect == Spec => []KeptUnlessOvertaken
<1>1. CurrentInv => KeptUnlessOvertaken
  BY DEF CurrentInv, CurrentOK, KeptUnlessOvertaken
<1> QED
  BY CurrentInvariance, <1>1, PTL

-----------------------------------------------------------------------------
(* Files and scores.                                                         *)

FilesKnown == \A f \in File : files[f] \in persisted \cup {Nothing, Torn}

RewritesKnown ==
    \A j \in Jobs : pc[j] \in {"rewriting", "rewriteOpen"} => payload[j] \in persisted \cup {Nothing}

TraceInv == FilesKnown /\ RewritesKnown /\ ScoresTraceable

LEMMA FilesStep ==
    ASSUME IInv, FilesKnown, RewritesKnown, [Next]_vars
    PROVE  FilesKnown'
<1> SUFFICES ASSUME NEW f \in File PROVE files'[f] \in persisted' \cup {Nothing, Torn}
  BY DEF FilesKnown
<1>t. TypeOK /\ persisted \subseteq persisted' /\ files[f] \in persisted \cup {Nothing, Torn}
  BY PersistedGrows DEF IInv, FilesKnown
<1>1. ASSUME NEW j \in Jobs, CloseFile(j) PROVE files'[f] \in persisted' \cup {Nothing, Torn}
  <2>1. built[j] \in persisted'
    BY <1>t, <1>1 DEF IInv, JobOK, Copying, CloseFile, Advance
  <2>2. files'[f] = built[j] \/ files'[f] = files[f]
    BY <1>t, <1>1 DEF TypeOK, CloseFile
  <2> QED
    BY <1>t, <2>1, <2>2
<1>2. ASSUME NEW j \in Jobs, CloseSidecar(j) PROVE files'[f] \in persisted' \cup {Nothing, Torn}
  <2>1. payload[j] \in persisted \cup {Nothing}
    BY <1>2 DEF RewritesKnown, CloseSidecar, Advance
  <2>2. files'[f] = payload[j] \/ files'[f] = files[f]
    BY <1>t, <1>2 DEF TypeOK, CloseSidecar
  <2> QED
    BY <1>t, <2>1, <2>2
<1>3. ASSUME NEW j \in Jobs, OpenFile(j) \/ OpenSidecar(j)
      PROVE  files'[f] \in persisted' \cup {Nothing, Torn}
  <2>1. files'[f] = Torn \/ files'[f] = files[f]
    BY <1>t, <1>3 DEF TypeOK, OpenFile, OpenSidecar
  <2> QED
    BY <1>t, <2>1
<1>4. CASE files' = files
  BY <1>t, <1>4
<1>5. \/ files' = files
      \/ \E j \in Jobs : CloseFile(j) \/ CloseSidecar(j) \/ OpenFile(j) \/ OpenSidecar(j)
  BY DEF Next, vars, Retrain, TrainInPlace, Rollback, Start, Promote, PassGate, FailGate,
         RereadSidecar, FailReread, ReadRegistry, FailRegister, OpenRegistry, CloseRegistry, Die,
         Score, LoadArtifact, LoadSidecar, Answer
<1> QED
  BY <1>1, <1>2, <1>3, <1>4, <1>5

LEMMA RewritesStep ==
    ASSUME IInv, FilesKnown, RewritesKnown, [Next]_vars
    PROVE  RewritesKnown'
<1> SUFFICES ASSUME NEW k \in Jobs, pc'[k] \in {"rewriting", "rewriteOpen"}
             PROVE  payload'[k] \in persisted' \cup {Nothing}
  BY DEF RewritesKnown
<1>t. TypeOK /\ persisted \subseteq persisted'
  BY PersistedGrows DEF IInv
<1>1. ASSUME NEW j \in Jobs, StepOf(j) PROVE payload'[k] \in persisted' \cup {Nothing}
  <2>1. CASE k # j
    <3>1. pc'[k] = pc[k] /\ payload'[k] = payload[k]
      BY <1>t, <1>1, <2>1, OthersKeep DEF StepOf
    <3> QED
      BY <1>t, <3>1 DEF RewritesKnown
  <2>2. CASE k = j /\ RereadSidecar(j)
    <3>1. files["model.json"] \in persisted \cup {Nothing, Torn} /\ files["model.json"] # Torn
      BY <2>2 DEF FilesKnown, File, RereadSidecar
    <3> QED
      BY <1>t, <2>2, <3>1 DEF TypeOK, RereadSidecar
  <2>3. CASE k = j /\ OpenSidecar(j)
    BY <1>t, <2>3 DEF RewritesKnown, OpenSidecar, Advance
  <2>4. CASE k = j /\ (\/ \E m \in Trained : Retrain(j, m) \/ TrainInPlace(j, m)
                     \/ \E v \in Versions : Rollback(j, v))
    BY <1>t, <1>1, <2>4 DEF TypeOK, Retrain, TrainInPlace, Rollback, Start
  <2>5. CASE k = j /\ (FailGate(j) \/ FailReread(j) \/ FailRegister(j) \/ CloseRegistry(j) \/ Die(j))
    BY <1>t, <1>1, <2>5 DEF TypeOK, FailGate, FailReread, FailRegister, CloseRegistry, Die, Forget, ForgetJob
  <2>6. CASE k = j /\ (PassGate(j) \/ OpenFile(j) \/ CloseFile(j) \/ CloseSidecar(j) \/ ReadRegistry(j)
                       \/ OpenRegistry(j))
    BY <1>t, <1>1, <2>6 DEF TypeOK, PassGate, OpenFile, CloseFile, CloseSidecar, ReadRegistry,
       OpenRegistry, Advance
  <2> QED
    BY <1>1, <2>1, <2>2, <2>3, <2>4, <2>5, <2>6 DEF StepOf, Promote
<1>2. CASE UNCHANGED <<files, registry, task, pc, todo, built, payload, overtaken, persisted>>
  BY <1>2 DEF RewritesKnown
<1> QED
  BY <1>1, <1>2, StepCases

LEMMA ScoresStep ==
    ASSUME IInv, FilesKnown, ScoresTraceable, [Next]_vars
    PROVE  ScoresTraceable'
<1> SUFFICES ASSUME NEW r \in Scorers
             PROVE  /\ step'[r] \in {"loaded", "scored"} => scoredBy'[r] \in persisted'
                    /\ named'[r] # Nothing => \E m \in persisted' : m.version = named'[r]
  BY DEF ScoresTraceable
<1>t. /\ TypeOK /\ persisted \subseteq persisted'
      /\ step[r] \in {"loaded", "scored"} => scoredBy[r] \in persisted
      /\ named[r] # Nothing => \E m \in persisted : m.version = named[r]
  BY PersistedGrows DEF IInv, ScoresTraceable
<1>1. ASSUME NEW s \in Scorers, LoadArtifact(s)
      PROVE  /\ step'[r] \in {"loaded", "scored"} => scoredBy'[r] \in persisted'
             /\ named'[r] # Nothing => \E m \in persisted' : m.version = named'[r]
  <2>1. files["model.joblib"] \in persisted \cup {Nothing, Torn}
    BY DEF FilesKnown, File
  <2>2. CASE r # s
    BY <1>t, <1>1, <2>2 DEF TypeOK, LoadArtifact
  <2>3. CASE r = s
    <3>1. step'[s] \in {"loaded", "scored"} => files["model.joblib"] \notin {Nothing, Torn}
      BY <1>t, <1>1 DEF TypeOK, LoadArtifact
    <3>2. scoredBy'[s] = IF files["model.joblib"] = Torn THEN Nothing ELSE files["model.joblib"]
      BY <1>t, <1>1 DEF TypeOK, LoadArtifact
    <3>3. named' = named
      BY <1>1 DEF LoadArtifact
    <3> QED
      BY <1>t, <2>1, <2>3, <3>1, <3>2, <3>3
  <2> QED
    BY <2>2, <2>3
<1>2. ASSUME NEW s \in Scorers, LoadSidecar(s)
      PROVE  /\ step'[r] \in {"loaded", "scored"} => scoredBy'[r] \in persisted'
             /\ named'[r] # Nothing => \E m \in persisted' : m.version = named'[r]
  <2>1. files["model.json"] \in persisted \cup {Nothing, Torn}
    BY DEF FilesKnown, File
  <2>2. CASE r # s
    BY <1>t, <1>2, <2>2 DEF TypeOK, LoadSidecar
  <2>3. CASE r = s
    <3>1. scoredBy' = scoredBy /\ step[s] = "loaded"
      BY <1>2 DEF LoadSidecar
    <3>2. named'[s] = IF files["model.json"] \in {Nothing, Torn} THEN Nothing ELSE files["model.json"].version
      BY <1>t, <1>2 DEF TypeOK, LoadSidecar
    <3> QED
      BY <1>t, <2>1, <2>3, <3>1, <3>2
  <2> QED
    BY <2>2, <2>3
<1>3. ASSUME NEW s \in Scorers, Answer(s)
      PROVE  /\ step'[r] \in {"loaded", "scored"} => scoredBy'[r] \in persisted'
             /\ named'[r] # Nothing => \E m \in persisted' : m.version = named'[r]
  BY <1>t, <1>3 DEF TypeOK, Answer
<1>4. CASE UNCHANGED scorerVars
  BY <1>t, <1>4 DEF scorerVars
<1>5. UNCHANGED scorerVars \/ \E s \in Scorers : Score(s)
  BY DEF Next, vars, Retrain, TrainInPlace, Rollback, Start, Promote, PassGate, FailGate, OpenFile,
         CloseFile, RereadSidecar, FailReread, OpenSidecar, CloseSidecar, ReadRegistry, FailRegister,
         OpenRegistry, CloseRegistry, Die, scorerVars
<1> QED
  BY <1>1, <1>2, <1>3, <1>4, <1>5 DEF Score

\* Whatever jobs replace the files meanwhile, or died over them, a score comes from
\* a model that was persisted and names the version of one (_load_model).
THEOREM ScoresCorrect == Spec => []ScoresTraceable
<1>1. Init => TraceInv
  BY NothingAssumption DEF Init, TraceInv, FilesKnown, RewritesKnown, ScoresTraceable
<1>2. TraceInv /\ IInv /\ [Next]_vars => TraceInv'
  BY FilesStep, RewritesStep, ScoresStep DEF TraceInv
<1>3. TraceInv => ScoresTraceable
  BY DEF TraceInv
<1> QED
  BY Invariance, <1>1, <1>2, <1>3, PTL DEF Spec

=============================================================================
