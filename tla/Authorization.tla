----------------------------- MODULE Authorization -----------------------------
(***************************************************************************)
(* Authorization and what feeds it.  A behaviour loads one of three: the   *)
(* engine asked directly, a customer scored by the analyst API, or the     *)
(* evidence services; they share the risk policy and no state.             *)
(***************************************************************************)
EXTENDS DecisionEngine, CaseReport, PaymentEvidence

CONSTANTS
    NoRequest,  \* the request of an engine that nobody asks
    NoFact      \* the payment of services that nobody asks

ASSUME IdleAssumption == NoRequest \in Request /\ NoFact \in Facts

VARIABLE load

allVars == <<vars, profile, evidence, load>>

EngineIdle == request = NoRequest /\ response = Unset
ProfileIdle == history = <<>> /\ verdicts = <<>> /\ last = Unset
EvidenceIdle == rules = [i \in LockIds |-> Unset] /\ fact = NoFact

LoadInit ==
    \/ load = "engine" /\ Init /\ ProfileIdle /\ EvidenceIdle
    \/ load = "profile" /\ ProfileInit /\ EngineIdle /\ EvidenceIdle
    \/ load = "evidence" /\ EvidenceInit /\ EngineIdle /\ ProfileIdle

LoadNext ==
    /\ UNCHANGED load
    /\ \/ load = "engine" /\ Next /\ UNCHANGED <<profile, evidence>>
       \/ load = "profile" /\ ProfileNext /\ UNCHANGED <<vars, evidence>>
       \/ load = "evidence" /\ EvidenceNext /\ UNCHANGED <<vars, profile>>

LoadSpec == LoadInit /\ [][LoadNext]_allVars

(* Ingress, the engine, the investigation agent, the profile and the GPS   *)
(* check each have constants of their own for the same boundaries: a score *)
(* has one tier and one action, and a jump is one to all of them.          *)
BoundariesAgree == IngressAgrees /\ SuddenIsImpossible /\ ReasonsAgree
=============================================================================
