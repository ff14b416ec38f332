----------------------- MODULE VerificationLifecycle -----------------------
(***************************************************************************)
(* What a verification session promises its caller: it is opened pending   *)
(* and settled at most once, in one step, with an outcome and flags that   *)
(* fit its tier.  VerificationSession implements it of every session of    *)
(* which no two completions overlap.                                       *)
(***************************************************************************)
EXTENDS Naturals

CONSTANTS Sessions, Ttls, MaxTime

VARIABLES now, tier, expiresAt, outcome, lock, escalation

vars == <<now, tier, expiresAt, outcome, lock, escalation>>

Init ==
    /\ now = 0
    /\ tier = [s \in Sessions |-> "NONE"]
    /\ expiresAt = [s \in Sessions |-> 0]
    /\ outcome = [s \in Sessions |-> "PENDING"]
    /\ lock = [s \in Sessions |-> FALSE]
    /\ escalation = [s \in Sessions |-> FALSE]

Open(s, t, ttl) ==
    /\ tier[s] = "NONE"
    /\ tier' = [tier EXCEPT ![s] = t]
    /\ expiresAt' = [expiresAt EXCEPT ![s] = now + ttl]
    /\ UNCHANGED <<now, outcome, lock, escalation>>

\* The outcomes a session of tier t may be settled with.
Settlements(t, expired) ==
    {"APPROVED"} \cup (IF t = "HIGH" THEN {"ESCALATED"}
                       ELSE {"DENIED"} \cup (IF expired THEN {"TIMED_OUT"} ELSE {}))

Settle(s) ==
    /\ tier[s] # "NONE"
    /\ outcome[s] = "PENDING"
    /\ \E o \in Settlements(tier[s], expiresAt[s] <= now) :
          /\ outcome' = [outcome EXCEPT ![s] = o]
          /\ lock' = [lock EXCEPT ![s] = tier[s] = "MODERATE" /\ o # "APPROVED"]
          /\ escalation' = [escalation EXCEPT ![s] = tier[s] = "HIGH" /\ o # "APPROVED"]
    /\ UNCHANGED <<now, tier, expiresAt>>

Tick == now < MaxTime /\ now' = now + 1 /\ UNCHANGED <<tier, expiresAt, outcome, lock, escalation>>

Next ==
    \/ \E s \in Sessions, ttl \in Ttls : \E t \in {"NO_RISK", "LOW", "MODERATE", "HIGH"} :
          Open(s, t, ttl)
    \/ \E s \in Sessions : Settle(s)
    \/ Tick

Spec == Init /\ [][Next]_vars

=============================================================================
