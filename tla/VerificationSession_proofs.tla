--------------------- MODULE VerificationSession_proofs ---------------------
(***************************************************************************)
(* Invariants of VerificationSession for every number of sessions, workers *)
(* and requests, and every bound on the clock; and that the sessions on    *)
(* which no two completions overlap implement VerificationLifecycle.       *)
(***************************************************************************)
EXTENDS VerificationSession, TLAPS

-----------------------------------------------------------------------------
(* The inductive invariant: what a worker knows at each of its steps.        *)

\* A session that was never created is as Init left it.
Untouched(s) == outcome[s] = "PENDING" /\ ~ lock[s] /\ ~ escalation[s]

FreshOK ==
    \A s \in Sessions :
        tier[s] = NoTier => Untouched(s) /\ admittedBy[s] = {} /\ approvals[s] = {}

JobOK == \A w \in Workers : pc[w] # "idle" => job[w] \in Job /\ tier[job[w].session] # NoTier

\* What Admit checked stays true of the job and of the session's fixed fields.
AdmittedOK ==
    \A w \in Workers : pc[w] \in Admitted =>
        /\ job[w].request.bound
        /\ job[w].readAt < expiresAt[job[w].session]
        /\ w \in admittedBy[job[w].session]

\* What Decide checked stays true as well.
VerdictOK ==
    \A w \in Workers : pc[w] \in Admitted \ Deciding =>
        /\ verdict[w] \in Verdict
        /\ verdict[w] = "TIMED_OUT" => expiresAt[job[w].session] <= now
        /\ verdict[w] = "APPROVED" =>
              /\ job[w].request.outcome # "DENIED"
              /\ job[w].request.outcome = "APPROVED"
                    => Required(tier[job[w].session]) \subseteq job[w].request.evidence

FlagOK ==
    \A w \in Workers :
        /\ pc[w] = "lockRead" /\ flag[w] => tier[job[w].session] = "MODERATE"
        /\ pc[w] = "escalationRead" /\ flag[w] => tier[job[w].session] = "HIGH"

\* Where the only worker ever admitted to a session left it.
SolePhase(w, s) ==
    IF Active(w, s)
    THEN IF pc[w] \in {"admitted", "decided"}
         THEN Untouched(s)
         ELSE /\ outcome[s] = StoredOutcome(tier[s], verdict[w])
              /\ pc[w] = "lockRead" =>
                    flag[w] = (tier[s] = "MODERATE" /\ outcome[s] # "APPROVED")
              /\ pc[w] \in {"lockStored", "escalationRead", "escalationStored"} =>
                    lock[s] = (tier[s] = "MODERATE" /\ outcome[s] # "APPROVED")
              /\ pc[w] = "escalationRead" =>
                    flag[w] = (tier[s] = "HIGH" /\ outcome[s] # "APPROVED")
              /\ pc[w] = "escalationStored" =>
                    escalation[s] = (tier[s] = "HIGH" /\ outcome[s] # "APPROVED")
    ELSE outcome[s] # "PENDING" /\ FlagsSettled(s)

SoleOK ==
    \A s \in Sessions :
        /\ admittedBy[s] = {} => Untouched(s)
        /\ \A w \in admittedBy[s] : admittedBy[s] = {w} => SolePhase(w, s)

IInv ==
    /\ TypeOK /\ FreshOK /\ JobOK /\ AdmittedOK /\ VerdictOK /\ FlagOK
    /\ OutcomeFitsTier /\ ApprovalsChecked /\ SoleOK

-----------------------------------------------------------------------------
(* Facts about the pure operators.                                           *)

\* The outcome a branch stores is never PENDING and fits the tier.
LEMMA StoredOutcomeFits ==
    ASSUME NEW t, NEW v \in Verdict
    PROVE  /\ StoredOutcome(t, v) \in Outcome \ {"PENDING"}
           /\ StoredOutcome(t, v) = "APPROVED" <=> v = "APPROVED"
           /\ StoredOutcome(t, v) \in {"APPROVED"} \cup
                (IF t = "HIGH" THEN {"ESCALATED"} ELSE {"DENIED", "TIMED_OUT"})
           /\ StoredOutcome(t, v) = "TIMED_OUT" => v = "TIMED_OUT"
BY DEF StoredOutcome, Verdict, Outcome

\* A flag is a Boolean, is raised for its tier only and, computed while the
\* stored outcome is the branch's own, is the settled one.
LEMMA FlagValueSettles ==
    ASSUME NEW t, NEW f, NEW v \in Verdict, NEW o
    PROVE  /\ FlagValue(t, f, v, o) \in BOOLEAN
           /\ FlagValue(t, f, v, o) => t = f
           /\ o = StoredOutcome(t, v) =>
                FlagValue(t, f, v, o) = (t = f /\ o # "APPROVED")
BY StoredOutcomeFits DEF FlagValue, Verdict

\* The branch taken agrees with the clock and with the workflow.
LEMMA BranchSound ==
    ASSUME NEW t, NEW e, NEW r
    PROVE  /\ Branch(t, e, r) \in Verdict
           /\ Branch(t, e, r) = "TIMED_OUT" => e <= now
           /\ Branch(t, e, r) = "APPROVED" =>
                 /\ r.outcome # "DENIED"
                 /\ r.outcome = "APPROVED" => Required(t) \subseteq r.evidence
BY DEF Branch, Verdict, WorkflowError

-----------------------------------------------------------------------------
LEMMA TypeInit == Init => TypeOK
BY TimeAssumption DEF Init, TypeOK, Outcome, Step, Admitted, Deciding, Writing

LEMMA TypeStep == TypeOK /\ JobOK /\ VerdictOK /\ [Next]_vars => TypeOK'
<1> SUFFICES ASSUME TypeOK, JobOK, VerdictOK, [Next]_vars PROVE TypeOK'
    OBVIOUS
<1> USE DEF TypeOK
<1>1. ASSUME NEW s \in Sessions, NEW t \in Tier, NEW ttl \in Ttls, CreateSession(s, t, ttl)
      PROVE  TypeOK'
    BY <1>1, TimeAssumption DEF CreateSession, history
<1>2. ASSUME NEW w \in Workers, NEW s \in Sessions, NEW r \in Requests, Fetch(w, s, r)
      PROVE  TypeOK'
    BY <1>2 DEF Fetch, session, history, Job, Step
<1>3. ASSUME NEW w \in Workers, Serve(w) PROVE TypeOK'
    <2> USE DEF Step, Admitted, Deciding, Writing
    <2>1. CASE Admit(w)
        BY <2>1 DEF Admit, session, JobOK, Job
    <2>2. CASE Refuse(w)
        BY <2>2 DEF Refuse, session, history
    <2>3. CASE Decide(w)
        BY <2>3, BranchSound DEF Decide, session, history
    <2>4. CASE StoreOutcome(w)
        <3>1. StoredOutcome(tier[job[w].session], verdict[w]) \in Outcome
            BY <2>4, StoredOutcomeFits DEF StoreOutcome, VerdictOK
        <3>. QED  BY <2>4, <3>1 DEF StoreOutcome, JobOK
    <2>5. CASE ReadForLock(w)
        BY <2>5, FlagValueSettles DEF ReadForLock, session, history, VerdictOK
    <2>6. CASE StoreLock(w)
        BY <2>6 DEF StoreLock, history
    <2>7. CASE ReadForEscalation(w)
        BY <2>7, FlagValueSettles DEF ReadForEscalation, session, history, VerdictOK
    <2>8. CASE StoreEscalation(w)
        BY <2>8 DEF StoreEscalation, history
    <2>9. CASE Respond(w)
        BY <2>9 DEF Respond, session, history
    <2>. QED  BY <1>3, <2>1, <2>2, <2>3, <2>4, <2>5, <2>6, <2>7, <2>8, <2>9 DEF Serve
<1>4. ASSUME Tick PROVE TypeOK'
    BY <1>4, TimeAssumption DEF Tick, session, history
<1>5. ASSUME UNCHANGED vars PROVE TypeOK'
    BY <1>5 DEF vars, session, history
<1>. QED  BY <1>1, <1>2, <1>3, <1>4, <1>5 DEF Next

-----------------------------------------------------------------------------
\* Every step of Next moves the clock forward, changes the fixed fields of a
\* session only to create it, and keeps what the history has recorded.
LEMMA FixedFields ==
    ASSUME TypeOK, [Next]_vars
    PROVE  /\ now' \in Nat /\ now <= now'
           /\ \A s \in Sessions : tier[s] # NoTier =>
                 tier'[s] = tier[s] /\ expiresAt'[s] = expiresAt[s]
           /\ \A s \in Sessions : admittedBy[s] \subseteq admittedBy'[s]
<1>1. CASE \E s \in Sessions, t \in Tier, ttl \in Ttls : CreateSession(s, t, ttl)
    BY <1>1 DEF CreateSession, history, TypeOK
<1>2. CASE \E w \in Workers, s \in Sessions, r \in Requests : Fetch(w, s, r)
    BY <1>2 DEF Fetch, session, history, TypeOK
<1>3. CASE \E w \in Workers : Serve(w)
    BY <1>3 DEF Serve, Admit, Refuse, Decide, StoreOutcome, ReadForLock, StoreLock,
                ReadForEscalation, StoreEscalation, Respond, session, history, TypeOK
<1>4. CASE Tick
    BY <1>4 DEF Tick, session, history, TypeOK
<1>5. CASE UNCHANGED vars
    BY <1>5 DEF vars, session, history, TypeOK
<1>. QED  BY <1>1, <1>2, <1>3, <1>4, <1>5 DEF Next

\* A step of one worker leaves the locals of the others alone.
LEMMA OthersKeep ==
    ASSUME TypeOK, NEW w \in Workers, Serve(w), NEW v \in Workers, v # w
    PROVE  pc'[v] = pc[v] /\ job'[v] = job[v] /\ verdict'[v] = verdict[v] /\ flag'[v] = flag[v]
BY DEF Serve, Admit, Refuse, Decide, StoreOutcome, ReadForLock, StoreLock,
       ReadForEscalation, StoreEscalation, Respond, session, history, TypeOK

\* The worker's own knowledge, conjunct by conjunct.
LEMMA KnowledgeStep ==
    TypeOK /\ FreshOK /\ JobOK /\ AdmittedOK /\ VerdictOK /\ FlagOK /\ [Next]_vars
        => FreshOK' /\ JobOK' /\ AdmittedOK' /\ VerdictOK' /\ FlagOK'
<1> SUFFICES ASSUME TypeOK, FreshOK, JobOK, AdmittedOK, VerdictOK, FlagOK, [Next]_vars
             PROVE  FreshOK' /\ JobOK' /\ AdmittedOK' /\ VerdictOK' /\ FlagOK'
    OBVIOUS
<1> USE FixedFields, OthersKeep
        DEF Step, Admitted, Deciding, Writing
<1>1. ASSUME NEW s \in Sessions, NEW t \in Tier, NEW ttl \in Ttls, CreateSession(s, t, ttl)
      PROVE  FreshOK' /\ JobOK' /\ AdmittedOK' /\ VerdictOK' /\ FlagOK'
    <2>1. FreshOK'
        BY <1>1 DEF CreateSession, FreshOK, Untouched, TypeOK, history, Tier, NoTier
    <2>2. UNCHANGED <<now, pc, job, verdict, flag, admittedBy>>
        BY <1>1 DEF CreateSession, history
    <2>3. JobOK'
        BY <1>1, <2>2 DEF CreateSession, JobOK, TypeOK, Tier, NoTier, Job
    <2>4. AdmittedOK'
        <3>1. \A w \in Workers : pc[w] # "idle" =>
                 job[w].session \in Sessions /\ job[w].session # s
            BY <1>1 DEF CreateSession, JobOK, Job
        <3>2. \A q \in Sessions : q # s => expiresAt'[q] = expiresAt[q]
            BY <1>1 DEF CreateSession, TypeOK
        <3>3. \A w \in Workers : pc[w] \in Admitted => pc[w] # "idle"
            OBVIOUS
        <3>. QED
            BY <2>2, <3>1, <3>2, <3>3 DEF AdmittedOK
    <2>5. VerdictOK' /\ FlagOK'
        BY <2>2 DEF JobOK, VerdictOK, FlagOK, TypeOK, Job
    <2>. QED  BY <2>1, <2>3, <2>4, <2>5
<1>2. ASSUME NEW w \in Workers, NEW s \in Sessions, NEW r \in Requests, Fetch(w, s, r)
      PROVE  FreshOK' /\ JobOK' /\ AdmittedOK' /\ VerdictOK' /\ FlagOK'
    <2>1. job'[w] \in Job
        BY <1>2 DEF Fetch, Job, TypeOK
    <2>. QED
        BY <1>2, <2>1 DEF Fetch, session, history, FreshOK, Untouched, JobOK, AdmittedOK,
                          VerdictOK, FlagOK, TypeOK
<1>3. ASSUME NEW w \in Workers, Serve(w)
      PROVE  FreshOK' /\ JobOK' /\ AdmittedOK' /\ VerdictOK' /\ FlagOK'
    <2>1. FreshOK'
        BY <1>3 DEF Serve, Admit, Refuse, Decide, StoreOutcome, ReadForLock, StoreLock,
                    ReadForEscalation, StoreEscalation, Respond, session, history,
                    FreshOK, Untouched, JobOK, TypeOK, Job
    <2>2. JobOK'
        BY <1>3 DEF Serve, Admit, Refuse, Decide, StoreOutcome, ReadForLock, StoreLock,
                    ReadForEscalation, StoreEscalation, Respond, session,
                    JobOK, TypeOK, Job
    <2>3. \A v \in Workers \ {w} : pc'[v] # "idle" =>
              /\ tier'[job'[v].session] = tier[job[v].session]
              /\ expiresAt'[job'[v].session] = expiresAt[job[v].session]
        BY <1>3 DEF JobOK, Job
    <2>4. AdmittedOK'
        <3>1. CASE Admit(w)
            BY <2>3, <3>1 DEF Admit, Admissible, session, AdmittedOK, JobOK, TypeOK, Job
        <3>2. CASE ~ Admit(w)
            BY <1>3, <2>3, <3>2 DEF Serve, Refuse, Decide, StoreOutcome, ReadForLock,
                        StoreLock, ReadForEscalation, StoreEscalation, Respond, session, history,
                        AdmittedOK, JobOK, TypeOK, Job
        <3>. QED
            BY <3>1, <3>2
    <2>5. VerdictOK'
        <3>1. CASE Decide(w)
            BY <1>3, <2>3, <3>1, BranchSound DEF Decide, session, VerdictOK, JobOK, TypeOK, Job
        <3>2. CASE ~ Decide(w)
            BY <1>3, <2>3, <3>2 DEF Serve, Admit, Refuse, StoreOutcome, ReadForLock,
                    StoreLock, ReadForEscalation, StoreEscalation, Respond, session, history,
                    VerdictOK, JobOK, TypeOK, Job
        <3>. QED  BY <3>1, <3>2
    <2>6. FlagOK'
        <3>1. CASE ReadForLock(w)
            <4>2. /\ pc'[w] = "lockRead"
                  /\ job'[w] = job[w] /\ tier' = tier
                  /\ flag'[w] = FlagValue(tier[job[w].session], "MODERATE", verdict[w],
                                         outcome[job[w].session])
                BY <3>1 DEF ReadForLock, session, TypeOK
            <4>3. flag'[w] => tier'[job'[w].session] = "MODERATE"
                BY <4>2 DEF FlagValue
            <4>. QED  BY <1>3, <2>3, <4>2, <4>3 DEF FlagOK
        <3>2. CASE ReadForEscalation(w)
            <4>2. /\ pc'[w] = "escalationRead"
                  /\ job'[w] = job[w] /\ tier' = tier
                  /\ flag'[w] = FlagValue(tier[job[w].session], "HIGH", verdict[w],
                                         outcome[job[w].session])
                BY <3>2 DEF ReadForEscalation, session, TypeOK
            <4>3. flag'[w] => tier'[job'[w].session] = "HIGH"
                BY <4>2 DEF FlagValue
            <4>. QED  BY <1>3, <2>3, <4>2, <4>3 DEF FlagOK
        <3>3. CASE ~ ReadForLock(w) /\ ~ ReadForEscalation(w)
            BY <1>3, <2>3, <3>3
               DEF Serve, Admit, Refuse, Decide, StoreOutcome, StoreLock, StoreEscalation,
                   Respond, FlagOK, JobOK, TypeOK, Job
        <3>. QED  BY <3>1, <3>2, <3>3
    <2>. QED  BY <2>1, <2>2, <2>4, <2>5, <2>6
<1>4. ASSUME Tick PROVE FreshOK' /\ JobOK' /\ AdmittedOK' /\ VerdictOK' /\ FlagOK'
    BY <1>4 DEF Tick, session, history, FreshOK, Untouched, JobOK, AdmittedOK, VerdictOK,
                FlagOK, TypeOK, Job
<1>5. ASSUME UNCHANGED vars PROVE FreshOK' /\ JobOK' /\ AdmittedOK' /\ VerdictOK' /\ FlagOK'
    BY <1>5 DEF vars, session, history, FreshOK, Untouched, JobOK, AdmittedOK, VerdictOK,
                FlagOK
<1>. QED  BY <1>1, <1>2, <1>3, <1>4, <1>5 DEF Next

-----------------------------------------------------------------------------
LEMMA TierStep ==
    TypeOK /\ FreshOK /\ JobOK /\ VerdictOK /\ FlagOK /\ OutcomeFitsTier /\ [Next]_vars
        => OutcomeFitsTier'
<1> SUFFICES ASSUME TypeOK, FreshOK, JobOK, VerdictOK, FlagOK, OutcomeFitsTier, [Next]_vars,
                    NEW s \in Sessions
             PROVE  /\ lock'[s] => tier'[s] = "MODERATE"
                    /\ escalation'[s] => tier'[s] = "HIGH"
                    /\ outcome'[s] \in {"PENDING", "APPROVED"}
                          \cup (IF tier'[s] = "HIGH" THEN {"ESCALATED"}
                                ELSE {"DENIED", "TIMED_OUT"})
                    /\ outcome'[s] = "TIMED_OUT" => expiresAt'[s] <= now'
    BY DEF OutcomeFitsTier
<1> USE FixedFields DEF OutcomeFitsTier, TypeOK
<1>1. CASE tier[s] = NoTier
    <2>1. CASE \E w \in Workers : Serve(w)
        BY <1>1, <2>1 DEF Serve, Admit, Refuse, Decide, StoreOutcome, ReadForLock, StoreLock,
                  ReadForEscalation, StoreEscalation, Respond, session, history,
                  FreshOK, Untouched, JobOK, Job, Admitted, Deciding, Writing
    <2>2. CASE ~ \E w \in Workers : Serve(w)
        BY <1>1, <2>2 DEF Next, CreateSession, Fetch, Tick, vars, session, FreshOK, Untouched
    <2>. QED  BY <2>1, <2>2
<1>2. CASE tier[s] # NoTier
    <2>1. ASSUME NEW w \in Workers, StoreOutcome(w), job[w].session = s
          PROVE  /\ UNCHANGED <<now, tier, expiresAt, lock, escalation>>
                 /\ outcome'[s] = StoredOutcome(tier[s], verdict[w])
                 /\ verdict[w] \in Verdict
                 /\ verdict[w] = "TIMED_OUT" => expiresAt[s] <= now
        BY <2>1 DEF StoreOutcome, VerdictOK, Admitted, Deciding, Writing
    <2>2. CASE \E w \in Workers : StoreOutcome(w) /\ job[w].session = s
        BY <2>1, <2>2, StoredOutcomeFits
    <2>3. CASE \E w \in Workers : StoreLock(w) \/ StoreEscalation(w)
        <3>1. UNCHANGED <<now, tier, expiresAt, outcome>>
            BY <2>3 DEF StoreLock, StoreEscalation
        <3>2. CASE \E w \in Workers : StoreLock(w)
            BY <3>1, <3>2 DEF StoreLock, FlagOK
        <3>3. CASE \E w \in Workers : StoreEscalation(w)
            BY <3>1, <3>3 DEF StoreEscalation, FlagOK
        <3>. QED  BY <2>3, <3>2, <3>3
    <2>4. CASE UNCHANGED <<outcome, lock, escalation>>
        BY <1>2, <2>4
    <2>5. CASE \E w \in Workers : StoreOutcome(w) /\ job[w].session # s
        BY <1>2, <2>5 DEF StoreOutcome, JobOK, Job
    <2>. QED
        BY <2>2, <2>3, <2>4, <2>5 DEF Next, CreateSession, Fetch, Serve, Admit, Refuse, Decide,
           ReadForLock, ReadForEscalation, Respond, Tick, vars, session
<1>. QED  BY <1>1, <1>2

LEMMA ApprovalStep ==
    TypeOK /\ FreshOK /\ JobOK /\ AdmittedOK /\ VerdictOK /\ ApprovalsChecked /\ [Next]_vars
        => ApprovalsChecked'
<1> SUFFICES ASSUME TypeOK, FreshOK, JobOK, AdmittedOK, VerdictOK, ApprovalsChecked, [Next]_vars
             PROVE  ApprovalsChecked'
    OBVIOUS
<1> USE FixedFields DEF ApprovalsChecked, TypeOK
<1>1. ASSUME NEW w \in Workers, StoreOutcome(w) PROVE ApprovalsChecked'
    <2> DEFINE t == job[w].session
    <2>1. /\ t \in Sessions /\ verdict[w] \in Verdict
          /\ UNCHANGED <<tier, expiresAt>>
          /\ outcome' = [outcome EXCEPT ![t] = StoredOutcome(tier[t], verdict[w])]
          /\ approvals' = IF verdict[w] = "APPROVED"
                          THEN [approvals EXCEPT ![t] = @ \cup {job[w]}] ELSE approvals
        BY <1>1 DEF StoreOutcome, JobOK, VerdictOK, Job, Admitted, Deciding, Writing
    <2>2. outcome'[t] = "APPROVED" => approvals'[t] # {}
        BY <2>1, StoredOutcomeFits
    <2>3. verdict[w] = "APPROVED" =>
              /\ job[w].request.bound
              /\ job[w].readAt < expiresAt[t]
              /\ job[w].request.outcome # "DENIED"
              /\ job[w].request.outcome = "APPROVED" =>
                    Required(tier[t]) \subseteq job[w].request.evidence
        BY <1>1 DEF StoreOutcome, AdmittedOK, VerdictOK, Admitted, Deciding, Writing
    <2>. QED  BY <2>1, <2>2, <2>3
<1>2. ASSUME UNCHANGED <<outcome, approvals>> PROVE ApprovalsChecked'
    <2>1. ASSUME NEW s \in Sessions, tier[s] # NoTier
          PROVE  UNCHANGED <<tier[s], expiresAt[s]>>
        BY <2>1
    <2>2. ASSUME NEW s \in Sessions, tier[s] = NoTier
          PROVE  approvals'[s] = {} /\ outcome'[s] = "PENDING"
        BY <1>2, <2>2 DEF FreshOK, Untouched
    <2>. QED  BY <1>2, <2>1, <2>2
<1>. QED
    BY <1>1, <1>2 DEF Next, CreateSession, Fetch, Serve, Admit, Refuse, Decide, ReadForLock,
       StoreLock, ReadForEscalation, StoreEscalation, Respond, Tick, vars, session, history

-----------------------------------------------------------------------------
\* Only a worker admitted to a session stores anything in it.
LEMMA WritersAdmitted ==
    ASSUME TypeOK, FreshOK, JobOK, AdmittedOK, NEW s \in Sessions, [Next]_vars,
           \A w \in Workers : Serve(w) => w \notin admittedBy[s]
    PROVE  UNCHANGED <<outcome[s], lock[s], escalation[s]>>
<1>1. ASSUME NEW w \in Workers, Serve(w) PROVE UNCHANGED <<outcome[s], lock[s], escalation[s]>>
    <2>1. pc[w] \in Admitted => job[w].session # s
        BY <1>1 DEF AdmittedOK
    <2>. QED
        BY <1>1, <2>1 DEF Serve, Admit, Refuse, Decide, StoreOutcome, ReadForLock, StoreLock,
           ReadForEscalation, StoreEscalation, Respond, session, TypeOK, JobOK, Job,
           Admitted, Deciding, Writing
<1>. QED
    BY <1>1 DEF Next, CreateSession, Fetch, Tick, vars, session

LEMMA SoleStep ==
    TypeOK /\ FreshOK /\ JobOK /\ AdmittedOK /\ VerdictOK /\ SoleOK /\ [Next]_vars => SoleOK'
<1> SUFFICES ASSUME TypeOK, FreshOK, JobOK, AdmittedOK, VerdictOK, SoleOK, [Next]_vars,
                    NEW s \in Sessions
             PROVE  /\ admittedBy'[s] = {} => Untouched(s)'
                    /\ \A w \in admittedBy'[s] : admittedBy'[s] = {w} => SolePhase(w, s)'
    BY DEF SoleOK
<1> USE FixedFields
<1>1. ASSUME admittedBy[s] = {}
      PROVE  Untouched(s)'
    BY <1>1, WritersAdmitted DEF SoleOK, Untouched
<1>2. ASSUME NEW w \in Workers, admittedBy[s] = {}, admittedBy'[s] = {w}
      PROVE  SolePhase(w, s)'
    <2>1. \E v \in Workers : Admit(v) /\ job[v].session = s
        BY <1>2 DEF Next, CreateSession, Fetch, Tick, vars, session, history, Serve, Admit, Refuse,
           Decide, StoreOutcome, ReadForLock, StoreLock, ReadForEscalation, StoreEscalation,
           Respond, TypeOK
    <2>2. Admit(w) /\ job[w].session = s
        <3>1. PICK v \in Workers : Admit(v) /\ job[v].session = s
            BY <2>1
        <3>2. admittedBy'[s] = {v}
            BY <1>2, <3>1 DEF Admit, TypeOK
        <3>3. v = w
            BY <1>2, <3>2
        <3>. QED  BY <3>1, <3>3
    <2>3. Active(w, s)' /\ pc'[w] = "admitted"
        BY <2>2 DEF Admit, Active, TypeOK, Admitted, Deciding
    <2>. QED  BY <1>1, <1>2, <2>3 DEF SolePhase
<1>3. ASSUME NEW w \in Workers, admittedBy[s] = {w}, admittedBy'[s] = {w}
      PROVE  SolePhase(w, s)'
    <2>1. SolePhase(w, s) /\ tier[s] # NoTier /\ tier'[s] = tier[s]
        BY <1>3 DEF SoleOK, FreshOK
    <2> USE <2>1
    <2>2. CASE Serve(w)
        <3> USE DEF TypeOK
        <3>1. CASE ~ Active(w, s)
            <4>1. UNCHANGED <<outcome[s], lock[s], escalation[s]>>
                BY <2>2, <3>1 DEF Active, Serve, Admit, Refuse, Decide, StoreOutcome, ReadForLock,
                   StoreLock, ReadForEscalation, StoreEscalation, Respond, session, JobOK, Job,
                   Admitted, Deciding, Writing
            <4>2. ~ Active(w, s)'
                BY <2>2, <3>1 DEF Active, Serve, Admit, Admissible, Refuse, Decide, StoreOutcome,
                   ReadForLock, StoreLock, ReadForEscalation, StoreEscalation, Respond, session,
                   SolePhase, Admitted, Deciding, Writing
            <4>. QED  BY <3>1, <4>1, <4>2 DEF SolePhase, FlagsSettled
        <3>2. CASE Active(w, s)
            <4> USE <3>2 DEF Active, SolePhase, Admitted, Deciding, Writing
            <4>1. CASE Decide(w)
                BY <4>1 DEF Decide, session, Untouched
            <4>2. CASE StoreOutcome(w)
                BY <4>2 DEF StoreOutcome
            <4>3. CASE ReadForLock(w)
                <5>1. flag'[w] = FlagValue(tier[s], "MODERATE", verdict[w], outcome[s])
                    BY <4>3 DEF ReadForLock
                <5>2. verdict[w] \in Verdict /\ outcome[s] = StoredOutcome(tier[s], verdict[w])
                    BY <4>3 DEF ReadForLock, VerdictOK
                <5>3. verdict[w] \in {"TIMED_OUT", "REJECTED"} => outcome[s] # "APPROVED"
                    BY <5>2, StoredOutcomeFits
                <5>4. flag'[w] = (tier[s] = "MODERATE" /\ outcome[s] # "APPROVED")
                    BY <5>1, <5>3 DEF FlagValue
                <5>. QED  BY <4>3, <5>2, <5>4 DEF ReadForLock, session
            <4>4. CASE StoreLock(w)
                BY <4>4 DEF StoreLock
            <4>5. CASE ReadForEscalation(w)
                <5>1. flag'[w] = FlagValue(tier[s], "HIGH", verdict[w], outcome[s])
                    BY <4>5 DEF ReadForEscalation
                <5>2. verdict[w] \in Verdict /\ outcome[s] = StoredOutcome(tier[s], verdict[w])
                    BY <4>5 DEF ReadForEscalation, VerdictOK
                <5>3. verdict[w] \in {"TIMED_OUT", "REJECTED"} => outcome[s] # "APPROVED"
                    BY <5>2, StoredOutcomeFits
                <5>4. flag'[w] = (tier[s] = "HIGH" /\ outcome[s] # "APPROVED")
                    BY <5>1, <5>3 DEF FlagValue
                <5>. QED  BY <4>5, <5>2, <5>4 DEF ReadForEscalation, session
            <4>6. CASE StoreEscalation(w)
                BY <4>6 DEF StoreEscalation
            <4>7. CASE Respond(w)
                <5>1. outcome[s] # "PENDING"
                    BY <4>7, StoredOutcomeFits DEF Respond, VerdictOK
                <5>. QED  BY <4>7, <5>1 DEF Respond, session, FlagsSettled
            <4>. QED
                BY <2>2, <4>1, <4>2, <4>3, <4>4, <4>5, <4>6, <4>7 DEF Serve, Admit, Refuse
        <3>. QED  BY <3>1, <3>2
    <2>3. CASE ~ Serve(w)
        <3>1. UNCHANGED <<outcome[s], lock[s], escalation[s]>>
            BY <1>3, <2>3, WritersAdmitted
        <3>2. CASE \E r \in Requests, t \in Sessions : Fetch(w, t, r)
            <4>1. ~ Active(w, s) /\ ~ Active(w, s)'
                BY <3>2 DEF Fetch, Active, TypeOK, Admitted, Deciding, Writing
            <4>. QED  BY <3>1, <4>1 DEF SolePhase, FlagsSettled
        <3>3. CASE UNCHANGED <<pc[w], job[w], verdict[w], flag[w]>>
            <4>1. Active(w, s)' = Active(w, s)
                BY <3>3 DEF Active
            <4>. QED  BY <3>1, <3>3, <4>1 DEF SolePhase, FlagsSettled, Untouched
        <3>. QED
            BY <2>3, <3>2, <3>3, OthersKeep DEF Next, CreateSession, Fetch, Tick, vars, TypeOK
    <2>. QED  BY <2>2, <2>3
<1>. QED
    <2>1. ASSUME NEW w \in admittedBy'[s], admittedBy'[s] = {w}
          PROVE  SolePhase(w, s)'
        <3>1. w \in Workers
            BY TypeStep, VerdictOK, JobOK DEF TypeOK
        <3>. QED  BY <1>2, <1>3, <2>1, <3>1
    <2>. QED  BY <1>1, <2>1

-----------------------------------------------------------------------------
LEMMA InductiveInit == Init => IInv
<1> SUFFICES ASSUME Init PROVE IInv
    OBVIOUS
<1>1. TypeOK
    BY TypeInit
<1>2. FreshOK /\ JobOK /\ AdmittedOK /\ VerdictOK /\ FlagOK /\ SoleOK
    BY DEF Init, FreshOK, JobOK, AdmittedOK, VerdictOK, FlagOK, SoleOK, Untouched,
           Admitted, Deciding, Writing
<1>3. OutcomeFitsTier /\ ApprovalsChecked
    BY DEF Init, OutcomeFitsTier, ApprovalsChecked
<1>. QED  BY <1>1, <1>2, <1>3 DEF IInv

LEMMA InductiveStep == IInv /\ [Next]_vars => IInv'
BY TypeStep, KnowledgeStep, TierStep, ApprovalStep, SoleStep DEF IInv

LEMMA Inductive == Spec => []IInv
BY InductiveInit, InductiveStep, PTL DEF Spec

\* Every variable keeps its type.
THEOREM TypeCorrect == Spec => []TypeOK
<1>1. IInv => TypeOK
    BY DEF IInv
<1>. QED  BY <1>1, Inductive, PTL

\* The fields of a session stay within its tier, under any interleaving of its
\* completions (complete_session, every branch).
THEOREM TierCorrect == Spec => []OutcomeFitsTier
<1>1. IInv => OutcomeFitsTier
    BY DEF IInv
<1>. QED  BY <1>1, Inductive, PTL

\* An approval is stored only for a completion that presented the session's own live
\* token and did not ask for DENIED, and one that itself reports APPROVED carries its
\* tier's evidence; of the other reports nothing is asked (complete_session and
\* _validate_workflow).
THEOREM ApprovalCorrect == Spec => []ApprovalsChecked
<1>1. IInv => ApprovalsChecked
    BY DEF IInv
<1>. QED  BY <1>1, Inductive, PTL

\* A session completed by one worker only ends with the flags its tier and
\* outcome call for (the three stores of complete_session).
THEOREM SettlementCorrect == Spec => []SoleCompletionSettles
<1>1. IInv => SoleCompletionSettles
    <2> SUFFICES ASSUME IInv, NEW s \in Sessions, ~ Contested(s)
                 PROVE  \/ \E w \in admittedBy[s] : Active(w, s) /\ pc[w] \in Writing
                        \/ outcome[s] = "PENDING" /\ ~ lock[s] /\ ~ escalation[s]
                        \/ outcome[s] # "PENDING" /\ FlagsSettled(s)
        BY DEF SoleCompletionSettles
    <2>1. CASE admittedBy[s] = {}
        BY <2>1 DEF IInv, SoleOK, Untouched
    <2>2. ASSUME NEW w \in admittedBy[s]
          PROVE  \/ Active(w, s) /\ pc[w] \in Writing
                 \/ Untouched(s)
                 \/ outcome[s] # "PENDING" /\ FlagsSettled(s)
        <3>1. w \in Workers /\ SolePhase(w, s)
            BY <2>2 DEF IInv, SoleOK, TypeOK, Contested
        <3>2. CASE Active(w, s) /\ pc[w] = "escalationStored"
            <4>1. outcome[s] = StoredOutcome(tier[s], verdict[w]) /\ verdict[w] \in Verdict
                BY <3>1, <3>2 DEF SolePhase, IInv, VerdictOK, Admitted, Deciding
            <4>. QED  BY <3>1, <3>2, <4>1, StoredOutcomeFits DEF SolePhase, FlagsSettled
        <3>. QED  BY <3>1, <3>2 DEF SolePhase, Active, Admitted, Deciding, Writing
    <2>. QED  BY <2>1, <2>2 DEF Untouched
<1>. QED  BY <1>1, Inductive, PTL

-----------------------------------------------------------------------------
(* The sessions on which no two completions overlap follow the lifecycle.    *)

\* What a session shows its callers.
Shown(s) ==
    [outcome    |-> IF Hidden(s) THEN "PENDING" ELSE outcome[s],
     lock       |-> ~ Hidden(s) /\ lock[s],
     escalation |-> ~ Hidden(s) /\ escalation[s]]

\* Nothing a caller can see changes.
Quiet == UNCHANGED <<now, tier, expiresAt>> /\ \A s \in Sessions : Shown(s)' = Shown(s)

LEMMA QuietStutters ==
    ASSUME Quiet
    PROVE  UNCHANGED Lifecycle!vars
<1>1. \A s \in Sessions :
          (IF Hidden(s) THEN "PENDING" ELSE outcome[s])' = IF Hidden(s) THEN "PENDING" ELSE outcome[s]
  BY DEF Quiet, Shown
<1>2. \A s \in Sessions : (~ Hidden(s) /\ lock[s])' = (~ Hidden(s) /\ lock[s])
  BY DEF Quiet, Shown
<1>3. \A s \in Sessions : (~ Hidden(s) /\ escalation[s])' = (~ Hidden(s) /\ escalation[s])
  BY DEF Quiet, Shown
<1> QED
  BY <1>1, <1>2, <1>3 DEF Lifecycle!vars, Quiet

\* A worker past its admission to an uncontested session is alone with it.
LEMMA SoleHistory ==
    ASSUME IInv, NEW w \in Workers, pc[w] \in Admitted, ~ Contested(job[w].session)
    PROVE  /\ job[w].session \in Sessions
           /\ SolePhase(w, job[w].session)
           /\ Active(w, job[w].session)
           /\ \A v \in Workers : Active(v, job[w].session) => v = w
<1>1. job[w] \in Job /\ w \in admittedBy[job[w].session]
  BY DEF IInv, JobOK, AdmittedOK, Admitted, Deciding, Writing
<1>2. job[w].session \in Sessions
  BY <1>1 DEF Job
<1>3. admittedBy[job[w].session] = {w}
  BY <1>1, <1>2 DEF IInv, TypeOK, Contested
<1>4. \A v \in Workers : Active(v, job[w].session) => v \in admittedBy[job[w].session]
  BY DEF IInv, AdmittedOK, Active
<1> QED
  BY <1>2, <1>3, <1>4 DEF IInv, SoleOK, Active

\* An uncontested session that reads PENDING is as it was created.
LEMMA PendingUntouched ==
    ASSUME IInv, NEW s \in Sessions, ~ Contested(s), outcome[s] = "PENDING"
    PROVE  Untouched(s) /\ ~ Unsettled(s)
<1>1. CASE admittedBy[s] = {}
  BY <1>1 DEF IInv, SoleOK, AdmittedOK, Unsettled, Active
<1>2. ASSUME NEW w \in admittedBy[s]
      PROVE  Untouched(s) /\ ~ Unsettled(s)
  <2>1. w \in Workers /\ admittedBy[s] = {w}
    BY <1>2 DEF IInv, TypeOK, Contested
  <2>2. SolePhase(w, s)
    BY <1>2, <2>1 DEF IInv, SoleOK
  <2>3. Active(w, s) /\ pc[w] \notin {"admitted", "decided"} => outcome[s] # "PENDING"
    BY <2>1, <2>2, StoredOutcomeFits DEF SolePhase, IInv, VerdictOK, Active, Admitted, Deciding
  <2>4. Active(w, s) /\ pc[w] \in {"admitted", "decided"} /\ Untouched(s)
    BY <2>2, <2>3 DEF SolePhase
  <2>5. \A v \in Workers : Active(v, s) => v = w
    BY <2>1 DEF IInv, AdmittedOK, Active
  <2> QED
    BY <2>4, <2>5 DEF Unsettled, Writing
<1> QED
  BY <1>1, <1>2

\* A worker leaves every session but its own as it was.
LEMMA OtherSessions ==
    ASSUME TypeOK, JobOK, AdmittedOK, NEW w \in Workers, Serve(w),
           NEW s \in Sessions, s # job[w].session
    PROVE  Shown(s)' = Shown(s)
<1> USE DEF Writing
<1>1. UNCHANGED <<outcome[s], lock[s], escalation[s], admittedBy[s]>>
  BY DEF Serve, Admit, Refuse, Decide, StoreOutcome, ReadForLock, StoreLock,
         ReadForEscalation, StoreEscalation, Respond, session, history, TypeOK, JobOK, Job,
         Admitted, Deciding
<1>2. ~ (Active(w, s) /\ pc[w] \in Writing) /\ ~ (Active(w, s)' /\ pc'[w] \in Writing)
  BY DEF Serve, Admit, Refuse, Decide, StoreOutcome, ReadForLock, StoreLock,
         ReadForEscalation, StoreEscalation, Respond, TypeOK, Active, Admitted, Deciding
<1>3. \A v \in Workers : v # w => pc'[v] = pc[v] /\ job'[v] = job[v]
  BY OthersKeep
<1>4. Unsettled(s)' <=> Unsettled(s)
  BY <1>2, <1>3 DEF Unsettled, Active
<1>5. Contested(s)' <=> Contested(s)
  BY <1>1 DEF Contested
<1> QED
  BY <1>1, <1>4, <1>5 DEF Shown, Hidden

\* The steps of a worker before, between and after its stores show nothing new,
\* nor do those of a worker on a contested session.
LEMMA QuietServe ==
    ASSUME IInv, NEW w \in Workers, Serve(w),
           StoreEscalation(w) => Contested(job[w].session)
    PROVE  Quiet
<1> USE DEF Writing
<1>t. TypeOK /\ JobOK /\ AdmittedOK
  BY DEF IInv
<1>f. UNCHANGED <<now, tier, expiresAt>>
  BY DEF Serve, Admit, Refuse, Decide, StoreOutcome, ReadForLock, StoreLock,
         ReadForEscalation, StoreEscalation, Respond, session
<1>s. PICK s \in Sessions : s = job[w].session
  BY <1>t DEF Serve, Admit, Refuse, Decide, StoreOutcome, ReadForLock, StoreLock,
         ReadForEscalation, StoreEscalation, Respond, JobOK, Job
<1>v. \A v \in Workers : v # w => pc'[v] = pc[v] /\ job'[v] = job[v]
  BY <1>t, OthersKeep
<1>1. CASE Contested(s)
  <2>1. Contested(s)'
    BY <1>1, <1>t DEF Contested, Serve, Admit, Refuse, Decide, StoreOutcome, ReadForLock,
         StoreLock, ReadForEscalation, StoreEscalation, Respond, history, TypeOK
  <2>2. Shown(s)' = Shown(s)
    BY <1>1, <2>1 DEF Shown, Hidden
  <2> QED
    BY <1>f, <1>s, <1>t, <2>2, OtherSessions DEF Quiet
<1>2. CASE ~ Contested(s)
  <2>1. ASSUME Admit(w) PROVE Shown(s)' = Shown(s)
    <3>1. outcome[s] = "PENDING" /\ UNCHANGED <<outcome, lock, escalation>>
      BY <1>s, <2>1 DEF Admit, Admissible, session
    <3>2. Untouched(s)
      BY <1>2, <3>1, PendingUntouched
    <3> QED
      BY <3>1, <3>2 DEF Shown, Untouched
  <2>2. ASSUME Refuse(w) \/ Decide(w) \/ Respond(w) PROVE Shown(s)' = Shown(s)
    <3>1. pc[w] \notin Writing /\ pc'[w] \notin Writing
      BY <1>t, <2>2 DEF TypeOK, Refuse, Decide, Respond
    <3>2. UNCHANGED <<outcome, lock, escalation, admittedBy>>
      BY <2>2 DEF Refuse, Decide, Respond, session, history
    <3>3. Unsettled(s)' <=> Unsettled(s)
      BY <1>v, <3>1 DEF Unsettled, Active
    <3> QED
      BY <3>2, <3>3 DEF Shown, Hidden, Contested
  <2>3. ASSUME StoreOutcome(w) PROVE Shown(s)' = Shown(s)
    <3>1. pc[w] = "decided" /\ pc'[w] = "outcomeStored" /\ job' = job
      BY <1>t, <2>3 DEF TypeOK, StoreOutcome
    <3>2. Untouched(s)
      BY <1>2, <1>s, <3>1, SoleHistory DEF SolePhase, Admitted
    <3>3. Unsettled(s)'
      BY <1>s, <3>1 DEF Unsettled, Active, Admitted
    <3> QED
      BY <3>2, <3>3 DEF Shown, Hidden, Untouched
  <2>4. ASSUME ReadForLock(w) \/ StoreLock(w) \/ ReadForEscalation(w) PROVE Shown(s)' = Shown(s)
    <3>1. pc[w] \in Writing /\ pc'[w] \in Writing /\ job' = job
      BY <1>t, <2>4 DEF TypeOK, ReadForLock, StoreLock, ReadForEscalation
    <3>2. Unsettled(s) /\ Unsettled(s)'
      BY <1>s, <3>1 DEF Unsettled, Active, Admitted
    <3> QED
      BY <3>2 DEF Shown, Hidden
  <2>5. Shown(s)' = Shown(s)
    BY <1>2, <1>s, <2>1, <2>2, <2>3, <2>4 DEF Serve
  <2> QED
    BY <1>f, <1>s, <1>t, <2>5, OtherSessions DEF Quiet
<1> QED
  BY <1>1, <1>2

\* The last store of a completion that was alone settles the session.
LEMMA LastStoreSettles ==
    ASSUME IInv, NEW w \in Workers, StoreEscalation(w), ~ Contested(job[w].session)
    PROVE  \E s \in Sessions : Lifecycle!Settle(s)
<1> USE DEF Writing
<1>t. TypeOK /\ JobOK /\ AdmittedOK
  BY DEF IInv
<1>a. pc[w] = "escalationRead"
  BY DEF StoreEscalation
<1>s. PICK s \in Sessions : s = job[w].session
  BY <1>a, SoleHistory DEF Admitted
<1>o. PICK o : o = outcome[s]
  OBVIOUS
<1>1. /\ pc[w] = "escalationRead" /\ pc'[w] = "escalationStored"
      /\ UNCHANGED <<now, tier, expiresAt, outcome, lock, job, admittedBy>>
      /\ \A r \in Sessions : escalation'[r] = IF r = s THEN flag[w] ELSE escalation[r]
  BY <1>t, <1>s DEF TypeOK, StoreEscalation, history
<1>2. Active(w, s) /\ SolePhase(w, s) /\ \A v \in Workers : Active(v, s) => v = w
  BY <1>1, <1>s, SoleHistory DEF Admitted
<1>3. /\ o = StoredOutcome(tier[s], verdict[w])
      /\ lock[s] = (tier[s] = "MODERATE" /\ o # "APPROVED")
      /\ flag[w] = (tier[s] = "HIGH" /\ o # "APPROVED")
  BY <1>1, <1>2, <1>o DEF SolePhase
<1>4. /\ verdict[w] \in Verdict
      /\ verdict[w] = "TIMED_OUT" => expiresAt[s] <= now
  BY <1>1, <1>t, <1>s DEF IInv, VerdictOK, Admitted, Deciding
<1>5. o \in Lifecycle!Settlements(tier[s], expiresAt[s] <= now)
  BY <1>3, <1>4, StoredOutcomeFits DEF Lifecycle!Settlements
<1>6. tier[s] # "NONE"
  BY <1>1, <1>t, <1>s DEF JobOK, NoTier
<1>v. \A v \in Workers : v # w => pc'[v] = pc[v] /\ job'[v] = job[v]
  BY <1>t, OthersKeep DEF Serve
<1>7. Hidden(s) /\ ~ Hidden(s)'
  <2>1. Unsettled(s)
    BY <1>1, <1>2 DEF Unsettled
  <2>2. ~ Unsettled(s)'
    BY <1>1, <1>2, <1>v DEF Unsettled, Active
  <2>3. ~ Contested(s)'
    BY <1>s, <1>1 DEF Contested
  <2> QED
    BY <2>1, <2>2, <2>3 DEF Hidden
<1>8. \A r \in Sessions : r # s => Shown(r)' = Shown(r)
  BY <1>t, <1>s, OtherSessions DEF Serve
<1>9. [r \in Sessions |-> IF Hidden(r) THEN "PENDING" ELSE outcome[r]]'
        = [[r \in Sessions |-> IF Hidden(r) THEN "PENDING" ELSE outcome[r]] EXCEPT ![s] = o]
  <2>1. \A r \in Sessions : (IF Hidden(r) THEN "PENDING" ELSE outcome[r])'
            = IF r = s THEN o ELSE IF Hidden(r) THEN "PENDING" ELSE outcome[r]
    BY <1>1, <1>7, <1>8, <1>o DEF Shown
  <2> QED
    BY <2>1
<1>10. [r \in Sessions |-> ~ Hidden(r) /\ lock[r]]'
        = [[r \in Sessions |-> ~ Hidden(r) /\ lock[r]]
             EXCEPT ![s] = tier[s] = "MODERATE" /\ o # "APPROVED"]
  <2>1. \A r \in Sessions : (~ Hidden(r) /\ lock[r])'
            = IF r = s THEN tier[s] = "MODERATE" /\ o # "APPROVED" ELSE ~ Hidden(r) /\ lock[r]
    BY <1>1, <1>3, <1>7, <1>8 DEF Shown
  <2> QED
    BY <2>1
<1>11. [r \in Sessions |-> ~ Hidden(r) /\ escalation[r]]'
        = [[r \in Sessions |-> ~ Hidden(r) /\ escalation[r]]
             EXCEPT ![s] = tier[s] = "HIGH" /\ o # "APPROVED"]
  <2>1. \A r \in Sessions : (~ Hidden(r) /\ escalation[r])'
            = IF r = s THEN tier[s] = "HIGH" /\ o # "APPROVED" ELSE ~ Hidden(r) /\ escalation[r]
    BY <1>1, <1>3, <1>7, <1>8 DEF Shown
  <2> QED
    BY <2>1
<1>12. [r \in Sessions |-> IF Hidden(r) THEN "PENDING" ELSE outcome[r]][s] = "PENDING"
  BY <1>7
<1> QED
  BY <1>1, <1>5, <1>6, <1>9, <1>10, <1>11, <1>12 DEF Lifecycle!Settle

LEMMA LifecycleStep ==
    ASSUME IInv, [Next]_vars
    PROVE  Lifecycle!Next \/ UNCHANGED Lifecycle!vars
<1> USE DEF Writing
<1>t. TypeOK /\ JobOK /\ AdmittedOK
  BY DEF IInv
<1>1. ASSUME NEW s \in Sessions, NEW t \in Tier, NEW ttl \in Ttls, CreateSession(s, t, ttl)
      PROVE  Lifecycle!Open(s, t, ttl)
  <2>1. UNCHANGED <<now, outcome, lock, escalation, pc, job, admittedBy>>
    BY <1>1 DEF CreateSession, history
  <2>2. \A r : Hidden(r)' <=> Hidden(r)
    BY <2>1 DEF Hidden, Unsettled, Active, Contested
  <2>3. /\ [r \in Sessions |-> IF Hidden(r) THEN "PENDING" ELSE outcome[r]]'
            = [r \in Sessions |-> IF Hidden(r) THEN "PENDING" ELSE outcome[r]]
        /\ [r \in Sessions |-> ~ Hidden(r) /\ lock[r]]' = [r \in Sessions |-> ~ Hidden(r) /\ lock[r]]
        /\ [r \in Sessions |-> ~ Hidden(r) /\ escalation[r]]'
            = [r \in Sessions |-> ~ Hidden(r) /\ escalation[r]]
    BY <2>1, <2>2
  <2> QED
    BY <1>1, <2>3 DEF CreateSession, Lifecycle!Open, NoTier
<1>2. ASSUME NEW w \in Workers, NEW addressed \in Sessions, NEW r \in Requests,
             Fetch(w, addressed, r)
      PROVE  Quiet
  <2>1. pc[w] \notin Writing /\ pc'[w] \notin Writing
    BY <1>t, <1>2 DEF TypeOK, Fetch
  <2>2. UNCHANGED <<now, tier, expiresAt, outcome, lock, escalation, admittedBy>>
    BY <1>2 DEF Fetch, session, history
  <2>3. \A v \in Workers : v # w => pc'[v] = pc[v] /\ job'[v] = job[v]
    BY <1>t, <1>2 DEF TypeOK, Fetch
  <2>4. \A s \in Sessions : Hidden(s)' <=> Hidden(s)
    BY <2>1, <2>2, <2>3 DEF Hidden, Unsettled, Active, Contested
  <2> QED
    BY <2>2, <2>4 DEF Quiet, Shown
<1>3. CASE Tick
  <2>1. UNCHANGED <<tier, expiresAt, outcome, lock, escalation, pc, job, admittedBy>>
    BY <1>3 DEF Tick, session, history
  <2>2. \A r : Hidden(r)' <=> Hidden(r)
    BY <2>1 DEF Hidden, Unsettled, Active, Contested
  <2>3. /\ [r \in Sessions |-> IF Hidden(r) THEN "PENDING" ELSE outcome[r]]'
            = [r \in Sessions |-> IF Hidden(r) THEN "PENDING" ELSE outcome[r]]
        /\ [r \in Sessions |-> ~ Hidden(r) /\ lock[r]]' = [r \in Sessions |-> ~ Hidden(r) /\ lock[r]]
        /\ [r \in Sessions |-> ~ Hidden(r) /\ escalation[r]]'
            = [r \in Sessions |-> ~ Hidden(r) /\ escalation[r]]
    BY <2>1, <2>2
  <2>4. Lifecycle!Tick
    BY <1>3, <2>1, <2>3 DEF Tick, Lifecycle!Tick
  <2> QED
    BY <2>4 DEF Lifecycle!Next
<1>4. CASE UNCHANGED vars
  <2>1. UNCHANGED <<now, tier, expiresAt, outcome, lock, escalation, pc, job, admittedBy>>
    BY <1>4 DEF vars, session, history
  <2>2. Quiet
    BY <2>1 DEF Quiet, Shown, Hidden, Unsettled, Active, Contested
  <2> QED
    BY <2>2, QuietStutters
<1>5. ASSUME NEW w \in Workers, Serve(w)
      PROVE  Lifecycle!Next \/ UNCHANGED Lifecycle!vars
  <2>1. CASE StoreEscalation(w) /\ ~ Contested(job[w].session)
    <3>1. \E s \in Sessions : Lifecycle!Settle(s)
      BY <2>1, LastStoreSettles
    <3> QED
      BY <3>1 DEF Lifecycle!Next
  <2>2. CASE StoreEscalation(w) => Contested(job[w].session)
    <3>1. Quiet
      BY <1>5, <2>2, QuietServe
    <3> QED
      BY <3>1, QuietStutters
  <2> QED
    BY <2>1, <2>2
<1>6. ASSUME \E w \in Workers, s \in Sessions, r \in Requests : Fetch(w, s, r)
      PROVE  UNCHANGED Lifecycle!vars
  BY <1>2, <1>6, QuietStutters
<1>7. ASSUME \E s \in Sessions, t \in Tier, ttl \in Ttls : CreateSession(s, t, ttl)
      PROVE  Lifecycle!Next
  BY <1>1, <1>7 DEF Tier, Lifecycle!Next
<1> QED
  BY <1>3, <1>4, <1>5, <1>6, <1>7 DEF Next

\* Whatever the number of workers, a session on which no two completions overlap goes
\* through the one-shot lifecycle: it is opened pending and settled at most once, in
\* one step, with an outcome and flags that fit its tier (complete_session).
THEOREM LifecycleCorrect == Spec => ImplementsLifecycle
<1>1. Init => Lifecycle!Init
  <2> SUFFICES ASSUME Init PROVE Lifecycle!Init
    OBVIOUS
  <2>1. \A s \in Sessions : ~ Hidden(s)
    BY DEF Init, Hidden, Unsettled, Active, Contested, Writing, Admitted, Deciding
  <2>2. /\ [s \in Sessions |-> IF Hidden(s) THEN "PENDING" ELSE outcome[s]]
            = [s \in Sessions |-> "PENDING"]
        /\ [s \in Sessions |-> ~ Hidden(s) /\ lock[s]] = [s \in Sessions |-> FALSE]
        /\ [s \in Sessions |-> ~ Hidden(s) /\ escalation[s]] = [s \in Sessions |-> FALSE]
    BY <2>1 DEF Init
  <2> QED
    BY <2>2 DEF Init, Lifecycle!Init, NoTier
<1>2. IInv /\ [Next]_vars => [Lifecycle!Next]_Lifecycle!vars
  BY LifecycleStep
<1> QED
  BY Inductive, <1>1, <1>2, PTL DEF Spec, ImplementsLifecycle, Lifecycle!Spec

=============================================================================
