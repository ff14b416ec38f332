------------------------ MODULE VerificationSession ------------------------
(***************************************************************************)
(* services/auth_orchestration: mobile verification sessions.              *)
(*                                                                         *)
(* FastAPI runs the synchronous handlers on a pool of threads which share  *)
(* one in-memory repository of mutable session objects and take no lock.   *)
(* A Worker is such a thread, serving one completion at a time; every read *)
(* or write of a field another thread may write is a step of its own.      *)
(* Steps that touch only a thread's locals or fields that are never        *)
(* rewritten (tier, expiry, digest) are merged with the step before them.  *)
(***************************************************************************)
EXTENDS Naturals

CONSTANTS
    Sessions,   \* session identifiers (a fresh uuid for each session)
    Workers,    \* threads of the server's pool
    Ttls,       \* token lifetimes a caller may ask for, in clock ticks
    Requests,   \* bodies of POST .../complete, see Request
    MaxTime,    \* bound on the clock
    NoJob       \* the job of an idle worker

Tier == {"NO_RISK", "LOW", "MODERATE", "HIGH"}
NoTier == "NONE"   \* the session is not in the repository

Outcome == {"PENDING", "APPROVED", "DENIED", "TIMED_OUT", "EXPIRED",
            "LOCKED", "ESCALATED"}

\* What a completion can carry to show the payer took part; "biometric" is an
\* assertion the verifier accepts, "amount" and "currency" equal the session's.
EvidenceKind == {"amount", "currency", "biometric", "swipe"}

\* bound: the token's digest and claims are the ones of the session addressed.
Request == [bound: BOOLEAN, outcome: Outcome, evidence: SUBSET EvidenceKind]

ASSUME RequestsAssumption == Requests \subseteq Request
ASSUME TimeAssumption == Ttls \subseteq Nat \ {0} /\ MaxTime \in Nat
ASSUME IdsAssumption == Sessions # {} /\ Workers # {}

VARIABLES
    now,         \* the wall clock
    tier,        \* tier[s]: risk tier of s, NoTier before it is created
    expiresAt,   \* expiresAt[s]: end of the life of s's token
    outcome,     \* outcome[s], lock[s], escalation[s]: the fields of the
    lock,        \*   stored session object the completions write
    escalation,
    dispatched,  \* sessions for which a push was sent
    pc,          \* pc[w]: the next step of worker w
    job,         \* job[w]: the completion w serves
    verdict,     \* verdict[w]: the branch of complete_session w took
    flag,        \* flag[w]: value w has computed and not yet stored
    admittedBy,  \* history: workers that found s pending with a live token
    approvals    \* history: completions on which APPROVED was stored for s

session == <<tier, expiresAt, outcome, lock, escalation, dispatched>>
history == <<admittedBy, approvals>>
vars == <<now, session, pc, job, verdict, flag, history>>

-----------------------------------------------------------------------------
Job == [session: Sessions, request: Requests, readAt: 0..MaxTime]

ASSUME NoJobAssumption == NoJob \notin Job

Verdict == {"TIMED_OUT", "REJECTED", "DENIED", "APPROVED"}
NoVerdict == "none"

\* Steps of a worker past its admission, in order.
Deciding == {"admitted"}
Writing  == {"outcomeStored", "lockRead", "lockStored", "escalationRead"}
Admitted == Deciding \cup {"decided"} \cup Writing \cup {"escalationStored"}
Step     == {"idle", "fetched"} \cup Admitted

TypeOK ==
    /\ now \in 0..MaxTime
    /\ tier \in [Sessions -> Tier \cup {NoTier}]
    /\ expiresAt \in [Sessions -> Nat]
    /\ outcome \in [Sessions -> Outcome]
    /\ lock \in [Sessions -> BOOLEAN]
    /\ escalation \in [Sessions -> BOOLEAN]
    /\ dispatched \subseteq Sessions
    /\ pc \in [Workers -> Step]
    /\ job \in [Workers -> Job \cup {NoJob}]
    /\ verdict \in [Workers -> Verdict \cup {NoVerdict}]
    /\ flag \in [Workers -> BOOLEAN]
    /\ admittedBy \in [Sessions -> SUBSET Workers]
    /\ approvals \in [Sessions -> SUBSET Job]

Init ==
    /\ now = 0
    /\ tier = [s \in Sessions |-> NoTier]
    /\ expiresAt = [s \in Sessions |-> 0]
    /\ outcome = [s \in Sessions |-> "PENDING"]
    /\ lock = [s \in Sessions |-> FALSE]
    /\ escalation = [s \in Sessions |-> FALSE]
    /\ dispatched = {}
    /\ pc = [w \in Workers |-> "idle"]
    /\ job = [w \in Workers |-> NoJob]
    /\ verdict = [w \in Workers |-> NoVerdict]
    /\ flag = [w \in Workers |-> FALSE]
    /\ admittedBy = [s \in Sessions |-> {}]
    /\ approvals = [s \in Sessions |-> {}]

-----------------------------------------------------------------------------
\* Evidence _validate_workflow asks of an APPROVED completion, by tier.
Required(t) ==
    CASE t = "HIGH"     -> EvidenceKind
      [] t = "MODERATE" -> {"biometric"}
      [] OTHER          -> {}

\* Variant: any evidence at all will do.
AnyEvidenceWorkflowError(t, request) ==
    request.outcome = "APPROVED" /\ Required(t) # {} /\ request.evidence = {}

\* Only a request for APPROVED is held against the tier's workflow.
WorkflowError(t, request) ==
    /\ request.outcome = "APPROVED"
    /\ ~ (Required(t) \subseteq request.evidence)

\* The branch of complete_session, given its second reading of the clock.
Branch(t, expires, request) ==
    IF expires <= now THEN "TIMED_OUT"
    ELSE IF WorkflowError(t, request) THEN "REJECTED"
    ELSE IF request.outcome = "DENIED" THEN "DENIED"
    ELSE "APPROVED"

\* Variant: the tier is not looked at.
TierlessStoredOutcome(t, v) == IF v \in {"APPROVED", "TIMED_OUT"} THEN v ELSE "DENIED"

\* The outcome each branch stores.
StoredOutcome(t, v) ==
    IF v = "APPROVED" THEN "APPROVED"
    ELSE IF t = "HIGH" THEN "ESCALATED"
    ELSE IF v = "TIMED_OUT" THEN "TIMED_OUT"
    ELSE "DENIED"

\* Variant: an approved session is flagged as well.
UnconditionalFlag(t, flagged, v, stored) == t = flagged

\* The flag a branch computes for a session of tier t whose flagged tier is
\* `flagged`: the first two branches do not look at the stored outcome, the
\* last two read it back from the shared object.
FlagValue(t, flagged, v, stored) ==
    /\ t = flagged
    /\ v \in {"TIMED_OUT", "REJECTED"} \/ stored # "APPROVED"

-----------------------------------------------------------------------------
\* POST /sessions. The token leaves the service only with the response, so no
\* completion can interleave with the body and it is one step.
CreateSession(s, t, ttl) ==
    /\ tier[s] = NoTier
    /\ tier' = [tier EXCEPT ![s] = t]
    /\ expiresAt' = [expiresAt EXCEPT ![s] = now + ttl]
    /\ dispatched' = IF t = "NO_RISK" THEN dispatched ELSE dispatched \cup {s}
    /\ UNCHANGED <<now, outcome, lock, escalation, pc, job, verdict, flag, history>>

\* complete_session looks the session up and reads the clock; an unknown
\* session is answered 404 at once and leaves the worker idle.
Fetch(w, s, request) ==
    /\ pc[w] = "idle"
    /\ tier[s] # NoTier
    /\ pc' = [pc EXCEPT ![w] = "fetched"]
    /\ job' = [job EXCEPT ![w] = [session |-> s, request |-> request, readAt |-> now]]
    /\ UNCHANGED <<now, session, verdict, flag, history>>

\* A completion goes on when the session is pending and the token presented is
\* its own and was live at the first reading of the clock.
Admissible(w) ==
    LET s == job[w].session IN
    /\ outcome[s] = "PENDING"
    /\ job[w].request.bound
    /\ job[w].readAt < expiresAt[s]

Admit(w) ==
    /\ pc[w] = "fetched"
    /\ Admissible(w)
    /\ pc' = [pc EXCEPT ![w] = "admitted"]
    /\ admittedBy' = [admittedBy EXCEPT ![job[w].session] = @ \cup {w}]
    /\ UNCHANGED <<now, session, job, verdict, flag, approvals>>

\* Every other completion is a 409 and changes nothing: an expired token too
\* leaves its session pending.
Refuse(w) ==
    /\ pc[w] = "fetched"
    /\ ~ Admissible(w)
    /\ pc' = [pc EXCEPT ![w] = "idle"]
    /\ job' = [job EXCEPT ![w] = NoJob]
    /\ UNCHANGED <<now, session, verdict, flag, history>>

\* _expired reads the clock a second time, then the workflow is validated.
Decide(w) ==
    LET s == job[w].session IN
    /\ pc[w] = "admitted"
    /\ pc' = [pc EXCEPT ![w] = "decided"]
    /\ verdict' = [verdict EXCEPT ![w] = Branch(tier[s], expiresAt[s], job[w].request)]
    /\ UNCHANGED <<now, session, job, flag, history>>

StoreOutcome(w) ==
    LET s == job[w].session IN
    /\ pc[w] = "decided"
    /\ pc' = [pc EXCEPT ![w] = "outcomeStored"]
    /\ outcome' = [outcome EXCEPT ![s] = StoredOutcome(tier[s], verdict[w])]
    /\ approvals' = IF verdict[w] = "APPROVED"
                    THEN [approvals EXCEPT ![s] = @ \cup {job[w]}]
                    ELSE approvals
    /\ UNCHANGED <<now, tier, expiresAt, lock, escalation, dispatched, job, verdict,
                   flag, admittedBy>>

\* The value of an assignment is computed before the (Python) __setattr__ that
\* stores it runs, and a thread switch can fall between the two.
ReadForLock(w) ==
    LET s == job[w].session IN
    /\ pc[w] = "outcomeStored"
    /\ pc' = [pc EXCEPT ![w] = "lockRead"]
    /\ flag' = [flag EXCEPT ![w] = FlagValue(tier[s], "MODERATE", verdict[w], outcome[s])]
    /\ UNCHANGED <<now, session, job, verdict, history>>

StoreLock(w) ==
    /\ pc[w] = "lockRead"
    /\ pc' = [pc EXCEPT ![w] = "lockStored"]
    /\ lock' = [lock EXCEPT ![job[w].session] = flag[w]]
    /\ UNCHANGED <<now, tier, expiresAt, outcome, escalation, dispatched, job, verdict,
                   flag, history>>

ReadForEscalation(w) ==
    LET s == job[w].session IN
    /\ pc[w] = "lockStored"
    /\ pc' = [pc EXCEPT ![w] = "escalationRead"]
    /\ flag' = [flag EXCEPT ![w] = FlagValue(tier[s], "HIGH", verdict[w], outcome[s])]
    /\ UNCHANGED <<now, session, job, verdict, history>>

StoreEscalation(w) ==
    /\ pc[w] = "escalationRead"
    /\ pc' = [pc EXCEPT ![w] = "escalationStored"]
    /\ escalation' = [escalation EXCEPT ![job[w].session] = flag[w]]
    /\ UNCHANGED <<now, tier, expiresAt, outcome, lock, dispatched, job, verdict,
                   flag, history>>

\* repository.save puts back the object that is already there, and the result
\* is built; the worker is free for another completion.
Respond(w) ==
    /\ pc[w] = "escalationStored"
    /\ pc' = [pc EXCEPT ![w] = "idle"]
    /\ job' = [job EXCEPT ![w] = NoJob]
    /\ verdict' = [verdict EXCEPT ![w] = NoVerdict]
    /\ flag' = [flag EXCEPT ![w] = FALSE]
    /\ UNCHANGED <<now, session, history>>

Tick ==
    /\ now < MaxTime
    /\ now' = now + 1
    /\ UNCHANGED <<session, pc, job, verdict, flag, history>>

\* What a worker does once it has taken a completion up.
Serve(w) ==
    \/ Admit(w) \/ Refuse(w) \/ Decide(w) \/ StoreOutcome(w)
    \/ ReadForLock(w) \/ StoreLock(w)
    \/ ReadForEscalation(w) \/ StoreEscalation(w)
    \/ Respond(w)

Next ==
    \/ \E s \in Sessions, t \in Tier, ttl \in Ttls : CreateSession(s, t, ttl)
    \/ \E w \in Workers, s \in Sessions, r \in Requests : Fetch(w, s, r)
    \/ \E w \in Workers : Serve(w)
    \/ Tick

Spec == Init /\ [][Next]_vars

\* A thread that runs is scheduled again, and the wall clock advances.
FairSpec == Spec /\ WF_vars(Tick) /\ \A w \in Workers : WF_vars(Serve(w))

-----------------------------------------------------------------------------
Active(w, s) == pc[w] \in Admitted /\ job[w].session = s

\* Two completions of s were under way at once: both found it pending.
Contested(s) == \E v, w \in admittedBy[s] : v # w

\* The flags a settled session should carry.
FlagsSettled(s) ==
    /\ lock[s] = (tier[s] = "MODERATE" /\ outcome[s] # "APPROVED")
    /\ escalation[s] = (tier[s] = "HIGH" /\ outcome[s] # "APPROVED")

\* Whatever the races, the three fields stay within what the session's tier can
\* produce: only a MODERATE session is locked, only a HIGH one escalated, a HIGH
\* one ends APPROVED or ESCALATED, and only a session whose token has run out
\* is TIMED_OUT (complete_session, every branch).
OutcomeFitsTier ==
    \A s \in Sessions :
        /\ lock[s] => tier[s] = "MODERATE"
        /\ escalation[s] => tier[s] = "HIGH"
        /\ outcome[s] \in {"PENDING", "APPROVED"}
              \cup (IF tier[s] = "HIGH" THEN {"ESCALATED"} ELSE {"DENIED", "TIMED_OUT"})
        /\ outcome[s] = "TIMED_OUT" => expiresAt[s] <= now

\* However completions race, APPROVED is stored only for a completion that itself
\* presented the session's own token while it was live and did not ask for
\* DENIED; the checks are made several steps before the store, and on another
\* reading of the shared session (complete_session).  The evidence of its tier is
\* sure only of a completion that itself reports APPROVED: _validate_workflow
\* looks at no other, which EvidenceDemanded below holds against the docs.
ApprovalsChecked ==
    \A s \in Sessions :
        /\ outcome[s] = "APPROVED" => approvals[s] # {}
        /\ \A a \in approvals[s] :
              /\ a.session = s
              /\ a.request.bound
              /\ a.readAt < expiresAt[s]
              /\ a.request.outcome # "DENIED"
              /\ a.request.outcome = "APPROVED" => Required(tier[s]) \subseteq a.request.evidence

\* A session that a single worker was ever admitted to is, whenever that worker is not
\* between its first and its last store, either untouched or settled with the
\* flags of its tier and outcome (the three stores of each branch).
SoleCompletionSettles ==
    \A s \in Sessions :
        ~ Contested(s) =>
            \/ \E w \in admittedBy[s] : Active(w, s) /\ pc[w] \in Writing
            \/ outcome[s] = "PENDING" /\ ~ lock[s] /\ ~ escalation[s]
            \/ outcome[s] # "PENDING" /\ FlagsSettled(s)

-----------------------------------------------------------------------------
(* What the repository says of the program and the program does not do.      *)

\* "6-25: push approve/deny, 30-second decline timeout; 26-50: push plus hardware
\* biometric, decline and temporary lock on timeout" (docs/blueprint-alignment.md:7-8):
\* a session of these tiers does not stay pending once its token has run out,
\* even when clients keep completing it.
TimeoutResolves ==
    \A s \in Sessions :
        tier[s] \in {"LOW", "MODERATE"} /\ expiresAt[s] <= now ~> outcome[s] # "PENDING"

\* Clients keep completing every session that exists.
PersistentSpec ==
    FairSpec /\ \A s \in Sessions :
                   SF_vars(\E w \in Workers, r \in Requests : Fetch(w, s, r))

\* "26-50: push plus hardware biometric", "51-100: exact amount/currency, biometric,
\* confirmation swipe" (docs/blueprint-alignment.md:8-9): whatever outcome a
\* completion reports, it approves a session only with its tier's evidence.
EvidenceDemanded ==
    \A s \in Sessions : \A a \in approvals[s] : Required(tier[s]) \subseteq a.request.evidence

\* "the one-use token" (auth_orchestration/main.py:39): a session settled with its
\* token keeps that outcome, no second completion overrides it.
SettledOnce ==
    [][\A s \in Sessions : outcome[s] # "PENDING" => outcome'[s] = outcome[s]]_vars

-----------------------------------------------------------------------------
\* A session is shown to its callers as pending until the worker that settles
\* it has made its last store; nothing is shown of a contested one.
Unsettled(s) == \E w \in Workers : Active(w, s) /\ pc[w] \in Writing
Hidden(s) == Unsettled(s) \/ Contested(s)

Lifecycle == INSTANCE VerificationLifecycle WITH
    outcome    <- [s \in Sessions |-> IF Hidden(s) THEN "PENDING" ELSE outcome[s]],
    lock       <- [s \in Sessions |-> ~ Hidden(s) /\ lock[s]],
    escalation <- [s \in Sessions |-> ~ Hidden(s) /\ escalation[s]]

\* Whichever workers serve it, one after the other, a session goes through the
\* one-shot lifecycle (complete_session as a whole); a second completion that
\* overlaps the first ends what is promised, and no other one does.
ImplementsLifecycle == Lifecycle!Spec

=============================================================================
