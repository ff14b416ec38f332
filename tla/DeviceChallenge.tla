--------------------------- MODULE DeviceChallenge ---------------------------
(***************************************************************************)
(* services/device_integrity: challenges and their attestation.            *)
(*                                                                         *)
(* A challenge is bound to a device, a platform and a nonce, expires, and  *)
(* is consumed by the first attestation that is answered.  An attestation  *)
(* fetches the shared record, tests its consumed flag and sets the flag    *)
(* only when it answers, after the call of the platform's attestation      *)
(* provider, so attestations on several threads may overlap.               *)
(***************************************************************************)
EXTENDS Naturals

CONSTANTS
    Challenges,     \* challenge ids; issue_challenge draws fresh ones
    Bindings,       \* pairs of a device and a platform
    Nonces,
    Workers,        \* threads of the server's pool
    MaxTime,        \* bound on the clock
    Nothing         \* no challenge, no request, no answer

ASSUME TimeAssumption == MaxTime \in Nat

Challenge == [binding : Bindings, nonce : Nonces, expires : 0..MaxTime]
Request == [id : Challenges, binding : Bindings, nonce : Nonces]
Refusal == {"NOT_FOUND", "REPLAYED", "EXPIRED", "BINDING_MISMATCH", "NONCE_MISMATCH"}
\* What a provider reports: a verdict on the device, or that it has none.
Report == {"TRUSTED", "UNTRUSTED", "PROVIDER_UNAVAILABLE"}
Verified == {"TRUSTED", "UNTRUSTED"}

ASSUME NothingAssumption ==
    /\ Nothing \notin Challenge \cup Request
    /\ Nothing \notin Refusal \cup Report \cup {"ERROR"}

VARIABLES
    now,        \* the wall clock
    challenges, \* the repository: the challenge of an id, or Nothing
    consumed,   \* the flag of the challenge's record
    pc,         \* pc[w]: the next step of worker w
    request,    \* the attestation it works on
    report,     \* what the provider returned to it
    answer,     \* its last answer; "ERROR" when the provider raised
    late,       \* history: late[w], an answer was given before it tested the flag
    decided     \* history: decided[c][w], how often w answered about c

repository == <<challenges, consumed>>
history == <<late, decided>>
vars == <<now, repository, pc, request, report, answer, history>>

TypeOK ==
    /\ now \in 0..MaxTime
    /\ challenges \in [Challenges -> Challenge \cup {Nothing}]
    /\ consumed \in [Challenges -> BOOLEAN]
    /\ pc \in [Workers -> {"idle", "fetched", "unconsumed", "reported"}]
    /\ request \in [Workers -> Request \cup {Nothing}]
    /\ report \in [Workers -> Report \cup {Nothing}]
    /\ answer \in [Workers -> Refusal \cup Report \cup {"ERROR", Nothing}]
    /\ late \in [Workers -> BOOLEAN]
    /\ decided \in [Challenges -> [Workers -> Nat]]

Init ==
    /\ now = 0
    /\ challenges = [c \in Challenges |-> Nothing]
    /\ consumed = [c \in Challenges |-> FALSE]
    /\ pc = [w \in Workers |-> "idle"]
    /\ request = [w \in Workers |-> Nothing]
    /\ report = [w \in Workers |-> Nothing]
    /\ answer = [w \in Workers |-> Nothing]
    /\ late = [w \in Workers |-> FALSE]
    /\ decided = [c \in Challenges |-> [w \in Workers |-> 0]]

-----------------------------------------------------------------------------
ChallengeOf(w) == challenges[request[w].id]
Expired(w) == ChallengeOf(w).expires <= now
BoundTo(w) == ChallengeOf(w).binding = request[w].binding
SameNonce(w) == ChallengeOf(w).nonce = request[w].nonce

\* issue_challenge: the time to live is at least a second.
IssueChallenge(c, binding, nonce, expires) ==
    /\ challenges[c] = Nothing
    /\ expires > now
    /\ challenges' = [challenges EXCEPT ![c] =
                         [binding |-> binding, nonce |-> nonce, expires |-> expires]]
    /\ UNCHANGED <<now, consumed, pc, request, report, answer, history>>

\* verify_attestation: an unknown id is answered at once.
Fetch(w, r) ==
    /\ pc[w] = "idle"
    /\ request' = [request EXCEPT ![w] = r]
    /\ report' = [report EXCEPT ![w] = Nothing]
    /\ late' = [late EXCEPT ![w] = consumed[r.id]]
    /\ IF challenges[r.id] = Nothing
       THEN answer' = [answer EXCEPT ![w] = "NOT_FOUND"] /\ UNCHANGED pc
       ELSE answer' = [answer EXCEPT ![w] = Nothing] /\ pc' = [pc EXCEPT ![w] = "fetched"]
    /\ UNCHANGED <<now, repository, decided>>

Answer(w, reason) ==
    /\ pc' = [pc EXCEPT ![w] = "idle"]
    /\ answer' = [answer EXCEPT ![w] = reason]

RefuseReplay(w) ==
    /\ pc[w] = "fetched"
    /\ consumed[request[w].id]
    /\ Answer(w, "REPLAYED")
    /\ UNCHANGED <<now, repository, request, report, history>>

\* Variant: the flag is set but never tested.
AdmitAny(w) ==
    /\ pc[w] = "fetched"
    /\ pc' = [pc EXCEPT ![w] = "unconsumed"]
    /\ UNCHANGED <<now, repository, request, report, answer, history>>

Admit(w) ==
    /\ pc[w] = "fetched"
    /\ ~ consumed[request[w].id]
    /\ pc' = [pc EXCEPT ![w] = "unconsumed"]
    /\ UNCHANGED <<now, repository, request, report, answer, history>>

\* Every answer about an unconsumed challenge consumes it, also to those who
\* have fetched its record and not tested the flag yet.
Decide(w, reason) ==
    /\ consumed' = [consumed EXCEPT ![request[w].id] = TRUE]
    /\ decided' = [decided EXCEPT ![request[w].id][w] = @ + 1]
    /\ late' = [v \in Workers |->
                   late[v] \/ (pc[v] = "fetched" /\ request[v].id = request[w].id)]
    /\ Answer(w, reason)
    /\ UNCHANGED <<now, challenges, request, report>>

RefuseExpired(w) ==
    /\ pc[w] = "unconsumed"
    /\ Expired(w)
    /\ Decide(w, "EXPIRED")

RefuseBinding(w) ==
    /\ pc[w] = "unconsumed"
    /\ ~ Expired(w) /\ ~ BoundTo(w)
    /\ Decide(w, "BINDING_MISMATCH")

RefuseNonce(w) ==
    /\ pc[w] = "unconsumed"
    /\ ~ Expired(w) /\ BoundTo(w) /\ ~ SameNonce(w)
    /\ Decide(w, "NONCE_MISMATCH")

\* Variant: the provider is asked before the nonce is compared.
AskWithoutNonce(w, result) ==
    /\ pc[w] = "unconsumed"
    /\ ~ Expired(w) /\ BoundTo(w)
    /\ pc' = [pc EXCEPT ![w] = "reported"]
    /\ report' = [report EXCEPT ![w] = result]
    /\ UNCHANGED <<now, repository, request, answer, history>>

\* provider.verify: the test adapter reads its report off the token.
AskProvider(w, result) ==
    /\ pc[w] = "unconsumed"
    /\ ~ Expired(w) /\ BoundTo(w) /\ SameNonce(w)
    /\ pc' = [pc EXCEPT ![w] = "reported"]
    /\ report' = [report EXCEPT ![w] = result]
    /\ UNCHANGED <<now, repository, request, answer, history>>

\* A provider that calls Apple or Google may raise: nothing is consumed.
ProviderRaises(w) ==
    /\ pc[w] = "unconsumed"
    /\ ~ Expired(w) /\ BoundTo(w) /\ SameNonce(w)
    /\ Answer(w, "ERROR")
    /\ UNCHANGED <<now, repository, request, report, history>>

AnswerReport(w) ==
    /\ pc[w] = "reported"
    /\ Decide(w, report[w])

Tick ==
    /\ now < MaxTime
    /\ now' = now + 1
    /\ UNCHANGED <<repository, pc, request, report, answer, history>>

Attest(w) ==
    \/ RefuseReplay(w) \/ Admit(w)
    \/ RefuseExpired(w) \/ RefuseBinding(w) \/ RefuseNonce(w)
    \/ \E result \in Report : AskProvider(w, result)
    \/ ProviderRaises(w) \/ AnswerReport(w)

Next ==
    \/ \E c \in Challenges, b \in Bindings, n \in Nonces, expires \in 1..MaxTime :
          IssueChallenge(c, b, n, expires)
    \/ \E w \in Workers, r \in Request : Fetch(w, r)
    \/ \E w \in Workers : Attest(w)
    \/ Tick

Spec == Init /\ [][Next]_vars

-----------------------------------------------------------------------------
\* Overlapping attestations may each be answered, but no thread gets a second
\* guess: whatever was wrong with its request, and whatever the others did in
\* between, a worker decides about a challenge at most once (verify_attestation).
DecidedOnce == \A c \in Challenges, w \in Workers : decided[c][w] <= 1

\* An attestation that tests the flag after another was answered is refused as
\* a replay, also when it fetched the record before the flag was set: the
\* repository hands out the shared record, not a copy of it.  A provider that
\* raised is not an answer, so the challenge stays usable.
ReplayRefused ==
    \A w \in Workers :
        /\ late[w] => pc[w] \in {"idle", "fetched"} /\ answer[w] \in {"REPLAYED", Nothing}
        /\ request[w] # Nothing /\ answer[w] \in Report \cup {"EXPIRED", "BINDING_MISMATCH", "NONCE_MISMATCH"}
              => consumed[request[w].id]

\* A device is called trusted or untrusted only on the challenge's own binding
\* and nonce, and then the challenge is spent; a challenge is spent only by an
\* answer about it.
VerdictsBound ==
    /\ \A w \in Workers : answer[w] \in Verified =>
          BoundTo(w) /\ SameNonce(w) /\ consumed[request[w].id]
    /\ \A c \in Challenges : consumed[c] => \E w \in Workers : decided[c][w] > 0

\* Every verdict is a worker's only one on the challenge, and rests on the
\* device that was challenged.
VerdictsEarned == DecidedOnce /\ VerdictsBound
=============================================================================
