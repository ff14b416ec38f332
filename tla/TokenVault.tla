---------------------------- MODULE TokenVault ----------------------------
(***************************************************************************)
(* services/token_vault: the life of virtual card numbers.                 *)
(*                                                                         *)
(* The repository maps a token id to a mutable TokenRecord.  A consumption *)
(* works on the record it fetched, step by step and without a lock, while  *)
(* other threads consume the same record or a creation replaces it.        *)
(* Validation of a dCVV (validate_dcvv) only reads and is left out; no     *)
(* operation of the service stores REVOKED.                                *)
(***************************************************************************)
EXTENDS Naturals, FiniteSets

CONSTANTS
    Tokens,     \* token identifiers, chosen by the callers
    Records,    \* TokenRecord objects that may be allocated
    Threads,    \* threads of the server's pool
    Limits,     \* values of max_uses, NoLimit for None
    MaxClock,   \* bound on the clock
    MaxGrants   \* bound on the consumptions of one record

NoLimit == 0    \* max_uses is at least 1 when given

CONSTANT NoRecord    \* no record

ASSUME LimitsAssumption == Limits \subseteq Nat
ASSUME ThreadsAssumption == IsFiniteSet(Threads)
ASSUME BoundsAssumption == MaxClock \in Nat /\ MaxGrants \in Nat
ASSUME NoRecordAssumption == NoRecord \notin Records

VARIABLES
    clock,      \* the wall clock
    vault,      \* vault[t]: the record stored for token t
    allocated,  \* records that exist
    limit,      \* limit[r], validUntil[r]: fixed when r is created
    validUntil,
    uses,       \* uses[r], status[r]: the fields consumptions write
    status,
    phase,      \* phase[w]: the next step of thread w
    token,      \* token[w]: the token it consumes
    held,       \* held[w]: the record it fetched
    local,      \* local[w]: the count it read
    granted,    \* history: granted[r] consumptions of r passed is_usable,
    consumers   \*    and consumers[r] are the threads they were granted to

record == <<allocated, limit, validUntil, uses, status>>
grantHistory == <<granted, consumers>>
vaultVars == <<clock, vault, record, phase, token, held, local, grantHistory>>

-----------------------------------------------------------------------------
Counting == {"admitted", "usesRead"}
Closing  == {"usesStored", "exhausting"}
VaultStep == {"idle", "fetched", "active", "saving"} \cup Counting \cup Closing

VaultTypeOK ==
    /\ clock \in 0..MaxClock
    /\ vault \in [Tokens -> Records \cup {NoRecord}]
    /\ allocated \subseteq Records
    /\ limit \in [Records -> Nat] /\ validUntil \in [Records -> Nat]
    /\ uses \in [Records -> Nat] /\ granted \in [Records -> Nat]
    /\ consumers \in [Records -> SUBSET Threads]
    /\ status \in [Records -> {"ACTIVE", "EXHAUSTED"}]
    /\ phase \in [Threads -> VaultStep]
    /\ token \in [Threads -> Tokens \cup {NoRecord}]
    /\ held \in [Threads -> Records \cup {NoRecord}]
    /\ local \in [Threads -> Nat]

VaultInit ==
    /\ clock = 0
    /\ vault = [t \in Tokens |-> NoRecord]
    /\ allocated = {}
    /\ limit = [r \in Records |-> NoLimit] /\ validUntil = [r \in Records |-> 0]
    /\ uses = [r \in Records |-> 0] /\ granted = [r \in Records |-> 0]
    /\ consumers = [r \in Records |-> {}]
    /\ status = [r \in Records |-> "ACTIVE"]
    /\ phase = [w \in Threads |-> "idle"]
    /\ token = [w \in Threads |-> NoRecord]
    /\ held = [w \in Threads |-> NoRecord]
    /\ local = [w \in Threads |-> 0]

-----------------------------------------------------------------------------
Limited(r) == limit[r] # NoLimit
\* Variant: the limit is noticed one use late.
LateUsedUp(r) == Limited(r) /\ uses[r] > limit[r]

\* The comparison of uses with max_uses, in is_usable and in consume.
UsedUp(r) == Limited(r) /\ uses[r] >= limit[r]

\* POST /tokens: the new record replaces the one the id had, if any.
Create(t, r, max, expires) ==
    /\ r \notin allocated
    /\ allocated' = allocated \cup {r}
    /\ limit' = [limit EXCEPT ![r] = max]
    /\ validUntil' = [validUntil EXCEPT ![r] = expires]
    /\ vault' = [vault EXCEPT ![t] = r]
    /\ UNCHANGED <<clock, uses, status, phase, token, held, local, grantHistory>>

\* POST /tokens/{id}/consume looks the record up; an unknown id is a 404.
FetchToken(w, t) ==
    /\ phase[w] = "idle"
    /\ vault[t] # NoRecord
    /\ phase' = [phase EXCEPT ![w] = "fetched"]
    /\ token' = [token EXCEPT ![w] = t]
    /\ held' = [held EXCEPT ![w] = vault[t]]
    /\ UNCHANGED <<clock, vault, record, local, grantHistory>>

\* What is_usable looks at before it reads the count of uses.
Open(r) == status[r] = "ACTIVE" /\ validUntil[r] > clock

CheckStatus(w) ==
    /\ phase[w] = "fetched"
    /\ Open(held[w])
    /\ phase' = [phase EXCEPT ![w] = "active"]
    /\ UNCHANGED <<clock, vault, record, token, held, local, grantHistory>>

\* The last conjunct of is_usable.  MaxGrants bounds the model, not the service.
AdmitUse(w) ==
    LET r == held[w] IN
    /\ phase[w] = "active"
    /\ ~ UsedUp(r)
    /\ granted[r] < MaxGrants
    /\ phase' = [phase EXCEPT ![w] = "admitted"]
    /\ granted' = [granted EXCEPT ![r] = @ + 1]
    /\ consumers' = [consumers EXCEPT ![r] = @ \cup {w}]
    /\ UNCHANGED <<clock, vault, record, token, held, local>>

\* What a thread forgets when its request has been answered.
Answered(w) ==
    /\ phase' = [phase EXCEPT ![w] = "idle"]
    /\ token' = [token EXCEPT ![w] = NoRecord]
    /\ held' = [held EXCEPT ![w] = NoRecord]
    /\ local' = [local EXCEPT ![w] = 0]

RefuseUse(w) ==
    /\ \/ phase[w] = "fetched" /\ ~ Open(held[w])
       \/ phase[w] = "active" /\ UsedUp(held[w])
    /\ Answered(w)
    /\ UNCHANGED <<clock, vault, record, grantHistory>>

\* token.uses += 1 is a read and, in a __setattr__ of its own, a store.
ReadUses(w) ==
    /\ phase[w] = "admitted"
    /\ phase' = [phase EXCEPT ![w] = "usesRead"]
    /\ local' = [local EXCEPT ![w] = uses[held[w]]]
    /\ UNCHANGED <<clock, vault, record, token, held, grantHistory>>

StoreUses(w) ==
    /\ phase[w] = "usesRead"
    /\ phase' = [phase EXCEPT ![w] = "usesStored"]
    /\ uses' = [uses EXCEPT ![held[w]] = local[w] + 1]
    /\ UNCHANGED <<clock, vault, allocated, limit, validUntil, status, token, held, local, grantHistory>>

\* Variant: the comparison uses the count from before the increment.
TestLimitEarly(w) ==
    /\ phase[w] = "usesStored"
    /\ phase' = [phase EXCEPT ![w] = IF Limited(held[w]) /\ local[w] >= limit[held[w]]
                               THEN "exhausting" ELSE "saving"]
    /\ UNCHANGED <<clock, vault, record, token, held, local, grantHistory>>

\* The limit is tested against the shared count, not against the thread's.
TestLimit(w) ==
    /\ phase[w] = "usesStored"
    /\ phase' = [phase EXCEPT ![w] = IF UsedUp(held[w]) THEN "exhausting" ELSE "saving"]
    /\ UNCHANGED <<clock, vault, record, token, held, local, grantHistory>>

Exhaust(w) ==
    /\ phase[w] = "exhausting"
    /\ phase' = [phase EXCEPT ![w] = "saving"]
    /\ status' = [status EXCEPT ![held[w]] = "EXHAUSTED"]
    /\ UNCHANGED <<clock, vault, allocated, limit, validUntil, uses, token, held, local, grantHistory>>

\* repository.save puts the record held back under its id, over a record
\* created since.
Save(w) ==
    /\ phase[w] = "saving"
    /\ vault' = [vault EXCEPT ![token[w]] = held[w]]
    /\ Answered(w)
    /\ UNCHANGED <<clock, record, grantHistory>>

VaultTick ==
    /\ clock < MaxClock
    /\ clock' = clock + 1
    /\ UNCHANGED <<vault, record, phase, token, held, local, grantHistory>>

Consume(w) ==
    \/ CheckStatus(w) \/ AdmitUse(w) \/ RefuseUse(w) \/ ReadUses(w) \/ StoreUses(w)
    \/ TestLimit(w) \/ Exhaust(w) \/ Save(w)

VaultNext ==
    \/ \E t \in Tokens, r \in Records, max \in Limits, expires \in 0..MaxClock :
          Create(t, r, max, expires)
    \/ \E w \in Threads, t \in Tokens : FetchToken(w, t)
    \/ \E w \in Threads : Consume(w)
    \/ VaultTick

VaultSpec == VaultInit /\ [][VaultNext]_vaultVars

-----------------------------------------------------------------------------
\* A record is EXHAUSTED only after as many consumptions as its limit allows
\* were granted, and its count never runs ahead of them: increments can be lost
\* but not invented (consume).
ExhaustedEarned ==
    \A r \in Records :
        /\ uses[r] <= granted[r]
        /\ status[r] = "EXHAUSTED" => Limited(r) /\ granted[r] >= limit[r]

\* Whoever stores the count that reaches the limit, the record ends EXHAUSTED:
\* a used-up record is ACTIVE only while some thread is still closing it.
UsedUpCloses ==
    \A r \in Records :
        UsedUp(r) => \/ status[r] = "EXHAUSTED"
                     \/ \E w \in Threads : held[w] = r /\ phase[w] \in Closing

\* A record that a single thread ever consumed is never consumed more often
\* than its limit allows: "Consume one use, rejecting expired, revoked, or
\* exhausted tokens" (service.py:86) holds of threads that do not meet.
SoleConsumerLimited ==
    \A r \in Records :
        (\A v, w \in consumers[r] : v = w) /\ Limited(r) => granted[r] <= limit[r]

\* However consumptions overlap, the status follows the uses in both
\* directions: no record is exhausted early, and none stays open for good.
UsesCounted == ExhaustedEarned /\ UsedUpCloses
=============================================================================
