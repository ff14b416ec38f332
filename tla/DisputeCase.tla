----------------------------- MODULE DisputeCase -----------------------------
(***************************************************************************)
(* The dispute engine: chargeback cases opened under an idempotency key,   *)
(* moved along a transition table, and documented with evidence.  The      *)
(* handlers run on a thread pool over three dictionaries without a lock,   *)
(* so a handler is a sequence of steps, one per access to a dictionary,    *)
(* and the handlers of two workers interleave.  A request that is answered *)
(* from what the first step reads, or refused by it, changes nothing and   *)
(* is a stuttering step: the guards below are the code's early returns.    *)
(***************************************************************************)
EXTENDS Naturals

CONSTANTS
    Agents,    \* threads of the pool, each serving one request at a time
    Disputes,   \* dispute identifiers
    Keys,       \* idempotency keys
    Items,      \* evidence identifiers
    NoCase     \* what a dictionary gives for an absent key

Status == {"OPENED", "REPRESENTED", "ACCEPTED", "REVERSED", "EXPIRED"}

ASSUME NoCaseIsAbsence == NoCase \notin Disputes \cup Status

VARIABLES
    cases,      \* cases[d]: the status of case d, or NoCase
    openedUnder, \* openedUnder[k]: the dispute opened under key k, or NoCase
    evidence,   \* evidence[e]: the dispute item e documents, or NoCase
    stage,      \* stage[w]: the next dictionary access of the request w serves
    req,        \* req[w]: the parameters of that request
    seen,       \* seen[w]: the status a transition read
    answerable, \* history: the disputes that were once represented or accepted
    stored      \* history: <<w, k, d>> when w stored a new case d under k

shared == <<cases, openedUnder, evidence>>
disputeVars == <<shared, stage, req, seen, answerable, stored>>

Answerable == {"REPRESENTED", "ACCEPTED"}

(* Variant: an opened case may be reversed at once. *)
ShortSuccessors ==
    [OPENED      |-> {"REPRESENTED", "ACCEPTED", "REVERSED", "EXPIRED"},
     REPRESENTED |-> {"ACCEPTED", "REVERSED", "EXPIRED"},
     ACCEPTED    |-> {"REVERSED", "EXPIRED"},
     REVERSED    |-> {},
     EXPIRED     |-> {}]

(* Where a case may go from each status. *)
Successors ==
    [OPENED      |-> {"REPRESENTED", "ACCEPTED", "EXPIRED"},
     REPRESENTED |-> {"ACCEPTED", "REVERSED", "EXPIRED"},
     ACCEPTED    |-> {"REVERSED", "EXPIRED"},
     REVERSED    |-> {},
     EXPIRED     |-> {}]

NoRequest == [op |-> "none"]
DisputeRequest ==
    [op : {"create"}, dispute : Disputes, key : Keys, status : Status]
        \cup [op : {"transition"}, dispute : Disputes, status : Status]
        \cup [op : {"evidence"}, dispute : Disputes, item : Items]

PcOf == [create     |-> {"check", "store", "key"},
         transition |-> {"save"},
         evidence   |-> {"file"}]

DisputeInit ==
    /\ cases = [d \in Disputes |-> NoCase]
    /\ openedUnder = [k \in Keys |-> NoCase]
    /\ evidence = [e \in Items |-> NoCase]
    /\ stage = [w \in Agents |-> "idle"]
    /\ req = [w \in Agents |-> NoRequest]
    /\ seen = [w \in Agents |-> NoCase]
    /\ answerable = {}
    /\ stored = {}

(* Worker w goes on to its next access, or answers and is idle again. *)
NextAccess(w, next) ==
    /\ stage' = [stage EXCEPT ![w] = next]
    /\ UNCHANGED <<req, seen>>

AnswerDispute(w) ==
    /\ stage' = [stage EXCEPT ![w] = "idle"]
    /\ req' = [req EXCEPT ![w] = NoRequest]
    /\ seen' = [seen EXCEPT ![w] = NoCase]

-----------------------------------------------------------------------------
(* create: the key is looked up, then the identifier and the status are    *)
(* checked, then the case and its key are stored one after the other.      *)

LookUpKey(w, r) ==
    /\ stage[w] = "idle"
    /\ r.op = "create"
    /\ openedUnder[r.key] = NoCase
    /\ stage' = [stage EXCEPT ![w] = "check"]
    /\ req' = [req EXCEPT ![w] = r]
    /\ UNCHANGED <<shared, seen, answerable, stored>>

CheckNew(w) ==
    /\ stage[w] = "check"
    /\ IF cases[req[w].dispute] = NoCase /\ req[w].status = "OPENED"
         THEN NextAccess(w, "store")
         ELSE AnswerDispute(w)
    /\ UNCHANGED <<shared, answerable, stored>>

StoreCase(w) ==
    LET d == req[w].dispute IN
    /\ stage[w] = "store"
    /\ cases' = [cases EXCEPT ![d] = req[w].status]
    /\ stored' = stored \cup {<<w, req[w].key, d>>}
    /\ NextAccess(w, "key")
    /\ UNCHANGED <<openedUnder, evidence, answerable>>

(* Variant: the key is not remembered. *)
ForgetKey(w) ==
    /\ stage[w] = "key"
    /\ AnswerDispute(w)
    /\ UNCHANGED <<shared, answerable, stored>>

StoreKey(w) ==
    /\ stage[w] = "key"
    /\ openedUnder' = [openedUnder EXCEPT ![req[w].key] = req[w].dispute]
    /\ AnswerDispute(w)
    /\ UNCHANGED <<cases, evidence, answerable, stored>>

-----------------------------------------------------------------------------
(* transition: the case is read and the table consulted, then an updated   *)
(* copy of the case that was read is stored.                               *)

(* Variant: the table is not consulted. *)
ReadUnchecked(w, r) ==
    /\ stage[w] = "idle"
    /\ r.op = "transition"
    /\ cases[r.dispute] # NoCase
    /\ r.status # cases[r.dispute]
    /\ stage' = [stage EXCEPT ![w] = "save"]
    /\ req' = [req EXCEPT ![w] = r]
    /\ seen' = [seen EXCEPT ![w] = cases[r.dispute]]
    /\ UNCHANGED <<shared, answerable, stored>>

ReadCase(w, r) ==
    /\ stage[w] = "idle"
    /\ r.op = "transition"
    /\ cases[r.dispute] # NoCase
    /\ r.status \in Successors[cases[r.dispute]]
    /\ stage' = [stage EXCEPT ![w] = "save"]
    /\ req' = [req EXCEPT ![w] = r]
    /\ seen' = [seen EXCEPT ![w] = cases[r.dispute]]
    /\ UNCHANGED <<shared, answerable, stored>>

SaveCase(w) ==
    LET d == req[w].dispute IN
    /\ stage[w] = "save"
    /\ cases' = [cases EXCEPT ![d] = req[w].status]
    /\ answerable' = answerable \cup {x \in {d} : req[w].status \in Answerable}
    /\ AnswerDispute(w)
    /\ UNCHANGED <<openedUnder, evidence, stored>>

-----------------------------------------------------------------------------
(* add_evidence: the case must exist and the item be new.  Cases are never *)
(* removed, so the two reads count as one step.                            *)

FindItem(w, r) ==
    /\ stage[w] = "idle"
    /\ r.op = "evidence"
    /\ cases[r.dispute] # NoCase
    /\ evidence[r.item] = NoCase
    /\ stage' = [stage EXCEPT ![w] = "file"]
    /\ req' = [req EXCEPT ![w] = r]
    /\ UNCHANGED <<shared, seen, answerable, stored>>

FileItem(w) ==
    /\ stage[w] = "file"
    /\ evidence' = [evidence EXCEPT ![req[w].item] = req[w].dispute]
    /\ AnswerDispute(w)
    /\ UNCHANGED <<cases, openedUnder, answerable, stored>>

-----------------------------------------------------------------------------
Begin(w) == \E r \in DisputeRequest : LookUpKey(w, r) \/ ReadCase(w, r) \/ FindItem(w, r)

DisputeNext ==
    \E w \in Agents :
        \/ Begin(w)
        \/ CheckNew(w) \/ StoreCase(w) \/ StoreKey(w)
        \/ SaveCase(w)
        \/ FileItem(w)

DisputeSpec == DisputeInit /\ [][DisputeNext]_disputeVars

-----------------------------------------------------------------------------
(* Every variable has its type, and a worker's place in its handler fits   *)
(* the request it serves.                                                  *)
DisputeTypeOK ==
    /\ cases \in [Disputes -> Status \cup {NoCase}]
    /\ openedUnder \in [Keys -> Disputes \cup {NoCase}]
    /\ evidence \in [Items -> Disputes \cup {NoCase}]
    /\ stage \in [Agents -> {"idle", "check", "store", "key", "save", "file"}]
    /\ req \in [Agents -> DisputeRequest \cup {NoRequest}]
    /\ seen \in [Agents -> Status \cup {NoCase}]
    /\ answerable \subseteq Disputes
    /\ stored \subseteq Agents \X Keys \X Disputes
    /\ \A w \in Agents :
         /\ stage[w] = "idle" <=> req[w] = NoRequest
         /\ stage[w] # "idle" => stage[w] \in PcOf[req[w].op]
         /\ stage[w] = "save" <=> seen[w] # NoCase

(* A key names a case that exists, and an item documents one: create may   *)
(* answer with cases[existing_id] without a check, and evidence_for never  *)
(* lists an item of no case.                                               *)
NamesResolve ==
    /\ \A k \in Keys : openedUnder[k] # NoCase => cases[openedUnder[k]] # NoCase
    /\ \A e \in Items : evidence[e] # NoCase => cases[evidence[e]] # NoCase

(* Whatever the interleaving, money is reversed only on a case that was    *)
(* once represented or accepted: the table has no shorter way to REVERSED. *)
ReversalEarned == \A d \in Disputes : cases[d] = "REVERSED" => d \in answerable

(* Whoever opened s is alone with its key, or with its dispute. *)
AloneWithKey(s) == \A u \in stored : u[2] = s[2] => u[1] = s[1]
AloneWithDispute(s) == \A u \in stored : u[3] = s[3] => u[1] = s[1]
StoringKey(s) == stage[s[1]] = "key" /\ req[s[1]].key = s[2]

(* Idempotent opening: as long as one worker opened the cases of a key,    *)
(* there is one of them, and once the key is stored it leads to it;        *)
(* as long as one worker opened a case, it did so once.  (Two workers can  *)
(* both miss the key, or both find the identifier free.)                   *)
OpenedOnce ==
    \A s \in stored :
        /\ AloneWithKey(s) =>
               /\ \A t \in stored : t[2] = s[2] => t = s
               /\ ~ StoringKey(s) => openedUnder[s[2]] = s[3]
        /\ AloneWithDispute(s) => \A t \in stored : t[3] = s[3] => t = s

(* What a client is told of a key stays true: it leads to a case, and to   *)
(* the one case opened under it unless two workers raced.                  *)
KeysHonoured == NamesResolve /\ OpenedOnce

(* A step moves a case off the transition table only when its worker       *)
(* decided on an older state of the case: it read another status, or found *)
(* no case, before the case got the status it replaces.  In particular a   *)
(* REVERSED or EXPIRED case is never moved by a request that saw it so.    *)
MoveLegal ==
    \A d \in Disputes :
        cases[d] # NoCase /\ cases'[d] # cases[d] =>
            \/ cases'[d] \in Successors[cases[d]]
            \/ \E w \in Agents :
                 /\ stage[w] \in {"store", "save"} /\ req[w].dispute = d
                 /\ seen[w] # cases[d]

MovesLegal == [][MoveLegal]_disputeVars
=============================================================================
