------------------------------ MODULE AuditTrail ------------------------------
(***************************************************************************)
(* services/audit_store: the events and the states of transactions.        *)
(*                                                                         *)
(* Events are only appended, each after a walk that looks for its id; the  *)
(* walk and the append are steps of their own, so recorders overlap.  A    *)
(* state is replaced as a whole.  Evidence of language models is appended  *)
(* to a list of its own that no endpoint reaches, and is left out.         *)
(***************************************************************************)
EXTENDS Naturals, Sequences, FiniteSets

CONSTANTS
    Recorders,      \* threads of the server's pool
    EventIds,       \* ids, chosen by the clients
    TransactionIds,
    States,
    MaxEvents,      \* bound on the events recorded
    Absent          \* no event, no state

AuditEvent == [id : EventIds, transaction : TransactionIds]

ASSUME AuditAssumption ==
    /\ IsFiniteSet(Recorders) /\ MaxEvents \in Nat
    /\ Absent \notin AuditEvent \cup States

VARIABLES
    events,     \* the list, oldest first
    states,     \* the state of a transaction, or Absent
    passed,     \* passed[r]: the event r found no record of, or Absent
    filed       \* history: filed[r], the ids r has recorded, in order

audit == <<events, states, passed, filed>>

AuditInit ==
    /\ events = <<>>
    /\ states = [t \in TransactionIds |-> Absent]
    /\ passed = [r \in Recorders |-> Absent]
    /\ filed = [r \in Recorders |-> <<>>]

Known(id) == \E i \in DOMAIN events : events[i].id = id

\* Variant: what is recorded already is not looked for.
PassAny(r, e) ==
    /\ passed[r] = Absent
    /\ passed' = [passed EXCEPT ![r] = e]
    /\ UNCHANGED <<events, states, filed>>

\* The walk sees what others append before it ends; a known id answers 409
\* and changes nothing.
LookForEvent(r, e) ==
    /\ passed[r] = Absent
    /\ ~ Known(e.id)
    /\ passed' = [passed EXCEPT ![r] = e]
    /\ UNCHANGED <<events, states, filed>>

RecordEvent(r) ==
    /\ passed[r] # Absent /\ Len(events) < MaxEvents
    /\ events' = Append(events, passed[r])
    /\ filed' = [filed EXCEPT ![r] = Append(@, passed[r].id)]
    /\ passed' = [passed EXCEPT ![r] = Absent]
    /\ UNCHANGED states

\* A body about another transaction than the path's answers 400.
SaveState(path, t, s) ==
    /\ path = t
    /\ states' = [states EXCEPT ![t] = s]
    /\ UNCHANGED <<events, passed, filed>>

AuditNext ==
    \/ \E r \in Recorders, e \in AuditEvent : LookForEvent(r, e)
    \/ \E r \in Recorders : RecordEvent(r)
    \/ \E path, t \in TransactionIds, s \in States : SaveState(path, t, s)

AuditSpec == AuditInit /\ [][AuditNext]_audit

-----------------------------------------------------------------------------
\* "Audit event already exists" (audit_store/service.py:67): recorders that
\* overlap may record an id once each, but none records it twice, whatever
\* transaction the event is about, and who is still to record it counts too: a
\* retry that comes when the id is recorded is always refused (record_event).
EventsDistinct ==
    /\ \A r \in Recorders, i, j \in 1..MaxEvents :
          {i, j} \subseteq DOMAIN filed[r] /\ filed[r][i] = filed[r][j] => i = j
    /\ \A id \in EventIds :
          LET recorded == {i \in DOMAIN events : events[i].id = id}
              passing == {r \in Recorders : passed[r] # Absent /\ passed[r].id = id}
          IN  Cardinality(recorded) + Cardinality(passing) <= Cardinality(Recorders)
=============================================================================
