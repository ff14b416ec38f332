---------------------------- MODULE Services_proofs ----------------------------
(***************************************************************************)
(* Theorems about the services MCServices loads: the audit store, the      *)
(* portals, the observation window of the monitor and the attestations of  *)
(* devices, for any threads, data and bounds.                              *)
(***************************************************************************)
EXTENDS AuditTrail, PortalAccess, ObservationWindow, DeviceChallenge, FiniteSetTheorems, WellFoundedInduction, TLAPS

(***************************************************************************)
(* The audit store.  That the copies of an id are no more than the         *)
(* recorders is not inductive by itself: the invariant adds that an id was *)
(* recorded as often as there are recorders who filed it, that what is     *)
(* filed is known, so that whoever filed it is refused from then on, and   *)
(* that who is still to record an id has not filed it.                     *)
(***************************************************************************)
Recorded(id) == {i \in DOMAIN events : events[i].id = id}
Filers(id) == {r \in Recorders : \E i \in DOMAIN filed[r] : filed[r][i] = id}
Passing(id) == {r \in Recorders : passed[r] # Absent /\ passed[r].id = id}

AuditTypeOK ==
    /\ events \in Seq(AuditEvent)
    /\ passed \in [Recorders -> AuditEvent \cup {Absent}]
    /\ filed \in [Recorders -> Seq(EventIds)]

\* No recorder files an id twice, nor one it has still to record.
FiledOnce ==
    \A r \in Recorders :
        /\ \A i, j \in DOMAIN filed[r] : filed[r][i] = filed[r][j] => i = j
        /\ passed[r] # Absent => r \notin Filers(passed[r].id)

\* An id stands in the list once for each who filed it.
FiledCounted ==
    \A id \in EventIds :
        /\ IsFiniteSet(Recorded(id))
        /\ Cardinality(Recorded(id)) = Cardinality(Filers(id))

AuditInv == AuditTypeOK /\ FiledOnce /\ FiledCounted

-----------------------------------------------------------------------------
LEMMA FilersFinite ==
    ASSUME NEW id PROVE IsFiniteSet(Filers(id)) /\ IsFiniteSet(Passing(id))
BY AuditAssumption, FS_Subset DEF Filers, Passing

LEMMA AppendFacts ==
    ASSUME NEW S, NEW s \in Seq(S), NEW x \in S
    PROVE  /\ DOMAIN Append(s, x) = DOMAIN s \cup {Len(s) + 1} /\ Append(s, x)[Len(s) + 1] = x
           /\ \A i \in DOMAIN s : Append(s, x)[i] = s[i]
           /\ Len(s) + 1 \notin DOMAIN s
OBVIOUS

LEMMA InitAudit == AuditInit => AuditInv
<1> SUFFICES ASSUME AuditInit PROVE AuditInv
  OBVIOUS
<1>1. AuditTypeOK
  BY DEF AuditInit, AuditTypeOK
<1>2. \A r \in Recorders : filed[r] = <<>>
  BY DEF AuditInit
<1>3. \A id : Filers(id) = {} /\ Recorded(id) = {}
  BY <1>2 DEF Filers, Recorded, AuditInit
<1>4. FiledOnce
  BY <1>2 DEF FiledOnce, AuditInit
<1>5. FiledCounted
  BY <1>3, FS_EmptySet DEF FiledCounted
<1> QED
  BY <1>1, <1>4, <1>5 DEF AuditInv

\* Who finds no record of an id has not filed it.
LEMMA UnknownUnfiled ==
    ASSUME AuditInv, NEW id \in EventIds, ~ Known(id)
    PROVE  Filers(id) = {}
<1>1. Recorded(id) = {}
  BY DEF Known, Recorded
<1>2. Cardinality(Filers(id)) = 0
  BY <1>1, FS_EmptySet DEF AuditInv, FiledCounted
<1> QED
  BY <1>2, FS_EmptySet, FilersFinite

LEMMA LookKeeps ==
    ASSUME AuditInv, NEW r \in Recorders, NEW e \in AuditEvent, LookForEvent(r, e)
    PROVE  AuditInv'
<1> USE DEF LookForEvent
<1>1. /\ events' = events /\ filed' = filed
      /\ passed' = [passed EXCEPT ![r] = e]
  OBVIOUS
<1>2. e.id \in EventIds
  BY DEF AuditEvent
<1>3. AuditTypeOK'
  BY <1>1 DEF AuditInv, AuditTypeOK
<1>4. \A id : Filers(id)' = Filers(id) /\ Recorded(id)' = Recorded(id)
  BY <1>1 DEF Filers, Recorded
<1>5. Filers(e.id) = {}
  BY <1>2, UnknownUnfiled
<1>6. \A q \in Recorders : passed'[q] = IF q = r THEN e ELSE passed[q]
  BY <1>1 DEF AuditInv, AuditTypeOK
<1>7. FiledOnce'
  BY <1>1, <1>4, <1>5, <1>6 DEF AuditInv, FiledOnce
<1>8. FiledCounted'
  BY <1>4 DEF AuditInv, FiledCounted
<1> QED
  BY <1>3, <1>7, <1>8 DEF AuditInv

LEMMA RecordKeeps ==
    ASSUME AuditInv, NEW r \in Recorders, RecordEvent(r)
    PROVE  AuditInv'
<1> DEFINE e == passed[r]
<1>1. e \in AuditEvent /\ e.id \in EventIds /\ e # Absent
  BY DEF AuditInv, AuditTypeOK, RecordEvent, AuditEvent
<1>2. /\ events' = Append(events, e)
      /\ filed' = [filed EXCEPT ![r] = Append(filed[r], e.id)]
      /\ passed' = [passed EXCEPT ![r] = Absent]
  BY DEF RecordEvent
<1>3. AuditTypeOK'
  BY <1>1, <1>2 DEF AuditInv, AuditTypeOK
<1>4. /\ events \in Seq(AuditEvent) /\ filed[r] \in Seq(EventIds)
      /\ \A q \in Recorders : filed'[q] = IF q = r THEN Append(filed[r], e.id) ELSE filed[q]
      /\ \A q \in Recorders : passed'[q] = IF q = r THEN Absent ELSE passed[q]
  BY <1>2 DEF AuditInv, AuditTypeOK
<1>5. /\ DOMAIN filed'[r] = DOMAIN filed[r] \cup {Len(filed[r]) + 1}
      /\ filed'[r][Len(filed[r]) + 1] = e.id
      /\ \A i \in DOMAIN filed[r] : filed'[r][i] = filed[r][i]
  <2>1. filed'[r] = Append(filed[r], e.id)
    BY <1>4
  <2>2. e.id \in EventIds /\ filed[r] \in Seq(EventIds)
    BY <1>1, <1>4
  <2> HIDE DEF e
  <2> QED
    BY <2>1, <2>2, AppendFacts
<1>6. ASSUME NEW id PROVE Filers(id)' = IF id = e.id THEN Filers(id) \cup {r} ELSE Filers(id)
  <2>1. \A q \in Recorders : q # r => filed'[q] = filed[q]
    BY <1>4
  <2>2. (\E i \in DOMAIN filed'[r] : filed'[r][i] = id)
            <=> id = e.id \/ \E i \in DOMAIN filed[r] : filed[r][i] = id
    BY <1>5
  <2> HIDE DEF e
  <2> QED
    BY <2>1, <2>2 DEF Filers
<1>7. ASSUME NEW id
      PROVE  Recorded(id)' = IF id = e.id THEN Recorded(id) \cup {Len(events) + 1} ELSE Recorded(id)
  <2>1. /\ DOMAIN events' = DOMAIN events \cup {Len(events) + 1} /\ events'[Len(events) + 1] = e
        /\ \A i \in DOMAIN events : events'[i] = events[i]
        /\ Len(events) + 1 \notin DOMAIN events
    BY <1>1, <1>2, <1>4, AppendFacts
  <2> HIDE DEF e
  <2> QED
    BY <2>1 DEF Recorded
<1>8. r \notin Filers(e.id) /\ \A i \in DOMAIN filed[r] : filed[r][i] # e.id
  BY <1>1 DEF AuditInv, FiledOnce, Filers
<1>9. FiledOnce'
  <2> SUFFICES ASSUME NEW q \in Recorders
               PROVE  (/\ \A i, j \in DOMAIN filed[q] : filed[q][i] = filed[q][j] => i = j
                       /\ passed[q] # Absent => q \notin Filers(passed[q].id))'
    BY DEF FiledOnce
  <2>1. /\ \A i, j \in DOMAIN filed[q] : filed[q][i] = filed[q][j] => i = j
        /\ passed[q] # Absent => q \notin Filers(passed[q].id)
    BY DEF AuditInv, FiledOnce
  <2>2. CASE q = r
    <3>1. \A i, j \in DOMAIN filed'[r] : filed'[r][i] = filed'[r][j] => i = j
      BY <1>5, <1>8, <2>1, <2>2
    <3> QED
      BY <1>4, <2>2, <3>1
  <2>3. CASE q # r
    <3>1. filed'[q] = filed[q] /\ passed'[q] = passed[q]
      BY <1>4, <2>3
    <3> QED
      BY <2>1, <3>1 DEF Filers
  <2> QED
    BY <2>2, <2>3
<1>10. FiledCounted'
  <2> SUFFICES ASSUME NEW id \in EventIds
               PROVE  /\ IsFiniteSet(Recorded(id)')
                      /\ Cardinality(Recorded(id)') = Cardinality(Filers(id)')
    BY DEF FiledCounted
  <2>1. IsFiniteSet(Recorded(id)) /\ Cardinality(Recorded(id)) = Cardinality(Filers(id))
    BY DEF AuditInv, FiledCounted
  <2>2. Len(events) + 1 \notin Recorded(id)
    BY <1>1, <1>4, AppendFacts DEF Recorded
  <2>3. CASE id = e.id
    <3>1. /\ IsFiniteSet(Recorded(id) \cup {Len(events) + 1})
          /\ Cardinality(Recorded(id) \cup {Len(events) + 1}) = Cardinality(Recorded(id)) + 1
      BY <2>1, <2>2, FS_AddElement
    <3>2. Cardinality(Filers(id) \cup {r}) = Cardinality(Filers(id)) + 1
      BY <2>3, <1>8, FilersFinite, FS_AddElement
    <3> QED
      BY <1>6, <1>7, <2>1, <2>3, <3>1, <3>2
  <2>4. CASE id # e.id
    BY <1>6, <1>7, <2>1, <2>4
  <2> QED
    BY <2>3, <2>4
<1> QED
  BY <1>3, <1>9, <1>10 DEF AuditInv

LEMMA AuditElsewhere ==
    ASSUME AuditInv, UNCHANGED <<events, passed, filed>>
    PROVE  AuditInv'
<1>1. \A id : Filers(id)' = Filers(id) /\ Recorded(id)' = Recorded(id)
  BY DEF Filers, Recorded
<1> QED
  BY <1>1 DEF AuditInv, AuditTypeOK, FiledOnce, FiledCounted

LEMMA AuditInvariance == AuditSpec => []AuditInv
<1>1. AuditInv /\ [AuditNext]_audit => AuditInv'
  <2> SUFFICES ASSUME AuditInv, [AuditNext]_audit PROVE AuditInv'
    OBVIOUS
  <2>1. ASSUME NEW r \in Recorders, NEW e \in AuditEvent, LookForEvent(r, e) PROVE AuditInv'
    BY <2>1, LookKeeps
  <2>2. ASSUME NEW r \in Recorders, RecordEvent(r) PROVE AuditInv'
    BY <2>2, RecordKeeps
  <2>3. ASSUME NEW path, NEW t, NEW s, SaveState(path, t, s) PROVE AuditInv'
    BY <2>3, AuditElsewhere DEF SaveState
  <2>4. CASE UNCHANGED audit
    BY <2>4, AuditElsewhere DEF audit
  <2> QED
    BY <2>1, <2>2, <2>3, <2>4 DEF AuditNext
<1> QED
  BY <1>1, InitAudit, PTL DEF AuditSpec

-----------------------------------------------------------------------------
\* Who filed an id and who is still to record it are different recorders, so
\* together they are no more than all.
LEMMA DistinctFromInv == AuditInv => EventsDistinct
<1> SUFFICES ASSUME AuditInv PROVE EventsDistinct
  OBVIOUS
<1>1. \A r \in Recorders, i, j \in 1..MaxEvents :
          {i, j} \subseteq DOMAIN filed[r] /\ filed[r][i] = filed[r][j] => i = j
  BY DEF AuditInv, FiledOnce
<1>2. ASSUME NEW id \in EventIds
      PROVE  Cardinality(Recorded(id)) + Cardinality(Passing(id)) <= Cardinality(Recorders)
  <2>1. \A r \in Passing(id) : r \notin Filers(id)
    BY DEF AuditInv, FiledOnce, Passing
  <2>2. /\ IsFiniteSet(Filers(id)) /\ IsFiniteSet(Passing(id))
        /\ Cardinality(Filers(id)) \in Nat /\ Cardinality(Passing(id)) \in Nat
    BY FilersFinite, FS_CardinalityType
  <2>3. Cardinality(Filers(id) \cup Passing(id)) = Cardinality(Filers(id)) + Cardinality(Passing(id))
    <3>1. Filers(id) \cap Passing(id) = {}
      BY <2>1
    <3>2. Cardinality(Filers(id) \cup Passing(id))
              = Cardinality(Filers(id)) + Cardinality(Passing(id)) - Cardinality(Filers(id) \cap Passing(id))
      BY <2>2, FS_Union
    <3>3. Cardinality(Filers(id) \cap Passing(id)) = 0
      BY <3>1, FS_EmptySet
    <3> QED
      BY <2>2, <3>2, <3>3
  <2>4. Filers(id) \cup Passing(id) \in SUBSET Recorders
    BY DEF Filers, Passing
  <2>5. Cardinality(Filers(id) \cup Passing(id)) <= Cardinality(Recorders)
    BY <2>4, AuditAssumption, FS_Subset
  <2> QED
    BY <2>3, <2>5 DEF AuditInv, FiledCounted
<1> QED
  BY <1>1, <1>2 DEF EventsDistinct, Recorded, Passing

\* An audit event is recorded by no recorder twice, and by those who overlap
\* once each at most, whatever their number (record_event).
THEOREM EventsCorrect == AuditSpec => []EventsDistinct
BY AuditInvariance, DistinctFromInv, PTL

(***************************************************************************)
(* The portals.  The invariant adds that the report being read was begun   *)
(* by someone allowed; the setting never changes.                          *)
(***************************************************************************)
Allowed(p, h) == HasBearerToken(h) /\ \E role \in Required(p) : Names(p, h, role)

PortalInv ==
    /\ setting \in [{"business", "ops"} -> Configurations]
    /\ reading # Missing => Allowed("ops", reading.header)
    /\ FailClosed

\* The entry that counts, the last, is one of the entries.
LEMMA MaxIsMember ==
    ASSUME NEW n \in Nat, NEW S \in SUBSET (1..n), S # {}
    PROVE  Max(S) \in S
<1> DEFINE gaps == {n - x : x \in S}
<1>1. gaps \subseteq Nat /\ gaps # {}
  <2>1. \A x \in S : x \in 1..n
    OBVIOUS
  <2>2. \A x \in S : n - x \in Nat
    BY <2>1
  <2>3. PICK x \in S : TRUE
    OBVIOUS
  <2>4. n - x \in gaps
    BY <2>3
  <2> QED
    BY <2>2, <2>4
<1>2. PICK g \in gaps : \A d \in gaps : ~ (<<d, g>> \in OpToRel(<, Nat))
  BY <1>1, WFMin, NatLessThanWellFounded
<1>3. \A d \in gaps : ~ (d < g)
  BY <1>1, <1>2 DEF OpToRel
<1>4. PICK x \in S : g = n - x
  OBVIOUS
<1>5. \A y \in S : x >= y
  BY <1>3, <1>4
<1> QED
  BY <1>5 DEF Max

\* Who passes the guard of a portal is given one of its roles by an entry.
LEMMA GuardEarned ==
    ASSUME PortalAssumption, setting \in [{"business", "ops"} -> Configurations],
           NEW p \in {"business", "ops"}, NEW h \in Header, RequireRoles(p, h) = 200
    PROVE  Allowed(p, h)
<1> DEFINE entries == setting[p]
           valid == {i \in DOMAIN entries : entries[i].token # Missing /\ entries[i].roles # {}}
           of == {i \in valid : entries[i].token = h.token}
<1>1. HasBearerToken(h) /\ ParseTokenMap(entries)[h.token] \cap Required(p) # {}
  BY DEF RequireRoles
<1>2. h.token \in TokenTexts
  BY <1>1 DEF HasBearerToken, Header
<1>3. ParseTokenMap(entries)[h.token] = IF of = {} THEN {} ELSE entries[Max(of)].roles
  BY <1>2 DEF ParseTokenMap
<1>4. entries \in Seq(TokenEntry)
  BY DEF PortalAssumption
<1> HIDE DEF entries
<1>5. Max(of) \in of
  <2>1. of # {}
    <3> HIDE DEF of
    <3> QED
      BY <1>1, <1>3
  <2>2. of \in SUBSET (1..Len(entries)) /\ Len(entries) \in Nat
    BY <1>4
  <2> HIDE DEF of
  <2> QED
    BY <2>1, <2>2, MaxIsMember
<1>6. Max(of) \in DOMAIN entries /\ entries[Max(of)].token = h.token
  BY <1>5
<1>7. of # {}
  BY <1>5
<1> HIDE DEF of
<1>8. PICK role \in Required(p) : role \in entries[Max(of)].roles
  BY <1>1, <1>3, <1>7
<1>9. Names(p, h, role)
  BY <1>6, <1>8 DEF Names, entries
<1> QED
  BY <1>1, <1>8, <1>9 DEF Allowed

\* A guarded answer that changes nothing beyond its own view.
LEMMA AnswerKeeps ==
    ASSUME PortalInv, NEW p \in {"business", "ops"}, NEW h \in Header, PortalAssumption,
           RequireRoles(p, h) = 200, UNCHANGED <<setting, reading>>,
           outcome'.portal = p, outcome'.header = h, outcome'.status \notin {401, 403},
           outcome'.touched \subseteq {outcome'.path}
    PROVE  PortalInv'
<1>1. Allowed(p, h)
  BY GuardEarned DEF PortalInv
<1>2. Allowed(p, h)'
  BY <1>1 DEF Allowed, Names
<1>3. reading' # Missing => Allowed("ops", reading.header)'
  BY DEF PortalInv, Allowed, Names
<1>4. FailClosed'
  BY <1>2 DEF FailClosed, Allowed, Names
<1> QED
  BY <1>3, <1>4 DEF PortalInv

LEMMA DenyKeeps ==
    ASSUME PortalInv, NEW p, NEW h, Deny(p, h)
    PROVE  PortalInv'
<1>1. RequireRoles(p, h) \in {401, 403}
  BY DEF Deny, RequireRoles
<1>2. outcome'.status \in {401, 403} /\ outcome'.told = {} /\ outcome'.touched = {}
  BY <1>1 DEF Deny, Told
<1>3. FailClosed'
  BY <1>2 DEF FailClosed
<1> QED
  BY <1>3 DEF PortalInv, Deny, Allowed, Names

\* Feeds come from services, not from callers.
LEMMA FeedKeeps ==
    ASSUME PortalInv, UNCHANGED <<setting, reading, outcome>>
    PROVE  PortalInv'
BY DEF PortalInv, FailClosed, Allowed, Names

LEMMA ReportKeeps ==
    ASSUME PortalInv, PortalAssumption, NEW h \in Header, BeginReport(h)
    PROVE  PortalInv'
<1>1. Allowed("ops", h)
  BY GuardEarned DEF PortalInv, BeginReport
<1>2. reading'.header = h /\ UNCHANGED <<setting, outcome>>
  BY DEF BeginReport
<1> QED
  BY <1>1, <1>2 DEF PortalInv, FailClosed, Allowed, Names

LEMMA FinishKeeps ==
    ASSUME PortalInv, FinishReport
    PROVE  PortalInv'
<1>1. Allowed("ops", reading.header) /\ setting' = setting /\ reading' = Missing
  BY DEF PortalInv, FinishReport
<1>2. /\ outcome'.portal = "ops" /\ outcome'.header = reading.header /\ outcome'.status = 200
      /\ outcome'.touched = {}
  BY DEF FinishReport
<1>3. FailClosed'
  BY <1>1, <1>2 DEF FailClosed, Allowed, Names
<1> QED
  BY <1>1, <1>3 DEF PortalInv

\* Every route with a body to run is an answer to someone the guard admits.
LEMMA RouteKeeps ==
    ASSUME PortalInv, PortalAssumption, NEW h \in Header,
           \/ \E k, m : ListBusiness(k, m, h)
           \/ \E k, i : GetBusiness(k, i, h)
           \/ \E i, m : CreatePolicy(i, m, h)
           \/ \E path, i, m : ReplacePolicy(path, i, m, h)
           \/ \E path, i : RefuseReplacement(path, i, h)
           \/ \E i : DeletePolicy(i, h) \/ DeleteNothing(i, h)
           \/ \E k : ListOps(k, h)
           \/ \E k, i : GetOps(k, i, h)
           \/ \E i : ListAuditEvents(i, h)
    PROVE  PortalInv'
<1>1. \A p, status, told : Told(p, h, status, told) =>
          /\ outcome'.portal = p /\ outcome'.header = h /\ outcome'.status = status
          /\ outcome'.touched \subseteq {outcome'.path}
  BY DEF Told
<1>2. \A path, i, value, status : WritePolicy(h, path, i, value, status) =>
          /\ outcome'.portal = "business" /\ outcome'.header = h /\ outcome'.status = status
          /\ outcome'.touched = {i} /\ outcome'.path = path
          /\ RequireRoles("business", h) = 200 /\ UNCHANGED <<setting, reading>>
  BY DEF WritePolicy
<1> DEFINE Answered(p) ==
        /\ RequireRoles(p, h) = 200 /\ UNCHANGED <<setting, reading>>
        /\ outcome'.portal = p /\ outcome'.header = h /\ outcome'.status \notin {401, 403}
        /\ outcome'.touched \subseteq {outcome'.path}
<1>3. ASSUME NEW k, NEW m, ListBusiness(k, m, h) PROVE Answered("business")
  BY <1>1, <1>3 DEF ListBusiness
<1>4. ASSUME NEW k, NEW i, GetBusiness(k, i, h) PROVE Answered("business")
  BY <1>1, <1>4 DEF GetBusiness
<1>5. ASSUME NEW i, NEW m, CreatePolicy(i, m, h) PROVE Answered("business")
  BY <1>2, <1>5 DEF CreatePolicy
<1>6. ASSUME NEW path, NEW i, NEW m, ReplacePolicy(path, i, m, h) PROVE Answered("business")
  BY <1>2, <1>6 DEF ReplacePolicy
<1>7. ASSUME NEW path, NEW i, RefuseReplacement(path, i, h) PROVE Answered("business")
  BY <1>1, <1>7 DEF RefuseReplacement
<1>8. ASSUME NEW i, DeletePolicy(i, h) \/ DeleteNothing(i, h) PROVE Answered("business")
  BY <1>1, <1>2, <1>8 DEF DeletePolicy, DeleteNothing
<1>9. ASSUME NEW k, ListOps(k, h) PROVE Answered("ops")
  BY <1>1, <1>9 DEF ListOps
<1>10. ASSUME NEW k, NEW i, GetOps(k, i, h) PROVE Answered("ops")
  BY <1>1, <1>10 DEF GetOps
<1>11. ASSUME NEW i, ListAuditEvents(i, h) PROVE Answered("ops")
  BY <1>1, <1>11 DEF ListAuditEvents
<1>12. Answered("business") => PortalInv'
  BY AnswerKeeps
<1>13. Answered("ops") => PortalInv'
  BY AnswerKeeps
<1> HIDE DEF Answered
<1> QED
  BY <1>3, <1>4, <1>5, <1>6, <1>7, <1>8, <1>9, <1>10, <1>11, <1>12, <1>13

LEMMA PortalInvariance == PortalSpec => []PortalInv
<1>1. PortalInit => PortalInv
  BY PortalAssumption DEF PortalInit, PortalInv, FailClosed, Unanswered
<1>2. PortalInv /\ [PortalNext]_portals => PortalInv'
  <2> SUFFICES ASSUME PortalInv, [PortalNext]_portals PROVE PortalInv'
    OBVIOUS
  <2>1. ASSUME NEW k, NEW i, NEW m, FeedBusiness(k, i, m) \/ FeedOps(k, i, m) PROVE PortalInv'
    BY <2>1, FeedKeeps DEF FeedBusiness, FeedOps
  <2>2. ASSUME NEW p, NEW h, Deny(p, h) PROVE PortalInv'
    BY <2>2, DenyKeeps
  <2>3. CASE FinishReport
    BY <2>3, FinishKeeps
  <2>4. CASE UNCHANGED portals
    BY <2>4, FeedKeeps DEF portals
  <2> QED
    BY <2>1, <2>2, <2>3, <2>4, RouteKeeps, ReportKeeps, PortalAssumption DEF PortalNext
<1> QED
  BY <1>1, <1>2, PTL DEF PortalSpec

\* Nobody is told or changes anything in a portal without a role that the
\* setting of that portal gives the token shown (require_roles).
THEOREM AccessCorrect == PortalSpec => []FailClosed
<1>1. PortalInv => FailClosed
  BY DEF PortalInv
<1> QED
  BY <1>1, PortalInvariance, PTL
-----------------------------------------------------------------------------
(***************************************************************************)
(* The observation window: what a retraining collects.  The invariant ties *)
(* every row collected to the label its transaction has now, unless the    *)
(* label came while the rows were collected.                               *)
(***************************************************************************)
Row == [of : Observations, flag : {0, 1}]

WindowTypeOK ==
    /\ window \in Seq(Observations) /\ observed \in Seq(Observations)
    /\ labels \in [Ids -> Label \cup {None}]
    /\ step \in [Threads -> {"idle", "appended", "excess", "reference", "collecting"}]
    /\ todo = [t \in Threads |-> todo[t]]
    /\ \A t \in Threads : step[t] = "collecting" => todo[t] \in Seq(Observations)
    /\ rows \in [Threads -> Seq(Row)]
    /\ relabelled \in [Threads -> SUBSET Ids]

RowsJudged ==
    \A t \in Threads :
        /\ step[t] # "collecting" => rows[t] = <<>>
        /\ \A i \in DOMAIN rows[t] :
               LET id == rows[t][i].of.id
               IN  \/ id \in relabelled[t]
                   \/ LabelToFlag(labels[id]) \in {None, rows[t][i].flag}

LEMMA TailFacts ==
    ASSUME NEW S, NEW s \in Seq(S), s # <<>>
    PROVE  /\ Head(s) \in S /\ Tail(s) \in Seq(S)
           /\ Len(s) \in Nat \ {0} /\ Len(Tail(s)) = Len(s) - 1
           /\ \A i \in 1..(Len(s) - 1) : Tail(s)[i] = s[i + 1]
OBVIOUS

LEMMA WindowTypeInit == WindowInit => WindowTypeOK /\ RowsJudged
<1> SUFFICES ASSUME WindowInit PROVE WindowTypeOK /\ RowsJudged
  OBVIOUS
<1>1. WindowTypeOK
  BY DEF WindowInit, WindowTypeOK
<1>2. RowsJudged
  BY DEF WindowInit, RowsJudged
<1> QED
  BY <1>1, <1>2

LEMMA FlagIsBinary ==
    ASSUME NEW o, FlagOf(o) # None
    PROVE  FlagOf(o) \in {0, 1}
BY DEF FlagOf, LabelToFlag

\* Threads that are not collecting touch neither labels nor rows.
LEMMA RowsElsewhere ==
    ASSUME WindowTypeOK, RowsJudged, NEW t \in Threads, NEW s \in {"idle", "appended", "excess", "reference"},
           step[t] # "collecting", step' = [step EXCEPT ![t] = s],
           UNCHANGED <<labels, rows, relabelled>>
    PROVE  RowsJudged'
<1>1. \A q \in Threads : step'[q] = IF q = t THEN s ELSE step[q]
  BY DEF WindowTypeOK
<1> QED
  BY <1>1 DEF RowsJudged

LEMMA AppendKeepsType ==
    ASSUME WindowTypeOK, NEW t \in Threads, NEW o \in Observations, AppendObservation(t, o)
    PROVE  WindowTypeOK'
BY DEF WindowTypeOK, AppendObservation

LEMMA TestKeepsType ==
    ASSUME WindowTypeOK, NEW t \in Threads, TestLength(t)
    PROVE  WindowTypeOK'
BY DEF WindowTypeOK, TestLength

LEMMA ReadKeepsType ==
    ASSUME WindowTypeOK, NEW t \in Threads, ReadReference(t) \/ Drift(t)
    PROVE  WindowTypeOK'
BY DEF WindowTypeOK, ReadReference, Drift

LEMMA BeginKeepsType ==
    ASSUME WindowTypeOK, NEW t \in Threads, BeginRetrain(t)
    PROVE  WindowTypeOK'
BY DEF WindowTypeOK, BeginRetrain

LEMMA FinishKeepsType ==
    ASSUME WindowTypeOK, NEW t \in Threads, FinishRetrain(t)
    PROVE  WindowTypeOK'
<1>1. rows' \in [Threads -> Seq(Row)]
  BY DEF WindowTypeOK, FinishRetrain
<1>2. relabelled' \in [Threads -> SUBSET Ids]
  BY DEF WindowTypeOK, FinishRetrain
<1>3. /\ step' \in [Threads -> {"idle", "appended", "excess", "reference", "collecting"}]
      /\ \A q \in Threads : q # t => step'[q] = step[q] /\ todo'[q] = todo[q]
      /\ step'[t] = "idle" /\ todo' = [q \in Threads |-> todo'[q]]
  BY DEF WindowTypeOK, FinishRetrain
<1>4. \A q \in Threads : step'[q] = "collecting" => todo'[q] \in Seq(Observations)
  BY <1>3 DEF WindowTypeOK
<1> QED
  BY <1>1, <1>2, <1>3, <1>4 DEF WindowTypeOK, FinishRetrain

LEMMA PopKeepsType ==
    ASSUME WindowTypeOK, NEW t \in Threads, PopLeft(t), window # <<>>
    PROVE  WindowTypeOK'
<1>1. Tail(window) \in Seq(Observations)
  BY TailFacts DEF WindowTypeOK
<1> QED
  BY <1>1 DEF WindowTypeOK, PopLeft

LEMMA CollectKeepsType ==
    ASSUME WindowTypeOK, NEW t \in Threads, CollectLabeled(t)
    PROVE  WindowTypeOK'
<1>1. /\ todo[t] \in Seq(Observations) /\ Head(todo[t]) \in Observations
      /\ Tail(todo[t]) \in Seq(Observations)
  BY TailFacts DEF WindowTypeOK, CollectLabeled
<1> DEFINE o == Head(todo[t])
<1>2. FlagOf(o) # None => [of |-> o, flag |-> FlagOf(o)] \in Row
  BY <1>1, FlagIsBinary DEF Row
<1>3. rows'[t] \in Seq(Row) /\ \A q \in Threads : q # t => rows'[q] = rows[q]
  <2>1. rows' = [rows EXCEPT ![t] = IF FlagOf(o) = None THEN rows[t]
                                   ELSE Append(rows[t], [of |-> o, flag |-> FlagOf(o)])]
    BY DEF CollectLabeled
  <2> HIDE DEF o
  <2> QED
    BY <1>2, <2>1 DEF WindowTypeOK
<1>4. rows' \in [Threads -> Seq(Row)]
  BY <1>3 DEF WindowTypeOK, CollectLabeled
<1> QED
  BY <1>1, <1>4 DEF WindowTypeOK, CollectLabeled

LEMMA FeedbackKeepsType ==
    ASSUME WindowTypeOK, WindowAssumption, NEW i \in Ids, NEW label \in Labels, RecordFeedback(i, label)
    PROVE  WindowTypeOK'
BY DEF WindowTypeOK, WindowAssumption, RecordFeedback

LEMMA CollectKeepsRows ==
    ASSUME WindowTypeOK, RowsJudged, NEW t \in Threads, CollectLabeled(t)
    PROVE  RowsJudged'
<1> DEFINE o == Head(todo[t])
           row == [of |-> o, flag |-> FlagOf(o)]
<1>1. /\ rows' = [rows EXCEPT ![t] = IF FlagOf(o) = None THEN rows[t] ELSE Append(rows[t], row)]
      /\ step[t] = "collecting" /\ UNCHANGED <<step, labels, relabelled>>
  BY DEF CollectLabeled
<1>2. \A q \in Threads : q # t => rows'[q] = rows[q]
  BY <1>1 DEF WindowTypeOK
<1>3. FlagOf(o) = None => rows'[t] = rows[t]
  BY <1>1 DEF WindowTypeOK
<1>4. LabelToFlag(labels[o.id]) \in {None, FlagOf(o)}
  BY DEF FlagOf
<1>5. ASSUME FlagOf(o) # None, NEW i \in DOMAIN rows'[t]
      PROVE  rows'[t][i] = row \/ (i \in DOMAIN rows[t] /\ rows'[t][i] = rows[t][i])
  <2>1. rows'[t] = Append(rows[t], row) /\ rows[t] \in Seq(Row)
    BY <1>1, <1>5 DEF WindowTypeOK
  <2>2. row \in Row
    BY <1>5, FlagIsBinary, TailFacts DEF Row, WindowTypeOK, CollectLabeled
  <2> HIDE DEF row
  <2> QED
    BY <1>5, <2>1, <2>2, AppendFacts
<1>6. row.of.id = o.id /\ row.flag = FlagOf(o)
  OBVIOUS
<1> HIDE DEF row, o
<1>7. ASSUME NEW i \in DOMAIN rows'[t]
      PROVE  LET id == rows'[t][i].of.id
             IN  id \in relabelled[t] \/ LabelToFlag(labels[id]) \in {None, rows'[t][i].flag}
  BY <1>3, <1>4, <1>5, <1>6, <1>7 DEF RowsJudged
<1>8. \A q \in Threads : step[q] # "collecting" => rows'[q] = <<>>
  BY <1>1, <1>2 DEF RowsJudged
<1> QED
  BY <1>1, <1>2, <1>7, <1>8 DEF RowsJudged, LabelToFlag

LEMMA FeedbackKeepsRows ==
    ASSUME WindowTypeOK, RowsJudged, NEW i \in Ids, NEW label \in Labels, RecordFeedback(i, label)
    PROVE  RowsJudged'
<1>1. /\ labels' = [labels EXCEPT ![i] = label] /\ UNCHANGED <<step, rows>>
      /\ \A t \in Threads : step[t] = "collecting" => relabelled'[t] = relabelled[t] \cup {i}
  BY DEF RecordFeedback
<1>2. \A id \in Ids : id # i => labels'[id] = labels[id]
  BY <1>1 DEF WindowTypeOK
<1>3. \A t \in Threads : \A k \in DOMAIN rows[t] : rows[t][k].of.id \in Ids
  <2> TAKE t \in Threads
  <2> TAKE k \in DOMAIN rows[t]
  <2>1. rows[t][k] \in Row
    BY DEF WindowTypeOK
  <2> QED
    BY <2>1 DEF Row, Ids
<1> QED
  BY <1>1, <1>2, <1>3 DEF RowsJudged, LabelToFlag

LEMMA FinishKeepsRows ==
    ASSUME WindowTypeOK, RowsJudged, NEW t \in Threads, FinishRetrain(t)
    PROVE  RowsJudged'
<1>1. /\ rows'[t] = <<>> /\ labels' = labels
      /\ \A q \in Threads : q # t => /\ rows'[q] = rows[q] /\ step'[q] = step[q]
                                     /\ relabelled'[q] = relabelled[q]
  BY DEF FinishRetrain, WindowTypeOK
<1> QED
  BY <1>1 DEF RowsJudged, LabelToFlag

LEMMA BeginKeepsRows ==
    ASSUME WindowTypeOK, RowsJudged, NEW t \in Threads, BeginRetrain(t)
    PROVE  RowsJudged'
<1>1. /\ rows[t] = <<>> /\ UNCHANGED <<rows, labels, relabelled>>
      /\ \A q \in Threads : q # t => step'[q] = step[q]
  BY DEF BeginRetrain, RowsJudged, WindowTypeOK
<1> QED
  BY <1>1 DEF RowsJudged, LabelToFlag

-----------------------------------------------------------------------------
(***************************************************************************)
(* The length of the window.  Threads that have appended and not finished  *)
(* trimming are what it may be too long by.  For the lower bound the       *)
(* invariant counts the threads about to drop an observation: each of them *)
(* saw one too many, so as long as any is, or once something was dropped,  *)
(* the window keeps room for all of their drops.                           *)
(***************************************************************************)
Trimming == {t \in Threads : step[t] \in {"appended", "excess"}}
Excess == {t \in Threads : step[t] = "excess"}

LengthKept ==
    /\ Len(window) <= MaxLen + Cardinality(Trimming)
    /\ Len(window) # Len(observed) \/ Excess # {} =>
          Len(window) + Cardinality(Threads) >= MaxLen + 1 + Cardinality(Excess)

LatestKept ==
    /\ Len(window) <= Len(observed)
    /\ \A i \in 1..Len(window) : window[i] = observed[Len(observed) - Len(window) + i]

LEMMA ThreadsCounted ==
    ASSUME WindowAssumption
    PROVE  /\ IsFiniteSet(Trimming) /\ IsFiniteSet(Excess)
           /\ Cardinality(Trimming) \in Nat /\ Cardinality(Excess) \in Nat /\ Cardinality(Threads) \in Nat
           /\ Cardinality(Excess) <= Cardinality(Threads)
           /\ MaxLen \in Nat /\ Cardinality(Threads) <= MaxLen + 1
           /\ (Excess # {} => Cardinality(Excess) >= 1)
<1>1. Trimming \in SUBSET Threads /\ Excess \in SUBSET Threads /\ IsFiniteSet(Threads)
  BY DEF Trimming, Excess, WindowAssumption
<1>2. IsFiniteSet(Trimming) /\ IsFiniteSet(Excess) /\ Cardinality(Excess) <= Cardinality(Threads)
  BY <1>1, FS_Subset
<1>3. /\ Cardinality(Trimming) \in Nat /\ Cardinality(Excess) \in Nat /\ Cardinality(Threads) \in Nat
  BY <1>1, <1>2, FS_CardinalityType
<1>4. Excess # {} => Cardinality(Excess) # 0
  BY <1>2, FS_EmptySet
<1> QED
  BY <1>2, <1>3, <1>4 DEF WindowAssumption

LEMMA LengthInit == WindowInit => LengthKept /\ LatestKept
<1> SUFFICES ASSUME WindowInit PROVE LengthKept /\ LatestKept
  OBVIOUS
<1>1. Excess = {} /\ window = <<>> /\ observed = <<>>
  BY DEF WindowInit, Excess
<1>2. Cardinality(Trimming) \in Nat /\ MaxLen \in Nat
  BY WindowAssumption, ThreadsCounted
<1> QED
  BY <1>1, <1>2 DEF LengthKept, LatestKept

\* Steps of threads that neither append nor trim.
LEMMA LengthElsewhere ==
    ASSUME WindowTypeOK, LengthKept, LatestKept, UNCHANGED <<window, observed>>,
           \A q \in Threads : \/ step'[q] = step[q]
                              \/ {step[q], step'[q]} \cap {"appended", "excess"} = {}
    PROVE  LengthKept' /\ LatestKept'
<1>1. Trimming' = Trimming /\ Excess' = Excess
  BY DEF Trimming, Excess
<1> QED
  BY <1>1 DEF LengthKept, LatestKept

LEMMA AppendKeepsLength ==
    ASSUME WindowTypeOK, LengthKept, LatestKept, NEW t \in Threads, NEW o \in Observations,
           AppendObservation(t, o)
    PROVE  LengthKept' /\ LatestKept'
<1>1. /\ window' = Append(window, o) /\ observed' = Append(observed, o)
      /\ window \in Seq(Observations) /\ observed \in Seq(Observations)
      /\ Len(window) \in Nat /\ Len(observed) \in Nat
      /\ Len(window') = Len(window) + 1 /\ Len(observed') = Len(observed) + 1
  BY DEF AppendObservation, WindowTypeOK
<1>2. Trimming' = Trimming \cup {t} /\ t \notin Trimming /\ Excess' = Excess
  BY DEF AppendObservation, WindowTypeOK, Trimming, Excess
<1>3. Cardinality(Trimming') = Cardinality(Trimming) + 1
  <2>1. IsFiniteSet(Trimming)
    BY WindowAssumption, ThreadsCounted
  <2>2. Cardinality(Trimming \cup {t}) = Cardinality(Trimming) + 1
    BY <1>2, <2>1, FS_AddElement
  <2> QED
    BY <1>2, <2>2
<1>4. LengthKept'
  <2>1. Cardinality(Trimming) \in Nat /\ Cardinality(Excess) \in Nat /\ Cardinality(Threads) \in Nat
        /\ MaxLen \in Nat
    BY WindowAssumption, ThreadsCounted
  <2>2. Len(window') <= MaxLen + Cardinality(Trimming')
    BY <1>1, <1>3, <2>1 DEF LengthKept
  <2>3. Len(window') # Len(observed') \/ Excess' # {} => Len(window) # Len(observed) \/ Excess # {}
    BY <1>1, <1>2
  <2>4. Cardinality(Excess') = Cardinality(Excess)
    BY <1>2
  <2>5. Len(window') # Len(observed') \/ Excess' # {} =>
           Len(window') + Cardinality(Threads) >= MaxLen + 1 + Cardinality(Excess')
    BY <1>1, <2>1, <2>3, <2>4 DEF LengthKept
  <2> QED
    BY <2>2, <2>5 DEF LengthKept
<1>5. ASSUME NEW i \in 1..Len(window')
      PROVE  window'[i] = observed'[Len(observed') - Len(window') + i]
  <2>1. CASE i = Len(window) + 1
    <3>1. window'[i] = o
      BY <1>1, <2>1, AppendFacts
    <3>2. Len(observed') - Len(window') + i = Len(observed) + 1
      BY <1>1, <2>1
    <3>3. observed'[Len(observed) + 1] = o
      BY <1>1, AppendFacts
    <3> QED
      BY <3>1, <3>2, <3>3
  <2>2. CASE i \in 1..Len(window)
    <3>1. window'[i] = window[i]
      BY <1>1, <2>2
    <3>2. observed'[Len(observed) - Len(window) + i] = observed[Len(observed) - Len(window) + i]
      <4>1. Len(observed) - Len(window) + i \in 1..Len(observed)
        BY <1>1, <2>2 DEF LatestKept
      <4> QED
        BY <1>1, <4>1, AppendFacts
    <3>3. window[i] = observed[Len(observed) - Len(window) + i]
      BY <2>2 DEF LatestKept
    <3>4. Len(observed') - Len(window') + i = Len(observed) - Len(window) + i
      BY <1>1
    <3> QED
      BY <3>1, <3>2, <3>3, <3>4
  <2>3. i \in 1..(Len(window) + 1)
    BY <1>1, <1>5
  <2>4. i = Len(window) + 1 \/ i \in 1..Len(window)
    BY <1>1, <2>3
  <2> QED
    BY <2>1, <2>2, <2>4
<1>6. Len(window') <= Len(observed')
  BY <1>1 DEF LatestKept
<1> QED
  BY <1>4, <1>5, <1>6 DEF LatestKept

LEMMA TestKeepsLength ==
    ASSUME WindowTypeOK, LengthKept, LatestKept, NEW t \in Threads, TestLength(t)
    PROVE  LengthKept' /\ LatestKept'
<1>1. /\ UNCHANGED <<window, observed>> /\ step[t] = "appended"
      /\ \A q \in Threads : q # t => step'[q] = step[q]
      /\ step'[t] = IF Len(window) > MaxLen THEN "excess" ELSE "idle"
      /\ Len(window) \in Nat
  BY DEF TestLength, WindowTypeOK
<1>2. CASE Len(window) > MaxLen
  <2>1. Trimming' = Trimming /\ Excess' = Excess \cup {t} /\ t \notin Excess
    BY <1>1, <1>2 DEF Trimming, Excess
  <2>2. Cardinality(Excess') = Cardinality(Excess) + 1
    BY <2>1, WindowAssumption, ThreadsCounted, FS_AddElement
  <2>3. Cardinality(Excess') <= Cardinality(Threads)
    <3>1. Excess' \in SUBSET Threads
      BY <2>1 DEF Excess
    <3> QED
      BY <3>1, FS_Subset, WindowAssumption DEF WindowAssumption
  <2>4. LengthKept'
    BY <1>1, <1>2, <2>1, <2>2, <2>3, WindowAssumption, ThreadsCounted DEF LengthKept
  <2> QED
    BY <1>1, <2>4 DEF LatestKept
<1>3. CASE ~ (Len(window) > MaxLen)
  <2>1. Excess' = Excess
    BY <1>1, <1>3 DEF Excess
  <2>2. Trimming' = Trimming \ {t} /\ t \in Trimming
    BY <1>1, <1>3 DEF Trimming
  <2>3. Cardinality(Trimming') = Cardinality(Trimming) - 1
    BY <2>2, WindowAssumption, ThreadsCounted, FS_RemoveElement
  <2>4. Cardinality(Trimming) - 1 \in Nat
    <3>1. Cardinality(Trimming) # 0
      BY <2>2, WindowAssumption, ThreadsCounted, FS_EmptySet
    <3> QED
      BY <3>1, WindowAssumption, ThreadsCounted
  <2>5. LengthKept'
    BY <1>1, <1>3, <2>1, <2>3, <2>4, WindowAssumption, ThreadsCounted DEF LengthKept
  <2> QED
    BY <1>1, <2>5 DEF LatestKept
<1> QED
  BY <1>2, <1>3

\* No thread trims an empty window.
LEMMA NeverEmpty ==
    ASSUME WindowTypeOK, LengthKept, NEW t \in Threads, PopLeft(t)
    PROVE  window # <<>>
<1>1. Excess # {}
  BY DEF PopLeft, Excess
<1>2. Len(window) >= 1
  BY <1>1, WindowAssumption, ThreadsCounted DEF LengthKept, WindowTypeOK
<1> QED
  BY <1>2

LEMMA PopKeepsLength ==
    ASSUME WindowTypeOK, LengthKept, LatestKept, NEW t \in Threads, PopLeft(t)
    PROVE  LengthKept' /\ LatestKept'
<1>1. /\ window' = Tail(window) /\ observed' = observed /\ step[t] = "excess"
      /\ \A q \in Threads : q # t => step'[q] = step[q]
      /\ step'[t] = "appended" /\ Len(observed) \in Nat
  BY DEF PopLeft, WindowTypeOK
<1>2. /\ Len(window) \in Nat \ {0} /\ Len(Tail(window)) = Len(window) - 1
      /\ \A i \in 1..(Len(window) - 1) : Tail(window)[i] = window[i + 1]
  BY NeverEmpty, TailFacts DEF WindowTypeOK
<1>3. Trimming' = Trimming /\ Excess' = Excess \ {t} /\ t \in Excess
  BY <1>1 DEF Trimming, Excess
<1>4. Cardinality(Excess') = Cardinality(Excess) - 1
  BY <1>3, WindowAssumption, ThreadsCounted, FS_RemoveElement
<1>5. LengthKept'
  <2>1. /\ Len(window) <= MaxLen + Cardinality(Trimming)
        /\ Len(window) + Cardinality(Threads) >= MaxLen + 1 + Cardinality(Excess)
    BY <1>3 DEF LengthKept
  <2>2. Len(window') = Len(window) - 1
    BY <1>1, <1>2
  <2>3. /\ Cardinality(Trimming) \in Nat /\ Cardinality(Excess) \in Nat /\ MaxLen \in Nat
        /\ Cardinality(Threads) \in Nat /\ Len(window) \in Nat
    BY <1>2, WindowAssumption, ThreadsCounted
  <2>4. /\ Len(window') <= MaxLen + Cardinality(Trimming')
        /\ Len(window') + Cardinality(Threads) >= MaxLen + 1 + Cardinality(Excess')
    BY <1>3, <1>4, <2>1, <2>2, <2>3
  <2> QED
    BY <2>4 DEF LengthKept
<1>6. ASSUME NEW i \in 1..Len(window')
      PROVE  window'[i] = observed'[Len(observed') - Len(window') + i]
  <2>1. window'[i] = window[i + 1] /\ i + 1 \in 1..Len(window)
    BY <1>1, <1>2
  <2>2. window[i + 1] = observed[Len(observed) - Len(window) + (i + 1)]
    BY <2>1 DEF LatestKept
  <2>3. Len(observed') - Len(window') + i = Len(observed) - Len(window) + (i + 1)
    BY <1>1, <1>2
  <2> QED
    BY <1>1, <2>1, <2>2, <2>3
<1> QED
  BY <1>1, <1>2, <1>5, <1>6 DEF LatestKept

-----------------------------------------------------------------------------
WindowInv == WindowTypeOK /\ RowsJudged /\ LengthKept /\ LatestKept

\* A step between states in which a thread neither trims nor collects.
LEMMA OrdinaryKeeps ==
    ASSUME WindowInv, NEW t \in Threads, WindowTypeOK',
           UNCHANGED <<window, observed, labels, rows, relabelled>>,
           \/ ReadReference(t)
           \/ Drift(t)
    PROVE  WindowInv'
<1>1. PICK s \in {"idle", "reference"} :
          step' = [step EXCEPT ![t] = s] /\ step[t] \in {"idle", "reference"}
  BY DEF ReadReference, Drift
<1>2. \A q \in Threads : \/ step'[q] = step[q]
                         \/ {step[q], step'[q]} \cap {"appended", "excess"} = {}
  BY <1>1 DEF WindowInv, WindowTypeOK
<1>3. RowsJudged'
  BY <1>1, RowsElsewhere DEF WindowInv
<1> QED
  BY <1>2, <1>3, LengthElsewhere DEF WindowInv

LEMMA WindowStep ==
    ASSUME WindowInv, [WindowNext]_monitor
    PROVE  WindowInv'
<1> USE DEF WindowInv
<1>1. ASSUME NEW t \in Threads, NEW o \in Observations, AppendObservation(t, o) PROVE WindowInv'
  <2>1. RowsJudged'
    BY <1>1, RowsElsewhere DEF AppendObservation
  <2> QED
    BY <1>1, <2>1, AppendKeepsType, AppendKeepsLength
<1>2. ASSUME NEW t \in Threads, TestLength(t) PROVE WindowInv'
  <2>1. RowsJudged'
    BY <1>2, RowsElsewhere DEF TestLength
  <2> QED
    BY <1>2, <2>1, TestKeepsType, TestKeepsLength
<1>3. ASSUME NEW t \in Threads, PopLeft(t) PROVE WindowInv'
  <2>1. RowsJudged'
    BY <1>3, RowsElsewhere DEF PopLeft
  <2> QED
    BY <1>3, <2>1, NeverEmpty, PopKeepsType, PopKeepsLength
<1>4. ASSUME NEW t \in Threads, ReadReference(t) \/ Drift(t) PROVE WindowInv'
  BY <1>4, ReadKeepsType, OrdinaryKeeps DEF ReadReference, Drift
<1>5. ASSUME NEW t \in Threads, BeginRetrain(t) PROVE WindowInv'
  <2>1. \A q \in Threads : \/ step'[q] = step[q]
                           \/ {step[q], step'[q]} \cap {"appended", "excess"} = {}
    BY <1>5 DEF BeginRetrain, WindowTypeOK
  <2>2. LengthKept' /\ LatestKept'
    BY <1>5, <2>1, LengthElsewhere DEF BeginRetrain
  <2> QED
    BY <1>5, <2>2, BeginKeepsType, BeginKeepsRows
<1>6. ASSUME NEW t \in Threads, CollectLabeled(t) PROVE WindowInv'
  <2>1. LengthKept' /\ LatestKept'
    BY <1>6, LengthElsewhere DEF CollectLabeled
  <2> QED
    BY <1>6, <2>1, CollectKeepsType, CollectKeepsRows
<1>7. ASSUME NEW t \in Threads, FinishRetrain(t) PROVE WindowInv'
  <2>1. \A q \in Threads : \/ step'[q] = step[q]
                           \/ {step[q], step'[q]} \cap {"appended", "excess"} = {}
    BY <1>7 DEF FinishRetrain, WindowTypeOK
  <2>2. LengthKept' /\ LatestKept'
    BY <1>7, <2>1, LengthElsewhere DEF FinishRetrain
  <2> QED
    BY <1>7, <2>2, FinishKeepsType, FinishKeepsRows
<1>8. ASSUME NEW i \in Ids, NEW label \in Labels, RecordFeedback(i, label) PROVE WindowInv'
  <2>1. LengthKept' /\ LatestKept'
    BY <1>8, LengthElsewhere DEF RecordFeedback
  <2> QED
    BY <1>8, <2>1, WindowAssumption, FeedbackKeepsType, FeedbackKeepsRows
<1>9. CASE UNCHANGED monitor
  <2>1. WindowTypeOK' /\ RowsJudged'
    BY <1>9 DEF monitor, WindowTypeOK, RowsJudged, LabelToFlag
  <2>2. LengthKept' /\ LatestKept'
    BY <1>9, LengthElsewhere DEF monitor
  <2> QED
    BY <2>1, <2>2
<1> QED
  BY <1>1, <1>2, <1>3, <1>4, <1>5, <1>6, <1>7, <1>8, <1>9
     DEF WindowNext, RetrainInVain, Promote

LEMMA WindowInvariance == WindowSpec => []WindowInv
<1>1. WindowInit => WindowInv
  BY WindowTypeInit, LengthInit DEF WindowInv
<1> QED
  BY <1>1, WindowStep, PTL DEF WindowSpec

LEMMA SuffixIs ==
    ASSUME NEW S, NEW s \in Seq(S), NEW w \in Seq(S), Len(w) <= Len(s),
           \A i \in 1..Len(w) : w[i] = s[Len(s) - Len(w) + i]
    PROVE  w = SubSeq(s, Len(s) - Len(w) + 1, Len(s))
<1> DEFINE suffix == SubSeq(s, Len(s) - Len(w) + 1, Len(s))
<1>1. Len(s) \in Nat /\ Len(w) \in Nat
  OBVIOUS
<1>2. suffix \in Seq(S) /\ Len(suffix) = Len(w)
  BY <1>1
<1>3. \A i \in 1..Len(w) : suffix[i] = s[Len(s) - Len(w) + i]
  BY <1>1
<1> HIDE DEF suffix
<1>4. w = suffix
  BY <1>2, <1>3
<1> QED
  BY <1>4 DEF suffix

LEMMA MinOfTwo ==
    ASSUME NEW a \in Int, NEW b \in Int
    PROVE  Min({a, b}) = IF a <= b THEN a ELSE b
BY DEF Min

\* However long the walk over the window takes and whatever labels come in
\* meanwhile, rows of a transaction an analyst has decided about agree unless
\* the label came during the walk (collect_labeled).
THEOREM LabelsCorrect == WindowSpec => []LabelsConsistent
<1>1. WindowInv => LabelsConsistent
  <2> SUFFICES ASSUME WindowInv, NEW t \in Threads, step[t] = "collecting",
                      NEW i \in DOMAIN rows[t], NEW j \in DOMAIN rows[t],
                      rows[t][i].of.id = rows[t][j].of.id, rows[t][i].flag # rows[t][j].flag
               PROVE  \/ rows[t][i].of.id \in relabelled[t]
                      \/ LabelToFlag(labels[rows[t][i].of.id]) = None
    BY DEF LabelsConsistent
  <2> QED
    BY DEF WindowInv, RowsJudged
<1> QED
  BY <1>1, WindowInvariance, PTL

-----------------------------------------------------------------------------
(***************************************************************************)
(* Drift reports and promoted profiles.  What a report and a promotion     *)
(* answer rests on the histogram: a value falls into one bin, a column in  *)
(* order has its quantiles between its ends, and no term of the index is   *)
(* far below nothing, so that one large bin left empty outweighs them all. *)
(* First, finite sets of numbers and recursion along a sequence.           *)
(***************************************************************************)
LEMMA FirstNumber ==
    ASSUME NEW T, T \subseteq Nat, T # {}
    PROVE  \E x \in T : \A y \in T : x <= y
<1> DEFINE R == OpToRel(<, Nat)
<1>1. \A x, y \in Nat : x < y => <<x, y>> \in R
  BY DEF OpToRel
<1>2. IsWellFoundedOn(R, Nat)
  BY NatLessThanWellFounded, Zenon
<1> HIDE DEF R
<1>3. PICK x \in T : \A y \in T : ~ (<<y, x>> \in R)
  BY <1>2, WFMin
<1>4. ASSUME NEW y \in T PROVE x <= y
  <2>1. x \in Nat /\ y \in Nat
    OBVIOUS
  <2>2. ~ (y < x)
    BY <1>1, <1>3, <2>1
  <2> QED
    BY <2>1, <2>2
<1> QED
  BY <1>4

LEMMA Climb ==
    ASSUME NEW n \in Nat, NEW Reached, 0 \in Reached,
           \A k \in 1..n : k - 1 \in Reached => k \in Reached
    PROVE  0..n \subseteq Reached
<1> SUFFICES ASSUME (0..n) \ Reached # {} PROVE FALSE
  OBVIOUS
<1>1. (0..n) \ Reached \subseteq Nat
  OBVIOUS
<1>2. PICK k \in (0..n) \ Reached : \A j \in (0..n) \ Reached : k <= j
  BY <1>1, FirstNumber
<1>3. k \in 1..n
  BY <1>2
<1>4. k - 1 \in 0..n /\ ~ (k <= k - 1)
  BY <1>3
<1>5. k - 1 \in Reached
  BY <1>2, <1>4
<1> QED
  BY <1>2, <1>3, <1>5

LEMMA ImageFinite ==
    ASSUME NEW A, IsFiniteSet(A), NEW f
    PROVE  IsFiniteSet({f[i] : i \in A})
<1>1. PICK T, g : T = {f[i] : i \in A} /\ g = [i \in A |-> f[i]]
  OBVIOUS
<1>2. g \in Surjection(A, T)
  BY <1>1 DEF Surjection
<1> QED
  BY <1>1, <1>2, FS_Surjection

\* The least of finitely many numbers is the one with fewest below it.
LEMMA LeastExists ==
    ASSUME NEW S, S \subseteq Int, IsFiniteSet(S), S # {}
    PROVE  \E i \in S : \A j \in S : i <= j
<1> DEFINE below(i) == {j \in S : j < i}
           T == {Cardinality(below(i)) : i \in S}
<1>1. \A i \in S : IsFiniteSet(below(i)) /\ Cardinality(below(i)) \in Nat
  <2> TAKE i \in S
  <2>1. below(i) \subseteq S
    OBVIOUS
  <2> QED
    BY <2>1, FS_Subset, FS_CardinalityType
<1>2. T \subseteq Nat /\ T # {}
  BY <1>1
<1>3. PICK i \in S : \A j \in S : Cardinality(below(i)) <= Cardinality(below(j))
  <2>1. PICK x \in T : \A y \in T : x <= y
    BY <1>2, FirstNumber
  <2> QED
    BY <2>1
<1>4. ASSUME NEW j \in S, ~ (i <= j) PROVE FALSE
  <2>1. i \in Int /\ j \in Int /\ j < i
    BY <1>4
  <2>2. below(j) \in SUBSET below(i)
    <3>1. \A k \in S : k < j => k < i
      <4> TAKE k \in S
      <4>1. k \in Int
        OBVIOUS
      <4> QED
        BY <2>1, <4>1
    <3> QED
      BY <3>1
  <2>3. j \in below(i) /\ ~ (j \in below(j))
    BY <2>1
  <2>4. PICK a, b : a = below(i) /\ b = below(j)
    OBVIOUS
  <2>5. b \in SUBSET a /\ b # a /\ IsFiniteSet(a) /\ Cardinality(a) <= Cardinality(b)
    BY <1>1, <1>3, <2>2, <2>3, <2>4
  <2>6. /\ Cardinality(b) <= Cardinality(a) /\ Cardinality(b) \in Nat /\ Cardinality(a) \in Nat
        /\ Cardinality(b) = Cardinality(a) => b = a
    BY <2>5, FS_Subset, FS_CardinalityType
  <2> QED
    BY <2>5, <2>6
<1> QED
  BY <1>4

LEMMA GreatestExists ==
    ASSUME NEW S, S \subseteq Int, IsFiniteSet(S), S # {}
    PROVE  \E i \in S : \A j \in S : j <= i
<1>1. PICK f : f = [i \in S |-> 0 - i]
  OBVIOUS
<1>2. \A i \in S : i \in Int /\ f[i] = 0 - i
  BY <1>1
<1>0. PICK T : T = {f[i] : i \in S}
  OBVIOUS
<1>3. T \subseteq Int /\ IsFiniteSet(T) /\ T # {}
  <2>1. T \subseteq Int
    BY <1>0, <1>2
  <2>2. T # {}
    BY <1>0
  <2>3. IsFiniteSet(T)
    BY <1>0, ImageFinite
  <2> QED
    BY <2>1, <2>2, <2>3
<1>4. PICK x \in T : \A y \in T : x <= y
  BY <1>3, LeastExists
<1>5. PICK i \in S : x = f[i]
  BY <1>0, <1>4
<1>6. \A j \in S : f[i] <= f[j]
  BY <1>0, <1>4, <1>5
<1>7. \A j \in S : j <= i
  <2> TAKE j \in S
  <2> QED
    BY <1>2, <1>6
<1> QED
  BY <1>7

LEMMA PositionsFinite ==
    ASSUME NEW S, NEW s \in Seq(S)
    PROVE  /\ DOMAIN s = 1..Len(s) /\ Len(s) \in Nat
           /\ IsFiniteSet(DOMAIN s) /\ Cardinality(DOMAIN s) = Len(s)
<1>1. DOMAIN s = 1..Len(s) /\ Len(s) \in Nat
  OBVIOUS
<1>2. 1 \in Int /\ Len(s) \in Int
  BY <1>1
<1>3. IsFiniteSet(1..Len(s)) /\ Cardinality(1..Len(s)) = IF 1 > Len(s) THEN 0 ELSE Len(s) - 1 + 1
  BY <1>2, FS_Interval
<1> QED
  BY <1>1, <1>3

-----------------------------------------------------------------------------
(* Values in order.                                                        *)
Below(f, v) == {i \in DOMAIN f : f[i] < v}
UpTo(f, v) == {i \in DOMAIN f : f[i] <= v}

LEMMA BelowCounts ==
    ASSUME NEW A, IsFiniteSet(A), NEW f \in [A -> Int], NEW v
    PROVE  /\ IsFiniteSet(Below(f, v)) /\ Cardinality(Below(f, v)) \in Nat
           /\ IsFiniteSet(UpTo(f, v)) /\ Cardinality(UpTo(f, v)) \in Nat
           /\ Cardinality(A) \in Nat
           /\ Cardinality(UpTo(f, v)) <= Cardinality(A)
           /\ Cardinality(UpTo(f, v)) = Cardinality(A) => UpTo(f, v) = A
           /\ Cardinality(Below(f, v)) = 0 => Below(f, v) = {}
<1>1. Below(f, v) \in SUBSET A /\ UpTo(f, v) \in SUBSET A
  BY DEF Below, UpTo
<1>2. IsFiniteSet(Below(f, v)) /\ IsFiniteSet(UpTo(f, v))
  BY <1>1, FS_Subset
<1>3. /\ Cardinality(Below(f, v)) \in Nat /\ Cardinality(UpTo(f, v)) \in Nat /\ Cardinality(A) \in Nat
  BY <1>2, FS_CardinalityType
<1>4. /\ Cardinality(UpTo(f, v)) <= Cardinality(A)
      /\ Cardinality(UpTo(f, v)) = Cardinality(A) => UpTo(f, v) = A
  BY <1>1, FS_Subset
<1>5. Cardinality(Below(f, v)) = 0 => Below(f, v) = {}
  BY <1>2, FS_EmptySet
<1> QED
  BY <1>2, <1>3, <1>4, <1>5

\* The k-th value is there whenever there are k.
LEMMA NthExists ==
    ASSUME NEW A, IsFiniteSet(A), NEW f \in [A -> Int], NEW k \in 1..Cardinality(A)
    PROVE  \E v \in Range(f) : Cardinality(Below(f, v)) < k /\ k <= Cardinality(UpTo(f, v))
<1>0. Cardinality(A) \in Nat /\ k \in Nat
  BY FS_CardinalityType
<1>1. Range(f) = {f[i] : i \in A}
  BY DEF Range
<1>2. Range(f) \subseteq Int /\ IsFiniteSet(Range(f))
  BY <1>1, ImageFinite
<1>3. Range(f) # {}
  <2>1. A # {}
    BY <1>0, FS_EmptySet
  <2> QED
    BY <1>1, <2>1
<1>5. PICK T : T = {v \in Range(f) : k <= Cardinality(UpTo(f, v))}
  OBVIOUS
<1>6. T # {}
  <2>1. PICK v \in Range(f) : \A y \in Range(f) : y <= v
    BY <1>2, <1>3, GreatestExists
  <2>2. UpTo(f, v) = A
    BY <1>1, <2>1 DEF UpTo
  <2>3. k <= Cardinality(UpTo(f, v))
    BY <1>0, <2>2
  <2> QED
    BY <1>5, <2>1, <2>3
<1>7. PICK v \in T : \A y \in T : v <= y
  <2>1. T \in SUBSET Range(f)
    BY <1>5
  <2>2. T \subseteq Int /\ IsFiniteSet(T)
    BY <1>2, <2>1, FS_Subset
  <2> QED
    BY <1>6, <2>2, LeastExists
<1>8. v \in Range(f) /\ v \in Int /\ k <= Cardinality(UpTo(f, v))
  BY <1>2, <1>5, <1>7
<1>9. ASSUME k <= Cardinality(Below(f, v)) PROVE FALSE
  <2>1. PICK B : B = {f[i] : i \in Below(f, v)}
    OBVIOUS
  <2>2. B \in SUBSET Range(f) /\ B \subseteq Int
    BY <1>1, <1>2, <2>1 DEF Below
  <2>3. IsFiniteSet(B)
    BY <1>2, <2>2, FS_Subset
  <2>4. Below(f, v) # {}
    <3>1. Cardinality(Below(f, v)) # 0
      BY <1>0, <1>9, BelowCounts
    <3> QED
      BY <3>1, FS_EmptySet
  <2>5. B # {}
    BY <2>1, <2>4
  <2>6. PICK u \in B : \A y \in B : y <= u
    BY <2>2, <2>3, <2>5, GreatestExists
  <2>7. u \in Range(f) /\ u \in Int /\ u < v
    BY <2>1, <2>2, <2>6 DEF Below
  <2>8. UpTo(f, u) = Below(f, v)
    <3>1. \A i \in A : f[i] \in Int /\ (f[i] < v => f[i] <= u)
      BY <2>1, <2>6 DEF Below
    <3>2. \A i \in A : f[i] <= u => f[i] < v
      BY <1>8, <2>7, <3>1
    <3> QED
      BY <3>1, <3>2 DEF UpTo, Below
  <2>9. u \in T
    BY <1>5, <1>9, <2>7, <2>8
  <2> QED
    BY <1>7, <1>8, <2>7, <2>9
<1>10. Cardinality(Below(f, v)) < k
  BY <1>0, <1>9, BelowCounts
<1> QED
  BY <1>8, <1>10

LEMMA SortedIs ==
    ASSUME NEW A, IsFiniteSet(A), NEW f \in [A -> Int]
    PROVE  /\ Sorted(f) \in Seq(Int) /\ Len(Sorted(f)) = Cardinality(A)
           /\ \A k \in 1..Cardinality(A) :
                 LET v == Sorted(f)[k]
                 IN  /\ v \in Range(f) /\ v \in Int
                     /\ Cardinality(Below(f, v)) < k /\ k <= Cardinality(UpTo(f, v))
<1>1. PICK n : n = Cardinality(A) /\ n \in Nat
  BY FS_CardinalityType
<1>2. PICK g : g = [k \in 1..n |-> CHOOSE v \in Range(f) : Cardinality(Below(f, v)) < k /\ k <= Cardinality(UpTo(f, v))]
  OBVIOUS
<1>3. Sorted(f) = g
  BY <1>1, <1>2 DEF Sorted, Below, UpTo
<1>4. ASSUME NEW k \in 1..n
      PROVE  /\ g[k] \in Range(f) /\ g[k] \in Int
             /\ Cardinality(Below(f, g[k])) < k /\ k <= Cardinality(UpTo(f, g[k]))
  <2>1. \E v \in Range(f) : Cardinality(Below(f, v)) < k /\ k <= Cardinality(UpTo(f, v))
    BY <1>1, NthExists
  <2>2. g[k] \in Range(f) /\ Cardinality(Below(f, g[k])) < k /\ k <= Cardinality(UpTo(f, g[k]))
    BY <1>2, <2>1
  <2> QED
    BY <2>2 DEF Range
<1>5. g \in Seq(Int) /\ Len(g) = n
  <2>1. g \in [1..n -> Int]
    BY <1>2, <1>4
  <2> QED
    BY <1>1, <2>1
<1> QED
  BY <1>1, <1>3, <1>4, <1>5

LEMMA SortedMonotone ==
    ASSUME NEW A, IsFiniteSet(A), NEW f \in [A -> Int], NEW k \in 1..Cardinality(A), NEW l \in 1..Cardinality(A), k <= l
    PROVE  Sorted(f)[k] <= Sorted(f)[l]
<1>0. Cardinality(A) \in Nat /\ k \in Nat /\ l \in Nat
  BY FS_CardinalityType
<1>1. PICK v, w : v = Sorted(f)[k] /\ w = Sorted(f)[l]
  OBVIOUS
<1>2. /\ v \in Int /\ Cardinality(Below(f, v)) < k
      /\ w \in Int /\ l <= Cardinality(UpTo(f, w))
  BY <1>1, SortedIs
<1>3. ASSUME w < v PROVE FALSE
  <2>1. \A i \in A : f[i] \in Int
    OBVIOUS
  <2>2. UpTo(f, w) \in SUBSET Below(f, v)
    BY <1>2, <1>3, <2>1 DEF UpTo, Below
  <2>3. IsFiniteSet(Below(f, v)) /\ Cardinality(UpTo(f, w)) \in Nat /\ Cardinality(Below(f, v)) \in Nat
    BY BelowCounts
  <2>4. Cardinality(UpTo(f, w)) <= Cardinality(Below(f, v))
    BY <2>2, <2>3, FS_Subset
  <2> QED
    BY <1>0, <1>2, <2>3, <2>4
<1> QED
  BY <1>1, <1>2, <1>3

\* Nothing is before the first or after the last.
LEMMA SortedEnds ==
    ASSUME NEW A, IsFiniteSet(A), NEW f \in [A -> Int], NEW x \in A
    PROVE  /\ Cardinality(A) \in Nat /\ Cardinality(A) >= 1
           /\ Sorted(f)[1] <= f[x] /\ f[x] <= Sorted(f)[Cardinality(A)]
<1>1. PICK n : n = Cardinality(A) /\ n \in Nat
  BY FS_CardinalityType
<1>2. n >= 1
  BY <1>1, FS_EmptySet
<1>3. PICK v, w : v = Sorted(f)[1] /\ w = Sorted(f)[n]
  OBVIOUS
<1>4. /\ v \in Int /\ Cardinality(Below(f, v)) < 1
      /\ w \in Int /\ n <= Cardinality(UpTo(f, w))
  BY <1>1, <1>2, <1>3, SortedIs
<1>5. Cardinality(Below(f, v)) \in Nat /\ Cardinality(UpTo(f, w)) \in Nat /\ Cardinality(UpTo(f, w)) <= n
  BY <1>1, BelowCounts
<1>6. Cardinality(Below(f, v)) = 0 /\ Cardinality(UpTo(f, w)) = n
  BY <1>1, <1>4, <1>5
<1>7. Below(f, v) = {} /\ UpTo(f, w) = A
  BY <1>1, <1>6, BelowCounts
<1>8. f[x] \in Int /\ ~ (f[x] < v) /\ f[x] <= w
  BY <1>7 DEF Below, UpTo
<1> QED
  BY <1>1, <1>2, <1>3, <1>4, <1>8

\* Values that occur once rise.
LEMMA SortedRises ==
    ASSUME NEW A, IsFiniteSet(A), NEW f \in [A -> Int], \A x, y \in A : f[x] = f[y] => x = y,
           NEW k \in 1..Cardinality(A), NEW l \in 1..Cardinality(A), k < l
    PROVE  Sorted(f)[k] < Sorted(f)[l]
<1>0. Cardinality(A) \in Nat /\ k \in Nat /\ l \in Nat
  BY FS_CardinalityType
<1>1. PICK v, w : v = Sorted(f)[k] /\ w = Sorted(f)[l]
  OBVIOUS
<1>2. v <= w
  BY <1>0, <1>1, SortedMonotone
<1>3. /\ v \in Int /\ v \in Range(f) /\ Cardinality(Below(f, v)) < k
      /\ w \in Int /\ l <= Cardinality(UpTo(f, w))
  BY <1>1, SortedIs
<1>4. ASSUME v = w PROVE FALSE
  <2>1. PICK x \in A : f[x] = v
    BY <1>3 DEF Range
  <2>2. \A y \in A : f[y] \in Int
    OBVIOUS
  <2>3. UpTo(f, v) = Below(f, v) \cup {x} /\ ~ (x \in Below(f, v))
    BY <1>3, <2>1, <2>2 DEF UpTo, Below
  <2>4. IsFiniteSet(Below(f, v)) /\ Cardinality(Below(f, v)) \in Nat
    BY BelowCounts
  <2>5. Cardinality(UpTo(f, v)) = Cardinality(Below(f, v)) + 1
    BY <2>3, <2>4, FS_AddElement
  <2> QED
    BY <1>0, <1>3, <1>4, <2>4, <2>5
<1> QED
  BY <1>1, <1>2, <1>3, <1>4
-----------------------------------------------------------------------------
(* Totals.                                                                 *)
Recurs(f, D, n, a, G) ==
    /\ f \in [0..n -> D]
    /\ f[0] = a /\ \A i \in 1..n : f[i] = G[i][f[i - 1]]

LEMMA RecursionExists ==
    ASSUME NEW n \in Nat, NEW D, NEW a \in D, NEW G \in [1..n -> [D -> D]]
    PROVE  \E f : Recurs(f, D, n, a, G)
<1> DEFINE Fits(f, k) == f[0] = a /\ \A i \in 1..k : f[i] = G[i][f[i - 1]]
           Reached == {k \in 0..n : \E f \in [0..k -> D] : Fits(f, k)}
<1>1. 0 \in Reached
  <2>1. [i \in 0..0 |-> a] \in [0..0 -> D] /\ Fits([i \in 0..0 |-> a], 0)
    OBVIOUS
  <2>2. 0 \in 0..n
    OBVIOUS
  <2> QED
    BY <2>1, <2>2
<1>2. ASSUME NEW k \in 1..n, k - 1 \in Reached PROVE k \in Reached
  <2>1. PICK f \in [0..(k - 1) -> D] : Fits(f, k - 1)
    BY <1>2
  <2>2. PICK g : g = [i \in 0..k |-> IF i < k THEN f[i] ELSE G[k][f[k - 1]]]
    OBVIOUS
  <2>3. k - 1 \in 0..(k - 1) /\ 0 \in 0..(k - 1) /\ 0 < k
    OBVIOUS
  <2>4. G[k][f[k - 1]] \in D
    BY <2>3
  <2>5. g \in [0..k -> D]
    BY <2>2, <2>4
  <2>6. g[0] = a
    BY <2>1, <2>2, <2>3
  <2>7. ASSUME NEW i \in 1..k PROVE g[i] = G[i][g[i - 1]]
    <3>1. i - 1 \in 0..k /\ i - 1 < k /\ i \in 0..k
      OBVIOUS
    <3>2. g[i - 1] = f[i - 1]
      BY <2>2, <3>1
    <3>3. CASE i = k
      BY <2>2, <3>1, <3>2, <3>3
    <3>4. CASE i # k
      <4>1. i \in 1..(k - 1) /\ i < k
        BY <3>4
      <4> QED
        BY <2>1, <2>2, <3>1, <3>2, <4>1
    <3> QED
      BY <3>3, <3>4
  <2>8. Fits(g, k)
    BY <2>6, <2>7
  <2>9. k \in 0..n
    OBVIOUS
  <2> HIDE DEF Fits
  <2> QED
    BY <2>5, <2>8, <2>9
<1>3. n \in Reached
  <2>1. \A k \in 1..n : k - 1 \in Reached => k \in Reached
    BY <1>2
  <2>2. n \in 0..n
    OBVIOUS
  <2> HIDE DEF Reached
  <2> QED
    BY <1>1, <2>1, <2>2, Climb
<1> QED
  BY <1>3 DEF Recurs

\* A total is the last of the partial ones.
Partial(f, s, n) ==
    /\ f \in [0..n -> Int] /\ f[0] = 0
    /\ \A i \in 1..n : f[i] = f[i - 1] + s[i]

LEMMA TotalUnfolds ==
    ASSUME NEW n \in Nat, NEW s \in [1..n -> Int]
    PROVE  \E f : Partial(f, s, n) /\ Total(s) = f[n]
<1>1. s \in Seq(Int) /\ Len(s) = n
  OBVIOUS
<1> DEFINE G == [i \in 1..n |-> [x \in Int |-> x + s[i]]]
<1>2. G \in [1..n -> [Int -> Int]] /\ 0 \in Int
  OBVIOUS
<1>3. PICK f : Recurs(f, Int, n, 0, G)
  <2> HIDE DEF G
  <2> QED
    BY <1>2, RecursionExists
<1>4. f \in [0..n -> Int] /\ f[0] = 0 /\ \A i \in 1..n : f[i] = G[i][f[i - 1]]
  <2> HIDE DEF G
  <2> QED
    BY <1>3 DEF Recurs
<1>5. ASSUME NEW i \in 1..n PROVE f[i] = f[i - 1] + s[i]
  <2>1. i - 1 \in 0..n
    OBVIOUS
  <2>2. f[i - 1] \in Int
    BY <1>4, <2>1
  <2> QED
    BY <1>4, <2>2
<1> HIDE DEF G
<1>6. f = [i \in 0..n |-> IF i = 0 THEN 0 ELSE f[i - 1] + s[i]]
  <2>1. \A i \in 0..n : i = 0 \/ i \in 1..n
    OBVIOUS
  <2> QED
    BY <1>4, <1>5, <2>1
<1>7. PICK sum : sum = CHOOSE g : g = [i \in 0..n |-> IF i = 0 THEN 0 ELSE g[i - 1] + s[i]]
  OBVIOUS
<1>8. sum = [i \in 0..n |-> IF i = 0 THEN 0 ELSE sum[i - 1] + s[i]]
  BY <1>6, <1>7
<1>9. Total(s) = sum[n]
  BY <1>1, <1>7 DEF Total
<1> DEFINE Reached == {k \in 0..n : sum[k] = f[k]}
<1>10. 0 \in Reached
  BY <1>4, <1>8
<1>11. ASSUME NEW k \in 1..n, k - 1 \in Reached PROVE k \in Reached
  <2>1. k \in 0..n /\ k # 0 /\ sum[k - 1] = f[k - 1]
    BY <1>11
  <2>2. sum[k] = IF k = 0 THEN 0 ELSE sum[k - 1] + s[k]
    BY <1>8, <2>1
  <2> QED
    BY <1>5, <2>1, <2>2
<1>12. 0..n \subseteq Reached
  <2> HIDE DEF Reached
  <2> QED
    BY <1>10, <1>11, Climb
<1>13. sum[n] = f[n]
  BY <1>12
<1>14. Partial(f, s, n)
  BY <1>4, <1>5 DEF Partial
<1> QED
  BY <1>9, <1>13, <1>14

LEMMA Distributes ==
    ASSUME NEW a \in Int, NEW b \in Int, NEW d \in Int
    PROVE  (a + b) * d = a * d + b * d
OBVIOUS

\* A total of naturals is one, and no less than any of them.
LEMMA TotalOfNaturals ==
    ASSUME NEW n \in Nat, NEW s \in [1..n -> Nat]
    PROVE  Total(s) \in Nat /\ \A i \in 1..n : s[i] <= Total(s)
<1>1. s \in [1..n -> Int]
  OBVIOUS
<1>2. PICK f : Partial(f, s, n) /\ Total(s) = f[n]
  BY <1>1, TotalUnfolds
<1>3. f \in [0..n -> Int] /\ f[0] = 0 /\ \A i \in 1..n : f[i] = f[i - 1] + s[i]
  BY <1>2 DEF Partial
<1> DEFINE Reached == {k \in 0..n : f[k] \in Nat /\ \A i \in 1..k : s[i] <= f[k]}
<1>4. 0 \in Reached
  BY <1>3
<1>5. ASSUME NEW k \in 1..n, k - 1 \in Reached PROVE k \in Reached
  <2>1. k \in 0..n /\ f[k - 1] \in Nat /\ \A i \in 1..(k - 1) : s[i] <= f[k - 1]
    BY <1>5
  <2>2. f[k] = f[k - 1] + s[k] /\ s[k] \in Nat
    BY <1>3
  <2>3. ASSUME NEW i \in 1..k PROVE s[i] <= f[k]
    <3>1. s[i] \in Nat
      OBVIOUS
    <3>2. CASE i = k
      BY <2>1, <2>2, <3>2
    <3>3. CASE i # k
      <4>1. i \in 1..(k - 1)
        BY <3>3
      <4> QED
        BY <2>1, <2>2, <3>1, <4>1
    <3> QED
      BY <3>2, <3>3
  <2> QED
    BY <2>1, <2>2, <2>3
<1>6. n \in Reached
  <2> HIDE DEF Reached
  <2>1. 0..n \subseteq Reached
    BY <1>4, <1>5, Climb
  <2> QED
    BY <2>1
<1> QED
  BY <1>2, <1>6

LEMMA TotalOfNothing ==
    ASSUME NEW n \in Nat, NEW s \in [1..n -> Int], \A i \in 1..n : s[i] = 0
    PROVE  Total(s) = 0
<1>1. s \in [1..n -> Nat]
  OBVIOUS
<1>2. PICK f : Partial(f, s, n) /\ Total(s) = f[n]
  BY TotalUnfolds
<1>3. f \in [0..n -> Int] /\ f[0] = 0 /\ \A i \in 1..n : f[i] = f[i - 1] + s[i]
  BY <1>2 DEF Partial
<1> DEFINE Reached == {k \in 0..n : f[k] = 0}
<1>4. 0 \in Reached
  BY <1>3
<1>5. ASSUME NEW k \in 1..n, k - 1 \in Reached PROVE k \in Reached
  BY <1>3, <1>5
<1>6. n \in Reached
  <2> HIDE DEF Reached
  <2>1. 0..n \subseteq Reached
    BY <1>4, <1>5, Climb
  <2> QED
    BY <2>1
<1> QED
  BY <1>2, <1>6

LEMMA NaturalsAreIntegers ==
    ASSUME NEW n, NEW s \in [1..n -> Nat]
    PROVE  s \in [1..n -> Int]
OBVIOUS

Gain(k, large, w) == IF k < large THEN 0 ELSE w

LEMMA GainOnce ==
    ASSUME NEW k \in Int, NEW large \in Int, NEW w \in Nat
    PROVE  /\ Gain(k - 1, large, w) \in Int /\ Gain(k, large, w) \in Int
           /\ \/ Gain(k, large, w) = Gain(k - 1, large, w)
              \/ k = large /\ Gain(k - 1, large, w) = 0 /\ Gain(k, large, w) = w
BY DEF Gain

LEMMA AddsTerm ==
    ASSUME NEW F0 \in Int, NEW S \in Int, NEW A \in Int, NEW B \in Int, NEW D \in Nat, NEW E \in Nat,
           NEW g0 \in Int, NEW g1 \in Int,
           F0 >= g0 - 2 * (A + B), S >= (- 2) * (D + E),
           g1 = g0 \/ (g0 = 0 /\ S >= g1)
    PROVE  F0 + S >= g1 - 2 * ((A + D) + (B + E))
OBVIOUS

\* Terms that are each little below nothing, one of them large.
LEMMA TotalAtLeast ==
    ASSUME NEW n \in Nat, NEW s \in [1..n -> Int], NEW C \in [1..n -> Nat], NEW R \in [1..n -> Nat],
           NEW c \in Nat, NEW r \in Nat, NEW w \in Nat, NEW large \in 1..n,
           \A i \in 1..n : s[i] >= (- 2) * (C[i] * r + R[i] * c),
           s[large] >= w
    PROVE  Total(s) >= w - 2 * (Total(C) * r + Total(R) * c)
<1>1. C \in [1..n -> Int] /\ R \in [1..n -> Int]
  BY NaturalsAreIntegers
<1>2. PICK f : Partial(f, s, n) /\ Total(s) = f[n]
  BY TotalUnfolds
<1>3. PICK g : Partial(g, C, n) /\ Total(C) = g[n]
  BY <1>1, TotalUnfolds
<1>4. PICK h : Partial(h, R, n) /\ Total(R) = h[n]
  BY <1>1, TotalUnfolds
<1>5. /\ f \in [0..n -> Int] /\ f[0] = 0 /\ \A i \in 1..n : f[i] = f[i - 1] + s[i]
      /\ g \in [0..n -> Int] /\ g[0] = 0 /\ \A i \in 1..n : g[i] = g[i - 1] + C[i]
      /\ h \in [0..n -> Int] /\ h[0] = 0 /\ \A i \in 1..n : h[i] = h[i - 1] + R[i]
  BY <1>2, <1>3, <1>4 DEF Partial
<1> DEFINE Reached == {k \in 0..n : f[k] >= Gain(k, large, w) - 2 * (g[k] * r + h[k] * c)}
<1>6. 0 \in Reached
  <2>1. Gain(0, large, w) = 0 /\ 0 \in 0..n
    BY DEF Gain
  <2>2. f[0] = 0 /\ g[0] = 0 /\ h[0] = 0
    BY <1>5
  <2>3. 0 * r = 0 /\ 0 * c = 0
    OBVIOUS
  <2>4. 0 >= 0 - 2 * (0 + 0)
    OBVIOUS
  <2>5. f[0] >= Gain(0, large, w) - 2 * (g[0] * r + h[0] * c)
    BY <2>1, <2>2, <2>3, <2>4
  <2> QED
    BY <2>1, <2>5
<1>7. ASSUME NEW k \in 1..n, k - 1 \in Reached PROVE k \in Reached
  <2>1. PICK F0, G0, H0, Fk, Gk, Hk, S, Ck, Rk :
            /\ F0 = f[k - 1] /\ G0 = g[k - 1] /\ H0 = h[k - 1]
            /\ Fk = f[k] /\ Gk = g[k] /\ Hk = h[k] /\ S = s[k] /\ Ck = C[k] /\ Rk = R[k]
    OBVIOUS
  <2>2. k - 1 \in 0..n /\ k \in 0..n
    OBVIOUS
  <2>3. /\ F0 \in Int /\ G0 \in Int /\ H0 \in Int /\ S \in Int /\ Ck \in Nat /\ Rk \in Nat
        /\ Fk = F0 + S /\ Gk = G0 + Ck /\ Hk = H0 + Rk
    BY <1>5, <2>1, <2>2
  <2>4. F0 >= Gain(k - 1, large, w) - 2 * (G0 * r + H0 * c)
    BY <1>7, <2>1
  <2>5. Gk * r = G0 * r + Ck * r /\ Hk * c = H0 * c + Rk * c
    BY <2>3, Distributes
  <2>6. S >= (- 2) * (Ck * r + Rk * c) /\ (k = large => S >= w)
    BY <2>1
  <2>7. PICK A, B, D, E : A = G0 * r /\ B = H0 * c /\ D = Ck * r /\ E = Rk * c
    OBVIOUS
  <2>8. A \in Int /\ B \in Int /\ D \in Nat /\ E \in Nat
    BY <2>3, <2>7
  <2>9. Fk >= Gain(k, large, w) - 2 * ((A + D) + (B + E))
    <3>1. PICK g0, g1 : g0 = Gain(k - 1, large, w) /\ g1 = Gain(k, large, w)
      OBVIOUS
    <3>2. g0 \in Int /\ g1 \in Int /\ (g1 = g0 \/ (k = large /\ g0 = 0 /\ g1 = w))
      <4>1. k \in Int /\ large \in Int
        OBVIOUS
      <4>2. /\ Gain(k - 1, large, w) \in Int /\ Gain(k, large, w) \in Int
            /\ \/ Gain(k, large, w) = Gain(k - 1, large, w)
               \/ k = large /\ Gain(k - 1, large, w) = 0 /\ Gain(k, large, w) = w
        BY <4>1, GainOnce, Zenon
      <4> QED
        BY <3>1, <4>2, Zenon
    <3>3. F0 >= g0 - 2 * (A + B) /\ S >= (- 2) * (D + E)
      BY <2>4, <2>6, <2>7, <3>1
    <3>4. g1 = g0 \/ (g0 = 0 /\ S >= g1)
      BY <2>6, <3>2
    <3>5. F0 + S >= g1 - 2 * ((A + D) + (B + E))
      BY <2>3, <2>8, <3>2, <3>3, <3>4, AddsTerm
    <3> QED
      BY <2>3, <3>1, <3>5
  <2>10. Fk >= Gain(k, large, w) - 2 * (Gk * r + Hk * c)
    BY <2>5, <2>7, <2>9
  <2> QED
    BY <2>1, <2>2, <2>10
<1>8. n \in Reached
  <2> HIDE DEF Reached
  <2>1. 0..n \subseteq Reached
    BY <1>6, <1>7, Climb
  <2> QED
    BY <2>1
<1>9. Gain(n, large, w) = w
  BY DEF Gain
<1> QED
  BY <1>2, <1>3, <1>4, <1>8, <1>9
-----------------------------------------------------------------------------
(* Histograms.                                                             *)
Value(o) == IF o.value = None THEN 0 ELSE o.value
Scaled(s) == [k \in DOMAIN s |-> Bins * Value(s[k])]

\* Where values x lie in the i-th of n bins, and where in the first i.
InBin(x, edges, n, i) == {k \in DOMAIN x : /\ edges[i] <= x[k]
                                           /\ x[k] < edges[i + 1] \/ (i = n /\ x[k] = edges[i + 1])}
InBins(x, edges, n, i) == {k \in DOMAIN x : /\ edges[1] <= x[k]
                                            /\ x[k] < edges[i + 1] \/ (i = n /\ x[k] = edges[i + 1])}

Rising(edges, n) ==
    /\ edges \in Seq(Int) /\ Len(edges) = n + 1
    /\ \A i, j \in DOMAIN edges : i < j => edges[i] < edges[j]

LEMMA HistogramIs ==
    ASSUME NEW n \in Nat \ {0}, NEW edges, Rising(edges, n), NEW s
    PROVE  Histogram(edges, s) = [i \in 1..n |-> Cardinality(InBin(Scaled(s), edges, n, i))]
<1>1. Len(edges) - 1 = n
  BY DEF Rising
<1>2. \A k \in DOMAIN s : Scaled(s)[k] = Bins * (IF s[k].value = None THEN 0 ELSE s[k].value)
  BY DEF Scaled, Value
<1>3. DOMAIN Scaled(s) = DOMAIN s
  BY DEF Scaled
<1> QED
  BY <1>1, <1>2, <1>3 DEF Histogram, InBin

\* One more bin takes what lies in it and nothing that an earlier one took.
LEMMA BinsAdd ==
    ASSUME NEW n \in Nat \ {0}, NEW edges, Rising(edges, n), NEW m \in Nat, NEW x \in [1..m -> Int],
           NEW i \in 1..n
    PROVE  /\ InBins(x, edges, n, i) = InBins(x, edges, n, i - 1) \cup InBin(x, edges, n, i)
           /\ InBins(x, edges, n, i - 1) \cap InBin(x, edges, n, i) = {}
<1>1. PICK a, b, d : a = edges[1] /\ b = edges[i] /\ d = edges[i + 1]
  OBVIOUS
<1>2. DOMAIN edges = 1..(n + 1) /\ 1 \in 1..(n + 1) /\ i \in 1..(n + 1) /\ i + 1 \in 1..(n + 1)
  BY DEF Rising
<1>3. a \in Int /\ b \in Int /\ d \in Int
  BY <1>1, <1>2 DEF Rising
<1>4. b < d /\ a <= b
  <2>0. i < i + 1 /\ i \in DOMAIN edges /\ i + 1 \in DOMAIN edges
    BY <1>2
  <2>1. b < d
    BY <1>1, <2>0 DEF Rising
  <2>2. i = 1 \/ 1 < i
    OBVIOUS
  <2>3. a = b \/ a < b
    BY <1>1, <1>2, <2>2 DEF Rising
  <2> QED
    BY <1>3, <2>1, <2>3
<1>5. i - 1 + 1 = i /\ i - 1 # n
  OBVIOUS
<1>6. InBins(x, edges, n, i - 1) = {k \in 1..m : a <= x[k] /\ x[k] < b}
  BY <1>1, <1>5 DEF InBins
<1>7. InBin(x, edges, n, i) = {k \in 1..m : b <= x[k] /\ (x[k] < d \/ (i = n /\ x[k] = d))}
  BY <1>1 DEF InBin
<1>8. InBins(x, edges, n, i) = {k \in 1..m : a <= x[k] /\ (x[k] < d \/ (i = n /\ x[k] = d))}
  BY <1>1 DEF InBins
<1>9. \A k \in 1..m : x[k] \in Int
  OBVIOUS
<1> QED
  BY <1>3, <1>4, <1>6, <1>7, <1>8, <1>9

LEMMA BinsFinite ==
    ASSUME NEW m \in Nat, NEW x \in [1..m -> Int], NEW edges, NEW n, NEW i
    PROVE  /\ IsFiniteSet(InBin(x, edges, n, i)) /\ Cardinality(InBin(x, edges, n, i)) \in Nat
           /\ IsFiniteSet(InBins(x, edges, n, i)) /\ Cardinality(InBins(x, edges, n, i)) \in Nat
           /\ Cardinality(InBins(x, edges, n, i)) <= m
<1>1. 1 \in Int /\ m \in Int
  OBVIOUS
<1>2. IsFiniteSet(1..m) /\ Cardinality(1..m) = (IF 1 > m THEN 0 ELSE m - 1 + 1)
  BY <1>1, FS_Interval
<1>3. InBin(x, edges, n, i) \in SUBSET (1..m) /\ InBins(x, edges, n, i) \in SUBSET (1..m)
  BY DEF InBin, InBins
<1>4. /\ IsFiniteSet(InBin(x, edges, n, i)) /\ IsFiniteSet(InBins(x, edges, n, i))
      /\ Cardinality(InBins(x, edges, n, i)) <= Cardinality(1..m)
  BY <1>2, <1>3, FS_Subset
<1>5. Cardinality(InBin(x, edges, n, i)) \in Nat /\ Cardinality(InBins(x, edges, n, i)) \in Nat
  BY <1>4, FS_CardinalityType
<1> QED
  BY <1>2, <1>4, <1>5

\* A histogram counts what lies between the first edge and the last, once.
LEMMA HistogramCounts ==
    ASSUME NEW n \in Nat \ {0}, NEW edges, Rising(edges, n), NEW m \in Nat, NEW s,
           Scaled(s) \in [1..m -> Int]
    PROVE  /\ Histogram(edges, s) \in [1..n -> Nat]
           /\ Total(Histogram(edges, s)) = Cardinality(InBins(Scaled(s), edges, n, n))
           /\ Total(Histogram(edges, s)) <= m
<1>1. PICK x \in [1..m -> Int] : x = Scaled(s)
  OBVIOUS
<1>2. PICK h : h = [i \in 1..n |-> Cardinality(InBin(x, edges, n, i))]
  OBVIOUS
<1>3. Histogram(edges, s) = h
  BY <1>1, <1>2, HistogramIs
<1>4. h \in [1..n -> Nat]
  BY <1>2, BinsFinite
<1>5. n \in Nat /\ h \in [1..n -> Int]
  BY <1>4
<1>6. PICK f : Partial(f, h, n) /\ Total(h) = f[n]
  BY <1>5, TotalUnfolds
<1>7. f \in [0..n -> Int] /\ f[0] = 0 /\ \A i \in 1..n : f[i] = f[i - 1] + h[i]
  BY <1>6 DEF Partial
<1> DEFINE Reached == {i \in 0..n : f[i] = Cardinality(InBins(x, edges, n, i))}
<1>8. 0 \in Reached
  <2>1. 1 \in DOMAIN edges /\ edges[1] \in Int
    BY DEF Rising
  <2>2. \A k \in 1..m : x[k] \in Int
    OBVIOUS
  <2>3. InBins(x, edges, n, 0) = {}
    BY <2>1, <2>2 DEF InBins
  <2>4. Cardinality(InBins(x, edges, n, 0)) = 0
    BY <2>3, FS_EmptySet
  <2> QED
    BY <1>7, <2>4
<1>9. ASSUME NEW i \in 1..n, i - 1 \in Reached PROVE i \in Reached
  <2>1. PICK A, B, U : A = InBins(x, edges, n, i - 1) /\ B = InBin(x, edges, n, i) /\ U = InBins(x, edges, n, i)
    OBVIOUS
  <2>2. U = A \cup B /\ A \cap B = {}
    BY <2>1, BinsAdd
  <2>3. IsFiniteSet(A) /\ IsFiniteSet(B) /\ Cardinality(A) \in Nat /\ Cardinality(B) \in Nat
    BY <2>1, BinsFinite
  <2>4. Cardinality(A \cup B) = Cardinality(A) + Cardinality(B) - Cardinality(A \cap B)
    BY <2>3, FS_Union
  <2>5. Cardinality(A \cap B) = 0
    BY <2>2, FS_EmptySet
  <2>6. Cardinality(U) = Cardinality(A) + Cardinality(B)
    BY <2>2, <2>3, <2>4, <2>5
  <2>7. f[i - 1] = Cardinality(A) /\ h[i] = Cardinality(B) /\ f[i] = f[i - 1] + h[i] /\ i \in 0..n
    BY <1>2, <1>7, <1>9, <2>1
  <2> QED
    BY <2>1, <2>6, <2>7
<1>10. n \in Reached
  <2> HIDE DEF Reached
  <2>1. 0..n \subseteq Reached
    BY <1>5, <1>8, <1>9, Climb
  <2> QED
    BY <1>5, <2>1
<1>11. Total(h) = Cardinality(InBins(x, edges, n, n))
  BY <1>6, <1>10
<1> QED
  BY <1>1, <1>3, <1>4, <1>11, BinsFinite

LEMMA HistogramCovers ==
    ASSUME NEW n \in Nat \ {0}, NEW edges, Rising(edges, n), NEW m \in Nat, NEW s,
           Scaled(s) \in [1..m -> Int],
           \A k \in 1..m : edges[1] <= Scaled(s)[k] /\ Scaled(s)[k] <= edges[n + 1]
    PROVE  Total(Histogram(edges, s)) = m
<1>1. PICK x \in [1..m -> Int] : x = Scaled(s)
  OBVIOUS
<1>2. n + 1 \in DOMAIN edges /\ edges[n + 1] \in Int
  BY DEF Rising
<1>3. InBins(x, edges, n, n) = 1..m
  <2>1. \A k \in 1..m : x[k] \in Int /\ edges[1] <= x[k] /\ (x[k] < edges[n + 1] \/ x[k] = edges[n + 1])
    BY <1>1, <1>2
  <2> QED
    BY <2>1 DEF InBins
<1>4. 1 \in Int /\ m \in Int
  OBVIOUS
<1>5. Cardinality(1..m) = (IF 1 > m THEN 0 ELSE m - 1 + 1)
  BY <1>4, FS_Interval
<1>6. Total(Histogram(edges, s)) = Cardinality(InBins(x, edges, n, n))
  BY <1>1, HistogramCounts
<1> QED
  BY <1>3, <1>5, <1>6
-----------------------------------------------------------------------------
(***************************************************************************)
(* The stability index.  With the larger product the logarithms are the    *)
(* larger too, but for their rounding, so a term falls below nothing only  *)
(* by twice its products; a bin that holds a tenth of the reference and    *)
(* nothing of the window has a term of more than a hundred times the whole.*)
(***************************************************************************)
LEMMA ProductsTyped ==
    ASSUME NEW a \in Nat, NEW b \in Nat
    PROVE  a * b \in Nat
OBVIOUS

LEMMA AtLeastTwice ==
    ASSUME NEW p \in Nat, NEW q \in Nat, NEW d \in Int,
           p >= q => d >= - 2, p <= q => d <= 2
    PROVE  (p - q) * d >= (- 2) * (p + q)
<1>1. CASE p >= q
  <2>1. PICK a : a = p - q
    OBVIOUS
  <2>2. a \in Nat /\ d + 2 \in Nat /\ a <= p + q
    BY <1>1, <2>1
  <2>3. a * (d + 2) >= 0
    BY <2>2, ProductsTyped
  <2>4. a * (d + 2) = a * d + 2 * a
    BY <2>2
  <2>5. a * d \in Int
    BY <2>2
  <2>6. a * d >= (- 2) * (p + q)
    BY <2>2, <2>3, <2>4, <2>5
  <2> QED
    BY <2>1, <2>6
<1>2. CASE p <= q
  <2>1. PICK a : a = q - p
    OBVIOUS
  <2>2. a \in Nat /\ 2 - d \in Nat /\ a <= p + q
    BY <1>2, <2>1
  <2>3. a * (2 - d) >= 0
    BY <2>2, ProductsTyped
  <2>4. a * (2 - d) = 2 * a - a * d
    BY <2>2
  <2>5. a * d \in Int /\ (p - q) * d = 0 - a * d
    BY <2>1, <2>2
  <2> QED
    BY <2>2, <2>3, <2>4, <2>5
<1> QED
  BY <1>1, <1>2

LEMMA LogTyped ==
    ASSUME NEW k \in DOMAIN LogOf
    PROVE  LogOf[k] \in Nat /\ LogOf[k] + LogEpsilon <= 0 /\ k \in Nat /\ k > 0
<1>1. LogOf \in Seq(Nat) /\ \A n \in DOMAIN LogOf : LogOf[n] + LogEpsilon <= 0
  BY LogAssumption
<1> QED
  BY <1>1

LEMMA EpsilonIs == LogEpsilon \in Int /\ LogEpsilon <= - 1382
BY DEF LogEpsilon

LEMMA LogOrder ==
    ASSUME NEW a \in DOMAIN LogOf, NEW b \in DOMAIN LogOf, NEW c \in DOMAIN LogOf, NEW d \in DOMAIN LogOf,
           a * b >= c * d
    PROVE  LogOf[a] + LogOf[b] + 2 >= LogOf[c] + LogOf[d]
<1>1. \A i, j, k, l \in DOMAIN LogOf : i * j >= k * l => LogOf[i] + LogOf[j] + 2 >= LogOf[k] + LogOf[l]
  BY LogAssumption, Zenon
<1> QED
  BY <1>1, Zenon

LEMMA LogTenth ==
    ASSUME NEW a \in DOMAIN LogOf, NEW b \in DOMAIN LogOf, 10 * a >= b
    PROVE  LogOf[b] - LogOf[a] <= 232
<1>1. LogOf \in Seq(Nat) /\ Len(LogOf) >= 10 /\ LogOf[1] = 0 /\ LogOf[10] = 230
  BY LogAssumption
<1>2. 1 \in DOMAIN LogOf /\ 10 \in DOMAIN LogOf
  BY <1>1
<1>3. a \in Nat /\ b \in Nat /\ LogOf[a] \in Int /\ LogOf[b] \in Int
  BY LogTyped
<1>4. 10 * a >= b * 1
  BY <1>3
<1>5. LogOf[10] + LogOf[a] + 2 >= LogOf[b] + LogOf[1]
  BY <1>2, <1>4, LogOrder
<1> QED
  BY <1>1, <1>3, <1>5

\* A count that is part of a total has a logarithm.
LEMMA PartHasLog ==
    ASSUME NEW t \in DOMAIN LogOf, NEW x \in Nat, x <= t, x # 0
    PROVE  x \in DOMAIN LogOf
<1>1. LogOf \in Seq(Nat)
  BY LogAssumption
<1>2. DOMAIN LogOf = 1..Len(LogOf) /\ Len(LogOf) \in Nat
  BY <1>1
<1> QED
  BY <1>2

LEMMA LogShareTyped ==
    ASSUME NEW t \in DOMAIN LogOf, NEW x \in Nat, x <= t
    PROVE  LogShare(x, t) \in Int
<1>1. CASE x = 0
  BY <1>1, EpsilonIs DEF LogShare
<1>2. CASE x # 0
  <2>1. x \in DOMAIN LogOf
    BY <1>2, PartHasLog
  <2>2. LogOf[x] \in Int /\ LogOf[t] \in Int
    BY <2>1, LogTyped
  <2> QED
    BY <1>2, <2>2 DEF LogShare
<1> QED
  BY <1>1, <1>2

Term(x, r, y, c) == (y * r - x * c) * (LogShare(y, c) - LogShare(x, r))

LEMMA TermTyped ==
    ASSUME NEW r \in DOMAIN LogOf, NEW c \in DOMAIN LogOf, NEW x \in Nat, x <= r, NEW y \in Nat, y <= c
    PROVE  /\ Term(x, r, y, c) \in Int
           /\ y * r = x * c => Term(x, r, y, c) = 0
<1>1. PICK p, q, d : p = y * r /\ q = x * c /\ d = LogShare(y, c) - LogShare(x, r)
  OBVIOUS
<1>2. r \in Nat /\ c \in Nat
  BY LogTyped
<1>3. p \in Nat /\ q \in Nat
  BY <1>1, <1>2, ProductsTyped
<1>4. d \in Int
  BY <1>1, LogShareTyped
<1>5. (p - q) * d \in Int /\ (p = q => (p - q) * d = 0)
  BY <1>3, <1>4
<1> QED
  BY <1>1, <1>5 DEF Term

\* Which way the logarithms of two shares differ.
LEMMA LogsFollow ==
    ASSUME NEW r \in DOMAIN LogOf, NEW c \in DOMAIN LogOf, NEW x \in Nat, x <= r, NEW y \in Nat, y <= c
    PROVE  /\ y * r >= x * c => LogShare(y, c) - LogShare(x, r) >= - 2
           /\ y * r <= x * c => LogShare(y, c) - LogShare(x, r) <= 2
<1>1. /\ r \in Nat /\ c \in Nat /\ r > 0 /\ c > 0 /\ LogEpsilon \in Int
      /\ LogOf[r] \in Nat /\ LogOf[r] + LogEpsilon <= 0 /\ LogOf[c] \in Nat /\ LogOf[c] + LogEpsilon <= 0
  BY LogTyped, EpsilonIs
<1>2. CASE x = 0 /\ y = 0
  BY <1>1, <1>2 DEF LogShare
<1>3. CASE x = 0 /\ y # 0
  <2>1. y \in DOMAIN LogOf
    BY <1>3, PartHasLog
  <2>2. LogOf[y] \in Nat
    BY <2>1, LogTyped
  <2>3. LogShare(y, c) = LogOf[y] - LogOf[c] /\ LogShare(x, r) = LogEpsilon
    BY <1>3 DEF LogShare
  <2>4. LogShare(y, c) - LogShare(x, r) >= - 2
    BY <1>1, <2>2, <2>3
  <2>5. x * c = 0 /\ y * r # 0 /\ y * r \in Nat
    BY <1>1, <1>3
  <2> QED
    BY <2>4, <2>5
<1>4. CASE x # 0 /\ y = 0
  <2>1. x \in DOMAIN LogOf
    BY <1>4, PartHasLog
  <2>2. LogOf[x] \in Nat
    BY <2>1, LogTyped
  <2>3. LogShare(x, r) = LogOf[x] - LogOf[r] /\ LogShare(y, c) = LogEpsilon
    BY <1>4 DEF LogShare
  <2>4. LogShare(y, c) - LogShare(x, r) <= 2
    BY <1>1, <2>2, <2>3
  <2>5. y * r = 0 /\ x * c # 0 /\ x * c \in Nat
    BY <1>1, <1>4
  <2> QED
    BY <2>4, <2>5
<1>5. CASE x # 0 /\ y # 0
  <2>1. x \in DOMAIN LogOf /\ y \in DOMAIN LogOf
    BY <1>5, PartHasLog
  <2>2. LogOf[x] \in Int /\ LogOf[y] \in Int
    BY <2>1, LogTyped
  <2>3. LogShare(x, r) = LogOf[x] - LogOf[r] /\ LogShare(y, c) = LogOf[y] - LogOf[c]
    BY <1>5 DEF LogShare
  <2>4. y * r >= x * c => LogOf[y] + LogOf[r] + 2 >= LogOf[x] + LogOf[c]
    BY <2>1, LogOrder, Zenon
  <2>5. x * c >= y * r => LogOf[x] + LogOf[c] + 2 >= LogOf[y] + LogOf[r]
    BY <2>1, LogOrder, Zenon
  <2>6. PICK p, q : p = y * r /\ q = x * c
    OBVIOUS
  <2>7. p \in Nat /\ q \in Nat
    BY <1>1, <2>6, ProductsTyped
  <2>8. p >= q => LogShare(y, c) - LogShare(x, r) >= - 2
    BY <1>1, <2>2, <2>3, <2>4, <2>6
  <2>9. p <= q => LogShare(y, c) - LogShare(x, r) <= 2
    <3>1. p <= q => q >= p
      BY <2>7
    <3> QED
      BY <1>1, <2>2, <2>3, <2>5, <2>6, <3>1
  <2> QED
    BY <2>6, <2>8, <2>9
<1> QED
  BY <1>2, <1>3, <1>4, <1>5

LEMMA TermAtLeast ==
    ASSUME NEW r \in DOMAIN LogOf, NEW c \in DOMAIN LogOf, NEW x \in Nat, x <= r, NEW y \in Nat, y <= c
    PROVE  Term(x, r, y, c) >= (- 2) * (y * r + x * c)
<1>1. PICK p, q, d : p = y * r /\ q = x * c /\ d = LogShare(y, c) - LogShare(x, r)
  OBVIOUS
<1>2. r \in Nat /\ c \in Nat
  BY LogTyped
<1>3. p \in Nat /\ q \in Nat
  BY <1>1, <1>2, ProductsTyped
<1>4. d \in Int
  BY <1>1, LogShareTyped
<1>5. (p >= q => d >= - 2) /\ (p <= q => d <= 2)
  BY <1>1, LogsFollow, Zenon
<1>6. (p - q) * d >= (- 2) * (p + q)
  BY <1>3, <1>4, <1>5, AtLeastTwice
<1> QED
  BY <1>1, <1>6 DEF Term

LEMMA TermOfEmptied ==
    ASSUME NEW r \in DOMAIN LogOf, NEW c \in DOMAIN LogOf, NEW x \in Nat, x <= r, 10 * x >= r
    PROVE  Term(x, r, 0, c) >= 115 * (r * c)
<1>1. r \in Nat /\ c \in Nat /\ r > 0 /\ c > 0 /\ LogOf[r] \in Nat
  BY LogTyped
<1>2. x # 0
  BY <1>1
<1>3. x \in DOMAIN LogOf
  BY <1>2, PartHasLog
<1>4. LogOf[x] \in Nat /\ LogOf[r] - LogOf[x] <= 232
  BY <1>3, LogTyped, LogTenth
<1>5. PICK d : d = LogShare(x, r) - LogShare(0, c)
  OBVIOUS
<1>6. LogShare(x, r) = LogOf[x] - LogOf[r] /\ LogShare(0, c) = LogEpsilon
  BY <1>2 DEF LogShare
<1>7. d \in Int /\ d >= 1150 /\ LogShare(0, c) - LogShare(x, r) = - d
  BY <1>1, <1>4, <1>5, <1>6, EpsilonIs
<1>8. PICK q : q = x * c
  OBVIOUS
<1>9. q \in Nat
  BY <1>1, <1>8, ProductsTyped
<1>10. 10 * q >= r * c
  <2>1. (10 * x - r) \in Nat
    BY <1>1
  <2>2. (10 * x - r) * c \in Nat
    BY <1>1, <2>1, ProductsTyped
  <2>3. (10 * x - r) * c = 10 * (x * c) - r * c
    BY <1>1
  <2>4. r * c \in Nat
    BY <1>1, ProductsTyped
  <2> QED
    BY <1>8, <1>9, <2>2, <2>3, <2>4
<1>11. q * d >= 1150 * q
  <2>1. d - 1150 \in Nat
    BY <1>7
  <2>2. q * (d - 1150) \in Nat
    BY <1>9, <2>1, ProductsTyped
  <2>3. q * (d - 1150) = q * d - 1150 * q /\ q * d \in Int
    BY <1>7, <1>9
  <2> QED
    BY <1>9, <2>2, <2>3
<1>12. Term(x, r, 0, c) = q * d
  <2>1. 0 * r = 0
    BY <1>1
  <2>2. Term(x, r, 0, c) = (0 - q) * (- d)
    BY <1>7, <1>8, <2>1 DEF Term
  <2> QED
    BY <1>7, <1>9, <2>2
<1>13. r * c \in Nat /\ q * d \in Int
  BY <1>1, <1>7, <1>9, ProductsTyped
<1>14. PICK e, f : e = r * c /\ f = q * d
  OBVIOUS
<1>15. f >= 115 * e
  BY <1>9, <1>10, <1>11, <1>13, <1>14
<1> QED
  BY <1>12, <1>14, <1>15
-----------------------------------------------------------------------------
(* What the trigger tells apart.                                           *)
Terms(R, C, n) == [i \in 1..n |-> Term(R[i], Total(R), C[i], Total(C))]

LEMMA ShiftedIs ==
    ASSUME NEW n, NEW R \in [1..n -> Nat], NEW C \in [1..n -> Nat]
    PROVE  Shifted(R, C) <=> \/ Total(R) = 0 \/ Total(C) = 0
                             \/ Total(Terms(R, C, n)) >= 25 * Total(R) * Total(C)
<1>1. PICK r, c : r = Total(R) /\ c = Total(C)
  OBVIOUS
<1>2. DOMAIN R = 1..n
  OBVIOUS
<1>3. PICK T : T = [i \in DOMAIN R |-> (C[i] * r - R[i] * c) * (LogShare(C[i], c) - LogShare(R[i], r))]
  OBVIOUS
<1>4. Shifted(R, C) <=> r = 0 \/ c = 0 \/ Total(T) >= PsiTrigger * r * c
  BY <1>1, <1>3 DEF Shifted
<1>5. Terms(R, C, n) = T
  BY <1>1, <1>2, <1>3 DEF Terms, Term
<1>6. PsiTrigger = 25
  BY DEF PsiTrigger
<1> QED
  BY <1>1, <1>4, <1>5, <1>6

LEMMA TermsTyped ==
    ASSUME NEW n \in Nat, NEW R \in [1..n -> Nat], NEW C \in [1..n -> Nat],
           Total(R) \in DOMAIN LogOf, Total(C) \in DOMAIN LogOf
    PROVE  /\ Terms(R, C, n) \in [1..n -> Int]
           /\ \A i \in 1..n : /\ R[i] \in Nat /\ R[i] <= Total(R)
                              /\ C[i] \in Nat /\ C[i] <= Total(C)
<1>1. \A i \in 1..n : R[i] \in Nat /\ R[i] <= Total(R) /\ C[i] \in Nat /\ C[i] <= Total(C)
  BY TotalOfNaturals
<1>2. \A i \in 1..n : Term(R[i], Total(R), C[i], Total(C)) \in Int
  BY <1>1, TermTyped
<1> QED
  BY <1>1, <1>2 DEF Terms

\* A window that is not drifting reaches every bin with a tenth of the
\* reference.
LEMMA StableReaches ==
    ASSUME NEW n \in Nat, NEW R \in [1..n -> Nat], NEW C \in [1..n -> Nat],
           Total(R) \in DOMAIN LogOf, Total(C) \in DOMAIN LogOf,
           ~ Shifted(R, C), NEW i \in 1..n, 10 * R[i] >= Total(R)
    PROVE  C[i] > 0
<1> SUFFICES ASSUME ~ (C[i] > 0) PROVE FALSE
  OBVIOUS
<1>1. C[i] = 0
  OBVIOUS
<1>2. PICK T : T = Terms(R, C, n)
  OBVIOUS
<1>3. T \in [1..n -> Int] /\ \A k \in 1..n : R[k] \in Nat /\ R[k] <= Total(R) /\ C[k] \in Nat /\ C[k] <= Total(C)
  BY <1>2, TermsTyped
<1>4. PICK r, c : r = Total(R) /\ c = Total(C)
  OBVIOUS
<1>5. r \in DOMAIN LogOf /\ c \in DOMAIN LogOf /\ r \in Nat /\ c \in Nat /\ r > 0 /\ c > 0
  BY <1>4, LogTyped
<1>6. \A k \in 1..n : T[k] = Term(R[k], r, C[k], c)
  BY <1>2, <1>4 DEF Terms
<1>7. \A k \in 1..n : T[k] >= (- 2) * (C[k] * r + R[k] * c)
  <2> TAKE k \in 1..n
  <2>1. R[k] \in Nat /\ R[k] <= r /\ C[k] \in Nat /\ C[k] <= c
    BY <1>3, <1>4
  <2>2. Term(R[k], r, C[k], c) >= (- 2) * (C[k] * r + R[k] * c)
    BY <1>5, <2>1, TermAtLeast, Zenon
  <2> QED
    BY <1>6, <2>2, Zenon
<1>8. PICK e : e = r * c
  OBVIOUS
<1>9. e \in Nat /\ e > 0
  BY <1>5, <1>8
<1>10. T[i] >= 115 * e
  <2>1. R[i] \in Nat /\ R[i] <= r /\ 10 * R[i] >= r
    BY <1>3, <1>4
  <2>2. Term(R[i], r, 0, c) >= 115 * e
    BY <1>5, <1>8, <2>1, TermOfEmptied, Zenon
  <2> QED
    BY <1>1, <1>6, <2>2, Zenon
<1>11. PICK w : w = 115 * e /\ w \in Nat
  BY <1>9
<1>12. T[i] >= w
  BY <1>10, <1>11
<1>13. Total(T) >= w - 2 * (Total(C) * r + Total(R) * c)
  BY <1>3, <1>5, <1>7, <1>11, <1>12, TotalAtLeast, Zenon
<1>14. Total(C) * r = e /\ Total(R) * c = e
  BY <1>4, <1>5, <1>8
<1>15. Total(T) >= w - 2 * (e + e)
  BY <1>13, <1>14, Zenon
<1>16. ~ (Total(T) >= 25 * r * c)
  BY <1>2, <1>4, ShiftedIs, Zenon
<1>17. 25 * r * c = 25 * e
  BY <1>5, <1>8
<1>18. Total(T) \in Int
  <2>1. PICK f : Partial(f, T, n) /\ Total(T) = f[n]
    BY <1>3, TotalUnfolds
  <2> QED
    BY <2>1 DEF Partial
<1>19. PICK tot : tot = Total(T)
  OBVIOUS
<1>20. tot \in Int /\ tot >= w - 2 * (e + e) /\ ~ (tot >= 25 * e)
  BY <1>15, <1>16, <1>17, <1>18, <1>19, Zenon
<1> QED
  BY <1>9, <1>11, <1>20

\* A window that is spread as the reference is does not drift.
LEMMA AlikeStable ==
    ASSUME NEW n \in Nat, NEW R \in [1..n -> Nat], NEW C \in [1..n -> Nat],
           Total(R) \in DOMAIN LogOf, Total(C) \in DOMAIN LogOf,
           \A i \in 1..n : C[i] * Total(R) = R[i] * Total(C)
    PROVE  ~ Shifted(R, C)
<1>1. PICK r, c : r = Total(R) /\ c = Total(C)
  OBVIOUS
<1>2. r \in DOMAIN LogOf /\ c \in DOMAIN LogOf /\ r \in Nat /\ c \in Nat /\ r > 0 /\ c > 0
  BY <1>1, LogTyped
<1>3. PICK T : T = Terms(R, C, n)
  OBVIOUS
<1>4. T \in [1..n -> Int] /\ \A k \in 1..n : R[k] \in Nat /\ R[k] <= r /\ C[k] \in Nat /\ C[k] <= c
  BY <1>1, <1>3, TermsTyped
<1>5. \A k \in 1..n : T[k] = 0
  <2> TAKE k \in 1..n
  <2>1. C[k] * r = R[k] * c
    BY <1>1
  <2>2. Term(R[k], r, C[k], c) = 0
    BY <1>2, <1>4, <2>1, TermTyped, Zenon
  <2> QED
    BY <1>1, <1>3, <2>2 DEF Terms
<1>6. Total(T) = 0
  BY <1>4, <1>5, TotalOfNothing
<1>7. r * c > 0 /\ r * c \in Nat
  BY <1>2
<1>8. 25 * r * c = 25 * (r * c)
  BY <1>2
<1>9. PICK e : e = r * c
  OBVIOUS
<1>10. ~ (0 >= 25 * e)
  BY <1>7, <1>9
<1>11. ~ (Total(T) >= 25 * r * c)
  BY <1>6, <1>8, <1>9, <1>10, Zenon
<1>12. r # 0 /\ c # 0
  BY <1>2
<1> QED
  BY <1>1, <1>3, <1>11, <1>12, ShiftedIs, Zenon
-----------------------------------------------------------------------------
(* Quantiles, and the profile made of them.                                *)
LEMMA Quotient ==
    ASSUME NEW n \in Int, NEW d \in Nat \ {0}
    PROVE  /\ n \div d \in Int /\ n % d \in 0..(d - 1)
           /\ n = d * (n \div d) + (n % d)
  OBVIOUS

LEMMA FactorLess ==
    ASSUME NEW a \in Int, NEW b \in Int, NEW d \in Nat \ {0}, d * a < d * (b + 1)
    PROVE  a <= b
  OBVIOUS

InOrder(values) == \A i, j \in DOMAIN values : i <= j => values[i] <= values[j]

\* A column: values in order, at least one.
Column(values) == values \in Seq(Int) /\ values # <<>> /\ InOrder(values)

LEMMA QuantileTyped ==
    ASSUME NEW values, Column(values), NEW k \in 0..Bins
    PROVE  /\ Quantile(values, k) \in Int
           /\ k = 0 => Quantile(values, k) = Bins * values[1]
           /\ k = Bins => Quantile(values, k) = Bins * values[Len(values)]
<1>1. PICK m : m = Len(values)
  OBVIOUS
<1>2. m \in Nat /\ m >= 1 /\ \A i \in 1..m : values[i] \in Int
  BY <1>1 DEF Column
<1>3. Bins \in Nat \ {0}
  BY WindowAssumption
<1>4. PICK pos, q, rest : pos = k * (m - 1) /\ q = pos \div Bins /\ rest = pos % Bins
  OBVIOUS
<1>5. pos \in Nat /\ k \in Nat /\ m - 1 \in Nat
  BY <1>2, <1>3, <1>4, ProductsTyped
<1>6. q \in Int /\ rest \in 0..(Bins - 1) /\ pos = Bins * q + rest
  <2>1. pos \in Int
    BY <1>5
  <2>2. /\ pos \div Bins \in Int /\ pos % Bins \in 0..(Bins - 1)
        /\ pos = Bins * (pos \div Bins) + (pos % Bins)
    BY <1>3, <2>1, Quotient, Zenon
  <2> QED
    BY <1>4, <2>2, Zenon
<1>7. pos <= Bins * (m - 1)
  <2>1. Bins - k \in Nat
    BY <1>3
  <2>2. (Bins - k) * (m - 1) \in Nat
    BY <1>5, <2>1, ProductsTyped
  <2>3. (Bins - k) * (m - 1) = Bins * (m - 1) - k * (m - 1)
    BY <1>3, <1>5
  <2> QED
    BY <1>4, <1>3, <1>5, <2>2, <2>3
<1>8. q <= m - 1
  <2>1. Bins * ((m - 1) + 1) = Bins * (m - 1) + Bins
    BY <1>2, <1>3
  <2>2. Bins * q < Bins * ((m - 1) + 1)
    BY <1>2, <1>3, <1>6, <1>7, <2>1
  <2>3. m - 1 \in Int
    BY <1>2
  <2> QED
    BY <1>3, <1>6, <2>2, <2>3, FactorLess
<1>9. q >= 0
  <2>1. Bins * 0 < Bins * (q + 1)
    <3>1. Bins * (q + 1) = Bins * q + Bins /\ Bins * 0 = 0
      BY <1>3, <1>6
    <3> QED
      BY <1>3, <1>5, <1>6, <3>1
  <2>2. 0 \in Int
    OBVIOUS
  <2> QED
    BY <1>3, <1>6, <2>1, <2>2, FactorLess
<1>10. PICK at, next : at = q + 1 /\ next = Min({at + 1, m})
  OBVIOUS
<1>11. at \in 1..m /\ next \in 1..m
  <2>1. at \in 1..m
    BY <1>2, <1>6, <1>8, <1>9, <1>10
  <2>2. next = IF at + 1 <= m THEN at + 1 ELSE m
    BY <1>2, <1>10, <2>1, MinOfTwo
  <2> QED
    BY <1>2, <2>1, <2>2
<1>12. Quantile(values, k) = Bins * values[at] + rest * (values[next] - values[at])
  BY <1>1, <1>4, <1>10 DEF Quantile
<1>13. PICK v, w : v = values[at] /\ w = values[next]
  OBVIOUS
<1>14. v \in Int /\ w \in Int
  BY <1>2, <1>11, <1>13
<1>15. Bins * v \in Int /\ rest * (w - v) \in Int /\ (rest = 0 => rest * (w - v) = 0)
  BY <1>3, <1>6, <1>14
<1>16. Quantile(values, k) \in Int /\ (rest = 0 => Quantile(values, k) = Bins * values[at])
  BY <1>12, <1>13, <1>15
<1>17. ASSUME k = 0 PROVE q = 0 /\ rest = 0
  <2>1. pos = 0
    BY <1>2, <1>4, <1>17
  <2>2. Bins * q \in Nat
    BY <1>3, <1>6, <1>9, ProductsTyped
  <2>3. Bins * q = 0 /\ rest = 0
    BY <1>6, <2>1, <2>2
  <2> QED
    BY <1>3, <1>6, <2>3
<1>18. ASSUME k = Bins PROVE q = m - 1 /\ rest = 0
  <2>1. pos = Bins * (m - 1)
    BY <1>4, <1>18
  <2>2. Bins * (m - 1) < Bins * (q + 1)
    <3>1. Bins * (q + 1) = Bins * q + Bins /\ Bins * q \in Int
      BY <1>3, <1>6
    <3> QED
      BY <1>3, <1>6, <2>1, <3>1
  <2>3. m - 1 <= q
    BY <1>2, <1>3, <1>6, <2>2, FactorLess
  <2>4. q = m - 1
    BY <1>2, <1>6, <1>8, <2>3
  <2> QED
    BY <1>3, <1>5, <1>6, <2>1, <2>4
<1>19. k = 0 => Quantile(values, k) = Bins * values[1]
  BY <1>6, <1>10, <1>16, <1>17
<1>20. k = Bins => Quantile(values, k) = Bins * values[Len(values)]
  BY <1>1, <1>2, <1>6, <1>10, <1>16, <1>18
<1> QED
  BY <1>16, <1>19, <1>20

Quantiles(values) == {Quantile(values, k) : k \in 0..Bins}

LEMMA QuantilesFinite ==
    ASSUME NEW values, Column(values)
    PROVE  /\ Quantiles(values) \subseteq Int /\ IsFiniteSet(Quantiles(values))
           /\ Bins * values[1] \in Quantiles(values)
           /\ Bins * values[Len(values)] \in Quantiles(values)
<1>1. Bins \in Nat \ {0} /\ 0 \in 0..Bins /\ Bins \in 0..Bins
  BY WindowAssumption
<1>2. IsFiniteSet(0..Bins)
  BY <1>1, FS_Interval
<1>3. PICK f : f = [k \in 0..Bins |-> Quantile(values, k)]
  OBVIOUS
<1>4. Quantiles(values) = {f[k] : k \in 0..Bins}
  BY <1>3 DEF Quantiles
<1>5. IsFiniteSet(Quantiles(values))
  <2>1. IsFiniteSet({f[k] : k \in 0..Bins})
    BY <1>2, ImageFinite
  <2> QED
    BY <1>4, <2>1
<1>6. Quantiles(values) \subseteq Int
  BY QuantileTyped DEF Quantiles
<1>7. Quantile(values, 0) = Bins * values[1] /\ Quantile(values, Bins) = Bins * values[Len(values)]
  BY <1>1, QuantileTyped
<1>8. Quantile(values, 0) \in Quantiles(values) /\ Quantile(values, Bins) \in Quantiles(values)
  BY <1>1 DEF Quantiles
<1> QED
  BY <1>5, <1>6, <1>7, <1>8

\* The edges rise, and the column lies between the first and the last.
LEMMA EdgesAround ==
    ASSUME NEW values, Column(values)
    PROVE  \E n \in Nat \ {0} : /\ Rising(ReferenceProfile(values).edges, n)
                                /\ ReferenceProfile(values).edges[1] <= Bins * values[1]
                                /\ Bins * values[Len(values)] <= ReferenceProfile(values).edges[n + 1]
<1>1. PICK Q : Q = Quantiles(values)
  OBVIOUS
<1>2. Q \subseteq Int /\ IsFiniteSet(Q) /\ Bins * values[1] \in Q /\ Bins * values[Len(values)] \in Q
  BY <1>1, QuantilesFinite
<1>3. PICK c : c = Cardinality(Q) /\ c \in Nat
  BY <1>2, FS_CardinalityType
<1>4. PICK e : e = ReferenceProfile(values).edges
  OBVIOUS
<1>5. e = IF c > 1 THEN Sorted([q \in Q |-> q]) ELSE <<Bins * values[1], Bins * (values[1] + 1)>>
  BY <1>1, <1>3, <1>4 DEF ReferenceProfile, Quantiles
<1>6. CASE c > 1
  <2>1. PICK f : f = [q \in Q |-> q]
    OBVIOUS
  <2>2. f \in [Q -> Int] /\ \A x, y \in Q : f[x] = f[y] => x = y
    BY <1>2, <2>1
  <2>3. e = Sorted(f)
    BY <1>5, <1>6, <2>1
  <2>4. e \in Seq(Int) /\ Len(e) = c
    BY <1>2, <1>3, <2>2, <2>3, SortedIs
  <2>5. PICK n : n = c - 1 /\ n \in Nat \ {0}
    BY <1>3, <1>6
  <2>6. ASSUME NEW i \in 1..c, NEW j \in 1..c, i < j PROVE e[i] < e[j]
    BY <1>2, <1>3, <2>2, <2>3, <2>6, SortedRises
  <2>7. Rising(e, n)
    BY <2>4, <2>5, <2>6 DEF Rising
  <2>8. f[Bins * values[1]] = Bins * values[1] /\ f[Bins * values[Len(values)]] = Bins * values[Len(values)]
    BY <1>2, <2>1
  <2>9. e[1] <= f[Bins * values[1]] /\ f[Bins * values[Len(values)]] <= e[c]
    BY <1>2, <1>3, <2>2, <2>3, SortedEnds
  <2>10. n + 1 = c
    BY <1>3, <2>5
  <2> QED
    BY <1>4, <2>5, <2>7, <2>8, <2>9, <2>10
<1>7. CASE ~ (c > 1)
  <2>1. PICK a, b : a = Bins * values[1] /\ b = Bins * values[Len(values)]
    OBVIOUS
  <2>2. a \in Int /\ b \in Int
    BY <1>2, <2>1
  <2>3. a = b
    <3>1. ASSUME a # b PROVE FALSE
      <4>1. IsFiniteSet({a}) /\ Cardinality({a}) = 1
        BY FS_Singleton
      <4>2. Cardinality({a} \cup {b}) = 2
        BY <3>1, <4>1, FS_AddElement
      <4>3. {a} \cup {b} \in SUBSET Q
        BY <1>2, <2>1
      <4>4. Cardinality({a} \cup {b}) <= c
        BY <1>2, <1>3, <4>3, FS_Subset
      <4> QED
        BY <1>3, <1>7, <4>2, <4>4
    <3> QED
      BY <3>1
  <2>4. values[1] \in Int /\ Bins \in Nat \ {0}
    BY WindowAssumption DEF Column
  <2>5. Bins * (values[1] + 1) = a + Bins
    BY <2>1, <2>4
  <2>6. e = <<a, a + Bins>>
    BY <1>5, <1>7, <2>1, <2>5
  <2>7. a + Bins \in Int /\ a < a + Bins
    BY <2>2, <2>4
  <2>8. e \in Seq(Int) /\ Len(e) = 2 /\ e[1] = a /\ e[2] = a + Bins
    BY <2>2, <2>6, <2>7
  <2>9. \A i, j \in 1..2 : i < j => i = 1 /\ j = 2
    OBVIOUS
  <2>10. Rising(e, 1)
    BY <2>7, <2>8, <2>9 DEF Rising
  <2>11. e[1] <= a /\ b <= e[1 + 1]
    BY <2>2, <2>3, <2>7, <2>8
  <2> QED
    BY <1>4, <2>1, <2>10, <2>11
<1> QED
  BY <1>6, <1>7

Rows(values) == [i \in DOMAIN values |-> [value |-> values[i]]]

LEMMA RowsScaled ==
    ASSUME NEW values, Column(values)
    PROVE  /\ Scaled(Rows(values)) \in [1..Len(values) -> Int]
           /\ \A k \in 1..Len(values) : /\ Bins * values[1] <= Scaled(Rows(values))[k]
                                        /\ Scaled(Rows(values))[k] <= Bins * values[Len(values)]
<1>1. PICK m : m = Len(values)
  OBVIOUS
<1>2. /\ m \in Nat /\ m >= 1 /\ DOMAIN values = 1..m
      /\ \A i \in 1..m : values[i] \in Int
      /\ \A i, j \in 1..m : i <= j => values[i] <= values[j]
  BY <1>1 DEF Column, InOrder
<1>3. Bins \in Nat \ {0} /\ None \notin Int
  BY WindowAssumption
<1>4. DOMAIN Scaled(Rows(values)) = 1..m
  BY <1>2 DEF Scaled, Rows
<1>5. ASSUME NEW k \in 1..m
      PROVE  Scaled(Rows(values))[k] = Bins * values[k]
  <2>1. Rows(values)[k].value = values[k] /\ values[k] # None
    BY <1>2, <1>3 DEF Rows
  <2> QED
    BY <1>2, <2>1 DEF Scaled, Value, Rows
<1>6. ASSUME NEW k \in 1..m
      PROVE  /\ Bins * values[k] \in Int
             /\ Bins * values[1] <= Bins * values[k] /\ Bins * values[k] <= Bins * values[m]
  <2>1. PICK u, v, w : u = values[1] /\ v = values[k] /\ w = values[m]
    OBVIOUS
  <2>2. 1 \in 1..m /\ m \in 1..m /\ 1 <= k /\ k <= m
    BY <1>2
  <2>3. u \in Int /\ v \in Int /\ w \in Int /\ u <= v /\ v <= w
    BY <1>2, <2>1, <2>2
  <2>4. v - u \in Nat /\ w - v \in Nat
    BY <2>3
  <2>5. Bins * (v - u) \in Nat /\ Bins * (w - v) \in Nat
    BY <1>3, <2>4, ProductsTyped
  <2>6. Bins * (v - u) = Bins * v - Bins * u /\ Bins * (w - v) = Bins * w - Bins * v
    BY <1>3, <2>3
  <2>7. Bins * u \in Int /\ Bins * v \in Int /\ Bins * w \in Int
    BY <1>3, <2>3
  <2> QED
    BY <2>1, <2>5, <2>6, <2>7
<1>7. Scaled(Rows(values)) = [k \in 1..m |-> Scaled(Rows(values))[k]]
  BY <1>4 DEF Scaled
<1>8. Scaled(Rows(values)) \in [1..m -> Int]
  BY <1>5, <1>6, <1>7
<1> QED
  BY <1>1, <1>5, <1>6, <1>8

\* A profile counts every row it is made of, and those rows do not drift from
\* it.
LEMMA ProfileMade ==
    ASSUME NEW values, Column(values), Len(values) <= Len(LogOf),
           NEW p, p = ReferenceProfile(values)
    PROVE  /\ IsHistogram(p)
           /\ Total(p.counts) = Len(values)
           /\ ~ Shifted(p.counts, Histogram(p.edges, Rows(values)))
<1>1. PICK n \in Nat \ {0} : /\ Rising(p.edges, n)
                             /\ p.edges[1] <= Bins * values[1]
                             /\ Bins * values[Len(values)] <= p.edges[n + 1]
  BY EdgesAround
<1>2. PICK m : m = Len(values) /\ m \in Nat /\ m >= 1
  BY DEF Column
<1>3. PICK h : h = Histogram(p.edges, Rows(values))
  OBVIOUS
<1>4. p.counts = h
  BY <1>3 DEF ReferenceProfile, Rows
<1>5. /\ Scaled(Rows(values)) \in [1..m -> Int]
      /\ \A k \in 1..m : /\ Bins * values[1] <= Scaled(Rows(values))[k]
                         /\ Scaled(Rows(values))[k] <= Bins * values[m]
  BY <1>2, RowsScaled
<1>6. \A k \in 1..m : p.edges[1] <= Scaled(Rows(values))[k] /\ Scaled(Rows(values))[k] <= p.edges[n + 1]
  <2>1. p.edges[1] \in Int /\ p.edges[n + 1] \in Int
    BY <1>1 DEF Rising
  <2>2. Bins * values[1] \in Int /\ Bins * values[m] \in Int
    <3>1. values[1] \in Int /\ values[m] \in Int /\ Bins \in Nat
      BY <1>2, WindowAssumption DEF Column
    <3> QED
      BY <3>1
  <2>3. PICK a, b, c, d : a = p.edges[1] /\ b = Bins * values[1] /\ c = Bins * values[m] /\ d = p.edges[n + 1]
    OBVIOUS
  <2> TAKE k \in 1..m
  <2>4. PICK x \in Int : x = Scaled(Rows(values))[k]
    BY <1>5
  <2>5. a \in Int /\ b \in Int /\ c \in Int /\ d \in Int /\ a <= b /\ b <= x /\ x <= c /\ c <= d
    BY <1>1, <1>2, <1>5, <2>1, <2>2, <2>3, <2>4, Zenon
  <2>6. a <= x /\ x <= d
    BY <2>5
  <2> QED
    BY <2>3, <2>4, <2>6, Zenon
<1>7. h \in [1..n -> Nat]
  BY <1>1, <1>2, <1>3, <1>5, HistogramCounts, Zenon
<1>8. Total(h) = m
  BY <1>1, <1>2, <1>3, <1>5, <1>6, HistogramCovers, Zenon
<1>9. m \in DOMAIN LogOf
  <2>1. LogOf \in Seq(Nat)
    BY LogAssumption
  <2> QED
    BY <1>2, <2>1
<1>10. IsHistogram(p)
  <2>1. h \in Seq(Nat) /\ Len(h) = n
    BY <1>7
  <2>2. Len(p.edges) = n + 1 /\ p.edges \in Seq(Int) /\ \A i, j \in DOMAIN p.edges : i < j => p.edges[i] < p.edges[j]
    BY <1>1 DEF Rising
  <2>3. Len(p.edges) > 1 /\ Len(p.counts) = Len(p.edges) - 1
    BY <1>4, <2>1, <2>2
  <2> QED
    BY <1>4, <1>8, <1>9, <2>1, <2>2, <2>3 DEF IsHistogram
<1>11. n \in Nat /\ \A i \in 1..n : h[i] * Total(h) = h[i] * Total(h)
  OBVIOUS
<1>12. ~ Shifted(h, h)
  BY <1>7, <1>8, <1>9, <1>11, AlikeStable, Zenon
<1> QED
  BY <1>2, <1>3, <1>4, <1>8, <1>10, <1>12
-----------------------------------------------------------------------------
(* What files, threads and answers hold.                                   *)
MaxRows == MaxLen + Cardinality(Threads)

ProfileOk(p) == p # None /\ p.edges # None => IsHistogram(p)

ProfilesKept ==
    /\ profiles = [f \in Profiles |-> profiles[f]] /\ registered \in Profiles \cup {None}
    /\ \A f \in Profiles : ProfileOk(profiles[f])
    /\ \A t \in Threads : step[t] = "reference" => ProfileOk(todo[t])

RowsBounded == \A t \in Threads : step[t] = "collecting" => Len(rows[t]) + Len(todo[t]) <= MaxRows

IsReport(told) ==
    /\ ProfileOk(told.profile)
    /\ told.of \in Seq(Observations) /\ Len(told.of) <= MaxRows
    /\ told.verdict = DriftReport(told.profile, told.of)

IsPromotion(told) ==
    \E values : /\ Column(values) /\ Len(values) <= Len(LogOf)
                /\ told.profile = ReferenceProfile(values) /\ told.of = Rows(values)

ReplyKept ==
    reply # None => /\ reply.verdict \in {"STABLE", "DRIFT"} => IsReport(reply)
                    /\ reply.verdict = "PROMOTED" => IsPromotion(reply)

ReportInv == ProfilesKept /\ RowsBounded /\ ReplyKept

LEMMA MaxRowsTyped == MaxRows \in Nat /\ Len(BaseRows) + MaxRows <= Len(LogOf) /\ Len(LogOf) \in Nat
<1>1. MaxLen \in Nat /\ Cardinality(Threads) \in Nat
  BY WindowAssumption, ThreadsCounted
<1>2. LogOf \in Seq(Nat) /\ BaseRows \in Seq([flag : {0, 1, None}, value : Int \cup {None}])
  BY LogAssumption, DriftAssumption
<1>3. Len(LogOf) \in Nat /\ Len(BaseRows) \in Nat
  BY <1>2
<1>4. Len(BaseRows) + MaxLen + Cardinality(Threads) <= Len(LogOf)
  BY DriftAssumption
<1> QED
  BY <1>1, <1>3, <1>4 DEF MaxRows

LEMMA WindowFits ==
    ASSUME WindowInv
    PROVE  window \in Seq(Observations) /\ Len(window) \in Nat /\ Len(window) <= MaxRows
<1>1. window \in Seq(Observations) /\ Len(window) <= MaxLen + Cardinality(Trimming)
  BY DEF WindowInv, WindowTypeOK, LengthKept
<1>2. Trimming \in SUBSET Threads /\ IsFiniteSet(Threads) /\ MaxLen \in Nat
  BY WindowAssumption DEF Trimming
<1>3. Cardinality(Trimming) <= Cardinality(Threads)
  BY <1>2, FS_Subset
<1>4. Cardinality(Trimming) \in Nat /\ Cardinality(Threads) \in Nat
  BY WindowAssumption, ThreadsCounted
<1> QED
  BY <1>1, <1>2, <1>3, <1>4 DEF MaxRows

LEMMA PartLess ==
    ASSUME NEW a \in Nat, NEW b \in Nat, NEW c \in Nat, a + b <= c
    PROVE  a <= c
OBVIOUS

TrainingRow == [flag : {0, 1, None}, value : Int \cup {None}]

LEMMA DatasetTyped ==
    ASSUME WindowInv, RowsBounded, NEW t \in Threads, step[t] = "collecting"
    PROVE  /\ AugmentedDataset(t) \in Seq(TrainingRow)
           /\ Len(AugmentedDataset(t)) <= Len(LogOf)
<1>1. rows[t] \in Seq(Row) /\ todo[t] \in Seq(Observations)
  BY DEF WindowInv, WindowTypeOK
<1>2. PICK m : m = Len(rows[t]) /\ m \in Nat /\ DOMAIN rows[t] = 1..m
  BY <1>1
<1>3. m <= MaxRows
  <2>1. PICK k : k = Len(todo[t]) /\ k \in Nat
    BY <1>1
  <2>2. m + k <= MaxRows
    BY <1>2, <2>1 DEF RowsBounded
  <2>3. MaxRows \in Nat
    BY MaxRowsTyped
  <2> QED
    BY <1>2, <2>1, <2>2, <2>3, PartLess, Zenon
<1>4. PICK added : added = [i \in DOMAIN rows[t] |-> ObservationToRow(rows[t][i].of, rows[t][i].flag)]
  OBVIOUS
<1>5. ASSUME NEW i \in 1..m PROVE ObservationToRow(rows[t][i].of, rows[t][i].flag) \in TrainingRow
  <2>1. PICK o, flag : o = rows[t][i].of /\ flag = rows[t][i].flag
    OBVIOUS
  <2>2. o \in Observations /\ flag \in {0, 1}
    <3>1. rows[t][i] \in Row
      BY <1>1, <1>2
    <3> QED
      BY <2>1, <3>1 DEF Row
  <2>3. o.value \in Nat \cup {None} /\ Substitute \in Int
    BY <2>2, WindowAssumption
  <2> QED
    BY <2>1, <2>2, <2>3 DEF ObservationToRow, TrainingRow
<1>6. added \in Seq(TrainingRow) /\ Len(added) = m
  <2>1. added \in [1..m -> TrainingRow]
    BY <1>2, <1>4, <1>5
  <2> QED
    BY <1>2, <2>1
<1>7. BaseRows \in Seq(TrainingRow)
  BY DriftAssumption DEF TrainingRow
<1>8. AugmentedDataset(t) = BaseRows \o added
  BY <1>4 DEF AugmentedDataset
<1>9. BaseRows \o added \in Seq(TrainingRow) /\ Len(BaseRows \o added) = Len(BaseRows) + m
  BY <1>6, <1>7
<1>10. Len(BaseRows) \in Nat
  BY <1>7
<1> QED
  BY <1>2, <1>3, <1>8, <1>9, <1>10, MaxRowsTyped

\* What a training command trains on is a column with at least one row.
LEMMA TrainedColumn ==
    ASSUME WindowInv, RowsBounded, NEW t \in Threads, NEW values \in Trained(t)
    PROVE  Column(values) /\ Len(values) <= Len(LogOf)
<1>1. step[t] = "collecting"
  BY DEF Trained
<1>2. PICK frame : frame = AugmentedDataset(t)
  OBVIOUS
<1>3. Loadable(frame) /\ \E kept \in TrainingSets(frame) : values = TrainedOn(frame, kept)
  BY <1>2 DEF Trained
<1>4. PICK kept \in TrainingSets(frame) : values = TrainedOn(frame, kept)
  BY <1>3
<1>5. frame \in Seq(TrainingRow) /\ Len(frame) <= Len(LogOf)
  BY <1>1, <1>2, DatasetTyped
<1>6. PICK n : n = Len(frame) /\ n \in Nat /\ DOMAIN frame = 1..n
  BY <1>5
<1>7. kept \in SUBSET (1..n) /\ kept # {}
  BY <1>6 DEF TrainingSets
<1>8. IsFiniteSet(1..n) /\ Cardinality(1..n) = n
  <2>1. 1 \in Int /\ n \in Int
    BY <1>6
  <2>2. IsFiniteSet(1..n) /\ Cardinality(1..n) = (IF 1 > n THEN 0 ELSE n - 1 + 1)
    BY <2>1, FS_Interval
  <2> QED
    BY <1>6, <2>2
<1>9. IsFiniteSet(kept) /\ Cardinality(kept) <= n
  BY <1>7, <1>8, FS_Subset
<1>10. Cardinality(kept) \in Nat /\ Cardinality(kept) >= 1
  <2>1. Cardinality(kept) \in Nat /\ Cardinality(kept) # 0
    BY <1>7, <1>9, FS_CardinalityType, FS_EmptySet
  <2> QED
    BY <2>1
<1>11. PICK f : f = [i \in kept |-> frame[i].value]
  OBVIOUS
<1>12. f \in [kept -> Int]
  <2>1. ASSUME NEW i \in kept PROVE frame[i].value \in Int
    <3>1. i \in DOMAIN frame /\ frame[i] \in TrainingRow
      BY <1>5, <1>6, <1>7
    <3>2. frame[i].value # None
      BY <1>3, <3>1 DEF Loadable
    <3> QED
      BY <3>1, <3>2 DEF TrainingRow
  <2> QED
    BY <1>11, <2>1
<1>13. values = Sorted(f)
  BY <1>4, <1>11 DEF TrainedOn
<1>14. values \in Seq(Int) /\ Len(values) = Cardinality(kept)
  BY <1>9, <1>12, <1>13, SortedIs
<1>15. InOrder(values)
  <2>1. DOMAIN values = 1..Cardinality(kept)
    BY <1>14
  <2>2. ASSUME NEW i \in 1..Cardinality(kept), NEW j \in 1..Cardinality(kept), i <= j
        PROVE  values[i] <= values[j]
    BY <1>9, <1>12, <1>13, <2>2, SortedMonotone
  <2> QED
    BY <2>1, <2>2 DEF InOrder
<1>16. values # <<>>
  BY <1>10, <1>14
<1>17. Len(values) <= Len(LogOf)
  BY <1>5, <1>6, <1>9, <1>10, <1>14, MaxRowsTyped
<1> QED
  BY <1>14, <1>15, <1>16, <1>17 DEF Column

LEMMA ReportInit == WindowInit => ReportInv
<1> SUFFICES ASSUME WindowInit PROVE ReportInv
  OBVIOUS
<1>1. ProfilesKept
  <2>1. profiles \in [Profiles -> {None} \cup References] /\ registered \in Profiles \cup {None}
    BY DEF WindowInit
  <2>2. \A p \in {None} \cup References : ProfileOk(p)
    BY DriftAssumption DEF ProfileOk
  <2>3. \A t \in Threads : step[t] = "idle"
    BY DEF WindowInit
  <2> QED
    BY <2>1, <2>2, <2>3 DEF ProfilesKept
<1>2. RowsBounded /\ ReplyKept
  BY DEF WindowInit, RowsBounded, ReplyKept
<1> QED
  BY <1>1, <1>2 DEF ReportInv

\* Steps of threads that neither report nor collect.
LEMMA QuietKeeps ==
    ASSUME WindowInv, ReportInv, NEW t \in Threads, NEW s \in {"idle", "appended", "excess"},
           step' = [step EXCEPT ![t] = s], UNCHANGED <<files, todo, rows>>, reply' = None
    PROVE  ReportInv'
<1>1. \A q \in Threads : step'[q] = (IF q = t THEN s ELSE step[q])
  BY DEF WindowInv, WindowTypeOK
<1>2. \A q \in Threads : step'[q] \in {"reference", "collecting"} => step'[q] = step[q]
  BY <1>1
<1>3. profiles' = profiles /\ registered' = registered /\ todo' = todo /\ rows' = rows
  BY DEF files
<1>4. ProfilesKept'
  BY <1>2, <1>3 DEF ReportInv, ProfilesKept
<1>5. RowsBounded'
  BY <1>2, <1>3 DEF ReportInv, RowsBounded, MaxRows
<1>6. ReplyKept'
  BY DEF ReplyKept
<1> QED
  BY <1>4, <1>5, <1>6 DEF ReportInv

LEMMA ReferenceKeeps ==
    ASSUME WindowInv, ReportInv, NEW t \in Threads, ReadReference(t)
    PROVE  ReportInv'
<1>1. \A q \in Threads : step'[q] = (IF q = t THEN "reference" ELSE step[q])
  BY DEF ReadReference, WindowInv, WindowTypeOK
<1>2. \A q \in Threads : todo'[q] = IF q = t THEN LoadReferenceProfile ELSE todo[q]
  BY DEF ReadReference, WindowInv, WindowTypeOK
<1>3. profiles' = profiles /\ registered' = registered /\ rows' = rows /\ reply' = None
  BY DEF ReadReference, files
<1>4. ProfileOk(LoadReferenceProfile)
  BY DEF LoadReferenceProfile, ReportInv, ProfilesKept, Profiles
<1>5. ProfilesKept'
  BY <1>1, <1>2, <1>3, <1>4 DEF ReportInv, ProfilesKept
<1>6. RowsBounded'
  BY <1>1, <1>2, <1>3 DEF ReportInv, RowsBounded
<1>7. ReplyKept'
  BY <1>3 DEF ReplyKept
<1> QED
  BY <1>5, <1>6, <1>7 DEF ReportInv

LEMMA DriftKeeps ==
    ASSUME WindowInv, ReportInv, NEW t \in Threads, Drift(t)
    PROVE  ReportInv'
<1>1. \A q \in Threads : step'[q] = (IF q = t THEN "idle" ELSE step[q])
  BY DEF Drift, WindowInv, WindowTypeOK
<1>2. \A q \in Threads : todo'[q] = IF q = t THEN None ELSE todo[q]
  BY DEF Drift, WindowInv, WindowTypeOK
<1>3. profiles' = profiles /\ registered' = registered /\ rows' = rows
  BY DEF Drift, files
<1>4. PICK p : p = todo[t] /\ ProfileOk(p)
  BY DEF Drift, ReportInv, ProfilesKept
<1>5. reply' = [verdict |-> DriftReport(p, window), profile |-> p, of |-> window]
  BY <1>4 DEF Drift
<1>6. PICK w, v : w = window /\ v = DriftReport(p, w)
  OBVIOUS
<1>7. w \in Seq(Observations) /\ Len(w) <= MaxRows
  BY <1>6, WindowFits
<1>8. v # "PROMOTED"
  BY <1>6 DEF DriftReport
<1>9. reply' = [verdict |-> v, profile |-> p, of |-> w]
  BY <1>5, <1>6
<1>10. reply'.verdict = v /\ reply'.profile = p /\ reply'.of = w
  BY <1>9
<1>11. IsReport(reply)'
  BY <1>4, <1>6, <1>7, <1>10 DEF IsReport
<1>12. ReplyKept'
  BY <1>8, <1>10, <1>11 DEF ReplyKept
<1>13. ProfilesKept'
  BY <1>1, <1>2, <1>3 DEF ReportInv, ProfilesKept
<1>14. RowsBounded'
  BY <1>1, <1>2, <1>3 DEF ReportInv, RowsBounded
<1> QED
  BY <1>12, <1>13, <1>14 DEF ReportInv

LEMMA BeginKeeps ==
    ASSUME WindowInv, ReportInv, NEW t \in Threads, BeginRetrain(t)
    PROVE  ReportInv'
<1>1. \A q \in Threads : step'[q] = (IF q = t THEN "collecting" ELSE step[q])
  BY DEF BeginRetrain, WindowInv, WindowTypeOK
<1>2. \A q \in Threads : todo'[q] = IF q = t THEN window ELSE todo[q]
  BY DEF BeginRetrain, WindowInv, WindowTypeOK
<1>3. profiles' = profiles /\ registered' = registered /\ rows' = rows /\ reply' = None
  BY DEF BeginRetrain, files
<1>4. rows[t] = <<>>
  BY DEF BeginRetrain, WindowInv, RowsJudged
<1>5. Len(rows[t]) + Len(window) <= MaxRows
  BY <1>4, WindowFits
<1>6. ProfilesKept'
  BY <1>1, <1>2, <1>3 DEF ReportInv, ProfilesKept
<1>7. RowsBounded'
  BY <1>1, <1>2, <1>3, <1>5 DEF ReportInv, RowsBounded
<1>8. ReplyKept'
  BY <1>3 DEF ReplyKept
<1> QED
  BY <1>6, <1>7, <1>8 DEF ReportInv

LEMMA CollectKeeps ==
    ASSUME WindowInv, ReportInv, NEW t \in Threads, CollectLabeled(t)
    PROVE  ReportInv'
<1>1. step' = step /\ step[t] = "collecting" /\ todo[t] # <<>> /\ todo[t] \in Seq(Observations) /\ rows[t] \in Seq(Row)
  BY DEF CollectLabeled, WindowInv, WindowTypeOK
<1>2. \A q \in Threads : todo'[q] = IF q = t THEN Tail(todo[t]) ELSE todo[q]
  BY DEF CollectLabeled, WindowInv, WindowTypeOK
<1>3. profiles' = profiles /\ registered' = registered /\ reply' = None
  BY DEF CollectLabeled, files
<1>4. Len(Tail(todo[t])) = Len(todo[t]) - 1 /\ Len(todo[t]) \in Nat
  BY <1>1, TailFacts
<1>5. \E x : \A q \in Threads : rows'[q] = rows[q] \/ (q = t /\ rows'[q] = Append(rows[q], x))
  <2>1. PICK o, r : o = Head(todo[t]) /\ r = [of |-> o, flag |-> FlagOf(o)]
    OBVIOUS
  <2>2. rows' = [rows EXCEPT ![t] = IF FlagOf(o) = None THEN rows[t] ELSE Append(rows[t], r)]
    BY <2>1 DEF CollectLabeled
  <2>3. rows \in [Threads -> Seq(Row)]
    BY DEF WindowInv, WindowTypeOK
  <2>4. \A q \in Threads : rows'[q] = rows[q] \/ (q = t /\ rows'[q] = Append(rows[q], r))
    BY <2>2, <2>3
  <2> QED
    BY <2>4
<1>6. PICK x : \A q \in Threads : rows'[q] = rows[q] \/ (q = t /\ rows'[q] = Append(rows[q], x))
  BY <1>5
<1>7. Len(rows[t]) \in Nat /\ Len(Append(rows[t], x)) = Len(rows[t]) + 1
  <2>1. Len(rows[t]) \in Nat
    BY <1>1
  <2>2. rows[t] \in Seq(Row \cup {x}) /\ x \in Row \cup {x}
    BY <1>1
  <2> QED
    BY <2>1, <2>2
<1>8. ProfilesKept'
  BY <1>1, <1>2, <1>3 DEF ReportInv, ProfilesKept
<1>9. RowsBounded'
  <2> SUFFICES ASSUME NEW q \in Threads, step[q] = "collecting" PROVE Len(rows'[q]) + Len(todo'[q]) <= MaxRows
    BY <1>1 DEF RowsBounded, MaxRows
  <2>1. Len(rows[q]) + Len(todo[q]) <= MaxRows
    BY DEF ReportInv, RowsBounded
  <2>2. CASE q = t
    <3>1. PICK a, b : a = Len(rows[t]) /\ b = Len(todo[t])
      OBVIOUS
    <3>2. a \in Nat /\ b \in Nat /\ a + b <= MaxRows /\ MaxRows \in Nat
      BY <1>4, <1>7, <2>1, <2>2, <3>1, MaxRowsTyped
    <3>3. Len(todo'[q]) = b - 1
      BY <1>2, <1>4, <2>2, <3>1
    <3>4. Len(rows'[q]) = a \/ Len(rows'[q]) = a + 1
      BY <1>6, <1>7, <2>2, <3>1
    <3> QED
      BY <3>2, <3>3, <3>4
  <2>3. CASE q # t
    BY <1>2, <1>6, <2>1, <2>3
  <2> QED
    BY <2>2, <2>3
<1>10. ReplyKept'
  BY <1>3 DEF ReplyKept
<1> QED
  BY <1>8, <1>9, <1>10 DEF ReportInv

LEMMA FinishElsewhere ==
    ASSUME WindowInv, ReportInv, NEW t \in Threads, FinishRetrain(t)
    PROVE  /\ \A q \in Threads : step'[q] = "reference" => ProfileOk(todo'[q])
           /\ RowsBounded'
<1>1. \A q \in Threads : step'[q] = (IF q = t THEN "idle" ELSE step[q])
  BY DEF FinishRetrain, WindowInv, WindowTypeOK
<1>2. \A q \in Threads : todo'[q] = IF q = t THEN None ELSE todo[q]
  BY DEF FinishRetrain, WindowInv, WindowTypeOK
<1>3. \A q \in Threads : rows'[q] = IF q = t THEN <<>> ELSE rows[q]
  BY DEF FinishRetrain, WindowInv, WindowTypeOK
<1>4. \A q \in Threads : step'[q] = "reference" => ProfileOk(todo'[q])
  BY <1>1, <1>2 DEF ReportInv, ProfilesKept
<1>5. RowsBounded'
  BY <1>1, <1>2, <1>3 DEF ReportInv, RowsBounded
<1> QED
  BY <1>4, <1>5

LEMMA VainKeeps ==
    ASSUME WindowInv, ReportInv, NEW t \in Threads, RetrainInVain(t)
    PROVE  ReportInv'
<1>1. profiles' = profiles /\ registered' = registered /\ reply' = None /\ FinishRetrain(t)
  BY DEF RetrainInVain, files
<1>2. RowsBounded' /\ \A q \in Threads : step'[q] = "reference" => ProfileOk(todo'[q])
  BY <1>1, FinishElsewhere
<1>3. ProfilesKept'
  BY <1>1, <1>2 DEF ReportInv, ProfilesKept
<1>4. ReplyKept'
  BY <1>1 DEF ReplyKept
<1> QED
  BY <1>2, <1>3, <1>4 DEF ReportInv

LEMMA PromoteKeeps ==
    ASSUME WindowInv, ReportInv, NEW t \in Threads, NEW values \in Trained(t), Promote(t, values)
    PROVE  ReportInv'
<1>1. FinishRetrain(t) /\ registered' = "latest"
  BY DEF Promote
<1>2. RowsBounded' /\ \A q \in Threads : step'[q] = "reference" => ProfileOk(todo'[q])
  BY <1>1, FinishElsewhere
<1>3. Column(values) /\ Len(values) <= Len(LogOf)
  BY TrainedColumn DEF ReportInv
<1>4. PICK p : p = ReferenceProfile(values)
  OBVIOUS
<1>5. IsHistogram(p)
  BY <1>3, <1>4, ProfileMade
<1>6. profiles' = [profiles EXCEPT !["latest"] = p]
  BY <1>4 DEF Promote
<1>7. profiles = [f \in Profiles |-> profiles[f]] /\ "latest" \in Profiles
  BY DEF ReportInv, ProfilesKept, Profiles
<1>8. \A f \in Profiles : profiles'[f] = IF f = "latest" THEN p ELSE profiles[f]
  BY <1>6, <1>7
<1>9. profiles' = [f \in Profiles |-> profiles'[f]]
  BY <1>6, <1>7
<1>10. \A f \in Profiles : ProfileOk(profiles'[f])
  BY <1>5, <1>8 DEF ProfileOk, ReportInv, ProfilesKept
<1>11. ProfilesKept'
  BY <1>1, <1>2, <1>7, <1>9, <1>10 DEF ProfilesKept
<1>12. reply' = [verdict |-> "PROMOTED", profile |-> p, of |-> Rows(values)]
  BY <1>7, <1>8 DEF Promote, Rows
<1>13. reply'.verdict = "PROMOTED" /\ reply'.profile = p /\ reply'.of = Rows(values)
  BY <1>12
<1>14. IsPromotion(reply)'
  BY <1>3, <1>4, <1>13 DEF IsPromotion
<1>15. ReplyKept'
  BY <1>13, <1>14 DEF ReplyKept
<1> QED
  BY <1>2, <1>11, <1>15 DEF ReportInv

LEMMA FeedbackKeeps ==
    ASSUME WindowInv, ReportInv, UNCHANGED <<files, step, todo, rows>>, reply' = None \/ reply' = reply
    PROVE  ReportInv'
<1>1. profiles' = profiles /\ registered' = registered /\ step' = step /\ todo' = todo /\ rows' = rows
  BY DEF files
<1>2. ProfilesKept'
  BY <1>1 DEF ReportInv, ProfilesKept
<1>3. RowsBounded'
  BY <1>1 DEF ReportInv, RowsBounded
<1>4. ReplyKept'
  BY DEF ReportInv, ReplyKept, IsReport, IsPromotion
<1> QED
  BY <1>2, <1>3, <1>4 DEF ReportInv

LEMMA ReportStep ==
    ASSUME WindowInv, ReportInv, [WindowNext]_monitor
    PROVE  ReportInv'
<1>1. ASSUME NEW t \in Threads, NEW o \in Observations, AppendObservation(t, o) PROVE ReportInv'
  BY <1>1, QuietKeeps DEF AppendObservation
<1>2. ASSUME NEW t \in Threads, TestLength(t) PROVE ReportInv'
  <2>1. PICK s \in {"idle", "excess"} : step' = [step EXCEPT ![t] = s]
    BY <1>2 DEF TestLength
  <2> QED
    BY <1>2, <2>1, QuietKeeps DEF TestLength
<1>3. ASSUME NEW t \in Threads, PopLeft(t) PROVE ReportInv'
  BY <1>3, QuietKeeps DEF PopLeft
<1>4. ASSUME NEW i \in Ids, NEW label \in Labels, RecordFeedback(i, label) PROVE ReportInv'
  BY <1>4, FeedbackKeeps DEF RecordFeedback
<1>5. CASE UNCHANGED monitor
  BY <1>5, FeedbackKeeps DEF monitor
<1> QED
  BY <1>1, <1>2, <1>3, <1>4, <1>5, ReferenceKeeps, DriftKeeps, BeginKeeps, CollectKeeps, VainKeeps, PromoteKeeps
     DEF WindowNext

LEMMA ReportInvariance == WindowSpec => []ReportInv
<1>1. WindowInit => ReportInv
  BY ReportInit
<1>2. WindowInv /\ ReportInv /\ [WindowNext]_monitor => ReportInv'
  BY ReportStep
<1> QED
  BY <1>1, <1>2, WindowInvariance, PTL DEF WindowSpec

LEMMA WindowScaled ==
    ASSUME NEW s \in Seq(Observations)
    PROVE  Scaled(s) \in [1..Len(s) -> Int]
<1>1. \A k \in 1..Len(s) : Bins * Value(s[k]) \in Int
  <2> TAKE k \in 1..Len(s)
  <2>1. s[k] \in Observations
    OBVIOUS
  <2>2. s[k].value \in Nat \cup {None}
    BY <2>1, WindowAssumption
  <2>3. Value(s[k]) \in Int /\ Bins \in Int
    BY <2>2, WindowAssumption DEF Value
  <2> QED
    BY <2>3
<1> QED
  BY <1>1 DEF Scaled

LEMMA DriftHolds ==
    ASSUME ReportInv
    PROVE  DriftSeen
<1> SUFFICES ASSUME Judged, reply.profile.edges # None PROVE DriftSeen
  BY DEF DriftSeen
<1>1. PICK p, of, v : p = reply.profile /\ of = reply.of /\ v = reply.verdict
  OBVIOUS
<1>2. v \in {"STABLE", "DRIFT"} /\ p.edges # None
  BY <1>1 DEF Judged
<1>3. IsReport(reply)
  BY DEF Judged, ReportInv, ReplyKept
<1>4. ProfileOk(p) /\ of \in Seq(Observations) /\ Len(of) <= MaxRows /\ v = DriftReport(p, of)
  BY <1>1, <1>3 DEF IsReport
<1>5. p # None /\ ~ (Len(of) < MinWindow)
  BY <1>2, <1>4 DEF DriftReport
<1>6. v = IF Shifted(p.counts, Histogram(p.edges, of)) THEN "DRIFT" ELSE "STABLE"
  BY <1>2, <1>4, <1>5 DEF DriftReport
<1>7. IsHistogram(p)
  BY <1>2, <1>4, <1>5 DEF ProfileOk
<1>8. PICK R, e : R = p.counts /\ e = p.edges
  OBVIOUS
<1>9. PICK n : n = Len(R) /\ n \in Nat \ {0} /\ R \in [1..n -> Nat] /\ Rising(e, n) /\ Total(R) \in DOMAIN LogOf
  <2>1. /\ R \in Seq(Nat) /\ e \in Seq(Int) /\ Len(e) > 1 /\ Len(R) = Len(e) - 1
        /\ \A i, j \in DOMAIN e : i < j => e[i] < e[j]
        /\ Total(R) \in DOMAIN LogOf
    BY <1>7, <1>8 DEF IsHistogram
  <2>2. PICK n : n = Len(R) /\ n \in Nat
    BY <2>1
  <2>3. Len(e) \in Nat
    BY <2>1
  <2>4. n # 0 /\ Len(e) = n + 1
    BY <2>1, <2>2, <2>3
  <2>5. R \in [1..n -> Nat]
    BY <2>1, <2>2
  <2> QED
    BY <2>1, <2>2, <2>4, <2>5 DEF Rising
<1>10. PICK m : m = Len(of) /\ m \in Nat
  BY <1>4
<1>11. PICK C : C = Histogram(e, of)
  OBVIOUS
<1>12. C \in [1..n -> Nat] /\ Total(C) <= m
  BY <1>4, <1>9, <1>10, <1>11, WindowScaled, HistogramCounts
<1>13. Total(C) \in Nat
  BY <1>9, <1>12, TotalOfNaturals
<1>14. Total(C) # 0 => Total(C) \in DOMAIN LogOf
  <2>1. LogOf \in Seq(Nat) /\ Len(LogOf) \in Nat
    BY LogAssumption
  <2>2. PICK c : c = Total(C)
    OBVIOUS
  <2>3. BaseRows \in Seq(TrainingRow)
    BY DriftAssumption DEF TrainingRow
  <2>4. Len(BaseRows) \in Nat
    BY <2>3
  <2>5. m <= MaxRows /\ MaxRows \in Nat /\ Len(BaseRows) + MaxRows <= Len(LogOf)
    BY <1>4, <1>10, MaxRowsTyped
  <2>6. c # 0 => c \in 1..Len(LogOf)
    BY <1>10, <1>12, <1>13, <2>1, <2>2, <2>4, <2>5
  <2> QED
    BY <2>1, <2>2, <2>6
<1>15. DOMAIN R = 1..n /\ DOMAIN C = 1..n
  BY <1>9, <1>12
<1>16. ASSUME v = "STABLE" PROVE Len(of) >= MinWindow /\ \A i \in {k \in 1..n : 10 * R[k] >= Total(R)} : C[i] > 0
  <2>1. ~ Shifted(R, C)
    BY <1>6, <1>8, <1>11, <1>16
  <2>2. Total(C) # 0
    BY <1>9, <1>12, <2>1, ShiftedIs
  <2>3. \A i \in 1..n : 10 * R[i] >= Total(R) => C[i] > 0
    BY <1>9, <1>12, <1>14, <2>1, <2>2, StableReaches
  <2>4. m >= MinWindow
    BY <1>5, <1>10, WindowAssumption
  <2> QED
    BY <1>10, <2>3, <2>4
<1>17. ASSUME v = "DRIFT" PROVE Total(C) = 0 \/ \E i \in 1..n : C[i] * Total(R) # R[i] * Total(C)
  <2>1. Shifted(R, C)
    BY <1>6, <1>8, <1>11, <1>17
  <2> QED
    BY <1>9, <1>12, <1>14, <2>1, AlikeStable
<1> QED
  BY <1>1, <1>8, <1>11, <1>15, <1>16, <1>17 DEF DriftSeen

LEMMA ProfileHolds ==
    ASSUME ReportInv
    PROVE  ProfileFits
<1> SUFFICES ASSUME reply # None, reply.verdict = "PROMOTED"
             PROVE  /\ Total(reply.profile.counts) = Len(reply.of)
                    /\ ~ Shifted(reply.profile.counts, Histogram(reply.profile.edges, reply.of))
  BY DEF ProfileFits
<1>1. IsPromotion(reply)
  BY DEF ReportInv, ReplyKept
<1>2. PICK values : /\ Column(values) /\ Len(values) <= Len(LogOf)
                    /\ reply.profile = ReferenceProfile(values) /\ reply.of = Rows(values)
  BY <1>1 DEF IsPromotion
<1>3. PICK p : p = ReferenceProfile(values)
  OBVIOUS
<1>4. Total(p.counts) = Len(values) /\ ~ Shifted(p.counts, Histogram(p.edges, Rows(values)))
  BY <1>2, <1>3, ProfileMade
<1>5. Len(Rows(values)) = Len(values)
  <2>1. values \in Seq(Int)
    BY <1>2 DEF Column
  <2>2. DOMAIN Rows(values) = 1..Len(values) /\ Len(values) \in Nat
    BY <2>1 DEF Rows
  <2> QED
    BY <2>1, <2>2 DEF Rows
<1> QED
  BY <1>2, <1>3, <1>4, <1>5

\* Threads that trim at once may drop an observation too many each, yet the
\* window is never shorter than that nor longer than those still trimming, and
\* it holds the latest of what was observed; a report calls it stable only if
\* it is enough and reaches every large bin of the reference, and drifting only
\* if it is spread otherwise; and a profile promoted fits the rows it is made
\* of (add, drift_report, psi, compute_reference_profile).
THEOREM WindowCorrect == WindowSpec => []WindowKept
<1>1. ASSUME WindowInv PROVE WindowBounded
  <2>1. /\ Len(window) \in Nat /\ Len(observed) \in Nat
    BY <1>1 DEF WindowInv, WindowTypeOK
  <2>2. Cardinality(Excess) \in Nat /\ Cardinality(Threads) \in Nat /\ MaxLen \in Nat
    BY WindowAssumption, ThreadsCounted
  <2>3. /\ Len(window) <= MaxLen + Cardinality(Trimming)
        /\ \/ Len(window) = Len(observed)
           \/ Len(window) >= MaxLen - (Cardinality(Threads) - 1)
    <3>1. /\ Len(window) <= MaxLen + Cardinality(Trimming)
          /\ Len(window) # Len(observed) =>
                Len(window) + Cardinality(Threads) >= MaxLen + 1 + Cardinality(Excess)
      BY <1>1 DEF WindowInv, LengthKept
    <3>2. PICK k, l, m, e, n : /\ k = Len(window) /\ l = Len(observed) /\ m = MaxLen
                               /\ e = Cardinality(Excess) /\ n = Cardinality(Threads)
      OBVIOUS
    <3>3. k # l => k >= m - (n - 1)
      BY <2>1, <2>2, <3>1, <3>2
    <3> QED
      BY <3>1, <3>2, <3>3
  <2>4. Min({Len(observed), MaxLen - (Cardinality(Threads) - 1)}) <= Len(window)
    <3>1. PICK l, k, m, n : /\ l = Len(observed) /\ k = Len(window) /\ m = MaxLen
                            /\ n = Cardinality(Threads)
      OBVIOUS
    <3>2. PICK r : r = m - (n - 1)
      OBVIOUS
    <3>3. l \in Int /\ r \in Int /\ (k = l \/ k >= r) /\ k \in Int
      BY <2>1, <2>2, <2>3, <3>1, <3>2
    <3>4. Min({l, r}) = IF l <= r THEN l ELSE r
      BY <3>3, MinOfTwo
    <3>5. Min({l, r}) <= k
      BY <3>3, <3>4
    <3> QED
      BY <3>1, <3>2, <3>5
  <2> QED
    BY <2>1, <2>2, <2>3, <2>4, MinOfTwo DEF WindowBounded, Trimming
<1>2. ASSUME WindowInv PROVE WindowLatest
  BY <1>2, SuffixIs DEF WindowInv, WindowTypeOK, LatestKept, WindowLatest
<1>3. WindowInv /\ ReportInv => WindowKept
  BY <1>1, <1>2, DriftHolds, ProfileHolds DEF WindowKept
<1> QED
  BY <1>3, WindowInvariance, ReportInvariance, PTL

-----------------------------------------------------------------------------
(***************************************************************************)
(* Attestations of devices.  DecidedOnce is not inductive: a worker that   *)
(* has passed the flag will decide whatever the others do.  The invariant  *)
(* adds that such a worker has not decided yet, which it had when it saw   *)
(* the flag down, because whoever has decided left the flag up.            *)
(***************************************************************************)
Passed(w) == pc[w] \in {"unconsumed", "reported"}

\* A worker at work holds the request about an issued challenge.
Working ==
    \A w \in Workers :
        /\ pc[w] # "idle" => request[w] \in Request /\ challenges[request[w].id] \in Challenge
        /\ pc[w] = "fetched" => answer[w] = Nothing
        /\ pc[w] = "reported" => report[w] \in Report /\ BoundTo(w) /\ SameNonce(w)

\* Deciding leaves the flag up, and who passed it has yet to decide.
Marked ==
    \A c \in Challenges, w \in Workers :
        /\ decided[c][w] <= 1
        /\ decided[c][w] > 0 => consumed[c]
        /\ Passed(w) /\ request[w].id = c => decided[c][w] = 0

Consumer == \A c \in Challenges : consumed[c] => \E w \in Workers : decided[c][w] > 0

\* Who came late is refused; an answer about a challenge is of a consumed one.
Answers ==
    \A w \in Workers :
        /\ late[w] => /\ request[w] \in Request /\ consumed[request[w].id]
                      /\ pc[w] \in {"idle", "fetched"}
                      /\ answer[w] \in {"REPLAYED", Nothing}
        /\ request[w] # Nothing /\ answer[w] \in Report \cup {"EXPIRED", "BINDING_MISMATCH", "NONCE_MISMATCH"}
              => consumed[request[w].id]
        /\ answer[w] \in Verified =>
              /\ request[w] \in Request /\ challenges[request[w].id] \in Challenge
              /\ BoundTo(w) /\ SameNonce(w)

\* Only issued challenges are consumed.
Issued == \A c \in Challenges : consumed[c] => challenges[c] # Nothing

IInv == TypeOK /\ Working /\ Marked /\ Consumer /\ Answers /\ Issued

-----------------------------------------------------------------------------
LEMMA InitIInv == Init => IInv
BY NothingAssumption, TimeAssumption
   DEF Init, IInv, TypeOK, Working, Marked, Consumer, Answers, Issued, Passed, Verified, Report

\* Deciding preserves the invariant, for a worker that passed the flag and a
\* reason that is bound when it is a verdict.
LEMMA DecideStep ==
    ASSUME IInv, NEW w \in Workers, Passed(w),
           NEW reason \in Report \cup {"EXPIRED", "BINDING_MISMATCH", "NONCE_MISMATCH"},
           reason \in Verified => BoundTo(w) /\ SameNonce(w),
           Decide(w, reason)
    PROVE  IInv'
<1> DEFINE c == request[w].id
<1>1. c \in Challenges /\ request[w] \in Request /\ challenges[c] \in Challenge
  BY DEF IInv, Working, Passed, Request
<1>2. /\ consumed' = [consumed EXCEPT ![c] = TRUE]
      /\ pc' = [pc EXCEPT ![w] = "idle"] /\ answer' = [answer EXCEPT ![w] = reason]
      /\ late' = [v \in Workers |-> late[v] \/ (pc[v] = "fetched" /\ request[v].id = c)]
      /\ UNCHANGED <<now, challenges, request, report>>
  BY DEF Decide, Answer
<1>12. late' \in [Workers -> BOOLEAN]
  BY <1>2 DEF IInv, TypeOK
<1>3. \A d \in Challenges, v \in Workers :
          decided'[d][v] = IF d = c /\ v = w THEN decided[d][v] + 1 ELSE decided[d][v]
  BY <1>1 DEF Decide, IInv, TypeOK
<1>4. decided' \in [Challenges -> [Workers -> Nat]]
  <2>1. decided' = [decided EXCEPT ![c] = [decided[c] EXCEPT ![w] = decided[c][w] + 1]]
    BY <1>1 DEF Decide, IInv, TypeOK
  <2>2. [decided[c] EXCEPT ![w] = decided[c][w] + 1] \in [Workers -> Nat]
    BY <1>1 DEF IInv, TypeOK
  <2> QED  BY <1>1, <2>1, <2>2 DEF IInv, TypeOK
<1>5. TypeOK'
  BY <1>1, <1>2, <1>4, <1>12 DEF IInv, TypeOK, Refusal
<1>6. Working'
  BY <1>1, <1>2 DEF IInv, TypeOK, Working, BoundTo, SameNonce, ChallengeOf
<1>7. decided[c][w] = 0
  BY <1>1 DEF IInv, Marked
<1>8. Marked'
  <2> SUFFICES ASSUME NEW d \in Challenges, NEW v \in Workers
               PROVE  /\ decided'[d][v] <= 1
                      /\ decided'[d][v] > 0 => consumed'[d]
                      /\ Passed(v)' /\ request'[v].id = d => decided'[d][v] = 0
    BY DEF Marked
  <2>1. decided[d][v] \in Nat
    BY DEF IInv, TypeOK
  <2>2. CASE d = c /\ v = w
    BY <1>1, <1>2, <1>3, <1>7, <2>2 DEF IInv, TypeOK, Passed
  <2>3. CASE ~ (d = c /\ v = w)
    BY <1>1, <1>2, <1>3, <2>1, <2>3 DEF IInv, TypeOK, Marked, Passed
  <2> QED  BY <2>2, <2>3
<1>9. Consumer'
  <2> SUFFICES ASSUME NEW d \in Challenges, consumed'[d]
               PROVE  \E v \in Workers : decided'[d][v] > 0
    BY DEF Consumer
  <2>1. CASE d = c
    BY <1>1, <1>3, <1>7, <2>1
  <2>2. CASE d # c
    BY <1>1, <1>2, <1>3, <2>2 DEF IInv, TypeOK, Consumer
  <2> QED  BY <2>1, <2>2
<1>10. Answers'
  <2> SUFFICES ASSUME NEW v \in Workers
               PROVE  /\ late'[v] => /\ request'[v] \in Request /\ consumed'[request'[v].id]
                                     /\ pc'[v] \in {"idle", "fetched"}
                                     /\ answer'[v] \in {"REPLAYED", Nothing}
                      /\ request'[v] # Nothing /\ answer'[v] \in Report \cup {"EXPIRED", "BINDING_MISMATCH", "NONCE_MISMATCH"}
                            => consumed'[request'[v].id]
                      /\ answer'[v] \in Verified =>
                            /\ request'[v] \in Request /\ challenges'[request'[v].id] \in Challenge
                            /\ BoundTo(v)' /\ SameNonce(v)'
    BY DEF Answers
  <2>1. late[w] = FALSE /\ pc[w] # "fetched"
    BY DEF IInv, TypeOK, Answers, Passed
  <2>2. CASE v = w
    <3>1. late'[w] = FALSE
      BY <1>2, <2>1
    <3> QED
      BY <1>1, <1>2, <2>2, <3>1 DEF IInv, TypeOK, BoundTo, SameNonce, ChallengeOf
  <2>3. CASE v # w
    <3>1. late'[v] <=> late[v] \/ (pc[v] = "fetched" /\ request[v].id = c)
      BY <1>2
    <3>2. /\ pc'[v] = pc[v] /\ answer'[v] = answer[v] /\ request'[v] = request[v]
          /\ \A d \in Challenges : consumed'[d] <=> consumed[d] \/ d = c
      BY <1>1, <1>2, <2>3 DEF IInv, TypeOK
    <3>3. CASE pc[v] = "fetched" /\ request[v].id = c
      <4>1. request[v] \in Request /\ answer[v] = Nothing
        BY <3>3 DEF IInv, Working
      <4> QED
        BY <1>1, <3>2, <3>3, <4>1, NothingAssumption DEF Report, Refusal, Verified
    <3>4. CASE ~ (pc[v] = "fetched" /\ request[v].id = c)
      BY <1>1, <1>2, <2>3, <3>1, <3>2, <3>4
         DEF IInv, TypeOK, Answers, BoundTo, SameNonce, ChallengeOf, Request
    <3> QED
      BY <3>3, <3>4
  <2> QED  BY <2>2, <2>3
<1>11. Issued'
  BY <1>1, <1>2, NothingAssumption DEF IInv, TypeOK, Issued
<1> QED  BY <1>5, <1>6, <1>8, <1>9, <1>10, <1>11 DEF IInv

\* A new challenge is under an id of its own, which nobody has asked about.
LEMMA IssueStep ==
    ASSUME IInv, NEW c \in Challenges, NEW b \in Bindings, NEW n \in Nonces,
           NEW expires \in 1..MaxTime, IssueChallenge(c, b, n, expires)
    PROVE  IInv'
<1> DEFINE new == [binding |-> b, nonce |-> n, expires |-> expires]
<1>1. new \in Challenge
  BY TimeAssumption DEF Challenge
<1>2. /\ challenges[c] = Nothing /\ challenges' = [challenges EXCEPT ![c] = new]
      /\ UNCHANGED <<now, consumed, pc, request, report, answer, late, decided>>
  BY DEF IssueChallenge, history
<1>3. \A d \in Challenges : challenges[d] \in Challenge => d # c /\ challenges'[d] = challenges[d]
  BY <1>2, NothingAssumption DEF IInv, TypeOK
<1>4. TypeOK'
  BY <1>1, <1>2 DEF IInv, TypeOK
<1>5. Working'
  BY <1>2, <1>3 DEF IInv, Working, BoundTo, SameNonce, ChallengeOf, Request
<1>6. Marked' /\ Consumer'
  BY <1>2 DEF IInv, Marked, Consumer, Passed
<1>7. Answers'
  BY <1>2, <1>3 DEF IInv, Answers, BoundTo, SameNonce, ChallengeOf, Request
<1>8. Issued'
  BY <1>1, <1>2, NothingAssumption DEF IInv, TypeOK, Issued
<1> QED  BY <1>4, <1>5, <1>6, <1>7, <1>8 DEF IInv

LEMMA FetchStep ==
    ASSUME IInv, NEW w \in Workers, NEW r \in Request, Fetch(w, r)
    PROVE  IInv'
<1>1. r.id \in Challenges /\ r # Nothing
  BY NothingAssumption DEF Request
<1>2. /\ request' = [request EXCEPT ![w] = r] /\ report' = [report EXCEPT ![w] = Nothing]
      /\ late' = [late EXCEPT ![w] = consumed[r.id]]
      /\ UNCHANGED <<now, challenges, consumed, decided>> /\ pc[w] = "idle"
  BY DEF Fetch, repository
<1>3. \/ challenges[r.id] = Nothing /\ answer' = [answer EXCEPT ![w] = "NOT_FOUND"] /\ pc' = pc
      \/ /\ challenges[r.id] \in Challenge
         /\ answer' = [answer EXCEPT ![w] = Nothing] /\ pc' = [pc EXCEPT ![w] = "fetched"]
  BY <1>1 DEF Fetch, IInv, TypeOK
<1>4. TypeOK'
  BY <1>1, <1>2, <1>3 DEF IInv, TypeOK, Refusal
<1>5. Working'
  BY <1>1, <1>2, <1>3 DEF IInv, TypeOK, Working, BoundTo, SameNonce, ChallengeOf
<1>6. Marked' /\ Consumer' /\ Issued'
  BY <1>1, <1>2, <1>3 DEF IInv, TypeOK, Marked, Consumer, Issued, Passed
<1>7. Answers'
  <2>1. challenges[r.id] = Nothing => ~ consumed[r.id]
    BY <1>1 DEF IInv, Issued
  <2> SUFFICES ASSUME NEW v \in Workers
               PROVE  /\ late'[v] => /\ request'[v] \in Request /\ consumed'[request'[v].id]
                                     /\ pc'[v] \in {"idle", "fetched"}
                                     /\ answer'[v] \in {"REPLAYED", Nothing}
                      /\ request'[v] # Nothing /\ answer'[v] \in Report \cup {"EXPIRED", "BINDING_MISMATCH", "NONCE_MISMATCH"}
                            => consumed'[request'[v].id]
                      /\ answer'[v] \in Verified =>
                            /\ request'[v] \in Request /\ challenges'[request'[v].id] \in Challenge
                            /\ BoundTo(v)' /\ SameNonce(v)'
    BY DEF Answers
  <2>2. CASE v = w
    <3>1. request'[w] = r /\ late'[w] = consumed[r.id]
      BY <1>2 DEF IInv, TypeOK
    <3>2. \/ answer'[w] = "NOT_FOUND" /\ ~ consumed[r.id]
          \/ answer'[w] = Nothing /\ pc'[w] = "fetched"
      <4>1. CASE challenges[r.id] = Nothing /\ answer' = [answer EXCEPT ![w] = "NOT_FOUND"]
        BY <2>1, <4>1 DEF IInv, TypeOK
      <4>2. CASE answer' = [answer EXCEPT ![w] = Nothing] /\ pc' = [pc EXCEPT ![w] = "fetched"]
        BY <4>2 DEF IInv, TypeOK
      <4> QED  BY <1>3, <4>1, <4>2
    <3>3. answer'[w] \notin Report \cup {"EXPIRED", "BINDING_MISMATCH", "NONCE_MISMATCH"}
      BY <3>2, NothingAssumption DEF Report, Refusal
    <3> QED  BY <1>1, <1>2, <2>2, <3>1, <3>2, <3>3 DEF Report, Verified
  <2>3. CASE v # w
    BY <1>2, <1>3, <2>3 DEF IInv, TypeOK, Answers, BoundTo, SameNonce, ChallengeOf
  <2> QED  BY <2>2, <2>3
<1> QED  BY <1>4, <1>5, <1>6, <1>7 DEF IInv

\* The steps of an attestation that do not decide.
LEMMA TestStep ==
    ASSUME IInv, NEW w \in Workers,
           \/ RefuseReplay(w) \/ Admit(w) \/ ProviderRaises(w)
           \/ \E result \in Report : AskProvider(w, result)
    PROVE  IInv'
<1>1. /\ request[w] \in Request /\ request[w].id \in Challenges
      /\ challenges[request[w].id] \in Challenge
  BY DEF IInv, Working, RefuseReplay, Admit, ProviderRaises, AskProvider, Request
<1>2. CASE RefuseReplay(w)
  <2>1. /\ pc[w] = "fetched" /\ pc' = [pc EXCEPT ![w] = "idle"]
        /\ answer' = [answer EXCEPT ![w] = "REPLAYED"] /\ consumed[request[w].id]
        /\ UNCHANGED <<now, challenges, consumed, request, report, late, decided>>
    BY <1>2 DEF RefuseReplay, Answer, repository, history
  <2>2. TypeOK' /\ Working' /\ Marked' /\ Consumer' /\ Issued'
    BY <2>1 DEF IInv, TypeOK, Working, Marked, Consumer, Issued, Passed, BoundTo, SameNonce,
                ChallengeOf, Refusal
  <2>3. Answers'
    BY <1>1, <2>1 DEF IInv, TypeOK, Answers, BoundTo, SameNonce, ChallengeOf, Report, Verified
  <2> QED  BY <2>2, <2>3 DEF IInv
<1>3. CASE Admit(w)
  <2>1. /\ pc[w] = "fetched" /\ pc' = [pc EXCEPT ![w] = "unconsumed"] /\ ~ consumed[request[w].id]
        /\ UNCHANGED <<now, challenges, consumed, request, report, answer, late, decided>>
    BY <1>3 DEF Admit, repository, history
  <2>2. TypeOK' /\ Working' /\ Consumer' /\ Issued'
    BY <1>1, <2>1 DEF IInv, TypeOK, Working, Consumer, Issued, BoundTo, SameNonce, ChallengeOf
  <2>3. \A v \in Workers : decided[request[w].id][v] = 0
    BY <1>1, <2>1 DEF IInv, TypeOK, Marked
  <2>4. Marked'
    BY <2>1, <2>3 DEF IInv, TypeOK, Marked, Passed
  <2>5. Answers'
    BY <2>1 DEF IInv, TypeOK, Answers, BoundTo, SameNonce, ChallengeOf
  <2> QED  BY <2>2, <2>4, <2>5 DEF IInv
<1>4. CASE ProviderRaises(w)
  <2>1. /\ pc[w] = "unconsumed" /\ pc' = [pc EXCEPT ![w] = "idle"]
        /\ answer' = [answer EXCEPT ![w] = "ERROR"]
        /\ UNCHANGED <<now, challenges, consumed, request, report, late, decided>>
    BY <1>4 DEF ProviderRaises, Answer, repository, history
  <2>2. TypeOK' /\ Working' /\ Marked' /\ Consumer' /\ Issued'
    BY <2>1 DEF IInv, TypeOK, Working, Marked, Consumer, Issued, Passed, BoundTo, SameNonce,
                ChallengeOf
  <2>3. Answers'
    BY <1>1, <2>1 DEF IInv, TypeOK, Answers, BoundTo, SameNonce, ChallengeOf, Report, Verified
  <2> QED  BY <2>2, <2>3 DEF IInv
<1>5. ASSUME NEW result \in Report, AskProvider(w, result)
      PROVE  IInv'
  <2>1. /\ pc[w] = "unconsumed" /\ BoundTo(w) /\ SameNonce(w)
        /\ pc' = [pc EXCEPT ![w] = "reported"] /\ report' = [report EXCEPT ![w] = result]
        /\ UNCHANGED <<now, challenges, consumed, request, answer, late, decided>>
    BY <1>5 DEF AskProvider, repository, history
  <2>2. TypeOK' /\ Working' /\ Marked' /\ Consumer' /\ Issued'
    BY <1>1, <2>1 DEF IInv, TypeOK, Working, Marked, Consumer, Issued, Passed, BoundTo, SameNonce,
                ChallengeOf
  <2>3. Answers'
    BY <2>1 DEF IInv, TypeOK, Answers, BoundTo, SameNonce, ChallengeOf
  <2> QED  BY <2>2, <2>3 DEF IInv
<1> QED  BY <1>2, <1>3, <1>4, <1>5

LEMMA NextIInv == IInv /\ [Next]_vars => IInv'
<1> SUFFICES ASSUME IInv, [Next]_vars PROVE IInv'
  OBVIOUS
<1>1. CASE UNCHANGED vars
  BY <1>1 DEF vars, repository, history, IInv, TypeOK, Working, Marked, Consumer, Answers, Issued,
              Passed, BoundTo, SameNonce, ChallengeOf
<1>2. CASE Tick
  BY <1>2, TimeAssumption
     DEF Tick, repository, history, IInv, TypeOK, Working, Marked, Consumer, Answers, Issued,
         Passed, BoundTo, SameNonce, ChallengeOf
<1>3. ASSUME NEW w \in Workers, Attest(w) PROVE IInv'
  <2>1. CASE RefuseReplay(w) \/ Admit(w) \/ ProviderRaises(w) \/ \E result \in Report : AskProvider(w, result)
    BY <2>1, TestStep
  <2>2. CASE RefuseExpired(w) \/ RefuseBinding(w) \/ RefuseNonce(w)
    BY <2>2, DecideStep DEF RefuseExpired, RefuseBinding, RefuseNonce, Passed, Verified
  <2>3. CASE AnswerReport(w)
    BY <2>3, DecideStep DEF AnswerReport, Passed, IInv, Working
  <2> QED  BY <1>3, <2>1, <2>2, <2>3 DEF Attest
<1> QED  BY <1>1, <1>2, <1>3, IssueStep, FetchStep DEF Next

\* The inductive invariant holds throughout.
THEOREM Invariance == Spec => []IInv
<1> QED  BY InitIInv, NextIInv, PTL DEF Spec

\* Types are kept, for any constants (repository, verify_attestation).
THEOREM TypeCorrect == Spec => []TypeOK
<1>1. IInv => TypeOK
  BY DEF IInv
<1> QED  BY <1>1, Invariance, PTL

\* No worker decides twice about a challenge (verify_attestation).
THEOREM DecidedOnceCorrect == Spec => []DecidedOnce
<1>1. IInv => DecidedOnce
  BY DEF IInv, Marked, DecidedOnce
<1> QED  BY <1>1, Invariance, PTL

\* What begins after an answer is refused as a replay (verify_attestation).
THEOREM ReplayRefusedCorrect == Spec => []ReplayRefused
<1>1. IInv => ReplayRefused
  BY DEF IInv, Answers, ReplayRefused
<1> QED  BY <1>1, Invariance, PTL

\* Verdicts are about the challenge's own device and nonce, and only answers
\* consume (verify_attestation).
THEOREM VerdictsBoundCorrect == Spec => []VerdictsBound
<1>1. IInv => VerdictsBound
  BY NothingAssumption DEF IInv, Answers, Consumer, VerdictsBound, Verified, Report
<1> QED  BY <1>1, Invariance, PTL

\* A verdict is a worker's only one on the challenge, and rests on its binding
\* and nonce (verify_attestation).
THEOREM VerdictsCorrect == Spec => []VerdictsEarned
<1>1. DecidedOnce /\ VerdictsBound => VerdictsEarned
  BY DEF VerdictsEarned
<1> QED  BY <1>1, DecidedOnceCorrect, VerdictsBoundCorrect, PTL

=============================================================================
