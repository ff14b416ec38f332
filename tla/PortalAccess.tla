----------------------------- MODULE PortalAccess -----------------------------
(***************************************************************************)
(* services/business_portal and services/fi_ops_portal: who may read and   *)
(* change which views.  Both portals parse their tokens from a setting and *)
(* guard every route but two by role; the texts of their auth.py are the   *)
(* same.  The views are fed by other services.  A dispute's transition,    *)
(* the same in both as in the dispute engine, is in DisputeCase.           *)
(***************************************************************************)
EXTENDS Naturals, Sequences, FiniteSets, SequencesExt

CONSTANTS
    TokenTexts,     \* bearer tokens
    Configurations, \* settings: sequences of entries, a token and its roles
    Merchants,
    ViewIds,        \* ids of transactions, policies, disputes, ...
    MaxViews,       \* bound on the views the portals hold
    Missing         \* no token, no view, no merchant asked for

Roles == {"BUSINESS_ADMIN", "MERCHANT_ADMIN", "FI_OPS", "ADMIN"}
TokenEntry == [token : TokenTexts \cup {Missing}, roles : SUBSET Roles]
BusinessRoles == {"BUSINESS_ADMIN", "MERCHANT_ADMIN"}
OpsRoles == {"FI_OPS", "ADMIN"}

\* What a portal keeps, by kind, and what may be listed and looked up.
BusinessKinds == {"transaction", "spend", "policy", "dispute", "webhook"}
BusinessLists == BusinessKinds \ {"spend"}
BusinessLookups == BusinessKinds \ {"webhook"}
OpsKinds == {"transaction", "dispute", "audit", "state"}
OpsLists == {"transaction", "dispute"}
OpsLookups == {"transaction", "state"}

ASSUME PortalAssumption ==
    /\ Configurations \subseteq Seq(TokenEntry)
    /\ MaxViews \in Nat /\ Missing \notin TokenTexts \cup Merchants

\* An Authorization header: its scheme is Bearer or not, its token may be blank.
Header == [bearer : BOOLEAN, token : TokenTexts \cup {Missing}] \cup {Missing}

VARIABLES
    setting,    \* setting[p]: the configured tokens of portal p
    business,   \* business[k][i]: the merchant of view i of kind k, or Missing
    ops,        \* ops[k][i]: whether view i of kind k is of a blocked payment
    reading,    \* the transactions a report has listed, or Missing
    outcome     \* the last answer

portals == <<setting, business, ops, reading, outcome>>

Unanswered == [portal |-> "none", header |-> Missing, status |-> 0, path |-> Missing,
               told |-> {}, touched |-> {}]

PortalInit ==
    /\ setting \in [{"business", "ops"} -> Configurations]
    /\ business = [k \in BusinessKinds |-> [i \in ViewIds |-> Missing]]
    /\ ops = [k \in OpsKinds |-> [i \in ViewIds |-> Missing]]
    /\ reading = Missing
    /\ outcome = Unanswered

-----------------------------------------------------------------------------
(* Authentication.                                                         *)

\* Entries without a token or without roles are skipped, so they take nothing
\* back; of the others the last of a token counts.
ParseTokenMap(entries) ==
    LET valid == {i \in DOMAIN entries : entries[i].token # Missing /\ entries[i].roles # {}}
        of(t) == {i \in valid : entries[i].token = t}
    IN  [t \in TokenTexts |-> IF of(t) = {} THEN {} ELSE entries[Max(of(t))].roles]

HasBearerToken(h) == h # Missing /\ h.bearer /\ h.token # Missing

Required(p) == IF p = "business" THEN BusinessRoles ELSE OpsRoles

\* Variant: a known token will do, whatever its roles.
AuthenticateOnly(p, h) ==
    IF ~ HasBearerToken(h) THEN 401
    ELSE IF ParseTokenMap(setting[p])[h.token] = {} THEN 401 ELSE 200

\* 401 to a token that is missing or unknown, 403 to one without a role.
RequireRoles(p, h) ==
    IF ~ HasBearerToken(h) THEN 401
    ELSE LET roles == ParseTokenMap(setting[p])[h.token]
         IN  IF roles = {} THEN 401 ELSE IF roles \cap Required(p) = {} THEN 403 ELSE 200

Told(p, h, status, told) ==
    outcome' = [portal |-> p, header |-> h, status |-> status, path |-> Missing,
                told |-> told, touched |-> {}]

\* guard: the request ends before the route's body begins.
Deny(p, h) ==
    /\ RequireRoles(p, h) # 200
    /\ Told(p, h, RequireRoles(p, h), {})
    /\ UNCHANGED <<setting, business, ops, reading>>

-----------------------------------------------------------------------------
(* The business portal.                                                    *)

InBusiness(k) == {i \in ViewIds : business[k][i] # Missing}
InOps(k) == {i \in ViewIds : ops[k][i] # Missing}

Views == Cardinality(UNION {{k} \X InBusiness(k) : k \in BusinessKinds})
         + Cardinality(UNION {{k} \X InOps(k) : k \in OpsKinds})

FeedBusiness(k, i, m) ==
    /\ Views < MaxViews
    /\ business' = [business EXCEPT ![k][i] = m]
    /\ UNCHANGED <<setting, ops, reading, outcome>>

\* Without a merchant the views of all are listed.
ListBusiness(k, m, h) ==
    /\ k \in BusinessLists /\ RequireRoles("business", h) = 200
    /\ Told("business", h, 200, {i \in InBusiness(k) : m = Missing \/ business[k][i] = m})
    /\ UNCHANGED <<setting, business, ops, reading>>

GetBusiness(k, i, h) ==
    /\ k \in BusinessLookups /\ RequireRoles("business", h) = 200
    /\ IF i \in InBusiness(k) THEN Told("business", h, 200, {i}) ELSE Told("business", h, 404, {})
    /\ UNCHANGED <<setting, business, ops, reading>>

WritePolicy(h, path, i, value, status) ==
    /\ RequireRoles("business", h) = 200
    /\ business' = [business EXCEPT !["policy"][i] = value]
    /\ outcome' = [portal |-> "business", header |-> h, status |-> status, path |-> path,
                   told |-> {}, touched |-> {i}]
    /\ UNCHANGED <<setting, ops, reading>>

CreatePolicy(i, m, h) == WritePolicy(h, i, i, m, 201)

ReplacePolicy(path, i, m, h) == path = i /\ WritePolicy(h, path, i, m, 200)

\* The body names another policy than the path.
RefuseReplacement(path, i, h) ==
    /\ path # i /\ RequireRoles("business", h) = 200
    /\ Told("business", h, 400, {})
    /\ UNCHANGED <<setting, business, ops, reading>>

DeletePolicy(i, h) == i \in InBusiness("policy") /\ WritePolicy(h, i, i, Missing, 204)

DeleteNothing(i, h) ==
    /\ i \notin InBusiness("policy") /\ RequireRoles("business", h) = 200
    /\ Told("business", h, 404, {})
    /\ UNCHANGED <<setting, business, ops, reading>>

-----------------------------------------------------------------------------
(* The operations portal.                                                  *)

FeedOps(k, i, blocked) ==
    /\ Views < MaxViews
    /\ ops' = [ops EXCEPT ![k][i] = blocked]
    /\ UNCHANGED <<setting, business, reading, outcome>>

ListOps(k, h) ==
    /\ k \in OpsLists /\ RequireRoles("ops", h) = 200
    /\ Told("ops", h, 200, InOps(k))
    /\ UNCHANGED <<setting, business, ops, reading>>

GetOps(k, i, h) ==
    /\ k \in OpsLookups /\ RequireRoles("ops", h) = 200
    /\ IF i \in InOps(k) THEN Told("ops", h, 200, {i}) ELSE Told("ops", h, 404, {})
    /\ UNCHANGED <<setting, business, ops, reading>>

\* Events are told only of a transaction that has a view, its state without.
ListAuditEvents(i, h) ==
    /\ RequireRoles("ops", h) = 200
    /\ IF i \in InOps("transaction") THEN Told("ops", h, 200, InOps("audit") \cap {i})
       ELSE Told("ops", h, 404, {})
    /\ UNCHANGED <<setting, business, ops, reading>>

BeginReport(h) ==
    /\ reading = Missing /\ RequireRoles("ops", h) = 200
    /\ reading' = [header |-> h, views |-> ops["transaction"]]
    /\ UNCHANGED <<setting, business, ops, outcome>>

Counted(views) == {i \in ViewIds : views[i] # Missing}

FinishReport ==
    /\ reading # Missing
    /\ outcome' = [portal |-> "ops", header |-> reading.header, status |-> 200, path |-> Missing,
                   told |-> [transactions |-> Counted(reading.views), disputes |-> InOps("dispute"),
                             blocked |-> {i \in Counted(reading.views) : reading.views[i]}],
                   touched |-> {}]
    /\ reading' = Missing
    /\ UNCHANGED <<setting, business, ops>>

PortalNext ==
    \/ \E k \in BusinessKinds, i \in ViewIds, m \in Merchants : FeedBusiness(k, i, m)
    \/ \E k \in OpsKinds, i \in ViewIds, blocked \in BOOLEAN : FeedOps(k, i, blocked)
    \/ \E h \in Header :
          \/ \E p \in {"business", "ops"} : Deny(p, h)
          \/ \E k \in BusinessLists, m \in Merchants \cup {Missing} : ListBusiness(k, m, h)
          \/ \E k \in BusinessLookups, i \in ViewIds : GetBusiness(k, i, h)
          \/ \E i \in ViewIds, m \in Merchants : CreatePolicy(i, m, h)
          \/ \E path, i \in ViewIds, m \in Merchants : ReplacePolicy(path, i, m, h)
          \/ \E path, i \in ViewIds : RefuseReplacement(path, i, h)
          \/ \E i \in ViewIds : DeletePolicy(i, h) \/ DeleteNothing(i, h)
          \/ \E k \in OpsLists : ListOps(k, h)
          \/ \E k \in OpsLookups, i \in ViewIds : GetOps(k, i, h)
          \/ \E i \in ViewIds : ListAuditEvents(i, h)
          \/ BeginReport(h)
    \/ FinishReport

PortalSpec == PortalInit /\ [][PortalNext]_portals

-----------------------------------------------------------------------------
Names(p, h, role) ==
    \E i \in DOMAIN setting[p] : setting[p][i].token = h.token /\ role \in setting[p][i].roles

\* "Fail-closed: an authenticator error or empty role set denies access"
\* (auth.py:14 of both portals): whoever is told or changes anything showed a
\* bearer token that the setting of that very portal gives one of that portal's
\* roles, a report begun included, and whoever is denied is told nothing.
FailClosed ==
    LET o == outcome IN
    /\ o.status \notin {0, 401, 403} =>
          HasBearerToken(o.header) /\ \E role \in Required(o.portal) : Names(o.portal, o.header, role)
    /\ o.status \in {401, 403} => o.told = {} /\ o.touched = {}
    /\ o.touched \subseteq {o.path}
=============================================================================
