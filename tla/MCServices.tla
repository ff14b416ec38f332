------------------------------ MODULE MCServices ------------------------------
(* Four services that share no state; a behaviour loads one of them.       *)
EXTENDS DeviceChallenge, ObservationWindow, AuditTrail, PortalAccess, TLC

VARIABLE load

allVars == <<vars, monitor, audit, portals, load>>

-----------------------------------------------------------------------------
(* The window: a spread over two bins is the reference, or the reference   *)
(* lacks the column; what is observed falls into one bin, into none, or    *)
(* lacks the value; the base dataset has a single value.                   *)
O(id, value, label) == [id |-> id, value |-> value, label |-> label]
MCObservations == {O(1, None, "NEEDS_REVIEW"), O(1, 9, "LEGITIMATE")}
MCReferences == {[edges |-> <<0, 4, 8>>, counts |-> <<5, 5>>], [edges |-> None, counts |-> <<>>]}
MCProfiles == [versioned : {None} \cup MCReferences, latest : {[edges |-> <<0, 4, 8>>, counts |-> <<5, 5>>]}]
MCBaseRows == [i \in 1..4 |-> [flag |-> i % 2, value |-> 3]]
MCSubstitute == -1
MCLogOf == <<0, 69, 110, 139, 161, 179, 195, 208, 220, 230>>

-----------------------------------------------------------------------------
(* The portals: a token of each, one of both, one that later entries take  *)
(* roles from or mean to revoke.                                           *)
E(token, roles) == [token |-> token, roles |-> roles]
MCConfigurations ==
    {<<>>,
     <<E(1, {"MERCHANT_ADMIN"}), E(2, {"FI_OPS"}), E(1, {})>>,
     <<E(1, {"BUSINESS_ADMIN", "ADMIN"}), E(Missing, {"ADMIN"}), E(1, {"FI_OPS"})>>}

-----------------------------------------------------------------------------
MCInit ==
    /\ load \in {"device", "window", "audit", "portals"}
    /\ Init /\ WindowInit /\ AuditInit /\ PortalInit
    /\ profiles \in MCProfiles /\ registered = "versioned"
    /\ load # "window" => profiles["versioned"] = None
    /\ IF load = "portals" THEN setting["business"] # setting["ops"]
       ELSE setting = [p \in {"business", "ops"} |-> <<>>]

MCNext ==
    /\ UNCHANGED load
    /\ \/ load = "device" /\ Next /\ UNCHANGED <<monitor, audit, portals>>
       \/ load = "window" /\ WindowNext /\ UNCHANGED <<vars, audit, portals>>
       \/ load = "audit" /\ AuditNext /\ UNCHANGED <<vars, monitor, portals>>
       \/ load = "portals" /\ PortalNext /\ UNCHANGED <<vars, monitor, audit>>

MCSpec == MCInit /\ [][MCNext]_allVars

\* The loads name their threads and their data by the same model values.
ServiceSymmetry == Permutations(Workers) \cup Permutations(Bindings) \cup Permutations(Nonces)
=============================================================================
