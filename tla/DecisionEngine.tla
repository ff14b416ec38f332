---------------------------- MODULE DecisionEngine ----------------------------
(***************************************************************************)
(* Authorization of one payment by the decision engine.  The engine keeps  *)
(* no state: one behaviour is one request and its answer, and each of its  *)
(* early returns is an action.                                             *)
(***************************************************************************)
EXTENDS RiskPolicy

VARIABLES
    request,    \* the request being decided
    response    \* the action and escalation_required, or Unset

vars == <<request, response>>

Init ==
    /\ request \in Request
    /\ response = Unset

Respond(action, escalated) ==
    /\ response = Unset
    /\ response' = [action |-> action, escalated |-> escalated]
    /\ UNCHANGED request

IsHigh == Tier(request) = "HIGH"

Controlled == request.reversal \/ request.blocked

Unexplained == Path(request) = "SECONDARY" /\ ~ request.explained

(* Nothing that comes before the verification's outcome decides. *)
Undecided == ~ Controlled /\ request.evidence /\ ~ Unexplained

DecideReversal == request.reversal /\ Respond("REVERSE", FALSE)

DecideBlocked == ~ request.reversal /\ request.blocked /\ Respond("DECLINE", FALSE)

(* Variant: missing evidence is reviewed without escalation. *)
ReviewQuietly == ~ Controlled /\ ~ request.evidence /\ Respond("REVIEW", FALSE)

DecideWithoutEvidence == ~ Controlled /\ ~ request.evidence /\ Respond("REVIEW", IsHigh)

DecideUnexplained == ~ Controlled /\ request.evidence /\ Unexplained /\ Respond("REVIEW", TRUE)

DecideFailed ==
    /\ Undecided
    /\ request.outcome \in Failed
    /\ Respond(IF IsHigh THEN "REVIEW" ELSE "DECLINE", IsHigh)

DecideEscalated ==
    /\ Undecided
    /\ request.outcome = "ESCALATED"
    /\ Respond("REVIEW", TRUE)

(* Variant: an approved payment is allowed before anything else is asked. *)
AllowApproved == ~ Controlled /\ request.outcome = "APPROVED" /\ Respond("ALLOW", FALSE)

DecideApproved ==
    /\ Undecided
    /\ request.outcome = "APPROVED"
    /\ Respond("ALLOW", FALSE)

DecideByCost ==
    /\ Undecided
    /\ request.outcome = "PENDING"
    /\ Respond(Selected(request), IsHigh /\ Selected(request) = "REVIEW")

Next ==
    \/ DecideReversal \/ DecideBlocked
    \/ DecideWithoutEvidence \/ DecideUnexplained
    \/ DecideFailed \/ DecideEscalated \/ DecideApproved
    \/ DecideByCost

Spec == Init /\ [][Next]_vars

-----------------------------------------------------------------------------
(* The request keeps its type and the answer is an action of the engine.   *)
TypeOK ==
    /\ request \in Request
    /\ response \in [action : Actions, escalated : BOOLEAN] \cup {Unset}

Answered == response # Unset

(* Friction cannot be priced away: whatever the cost model, a payment goes *)
(* through only when the payer approved it, when it is of NO_RISK, or when *)
(* the band the client gave is APPROVE and says the same as its tier.      *)
AllowEarned ==
    Answered /\ response.action = "ALLOW" =>
        \/ request.outcome = "APPROVED"
        \/ Tier(request) = "NO_RISK"
        \/ request.band = "APPROVE" /\ Tier(request) = "LOW"

(* Whichever return answers: the live analyst is called for reviews only,  *)
(* and for every review of a HIGH payment.                                 *)
ReviewEscalates ==
    Answered =>
        /\ response.escalated => response.action = "REVIEW"
        /\ response.action = "REVIEW" /\ Tier(request) = "HIGH" => response.escalated

(* A payment proceeds, with or without friction, only when no control, no  *)
(* missing evidence or in-band explanation and no failed verification      *)
(* stands against it, an earlier approval by the payer notwithstanding.    *)
ProceedsSupported ==
    Answered /\ response.action \in {"ALLOW", "MONITOR", "CHALLENGE"} =>
        /\ ~ request.reversal /\ ~ request.blocked /\ request.evidence
        /\ Path(request) = "SECONDARY" => request.explained
        /\ request.outcome \notin Failed \cup {"ESCALATED"}

(* Two implementations of one policy: on the scores ingress computes, and  *)
(* with the default costs, the engine answers what ingress answers, to a   *)
(* client that sends the score alone over a rail, and to one that sends    *)
(* the band of the score and no rail.                                      *)
IngressAgrees ==
    LET r == request
        plain == Undecided /\ r.outcome = "PENDING" /\ r.costs = DefaultCosts /\ r.tier = Unset
        modern == r.band = Unset /\ r.rail # Unset
        legacy == r.rail = Unset /\ r.band = BandForTier[TierForScore(r.score)]
    IN  Answered /\ plain /\ (modern \/ legacy) /\ r.score \in BaselineScores =>
            response.action = IngressAction(r.score, r.rail)
=============================================================================
