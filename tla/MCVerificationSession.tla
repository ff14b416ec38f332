----------------------- MODULE MCVerificationSession -----------------------
(* Instances of VerificationSession for TLC.                                *)
EXTENDS VerificationSession, TLC


\* For each tier a completion that satisfies its workflow and one that does
\* not, a denial, a reported time-out, and one with the token of another session.
MCRequests ==
    {[bound |-> TRUE, outcome |-> "APPROVED", evidence |-> e] :
        e \in {{}, {"biometric"}, EvidenceKind \ {"swipe"}, EvidenceKind}}
    \cup {[bound |-> TRUE, outcome |-> o, evidence |-> {}] : o \in {"DENIED", "TIMED_OUT"}}
    \cup {[bound |-> FALSE, outcome |-> "APPROVED", evidence |-> EvidenceKind]}

\* Enough to complete, deny and time out a session.
MCFewRequests ==
    {r \in MCRequests : r.evidence \in {{}, EvidenceKind} /\ r.bound}

WorkerSymmetry == Permutations(Workers)

=============================================================================
