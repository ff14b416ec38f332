------------------------------- MODULE MCRecords -------------------------------
(* Verification sessions and the analyst desk in one run.  The two services   *)
(* share no state; a behaviour loads one of them.                             *)
EXTENDS MCVerificationSession, AnalystDesk

VARIABLE load

MCInit == Init /\ DeskInit /\ load \in {"sessions", "desk"}

MCNext ==
    /\ UNCHANGED load
    /\ \/ load = "sessions" /\ Next /\ UNCHANGED deskVars
       \/ load = "desk" /\ DeskNext /\ UNCHANGED vars

MCSpec == MCInit /\ [][MCNext]_<<vars, deskVars, load>>
===============================================================================
