------------------------------- MODULE MCStores -------------------------------
(* Model promotion, virtual card numbers and disputes in one run.  The three  *)
(* services share no state; a behaviour loads one of them.                    *)
EXTENDS MCModelPromotion, TokenVault, DisputeCase

MCLimits == {NoLimit, 1, 2}

StoresInit ==
    /\ load \in {"races", "serving", "vault", "disputes"}
    /\ Init /\ VaultInit /\ DisputeInit

StoresNext ==
    \/ load \in {"races", "serving"} /\ MCNext /\ UNCHANGED <<vaultVars, disputeVars>>
    \/ load = "vault" /\ VaultNext /\ UNCHANGED <<vars, disputeVars, load>>
    \/ load = "disputes" /\ DisputeNext /\ UNCHANGED <<vars, vaultVars, load>>

StoresSpec == StoresInit /\ [][StoresNext]_<<vars, vaultVars, disputeVars, load>>

\* Jobs, records, agents, disputes and keys are the same two model values, and a
\* swap of them all at once leaves every load as it was.
StoreSymmetry == Permutations(Jobs) \cup Permutations(Threads)
===============================================================================
