------------------------------ MODULE MCServices ------------------------------
(* Instances of the registry of validators and of the services around it: the  *)
(* onboarding of a validator, the partner API of the explorer and the sends of  *)
(* the desktop wallet.  They do not interact in these instances, so each         *)
(* behaviour follows one of them and the others keep their initial state.        *)
EXTENDS MCValidatorLifecycle, Onboarding, PartnerApi, WalletSends

VARIABLE part         \* the component the behaviour follows

MCValues == <<2, 1, 3>>

\* One client pays twice, with one idempotency key.
MCBodies == {[client |-> 1, tx |-> 1], [client |-> 1, tx |-> 2]}
\* Two posts at one time, and one with a restart and time for every age to pass.
MCBudgets == {[posts |-> 2, restarts |-> 0, now |-> 0], [posts |-> 1, restarts |-> 1, now |-> 2]}

\* Payments received, with two refreshes under way; a send with servers that are late; a send
\* and a kill; a send, its cancellation and a kill; two sends, two cancellations and a kill.
MCWalletLimits ==
    {[blocks |-> 3, ids |-> 0, payments |-> 2, refreshes |-> 2, kills |-> 1, late |-> 2],
     [blocks |-> 4, ids |-> 2, payments |-> 0, refreshes |-> 1, kills |-> 0, late |-> 1],
     [blocks |-> 3, ids |-> 2, payments |-> 0, refreshes |-> 1, kills |-> 1, late |-> 0],
     [blocks |-> 2, ids |-> 4, payments |-> 0, refreshes |-> 1, kills |-> 1, late |-> 0],
     [blocks |-> 1, ids |-> 6, payments |-> 0, refreshes |-> 1, kills |-> 1, late |-> 0]}

ServicesInit ==
    /\ Init /\ OnInit /\ PaInit /\ WsInit
    /\ part \in {"registry", "onboarding", "partners", "wallet"}
    /\ part = "partners" \/ budget = CHOOSE b \in Budgets : TRUE
    /\ part = "wallet" \/ limits = CHOOSE l \in WalletLimits : TRUE
    /\ (part = "wallet" /\ limits.kills = 0) \/ window = Opened(0)

ServicesNext ==
    \/ part = "registry" /\ Next /\ UNCHANGED <<onVars, paVars, wsVars, part>>
    \/ part = "onboarding" /\ OnNext /\ UNCHANGED <<vars, paVars, wsVars, part>>
    \/ part = "partners" /\ PaNext /\ UNCHANGED <<vars, onVars, wsVars, part>>
    \/ part = "wallet" /\ WsNext /\ UNCHANGED <<vars, onVars, paVars, limits, part>>

ServicesSpec == ServicesInit /\ [][ServicesNext]_<<vars, onVars, paVars, wsVars, part>>
================================================================================
