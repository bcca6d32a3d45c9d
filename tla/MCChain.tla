-------------------------------- MODULE MCChain --------------------------------
(* Instances of the components that finalized blocks drive.  They do not        *)
(* interact in these instances, so each behaviour follows one of them and the   *)
(* others keep their initial state.                                             *)
EXTENDS AvailabilityOperators, CommitteeCheckpoints, MonetarySettlement, AdaptiveControls,
        TimeSignatures

VARIABLE part         \* the component the behaviour follows

MCOperatorOf == <<1, 2, 3, 3>>
MCYearBudget == <<7, 5>>

\* A long lock sealed to a committee with a member that has left and signs everything early.
MCSignersOf == [h \in 1..4 |-> {1, 2}]
MCOpenings == {[unlock |-> 1, keys |-> {1, 4}]}

chainVars == <<avVars, ckVars, moVars, acVars>>

ChainInit ==
    /\ AvInit /\ CkInit /\ MoInit /\ AcInit /\ TsInit
    /\ part \in {"availability", "checkpoints", "money", "controls", "signatures"}

ChainNext ==
    \/ part = "availability" /\ AvNext /\ UNCHANGED <<ckVars, moVars, acVars, tsVars, part>>
    \/ part = "checkpoints" /\ CkNext /\ UNCHANGED <<avVars, moVars, acVars, tsVars, part>>
    \/ part = "money" /\ MoNext /\ UNCHANGED <<avVars, ckVars, acVars, tsVars, part>>
    \/ part = "controls" /\ AcNext /\ UNCHANGED <<avVars, ckVars, moVars, tsVars, part>>
    \/ part = "signatures" /\ TsNext /\ UNCHANGED <<chainVars, part>>

\* The fairness of TimeSignatures: the loop of every honest node runs, it follows the chain,
\* a signature that is sent again and again arrives, and some proposer that can goes ahead.
Signing(A) == part = "signatures" /\ A /\ UNCHANGED <<chainVars, part>>

SigningFairness ==
    /\ \A n \in HonestSigners : WF_tsVars(Signing(Turn(n))) /\ WF_tsVars(Signing(FollowChain(n)))
    /\ \A n, v \in HonestSigners : WF_tsVars(Signing(Resent(v, n)))
    /\ WF_tsVars(Signing(\E n \in HonestSigners : BlockBy(n)))

ChainSpec ==
    ChainInit /\ [][ChainNext]_<<chainVars, tsVars, part>> /\ SigningFairness

\* BlocksGoOn, for the behaviours that follow the time signatures: no loss, delay, refusal or
\* restart leaves the next block without its quorum of signatures.
SignedBlocksGoOn == part = "signatures" => BlocksGoOn
================================================================================
