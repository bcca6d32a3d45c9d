-------------------------- MODULE CommitteeQuorum --------------------------
(* The committee of one height: its members, the members that do not follow *)
(* the protocol, and the quorum every certificate of the height is counted  *)
(* against (polka, timeout certificate, finality certificate).              *)
EXTENDS Naturals, FiniteSets

CONSTANTS
    Members,    \* committee_for_height_round(h, r) of a multi-member committee
    Faulty      \* members that may sign anything, at any time

ASSUME CommitteeAssumption ==
    /\ IsFiniteSet(Members)
    /\ Cardinality(Members) >= 2    \* a committee of one finalizes by its own path
    /\ Faulty \subseteq Members
    /\ 3 * Cardinality(Faulty) < Cardinality(Members)

Honest == Members \ Faulty

\* Slip (not part of the specification): two thirds rounded down.
TwoThirds(n) == (2 * n) \div 3

\* consensus::quorum_threshold: more than two thirds of n
quorum_threshold(n) == (2 * n) \div 3 + 1

\* The counting loop of the certificate checks: distinct committee members only.
IsQuorum(S) == Cardinality(S \cap Members) >= quorum_threshold(Cardinality(Members))

\* n - Q + 1 members: at least one of them is outside every set of n - Q.
FPlusOne(S) ==
    Cardinality(S \cap Members)
        >= Cardinality(Members) - quorum_threshold(Cardinality(Members)) + 1
=============================================================================
