-------------------------- MODULE MCTwoPhaseVoting --------------------------
(* Small committees for TwoPhaseVoting.                                     *)
EXTENDS TwoPhaseVoting, TLC

CONSTANTS n1, n2, n3, byz,  \* members
          a0, b0, a1        \* transitions, named for the round that built them

Origin(ids) == [t \in ids |-> IF t = a1 THEN 1 ELSE 0]

\* Two honest members: every certificate needs both, and each leads one round.
Pair == {n1, n2}
NoFaults == {}
PairLeader == [r \in 0 .. MaxRound |-> IF r = 0 THEN n1 ELSE n2]
TwoRounds == {a0, a1}
TwoRoundsOrigin == Origin(TwoRounds)
Conflict == {a0, b0}
ConflictOrigin == Origin(Conflict)

\* Four members, the faulty one leads and may send each a different proposal.
Four == {n1, n2, n3, byz}
OneFaulty == {byz}
FaultyLeader == [r \in 0 .. MaxRound |-> byz]
HonestSymmetry == Permutations({n1, n2, n3})
=============================================================================
