SPECIFICATION Spec
CONSTANTS
    n1 = n1
    n2 = n2
    n3 = n3
    byz = byz
    a0 = a0
    b0 = b0
    a1 = a1
    None = None
    Members <- Pair
    Faulty <- NoFaults
    Transitions <- Conflict
    transition_round <- ConflictOrigin
    leader <- PairLeader
    MaxRound = 0
    MaxResets = 2
    MaxCandidates = 1
    WriteFailures = {"lost", "replayed"}
CHECK_DEADLOCK FALSE
INVARIANTS
    SignedVotesAreDurable
    VotingInv
PROPERTIES
    FinalityRefined
