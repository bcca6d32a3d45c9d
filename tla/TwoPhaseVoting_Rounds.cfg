SPECIFICATION Spec
CONSTANTS
    n1 = n1
    n2 = n2
    n3 = n3
    byz = byz
    a0 = a0
    b0 = b0
    a1 = a1
    None = None
    Members <- Pair
    Faulty <- NoFaults
    Transitions <- TwoRounds
    transition_round <- TwoRoundsOrigin
    leader <- PairLeader
    MaxRound = 1
    MaxResets = 1
    MaxCandidates = 2
    WriteFailures = {}
CHECK_DEADLOCK FALSE
PROPERTIES
    RulesSpec
    LockMovesForward
