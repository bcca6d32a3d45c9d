SPECIFICATION Spec
CONSTANTS
    n1 = n1
    n2 = n2
    n3 = n3
    byz = byz
    a0 = a0
    b0 = b0
    a1 = a1
    None = None
    Members <- Four
    Faulty <- OneFaulty
    Transitions <- Conflict
    transition_round <- ConflictOrigin
    leader <- FaultyLeader
    MaxRound = 0
    MaxResets = 1
    MaxCandidates = 2
    WriteFailures = {}
SYMMETRY HonestSymmetry
CHECK_DEADLOCK FALSE
INVARIANTS
    Agreement
