SPECIFICATION Spec
CONSTANTS
    n1 = n1
    n2 = n2
    n3 = n3
    n4 = n4
    Members <- Two
    Faulty <- NoFaults
    Running <- Two
    leader <- Alternate
    MaxRound = 1
    RoundWindow = 0
    MaxRoundsHeld = 1
    RegossipRounds = 3
    Timely = TRUE
    MaxPeerLosses = 1
    MaxRestarts = 0
CHECK_DEADLOCK FALSE
INVARIANTS
    CertificateEndsRound
