SPECIFICATION ConnectedSpec
CONSTANTS
    n1 = n1
    n2 = n2
    n3 = n3
    n4 = n4
    Members <- Four
    Faulty <- NoFaults
    Running <- Three
    leader <- Rotation
    MaxRound = 1
    RoundWindow = 0
    MaxRoundsHeld = 1
    RegossipRounds = 3
    Timely = TRUE
    MaxPeerLosses = 0
    MaxRestarts = 1
CHECK_DEADLOCK FALSE
INVARIANTS
    CertificateEndsRound
PROPERTIES
    RoundsEnd
