SPECIFICATION PeersSpec
CONSTANTS
    n1 = n1
    n2 = n2
    n3 = n3
    n4 = n4
    Members <- Four
    Faulty <- LastFaulty
    Running <- Two
    leader <- Rotation
    MaxRound = 2
    RoundWindow = 1
    MaxRoundsHeld = 2
    RegossipRounds = 3
    Timely = FALSE
    MaxPeerLosses = 1
    MaxRestarts = 0
    HonestPeers = {2}
    FaultyPeers = {1}
    Validating = {1}
    Tip = 2
    Ahead = 2
    PerHeight = 2
    Capacity = 3
    SyncWindow = 2
    StrictPeers = 2
    MaxOutages = 1
    Dials = 1
    QueueFrames = 3
    Extras = 1
CHECK_DEADLOCK FALSE
INVARIANTS
    HonestNotScored
    HandshakeHarmless
    RoundsFollowCertificates
PROPERTIES
    SyncCatchesUp
    ConnectionsSettle
    CurrentRoundKept
