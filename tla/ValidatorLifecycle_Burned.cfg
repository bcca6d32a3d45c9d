CONSTANTS
    Keys <- ThreeKeys
    Genesis <- Nobody
    Settled <- First
    Bonds = 2
    Warmup = 1
    Cooldown = 2
    UnbondDelay = 1
    EpochBlocks = 3
    CommitteeSize = 4
    JoinWindow = 3
    JoinMax = 1
    LivenessWindow = 4
    EligibleFloor = 3
    SuspendRate = 25
    ExitRate = 60
    SuspendFor = 2
    BlsKeys = {1, 2, 3}
    Amount <- MCAmount
    BlsOf <- MCBlsOf
    MinBond <- MCMinBond
    MaxHeight = 7
    MaxTxs = 4
SPECIFICATION Spec
INVARIANT ActiveHasBond
CHECK_DEADLOCK FALSE
