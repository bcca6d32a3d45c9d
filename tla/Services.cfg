CONSTANTS
    Keys <- ThreeKeys
    Genesis <- Nobody
    Settled <- First
    Bonds = 2
    Warmup = 1
    Cooldown = 2
    UnbondDelay = 1
    EpochBlocks = 3
    CommitteeSize = 4
    JoinWindow = 3
    JoinMax = 1
    LivenessWindow = 4
    EligibleFloor = 3
    SuspendRate = 25
    ExitRate = 60
    SuspendFor = 2
    BlsKeys = {1, 2, 3}
    Amount <- MCAmount
    BlsOf <- MCBlsOf
    MinBond <- MCMinBond
    MaxHeight = 7
    MaxTxs = 4
    Values <- MCValues
    FirstOutputs = {1}
    Required = 3
    PowBlocks = 1
    MaxTip = 4
    MaxCrashes = 1
    StepLimit = 16
    Threads = {1, 2}
    IdemKeys = {1}
    Bodies <- MCBodies
    KeyTtl = 1
    EventTtl = 2
    QueueTtl = 1
    KeyLimit = 2
    EventLimit = 3
    QueueLimit = 1
    MaxAttempts = 2
    MaxReplays = 1
    MaxBackoff = 1
    Answers = {"accepted_for_relay", "rejected", "error"}
    Budgets <- MCBudgets
    SpendCoins = {1, 2}
    MinTipDelta = 2
    UnlockDelay = 1
    LongGrace = 3
    WalletLimits <- MCWalletLimits
SPECIFICATION ServicesSpec
INVARIANTS JoinsNotStranded OneBondAtStake NotifiedAtLeastOnce ReportedIsFinal HeldUntilGivenUp HistoryExact
PROPERTIES ActiveSetFloor NoQueueJumping
CHECK_DEADLOCK FALSE
