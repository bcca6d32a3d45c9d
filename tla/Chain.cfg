SPECIFICATION ChainSpec
CONSTANTS
    Operators = {o1, o2}
    GenesisOperators = {o1}
    EpochBlocks = 2
    Replication = 1
    Audits = 2
    MinAudits = 4
    WarmupEpochs = 2
    EligibleScore = 3
    AlphaPercent = 50
    Window = 2
    FewOperators = 1
    MaxHeight = 6
    Validators = {1, 2, 3, 4}
    OperatorOf <- MCOperatorOf
    Genesis = {1}
    Statuses = {"ACTIVE", "SUSPENDED", "BANNED"}
    SmallTarget = 1
    LargeTarget = 2
    ExpandDepth = 3
    ContractDepth = 1
    ExpandEpochs = 2
    ContractEpochs = 3
    EligibleMargin = 1
    TinyMinimum = 1
    LowMinimum = 3
    MaxCommittee = 3
    EmergencyMax = 2
    Members = {1, 2}
    BlocksPerEpoch = 2
    BlocksPerYear = 2
    YearBudget <- MCYearBudget
    AccrualPercent = 30
    FeeReservePercent = 50
    OnboardingPercent = 25
    PayoutPercent = 40
    ThresholdPercent = 80
    GenesisUnits = 3
    MaxTransfer = 1
    LastHeight = 6
    MinBits = 0
    MaxBits = 3
    WindowEpochs = 6
    MaxBaseFee = 20
    Target = 2
    Signers = {1, 2, 4}
    EarlySigners = {4}
    SignersOf <- MCSignersOf
    Openings <- MCOpenings
    Grace = 1
    FinalHeights = 2
    SignerRestarts = 1
CHECK_DEADLOCK FALSE
INVARIANTS
    EligibleIsEarned
    CommitteeFormed
    SupplyConserved
    SecretUntilFinal
PROPERTIES
    TargetNeedsStreak
    ControlsSteady
    SignedBlocksGoOn
