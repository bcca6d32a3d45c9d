SPECIFICATION NodeSpec
CONSTANTS
    Txs <- MCTxs
    Funds = {11, 12, 13, 14, 15}
    MaxTxCount = 3
    MaxPoolBytes = 6
    MarginBps = 1000
    MinRelayFee = 2
    FeeExempt = 5
    BaseBits = 0
    PressureTxs = 0
    MaxPoolValue = 3
    BlocksPerPowEpoch = 1
    MaxBlocks = 3
    LaneNodes = {1, 2}
    LaneTxs = {1, 2}
    Certifiers <- MCCertifiers
    EpochHeights = 1
    RangeCap = 1
    LastBlock = 2
    LaneFaults = 1
    Askers = {2}
    Depth = 3
    TreeKeys <- MCTreeKeys
    LeafValues = {1, 2}
    DeltasKept = 1
    MemoLimit = 3
    LastTreeHeight = 2
    HonestServers = {h1}
    LyingServers = {x1}
    EpochLen = 2
    CommitteeOf <- MCCommitteeOf
    Corrupt = {3, 4}
    WalletCoins = {c1, c2}
    LastFinalized = 3
    KeptCheckpoints = 1
    PageSize = 1
    StartFunds <- MCStartFunds
    Transfers <- MCTransfers
    Envelopes <- MCEnvelopes
    EpochBlocksT = 2
    KeysRoot <- MCKeysRoot
    LongFee = 1
    GraceBlocks = 1
    MinForfeit = 2
    MaxTimedPerBlock = 2
    MaxPerUnlock = 2
    MaxLongSettlements = 2
    MaxSliceRecords = 2
    LastExecuted = 7
    LastHeight = 4
    BlocksOfEpoch = 4
    Joins = {2}
    Seats = {3}
    Payloads = {1, 2}
    BaseCap = 1
    CapPercent = 60
    AbsoluteCap = 2
    SafetySpan = 5
    Discards = {0, 3}
    MaxFaults = 3
INVARIANTS
    PoolConsistent
    LanesFollowChain
    BlocksApply
    TipIsProvable
    VerifiedIsReal
    HonestNotBlamed
    EscrowsEnd
    NoForfeitByRace
    RefusedForCause
    NeverVotesTwice
PROPERTY StartedIsCanonical
CHECK_DEADLOCK FALSE
