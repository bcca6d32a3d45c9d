SPECIFICATION AvSpec
CONSTANTS
    Operators = {o1, o2}
    GenesisOperators = {o1}
    EpochBlocks = 2
    Replication = 1
    Audits = 2
    MinAudits = 4
    WarmupEpochs = 2
    EligibleScore = 3
    AlphaPercent = 50
    Window = 2
    FewOperators = 1
    MaxHeight = 6
CHECK_DEADLOCK FALSE
INVARIANTS
    StatusIsIdempotent
