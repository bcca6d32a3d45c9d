SPECIFICATION InSpec
CONSTANTS
    LaneNodes = {1, 2}
    LaneTxs = {1, 2}
    Certifiers <- CorrectCertifiers
    EpochHeights = 1
    RangeCap = 1
    LastBlock = 2
    LaneFaults = 1
    Askers = {2}
INVARIANT MissingIsFetched
CHECK_DEADLOCK FALSE
