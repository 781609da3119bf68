CONSTANTS
    a1 = a1
    a2 = a2
    a3 = a3
    f = f
    Accounts = {a1, a2, a3, f}
    ValidatorSets <- MCSessions
    Instances = {"main", "new"}
    TxIds = {1, 2, 3, 4, 5, 6}
    EventKinds = {"lifted", "nft"}
    KnownKinds = {"lifted", "nft"}
    EventsFilter = {"lifted"}
    RangeSize = 2
    SeenBlocks = {1, 13}
    EventSets <- MCFaultySets
    AdditionalLimit = 1
    BatchBound = 1
    LegacyRecords = {}
    MaxStart = 4
    MaxPartition = 2
    Log <- MCLog
    PrimaryKinds = {"lifted"}
    BatchLimit = 2
    EthFinality = 10
    Faulty = {f}
    MaxLag = 1
    FirstHeight = 12
    MaxHeight = 13
    MaxLosses = 0
    MaxOperations = 2
SPECIFICATION NodesSpec
CHECK_DEADLOCK FALSE
SYMMETRY MCSymmetry
INVARIANTS FinalEventsHandled HonestNotReported
