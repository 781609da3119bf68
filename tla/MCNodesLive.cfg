CONSTANTS
    a1 = a1
    a2 = a2
    a3 = a3
    f = f
    Accounts = {a1, a2, a3, f}
    ValidatorSets <- MCFourAuthors
    Instances = {"main"}
    TxIds = {1, 2, 3}
    EventKinds = {"lifted", "nft"}
    KnownKinds = {"lifted", "nft"}
    EventsFilter = {"lifted"}
    RangeSize = 2
    SeenBlocks = {}
    EventSets = {}
    AdditionalLimit = 1
    BatchBound = 1
    LegacyRecords = {}
    MaxStart = 6
    MaxPartition = 3
    Log <- MCLiveLog
    PrimaryKinds = {"lifted"}
    BatchLimit = 1
    EthFinality = 9
    Faulty = {a3, f}
    MaxLag = 0
    FirstHeight = 13
    MaxHeight = 14
    MaxLosses = 1
    MaxOperations = 1
SPECIFICATION FairNodesSpec
CHECK_DEADLOCK FALSE
PROPERTIES EventuallyProcessed
