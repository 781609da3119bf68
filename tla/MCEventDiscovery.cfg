CONSTANTS
    a1 = a1
    a2 = a2
    a3 = a3
    a4 = a4
    a5 = a5
    Accounts = {a1, a2, a3, a4, a5}
    ValidatorSets <- MCValidatorSets
    Instances = {"main"}
    TxIds = {1, 2}
    EventKinds = {"lifted", "nft", "unknown"}
    KnownKinds = {"lifted", "nft"}
    EventsFilter = {"lifted"}
    RangeSize = 2
    SeenBlocks = {1, 13}
    EventSets <- MCEventSets
    AdditionalLimit = 1
    BatchBound = 2
    LegacyRecords <- MCLegacyRecords
    MaxStart = 2
    MaxPartition = 1
SPECIFICATION Spec
SYMMETRY MCSymmetry
INVARIANTS HandledOnce VotesAreCurrent StartSupported NothingLostInMigration
