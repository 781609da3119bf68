CONSTANTS
    a1 = a1
    a2 = a2
    a3 = a3
    a4 = a4
    a5 = a5
    Accounts = {a1, a2, a3}
    ValidatorSets <- TwoOrThree
    Instances = {1}
    EthTxHashes = {1}
    ParamCounts = {}
    LowerIds = {0}
    AdminTxIds = {}
    ParamsLimit = 5
    MaxQueuedTxRequests = 1
    MaxRequests = 1
    MaxSetups = 1
    MinEthBlockConfirmation = 2
    MaxEthTxs = 1
    MaxFaults = 0
    MaxSessions = 1
SPECIFICATION FairOcwSpec
PROPERTIES
    EveryRequestAnswered
CHECK_DEADLOCK FALSE
