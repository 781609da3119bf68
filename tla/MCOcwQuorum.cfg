CONSTANTS
    a1 = a1
    a2 = a2
    a3 = a3
    a4 = a4
    a5 = a5
    Accounts = {a1, a2, a3, a4, a5}
    ValidatorSets <- TwoOrFive
    Instances = {1}
    EthTxHashes = {1, 2, 3}
    ParamCounts = {1}
    LowerIds = {0}
    AdminTxIds = {}
    ParamsLimit = 5
    MaxQueuedTxRequests = 1
    MaxRequests = 2
    MaxSetups = 3
    MinEthBlockConfirmation = 2
    MaxEthTxs = 3
    MaxFaults = 1
    MaxSessions = 0
SPECIFICATION QuorumSpec
CHECK_DEADLOCK FALSE
INVARIANTS HonestNeverReported
PROPERTIES EveryRequestAnswered
