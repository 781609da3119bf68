CONSTANTS
    a1 = a1
    a2 = a2
    a3 = a3
    a4 = a4
    a5 = a5
    Accounts = {a1, a2, a3, a4, a5}
    ValidatorSets <- MCValidatorSets
    Instances = {"main", "next"}
    EthTxHashes = {1}
    ParamCounts = {1, 4}
    LowerIds = {0}
    AdminTxIds = {5}
    ParamsLimit = 5
    MaxQueuedTxRequests = 2
    MaxRequests = 3
    MaxSetups = 3
SPECIFICATION MCSpec
INVARIANTS CorroboratorsCountOnce 
PROPERTIES  KeepsPromise
