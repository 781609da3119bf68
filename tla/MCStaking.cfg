SPECIFICATION MCSpec
CONSTANTS
  c1 = c1
  c2 = c2
  n1 = n1
  n2 = n2
  n3 = n3
  Casts <- MCCasts
  AccountSeq <- MCAccountSeq
  GenesisBonds <- MCGenesisBonds
  Balances <- MCBalances
  Registered = {c1, c2}
  Amounts = {1, 2}
  Signers = {n1, c1}
  Delays = {1}
  MinStakes = {1, 2}
  StakingEnabled = TRUE
  MaxCandidates = 2
  MaxTopNominationsPerCandidate = 1
  MaxBottomNominationsPerCandidate = 1
  MaxNominationsPerNominator = 2
  MinNominationPerCollator = 1
  MinBlocksPerEra = 0
  RewardPaymentDelay = 1
  ErasPerGrowthPeriod = 1
  MinSelectedCandidates = 1
  GrowthEnabled = TRUE
  Lengths = {1, 3}
  Selections = {2}
  Gifts = {3}
  MaxGifts = 2
  MaxEra = 3
  MaxNonce = 3
  MaxSettings = 1
INVARIANTS LedgerBalances DueRequestsExecute 
PROPERTIES NoEarlyExit
CHECK_DEADLOCK FALSE
