SPECIFICATION MCSpec
CONSTANTS
  v1 = v1
  v2 = v2
  v3 = v3
  v4 = v4
  e1 = e1
  e2 = e2
  c1 = c1
  c2 = c2
  u1 = u1
  u2 = u2
  EventIds = {e1, e2}
  Watched = {e1, e2}
  Users = {u1, u2}
  QuorumFactor = 4
  MinEthBlockConfirmation = 1
  MINIMUM_EVENT_CHALLENGE_PERIOD = 1
  ChallengePeriods = {0, 2}
  Contracts = {c1, c2}
  GenesisContracts = {c1}
  MaxUncheckedEvents = 1
  MaxEventsPendingChallenges = 1
  MaxChallenges = 3
  FinalityLag = 0
  MaxEventBlock = 4
  MaxIngress = 2
  MaxSessions = 2
  Honest = {v2, v3, v4}
  r1 = r1
  r2 = r2
  NftUsers = {u1, u2}
  Relayers = {v1}
  Refs = {r1, r2}
  RoyaltyRateDenominator = 1000000
  MaxRoyalties = 5
  Supplies = {0, 1, 2, 3}
  BatchBound = 2
  Indexes = {0, 1}
  MaxNfts = 2
  MaxNonce = 4
  t1 = t1
  t2 = t2
  t3 = t3
  Holders = {u1, u2}
  Treasury = v1
  Tokens = {t1, t2, t3}
  NativeTokens = {t1, t3}
  GenesisKnown = {t1}
  Amounts = {1, 3}
  GrowthAmounts = {4}
  TreasuryGrowthPercentage = 75
  ExistentialDeposit = 1
  SchedulePeriods = {0, 1}
  MaxLowers = 2
  MaxEvents = 3
  k1 = k1
  k2 = k2
  k3 = k3
  k4 = k4
  Accounts = {v1, v2, v3, v4}
  GenesisValidators = {v1, v2, v3}
  EthKeys = {k1, k2, k3, k4}
  MinimumValidatorCount = 2
  MaximumValidatorsBound = 4
  Deposits = {0, 1, 2}
  min_collator_stake = 1
  LeaveDelay = 1
  MaxActions = 3
  Senders = {v1}
  FixedFees = {9}
  Percentages = {130}
  Durations = {0, 2}
  Counts = {0, 2}
  Fees = {0, 4}
  Tips = {0, 1}
  GenesisFree = 20
  MaxBlocks = 3
  MaxTransactions = 4
  ProxyUsers = {u1, u2}
  ProxyRelayers = {r1, r2}
  GenesisBalance = 2
  Identities = {k1, k2}
  Voters = {v1, v2, v3}
  MaxLinkedAccounts = 2
  Signers = {k1, k2, k3}
  MaxTransfers = 2
  GenesisVersions = {2, 3, 4, 5}
  LowerVersions = {0, 1, 2}
  MaxRequests = 4
  Word = 64
  H160 = 32
  U128 = 16
  U64 = 8
  U32 = 4
  Values = {0, 3, 7, 15, 16, 31}
  RefLengths = {32, 36, 64}
  Leaves = {1, 2, 3, 4}
  MaxLeaves = 6
INVARIANTS   Backed RostersAgree AdjustedAsPromised  ConversionsAreExact
SYMMETRY Symmetry
CHECK_DEADLOCK FALSE
