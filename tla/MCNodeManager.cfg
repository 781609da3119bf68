SPECIFICATION MCSpec
CONSTANTS
  o1 = o1
  o2 = o2
  n1 = n1
  n2 = n2
  k1 = k1
  k2 = k2
  k3 = k3
  m1 = m1
  m2 = m2
  h1 = h1
  h2 = h2
  x1 = x1
  x2 = x2
  registrar = registrar
  None = None
  Owners = {o1, o2}
  Nodes = {n1, n2}
  Keys = {k1, k2, k3}
  Machines = {m1, m2}
  Handlers = {h1, h2}
  Assets = {x1, x2}
  Origins = {1}
  Registrar = registrar
  BonusNodeSerialStart = 3
  VirtualNodeStake = 2
  HEARTBEAT_BASE_WEIGHT = 4
  MaxRegisteredAppChains = 2
  MaxPeriodsPerPayout = 2
  Periods = {0, 1, 2}
  Perquintill = 1000
  BLOCK_INCLUSION_PERIOD = 1
  MINT_SAFETY_CAP_MULTIPLIER = 4
  MAX_BATCH_SIZE = 2
  SignedTxLifetime = 1
  MaxBlock = 4
  MaxMints = 2
  InitialPot = 5
  Amounts = {1, 3}
  Ages = {0, 1}
  BonusLevels = {"Genesis50", "Excluded"}
  NodeRank <- MCNodeRank
  PeriodRank <- MCPeriodRank
  LocalKeys <- MCLocalKeys
  CliNode <- MCCliNode
  Balances <- MCBalances
  Pots <- MCPots
  Purses <- MCPurses
  InitialConfig <- MCConfig
  Settings <- MCSettings
VIEW MCView
INVARIANTS RegistersAgree UnlockOnSchedule PayoutIsSound  AppRewardsOwed
CHECK_DEADLOCK FALSE
