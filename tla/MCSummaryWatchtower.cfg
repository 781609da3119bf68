SPECIFICATION MCLiveSpec
CONSTANTS
  r1 = r1
  r2 = r2
  r3 = r3
  x1 = x1
  n1 = n1
  n2 = n2
  o1 = o1
  o2 = o2
  NoRef = NoRef
  InternalRefs = {r1, r2, r3}
  ExternalRefs = {x1}
  RootRefs = {r1, r2}
  GoodRoots = {r1}
  Nodes = {n1, n2}
  OwnerOf <- MCOwnerOf
  Durations = {1}
  VotingPeriods = {1, 2}
  Threshold = 51
  Cap = 1
  SignedTxLifetime = 1
  BlockInclusionPeriod = 1
  TowerSets <- MCTowerSets
INVARIANTS PalletsAgree ToldOnce 
PROPERTIES ServedInOrder EveryProposalEnds
CHECK_DEADLOCK FALSE
