SPECIFICATION MCSpec
CONSTANTS
  a1 = a1
  a2 = a2
  a3 = a3
  a4 = a4
  a5 = a5
  Authors <- MCAuthors
  ValidatorSets <- MCValidatorSets
  Honest = {a1, a2, a3}
  SchedulePeriods = {2, 3}
  VotingPeriods = {1, 2}
  MinSchedulePeriod = 2
  MinVotingPeriod = 1
  MaxVotingPeriod = 1
  GracePeriod = 0
  MinBlockAge = 0
  Online = {a1, a2, a4}
  MaxSlots = 1
  MaxChanges = 1
  Configs <- MCConfigs
  MaxRoots = 2
  MaxBlock = 4
INVARIANTS BlocksCoveredOnce RootsAccountedFor HonestBlamedOnlyBySilence SlotNeverStuck
CHECK_DEADLOCK FALSE
