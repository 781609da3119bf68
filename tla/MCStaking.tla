------------------------------ MODULE MCStaking ------------------------------
(***************************************************************************)
(* Two candidates with room for one top and one bottom nomination each,    *)
(* and three nominators.  A behaviour has one of a few casts: who moves,   *)
(* and towards whom.  The cast is chosen at the start and never changes.   *)
(***************************************************************************)
EXTENDS StakingRewards

CONSTANTS c1, c2, n1, n2, n3, Casts
VARIABLE cast

MCAccountSeq == <<c1, c2, n1, n2, n3>>
MCGenesisBonds == [c \in {c1, c2} |-> 2]
MCBalances == [a \in Accounts |-> 4]

Cast(candidates, nominators, targets, signers) ==
  [candidates |-> candidates, nominators |-> nominators, targets |-> targets,
   signers |-> signers, rewards |-> FALSE]

\* Three nominators compete for one candidate; a candidate comes and goes under a
\* nominator of both; the proxied calls of a nominator, and of a candidate; blocks are
\* authored and paid for while a nominator comes and goes.
MCCasts == {Cast({}, {n1, n2, n3}, {c1}, {}), Cast({c1}, {n1}, {c1, c2}, {}),
            Cast({}, {}, {}, {n1}), Cast({}, {}, {}, {c1}),
            [Cast({}, {}, {}, {}) EXCEPT !.rewards = TRUE]}

\* Two nominators of a candidate that leaves, for TotalIsLocked; three nominators of one
\* candidate, for AcceptedIsScheduled.
LeavingCasts == {Cast({c1}, {n1, n2}, {c1}, {})}
CrowdCasts == {Cast({}, {n1, n2, n3}, {c1}, {})}

MCInit ==
  /\ RewardInit /\ cast \in Casts
  /\ cast.rewards => minCollatorStake = 1 /\ minTotalNominatorStake = 1

StakeStep ==
  \/ \E a \in cast.candidates : CandidateStep(a)
  \/ \E n \in cast.nominators : NominatorStep(n, cast.targets)
  \/ \E a \in cast.signers, k \in 0..MaxNonce : SignedStep(a, k)
  \/ set_admin_setting
  \/ era.current < 2 /\ NewEra

\* Stake moves before the first block, so that the snapshots differ.
PaidStep ==
  \/ /\ era.current = 1 /\ era.age = 0
     /\ Nominate(n1, c1) \/ ScheduleNominatorUnbond(n1, c1) \/ ScheduleRevokeNomination(n1, c1)
     /\ UNCHANGED rewardVars
  \/ RewardStep

MCNext ==
  /\ \/ ~cast.rewards /\ StakeStep /\ UNCHANGED rewardVars
     \/ cast.rewards /\ PaidStep
  /\ UNCHANGED cast
MCSpec == MCInit /\ [][MCNext]_<<stakingVars, rewardVars, cast>>

\* The rewards balance in the cast that authors blocks: the pot covers what
\* compute_total_reward_to_pay sets aside, snapshots add up, every author is paid in
\* time, growth is reported once (the other casts only count eras).
PaidFairly == cast.rewards => RewardsBalance
=============================================================================
