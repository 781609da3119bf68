---------------------------- MODULE MCNodeManager ----------------------------
(***************************************************************************)
(* NodeManager for TLC.  A behaviour is one of six casts, chosen at the   *)
(* start, that exercise one side of the pallets each; two nodes of two     *)
(* owners are registered before the casts that need them.                  *)
(***************************************************************************)
EXTENDS NodeManager

CONSTANTS o1, o2, n1, n2, k1, k2, k3, m1, m2, h1, h2, x1, x2, registrar

VARIABLES cast, calls

MCNodeRank == n1 :> 1 @@ n2 :> 2
MCPeriodRank == [p \in Periods |-> IF p = 1 THEN 0 ELSE p + 1]
MCLocalKeys == m1 :> <<k1, k3>> @@ m2 :> <<k2>>
MCCliNode == m1 :> n1 @@ m2 :> None
MCBalances == o1 :> 4 @@ o2 :> 3
MCPots == x1 :> 2 @@ x2 :> 5
MCPurses == h1 :> 1 @@ h2 :> 0
MCConfig ==
  [nextLength |-> 2, nextHeartbeat |-> 1, nextAmount |-> 5, numPeriods |-> 1, batch |-> 1,
   enabled |-> TRUE, threshold |-> 50, autoStake |-> 1, maxUnstake |-> 50,
   unstakePeriod |-> 2, restricted |-> 4, fee |-> 20,
   bonus50 |-> [start |-> 0, end |-> 0], bonus25 |-> [start |-> 2, end |-> 3]]
MaxCalls == [register |-> 5, stake |-> 4, payout |-> 1, owed |-> 2, mint |-> 1, chains |-> 5]
MCSettings ==
  [nextLength |-> {1, 3}, batch |-> {0, 2}, nextHeartbeat |-> {0, 1}, nextAmount |-> {4},
   numPeriods |-> {0}, enabled |-> BOOLEAN, threshold |-> {100}, autoStake |-> {2},
   maxUnstake |-> {100}, unstakePeriod |-> {1}, restricted |-> {2}, fee |-> {100},
   bonus50 |-> {[start |-> 1, end |-> 2]}, bonus25 |-> {[start |-> 0, end |-> 1]}]

Some(S) == CHOOSE x \in S : TRUE
TwoNodes ==
  LET one == Some(do_register_node(EmptyRegister(Balances), InitialConfig, 0, n1, o1, k1, FALSE))
  IN Some(do_register_node(one, InitialConfig, 0, n2, o2, k2, FALSE))
NoChains == EmptyAnchor(Pots, Purses)
TwoChains ==
  LET one == Some(register_appchain(NoChains, h1, x1))
      two == Some(register_appchain(one, h2, x2))
  IN Some(set_appchain_period_reward(Some(set_appchain_period_reward(two, h1, x1, 3)), h2, x2, 2))

Casts == {"register", "stake", "payout", "owed", "mint", "chains"}

MCInit ==
  /\ cast \in Casts
  /\ calls = 0
  /\ CASE cast = "register" -> StartWith(EmptyRegister(Balances), NoChains, InitialConfig)
       [] cast \in {"stake", "chains"} -> StartWith(TwoNodes, NoChains, InitialConfig)
       [] cast = "payout" -> StartWith(TwoNodes, NoChains, [InitialConfig EXCEPT !.numPeriods = 0])
       [] cast = "owed" -> StartWith(TwoNodes, TwoChains, [InitialConfig EXCEPT !.numPeriods = 0])
       [] cast = "mint" -> StartWith(TwoNodes, TwoChains, InitialConfig)

\* Calls are counted; the passing of blocks, the workers and the bridge are not.
Limited(step) == calls < MaxCalls[cast] /\ step /\ calls' = calls + 1
Unlimited(step) == step /\ UNCHANGED calls

MCNext ==
  /\ UNCHANGED cast
  /\ CASE cast = "register" -> Limited(RegisterStep \/ BonusStep \/ StakeStep)
       [] cast = "stake" -> Limited(StakeStep \/ SettingStep) \/ Unlimited(NewBlock)
       [] cast = "payout" -> \/ Limited(RegisterStep)
                             \/ Unlimited(NewBlock \/ PayoutStep)
                             \/ Unlimited(HeartbeatStep /\ Cardinality(ocw'.beats) < 2)
       [] cast = "owed" -> \/ Limited(RewardCall)
                             \/ Unlimited(NewBlock \/ PayoutStep)
                             \/ Unlimited(HeartbeatStep /\ Cardinality(ocw'.beats) < 2)
       [] cast = "mint" -> \/ Limited(SettingStep \/ \E v \in Amounts : OwnerMint(v))
                           \/ Unlimited(NewBlock \/ PayoutStep \/ MintStep)
       [] cast = "chains" -> Limited(ChainCall \/ CheckpointCall
                                     \/ \E x \in Assets, v \in Amounts : FundPot(x, v))

\* A record of a heartbeat sent more than BLOCK_INCLUSION_PERIOD ago is never read
\* to any effect: states that differ in nothing else are the same.
Fresh(sent) ==
  [k \in {j \in DOMAIN sent : block <= sent[j] + BLOCK_INCLUSION_PERIOD} |-> sent[k]]
MCView ==
  <<reg, cfg, block, rw, pot, app, pending, mints, released, cast, calls,
    [ocw EXCEPT !.sent = [m \in Machines |-> Fresh(ocw.sent[m])]]>>
MCSpec == MCInit /\ [][MCNext]_<<nodeVars, cast, calls>>
=============================================================================
