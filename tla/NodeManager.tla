----------------------------- MODULE NodeManager -----------------------------
(***************************************************************************)
(* The calls of node-manager and avn-anchor, the off-chain workers of      *)
(* nodes and authors, and the promises the two pallets keep together.      *)
(***************************************************************************)
EXTENDS NodeRewards

CONSTANTS
  Registrar,       \* the account that registers nodes
  Balances,        \* free balance of every owner
  Pots,            \* what the app chains put in the pot
  Purses,          \* balance of every handler
  InitialPot,
  InitialConfig,   \* settings of the genesis block
  Settings,        \* values an administrator may set, by setting
  Amounts,         \* amounts callers name
  Ages,            \* ages of a signed call, in blocks
  BonusLevels

Genesis ==
  [period |-> [current |-> 0, first |-> 0, length |-> InitialConfig.nextLength,
               heartbeat |-> InitialConfig.nextHeartbeat, amount |-> InitialConfig.nextAmount,
               threshold |-> calculate_uptime_threshold(InitialConfig,
                               InitialConfig.nextLength, InitialConfig.nextHeartbeat)],
   uptime |-> <<>>, totals |-> <<>>, pots |-> <<>>, outstanding |-> 0, oldest |-> 0,
   pointer |-> None]

StartWith(register, anchor, config) ==
  /\ reg = register
  /\ cfg = config
  /\ block = 0
  /\ rw = Genesis
  /\ pot = InitialPot
  /\ app = anchor
  /\ pending = None /\ mints = <<>>
  /\ ocw = [beats |-> {}, pays |-> {}, mints |-> {},
            cli |-> CliNode, stored |-> [m \in Machines |-> None],
            sent |-> [m \in Machines |-> <<>>]]
  /\ released = [n \in Nodes |-> 0]

NodeInit == StartWith(EmptyRegister(Balances), EmptyAnchor(Pots, Purses), InitialConfig)

-----------------------------------------------------------------------------
\* The calls of node-manager.  A relayed call carries the block it was signed in.

Call(outcomes) ==
  /\ \E r \in outcomes : reg' = r
  /\ UNCHANGED <<cfg, block, rw, pot, app, pending, mints, ocw, released>>

NodeLists == BoundedSeq(Nodes, 2)
SignedTransactionAlive(age) == age < SignedTxLifetime

register_node(who, node, owner, key) ==
  who = Registrar /\ Call(do_register_node(reg, cfg, block, node, owner, key, FALSE))
register_bonus_node(who, node, owner, key) ==
  who = Registrar /\ Call(do_register_node(reg, cfg, block, node, owner, key, TRUE))
signed_register_node(sender, signer, age, node, owner, key) ==
  /\ sender = signer /\ sender = Registrar /\ SignedTransactionAlive(age)
  /\ Call(do_register_node(reg, cfg, block, node, owner, key, FALSE))

\* A deregistered node takes its history with it.
Deregister(owner, nodes) ==
  /\ \E r \in do_deregister_nodes(reg, owner, nodes) : reg' = r
  /\ released' = [n \in Nodes |-> IF n \in Range(nodes) THEN 0 ELSE released[n]]
  /\ UNCHANGED <<cfg, block, rw, pot, app, pending, mints, ocw>>
deregister_nodes(who, owner, nodes) == who = Registrar /\ Deregister(owner, nodes)
signed_deregister_nodes(sender, signer, age, owner, nodes) ==
  /\ sender = signer /\ sender = Registrar /\ SignedTransactionAlive(age)
  /\ Deregister(owner, nodes)

UpdateSigningKey(who, node, key) == Call(update_signing_key(reg, who, Registrar, node, key))
SetGenesisOverride(who, nodes, bonus) ==
  who = Registrar /\ Call(set_genesis_override(reg, nodes, bonus))
move_nodes(who, from, to, nodes) ==
  who = Registrar /\ from # to /\ Call(do_move_nodes(reg, from, to, nodes))
move_nodes_with_stake(who, from, to, nodes, amount) ==
  /\ who = Registrar /\ from # to
  /\ Call(do_move_nodes_with_stake(reg, block, from, to, nodes, amount))
move_stake(who, owner, sources, to) ==
  who = Registrar /\ Call(do_move_stake(reg, block, owner, sources, to))

add_stake(owner, node, amount) ==
  <<owner, node>> \in reg.owned /\ Call(do_add_stake(reg, cfg, block, owner, node, amount))
update_auto_stake_preference(owner, node, auto) ==
  <<owner, node>> \in reg.owned /\ Call({[reg EXCEPT !.info[node].auto = auto]})
remove_stake(owner, node, amount) ==
  /\ <<owner, node>> \in reg.owned
  /\ \E out \in do_remove_stake(reg, cfg, block, owner, node, amount) :
       /\ reg' = out.reg
       /\ released' = [released EXCEPT ![node] = @ + out.amount]
  /\ UNCHANGED <<cfg, block, rw, pot, app, pending, mints, ocw>>

SettingIsValid(c, setting, v) ==
  CASE setting = "nextLength" -> v > c.nextHeartbeat
    [] setting = "batch" -> v > 0 /\ v <= MAX_BATCH_SIZE
    [] setting = "nextHeartbeat" -> v > 0 /\ v < c.nextLength
    [] setting \in {"nextAmount", "threshold", "unstakePeriod"} -> v > 0
    [] setting \in {"bonus50", "bonus25"} -> v.start < v.end
    [] OTHER -> TRUE

set_admin_config(setting, v) ==
  /\ SettingIsValid(cfg, setting, v)
  /\ cfg' = [cfg EXCEPT ![setting] = v]
  /\ UNCHANGED <<reg, block, rw, pot, app, pending, mints, ocw, released>>

-----------------------------------------------------------------------------
\* Off-chain workers.

match_node_id_to_signing_key(m, node) ==
  IF node \in DOMAIN reg.info /\ reg.info[node].key \in Range(LocalKeys[m])
  THEN node ELSE None

\* The first local key the index knows.
search_node_id_by_signing_key(m) ==
  LET known == SelectSeq(LocalKeys[m], LAMBDA k :
                 /\ k \in DOMAIN reg.keyOf /\ reg.keyOf[k] \in DOMAIN reg.info
                 /\ reg.info[reg.keyOf[k]].key = k)
  IN IF known = <<>> THEN None ELSE reg.keyOf[Head(known)]

\* The node a machine runs, and the node id it keeps for the next time.
get_node_from_signing_key(m) ==
  LET stored == IF ocw.cli[m] # None THEN ocw.cli[m] ELSE ocw.stored[m]
      matched == match_node_id_to_signing_key(m, stored)
      found == IF matched # None THEN matched ELSE search_node_id_by_signing_key(m)
  IN [node |-> found, stored |-> IF found # None THEN found ELSE stored]

heartbeat_submission_in_progress(m, period, count) ==
  /\ <<period, count>> \in DOMAIN ocw.sent[m]
  /\ block <= ocw.sent[m][<<period, count>>] + BLOCK_INCLUSION_PERIOD

should_send_heartbeat(m, node) ==
  LET key == <<rw.period.current, node>>
      up == Get(rw.uptime, key, [count |-> 0, last |-> block])
  IN /\ ~heartbeat_submission_in_progress(m, rw.period.current, up.count)
     /\ key \in DOMAIN rw.uptime => /\ up.count < rw.period.threshold
                                    /\ block >= up.last + rw.period.heartbeat

send_heartbeat_if_required(m) ==
  LET run == get_node_from_signing_key(m)
      p == rw.period.current
      count == Get(rw.uptime, <<p, run.node>>, [count |-> 0]).count
      kept == [ocw EXCEPT !.cli[m] = None, !.stored[m] = run.stored]
  IN /\ cfg.enabled
     /\ ocw' = IF run.node # None /\ should_send_heartbeat(m, run.node)
               THEN [kept EXCEPT
                       !.beats = @ \cup {[node |-> run.node, period |-> p, count |-> count,
                                          key |-> reg.info[run.node].key]},
                       !.sent[m] = (<<p, count>> :> block) @@ @]
               ELSE kept
     /\ UNCHANGED <<reg, cfg, block, rw, pot, app, pending, mints, released>>

can_trigger_payment == rw.oldest < rw.period.current

\* The primary author's worker.
RunAuthor ==
  /\ cfg.enabled
  /\ ocw' = [ocw EXCEPT
               !.mints = @ \cup next_mint_amount_to_request(cfg, rw, pot),
               !.pays = IF can_trigger_payment THEN @ \cup {rw.oldest} ELSE @]
  /\ UNCHANGED <<reg, cfg, block, rw, pot, app, pending, mints, released>>

-----------------------------------------------------------------------------
\* The calls of avn-anchor.

AnchorCall(outcomes) ==
  /\ \E a \in outcomes : app' = a
  /\ UNCHANGED <<reg, cfg, block, rw, pot, pending, mints, ocw, released>>

Payloads == [signer : Handlers, chain : 0..app.nextChain, nonce : 0..3]

ChainCall ==
  \/ \E h \in Handlers, x \in Assets :
       AnchorCall(register_appchain(app, h, x) \cup deregister_appchain(app, h, x))
  \/ \E h \in Handlers \cup {None}, x \in Assets :
       \/ \E v \in Amounts : AnchorCall(set_appchain_period_reward(app, h, x, v))
       \/ AnchorCall(disable_appchain(app, h, x))
  \/ \E g, h \in Handlers : AnchorCall(do_update_chain_handler(app, g, h))
  \/ \E s \in Payloads, h \in Handlers : AnchorCall(signed_update_chain_handler(app, s, h))

CheckpointCall ==
  \/ \E h \in Handlers, o \in Origins : AnchorCall(submit_checkpoint_with_identity(app, h, o))
  \/ \E s \in Payloads, o \in Origins :
       AnchorCall(signed_submit_checkpoint_with_identity(app, s, o))
  \/ \E c \in 0..app.nextChain, v \in Amounts : AnchorCall(set_checkpoint_fee(app, c, v))

RewardCall ==
  \/ \E n \in Nodes : AnchorCall(claim_node(app, n, MaxPeriodsPerPayout))
  \/ AnchorCall(process_outstanding_rewards(app))
  \/ \E b \in 0..MaxPeriodsPerPayout : AnchorCall(on_idle(app, b))
  \/ \E p \in Periods : AnchorCall({try_reclaim_period(app, p)})

\* An app chain tops up its pot.
FundPot(x, amount) == AnchorCall({[app EXCEPT !.pot[x] = @ + amount]})

-----------------------------------------------------------------------------
RegisterStep ==
  \/ \E w \in {Registrar} \cup Owners, n \in Nodes, o \in Owners, k \in Keys :
       \/ register_node(w, n, o, k) \/ register_bonus_node(w, n, o, k)
       \/ \E age \in Ages : signed_register_node(w, Registrar, age, n, o, k)
  \/ \E w \in {Registrar} \cup Owners, n \in Nodes, k \in Keys : UpdateSigningKey(w, n, k)
  \/ \E o \in Owners, ns \in NodeLists :
       \/ deregister_nodes(Registrar, o, ns)
       \/ \E age \in Ages : signed_deregister_nodes(Registrar, Registrar, age, o, ns)
       \/ \E to \in Owners : move_nodes(Registrar, o, to, ns)

BonusStep ==
  \E ns \in NodeLists, b \in BonusLevels \cup {None} : SetGenesisOverride(Registrar, ns, b)

StakeStep ==
  \/ \E o \in Owners, n \in Nodes :
       \/ \E v \in Amounts : add_stake(o, n, v)
       \/ \E v \in Amounts \cup {All} : remove_stake(o, n, v)
       \/ \E auto \in BOOLEAN : update_auto_stake_preference(o, n, auto)
  \/ \E o, to \in Owners, ns \in NodeLists, v \in Amounts :
       move_nodes_with_stake(Registrar, o, to, ns, v)
  \/ \E o \in Owners, m, n \in Nodes, v \in Amounts \cup {All} :
       move_stake(Registrar, o, <<[node |-> m, amount |-> v]>>, n)

SettingStep == \E f \in DOMAIN Settings : \E v \in Settings[f] : set_admin_config(f, v)

HeartbeatStep ==
  \/ \E m \in Machines : send_heartbeat_if_required(m)
  \/ \E h \in ocw.beats : offchain_submit_heartbeat(h)

PayoutStep ==
  \/ RunAuthor
  \/ \E p \in ocw.pays : PayNodes(p)

MintStep ==
  \/ \E v \in ocw.mints : offchain_mint_rewards(v)
  \/ \E tx \in DOMAIN mints : \/ \E s \in {"minted", "refused"} : EthereumDecides(tx, s)
                              \/ BridgeReports(tx) \/ MintDiscovered(tx)

NodeNext ==
  \/ NewBlock \/ RegisterStep \/ BonusStep \/ StakeStep \/ SettingStep
  \/ HeartbeatStep \/ PayoutStep
  \/ MintStep \/ (\E v \in Amounts : OwnerMint(v)) \/ ChainCall \/ CheckpointCall \/ RewardCall
  \/ \E x \in Assets, v \in Amounts : FundPot(x, v)

NodeSpec == NodeInit /\ [][NodeNext]_nodeVars

-----------------------------------------------------------------------------
\* The registers of the two pallets agree with their indexes, counts and reserves
\* after any sequence of calls (BooksBalance, ChainsInOrder).
RegistersAgree == BooksBalance(reg) /\ ChainsInOrder(app)

ShortestUnstakePeriod == Min({cfg.unstakePeriod} \cup Get(Settings, "unstakePeriod", {}))

\* Nothing staked on a node leaves it before its auto-stake expiry, and until the
\* restriction lapses no more leaves than the allowance of the periods that have
\* begun, whatever is added, auto-staked, moved or left unclaimed in between.
UnlockOnSchedule ==
  \A n \in DOMAIN reg.info :
    LET i == reg.info[n] IN
    /\ i.restriction.kind = "Locked" => released[n] = 0
    /\ i.restriction.kind = "Periodic" /\ block < i.restriction.expires =>
         released[n] <= i.restriction.allowance
                          * (1 + (block - i.expiry) \div ShortestUnstakePeriod)

WeightOf(p) == MapThenSumSet(LAMBDA n : rw.uptime[<<p, n>>].weight, NodesOf(rw, p))

\* What the nodes of p that wait for payment will be paid.
StillToPay(p) ==
  MapThenSumSet(LAMBDA n : LET up == rw.uptime[<<p, n>>] IN
    calculate_reward(calculate_node_weight(PayState, cfg, up, reg.info[n], rw.pots[p]),
                     TotalUptime(rw, p).weight, rw.pots[p].total).amount,
    NodesOf(rw, p) \cap DOMAIN reg.info)

\* A payout spread over many transactions pays every node of its period once and
\* stays payable: the nodes that wait lie behind the pointer, the weights add up
\* to the total they are divided by, what is outstanding is the pots of the unpaid
\* periods, a payout that has begun has the money to end, and no unpaid period
\* refuses to be paid once the pot covers it.
PayoutIsSound ==
  LET waiting == rw.oldest..(rw.period.current - 1) IN
  /\ DOMAIN rw.pots = waiting
  /\ rw.outstanding = MapThenSumSet(LAMBDA p : rw.pots[p].total, waiting)
  /\ \A k \in DOMAIN rw.uptime : k[1] >= rw.oldest
  /\ \A p \in waiting \cup {rw.period.current} :
       IF p = rw.oldest /\ rw.pointer # None THEN WeightOf(p) < TotalUptime(rw, p).weight
       ELSE WeightOf(p) = TotalUptime(rw, p).weight
  /\ rw.pointer # None =>
       /\ rw.pointer.period = rw.oldest
       /\ \A n \in NodesOf(rw, rw.oldest) : NodeRank[n] > NodeRank[rw.pointer.node]
       /\ pot >= StillToPay(rw.oldest)
  /\ waiting # {} /\ (rw.pointer # None \/ pot >= rw.pots[rw.oldest].total) =>
       offchain_pay_nodes(PayState, cfg, block, rw.oldest) # {}

\* A mint is requested only when the one before is over on both sides: refused, or
\* confirmed by the bridge and credited to the pot, in either order.
OneMintAtATime ==
  /\ \A tx \in DOMAIN mints : pending = None \/ pending.tx # tx =>
       mints[tx].told /\ (mints[tx].credited \/ mints[tx].state = "refused")
  /\ pending # None =>
       /\ pending.confirmed = mints[pending.tx].told
       /\ pending.credited = mints[pending.tx].credited

\* Every app-chain reward node-manager reports is owed until it is paid, once
\* (RewardsOwed), while the native payout of its period runs or after it.
AppRewardsOwed == RewardsOwed(app, rw.oldest)
=============================================================================
