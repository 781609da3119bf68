----------------------------- MODULE NodeRewards -----------------------------
(***************************************************************************)
(* The node-manager pallet at work: nodes report that they are alive, a    *)
(* reward period ends, the authors' off-chain workers have it paid node by *)
(* node in batches, the pot is refilled by minting on Ethereum, and the    *)
(* app chains are told what they owe (AvnAnchor).  Transactions of the     *)
(* off-chain workers wait in a pool and are included later, in any order,  *)
(* or never.                                                               *)
(***************************************************************************)
EXTENDS AvnAnchor

CONSTANTS
  Machines,               \* processes that run a node
  LocalKeys,              \* the signing keys each machine holds, in order
  CliNode,                \* the node id a machine was started with, or None
  BLOCK_INCLUSION_PERIOD, MINT_SAFETY_CAP_MULTIPLIER, MAX_BATCH_SIZE,
  SignedTxLifetime,
  MaxBlock, MaxMints

VARIABLES
  reg,        \* the register and its owners' balances
  cfg,        \* the administrator's settings
  block,      \* the block number, and the time
  rw,         \* reward periods, uptime and the progress of the payout
  pot,        \* reward_pot_balance(): what the pot holds above the minimum
  app,        \* storage of avn-anchor
  pending,    \* PendingMintRequestState
  mints,      \* the mint requests the bridge accepted, by transaction id
  ocw,        \* the off-chain workers: their local storage and the pool
  released    \* stake taken back from a node since it was registered (history)

nodeVars == <<reg, cfg, block, rw, pot, app, pending, mints, ocw, released>>

NoBeats == [beats |-> 0, weight |-> 0]
TotalUptime(w, p) == Get(w.totals, p, NoBeats)
NodesOf(w, p) == {n \in Nodes : <<p, n>> \in DOMAIN w.uptime}

-----------------------------------------------------------------------------
\* Periods and heartbeats.

calculate_uptime_threshold(c, length, heartbeat) == Portion(c.threshold, length \div heartbeat)

should_update(period, now) == now - period.first >= period.length

\* The period that ends leaves its pot to be paid; the time is that of the last block.
NextRewardPeriod(w, c, now) ==
  LET old == w.period IN
  [w EXCEPT
     !.period = [current |-> old.current + 1, first |-> now, length |-> c.nextLength,
                 heartbeat |-> c.nextHeartbeat, amount |-> c.nextAmount,
                 threshold |-> calculate_uptime_threshold(c, c.nextLength, c.nextHeartbeat)],
     !.pots = @ @@ (old.current :> [total |-> old.amount, threshold |-> old.threshold,
                                    end |-> now - 1]),
     !.outstanding = @ + old.amount]

NewBlock ==
  /\ block < MaxBlock /\ block' = block + 1
  /\ IF /\ cfg.enabled /\ should_update(rw.period, block')
        /\ cfg.nextLength # 0 /\ cfg.nextHeartbeat # 0
     THEN /\ rw' = NextRewardPeriod(rw, cfg, block')
          /\ app' = on_new_reward_period(app, rw'.period.current)
     ELSE UNCHANGED <<rw, app>>
  /\ UNCHANGED <<reg, cfg, pot, pending, mints, ocw, released>>

validate_heartbeats(w, r, now, h) ==
  /\ h.node \in DOMAIN r.info
  /\ h.period = w.period.current
  /\ IF <<h.period, h.node>> \in DOMAIN w.uptime
     THEN LET info == w.uptime[<<h.period, h.node>>] IN
          /\ info.count < w.period.threshold
          /\ now >= info.last + w.period.heartbeat
          /\ h.count = info.count
     ELSE h.count = 0

\* validate_unsigned checks the key, the call itself the rest again.
offchain_submit_heartbeat(h) ==
  /\ h \in ocw.beats
  /\ ocw' = [ocw EXCEPT !.beats = @ \ {h}]
  /\ IF /\ cfg.enabled /\ validate_heartbeats(rw, reg, block, h)
        /\ reg.info[h.node].key = h.key
     THEN LET key == <<h.period, h.node>>
              weight == effective_heartbeat_weight(reg, cfg, reg.info[h.node], block)
              old == Get(rw.uptime, key, [count |-> 0, weight |-> 0, last |-> block])
              total == TotalUptime(rw, h.period)
          IN rw' = [rw EXCEPT
               !.uptime = (key :> [count |-> old.count + 1, weight |-> old.weight + weight,
                                   last |-> block]) @@ @,
               !.totals = (h.period :> [beats |-> total.beats + 1,
                                        weight |-> total.weight + weight]) @@ @]
     ELSE UNCHANGED rw
  /\ UNCHANGED <<reg, cfg, block, pot, app, pending, mints, released>>

-----------------------------------------------------------------------------
\* Payment of the oldest period.  s holds all that a payment changes.

calculate_node_weight(s, c, up, info, period_pot) ==
  IF up.count > period_pot.threshold
  THEN effective_heartbeat_weight(s.reg, c, info, period_pot.end) * period_pot.threshold
  ELSE up.weight

\* The share as a Perquintill, and the floor of that share of the reward.
calculate_reward(weight, total_weight, total_reward) ==
  LET ratio == IF weight >= total_weight THEN Perquintill
               ELSE (weight * Perquintill) \div total_weight
  IN [amount |-> share_of(ratio, total_reward), share |-> ratio]

calculate_reward_fee(c, amount) == (c.fee * amount) \div 100

\* The app chains are told first; the owner is paid before the fee; a payment or
\* an auto-stake that fails is passed over.
pay_reward(s, c, now, p, node, info, amount, share) ==
  LET told == [s EXCEPT !.app = on_reward_paid(@, p, info.owner, node, share)]
      fee == calculate_reward_fee(c, amount)
      net == amount - fee
      paid == [told EXCEPT !.pot = IF @ - net >= fee THEN @ - net - fee ELSE @ - net,
                           !.reg.free[info.owner] = @ + net]
      staked == do_add_stake(paid.reg, c, now, info.owner, node, net)
  IN IF amount = 0 \/ s.pot < net THEN told
     ELSE IF net > 0 /\ (now < info.expiry \/ info.auto) /\ staked # {}
     THEN [paid EXCEPT !.reg = CHOOSE r \in staked : TRUE]
     ELSE paid

PayNode(s, c, now, p, node) ==
  IF node \notin DOMAIN s.reg.info THEN s
  ELSE LET info == s.reg.info[node]
           period_pot == s.rw.pots[p]
           weight == calculate_node_weight(s, c, s.rw.uptime[<<p, node>>], info, period_pot)
           reward == calculate_reward(weight, TotalUptime(s.rw, p).weight, period_pot.total)
       IN pay_reward(s, c, now, p, node, info, reward.amount, reward.share)

remove_paid_nodes(w, p, nodes) ==
  [w EXCEPT !.uptime = Restrict(@, DOMAIN @ \ ({p} \X nodes))]

\* Bug: the pot of the period that was paid stays on the books.
complete_reward_payout_owes(s, p) ==
  [s EXCEPT !.rw = [@ EXCEPT !.oldest = p + 1, !.pointer = None,
                             !.totals = Without(@, p), !.pots = Without(@, p)],
            !.app = on_reward_period_completed(@, p)]

complete_reward_payout(s, p) ==
  [s EXCEPT !.rw = [@ EXCEPT
                      !.outstanding = IF p \in DOMAIN s.rw.pots
                                      THEN SatSub(@, s.rw.pots[p].total) ELSE @,
                      !.oldest = p + 1, !.pointer = None,
                      !.totals = Without(@, p), !.pots = Without(@, p)],
            !.app = on_reward_period_completed(@, p)]

\* A payout goes on after the last node paid, which must be gone and of this period.
get_iterator_from_last_paid(w, p) ==
  Ensure(w.pointer.period = p /\ w.pointer.node \notin NodesOf(w, p),
         {{n \in NodesOf(w, p) : NodeRank[n] > NodeRank[w.pointer.node]}})

PayBatch(s, c, now, p, nodes) ==
  LET queue == SetToSortSeq(nodes, LAMBDA m, n : NodeRank[m] < NodeRank[n])
      batch == FirstN(c.batch, queue)
      paid == FoldLeft(LAMBDA x, n : PayNode(x, c, now, p, n), s, batch)
      rest == [paid EXCEPT !.rw = remove_paid_nodes(@, p, Range(batch))]
  IN IF Len(queue) > c.batch
     THEN [rest EXCEPT !.rw.pointer = [period |-> p, node |-> Last(batch)]]
     ELSE complete_reward_payout(rest, p)

offchain_pay_nodes(s, c, now, p) ==
  LET nobody == NodesOf(s.rw, p) = {}
      weightless == TotalUptime(s.rw, p).weight = 0
      funded == s.pot >= s.rw.pots[p].total
  IN Ensure(p = s.rw.oldest /\ p < s.rw.period.current,
       IF weightless /\ nobody THEN {complete_reward_payout(s, p)}
       ELSE Ensure(~weightless /\ ~nobody /\ p \in DOMAIN s.rw.pots,
              {PayBatch(s, c, now, p, nodes) : nodes \in
                 IF s.rw.pointer # None THEN get_iterator_from_last_paid(s.rw, p)
                 ELSE Ensure(funded, {NodesOf(s.rw, p)})}))

PayState == [reg |-> reg, rw |-> rw, pot |-> pot, app |-> app]

PayNodes(p) ==
  /\ p \in ocw.pays
  /\ ocw' = [ocw EXCEPT !.pays = @ \ {p}]
  /\ LET outcomes == Ensure(cfg.enabled, offchain_pay_nodes(PayState, cfg, block, p)) IN
     \E s \in IF outcomes = {} THEN {PayState} ELSE outcomes :
       reg' = s.reg /\ rw' = s.rw /\ pot' = s.pot /\ app' = s.app
  /\ UNCHANGED <<cfg, block, pending, mints, released>>

-----------------------------------------------------------------------------
\* Minting.

\* The pot is filled up to two runways above what is owed, when it falls below one.
next_mint_amount_to_request(c, w, balance) ==
  LET runway == c.nextAmount * c.numPeriods
      refill_threshold == w.outstanding + runway
      mint_amount == refill_threshold + runway - balance
  IN Ensure(/\ pending = None /\ runway > 0 /\ balance < refill_threshold
            /\ mint_amount <= runway * MINT_SAFETY_CAP_MULTIPLIER, {mint_amount})

\* The bridge may refuse the request (a full queue): the call fails with it.
offchain_mint_rewards(amount) ==
  /\ amount \in ocw.mints
  /\ ocw' = [ocw EXCEPT !.mints = @ \ {amount}]
  /\ \/ /\ cfg.enabled /\ amount > 0 /\ pending = None
        /\ amount <= cfg.nextAmount * cfg.numPeriods * MINT_SAFETY_CAP_MULTIPLIER
        /\ Len(mints) < MaxMints
        /\ mints' = Append(mints, [amount |-> amount, state |-> "sent",
                                   told |-> FALSE, credited |-> FALSE])
        /\ pending' = [tx |-> Len(mints'), amount |-> amount,
                       confirmed |-> FALSE, credited |-> FALSE]
     \/ UNCHANGED <<mints, pending>>
  /\ UNCHANGED <<reg, cfg, block, rw, pot, app, released>>

\* Bug: the confirmation alone ends the request.
process_mint_request_result_at_once(p, tx, succeeded) == IF p = None \/ p.tx # tx THEN p ELSE None

process_mint_request_result(p, tx, succeeded) ==
  IF p = None \/ p.tx # tx THEN p
  ELSE IF ~succeeded \/ p.credited THEN None
  ELSE [p EXCEPT !.confirmed = TRUE]

\* The pot is credited whoever asked for the tokens; tx 0 is the owner's own mint.
process_rewards_minted(p, tx) ==
  IF tx = 0 \/ p = None \/ p.tx # tx THEN p
  ELSE IF p.confirmed THEN None ELSE [p EXCEPT !.credited = TRUE]

EthereumDecides(tx, state) ==
  /\ mints[tx].state = "sent"
  /\ mints' = [mints EXCEPT ![tx].state = state]
  /\ UNCHANGED <<reg, cfg, block, rw, pot, app, pending, ocw, released>>

\* The bridge reports what happened; process_result.
BridgeReports(tx) ==
  /\ mints[tx].state # "sent" /\ ~mints[tx].told
  /\ mints' = [mints EXCEPT ![tx].told = TRUE]
  /\ pending' = process_mint_request_result(pending, tx, mints[tx].state = "minted")
  /\ UNCHANGED <<reg, cfg, block, rw, pot, app, ocw, released>>

\* The LogRewardsMinted event is discovered; on_incoming_event_processed.
MintDiscovered(tx) ==
  /\ mints[tx].state = "minted" /\ ~mints[tx].credited
  /\ mints' = [mints EXCEPT ![tx].credited = TRUE]
  /\ pot' = pot + mints[tx].amount
  /\ pending' = process_rewards_minted(pending, tx)
  /\ UNCHANGED <<reg, cfg, block, rw, app, ocw, released>>

OwnerMint(amount) ==
  /\ pot' = pot + amount
  /\ pending' = process_rewards_minted(pending, 0)
  /\ UNCHANGED <<reg, cfg, block, rw, app, mints, ocw, released>>
=============================================================================
