------------------------------ MODULE AvnAnchor ------------------------------
(***************************************************************************)
(* The avn-anchor pallet: the app chains, their checkpoints, and the       *)
(* rewards they owe to the owners of nodes.  A call is an operator from    *)
(* the pallet's storage to the set of storages it may leave, empty when    *)
(* the call fails.  node-manager drives the rewards through the three      *)
(* hooks of AppChainInterface.                                             *)
(***************************************************************************)
EXTENDS NodeRegistry

CONSTANTS
  Assets,                  \* app chains' tokens, one asset and location each
  Handlers,                \* accounts that may handle a chain
  Origins,                 \* origin ids of checkpoints
  MaxRegisteredAppChains, MaxPeriodsPerPayout,
  Periods,                 \* reward period indexes (bound)
  NodeRank, PeriodRank,    \* the order in which the hashed keys are iterated
  Perquintill              \* parts of a whole share

\* promised and owing are no storage: the rates each period began with, and what
\* each owner has earned at them and was not yet paid.
EmptyAnchor(pots, balances) ==
  [handlers |-> <<>>, nextChain |-> 0, chainOf |-> <<>>, listed |-> {}, native |-> <<>>,
   rate |-> <<>>, snapshot |-> <<>>, unpaid |-> <<>>, byNode |-> {}, completed |-> {},
   cursor |-> None, pot |-> pots, purse |-> balances, fee |-> <<>>, nonces |-> <<>>,
   checkpoints |-> <<>>, byOrigin |-> <<>>,
   promised |-> <<>>, owing |-> [o \in Owners |-> [x \in Assets |-> 0]]]

Get(f, x, default) == IF x \in DOMAIN f THEN f[x] ELSE default

-----------------------------------------------------------------------------
\* App chains, their handlers and their rates.

appchain_is_active(a, asset) == Get(a.rate, asset, 0) > 0

\* Root, or the handler of the chain.
ensure_reward_manager(a, who, asset) ==
  /\ asset \in DOMAIN a.chainOf
  /\ who = None \/ Get(a.handlers, who, None) = a.chainOf[asset]

register_appchain(a, handler, asset) ==
  Ensure(/\ handler \notin DOMAIN a.handlers
         /\ asset \notin DOMAIN a.native          \* neither the location nor the id is taken
         /\ Cardinality(a.listed) < MaxRegisteredAppChains,
    {[a EXCEPT !.nextChain = @ + 1, !.handlers = @ @@ (handler :> a.nextChain),
               !.native = @ @@ (asset :> TRUE), !.chainOf = @ @@ (asset :> a.nextChain),
               !.listed = @ \cup {asset}]})

resolve_payout_token(a, asset) == Get(a.native, asset, FALSE)

set_appchain_period_reward(a, who, asset, amount) ==
  Ensure(ensure_reward_manager(a, who, asset) /\ amount > 0 /\ resolve_payout_token(a, asset),
         {[a EXCEPT !.rate = (asset :> amount) @@ @]})

disable_appchain(a, who, asset) ==
  Ensure(ensure_reward_manager(a, who, asset) /\ appchain_is_active(a, asset),
         {[a EXCEPT !.rate = Without(@, asset)]})

deregister_appchain(a, handler, asset) ==
  Ensure(/\ asset \in DOMAIN a.chainOf
         /\ Get(a.handlers, handler, None) = a.chainOf[asset]
         /\ ~appchain_is_active(a, asset)
         /\ asset \in DOMAIN a.native,
    {[a EXCEPT !.native[asset] = FALSE, !.listed = @ \ {asset},
               !.chainOf = Without(@, asset), !.handlers = Without(@, handler),
               !.rate = Without(@, asset)]})

do_update_chain_handler(a, old, new) ==
  Ensure(new \notin DOMAIN a.handlers /\ old \in DOMAIN a.handlers,
         {[a EXCEPT !.handlers = (new :> a.handlers[old]) @@ Without(@, old)]})

Bump(a, chain) == [a EXCEPT !.nonces = (chain :> Get(@, chain, 0) + 1) @@ @]

\* The payload of a relayed call names the chain and the nonce it was signed for.
signature_is_valid(a, payload) ==
  /\ payload.signer \in DOMAIN a.handlers
  /\ payload.chain = a.handlers[payload.signer]
  /\ payload.nonce = Get(a.nonces, payload.chain, 0)

signed_update_chain_handler(a, payload, new) ==
  Ensure(signature_is_valid(a, payload),
    {Bump(x, payload.chain) : x \in do_update_chain_handler(a, payload.signer, new)})

-----------------------------------------------------------------------------
\* Checkpoints.

has_checkpoint_origin(a, chain, origin) == <<chain, origin>> \in DOMAIN a.byOrigin
get_next_checkpoint_id(a, chain) == Cardinality({k \in DOMAIN a.checkpoints : k[1] = chain})

\* The fee goes to the treasury; without it the checkpoint is refused.
charge_fee(a, handler, chain) ==
  LET fee == Get(a.fee, chain, 0) IN
  Ensure(a.purse[handler] >= fee, {[a EXCEPT !.purse[handler] = @ - fee]})

do_submit_checkpoint(a, handler, chain, origin) ==
  LET id == get_next_checkpoint_id(a, chain) IN
  Ensure(~has_checkpoint_origin(a, chain, origin),
    charge_fee(Bump([a EXCEPT !.checkpoints = @ @@ (<<chain, id>> :> origin),
                              !.byOrigin = @ @@ (<<chain, origin>> :> id)], chain),
               handler, chain))

submit_checkpoint_with_identity(a, handler, origin) ==
  Ensure(handler \in DOMAIN a.handlers,
         do_submit_checkpoint(a, handler, a.handlers[handler], origin))

signed_submit_checkpoint_with_identity(a, payload, origin) ==
  Ensure(signature_is_valid(a, payload),
         do_submit_checkpoint(a, payload.signer, payload.chain, origin))

set_checkpoint_fee(a, chain, fee) == {[a EXCEPT !.fee = (chain :> fee) @@ @]}

-----------------------------------------------------------------------------
\* Rewards.

share_of(share, total) == (share * total) \div Perquintill
Funding(a, p) == {x \in Assets : <<p, x>> \in DOMAIN a.snapshot}

on_new_reward_period(a, p) ==
  LET rates == [k \in {p} \X {x \in DOMAIN a.rate : a.rate[x] > 0} |-> a.rate[k[2]]]
  IN [a EXCEPT !.snapshot = rates @@ @, !.promised = rates @@ @]

\* A period without pools leaves no record, and neither does a share of nothing.
on_reward_paid(a, p, owner, node, share) ==
  LET earned == [a EXCEPT !.owing[owner] = [x \in Assets |->
                   @[x] + share_of(share, Get(a.promised, <<p, x>>, 0))]]
  IN IF share = 0 \/ Funding(a, p) = {} THEN earned
     ELSE [earned EXCEPT
             !.unpaid = (<<p, node>> :> [owner |-> owner, share |-> share]) @@ @,
             !.byNode = @ \cup {<<node, p>>}]

Outstanding(a, p) == {k \in DOMAIN a.unpaid : k[1] = p}

\* Bug: a period's pools are reclaimed while node-manager is still recording it.
try_reclaim_period_early(a, p) ==
  IF Outstanding(a, p) # {} THEN a
  ELSE [a EXCEPT !.snapshot = Restrict(@, {k \in DOMAIN @ : k[1] # p}),
                 !.completed = @ \ {p}]

try_reclaim_period(a, p) ==
  IF p \notin a.completed \/ Outstanding(a, p) # {} THEN a
  ELSE [a EXCEPT !.snapshot = Restrict(@, {k \in DOMAIN @ : k[1] # p}),
                 !.completed = @ \ {p}]

on_reward_period_completed(a, p) ==
  try_reclaim_period([a EXCEPT !.completed = @ \cup {p}], p)

\* All of one node's chains are paid or none is; a failure keeps the record.
try_pay_node_period(a, p, node) ==
  IF <<p, node>> \notin DOMAIN a.unpaid THEN a
  ELSE LET record == a.unpaid[<<p, node>>]
           due == [x \in Assets |-> IF x \in Funding(a, p)
                                    THEN share_of(record.share, a.snapshot[<<p, x>>]) ELSE 0]
       IN IF \E x \in Assets : a.pot[x] < due[x] THEN a
          ELSE try_reclaim_period(
                 [a EXCEPT !.pot = [x \in Assets |-> @[x] - due[x]],
                           !.owing[record.owner] = [x \in Assets |-> @[x] - due[x]],
                           !.unpaid = Without(@, <<p, node>>),
                           !.byNode = @ \ {<<node, p>>}], p)

FirstN(n, seq) == SubSeq(seq, 1, IF n < Len(seq) THEN n ELSE Len(seq))

\* A claim that finds nothing fails.
claim_node(a, node, max) ==
  LET periods == SetToSortSeq({p \in Periods : <<node, p>> \in a.byNode},
                              LAMBDA p, q : PeriodRank[p] < PeriodRank[q])
  IN Ensure(periods # <<>>,
       {FoldLeft(LAMBDA x, p : try_pay_node_period(x, p, node), a, FirstN(max, periods))})

Before(j, k) == \/ PeriodRank[j[1]] < PeriodRank[k[1]]
                \/ j[1] = k[1] /\ NodeRank[j[2]] < NodeRank[k[2]]

\* The records after the cursor, as many as the budget allows; the cursor moves
\* by position, past payments that fail, and starts again at the end.
sweep(a, max) ==
  LET ahead == SetToSortSeq({k \in DOMAIN a.unpaid : a.cursor = None \/ Before(a.cursor, k)},
                            Before)
      batch == FirstN(max, ahead)
      moved == [a EXCEPT !.cursor = IF Len(ahead) < max THEN None
                                    ELSE IF batch = <<>> THEN @ ELSE Last(batch)]
  IN [app |-> FoldLeft(LAMBDA x, k : try_pay_node_period(x, k[1], k[2]), moved, batch),
      processed |-> Len(batch)]

process_outstanding_rewards(a) ==
  LET s == sweep(a, MaxPeriodsPerPayout) IN Ensure(s.processed > 0, {s.app})

on_idle(a, budget) == {sweep(a, budget).app}

-----------------------------------------------------------------------------
\* What the unpaid records of an owner are worth in a chain's token.
Accrued(a, o, x) ==
  MapThenSumSet(LAMBDA k : IF a.unpaid[k].owner = o /\ x \in Funding(a, k[1])
                           THEN share_of(a.unpaid[k].share, a.snapshot[<<k[1], x>>]) ELSE 0,
                DOMAIN a.unpaid)

\* Every accrued app-chain reward is paid exactly once, at the rate of the period
\* it was earned in, whatever claims, sweeps, rate changes, failed payments and
\* reclaims happen in between; and a period's pools are kept for exactly as long
\* as something may still be paid from them (unpaidFrom: the oldest period
\* node-manager may still record).
RewardsOwed(a, unpaidFrom) ==
  /\ \A o \in Owners, x \in Assets : a.owing[o][x] = Accrued(a, o, x)
  /\ a.byNode = {<<k[2], k[1]>> : k \in DOMAIN a.unpaid}
  /\ \A k \in DOMAIN a.snapshot : k[1] >= unpaidFrom \/ Outstanding(a, k[1]) # {}
  /\ a.completed = {p \in Periods : p < unpaidFrom /\ Outstanding(a, p) # {}}

\* A chain has one handler and a handler one chain; the handlers are those of the
\* registered assets; a checkpoint's origin is recorded once, under the id that
\* leads back to it.
ChainsInOrder(a) ==
  /\ IsInjective(a.handlers) /\ IsInjective(a.chainOf)
  /\ Range(a.handlers) = Range(a.chainOf)
  /\ a.listed = DOMAIN a.chainOf /\ DOMAIN a.rate \subseteq a.listed
  /\ \A x \in DOMAIN a.chainOf : a.native[x]
  /\ Cardinality(DOMAIN a.byOrigin) = Cardinality(DOMAIN a.checkpoints)
  /\ \A k \in DOMAIN a.byOrigin : a.checkpoints[<<k[1], a.byOrigin[k]>>] = k[2]
=============================================================================
